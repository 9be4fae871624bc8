SPECIFICATION Spec
CONSTANTS
    Daily = Daily
    Child = Child
    Nobody = Nobody
    DailyModel = "v6"
    None = None
    Versions = {v1, v2}
    Listings = {full, part}
    Full = {full}
    LastDay = 2
    MaxResults = 2
    MaxEvents = 2
    Collectors = {c1, c2}
INVARIANTS TypeOK NothingDangling PublishedInOrder OneVersion UniverseIsFrozen EvaluationsAreFinal
SYMMETRY Symmetry
