SPECIFICATION Spec
CONSTANTS
    Workers = {1, 2, 3}
    MaxPacketBytes = 2
    MaxInflightBytes = 4
    NoItem = NoItem
    JobLists <- Lists
    Kinds = {"thread", "process", "terminable"}
    MaxEdits = 1
    MaxFaults = 1
    MaxInterrupts = 1
INVARIANTS WithinCapacity OutcomeIsEarned QuietAtEnd
PROPERTY AlwaysEnds
CHECK_DEADLOCK FALSE
