SPECIFICATION Spec
CONSTANTS
    plain = plain  linked = linked  shared = shared
    Writers = {inplace, staged}
    Staged = {staged}
    Readers = {r}
    Objects = {plain, linked, shared}
    Roots = {plain, linked}
    Jobs <- OneReport
    Child <- SharedNodes
    Reach <- AllNodes
    Portable = {shared}
    Inodes = {1, 2, 3}
    NoInode = 0
    NoWriter = NoWriter
    MaxFaults = 1
INVARIANTS TypeOK NeverMissing
PROPERTIES CacheNeverHides OnlyForeignDamage AppendOnly LockIsReleased
