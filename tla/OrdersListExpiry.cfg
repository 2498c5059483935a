CONSTANTS
    Readers = {r1, r2}
    Writers = {w1}
    Unreliable = {"version", "get", "set", "bump", "writer", "memory"}
    TTL = 2
    MaxWrites = 2
SPECIFICATION CacheSpec
INVARIANTS
    CacheTypeOK
PROPERTIES
    OldListsExpire
