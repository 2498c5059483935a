CONSTANTS
    Readers = {r1, r2}
    Writers = {w1, w2}
    Unreliable = {"get", "set", "bump", "writer"}
    TTL = 2
    MaxWrites = 3
SPECIFICATION CacheSafety
INVARIANTS
    InvalidatedWritesAreSeen
