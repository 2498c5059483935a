---------------------------- MODULE OrdersListCache ----------------------------
(***************************************************************************)
(* The list of orders behind its Redis cache (OrdersCacheService,          *)
(* RedisCacheService).  A list is stored under the version of the          *)
(* namespace "orders:list"; writers of orders bump that version after      *)
(* their write and never touch the entries, which expire.                  *)
(*                                                                         *)
(* One query of one user is modelled: every query has a key of its own.    *)
(* The content of a list is the number of writes it reflects.              *)
(***************************************************************************)
EXTENDS Naturals

CONSTANTS
    Readers,     \* concurrent GET /orders of one query
    Writers,     \* concurrent requests that change what the list shows
    Unreliable,  \* what may fail, a subset of Parts
    TTL,         \* lifetime of an entry, in ticks
    MaxWrites    \* bound on the writes

\* The Redis commands by their use, a writer between its write and its bump,
\* and the memory of Redis.
Parts == {"version", "get", "set", "bump", "writer", "memory"}

ASSUME CacheAssumption ==
    /\ Unreliable \subseteq Parts
    /\ TTL \in Nat \ {0}
    /\ MaxWrites \in Nat

VARIABLES
    writes,   \* writes committed to the database
    counter,  \* the key of the namespace's version, 0 when absent
    entries,  \* the stored lists
    reader,   \* reader[r]: where read r stands
    writer,   \* writer[w]: where write w stands
    floor     \* writes covered by the last bump that succeeded (history)

cacheVars == <<writes, counter, entries, reader, writer, floor>>

Version == Nat \ {0}

\* left is the remaining lifetime.
Entry == [version : Version, list : Nat, left : 1 .. TTL]

\* since is the floor when the read began.
Reader == [step : {"idle", "exists", "version", "get", "load", "set",
                   "answered"},
           version : Version, list : Nat, since : Nat]

CacheTypeOK ==
    /\ writes \in Nat
    /\ counter \in Nat
    /\ entries \subseteq Entry
    /\ \A e, f \in entries : e.version = f.version => e = f
    /\ reader \in [Readers -> Reader]
    /\ writer \in [Writers -> {"idle", "exists", "incr"}]
    /\ floor \in Nat

DEFAULT_CACHE_NAMESPACE_VERSION == 1

ReadAt(s, v, l, f) == [step |-> s, version |-> v, list |-> l, since |-> f]

CacheInit ==
    /\ writes = 0
    /\ counter = 0
    /\ entries = {}
    /\ reader = [r \in Readers |->
                   ReadAt("idle", DEFAULT_CACHE_NAMESPACE_VERSION, 0, 0)]
    /\ writer = [w \in Writers |-> "idle"]
    /\ floor = 0

-----------------------------------------------------------------------------
(* Helpers *)

Move(r, s, v, l) == reader' = [reader EXCEPT ![r] = ReadAt(s, v, l, reader[r].since)]

\* SET version 1 NX
EnsureVersion == counter' = IF counter = 0 THEN 1 ELSE counter

\* Mutant: an absent version is read as 0.
parseVersionUnchecked(raw) == raw

parseVersion(raw) == IF raw = 0 THEN DEFAULT_CACHE_NAMESPACE_VERSION ELSE raw

-----------------------------------------------------------------------------
(* OrdersCacheService.rememberList *)

BeginRead(r) ==
    /\ reader[r].step \in {"idle", "answered"}
    /\ reader' = [reader EXCEPT ![r] =
                    ReadAt("exists", DEFAULT_CACHE_NAMESPACE_VERSION, 0, floor)]
    /\ UNCHANGED <<writes, counter, entries, writer, floor>>

\* getNamespaceVersion; when a command fails the version is the default one.
ReadVersion(r) ==
    /\ \/ /\ reader[r].step = "exists"
          /\ EnsureVersion
          /\ Move(r, "version", DEFAULT_CACHE_NAMESPACE_VERSION, 0)
       \/ /\ reader[r].step = "version"
          /\ Move(r, "get", parseVersion(counter), 0)
          /\ UNCHANGED counter
       \/ /\ reader[r].step \in {"exists", "version"}
          /\ "version" \in Unreliable
          /\ Move(r, "get", DEFAULT_CACHE_NAMESPACE_VERSION, 0)
          /\ UNCHANGED counter
    /\ UNCHANGED <<writes, entries, writer, floor>>

\* Mutant: a hit renews the lifetime of its entry.
GetListSliding(r) ==
    /\ reader[r].step = "get"
    /\ LET hits == {e \in entries : e.version = reader[r].version}
       IN  IF hits = {} THEN /\ Move(r, "load", reader[r].version, 0)
                             /\ UNCHANGED entries
           ELSE \E e \in hits :
                  /\ Move(r, "answered", e.version, e.list)
                  /\ entries' = (entries \ {e}) \union {[e EXCEPT !.left = TTL]}
    /\ UNCHANGED <<writes, counter, writer, floor>>

\* get: a hit answers; a miss, or a command that fails, runs the loader.
GetList(r) ==
    /\ reader[r].step = "get"
    /\ \/ \E e \in entries :
             /\ e.version = reader[r].version
             /\ Move(r, "answered", e.version, e.list)
       \/ /\ \/ "get" \in Unreliable
             \/ \A e \in entries : e.version # reader[r].version
          /\ Move(r, "load", reader[r].version, 0)
    /\ UNCHANGED <<writes, counter, entries, writer, floor>>

LoadList(r) ==
    /\ reader[r].step = "load"
    /\ Move(r, "set", reader[r].version, writes)
    /\ UNCHANGED <<writes, counter, entries, writer, floor>>

Store(v, l) ==
    entries' = {e \in entries : e.version # v}
                 \union {[version |-> v, list |-> l, left |-> TTL]}

\* Mutant: the key is built when the list is stored.
StoreListLateKey(r) ==
    /\ reader[r].step = "set"
    /\ Move(r, "answered", reader[r].version, reader[r].list)
    /\ Store(parseVersion(counter), reader[r].list)
    /\ UNCHANGED <<writes, counter, writer, floor>>

\* set, whose failure is only logged
StoreList(r) ==
    /\ reader[r].step = "set"
    /\ Move(r, "answered", reader[r].version, reader[r].list)
    /\ \/ Store(reader[r].version, reader[r].list)
       \/ "set" \in Unreliable /\ UNCHANGED entries
    /\ UNCHANGED <<writes, counter, writer, floor>>

-----------------------------------------------------------------------------
(* Requests that change orders, shipments, notes or replacements *)

Write(w) ==
    /\ writer[w] = "idle"
    /\ writes < MaxWrites
    /\ writes' = writes + 1
    /\ writer' = [writer EXCEPT ![w] = "exists"]
    /\ UNCHANGED <<counter, entries, reader, floor>>

\* CostsService changes the costs a list shows and bumps nothing.
WriteCosts ==
    /\ writes < MaxWrites
    /\ writes' = writes + 1
    /\ UNCHANGED <<counter, entries, reader, writer, floor>>

\* bumpNamespaceVersion: SET NX, then INCR; a failure is only logged.
BumpVersion(w) ==
    /\ \/ /\ writer[w] = "exists"
          /\ EnsureVersion
          /\ writer' = [writer EXCEPT ![w] = "incr"]
          /\ UNCHANGED floor
       \/ /\ writer[w] = "incr"
          /\ counter' = counter + 1
          /\ floor' = writes
          /\ writer' = [writer EXCEPT ![w] = "idle"]
       \/ /\ writer[w] \in {"exists", "incr"}
          /\ "bump" \in Unreliable
          /\ writer' = [writer EXCEPT ![w] = "idle"]
          /\ UNCHANGED <<counter, floor>>
    /\ UNCHANGED <<writes, entries, reader>>

\* A call between the write and the bump (the note of the order) throws.
AbandonWrite(w) ==
    /\ "writer" \in Unreliable
    /\ writer[w] = "exists"
    /\ writer' = [writer EXCEPT ![w] = "idle"]
    /\ UNCHANGED <<writes, counter, entries, reader, floor>>

-----------------------------------------------------------------------------
(* Redis *)

\* EX: a stored list lives TTL ticks.
Tick ==
    /\ entries # {}
    /\ entries' = {[e EXCEPT !.left = @ - 1] : e \in {f \in entries : f.left > 1}}
    /\ UNCHANGED <<writes, counter, reader, writer, floor>>

\* Redis restarts without its data, or evicts the version alone.
LoseMemory ==
    /\ "memory" \in Unreliable
    /\ counter # 0
    /\ counter' = 0
    /\ entries' \in {entries, {}}
    /\ UNCHANGED <<writes, reader, writer, floor>>

ContinueRead(r) == ReadVersion(r) \/ GetList(r) \/ LoadList(r) \/ StoreList(r)

CacheNext ==
    \/ \E r \in Readers : BeginRead(r) \/ ContinueRead(r)
    \/ \E w \in Writers : Write(w) \/ BumpVersion(w) \/ AbandonWrite(w)
    \/ WriteCosts
    \/ Tick
    \/ LoseMemory

\* A read that began is run to its end, and time passes.
CacheFairness ==
    /\ \A r \in Readers : WF_cacheVars(ContinueRead(r))
    /\ WF_cacheVars(Tick)

CacheSafety == CacheInit /\ [][CacheNext]_cacheVars

CacheSpec == CacheSafety /\ CacheFairness

-----------------------------------------------------------------------------
(* Properties *)

\* A list answered to a read that began after a write was invalidated shows
\* that write, although entries are never deleted and a slow reader may store
\* an old list after the bump.  Needs the version: see README.
InvalidatedWritesAreSeen ==
    \A r \in Readers :
        reader[r].step = "answered" => reader[r].list >= reader[r].since

\* Whatever fails, a cached list that misses a write does not stay: once
\* writes stop, every stored list is the current one.
OldListsExpire == <>[](\A e \in entries : e.list = writes)
=============================================================================
