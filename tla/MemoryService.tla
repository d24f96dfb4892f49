---------------------------- MODULE MemoryService ----------------------------
(***************************************************************************)
(* The memory service (src/services/memory-service/main.py): working       *)
(* memory is kept in Redis under a key, with a time to live that is set by *)
(* a second call; every other type is a row of the table memory. A search  *)
(* goes through the keys one by one, then asks PostgreSQL by similarity    *)
(* and, when anything in that fails, by text.                              *)
(*                                                                         *)
(* A memory is the call of POST /memory that stores it. Contents, scores,  *)
(* embeddings and the cut at top_k only decide which of the memories that  *)
(* could be found are found, which is a choice here. Time is in ticks that *)
(* are long compared to a call of Redis: a tick may fall between two calls *)
(* of a handler, a second one may not.                                     *)
(***************************************************************************)
EXTENDS Integers, FiniteSets

CONSTANTS
  Working,            \* calls of POST /memory of type working
  Lasting,            \* calls of POST /memory of another type
  Searches,           \* calls of POST /memory/search
  keyOf,              \* working memory -> its key of Redis
  None,               \* no memory
  WORKING_MEMORY_TTL, \* in ticks
  MaxLeft,            \* bound: ticks until the expires_at of an entry
  MaxFaults           \* bound: calls of a store that fail, and evicted keys

Memories == Working \cup Lasting
Keys == {keyOf[m] : m \in Working}
Never == -1   \* no expiry

ASSUME KindsAssumption == Working \cap Lasting = {} /\ None \notin Memories
ASSUME TtlAssumption == WORKING_MEMORY_TTL \in Nat /\ WORKING_MEMORY_TTL >= 2
ASSUME BoundsAssumption == MaxLeft \in Nat /\ MaxFaults \in Nat

VARIABLES
  stage,     \* memory -> where the call that stores it is
  hash,      \* key -> the memory in its hash, or None
  ttl,       \* key -> ticks to live, Never, or 0 when there is no such key
  row,       \* lasting memory -> absent, live, archived, or deleted
  left,      \* lasting memory -> ticks until expires_at, or Never
  wants,     \* search -> kinds of memory it asks for (never changes)
  search,    \* search -> where it is
  todo,      \* search -> keys the scan has yet to come to
  hits,      \* search -> rows selected whose access is not counted yet
  found,     \* search -> results
  fell,      \* searches that fell back to text
  lost,      \* search -> memories that were gone when it began
  stowed,    \* search -> memories that were archived when it began
  faults

store == <<stage, hash, ttl, row, left>>
query == <<wants, search, todo, hits, found, fell, lost, stowed>>
vars == <<store, query, faults>>

\* What can be found of a row: the text search does not look at archived.
Unexpired == {m \in Lasting : left[m] # 0}
Live == {m \in Unexpired : row[m] = "live"}
Readable == {m \in Unexpired : row[m] \in {"live", "archived"}}

\* The life of a memory: before anything is stored, while it can be found, after.
Kept(m) == IF m \in Working THEN hash[keyOf[m]] = m ELSE m \in Readable
LifeOf(m) ==
  IF Kept(m) THEN "kept" ELSE IF stage[m] \in {"none", "storing"} THEN "absent" ELSE "gone"
Gone == {m \in Memories : LifeOf(m) = "gone"}

Init ==
  /\ stage = [m \in Memories |-> "none"]
  /\ hash = [k \in Keys |-> None]
  /\ ttl = [k \in Keys |-> 0]
  /\ row = [m \in Lasting |-> "absent"]
  /\ left \in [Lasting -> Never .. MaxLeft]
  /\ wants \in [Searches -> SUBSET {"working", "lasting"} \ {{}}]
  /\ search = [q \in Searches |-> "idle"]
  /\ todo = [q \in Searches |-> {}]
  /\ hits = [q \in Searches |-> {}]
  /\ found = [q \in Searches |-> {}]
  /\ fell = {}
  /\ lost = [q \in Searches |-> {}]
  /\ stowed = [q \in Searches |-> {}]
  /\ faults = 0

Fault == faults < MaxFaults /\ faults' = faults + 1

-----------------------------------------------------------------------------
(* Storing. *)

Store(m) ==
  /\ stage[m] = "none"
  /\ stage' = [stage EXCEPT ![m] = "storing"]
  /\ UNCHANGED <<hash, ttl, row, left, query, faults>>

\* Redis: HSET makes the hash or overwrites its fields, and keeps the time to live.
HashSet(m) ==
  LET k == keyOf[m] IN
  /\ hash' = [hash EXCEPT ![k] = m]
  /\ ttl' = [ttl EXCEPT ![k] = IF hash[k] = None THEN Never ELSE @]

\* Redis: EXPIRE does nothing when there is no such key.
Expires(m) ==
  LET k == keyOf[m] IN ttl' = [ttl EXCEPT ![k] = IF hash[k] = None THEN 0 ELSE WORKING_MEMORY_TTL]

HSet(m) ==
  /\ m \in Working
  /\ stage[m] = "storing"
  /\ HashSet(m)
  /\ stage' = [stage EXCEPT ![m] = "expiring"]
  /\ UNCHANGED <<row, left, query, faults>>

\* Mutant: answered after HSET, the time to live is left out.
Expire_LeftOut(m) ==
  /\ stage[m] \in {"expiring", "late"}
  /\ stage' = [stage EXCEPT ![m] = "answered"]
  /\ UNCHANGED <<hash, ttl, row, left, query, faults>>

\* Mutant: one tick too many.
Expire_Long(m) ==
  LET k == keyOf[m] IN
  /\ stage[m] \in {"expiring", "late"}
  /\ ttl' = [ttl EXCEPT ![k] = IF hash[k] = None THEN 0 ELSE WORKING_MEMORY_TTL + 1]
  /\ stage' = [stage EXCEPT ![m] = "answered"]
  /\ UNCHANGED <<hash, row, left, query, faults>>

Expire(m) ==
  /\ m \in Working
  /\ stage[m] \in {"expiring", "late"}
  /\ Expires(m)
  /\ stage' = [stage EXCEPT ![m] = "answered"]
  /\ UNCHANGED <<hash, row, left, query, faults>>

\* A call of Redis raises, before or after it had its effect, or the process dies.
RedisFails(m) ==
  /\ m \in Working
  /\ Fault
  /\ \/ stage[m] = "storing" /\ HashSet(m)
     \/ stage[m] \in {"expiring", "late"} /\ Expires(m) /\ UNCHANGED hash
     \/ stage[m] \in {"storing", "expiring", "late"} /\ UNCHANGED <<hash, ttl>>
  /\ stage' = [stage EXCEPT ![m] = "failed"]
  /\ UNCHANGED <<row, left, query>>

\* Redis evicts any key when its memory is full (allkeys-lru).
Evict(k) ==
  /\ hash[k] # None
  /\ Fault
  /\ hash' = [hash EXCEPT ![k] = None]
  /\ ttl' = [ttl EXCEPT ![k] = 0]
  /\ UNCHANGED <<stage, row, left, query>>

\* A failed embedding is logged, and the row stored without it.
Insert(m) ==
  /\ m \in Lasting
  /\ stage[m] = "storing"
  /\ row' = [row EXCEPT ![m] = "live"]
  /\ stage' = [stage EXCEPT ![m] = "answered"]
  /\ UNCHANGED <<hash, ttl, left, query, faults>>

InsertFails(m) ==
  /\ m \in Lasting
  /\ stage[m] = "storing"
  /\ Fault
  /\ row' \in {row, [row EXCEPT ![m] = "live"]}
  /\ stage' = [stage EXCEPT ![m] = "failed"]
  /\ UNCHANGED <<hash, ttl, left, query>>

-----------------------------------------------------------------------------
(* Removing. *)

\* DELETE of a row; working memory has no row, and stays.
Delete(m) ==
  /\ row[m] \in {"live", "archived"}
  /\ row' = [row EXCEPT ![m] = "deleted"]
  /\ UNCHANGED <<stage, hash, ttl, left, query, faults>>

Archive(m) ==
  /\ row[m] = "live"
  /\ row' = [row EXCEPT ![m] = "archived"]
  /\ UNCHANGED <<stage, hash, ttl, left, query, faults>>

\* Time passes: keys and entries come closer to their end. A call under way is
\* late after one tick, and answered before the next.
Tick ==
  /\ \A m \in Working : stage[m] # "late"
  /\ \/ \E k \in Keys : ttl[k] > 0
     \/ \E m \in Lasting : left[m] > 0
  /\ ttl' = [k \in Keys |-> IF ttl[k] > 0 THEN ttl[k] - 1 ELSE ttl[k]]
  /\ hash' = [k \in Keys |-> IF ttl[k] = 1 THEN None ELSE hash[k]]
  /\ left' = [m \in Lasting |-> IF left[m] > 0 THEN left[m] - 1 ELSE left[m]]
  /\ stage' = [m \in Memories |-> IF stage[m] = "expiring" THEN "late" ELSE stage[m]]
  /\ UNCHANGED <<row, query, faults>>

-----------------------------------------------------------------------------
(* Searching. *)

\* Where a search goes on after the scan of working memory.
AfterScan(q) == IF "lasting" \in wants[q] THEN "selecting" ELSE "answered"
Goes(q, s) == search' = [search EXCEPT ![q] = s]
Finds(q, R) == found' = [found EXCEPT ![q] = @ \cup R]

Begin(q) ==
  /\ search[q] = "idle"
  /\ Goes(q, IF "working" \in wants[q] THEN "scanning" ELSE "selecting")
  /\ todo' = [todo EXCEPT ![q] = Keys]
  /\ lost' = [lost EXCEPT ![q] = Gone]
  /\ stowed' = [stowed EXCEPT ![q] = {m \in Lasting : row[m] = "archived"}]
  /\ UNCHANGED <<store, wants, hits, found, fell, faults>>

\* Mutant: the scan answers from a copy of what the service has stored.
Scan_Cached(q, k) ==
  /\ search[q] = "scanning"
  /\ k \in todo[q]
  /\ todo' = [todo EXCEPT ![q] = @ \ {k}]
  /\ \E R \in SUBSET {m \in Working : keyOf[m] = k /\ stage[m] = "answered"} : Finds(q, R)
  /\ UNCHANGED <<store, wants, search, hits, fell, lost, stowed, faults>>

\* The next key of SCAN: what HGETALL returns, if anything, matches or not.
Scan(q, k) ==
  /\ search[q] = "scanning"
  /\ k \in todo[q]
  /\ todo' = [todo EXCEPT ![q] = @ \ {k}]
  /\ \E R \in SUBSET ({hash[k]} \ {None}) : Finds(q, R)
  /\ UNCHANGED <<store, wants, search, hits, fell, lost, stowed, faults>>

\* The scan is over, or raises and keeps what it has.
ScanEnds(q) ==
  /\ search[q] = "scanning"
  /\ \/ todo[q] = {} /\ UNCHANGED faults
     \/ Fault
  /\ Goes(q, AfterScan(q))
  /\ UNCHANGED <<store, wants, todo, hits, found, fell, lost, stowed>>

\* Mutant: the query by similarity forgets archived as well.
Select_Archived(q) ==
  /\ search[q] = "selecting"
  /\ \E R \in SUBSET Readable :
       /\ hits' = [hits EXCEPT ![q] = R]
       /\ Goes(q, IF R = {} THEN "answered" ELSE "counting")
  /\ UNCHANGED <<store, wants, todo, found, fell, lost, stowed, faults>>

\* The query by similarity.
Select(q) ==
  /\ search[q] = "selecting"
  /\ \E R \in SUBSET Live :
       /\ hits' = [hits EXCEPT ![q] = R]
       /\ Goes(q, IF R = {} THEN "answered" ELSE "counting")
  /\ UNCHANGED <<store, wants, todo, found, fell, lost, stowed, faults>>

\* The query's embedding or the SELECT raises.
SelectFails(q) ==
  /\ search[q] = "selecting"
  /\ Goes(q, "falling")
  /\ UNCHANGED <<store, wants, todo, hits, found, fell, lost, stowed, faults>>

\* A second transaction counts the accesses (access_count only ranks), and the search
\* answers.
Count(q) ==
  /\ search[q] = "counting"
  /\ Finds(q, hits[q])
  /\ Goes(q, "answered")
  /\ UNCHANGED <<store, wants, todo, hits, fell, lost, stowed, faults>>

\* It raises, committed or not: the rows selected are dropped, and asked for by text.
CountFails(q) ==
  /\ search[q] = "counting"
  /\ Fault
  /\ Goes(q, "falling")
  /\ UNCHANGED <<store, wants, todo, hits, found, fell, lost, stowed>>

Fallback(q) ==
  /\ search[q] = "falling"
  /\ \E R \in SUBSET Readable : Finds(q, R)
  /\ fell' = fell \cup {q}
  /\ Goes(q, "answered")
  /\ UNCHANGED <<store, wants, todo, hits, lost, stowed, faults>>

FallbackFails(q) ==
  /\ search[q] = "falling"
  /\ Fault
  /\ Goes(q, "failed")
  /\ UNCHANGED <<store, wants, todo, hits, found, fell, lost, stowed>>

-----------------------------------------------------------------------------
Storing(m) == Store(m) \/ HSet(m) \/ Expire(m) \/ Insert(m)
Searching(q) ==
  \/ \E k \in Keys : Scan(q, k)
  \/ ScanEnds(q) \/ Select(q) \/ Count(q) \/ Fallback(q)

Next ==
  \/ \E m \in Memories : Storing(m) \/ RedisFails(m) \/ InsertFails(m)
  \/ \E m \in Lasting : Delete(m) \/ Archive(m)
  \/ \E k \in Keys : Evict(k)
  \/ \E q \in Searches : Begin(q) \/ Searching(q) \/ SelectFails(q) \/ CountFails(q) \/ FallbackFails(q)
  \/ Tick

Spec == Init /\ [][Next]_vars

-----------------------------------------------------------------------------
(* Properties. *)

\* Types; there is a hash exactly when there is a key.
TypeOK ==
  /\ stage \in [Memories -> {"none", "storing", "expiring", "late", "answered", "failed"}]
  /\ hash \in [Keys -> Working \cup {None}]
  /\ ttl \in [Keys -> Never .. WORKING_MEMORY_TTL]
  /\ \A k \in Keys : ttl[k] = 0 <=> hash[k] = None
  /\ \A k \in Keys : hash[k] # None => keyOf[hash[k]] = k
  /\ row \in [Lasting -> {"absent", "live", "archived", "deleted"}]
  /\ left \in [Lasting -> Never .. MaxLeft]
  /\ wants \in [Searches -> SUBSET {"working", "lasting"}]
  /\ search \in [Searches -> {"idle", "scanning", "selecting", "counting", "falling",
                              "answered", "failed"}]
  /\ todo \in [Searches -> SUBSET Keys]
  /\ hits \in [Searches -> SUBSET Lasting]
  /\ found \in [Searches -> SUBSET Memories]
  /\ fell \subseteq Searches
  /\ lost \in [Searches -> SUBSET Memories]
  /\ stowed \in [Searches -> SUBSET Lasting]
  /\ faults \in 0 .. MaxFaults

\* "Redis (ephemeral, current task context)" (memory-service/main.py:5): without a
\* failed call between HSET and EXPIRE (:147-148), whatever stores meet under one
\* key, no key lives for ever.
NoEternalKey ==
  \A k \in Keys :
    ttl[k] = Never /\ faults = 0 =>
      \E m \in Working : keyOf[m] = k /\ stage[m] \in {"expiring", "late"}

\* An archived memory is found only by the text search, which does not filter it
\* (:359-368 against :295).
ArchivedOnlyByText ==
  \A q \in Searches : found[q] \cap stowed[q] # {} => q \in fell

\* What is found (:224-225) was kept at some time during the search, whichever store
\* keeps it and however it is found; what is gone does not come back.
Promise == INSTANCE MemoryPromise WITH
  life <- [m \in Memories |-> LifeOf(m)],
  search <- [q \in Searches |->
               IF search[q] \in {"idle", "answered", "failed"} THEN search[q] ELSE "running"]

KeepsItsPromise == Promise!Spec
=============================================================================
