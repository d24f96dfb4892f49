------------------------- MODULE MemoryServiceProofs -------------------------
(***************************************************************************)
(* Proofs about MemoryService, for any memories, keys, searches, times and *)
(* failures.                                                               *)
(***************************************************************************)
EXTENDS MemoryService, TLAPS

StoreStep ==
  \/ \E m \in Memories : Store(m) \/ HSet(m) \/ Expire(m) \/ Insert(m) \/ RedisFails(m) \/ InsertFails(m)
  \/ \E m \in Lasting : Delete(m) \/ Archive(m)
  \/ \E k \in Keys : Evict(k)
  \/ Tick

QueryStep(q) ==
  \/ Begin(q) \/ (\E k \in Keys : Scan(q, k)) \/ ScanEnds(q)
  \/ Select(q) \/ SelectFails(q) \/ Count(q) \/ CountFails(q) \/ Fallback(q) \/ FallbackFails(q)

LEMMA NextSplits == Next => StoreStep \/ \E q \in Searches : QueryStep(q)
BY DEF Next, StoreStep, QueryStep, Storing, Searching

LEMMA QueriesKeepStore == ASSUME NEW q \in Searches, QueryStep(q) PROVE UNCHANGED store
BY DEF QueryStep, Begin, Scan, ScanEnds, Select, SelectFails, Count, CountFails, Fallback,
       FallbackFails

-----------------------------------------------------------------------------
(* Types. *)

StoreType ==
  /\ stage \in [Memories -> {"none", "storing", "expiring", "late", "answered", "failed"}]
  /\ hash \in [Keys -> Working \cup {None}]
  /\ ttl \in [Keys -> Never .. WORKING_MEMORY_TTL]
  /\ \A k \in Keys : ttl[k] = 0 <=> hash[k] = None
  /\ \A k \in Keys : hash[k] # None => keyOf[hash[k]] = k
  /\ row \in [Lasting -> {"absent", "live", "archived", "deleted"}]
  /\ left \in [Lasting -> Never .. MaxLeft]

QueryType ==
  /\ wants \in [Searches -> SUBSET {"working", "lasting"}]
  /\ search \in [Searches -> {"idle", "scanning", "selecting", "counting", "falling",
                              "answered", "failed"}]
  /\ todo \in [Searches -> SUBSET Keys]
  /\ hits \in [Searches -> SUBSET Lasting]
  /\ found \in [Searches -> SUBSET Memories]
  /\ fell \subseteq Searches
  /\ lost \in [Searches -> SUBSET Memories]
  /\ stowed \in [Searches -> SUBSET Lasting]

LEMMA TypeParts == TypeOK <=> StoreType /\ QueryType /\ faults \in 0 .. MaxFaults
BY DEF TypeOK, StoreType, QueryType

LEMMA InitType == Init => TypeOK
<1> SUFFICES ASSUME Init PROVE TypeOK
  OBVIOUS
<1> USE KindsAssumption, TtlAssumption, BoundsAssumption
<1>1. StoreType
  BY DEF Init, StoreType, Never, Memories
<1>2. QueryType
  BY DEF Init, QueryType
<1> QED
  BY <1>1, <1>2, TypeParts DEF Init

LEMMA StoreTypeStep == ASSUME StoreType, StoreStep PROVE StoreType'
<1> USE KindsAssumption, TtlAssumption, BoundsAssumption DEF StoreType, Memories, Never
<1>1. ASSUME NEW m \in Memories, Store(m) PROVE StoreType'
  BY <1>1 DEF Store
<1>2. ASSUME NEW m \in Memories, HSet(m) PROVE StoreType'
  BY <1>2 DEF HSet, HashSet, Keys
<1>3. ASSUME NEW m \in Memories, Expire(m) PROVE StoreType'
  BY <1>3 DEF Expire, Expires, Keys
<1>4. ASSUME NEW m \in Memories, Insert(m) PROVE StoreType'
  BY <1>4 DEF Insert
<1>5. ASSUME NEW m \in Memories, RedisFails(m) PROVE StoreType'
  BY <1>5 DEF RedisFails, HashSet, Expires, Keys
<1>6. ASSUME NEW m \in Memories, InsertFails(m) PROVE StoreType'
  BY <1>6 DEF InsertFails
<1>7. ASSUME NEW m \in Lasting, Delete(m) \/ Archive(m) PROVE StoreType'
  BY <1>7 DEF Delete, Archive
<1>8. ASSUME NEW k \in Keys, Evict(k) PROVE StoreType'
  BY <1>8 DEF Evict
<1>9. CASE Tick
  <2>1. ttl' \in [Keys -> Never .. WORKING_MEMORY_TTL] /\ left' \in [Lasting -> Never .. MaxLeft]
    BY <1>9 DEF Tick
  <2>2. /\ stage' \in [Memories -> {"none", "storing", "expiring", "late", "answered", "failed"}]
        /\ row' = row
    BY <1>9 DEF Tick
  <2>3. \A k \in Keys : /\ hash'[k] = IF ttl[k] = 1 THEN None ELSE hash[k]
                        /\ ttl'[k] = IF ttl[k] > 0 THEN ttl[k] - 1 ELSE ttl[k]
                        /\ ttl[k] \in Never .. WORKING_MEMORY_TTL
    BY <1>9 DEF Tick
  <2>4. hash' \in [Keys -> Working \cup {None}]
    BY <1>9 DEF Tick
  <2>5. \A k \in Keys : ttl'[k] = 0 <=> hash'[k] = None
    BY <2>3
  <2>6. \A k \in Keys : hash'[k] # None => keyOf[hash'[k]] = k
    BY <2>3
  <2> QED
    BY <2>1, <2>2, <2>4, <2>5, <2>6
<1> QED
  BY <1>1, <1>2, <1>3, <1>4, <1>5, <1>6, <1>7, <1>8, <1>9 DEF StoreStep

LEMMA StoreKeepsQueries == StoreStep => UNCHANGED query
BY DEF StoreStep, Store, HSet, Expire, Insert, RedisFails, InsertFails, Delete, Archive, Evict, Tick

LEMMA FaultsType == ASSUME TypeOK, [Next]_vars PROVE faults' \in 0 .. MaxFaults
BY BoundsAssumption
   DEF TypeOK, Next, vars, Storing, Searching, Fault, Store, HSet, Expire, Insert, RedisFails,
       InsertFails, Delete, Archive, Evict, Tick, Begin, Scan, ScanEnds, Select, SelectFails, Count,
       CountFails, Fallback, FallbackFails

LEMMA FaultsOnlyGrow ==
  ASSUME TypeOK, StoreStep \/ \E q \in Searches : QueryStep(q)
  PROVE  faults' = 0 => faults = 0
BY DEF TypeOK, StoreStep, QueryStep, Fault, Store, HSet, Expire, Insert, RedisFails, InsertFails,
       Delete, Archive, Evict, Tick, Begin, Scan, ScanEnds, Select, SelectFails, Count, CountFails,
       Fallback, FallbackFails

LEMMA QueryTypeStep ==
  ASSUME StoreType, QueryType, NEW q \in Searches, QueryStep(q)
  PROVE  QueryType'
<1> USE DEF QueryType
<1>1. CASE Begin(q)
  BY <1>1 DEF Begin, Goes, Gone
<1>2. ASSUME NEW k \in Keys, Scan(q, k) PROVE QueryType'
  BY <1>2 DEF Scan, Finds, Memories, StoreType
<1>3. CASE ScanEnds(q)
  BY <1>3 DEF ScanEnds, Goes, AfterScan
<1>4. CASE Select(q)
  BY <1>4 DEF Select, Goes, Live, Unexpired
<1>5. CASE SelectFails(q) \/ CountFails(q) \/ FallbackFails(q)
  BY <1>5 DEF SelectFails, CountFails, FallbackFails, Goes
<1>6. CASE Count(q)
  BY <1>6 DEF Count, Goes, Finds, Memories
<1>7. CASE Fallback(q)
  BY <1>7 DEF Fallback, Goes, Finds, Memories, Readable, Unexpired
<1> QED
  BY <1>1, <1>2, <1>3, <1>4, <1>5, <1>6, <1>7 DEF QueryStep

LEMMA TypeStep == TypeOK /\ [Next]_vars => TypeOK'
<1> SUFFICES ASSUME TypeOK, [Next]_vars PROVE TypeOK'
  OBVIOUS
<1>1. StoreType /\ QueryType
  BY TypeParts
<1>2. CASE UNCHANGED vars
  BY <1>2 DEF vars, store, query, TypeOK
<1>3. CASE StoreStep
  <2>1. StoreType'
    BY <1>1, <1>3, StoreTypeStep
  <2>2. QueryType'
    BY <1>1, <1>3, StoreKeepsQueries DEF QueryType, query
  <2> QED
    BY <2>1, <2>2, FaultsType DEF TypeOK, StoreType, QueryType
<1>4. ASSUME NEW q \in Searches, QueryStep(q) PROVE TypeOK'
  <2>1. StoreType'
    BY <1>1, <1>4, QueriesKeepStore DEF StoreType, store
  <2>2. QueryType'
    BY <1>1, <1>4, QueryTypeStep
  <2> QED
    BY <2>1, <2>2, FaultsType DEF TypeOK, StoreType, QueryType
<1> QED
  BY <1>2, <1>3, <1>4, NextSplits

\* Types; there is a hash exactly when there is a key.
THEOREM TypeCorrect == Spec => []TypeOK
<1>1. Init => TypeOK
  BY InitType
<1>2. TypeOK /\ [Next]_vars => TypeOK'
  BY TypeStep
<1> QED
  BY <1>1, <1>2, PTL DEF Spec

-----------------------------------------------------------------------------
(* Keys that never expire. *)

LEMMA NoEternalKeyStep ==
  ASSUME TypeOK, NoEternalKey, [Next]_vars
  PROVE  NoEternalKey'
<1> USE KindsAssumption, TtlAssumption DEF NoEternalKey
<1>1. CASE UNCHANGED vars
  BY <1>1 DEF vars, store
<1>2. ASSUME NEW q \in Searches, QueryStep(q) PROVE NoEternalKey'
  <2>1. UNCHANGED store /\ (faults' = 0 => faults = 0)
    BY <1>2, QueriesKeepStore, FaultsOnlyGrow
  <2> QED
    BY <2>1 DEF store
<1>3. CASE StoreStep
  <2>0. faults' = 0 => faults = 0
    BY <1>3, FaultsOnlyGrow
  <2> SUFFICES ASSUME NEW k \in Keys, ttl'[k] = Never, faults' = 0
               PROVE  \E m \in Working : keyOf[m] = k /\ stage'[m] \in {"expiring", "late"}
    BY DEF Keys
  <2> USE <2>0 DEF TypeOK, Memories, Never
  <2>1. ASSUME NEW m \in Memories, HSet(m)
        PROVE  \E n \in Working : keyOf[n] = k /\ stage'[n] \in {"expiring", "late"}
    <3>1. CASE keyOf[m] = k
      BY <2>1, <3>1 DEF HSet
    <3>2. CASE keyOf[m] # k
      <4>1. ttl[k] = Never /\ faults = 0
        BY <2>1, <3>2 DEF HSet, HashSet
      <4>2. PICK n \in Working : keyOf[n] = k /\ stage[n] \in {"expiring", "late"}
        BY <4>1
      <4> QED
        BY <2>1, <3>2, <4>2 DEF HSet
    <3> QED
      BY <3>1, <3>2
  <2>2. ASSUME NEW m \in Memories, Expire(m)
        PROVE  \E n \in Working : keyOf[n] = k /\ stage'[n] \in {"expiring", "late"}
    <3>1. keyOf[m] # k /\ ttl[k] = Never
      BY <2>2 DEF Expire, Expires
    <3>2. PICK n \in Working : keyOf[n] = k /\ stage[n] \in {"expiring", "late"}
      BY <3>1
    <3> QED
      BY <2>2, <3>1, <3>2 DEF Expire
  <2>3. ASSUME NEW m \in Memories, RedisFails(m) \/ InsertFails(m) PROVE FALSE
    BY <2>3 DEF RedisFails, InsertFails, Fault
  <2>4. ASSUME NEW e \in Keys, Evict(e) PROVE FALSE
    BY <2>4 DEF Evict, Fault
  <2>5. CASE (\E m \in Memories : Store(m) \/ Insert(m)) \/ (\E m \in Lasting : Delete(m) \/ Archive(m))
    <3>1. ttl[k] = Never
      BY <2>5 DEF Store, Insert, Delete, Archive
    <3>2. PICK n \in Working : keyOf[n] = k /\ stage[n] \in {"expiring", "late"}
      BY <3>1
    <3>3. stage'[n] = stage[n]
      BY <2>5, <3>2 DEF Store, Insert, Delete, Archive
    <3> QED
      BY <3>2, <3>3
  <2>6. CASE Tick
    <3>1. ttl[k] = Never
      BY <2>6 DEF Tick
    <3>2. PICK n \in Working : keyOf[n] = k /\ stage[n] \in {"expiring", "late"}
      BY <3>1
    <3>3. stage'[n] = "late"
      BY <2>6, <3>2 DEF Tick
    <3> QED
      BY <3>2, <3>3
  <2> QED
    BY <1>3, <2>1, <2>2, <2>3, <2>4, <2>5, <2>6 DEF StoreStep
<1> QED
  BY <1>1, <1>2, <1>3, NextSplits

\* Whatever stores meet under one key, no key lives for ever unless a call failed
\* between HSET and EXPIRE (memory-service/main.py:147-148).
THEOREM KeysRunOut == Spec => []NoEternalKey
<1>1. Init => NoEternalKey
  BY DEF Init, NoEternalKey, Never
<1>2. TypeOK /\ NoEternalKey /\ [Next]_vars => NoEternalKey'
  BY NoEternalKeyStep
<1> QED
  BY <1>1, <1>2, TypeCorrect, PTL DEF Spec

-----------------------------------------------------------------------------
(* The lives of memories. What has not been stored is in no store, so that   *)
(* being kept implies having been stored; and only a store call keeps what   *)
(* was not kept before.                                                      *)

Unstored == {"none", "storing"}

\* What is in a store was stored.
StoredInv ==
  /\ \A k \in Keys : hash[k] # None => stage[hash[k]] \notin Unstored
  /\ \A m \in Lasting : stage[m] \in Unstored => row[m] = "absent"

\* How the life of a memory and its row may turn in one step.
Turns(m) ==
  /\ stage[m] \notin Unstored => stage'[m] \notin Unstored
  /\ LifeOf(m) = "gone" => LifeOf(m)' = "gone"
  /\ m \in Lasting /\ row[m] \in {"archived", "deleted"} => row'[m] \in {"archived", "deleted"}

LEMMA StoredInvStep == ASSUME TypeOK, StoredInv, StoreStep PROVE StoredInv'
<1> USE KindsAssumption DEF StoredInv, Unstored, TypeOK, Memories
<1>1. ASSUME NEW m \in Memories, Store(m) PROVE StoredInv'
  BY <1>1 DEF Store
<1>2. ASSUME NEW m \in Memories, HSet(m) PROVE StoredInv'
  BY <1>2 DEF HSet, HashSet
<1>3. ASSUME NEW m \in Memories, Expire(m) PROVE StoredInv'
  BY <1>3 DEF Expire
<1>4. ASSUME NEW m \in Memories, Insert(m) PROVE StoredInv'
  BY <1>4 DEF Insert
<1>5. ASSUME NEW m \in Memories, RedisFails(m) PROVE StoredInv'
  BY <1>5 DEF RedisFails, HashSet
<1>6. ASSUME NEW m \in Memories, InsertFails(m) PROVE StoredInv'
  BY <1>6 DEF InsertFails
<1>7. ASSUME NEW m \in Lasting, Delete(m) \/ Archive(m) PROVE StoredInv'
  BY <1>7 DEF Delete, Archive
<1>8. ASSUME NEW k \in Keys, Evict(k) PROVE StoredInv'
  BY <1>8 DEF Evict
<1>9. CASE Tick
  BY <1>9 DEF Tick
<1> QED
  BY <1>1, <1>2, <1>3, <1>4, <1>5, <1>6, <1>7, <1>8, <1>9 DEF StoreStep

\* A memory that no store call is storing is not kept again.
LEMMA OnlyStoringKeeps ==
  ASSUME TypeOK, StoredInv, StoreStep, NEW m \in Memories, stage[m] \notin Unstored, ~Kept(m)
  PROVE  ~Kept(m)'
<1> USE KindsAssumption DEF StoredInv, Unstored, TypeOK, Memories, Kept, Readable, Unexpired, Keys, Never
<1>1. ASSUME NEW n \in Memories, Store(n) PROVE ~Kept(m)'
  BY <1>1 DEF Store
<1>2. ASSUME NEW n \in Memories, HSet(n) PROVE ~Kept(m)'
  BY <1>2 DEF HSet, HashSet
<1>3. ASSUME NEW n \in Memories, Expire(n) PROVE ~Kept(m)'
  BY <1>3 DEF Expire
<1>4. ASSUME NEW n \in Memories, Insert(n) PROVE ~Kept(m)'
  BY <1>4 DEF Insert
<1>5. ASSUME NEW n \in Memories, RedisFails(n) PROVE ~Kept(m)'
  BY <1>5 DEF RedisFails, HashSet
<1>6. ASSUME NEW n \in Memories, InsertFails(n) PROVE ~Kept(m)'
  BY <1>6 DEF InsertFails
<1>7. ASSUME NEW n \in Lasting, Delete(n) \/ Archive(n) PROVE ~Kept(m)'
  BY <1>7 DEF Delete, Archive
<1>8. ASSUME NEW k \in Keys, Evict(k) PROVE ~Kept(m)'
  BY <1>8 DEF Evict
<1>9. CASE Tick
  BY <1>9 DEF Tick
<1> QED
  BY <1>1, <1>2, <1>3, <1>4, <1>5, <1>6, <1>7, <1>8, <1>9 DEF StoreStep

LEMMA StoredStays ==
  ASSUME TypeOK, StoreStep, NEW m \in Memories, stage[m] \notin Unstored
  PROVE  stage'[m] \notin Unstored
BY DEF TypeOK, Unstored, StoreStep, Store, HSet, Expire, Insert, RedisFails, InsertFails, Delete,
       Archive, Evict, Tick

LEMMA RowTurns ==
  ASSUME TypeOK, StoredInv, StoreStep, NEW m \in Lasting, row[m] \in {"archived", "deleted"}
  PROVE  row'[m] \in {"archived", "deleted"}
BY DEF TypeOK, StoredInv, Unstored, StoreStep, Store, HSet, Expire, Insert, RedisFails, InsertFails,
       Delete, Archive, Evict, Tick, Memories

LEMMA LifeTurns ==
  ASSUME TypeOK, StoredInv, StoreStep, NEW m \in Memories
  PROVE  Turns(m)
BY OnlyStoringKeeps, StoredStays, RowTurns DEF Turns, LifeOf, Unstored

LEMMA KeptIsStored == ASSUME TypeOK, StoredInv, NEW m \in Memories, Kept(m) PROVE stage[m] \notin Unstored
BY KindsAssumption DEF TypeOK, StoredInv, Kept, Readable, Unexpired, Unstored, Keys, Memories

-----------------------------------------------------------------------------
(* Searches. *)

\* Before it begins a search has found nothing and knows of nothing that is gone.
\* What it selected was stored, was not gone and not archived when it began.
SearchInv(q) ==
  /\ search[q] = "idle" => hits[q] = {} /\ found[q] = {}
  /\ \A m \in lost[q] : LifeOf(m) = "gone"
  /\ \A m \in stowed[q] : row[m] \in {"archived", "deleted"}
  /\ \A m \in hits[q] : stage[m] \notin Unstored /\ m \notin lost[q] /\ m \notin stowed[q]
  /\ q \notin fell => found[q] \cap stowed[q] = {}

IInv == TypeOK /\ StoredInv /\ \A q \in Searches : SearchInv(q)

LEMMA InitInv == Init => IInv
<1> SUFFICES ASSUME Init PROVE IInv
  OBVIOUS
<1>1. StoredInv /\ \A q \in Searches : SearchInv(q)
  BY KindsAssumption DEF Init, StoredInv, SearchInv, Unstored
<1> QED
  BY <1>1, InitType DEF IInv

LEMMA SearchInvStore ==
  ASSUME TypeOK, StoredInv, StoreStep, NEW q \in Searches, SearchInv(q)
  PROVE  SearchInv(q)'
<1>1. UNCHANGED <<search, hits, found, lost, stowed, fell>>
  BY StoreKeepsQueries DEF query
<1>2. \A m \in Memories : Turns(m)
  BY LifeTurns
<1>3. /\ lost[q] \subseteq Memories /\ stowed[q] \subseteq Lasting
      /\ hits[q] \subseteq Lasting /\ Lasting \subseteq Memories
  BY DEF TypeOK, Memories
<1>4. \A m \in lost[q] : LifeOf(m)' = "gone"
  BY <1>2, <1>3 DEF SearchInv, Turns
<1>5. \A m \in stowed[q] : row'[m] \in {"archived", "deleted"}
  BY <1>2, <1>3 DEF SearchInv, Turns
<1>6. \A m \in hits[q] : stage'[m] \notin Unstored
  BY <1>2, <1>3 DEF SearchInv, Turns
<1> QED
  BY <1>1, <1>4, <1>5, <1>6 DEF SearchInv

\* A step of one search leaves the lives of memories and the other searches alone.
LEMMA SameLives == ASSUME UNCHANGED store PROVE \A m : LifeOf(m)' = LifeOf(m)
BY DEF store, LifeOf, Kept, Readable, Unexpired

LEMMA OthersKeepTheirs ==
  ASSUME TypeOK, NEW q \in Searches, QueryStep(q), NEW p \in Searches, p # q, SearchInv(p)
  PROVE  SearchInv(p)'
<1>1. \A m : LifeOf(m)' = LifeOf(m)
  BY QueriesKeepStore, SameLives
<1>2. UNCHANGED <<stage, row>>
  BY QueriesKeepStore DEF store
<1>3. /\ search'[p] = search[p] /\ hits'[p] = hits[p] /\ found'[p] = found[p]
      /\ lost'[p] = lost[p] /\ stowed'[p] = stowed[p] /\ (p \in fell' <=> p \in fell)
  BY DEF QueryStep, TypeOK, Begin, Scan, ScanEnds, Select, SelectFails, Count, CountFails, Fallback,
         FallbackFails, Goes, Finds
<1> QED
  BY <1>1, <1>2, <1>3 DEF SearchInv

LEMMA SearchInvOwn ==
  ASSUME TypeOK, StoredInv, NEW q \in Searches, QueryStep(q), SearchInv(q)
  PROVE  SearchInv(q)'
<1>1. \A m : LifeOf(m)' = LifeOf(m)
  BY QueriesKeepStore, SameLives
<1>2. UNCHANGED <<stage, row>>
  BY QueriesKeepStore DEF store
<1>3. \A m \in Live : LifeOf(m) = "kept" /\ stage[m] \notin Unstored /\ row[m] = "live"
  BY KeptIsStored, KindsAssumption DEF LifeOf, Kept, Live, Readable, Unexpired, Memories
<1> USE <1>1, <1>2 DEF SearchInv, TypeOK
<1>4. CASE Begin(q)
  <2>1. lost'[q] = Gone /\ stowed'[q] = {m \in Lasting : row[m] = "archived"}
        /\ hits'[q] = {} /\ found'[q] = {} /\ search'[q] # "idle"
    BY <1>4 DEF Begin, Goes
  <2> QED
    BY <2>1 DEF Gone
<1>5. ASSUME NEW k \in Keys, Scan(q, k) PROVE SearchInv(q)'
  <2>1. /\ UNCHANGED <<search, hits, lost, stowed, fell>> /\ search[q] # "idle"
        /\ found'[q] \subseteq found[q] \cup Working
    BY <1>5 DEF Scan, Finds
  <2> QED
    BY <2>1, KindsAssumption
<1>6. CASE ScanEnds(q) \/ SelectFails(q) \/ CountFails(q) \/ FallbackFails(q)
  BY <1>6 DEF ScanEnds, AfterScan, SelectFails, CountFails, FallbackFails, Goes
<1>7. CASE Select(q)
  <2>1. /\ hits'[q] \subseteq Live /\ search'[q] # "idle"
        /\ UNCHANGED <<found, lost, stowed, fell>>
    BY <1>7 DEF Select, Goes
  <2>2. \A m \in hits'[q] : stage[m] \notin Unstored /\ m \notin lost[q] /\ m \notin stowed[q]
    BY <1>3, <2>1
  <2> QED
    BY <2>1, <2>2
<1>8. CASE Count(q)
  <2>1. /\ found'[q] = found[q] \cup hits[q] /\ search'[q] # "idle"
        /\ UNCHANGED <<hits, lost, stowed, fell>>
    BY <1>8 DEF Count, Finds, Goes
  <2> QED
    BY <2>1
<1>9. CASE Fallback(q)
  BY <1>9 DEF Fallback, Goes
<1> QED
  BY <1>4, <1>5, <1>6, <1>7, <1>8, <1>9 DEF QueryStep

LEMMA InvStep == IInv /\ [Next]_vars => IInv'
<1> SUFFICES ASSUME IInv, [Next]_vars PROVE IInv'
  OBVIOUS
<1>1. TypeOK' /\ TypeOK /\ StoredInv /\ \A q \in Searches : SearchInv(q)
  BY TypeStep DEF IInv
<1>2. CASE UNCHANGED vars
  <2>1. UNCHANGED <<store, query>>
    BY <1>2 DEF vars
  <2>2. StoredInv'
    BY <1>1, <2>1 DEF StoredInv, store
  <2>3. \A m : LifeOf(m)' = LifeOf(m)
    BY <2>1, SameLives
  <2>4. \A q \in Searches : SearchInv(q)'
    BY <1>1, <2>1, <2>3 DEF SearchInv, store, query
  <2> QED
    BY <1>1, <2>2, <2>4 DEF IInv
<1>3. CASE StoreStep
  BY <1>1, <1>3, StoredInvStep, SearchInvStore DEF IInv
<1>4. ASSUME NEW q \in Searches, QueryStep(q) PROVE IInv'
  <2>1. StoredInv'
    BY <1>1, <1>4, QueriesKeepStore DEF StoredInv, store
  <2>2. \A p \in Searches : SearchInv(p)'
    BY <1>1, <1>4, SearchInvOwn, OthersKeepTheirs
  <2> QED
    BY <1>1, <2>1, <2>2 DEF IInv
<1> QED
  BY <1>2, <1>3, <1>4, NextSplits

LEMMA AlwaysIInv == Spec => []IInv
  BY InitInv, InvStep, PTL DEF Spec

\* What was archived when a search began is found by the text search only
\* (memory-service/main.py:359-368 against :295), however the steps of searches,
\* stores and removals interleave.
THEOREM ArchivedStaysOut == Spec => []ArchivedOnlyByText
<1>1. IInv => ArchivedOnlyByText
  BY DEF IInv, SearchInv, ArchivedOnlyByText
<1> QED
  BY <1>1, AlwaysIInv, PTL

-----------------------------------------------------------------------------
(* Every step of the service is a step of its promise, or changes nothing of *)
(* what the promise speaks of.                                               *)

LEMMA InitPromises == Init => Promise!Init
BY KindsAssumption DEF Init, Promise!Init, LifeOf, Kept, Readable, Unexpired, Memories, Keys

LEMMA StoreStepPromises == IInv /\ StoreStep => Promise!Next
<1> SUFFICES ASSUME IInv, StoreStep PROVE Promise!Turn
  BY DEF Promise!Next
<1>1. UNCHANGED query
  BY StoreKeepsQueries
<1>2. \A m \in Memories : Turns(m) /\ (LifeOf(m) = "kept" => stage[m] \notin Unstored)
  BY LifeTurns, KeptIsStored DEF IInv, LifeOf
<1>3. \A m \in Memories :
        /\ LifeOf(m)' \in {"absent", "kept", "gone"}
        /\ LifeOf(m) = "kept" => LifeOf(m)' # "absent"
        /\ LifeOf(m) = "gone" => LifeOf(m)' = "gone"
  BY <1>2 DEF Turns, LifeOf, Unstored
<1> QED
  BY <1>1, <1>3 DEF Promise!Turn, query

LEMMA BeginPromises ==
  ASSUME IInv, NEW q \in Searches, Begin(q)
  PROVE  Promise!Begin(q)
<1>1. \A m : LifeOf(m)' = LifeOf(m)
  BY SameLives DEF Begin
<1>2. lost' = [lost EXCEPT ![q] = Promise!Gone] /\ UNCHANGED found
  BY DEF Begin, Gone, Promise!Gone
<1>3. search[q] = "idle" /\ search' = [search EXCEPT ![q] = search'[q]]
      /\ search'[q] \in {"scanning", "selecting"}
  BY DEF Begin, Goes, IInv, TypeOK
<1> QED
  BY <1>1, <1>2, <1>3 DEF Promise!Begin, IInv, TypeOK

\* What any step of a running search but its first does for the promise.
LEMMA FindPromises ==
  ASSUME IInv, NEW q \in Searches, UNCHANGED <<store, lost>>,
         search[q] \notin {"idle", "answered", "failed"},
         NEW s \in {"scanning", "selecting", "counting", "falling", "answered", "failed"},
         search' = [search EXCEPT ![q] = s],
         NEW R \in SUBSET Memories, found' = [found EXCEPT ![q] = @ \cup R],
         \A m \in R : m \notin lost[q] /\ LifeOf(m) # "absent"
  PROVE  Promise!Find(q)
<1>1. \A m : LifeOf(m)' = LifeOf(m)
  BY SameLives
<1>2. R \in SUBSET {m \in Memories \ lost[q] : [n \in Memories |-> LifeOf(n)][m] # "absent"}
  OBVIOUS
<1>3. CASE s \in {"answered", "failed"}
  BY <1>1, <1>2, <1>3 DEF Promise!Find, IInv, TypeOK
<1>4. CASE s \notin {"answered", "failed"}
  BY <1>1, <1>2, <1>4 DEF Promise!Find, IInv, TypeOK
<1> QED
  BY <1>3, <1>4

LEMMA QueryStepPromises ==
  ASSUME IInv, NEW q \in Searches, QueryStep(q)
  PROVE  Promise!Begin(q) \/ Promise!Find(q)
<1>1. UNCHANGED store /\ TypeOK /\ StoredInv /\ SearchInv(q)
  BY QueriesKeepStore DEF IInv
<1>2. \A m \in Memories : Kept(m) => m \notin lost[q] /\ LifeOf(m) # "absent"
  BY <1>1 DEF SearchInv, LifeOf
<1>3. \A m \in Memories : stage[m] \notin Unstored => LifeOf(m) # "absent"
  BY DEF LifeOf, Unstored
<1>4. ASSUME NEW k \in Keys, Scan(q, k) PROVE Promise!Find(q)
  <2>1. PICK R \in SUBSET ({hash[k]} \ {None}) : found' = [found EXCEPT ![q] = @ \cup R]
    BY <1>4 DEF Scan, Finds
  <2>2. \A m \in R : m \in Memories /\ Kept(m)
    BY <1>1, <2>1 DEF TypeOK, Memories, Kept
  <2>3. search[q] = "scanning" /\ search' = [search EXCEPT ![q] = "scanning"] /\ UNCHANGED lost
    BY <1>1, <1>4 DEF Scan, TypeOK
  <2> QED
    BY <1>1, <1>2, <2>1, <2>2, <2>3, FindPromises
<1>5. CASE ScanEnds(q) \/ Select(q) \/ SelectFails(q) \/ CountFails(q) \/ FallbackFails(q)
  <2>1. PICK s \in {"selecting", "counting", "falling", "answered", "failed"} :
          search' = [search EXCEPT ![q] = s]
    BY <1>5 DEF ScanEnds, Select, SelectFails, CountFails, FallbackFails, Goes, AfterScan
  <2>2. search[q] \notin {"idle", "answered", "failed"} /\ UNCHANGED <<found, lost>>
    BY <1>5 DEF ScanEnds, Select, SelectFails, CountFails, FallbackFails
  <2>3. found' = [found EXCEPT ![q] = @ \cup {}]
    BY <1>1, <2>2 DEF TypeOK
  <2>4. PICK R \in SUBSET Memories : R = {}
    OBVIOUS
  <2> QED
    BY <1>1, <2>1, <2>2, <2>3, <2>4, FindPromises
<1>6. CASE Count(q)
  <2>1. /\ found' = [found EXCEPT ![q] = @ \cup hits[q]]
        /\ search' = [search EXCEPT ![q] = "answered"]
        /\ search[q] = "counting" /\ UNCHANGED lost
    BY <1>6 DEF Count, Finds, Goes
  <2>2. \A m \in hits[q] : m \in Memories /\ m \notin lost[q] /\ LifeOf(m) # "absent"
    BY <1>1, <1>3 DEF SearchInv, TypeOK, Memories
  <2> QED
    BY <1>1, <2>1, <2>2, FindPromises
<1>7. CASE Fallback(q)
  <2>1. PICK R \in SUBSET Readable : found' = [found EXCEPT ![q] = @ \cup R]
    BY <1>7 DEF Fallback, Finds
  <2>2. /\ search' = [search EXCEPT ![q] = "answered"]
        /\ search[q] = "falling" /\ UNCHANGED lost
    BY <1>7 DEF Fallback, Goes
  <2>3. \A m \in R : m \in Memories /\ Kept(m)
    BY <2>1, KindsAssumption DEF Readable, Unexpired, Memories, Kept
  <2> QED
    BY <1>1, <1>2, <2>1, <2>2, <2>3, FindPromises
<1> QED
  BY <1>4, <1>5, <1>6, <1>7, BeginPromises DEF QueryStep

LEMMA StepPromises == IInv /\ [Next]_vars => [Promise!Next]_(Promise!vars)
<1> SUFFICES ASSUME IInv, [Next]_vars PROVE [Promise!Next]_(Promise!vars)
  OBVIOUS
<1>1. CASE UNCHANGED vars
  <2>1. \A m : LifeOf(m)' = LifeOf(m)
    BY <1>1, SameLives DEF vars
  <2> QED
    BY <1>1, <2>1 DEF vars, query, Promise!vars
<1>2. CASE StoreStep
  BY <1>2, StoreStepPromises
<1>3. ASSUME NEW q \in Searches, QueryStep(q) PROVE Promise!Next
  BY <1>3, QueryStepPromises DEF Promise!Next
<1> QED
  BY <1>1, <1>2, <1>3, NextSplits

\* The memory service keeps its promise: a memory that is gone does not come back, and
\* a search finds nothing that was gone before it began, in whichever store it was.
THEOREM Refinement == Spec => KeepsItsPromise
  BY InitPromises, StepPromises, AlwaysIInv, PTL DEF Spec, KeepsItsPromise, Promise!Spec
=============================================================================
