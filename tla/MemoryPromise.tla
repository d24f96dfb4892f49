---------------------------- MODULE MemoryPromise ----------------------------
(***************************************************************************)
(* What the memory service promises its callers, whichever of its stores   *)
(* keeps a memory: a memory that is gone does not come back, and a search  *)
(* finds nothing that was gone before it began.                            *)
(***************************************************************************)
CONSTANTS Memories, Searches

VARIABLES
  life,     \* memory -> absent, kept, or gone
  search,   \* search -> idle, running, answered, or failed
  lost,     \* search -> memories that were gone when it began
  found     \* search -> what it has found

vars == <<life, search, lost, found>>

Gone == {m \in Memories : life[m] = "gone"}

Init ==
  /\ life = [m \in Memories |-> "absent"]
  /\ search = [q \in Searches |-> "idle"]
  /\ lost = [q \in Searches |-> {}]
  /\ found = [q \in Searches |-> {}]

\* Memories are stored, overwritten, removed, or run out, several at once.
Turn ==
  /\ life' \in [Memories -> {"absent", "kept", "gone"}]
  /\ \A m \in Memories :
       /\ life[m] = "kept" => life'[m] # "absent"
       /\ life[m] = "gone" => life'[m] = "gone"
  /\ UNCHANGED <<search, lost, found>>

Begin(q) ==
  /\ search[q] = "idle"
  /\ search' = [search EXCEPT ![q] = "running"]
  /\ lost' = [lost EXCEPT ![q] = Gone]
  /\ UNCHANGED <<life, found>>

\* A running search finds more, answers, or fails. What it finds was kept at some
\* time since it began, and may be gone by now.
Find(q) ==
  /\ search[q] = "running"
  /\ \E s \in {"running", "answered", "failed"} : search' = [search EXCEPT ![q] = s]
  /\ \E R \in SUBSET {m \in Memories \ lost[q] : life[m] # "absent"} :
       found' = [found EXCEPT ![q] = @ \cup R]
  /\ UNCHANGED <<life, lost>>

Next == Turn \/ \E q \in Searches : Begin(q) \/ Find(q)

Spec == Init /\ [][Next]_vars
=============================================================================
