--------------------------- MODULE DiscoveryPromise ---------------------------
(***************************************************************************)
(* What the registry promises about each entry of its stores, without      *)
(* saying when it looks: discovery trusts an entry for a lease after it    *)
(* was heard and no longer, never withdraws that trust within a time of    *)
(* grace, and leads out of an open breaker in order. Offered in discovery  *)
(* is who is trusted and whose breaker is not open.                        *)
(***************************************************************************)
EXTENDS Naturals

CONSTANTS
  Entries,
  Lease,   \* an entry that is trusted was heard within so many ticks
  Grace    \* an entry that was heard within so many ticks is not silent

VARIABLES
  known,    \* the entries there are
  trusted,  \* those among them that are taken to be alive
  breaker,  \* entry -> CLOSED, OPEN, or HALF_OPEN
  heard     \* entry -> ticks since it was heard, up to Lease + 1

vars == <<known, trusted, breaker, heard>>

Breakers == {"CLOSED", "OPEN", "HALF_OPEN"}

Init ==
  /\ known = {}
  /\ trusted = {}
  /\ breaker = [k \in Entries |-> "CLOSED"]
  /\ heard = [k \in Entries |-> 0]

\* An entry reports, well or badly. A good report ends its probation.
Hear(k) ==
  /\ known' = known \cup {k}
  /\ trusted' \in {trusted \cup {k}, trusted \ {k}}
  /\ heard' = [heard EXCEPT ![k] = 0]
  /\ \/ UNCHANGED breaker
     \/ /\ breaker[k] = "HALF_OPEN" /\ k \in trusted'
        /\ breaker' = [breaker EXCEPT ![k] = "CLOSED"]

\* Entries leave, and with them all that is known of them.
Leave(S) ==
  /\ known' = known \ S
  /\ trusted' = trusted \ S
  /\ breaker' = [k \in Entries |-> IF k \in S THEN "CLOSED" ELSE breaker[k]]
  /\ heard' = [k \in Entries |-> IF k \in S THEN 0 ELSE heard[k]]

\* Somebody sets a breaker by hand.
Override(k) ==
  /\ k \in known
  /\ \E b \in Breakers : breaker' = [breaker EXCEPT ![k] = b]
  /\ UNCHANGED <<known, trusted, heard>>

\* Silent entries lose their trust, and others with an open breaker get a second chance.
Review(silent, back) ==
  /\ \A k \in silent : k \in known /\ heard[k] > Grace
  /\ \A k \in back : k \in known /\ heard[k] <= Grace /\ breaker[k] = "OPEN"
  /\ trusted' = trusted \ silent
  /\ breaker' = [k \in Entries |->
       IF k \in silent /\ breaker[k] = "CLOSED" THEN "OPEN"
       ELSE IF k \in back THEN "HALF_OPEN" ELSE breaker[k]]
  /\ UNCHANGED <<known, heard>>

\* Time does not pass over a lease.
Pass ==
  /\ heard' = [k \in Entries |->
       IF k \in known /\ heard[k] <= Lease THEN heard[k] + 1 ELSE heard[k]]
  /\ \A k \in trusted : heard'[k] <= Lease
  /\ UNCHANGED <<known, trusted, breaker>>

Next ==
  \/ \E k \in Entries : Hear(k) \/ Override(k)
  \/ \E S \in SUBSET Entries : Leave(S)
  \/ \E S, T \in SUBSET Entries : Review(S, T)
  \/ Pass

Spec == Init /\ [][Next]_vars
=============================================================================
