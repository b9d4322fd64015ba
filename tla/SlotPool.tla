------------------------------ MODULE SlotPool ------------------------------
(***************************************************************************)
(* What ConcurrencyGovernor.acquire() promises of its slots, without the   *)
(* semaphore, the cancellations and the watchdog that make it true: at     *)
(* most MaxConcurrency runs hold a slot at any time, every run that waits  *)
(* for one stops waiting, and every run that holds one gives it back.      *)
(***************************************************************************)
EXTENDS Integers, FiniteSets

CONSTANTS Runs, MaxConcurrency

VARIABLES
  waiting,  \* the runs that wait for a slot
  holding   \* the runs that hold one

vars == <<waiting, holding>>

Init == waiting = {} /\ holding = {}

Join(r) ==
  /\ r \notin waiting \cup holding
  /\ waiting' = waiting \cup {r}
  /\ UNCHANGED holding

(* A run gets a slot at once or after it has waited.                       *)
Grant(r) ==
  /\ r \notin holding
  /\ Cardinality(holding) < MaxConcurrency
  /\ holding' = holding \cup {r}
  /\ waiting' = waiting \ {r}

Withdraw(r) ==
  /\ r \in waiting
  /\ waiting' = waiting \ {r}
  /\ UNCHANGED holding

Release(r) ==
  /\ r \in holding
  /\ holding' = holding \ {r}
  /\ UNCHANGED waiting

Next == \E r \in Runs : Join(r) \/ Grant(r) \/ Withdraw(r) \/ Release(r)

Spec == Init /\ [][Next]_vars

(* Nobody keeps a slot for ever and nobody waits for ever.                 *)
Leaves(r) == r \in waiting /\ (Grant(r) \/ Withdraw(r))

FairSpec ==
  Spec /\ \A r \in Runs : WF_vars(Release(r)) /\ SF_vars(Leaves(r))

(* The cap.                                                                *)
WithinCap == Cardinality(holding) <= MaxConcurrency
=============================================================================
