----------------------------- MODULE MCGovernor -----------------------------
(* Small instances of Governor for TLC.                                    *)
EXTENDS Governor

CONSTANT Steady   \* runs of SlotSpec that nobody leaves

(* Runs join the semaphore in an order that is part of the state, but are  *)
(* otherwise interchangeable if they are all steady or all not.            *)
RunSymmetry ==
  {p @@ q : p \in Permutations(Steady), q \in Permutations(Runs \ Steady)}

(* A bound of the instance with two slots: the consumer of a steady run    *)
(* waits for its outcome, and its stream hangs until the deadline.         *)
SteadyStep(r) ==
  GuardStart(r) \/ GuardTask(r) \/ DriverTask(r) \/ PumpTask(r) \/ CloserTask(r)
    \/ StreamUnwound(r)

SlotNext ==
  \/ \E r \in Steady : SteadyStep(r)
  \/ \E r \in Runs \ Steady : Loop(r) \/ Consumer(r)
  \/ Terminated

SlotSpec == Init /\ [][SlotNext]_vars
=============================================================================
