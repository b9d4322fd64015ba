--------------------------- MODULE AdapterStream ----------------------------
(***************************************************************************)
(* What the governor assumes of an adapter generator, and run_once         *)
(* promises (src/anycli/adapters/base.py): it may hang while it works, but *)
(* once it is closed or cancelled it unwinds and is over, whatever its     *)
(* subprocess does.                                                        *)
(***************************************************************************)
VARIABLE stream  \* "unstarted", "running", "suspended", "unwinding", "closed"

Init == stream = "unstarted"

Start   == stream = "unstarted" /\ stream' \in {"running", "closed"}
Emit    == stream = "running" /\ stream' = "suspended"
Resume  == stream = "suspended" /\ stream' = "running"
End     == stream = "running" /\ stream' = "closed"
Unwind  == stream \in {"running", "suspended"} /\ stream' = "unwinding"
Unwound == stream = "unwinding" /\ stream' = "closed"

Next == Start \/ Emit \/ Resume \/ End \/ Unwind \/ Unwound

Spec == Init /\ [][Next]_stream /\ WF_stream(Unwound)
=============================================================================
