----------------------------- MODULE MCPipeline -----------------------------
(* A small instance of Pipeline for TLC.                                   *)
EXTENDS Pipeline

(* Messages that make no event, one or two, and one that ends the turn.    *)
SomeMessages ==
  { [type |-> "user", marks |-> {}, reset |-> "none", blocks |-> 0],
    [type |-> "stream", marks |-> {"text"}, reset |-> "none", blocks |-> 0],
    [type |-> "assistant", marks |-> {"usage"}, reset |-> "none", blocks |-> 1],
    [type |-> "result", marks |-> {"error", "plan"}, reset |-> "none", blocks |-> 0] }

EndOrCrash == {A!Exhausted, A!Failed("process")}
=============================================================================
