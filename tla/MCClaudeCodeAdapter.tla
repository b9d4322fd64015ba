------------------------ MODULE MCClaudeCodeAdapter -------------------------
(* Small instances of ClaudeCodeAdapter for TLC.                           *)
EXTENDS ClaudeCodeAdapter

Message(type, marks, reset, blocks) ==
  [type |-> type, marks |-> marks, reset |-> reset, blocks |-> blocks]

(* One message for each way run_once can treat one.                        *)
SdkMessages ==
  { Message("result", {}, "none", 0),
    Message("result", {"malformed"}, "none", 0),
    Message("result", {"error"}, "none", 0),
    Message("result", {"error", "plan", "auth", "malformed"}, "early", 0),
    Message("result", {"error", "plan"}, "bad", 0),
    Message("result", {"error", "auth", "transient"}, "none", 0),
    Message("result", {"error", "transient", "malformed"}, "none", 0),
    Message("rate_limit", {"rejected"}, "none", 0),
    Message("rate_limit", {"rejected"}, "late", 0),
    Message("rate_limit", {}, "early", 0),
    Message("rate_limit", {}, "bad", 0),
    Message("stream", {"text"}, "none", 0),
    Message("stream", {"malformed", "subagent"}, "none", 0),
    Message("stream", {"malformed"}, "none", 0),
    Message("assistant", {"usage"}, "none", 2),
    Message("assistant", {"usage", "malformed"}, "none", 1),
    Message("user", {}, "none", 0),
    Message("user", {}, "none", 3),
    Message("system", {"init"}, "none", 0),
    Message("other", {}, "none", 0) }
=============================================================================
