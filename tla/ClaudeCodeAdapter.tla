------------------------- MODULE ClaudeCodeAdapter --------------------------
(***************************************************************************)
(* ClaudeCodeAdapter.run_once (src/anycli/adapters/claude_code.py): one    *)
(* turn driven through the SDK's query() generator.  Three parties share   *)
(* the SDK stream:                                                         *)
(*                                                                         *)
(*   gen       the run_once generator, iterated, closed or cancelled by    *)
(*             its consumer                                                *)
(*   read      the task of stream.__anext__(), behind a shield             *)
(*   shutdown  the task of _shutdown_stream                                *)
(*                                                                         *)
(* The SDK is external and owes no progress: a read may hang, and so may   *)
(* the cleanup of the SDK stream.  Texts are abstracted to the marks the   *)
(* adapter looks for in them.                                              *)
(***************************************************************************)
EXTENDS Integers, SequencesExt

CONSTANTS
  Messages,    \* what the SDK may deliver
  Times,       \* reset times
  BadTimes,    \* those datetime cannot represent
  MaxMessages  \* bound of the model: messages the SDK delivers

MessageTypes ==
  {"result", "rate_limit", "stream", "assistant", "user", "system", "other"}

Marks ==
  {"error", "plan", "auth", "transient",  \* result: is_error, its text, status
   "rejected",                            \* rate_limit: status
   "text", "subagent",                    \* stream: a text delta, of a subagent
   "usage",                               \* assistant: usage
   "malformed",                           \* result, assistant: usage that is no
                                          \* number; stream: delta that is no dict
   "init"}                                \* system: subtype, with a session id

(* Exceptions a read may raise: those of the SDK, any other, and a         *)
(* CancelledError of its own.                                              *)
Failures ==
  {"not_found", "process", "process_auth", "json", "sdk", "foreign", "cancelled"}

ASSUME AdapterAssumption ==
  /\ Messages \subseteq
       [type : MessageTypes, marks : SUBSET Marks, reset : Times \cup {"none"},
        blocks : Nat]   \* assistant: tool uses; user: tool results
  /\ BadTimes \subseteq Times /\ "none" \notin Times
  /\ MaxMessages \in Nat

Exhausted == [type |-> "exhausted", marks |-> {}, reset |-> "none", blocks |-> 0]
Failed(e) == [type |-> "failed", marks |-> {e}, reset |-> "none", blocks |-> 0]
Endings == {Exhausted} \cup {Failed(e) : e \in Failures}

VARIABLES
  gen,        \* where run_once is suspended
  read,       \* next_task: "none", "pending", "settled", "cancelling"
  inbox,      \* what a settled read holds
  sdk,        \* the SDK stream; "aborting", then "aborted": raw cancellation
  outbox,     \* events of the current message that are still to be yielded
  rejected,   \* rate_limit_rejected
  resetsAt,   \* rate_limit_resets_at
  shutdown,   \* close_task
  verdict,    \* what run_once ends with
  raisedAt,   \* resets_at of a PlanLimitReached
  log,        \* the messages handled so far
  delivered   \* the kinds of the events yielded so far

streamVars == <<read, inbox, sdk>>
limitVars  == <<rejected, resetsAt>>
endVars    == <<verdict, raisedAt>>
vars == <<gen, streamVars, outbox, limitVars, shutdown, endVars, log, delivered>>

Init ==
  /\ gen = "unstarted"
  /\ read = "none" /\ inbox = Exhausted /\ sdk = "none"
  /\ outbox = <<>>
  /\ rejected = FALSE /\ resetsAt = "none"
  /\ shutdown = "none"
  /\ verdict = "none" /\ raisedAt = "none"
  /\ log = <<>> /\ delivered = <<>>

-----------------------------------------------------------------------------
(* Mutants, named Mutant*, are plausible slips of the definition that      *)
(* follows them; they are there to show that the properties notice.        *)

When(kind, cond) == IF cond THEN <<kind>> ELSE <<>>

(* The RawEvents run_once makes of a message.                              *)
EventsOf(m) ==
  CASE m.type = "stream" ->
         <<IF m.marks = {"text"} THEN "text_delta" ELSE "stream_event">>
    [] m.type = "assistant" ->
         [i \in 1..m.blocks |-> "tool_use"] \o When("usage", "usage" \in m.marks)
    [] m.type = "user" -> [i \in 1..m.blocks |-> "tool_result"]
    [] m.type = "system" -> <<IF "init" \in m.marks THEN "init" ELSE "system">>
    [] OTHER -> <<m.type>>

(* Payloads whose conversion raises ValueError, TypeError or AttributeError*)
(* when their event is made: counts int() refuses, a delta without get().  *)
(* A subagent's delta is not looked at.                                    *)
Unusable(m) ==
  /\ "malformed" \in m.marks
  /\ m.type \in {"result", "assistant"} \/ (m.type = "stream" /\ "subagent" \notin m.marks)

(* The auth markers are looked for before the plan-limit markers.          *)
MutantClassify(m) ==
  IF m.type = "rate_limit" /\ m.reset \in BadTimes THEN "foreign"
  ELSE IF m.type = "result" /\ "error" \in m.marks /\ "auth" \in m.marks THEN "auth"
  ELSE IF m.type = "result" /\ "error" \in m.marks /\ (rejected \/ "plan" \in m.marks)
       THEN IF m.reset \in BadTimes THEN "foreign" ELSE "plan"
  ELSE IF m.type = "result" /\ "error" \in m.marks /\ "transient" \in m.marks THEN "transient"
  ELSE IF Unusable(m) THEN "foreign"
  ELSE "none"

(* What a message makes run_once raise.  datetime raises ValueError for a  *)
(* timestamp beyond its range; a result is converted last.                 *)
Classify(m) ==
  LET failing == m.type = "result" /\ "error" \in m.marks
  IN IF m.type = "rate_limit" /\ m.reset \in BadTimes THEN "foreign"
     ELSE IF failing /\ (rejected \/ "plan" \in m.marks)
          THEN IF m.reset \in BadTimes THEN "foreign" ELSE "plan"
     ELSE IF failing /\ "auth" \in m.marks THEN "auth"
     ELSE IF failing /\ "transient" \in m.marks THEN "transient"
     ELSE IF Unusable(m) THEN "foreign"
     ELSE "none"

(* The errors of the SDK are not translated.                               *)
MutantRaisedFor(e) == e

(* What a failed read makes run_once raise: SDK errors become typed ones,  *)
(* any other passes through unchanged.                                     *)
RaisedFor(e) ==
  CASE e = "not_found"                   -> "CLINotFound"
    [] e = "process_auth"                -> "auth"
    [] e \in {"process", "json", "sdk"}  -> "adapter"
    [] OTHER                             -> e

(* A new read: a task that enters the SDK stream.                          *)
BeginRead == read' = "pending" /\ sdk' = "busy"

(* The events that are left are not yielded.                               *)
MutantProceed(events) ==
  IF events = <<>>
  THEN gen' = "reading" /\ BeginRead /\ UNCHANGED <<outbox, delivered>>
  ELSE /\ gen' = "yielded" /\ read' = "none"
       /\ delivered' = Append(delivered, Head(events))
       /\ outbox' = <<>>
       /\ UNCHANGED sdk

(* Yield the next event of a message, or read on.                          *)
Proceed(events) ==
  IF events = <<>>
  THEN gen' = "reading" /\ BeginRead /\ UNCHANGED <<outbox, delivered>>
  ELSE /\ gen' = "yielded" /\ read' = "none"
       /\ delivered' = Append(delivered, Head(events))
       /\ outbox' = Tail(events)
       /\ UNCHANGED sdk

(* The finally block is skipped when there is no read to settle.           *)
MutantFinish(v) ==
  /\ verdict' = v
  /\ IF read = "none" THEN gen' = "done" /\ UNCHANGED shutdown
     ELSE gen' = "closing" /\ shutdown' = "created"

(* The finally block: the shutdown task is created and waited for.         *)
Finish(v) == gen' = "closing" /\ verdict' = v /\ shutdown' = "created"

-----------------------------------------------------------------------------
(* The consumer asks for the first event.                                  *)
OptionsRejected ==
  /\ gen = "unstarted"
  /\ gen' = "done" /\ verdict' = "adapter"
  /\ UNCHANGED <<streamVars, outbox, limitVars, shutdown, raisedAt, log, delivered>>

Start ==
  /\ gen = "unstarted"
  /\ gen' = "reading"
  /\ BeginRead
  /\ UNCHANGED <<inbox, outbox, limitVars, shutdown, endVars, log, delivered>>

AskNext ==
  /\ gen = "yielded"
  /\ Proceed(outbox)
  /\ UNCHANGED <<inbox, limitVars, shutdown, endVars, log>>

Close ==
  /\ gen = "yielded"
  /\ Finish("closed")
  /\ UNCHANGED <<streamVars, outbox, limitVars, raisedAt, log, delivered>>

(* The read is not shielded.                                               *)
MutantCancel ==
  /\ gen = "reading"
  /\ Finish("cancelled")
  /\ read' = IF read = "pending" THEN "cancelling" ELSE read
  /\ sdk'  = IF read = "pending" THEN "aborting" ELSE sdk
  /\ UNCHANGED <<inbox, outbox, limitVars, raisedAt, log, delivered>>

(* The consumer's task is cancelled while run_once awaits a read: the      *)
(* shield keeps the cancellation from the read ...                         *)
Cancel ==
  /\ gen = "reading"
  /\ Finish("cancelled")
  /\ UNCHANGED <<streamVars, outbox, limitVars, raisedAt, log, delivered>>

(* ... or while it awaits the shutdown, which goes on by itself.           *)
CancelClosing ==
  /\ gen = "closing"
  /\ gen' = "done" /\ verdict' = "cancelled"
  /\ UNCHANGED <<streamVars, outbox, limitVars, shutdown, raisedAt, log, delivered>>

-----------------------------------------------------------------------------
(* The read has settled.                                                   *)
Handling(types) == gen = "reading" /\ read = "settled" /\ inbox.type \in types

(* A message that raises nothing.                                          *)
Handle ==
  /\ Handling(MessageTypes)
  /\ Classify(inbox) = "none"
  /\ Proceed(EventsOf(inbox))
  /\ log' = Append(log, inbox)
  /\ IF inbox.type = "rate_limit"
     THEN /\ rejected' = (rejected \/ "rejected" \in inbox.marks)
          /\ resetsAt' = IF inbox.reset # "none" THEN inbox.reset ELSE resetsAt
     ELSE UNCHANGED limitVars
  /\ UNCHANGED <<inbox, shutdown, endVars>>

(* A failing result, or a payload that cannot be converted.                *)
HandleRaise ==
  /\ Handling(MessageTypes)
  /\ Classify(inbox) # "none"
  /\ Finish(Classify(inbox))
  /\ read' = "none"
  /\ raisedAt' = IF Classify(inbox) = "plan"
                 THEN IF inbox.reset # "none" THEN inbox.reset ELSE resetsAt
                 ELSE "none"
  /\ log' = Append(log, inbox)
  /\ UNCHANGED <<inbox, sdk, outbox, limitVars, delivered>>

HandleEnd ==
  /\ Handling({"exhausted"})
  /\ Finish("end")
  /\ read' = "none"
  /\ UNCHANGED <<inbox, sdk, outbox, limitVars, raisedAt, log, delivered>>

HandleFailure ==
  /\ Handling({"failed"})
  /\ Finish(CHOOSE v \in {RaisedFor(e) : e \in inbox.marks} : TRUE)
  /\ UNCHANGED <<streamVars, outbox, limitVars, raisedAt, log, delivered>>

(* The wait for the shutdown has no timeout.                               *)
MutantLeave ==
  /\ gen = "closing" /\ shutdown = "done"
  /\ gen' = "done"
  /\ UNCHANGED <<streamVars, outbox, limitVars, shutdown, endVars, log, delivered>>

(* The wait for the shutdown is over: it is done, or _CLOSE_GRACE_SECONDS  *)
(* have passed.  By then the two settle graces, which are shorter even     *)
(* together, have passed as well.                                          *)
Leave ==
  /\ gen = "closing"
  /\ shutdown \in {"closing", "done"}
  /\ gen' = "done"
  /\ UNCHANGED <<streamVars, outbox, limitVars, shutdown, endVars, log, delivered>>

-----------------------------------------------------------------------------
(* _aclose_quietly of a stream nobody is inside of.                        *)
BeginClose ==
  IF sdk = "idle" THEN shutdown' = "closing" /\ sdk' = "closing"
  ELSE shutdown' = "done" /\ UNCHANGED sdk

(* The stream is closed without waiting for the read: its aclose() raises  *)
(* RuntimeError, which _aclose_quietly suppresses.                         *)
MutantShutdownStart ==
  /\ shutdown = "created"
  /\ BeginClose
  /\ UNCHANGED <<gen, read, inbox, outbox, limitVars, endVars, log, delivered>>

(* _shutdown_stream waits for a read in flight ...                         *)
ShutdownStart ==
  /\ shutdown = "created"
  /\ IF read = "pending" THEN shutdown' = "settling" /\ UNCHANGED sdk ELSE BeginClose
  /\ UNCHANGED <<gen, read, inbox, outbox, limitVars, endVars, log, delivered>>

(* ... until it has settled, of itself or after it was cancelled ...       *)
Settled ==
  /\ shutdown \in {"settling", "cancelling"}
  /\ read \in {"settled", "none"}
  /\ BeginClose
  /\ UNCHANGED <<gen, read, inbox, outbox, limitVars, endVars, log, delivered>>

(* ... or the first grace has passed, when the read is cancelled after all.*)
SettleExpired ==
  /\ shutdown = "settling"
  /\ read = "pending"
  /\ shutdown' = "cancelling"
  /\ read' = "cancelling"
  /\ sdk' = "aborting"
  /\ UNCHANGED <<gen, inbox, outbox, limitVars, endVars, log, delivered>>

(* The second grace has passed too: closing a stream that still unwinds    *)
(* raises RuntimeError, which is suppressed.                               *)
CancelExpired ==
  /\ shutdown = "cancelling"
  /\ read = "cancelling"
  /\ shutdown' = "done"
  /\ UNCHANGED <<gen, streamVars, outbox, limitVars, endVars, log, delivered>>

-----------------------------------------------------------------------------
(* The SDK: the read in flight delivers a message, ends or fails.          *)
SdkDeliver(m) ==
  /\ read = "pending"
  /\ Len(log) < MaxMessages
  /\ read' = "settled" /\ inbox' = m /\ sdk' = "idle"
  /\ UNCHANGED <<gen, outbox, limitVars, shutdown, endVars, log, delivered>>

SdkEnd(m) ==
  /\ read = "pending"
  /\ read' = "settled" /\ inbox' = m /\ sdk' = "closed"
  /\ UNCHANGED <<gen, outbox, limitVars, shutdown, endVars, log, delivered>>

(* Its cleanup is over.  A close has terminated the CLI, killing it if     *)
(* need be; the unwinding from a raw cancellation skips that and leaves a  *)
(* CLI that is still alive to the SDK's atexit reaper.                     *)
SdkUnwound ==
  /\ sdk \in {"closing", "aborting"}
  /\ sdk' = IF sdk = "closing" THEN "closed" ELSE "aborted"
  /\ read' = IF read = "cancelling" THEN "none" ELSE read
  /\ shutdown' = IF shutdown = "closing" THEN "done" ELSE shutdown
  /\ UNCHANGED <<gen, inbox, outbox, limitVars, endVars, log, delivered>>

-----------------------------------------------------------------------------
Consumer == OptionsRejected \/ Start \/ AskNext \/ Close \/ Cancel \/ CancelClosing

RunOnce == Handle \/ HandleRaise \/ HandleEnd \/ HandleFailure \/ Leave

Shutdown == ShutdownStart \/ Settled \/ SettleExpired \/ CancelExpired

Sdk ==
  \/ \E m \in Messages : SdkDeliver(m)
  \/ \E m \in Endings : SdkEnd(m)
  \/ SdkUnwound

Terminated ==
  /\ gen = "done" /\ shutdown \in {"none", "done"}
  /\ sdk \in {"none", "closed", "aborted"}
  /\ UNCHANGED vars

Next == Consumer \/ RunOnce \/ Shutdown \/ Sdk \/ Terminated

(* asyncio runs every ready task and every timer; consumer and SDK owe     *)
(* nothing.                                                                *)
Spec == Init /\ [][Next]_vars /\ WF_vars(RunOnce) /\ WF_vars(Shutdown)

-----------------------------------------------------------------------------
Verdicts ==
  {"none", "end", "closed", "cancelled", "plan", "auth", "transient", "adapter",
   "CLINotFound", "foreign"}

TypeOK ==
  /\ gen \in {"unstarted", "reading", "yielded", "closing", "done"}
  /\ read \in {"none", "pending", "settled", "cancelling"}
  /\ inbox \in Messages \cup Endings
  /\ sdk \in {"none", "busy", "idle", "closing", "closed", "aborting", "aborted"}
  /\ rejected \in BOOLEAN
  /\ resetsAt \in Times \cup {"none"}
  /\ shutdown \in {"none", "created", "settling", "cancelling", "closing", "done"}
  /\ verdict \in Verdicts
  /\ raisedAt \in Times \cup {"none"}
  /\ log \in Seq(Messages)

(* The reset time an error report can be given: the one in its own text,   *)
(* else that of the latest rate-limit event that has one.                  *)
LatestReset(i) ==
  LET dated == {j \in 1..i : /\ log[j].reset # "none"
                             /\ log[j].type = "rate_limit" \/ j = i}
  IN IF dated = {} THEN "none"
     ELSE log[CHOOSE j \in dated : \A k \in dated : k <= j].reset

(* run_once's Raises section, over all the messages of the turn: a failing *)
(* result is a plan limit if it says so or if the turn saw a rejection,    *)
(* and carries the reset time known last; else auth, else transient.       *)
(* Nothing is handled after an error was raised.  An error of no           *)
(* documented class comes from a read, from a reset time that is no date,  *)
(* or from a payload that is malformed, and then from no result that has a *)
(* documented reason to fail.                                              *)
RaisedAsDocumented ==
  /\ verdict = "foreign" =>
       \/ inbox = Failed("foreign")
       \/ /\ log # <<>>
          /\ \/ Last(log).reset \in BadTimes /\ Last(log).type \in {"rate_limit", "result"}
             \/ /\ Unusable(Last(log))
                /\ "error" \in Last(log).marks /\ Last(log).type = "result" =>
                     {"plan", "auth", "transient"} \cap Last(log).marks = {}
  /\ \A i \in DOMAIN log :
       LET m == log[i]
           failing == m.type = "result" /\ "error" \in m.marks
           limited == "plan" \in m.marks
                        \/ \E j \in 1..i : log[j].type = "rate_limit" /\ "rejected" \in log[j].marks
       IN /\ failing /\ limited /\ m.reset \notin BadTimes =>
               i = Len(log) /\ verdict \in {"plan", "cancelled"} /\ raisedAt = LatestReset(i)
          /\ failing /\ ~limited /\ "auth" \in m.marks =>
               i = Len(log) /\ verdict \in {"auth", "cancelled"}
          /\ failing /\ ~limited /\ "auth" \notin m.marks /\ "transient" \in m.marks =>
               i = Len(log) /\ verdict \in {"transient", "cancelled"}
          /\ verdict \in {"plan", "transient"} /\ i = Len(log) => failing

(* The events of all the messages, in order and without gaps: of what was  *)
(* handled nothing is lost while the turn goes on or when it has ended by  *)
(* itself, and what the consumer got when it ended otherwise is a prefix.  *)
NothingDropped ==
  LET all == FlattenSeq([i \in DOMAIN log |-> EventsOf(log[i])])
  IN /\ IsPrefix(delivered, all)
     /\ verdict \in {"none", "end"} => delivered \o outbox = all

(* The shield: a raw cancellation enters the SDK, where it skips the       *)
(* terminate/kill escalation, only from the shutdown task and only into a  *)
(* read that did not settle within its grace.                              *)
CancellationShielded ==
  sdk \in {"aborting", "aborted"} => shutdown \in {"cancelling", "done"}

(* A shutdown that reports its end has closed the SDK stream or left it    *)
(* unwinding: the RuntimeError that _aclose_quietly suppresses never hides *)
(* a stream somebody is still reading.                                     *)
ShutdownReallyCloses ==
  shutdown \in {"closing", "done"} => sdk \in {"closing", "closed", "aborting", "aborted"}

(* Once run_once is on its way out, whichever way, the SDK stream is over  *)
(* in the end, if the SDK finishes cleanups it has begun: closed, which    *)
(* ends the subprocess, or cancelled.  A cancelled stream does not count   *)
(* as a reaped subprocess, and is what keeps "the subprocess is reaped in  *)
(* all cases" from being true.                                             *)
SdkStreamEnds ==
  WF_vars(SdkUnwound) =>
    (gen \in {"closing", "done"} /\ sdk # "none" ~> sdk \in {"closed", "aborted"})

(* run_once is the stream the governor expects: closed or cancelled, it is *)
(* over in bounded time although the SDK may hang for ever.                *)
StreamState ==
  CASE gen = "reading" -> "running"
    [] gen = "yielded" -> "suspended"
    [] gen = "closing" ->
         IF verdict \in {"closed", "cancelled"} THEN "unwinding" ELSE "running"
    [] gen = "done"    -> "closed"
    [] OTHER           -> gen

Contract == INSTANCE AdapterStream WITH stream <- StreamState
HonoursContract == Contract!Spec
=============================================================================
