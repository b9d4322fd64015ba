------------------------------- MODULE Bridge -------------------------------
(***************************************************************************)
(* Bridge.run (src/anycli/bridge.py) over the normalizer's loop            *)
(* (src/anycli/middleware/streaming.py) over the governor: the calls of    *)
(* the users of one Bridge, each a sequence of attempts.  An attempt is    *)
(* one guard() call of Governor, so Runs is the set of pairs               *)
(* <<call, attempt>>, and the calls are the consumers of the guards.       *)
(*                                                                         *)
(* A call is buffered (stream=False: run() consumes the attempt itself) or *)
(* streamed (stream=True: the user iterates, and may stop at any chunk).   *)
(* Of an event only what the normalizer makes of it matters here:          *)
(*   "chunk"      text_delta, tool_use, tool_result: one public chunk      *)
(*   "silent"     init, usage and unknown kinds: no chunk                  *)
(*   "result"     the terminal event: the Result chunk, then break         *)
(*   "malformed"  KeyError, TypeError, AttributeError: AdapterError        *)
(*   "badvalue"   int() of a field that is no number: ValueError           *)
(* Of errors, "hard" is an AdapterError without a status in its text, as   *)
(* are those of the normalizer itself.                                     *)
(***************************************************************************)
EXTENDS Governor

CONSTANTS
  Calls,        \* the calls of Bridge.run
  Modes,        \* how they may be made: "buffered", "stream"
  Statuses,     \* the errors whose text carries 429 or 529
  MaxAttempts   \* _MAX_ATTEMPTS

ASSUME MaxAttemptsAssumption == MaxAttempts \in Nat \ {0}
ASSUME BridgeRunsAssumption == Runs = Calls \X (1..MaxAttempts)
ASSUME BridgeKindsAssumption ==
  /\ Kinds \subseteq {"chunk", "silent", "result", "malformed", "badvalue"}
  /\ Errors \subseteq {"transient", "throttled", "hard", "plan", "auth"}
  /\ Statuses \subseteq (Errors \cup {"deadline"}) \ {"hard"}
  /\ Modes \subseteq {"buffered", "stream"}

VARIABLES
  call,      \* where each call is suspended
  mode,      \* its `stream` argument
  attempt,   \* the attempt it is at; 0 before the first
  yielded,   \* `yielded`: this attempt has given the user a chunk
  result,    \* this attempt has produced the Result
  error,     \* the exception on its way through the pipeline
  verdict,   \* how the call ended
  seen       \* the attempts whose chunks the user has seen

callVars == <<call, mode, attempt, yielded, result, error, verdict, seen>>
bridgeVars == <<vars, callVars>>

BridgeInit ==
  /\ Init
  /\ call    = [c \in Calls |-> "idle"]
  /\ mode    \in [Calls -> Modes]
  /\ attempt = [c \in Calls |-> 0]
  /\ yielded = [c \in Calls |-> FALSE]
  /\ result  = [c \in Calls |-> FALSE]
  /\ error   = [c \in Calls |-> "none"]
  /\ verdict = [c \in Calls |-> "none"]
  /\ seen    = [c \in Calls |-> {}]

(* The guard() call of the attempt a call is at.                           *)
Run(c) == <<c, attempt[c]>>

(* Mutants, named Mutant*, are plausible slips of the definition that      *)
(* follows them; they are there to show that the properties notice.        *)

(* Text is looked for in every typed error, or every exception is retried. *)
MutantIsTransient(e) == e = "transient" \/ e \in Statuses
MutantIsTransientAny(e) == e # "result"

(* The errors that are AdapterErrors, the watchdog's among them, but no    *)
(* TransientAdapterError.                                                  *)
AdapterErrors == {"throttled", "hard", "deadline"}

(* _is_transient: TransientAdapterError, and an AdapterError whose text    *)
(* carries a status; the text of plan and auth errors is not looked at.    *)
IsTransient(e) == e = "transient" \/ e \in AdapterErrors \cap Statuses

-----------------------------------------------------------------------------
(* An attempt starts: what the previous one found is forgotten.            *)
BeginAttempt(c, a) ==
  /\ attempt' = [attempt EXCEPT ![c] = a]
  /\ yielded' = [yielded EXCEPT ![c] = FALSE]
  /\ result'  = [result EXCEPT ![c] = FALSE]
  /\ error'   = [error EXCEPT ![c] = "none"]
  /\ call'    = [call EXCEPT ![c] = "running"]
  /\ GuardStart(<<c, a>>)
  /\ UNCHANGED <<mode, verdict, seen>>

CallStart(c) == call[c] = "idle" /\ BeginAttempt(c, 1)

(* There is no working directory, of the call or of its bridge: a usage    *)
(* error, which is documented to be no AnycliError.                        *)
CallRefused(c) ==
  /\ call[c] = "idle"
  /\ call'    = [call EXCEPT ![c] = "done"]
  /\ verdict' = [verdict EXCEPT ![c] = "refused"]
  /\ UNCHANGED <<vars, mode, attempt, yielded, result, error, seen>>

BackoffOver(c) == call[c] = "backoff" /\ BeginAttempt(c, attempt[c] + 1)

(* The pipeline of the attempt is closed from inside: normalize closes the *)
(* guard, and e, if any, goes on to run().                                 *)
ClosePipeline(c, e) ==
  /\ ConsumerClose(Run(c))
  /\ call'  = [call EXCEPT ![c] = "closing"]
  /\ error' = [error EXCEPT ![c] = e]

(* normalize has the next event in hand.                                   *)
InHand(c, kinds) ==
  call[c] = "running" /\ guard[Run(c)] = "yielded" /\ item[Run(c)] \in kinds

(* An event without a chunk, or a chunk that a buffered run drops.         *)
PassOver(c) ==
  /\ InHand(c, {"silent"} \cup (IF mode[c] = "buffered" THEN {"chunk"} ELSE {}))
  /\ ConsumerNext(Run(c))
  /\ UNCHANGED callVars

(* A streamed run gives the user the chunk: here it may be abandoned.      *)
YieldChunk(c) ==
  /\ InHand(c, {"chunk", "result"})
  /\ mode[c] = "stream"
  /\ call'    = [call EXCEPT ![c] = "yielded"]
  /\ yielded' = [yielded EXCEPT ![c] = TRUE]
  /\ result'  = [result EXCEPT ![c] = item[Run(c)] = "result"]
  /\ seen'    = [seen EXCEPT ![c] = @ \cup {attempt[c]}]
  /\ UNCHANGED <<vars, mode, attempt, error, verdict>>

(* normalize reads on after the Result.                                    *)
MutantKeepResult(c) ==
  /\ InHand(c, {"result"}) /\ mode[c] = "buffered"
  /\ result' = [result EXCEPT ![c] = TRUE]
  /\ ConsumerNext(Run(c))
  /\ UNCHANGED <<call, mode, attempt, yielded, error, verdict, seen>>

(* A buffered run keeps the Result; normalize stops there.                 *)
KeepResult(c) ==
  /\ InHand(c, {"result"})
  /\ mode[c] = "buffered"
  /\ result' = [result EXCEPT ![c] = TRUE]
  /\ ClosePipeline(c, "none")
  /\ UNCHANGED <<mode, attempt, yielded, verdict, seen>>

(* A payload the normalizer cannot use.                                    *)
Malformed(c) ==
  /\ InHand(c, {"malformed", "badvalue"})
  /\ ClosePipeline(c, IF item[Run(c)] = "malformed" THEN "hard" ELSE "ValueError")
  /\ UNCHANGED <<mode, attempt, yielded, result, verdict, seen>>

-----------------------------------------------------------------------------
(* The user of a streamed call comes back for more, after the Result to    *)
(* find the end of the stream, or closes it.                               *)
UserNext(c) ==
  /\ call[c] = "yielded"
  /\ ~result[c]
  /\ ConsumerNext(Run(c))
  /\ call' = [call EXCEPT ![c] = "running"]
  /\ UNCHANGED <<mode, attempt, yielded, result, error, verdict, seen>>

UserNextAfterResult(c) ==
  /\ call[c] = "yielded"
  /\ result[c]
  /\ ClosePipeline(c, "none")
  /\ UNCHANGED <<mode, attempt, yielded, result, verdict, seen>>

UserClose(c) ==
  /\ call[c] = "yielded"
  /\ ClosePipeline(c, "closed")
  /\ UNCHANGED <<mode, attempt, yielded, result, verdict, seen>>

(* The task that awaits the call is cancelled, wherever it is suspended.   *)
UserCancel(c) ==
  /\ call[c] \in {"running", "closing"}
  /\ ConsumerCancel(Run(c)) \/ ConsumerCancelClosing(Run(c))
  /\ call'  = [call EXCEPT ![c] = "closing"]
  /\ error' = [error EXCEPT ![c] = "closed"]
  /\ UNCHANGED <<mode, attempt, yielded, result, verdict, seen>>

UserCancelBackoff(c) ==
  /\ call[c] = "backoff"
  /\ call'    = [call EXCEPT ![c] = "done"]
  /\ verdict' = [verdict EXCEPT ![c] = "closed"]
  /\ UNCHANGED <<vars, mode, attempt, yielded, result, error, seen>>

-----------------------------------------------------------------------------
(* A guard that returned is taken for a run that succeeded.                *)
MutantAttemptOutcome(c) == IF error[c] # "none" THEN error[c] ELSE item[Run(c)]

(* What comes out of an attempt whose guard is over: the exception that    *)
(* was on its way, what the guard raised, or the Result.  A stream without *)
(* a terminal event is an AdapterError.                                    *)
AttemptOutcome(c) ==
  IF error[c] # "none" THEN error[c]
  ELSE IF item[Run(c)] \in Errors \cup {"deadline"} THEN item[Run(c)]
  ELSE IF result[c] THEN "result"
  ELSE "hard"

AttemptOver(c) == call[c] \in {"running", "closing"} /\ guard[Run(c)] = "done"

(* A streamed run is retried although the user has seen chunks.            *)
MutantMayRetry(c) == IsTransient(AttemptOutcome(c)) /\ attempt[c] < MaxAttempts

MayRetry(c) ==
  /\ IsTransient(AttemptOutcome(c))
  /\ attempt[c] < MaxAttempts
  /\ ~yielded[c]

Retry(c) ==
  /\ AttemptOver(c)
  /\ MayRetry(c)
  /\ call' = [call EXCEPT ![c] = "backoff"]
  /\ UNCHANGED <<vars, mode, attempt, yielded, result, error, verdict, seen>>

CallEnd(c) ==
  /\ AttemptOver(c)
  /\ ~MayRetry(c)
  /\ call'    = [call EXCEPT ![c] = "done"]
  /\ verdict' = [verdict EXCEPT ![c] = AttemptOutcome(c)]
  /\ UNCHANGED <<vars, mode, attempt, yielded, result, error, seen>>

-----------------------------------------------------------------------------
BridgeTask(c) ==
  \/ PassOver(c) \/ YieldChunk(c) \/ KeepResult(c) \/ Malformed(c)
  \/ Retry(c) \/ CallEnd(c) \/ BackoffOver(c)

User(c) ==
  \/ CallStart(c) \/ CallRefused(c) \/ UserNext(c) \/ UserNextAfterResult(c)
  \/ UserClose(c) \/ UserCancel(c) \/ UserCancelBackoff(c)

(* Every call is over and nothing is left running.                         *)
BridgeTerminated ==
  /\ \A c \in Calls : call[c] = "done"
  /\ \A r \in Runs : /\ driver[r] \in {"none", "done"}
                     /\ gen[r] \in {"unstarted", "suspended", "closed"}
                     /\ closer[r] \in {"none", "done"}
  /\ UNCHANGED bridgeVars

BridgeNext ==
  \/ \E r \in Runs : Loop(r) /\ UNCHANGED callVars
  \/ \E c \in Calls : BridgeTask(c) \/ User(c)
  \/ BridgeTerminated

BridgeSpec == BridgeInit /\ [][BridgeNext]_bridgeVars

(* The loop goes on while a task of a guard or the library's part of a     *)
(* call can; the users and the streams owe nothing.  No task runs for ever,*)
(* so that fairness need not be asked for each of them.                    *)
BridgeLoop ==
  \/ \E r \in Runs :
       (GuardTask(r) \/ DriverTask(r) \/ PumpTask(r) \/ CloserTask(r)) /\ UNCHANGED callVars
  \/ \E c \in Calls : BridgeTask(c)

BridgeFairSpec == BridgeSpec /\ WF_bridgeVars(BridgeLoop)

-----------------------------------------------------------------------------
BridgeTypeOK ==
  /\ TypeOK
  /\ call \in [Calls -> {"idle", "running", "yielded", "closing", "backoff", "done"}]
  /\ mode \in [Calls -> Modes]
  /\ attempt \in [Calls -> 0..MaxAttempts]
  /\ yielded \in [Calls -> BOOLEAN]
  /\ result \in [Calls -> BOOLEAN]
  /\ error \in [Calls -> {"none", "hard", "ValueError", "closed"}]
  /\ verdict \in [Calls ->
       {"none", "refused", "result", "hard", "deadline", "ValueError", "closed"} \cup Errors]
  /\ seen \in [Calls -> SUBSET (1..MaxAttempts)]

(* Only transient failures are retried: every attempt before the current   *)
(* one ended with an adapter fault that says so, by its class or by the    *)
(* status in its text, reported by its guard after its slot was free.      *)
(* PlanLimitReached and auth failures, whatever their text, and malformed  *)
(* streams end the call.                                                   *)
OnlyTransientRetried ==
  \A c \in Calls : \A a \in 1..MaxAttempts :
    a < attempt[c] =>
      /\ driver[<<c, a>>] = "done"
      /\ item[<<c, a>>] \in {"transient"} \cup (Statuses \ {"plan", "auth"})

(* A streamed call never shows its user chunks of two attempts, so no text *)
(* is repeated after a retry.                                              *)
ChunksOfOneAttempt ==
  \A c \in Calls : seen[c] \subseteq {attempt[c]}

(* A retrying call gives its slot back before it asks for another: it      *)
(* never competes with itself, and its attempts never work at once.        *)
OneSlotPerCall ==
  \A c \in Calls : \A a, b \in 1..MaxAttempts :
    /\ {<<c, a>>, <<c, b>>} \subseteq Holders \cup Queuers => a = b
    /\ gen[<<c, a>>] = "running" /\ gen[<<c, b>>] = "running" => a = b

(* Once an attempt has produced its Result the call cannot fail any more,  *)
(* even if the deadline fires or the stream fails while it is being closed;*)
(* only its own user can still give it up.                                 *)
ResultIsFinal ==
  \A c \in Calls :
    /\ result[c] => call[c] # "backoff" /\ verdict[c] \in {"none", "result", "closed"}
    /\ verdict[c] = "result" => result[c]

(* errors.py: every public error of a run comes from the typed hierarchy.  *)
TypedErrorsOnly ==
  \A c \in Calls : verdict[c] # "ValueError"

(* A buffered call ends, although its streams may hang in every attempt,   *)
(* be retried for the status in the watchdog's text, hang again, and clean *)
(* up for ever: each wait of each attempt is cut short.  (For the slots it *)
(* shares with other calls see Governor's ServesPool.)                     *)
BufferedCallEnds ==
  \A c \in Calls : call[c] = "running" /\ mode[c] = "buffered" ~> call[c] = "done"
=============================================================================
