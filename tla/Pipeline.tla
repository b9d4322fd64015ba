------------------------------ MODULE Pipeline ------------------------------
(***************************************************************************)
(* One turn with a clock: the governor's guard() over the generator of     *)
(* ClaudeCodeAdapter.run_once over the SDK stream.  Governor leaves the    *)
(* adapter generator to the environment and ClaudeCodeAdapter its          *)
(* consumer; here each plays the other's part.  An action of both is what  *)
(* happens in one step of the loop when the pump, or the background close, *)
(* enters the adapter generator or comes back from it.                     *)
(*                                                                         *)
(* Time is counted in units of two seconds and passes only while no task   *)
(* of the library can go on: what the library computes takes no time.      *)
(***************************************************************************)
EXTENDS Governor

CONSTANTS
  Run,                                      \* the one guard() call
  MaxTurn,                                  \* max_turn_seconds
  Messages, Times, BadTimes, MaxMessages,   \* see ClaudeCodeAdapter
  SdkEndings                                \* how the SDK stream may end

SettleGrace  == 1   \* _SETTLE_GRACE_SECONDS = 2.0
CloseGrace   == 5   \* _CLOSE_GRACE_SECONDS = 10.0
CleanupGrace == 5   \* CLEANUP_GRACE_SECONDS = 10.0

VARIABLES
  adapter, read, inbox, sdk, outbox, rejected, resetsAt, shutdown,
  verdict, raisedAt, log, delivered,        \* of ClaudeCodeAdapter
  driverLeft,    \* until the timeout of the driver's wait
  leaveLeft,     \* until that of run_once's wait for its shutdown
  settleLeft,    \* until that of the shutdown's wait for a read
  held,          \* how long the run has held its slot
  working        \* how long the SDK has worked on since the turn is to stop

A == INSTANCE ClaudeCodeAdapter WITH gen <- adapter

(* The messages are such as ClaudeCodeAdapter assumes, every error that    *)
(* run_once may raise is one the governor counts with, and the SDK raises  *)
(* no CancelledError of its own (for that see Governor's SelfCancels).     *)
ASSUME PipelineAssumption ==
  /\ Runs = {Run} /\ MaxTurn \in Nat \ {0}
  /\ Messages \subseteq
       [type : A!MessageTypes, marks : SUBSET A!Marks, reset : Times \cup {"none"},
        blocks : Nat]
  /\ BadTimes \subseteq Times /\ "none" \notin Times /\ MaxMessages \in Nat
  /\ SdkEndings \subseteq A!Endings \ {A!Failed("cancelled")}
  /\ A!Verdicts \ {"none", "end", "closed", "cancelled"} \subseteq Errors

adapterVars == <<adapter, read, inbox, sdk, outbox, rejected, resetsAt, shutdown,
                 verdict, raisedAt, log, delivered>>
timerVars == <<driverLeft, leaveLeft, settleLeft, held, working>>
pipelineVars == <<vars, adapterVars, timerVars>>

PipelineInit ==
  /\ Init /\ A!Init
  /\ driverLeft = 0 /\ leaveLeft = 0 /\ settleLeft = 0 /\ held = 0 /\ working = 0

-----------------------------------------------------------------------------
(* The SDK, and with it the agent, works on.                               *)
SdkWorks == sdk \in {"busy", "idle"}

(* The turn is to stop: its driver has left the wait for the pump.         *)
ToStop == driver[Run] \in {"reapPump", "reapClose", "done"}

(* A driver cancelled while it reaps leaves a suspended generator to the   *)
(* garbage collector: see NothingLeftOpen.                                 *)
LeftOpen == driver[Run] = "done" /\ gen[Run] = "suspended" /\ closer[Run] = "none"

(* Mutants, named Mutant*, are plausible slips of the definition that      *)
(* follows them; they are there to show that the properties notice.        *)

(* The deadline is set anew with every event.                              *)
MutantDriverTimer ==
  driverLeft' = IF driver'[Run] = driver[Run] /\ produced' = produced THEN driverLeft
                ELSE IF driver'[Run] = "pumping" THEN MaxTurn
                ELSE IF driver'[Run] \in HoldingStates THEN CleanupGrace
                ELSE 0

(* Each wait of the driver sets its timer when it begins.                  *)
DriverTimer ==
  driverLeft' = IF driver'[Run] = driver[Run] THEN driverLeft
                ELSE IF driver'[Run] = "pumping" THEN MaxTurn
                ELSE IF driver'[Run] \in HoldingStates THEN CleanupGrace
                ELSE 0

(* So does run_once's wait for its shutdown ...                            *)
LeaveTimer ==
  leaveLeft' = IF adapter' # "closing" THEN 0
               ELSE IF adapter = "closing" THEN leaveLeft ELSE CloseGrace

(* The shutdown waits for reads as long as run_once waits for it.          *)
MutantSettleTimer ==
  settleLeft' = IF shutdown' \notin {"settling", "cancelling"} THEN 0
                ELSE IF shutdown' = shutdown THEN settleLeft ELSE CloseGrace

(* ... and each wait of the shutdown for a read.                           *)
SettleTimer ==
  settleLeft' = IF shutdown' \notin {"settling", "cancelling"} THEN 0
                ELSE IF shutdown' = shutdown THEN settleLeft ELSE SettleGrace

Timers ==
  /\ DriverTimer /\ LeaveTimer /\ SettleTimer
  /\ held' = IF Run \in Holders' THEN held ELSE 0
  /\ working' = IF SdkWorks' THEN working ELSE 0

(* A step of one of the two alone.                                         *)
Governs(action) == action /\ UNCHANGED adapterVars
Adapts(action) == action /\ UNCHANGED vars

-----------------------------------------------------------------------------
(* The pump enters the generator for the first time.                       *)
PumpEnters == PumpStart(Run) /\ (A!Start \/ A!OptionsRejected)

(* The generator has come back to the pump, which goes on in the same step *)
(* of the loop: with its event to the queue and, if the consumer has asked,*)
(* back into the generator, or with the refusal of its options to the end. *)
InPump == pump[Run] = "reading" /\ gen[Run] = "running" /\ adapter \in {"yielded", "done"}

PumpGoesOn ==
  /\ InPump
  /\ \/ /\ adapter = "yielded"
        /\ \E k \in Kinds : StreamEmit(Run, k)
        /\ IF pace[Run] > 0 THEN A!AskNext ELSE UNCHANGED adapterVars
     \/ (adapter = "done" /\ Governs(StreamEnd(Run, verdict)))

PumpResumes == (\E k \in Kinds : PumpPaced(Run, k)) /\ A!AskNext

(* The deadline, or the cancellation of the driver, cancels the pump, and  *)
(* through it the wait in which the generator is suspended.                *)
PumpStopped ==
  /\ (Deadline(Run) /\ driverLeft = 0) \/ CancelledPumping(Run)
  /\ IF pump[Run] = "reading" THEN A!Cancel \/ A!CancelClosing ELSE UNCHANGED adapterVars

(* run_once is over: by itself, or closed, or cancelled.                   *)
GeneratorLeaves ==
  \/ /\ A!Leave
     /\ shutdown = "done" \/ leaveLeft = 0
     /\ IF gen[Run] = "running" THEN StreamEnd(Run, verdict) ELSE StreamUnwound(Run)
  \/ (adapter = "done" /\ Governs(StreamUnwound(Run)))

(* The background close enters a suspended generator.                      *)
CloserEnters ==
  /\ CloserStart(Run)
  /\ IF gen[Run] = "suspended" THEN A!Close ELSE UNCHANGED adapterVars

DriverAlone ==
  \/ AcquireAtOnce(Run) \/ PumpEnded(Run) \/ ReapPump(Run)
  \/ (ReapPumpExpired(Run) /\ driverLeft = 0)
  \/ (ReapClose(Run) /\ (closer[Run] = "done" \/ driverLeft = 0))
  \/ CancelledUnstarted(Run) \/ CancelledReaping(Run)

ShutdownAlone ==
  \/ A!ShutdownStart \/ A!Settled
  \/ (A!SettleExpired \/ A!CancelExpired) /\ settleLeft = 0

(* What the library does of itself, at once.                               *)
Library ==
  \/ PumpGoesOn
  \/ /\ ~InPump
     /\ \/ PumpEnters \/ PumpResumes \/ PumpStopped \/ GeneratorLeaves \/ CloserEnters
        \/ Governs(GuardTask(Run) \/ DriverAlone \/ CloseWhenSettled(Run))
        \/ Adapts(A!Handle \/ A!HandleRaise \/ A!HandleEnd \/ A!HandleFailure \/ ShutdownAlone)

(* The consumer, the SDK and the garbage collector take their time.        *)
Environment ==
  /\ ~InPump
  /\ \/ Governs(Consumer(Run) \/ Finalize(Run))
     \/ Adapts((\E m \in Messages : A!SdkDeliver(m)) \/ \E m \in SdkEndings : A!SdkEnd(m))
     \/ Adapts(A!SdkUnwound)

(* What is ready to run or has its timer expired, task by task: a pump or  *)
(* a driver that need not wait, ...                                        *)
TurnDue ==
  \/ InPump \/ pump[Run] = "created" \/ (pump[Run] = "pacing" /\ pace[Run] > 0)
  \/ driver[Run] = "created" \/ cancelling[Run]
  \/ driver[Run] \in {"pumping", "reapPump"} /\ (pump[Run] = "done" \/ driverLeft = 0)
  \/ driver[Run] = "reapClose" /\ (closer[Run] = "done" \/ driverLeft = 0)

(* ... a guard that has an item or is over, a close that can begin, ...    *)
GuardDue ==
  \/ guard[Run] = "waiting" /\ queue[Run] # <<>>
  \/ guard[Run] = "closing" /\ driver[Run] = "done"
  \/ closer[Run] = "created" \/ (closer[Run] = "armed" /\ pump[Run] = "done")

(* ... run_once with its read or its shutdown over, ...                    *)
AdapterDue ==
  \/ adapter = "reading" /\ read = "settled"
  \/ adapter = "closing" /\ (shutdown = "done" \/ leaveLeft = 0)
  \/ adapter = "done" /\ gen[Run] = "unwinding"

(* ... and the shutdown.                                                   *)
ShutdownDue ==
  \/ shutdown = "created"
  \/ /\ shutdown \in {"settling", "cancelling"}
     /\ read \in {"settled", "none"} \/ settleLeft = 0

Due == TurnDue \/ GuardDue \/ AdapterDue \/ ShutdownDue

(* Two seconds pass.                                                       *)
Passed(left) == IF left > 0 THEN left - 1 ELSE 0

Tick ==
  /\ ~Due
  /\ driverLeft + leaveLeft + settleLeft > 0
  /\ driverLeft' = Passed(driverLeft)
  /\ leaveLeft'  = Passed(leaveLeft)
  /\ settleLeft' = Passed(settleLeft)
  /\ held' = IF Run \in Holders THEN held + 1 ELSE held
  /\ working' = IF ToStop /\ SdkWorks /\ ~LeftOpen THEN working + 1 ELSE working
  /\ UNCHANGED <<vars, adapterVars>>

PipelineTerminated ==
  /\ Terminated
  /\ shutdown \in {"none", "done"}
  /\ UNCHANGED pipelineVars

PipelineNext == ((Library \/ Environment) /\ Timers) \/ Tick \/ PipelineTerminated

PipelineSpec == PipelineInit /\ [][PipelineNext]_pipelineVars

(* The loop runs what is ready, time passes, the garbage collector closes  *)
(* what nobody refers to, and the SDK finishes cleanups it has begun.      *)
(* Nobody else owes anything: reads of the SDK may hang for ever.          *)
PipelineFairSpec ==
  /\ PipelineSpec
  /\ WF_pipelineVars(Library /\ Timers)
  /\ WF_pipelineVars(Tick)
  /\ WF_pipelineVars(~InPump /\ Governs(Finalize(Run)) /\ Timers)
  /\ WF_pipelineVars(~InPump /\ Adapts(A!SdkUnwound) /\ Timers)

-----------------------------------------------------------------------------
(* The types, and that the governor's view of the adapter generator is     *)
(* what the adapter is in, except while the pump is about to hear of it.   *)
PipelineTypeOK ==
  /\ TypeOK /\ A!TypeOK
  /\ driverLeft \in Nat /\ leaveLeft \in 0..CloseGrace /\ settleLeft \in Nat
  /\ held \in Nat /\ working \in Nat
  /\ \/ gen[Run] = A!StreamState
     \/ (pump[Run] = "reading" /\ adapter \in {"yielded", "done"})

(* CLEANUP_GRACE_SECONDS "bounds how long a turn can outlive its deadline":*)
(* no run holds its slot for longer than the turn and one grace, for all   *)
(* that a turn's cleanup has two steps with a grace each.                  *)
SlotLifetime == held <= MaxTurn + CleanupGrace

(* However a turn is stopped, by its deadline or by its consumer, the      *)
(* agent is told within _SETTLE_GRACE_SECONDS: its stream is closed or its *)
(* read cancelled.  Only the time in which the generator is LeftOpen does  *)
(* not count.                                                              *)
AgentToldInTime == working <= SettleGrace

(* The graces of the adapter fit into those of the governor: a read that   *)
(* hangs, however long, does not let the governor's grace expire before    *)
(* the generator is over; only the SDK's own close, when it is stuck, does.*)
(* A driver cancelled while it reaps leaves its slot early as well: that is*)
(* CancelledReaping, and LiveWithinCap's concern.                          *)
GivesUpOnlyOnStuckClose ==
  [][closer'[Run] = "armed" /\ closer[Run] # "armed"
       => shutdown \in {"closing", "done"}]_pipelineVars

(* A raw cancellation, which skips the SDK's terminate/kill escalation and *)
(* may leave the CLI alive, is what a read meets that has hung through the *)
(* whole settle grace since its turn was stopped, and no other.            *)
OnlyHungReadCancelled ==
  [][sdk' = "aborting" /\ sdk # "aborting" => working = SettleGrace]_pipelineVars

(* "Always reaped", as far as it is true: an SDK stream that was started   *)
(* is over in the end, although reads may hang for ever and consumers walk *)
(* away.  It is closed, which ends the subprocess, or cancelled: then a    *)
(* CLI that is still alive is left to the SDK's atexit reaper.             *)
EveryStreamEnds == sdk # "none" ~> sdk \in {"closed", "aborted"}
=============================================================================
