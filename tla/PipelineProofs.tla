--------------------------- MODULE PipelineProofs ---------------------------
(* Theorems about Pipeline, for any turn length, messages and events: that *)
(* it is a behaviour of Governor and of ClaudeCodeAdapter at once, and     *)
(* what follows from their meeting, and from the clock.                    *)
EXTENDS Pipeline, TurnProofs

AP == INSTANCE AdapterProofs WITH gen <- adapter

(* How run_once ends, and that it has nothing to close when it refused its *)
(* options.                                                                *)
EndInv ==
  /\ adapter \in {"unstarted", "reading", "yielded"} <=> verdict = "none"
  /\ inbox # A!Failed("cancelled")
  /\ adapter = "done" /\ shutdown = "none" => verdict = "adapter" /\ sdk = "none"

(* The governor's view of the adapter generator is where run_once is,      *)
(* unless the pump has still to hear of it.                                *)
ViewInv ==
  \/ gen[Run] = A!StreamState
  \/ /\ pump[Run] = "reading" /\ gen[Run] = "running"
     /\ adapter = "yielded" \/ (adapter = "done" /\ verdict = "adapter")
  \/ /\ pump[Run] = "reading" /\ gen[Run] = "unwinding"
     /\ adapter = "done" /\ shutdown # "none"

(* What the slot has still to be held for, by the wait the driver is in.   *)
HeldInv ==
  /\ driver[Run] \notin HoldingStates => held = 0
  /\ driver[Run] = "pumping" => held + driverLeft <= MaxTurn
  /\ driver[Run] = "reapPump" =>
       /\ driverLeft <= CleanupGrace /\ held + driverLeft <= MaxTurn + CleanupGrace
       /\ pump[Run] = "done" /\ gen[Run] = "suspended" => held <= MaxTurn
  /\ driver[Run] = "reapClose" =>
       /\ driverLeft <= CleanupGrace
       /\ held + (IF gen[Run] = "closed" THEN 0 ELSE driverLeft) <= MaxTurn + CleanupGrace

(* The agent works on against the will of the driver only while the        *)
(* shutdown waits for its read to settle.                                  *)
AgentInv == working > 0 => shutdown = "settling" /\ working + settleLeft <= SettleGrace

(* While the driver waits for a generator that unwinds, the shutdown has   *)
(* time for its two graces.                                                *)
GraceInv ==
  driver[Run] = "reapPump" /\ pump[Run] = "reading" =>
    \/ shutdown \in {"closing", "done"}
    \/ shutdown = "created" /\ driverLeft > 2 * SettleGrace
    \/ shutdown = "settling" /\ driverLeft > settleLeft + SettleGrace
    \/ shutdown = "cancelling" /\ driverLeft > settleLeft

TimersOK ==
  /\ driverLeft \in Nat /\ leaveLeft \in 0..CloseGrace /\ settleLeft \in 0..SettleGrace
  /\ held \in Nat /\ working \in Nat

GovernorPart == TypeOK /\ SlotInv /\ WorkInv /\ ShapeInv
AdapterPart == AP!TypeOK /\ AP!AdapterInv /\ EndInv
ClockPart == TimersOK /\ HeldInv /\ AgentInv /\ GraceInv

PipelineInv == GovernorPart /\ AdapterPart /\ ViewInv /\ ClockPart

-----------------------------------------------------------------------------
(* The instance of Pipeline is the one AdapterProofs speaks of.            *)
LEMMA Instance == AP!TypeOK <=> A!TypeOK
BY DEF AP!TypeOK, A!TypeOK, AP!Verdicts, A!Verdicts, AP!Endings, A!Endings,
       AP!Exhausted, A!Exhausted, AP!Failed, A!Failed, AP!Failures, A!Failures

(* What run_once and the governor do in a step, each by itself.            *)
AdapterAlone ==
  \/ A!OptionsRejected \/ A!Start \/ A!AskNext \/ A!Close \/ A!Cancel \/ A!CancelClosing
  \/ A!Handle \/ A!HandleRaise \/ A!HandleEnd \/ A!HandleFailure \/ A!Leave
  \/ A!ShutdownStart \/ A!Settled \/ A!SettleExpired \/ A!CancelExpired
  \/ \E m \in Messages : A!SdkDeliver(m)
  \/ \E m \in SdkEndings : A!SdkEnd(m)
  \/ A!SdkUnwound

LEMMA AdapterMoves == PipelineNext => AdapterAlone \/ UNCHANGED adapterVars
<1> SUFFICES ASSUME PipelineNext PROVE AdapterAlone \/ UNCHANGED adapterVars
  OBVIOUS
<1> USE DEF AdapterAlone, Governs, Adapts
<1>1. CASE PumpGoesOn
  BY <1>1 DEF PumpGoesOn
<1>2. CASE PumpEnters \/ PumpResumes \/ PumpStopped \/ GeneratorLeaves \/ CloserEnters
  BY <1>2 DEF PumpEnters, PumpResumes, PumpStopped, GeneratorLeaves, CloserEnters
<1>3. CASE \/ Governs(GuardTask(Run) \/ DriverAlone \/ CloseWhenSettled(Run))
           \/ Governs(Consumer(Run) \/ Finalize(Run))
  BY <1>3
<1>4. CASE \/ Adapts(A!Handle \/ A!HandleRaise \/ A!HandleEnd \/ A!HandleFailure \/ ShutdownAlone)
           \/ Adapts((\E m \in Messages : A!SdkDeliver(m)) \/ \E m \in SdkEndings : A!SdkEnd(m))
           \/ Adapts(A!SdkUnwound)
  BY <1>4 DEF ShutdownAlone
<1>5. CASE Tick \/ PipelineTerminated
  BY <1>5 DEF Tick, PipelineTerminated, pipelineVars
<1> QED BY <1>1, <1>2, <1>3, <1>4, <1>5 DEF PipelineNext, Library, Environment

LEMMA AdapterAloneNext == AdapterAlone => A!Next
BY PipelineAssumption
   DEF AdapterAlone, A!Next, A!Consumer, A!RunOnce, A!Shutdown, A!Sdk

LEMMA NextOfInstance == A!Next => AP!Next
<1> USE DEF A!streamVars, AP!streamVars, A!limitVars, AP!limitVars, A!endVars, AP!endVars,
            A!Finish, AP!Finish, A!BeginRead, AP!BeginRead, A!BeginClose, AP!BeginClose,
            A!Proceed, AP!Proceed
<1>1. A!Consumer => AP!Consumer
  BY DEF A!Consumer, AP!Consumer, A!OptionsRejected, AP!OptionsRejected, A!Start, AP!Start,
         A!AskNext, AP!AskNext, A!Close, AP!Close, A!Cancel, AP!Cancel,
         A!CancelClosing, AP!CancelClosing
<1>2. A!RunOnce => AP!RunOnce
  BY DEF A!RunOnce, AP!RunOnce, A!Handle, AP!Handle, A!HandleRaise, AP!HandleRaise,
         A!HandleEnd, AP!HandleEnd, A!HandleFailure, AP!HandleFailure, A!Leave, AP!Leave,
         A!Handling, AP!Handling, A!MessageTypes, AP!MessageTypes, A!Classify, AP!Classify,
         A!Unusable, AP!Unusable,
         A!EventsOf, AP!EventsOf, A!When, AP!When, A!RaisedFor, AP!RaisedFor
<1>3. A!Shutdown => AP!Shutdown
  BY DEF A!Shutdown, AP!Shutdown, A!ShutdownStart, AP!ShutdownStart, A!Settled, AP!Settled,
         A!SettleExpired, AP!SettleExpired, A!CancelExpired, AP!CancelExpired
<1>4. A!Sdk => AP!Sdk
  BY DEF A!Sdk, AP!Sdk, A!SdkDeliver, AP!SdkDeliver, A!SdkEnd, AP!SdkEnd,
         A!SdkUnwound, AP!SdkUnwound, A!Endings, AP!Endings, A!Exhausted, AP!Exhausted,
         A!Failed, AP!Failed, A!Failures, AP!Failures
<1>5. A!Terminated => AP!Terminated
  BY DEF A!Terminated, AP!Terminated, A!vars, AP!vars
<1> QED BY <1>1, <1>2, <1>3, <1>4, <1>5 DEF A!Next, AP!Next

LEMMA NextAdapterPart ==
  AP!TypeOK /\ AP!AdapterInv /\ PipelineNext => AP!TypeOK' /\ AP!AdapterInv'
<1> SUFFICES ASSUME AP!TypeOK, AP!AdapterInv, PipelineNext
             PROVE  AP!TypeOK' /\ AP!AdapterInv'
  OBVIOUS
<1>1. AP!Next \/ UNCHANGED AP!vars
  BY AdapterMoves, AdapterAloneNext, NextOfInstance
     DEF adapterVars, AP!vars, AP!streamVars, AP!limitVars, AP!endVars
<1> QED BY <1>1, AP!NextTypeOK, AP!NextAdapterInv, PipelineAssumption
        DEF A!MessageTypes, A!Marks, AP!MessageTypes, AP!Marks

-----------------------------------------------------------------------------
(* What run_once makes of a failing message or read is an error it names.  *)
LEMMA RaisedVerdicts ==
  ASSUME AP!TypeOK, EndInv, A!HandleRaise \/ A!HandleFailure
  PROVE  verdict' \in A!Verdicts \ {"none", "end", "closed", "cancelled"}
<1>1. CASE A!HandleRaise
  BY <1>1 DEF A!HandleRaise, A!Finish, A!Classify, A!Verdicts
<1>2. CASE A!HandleFailure
  <2>1. inbox \in Messages \cup A!Endings /\ inbox.type = "failed"
    BY <1>2, Instance DEF A!TypeOK, A!HandleFailure, A!Handling
  <2>2. inbox \notin Messages
    BY <2>1, PipelineAssumption DEF A!MessageTypes
  <2>3. PICK e \in A!Failures \ {"cancelled"} : inbox = A!Failed(e)
    BY <2>1, <2>2 DEF A!Endings, A!Exhausted, EndInv
  <2>4. {A!RaisedFor(f) : f \in inbox.marks} = {A!RaisedFor(e)}
    BY <2>3 DEF A!Failed
  <2>5. verdict' = A!RaisedFor(e)
    BY <1>2, <2>4 DEF A!HandleFailure, A!Finish
  <2> QED BY <2>3, <2>5 DEF A!RaisedFor, A!Failures, A!Verdicts
<1> QED BY <1>1, <1>2

LEMMA NextEndInv ==
  AP!TypeOK /\ AP!AdapterInv /\ EndInv /\ PipelineNext => EndInv'
<1> SUFFICES ASSUME AP!TypeOK, AP!AdapterInv, EndInv, PipelineNext PROVE EndInv'
  OBVIOUS
<1>0. /\ adapter \in {"unstarted", "reading", "yielded", "closing", "done"}
      /\ adapter = "unstarted" => sdk = "none" /\ shutdown = "none" /\ read = "none"
      /\ adapter = "closing" => shutdown # "none"
      /\ read = "pending" <=> sdk = "busy"
  BY DEF AP!TypeOK, AP!AdapterInv, AP!GenInv, AP!SdkInv
<1> USE DEF EndInv, A!Finish, A!BeginRead, A!streamVars, A!limitVars, A!endVars
<1>1. CASE A!OptionsRejected \/ A!Start \/ A!Close \/ A!Cancel \/ A!CancelClosing
  BY <1>0, <1>1 DEF A!OptionsRejected, A!Start, A!Close, A!Cancel, A!CancelClosing
<1>2. CASE A!AskNext
  BY <1>0, <1>2 DEF A!AskNext, A!Proceed
<1>3. CASE A!Handle
  <2>1. A!Proceed(A!EventsOf(inbox)) /\ adapter = "reading" /\ UNCHANGED <<inbox, shutdown, verdict>>
    BY <1>3 DEF A!Handle, A!Handling
  <2> QED BY <1>0, <2>1 DEF A!Proceed
<1>4. CASE A!HandleRaise \/ A!HandleFailure
  <2>1. verdict' # "none"
    BY <1>4, RaisedVerdicts
  <2> QED BY <1>0, <1>4, <2>1 DEF A!HandleRaise, A!HandleFailure, A!Handling
<1>5. CASE A!HandleEnd \/ A!Leave
  BY <1>0, <1>5 DEF A!HandleEnd, A!Leave, A!Handling
<1>6. CASE A!ShutdownStart \/ A!Settled \/ A!SettleExpired \/ A!CancelExpired
  BY <1>0, <1>6 DEF A!ShutdownStart, A!Settled, A!SettleExpired, A!CancelExpired, A!BeginClose
<1>7. CASE \E m \in Messages : A!SdkDeliver(m)
  BY <1>0, <1>7, PipelineAssumption DEF A!SdkDeliver, A!MessageTypes, A!Failed
<1>8. CASE \E m \in SdkEndings : A!SdkEnd(m)
  BY <1>0, <1>8, PipelineAssumption DEF A!SdkEnd
<1>9. CASE A!SdkUnwound
  BY <1>0, <1>9 DEF A!SdkUnwound
<1>10. CASE UNCHANGED adapterVars
  BY <1>10 DEF adapterVars
<1> QED BY AdapterMoves, <1>1, <1>2, <1>3, <1>4, <1>5, <1>6, <1>7, <1>8, <1>9, <1>10
        DEF AdapterAlone

-----------------------------------------------------------------------------
(* The governor allows for every step of a generator that is run_once: in  *)
(* particular, run_once raises nothing that is not among Errors.           *)
GovernorAlone ==
  \/ PumpStart(Run) \/ (\E k \in Kinds : StreamEmit(Run, k) \/ PumpPaced(Run, k))
  \/ (\E f \in {"end"} \cup Errors : StreamEnd(Run, f)) \/ StreamUnwound(Run)
  \/ Deadline(Run) \/ CancelledPumping(Run)
  \/ CloserStart(Run) \/ CloseWhenSettled(Run) \/ Finalize(Run)
  \/ GuardTask(Run) \/ DriverAlone \/ Consumer(Run)

LEMMA NamedVerdict ==
  ASSUME AP!TypeOK, EndInv, ViewInv, gen[Run] = "running", adapter \in {"closing", "done"}
  PROVE  verdict \in {"end"} \cup Errors
<1>1. verdict \in A!Verdicts \ {"none"}
  BY Instance DEF A!TypeOK, EndInv
<1>2. verdict \notin {"closed", "cancelled"}
  BY DEF ViewInv, A!StreamState
<1> QED BY <1>1, <1>2, PipelineAssumption

LEMMA GovernorMoves ==
  ASSUME AP!TypeOK, EndInv, ViewInv, PipelineNext
  PROVE  GovernorAlone \/ UNCHANGED vars
<1> USE DEF GovernorAlone, Governs, Adapts
<1>1. CASE PumpGoesOn
  BY <1>1, NamedVerdict DEF PumpGoesOn, InPump
<1>2. CASE PumpEnters \/ PumpResumes \/ PumpStopped \/ CloserEnters
  BY <1>2 DEF PumpEnters, PumpResumes, PumpStopped, CloserEnters
<1>3. CASE GeneratorLeaves
  BY <1>3, NamedVerdict DEF GeneratorLeaves, A!Leave
<1>4. CASE \/ Governs(GuardTask(Run) \/ DriverAlone \/ CloseWhenSettled(Run))
           \/ Governs(Consumer(Run) \/ Finalize(Run))
  BY <1>4
<1>5. CASE \/ Adapts(A!Handle \/ A!HandleRaise \/ A!HandleEnd \/ A!HandleFailure \/ ShutdownAlone)
           \/ Adapts((\E m \in Messages : A!SdkDeliver(m)) \/ \E m \in SdkEndings : A!SdkEnd(m))
           \/ Adapts(A!SdkUnwound)
  BY <1>5
<1>6. CASE Tick \/ PipelineTerminated
  BY <1>6 DEF Tick, PipelineTerminated, pipelineVars
<1> QED BY <1>1, <1>2, <1>3, <1>4, <1>5, <1>6 DEF PipelineNext, Library, Environment

LEMMA GovernorAloneNext == GovernorAlone => Next
BY PipelineAssumption
   DEF GovernorAlone, DriverAlone, Next, Loop, DriverTask, PumpTask, CloserTask, Stream

LEMMA NextGovernorPart ==
  GovernorPart /\ AP!TypeOK /\ EndInv /\ ViewInv /\ PipelineNext => GovernorPart'
<1>1. AP!TypeOK /\ EndInv /\ ViewInv /\ PipelineNext => [Next]_vars
  BY GovernorMoves, GovernorAloneNext
<1> QED BY <1>1, NextTypeOK, NextSlotInv, NextWorkInv, NextShapeInv DEF GovernorPart

-----------------------------------------------------------------------------
(* What the tasks that do not touch the generator leave as it is.          *)
LEMMA GovernsFrame ==
  ASSUME GovernorPart,
         \/ GuardTask(Run) \/ DriverAlone \/ CloseWhenSettled(Run)
         \/ Consumer(Run) \/ Finalize(Run)
  PROVE  /\ gen' = gen
         /\ pump'[Run] = pump[Run] \/ (pump[Run] = "none" /\ pump'[Run] = "created")
<1> USE PipelineAssumption DEF consumerVars, driverVars, slotVars, channelVars, streamVars
<1>1. CASE GuardTask(Run) \/ Consumer(Run)
  BY <1>1 DEF GuardTask, Consumer, GuardTakeEvent, GuardTakeOutcome, GuardFinish, GuardStart,
              ConsumerNext, ConsumerClose, ConsumerCancel, ConsumerCancelClosing
<1>2. CASE CloseWhenSettled(Run) \/ Finalize(Run)
  BY <1>2 DEF CloseWhenSettled, Finalize
<1>3. CASE AcquireAtOnce(Run)
  BY <1>3 DEF AcquireAtOnce, GovernorPart, ShapeInv, Shape, TypeOK
<1>4. CASE DriverAlone /\ ~AcquireAtOnce(Run)
  BY <1>4 DEF DriverAlone, PumpEnded, ReapPump, ReapPumpExpired, ReapClose,
              CancelledUnstarted, CancelledReaping, LeaveSlot
<1> QED BY <1>1, <1>2, <1>3, <1>4

LEMMA NextViewInv ==
  GovernorPart /\ AdapterPart /\ ViewInv /\ PipelineNext => ViewInv'
<1> SUFFICES ASSUME GovernorPart, AdapterPart, ViewInv, PipelineNext PROVE ViewInv'
  OBVIOUS
<1> USE DEF ViewInv, A!StreamState
<1>0. /\ gen \in [Runs -> {"unstarted", "closed", "running", "suspended", "unwinding"}]
      /\ pump \in [Runs -> {"none", "created", "reading", "pacing", "done"}]
      /\ Run \in Runs
      /\ gen[Run] = "running" => pump[Run] = "reading" /\ driver[Run] = "pumping"
      /\ gen[Run] = "unstarted" <=> pump[Run] \in {"none", "created"}
      /\ pump[Run] = "pacing" => gen[Run] = "suspended"
      /\ closer[Run] = "created" => pump[Run] = "done"
      /\ driver[Run] = "pumping" => pump[Run] # "none"
  BY PipelineAssumption
     DEF GovernorPart, TypeOK, LiveStates, WorkInv, ShapeInv, Shape, HoldingStates
<1>1. /\ adapter = "closing" => shutdown # "none"
      /\ adapter \in {"unstarted", "reading", "yielded", "closing", "done"}
      /\ adapter \in {"unstarted", "reading", "yielded"} <=> verdict = "none"
  BY DEF AdapterPart, AP!AdapterInv, AP!GenInv, AP!TypeOK, EndInv
<1>2. CASE PumpEnters
  BY <1>0, <1>2 DEF PumpEnters, PumpStart, A!Start, A!OptionsRejected, A!streamVars,
                    A!limitVars, A!endVars
<1>3. CASE PumpGoesOn
  <2>1. CASE adapter = "yielded" /\ pace[Run] > 0
    <3>1. gen' = gen /\ pump' = pump /\ A!AskNext
      BY <1>3, <2>1 DEF PumpGoesOn, StreamEmit
    <3> QED BY <1>0, <1>3, <2>1, <3>1 DEF PumpGoesOn, InPump, A!AskNext, A!Proceed
  <2>2. CASE adapter = "yielded" /\ ~(pace[Run] > 0)
    <3>1. gen' = [gen EXCEPT ![Run] = "suspended"] /\ adapter' = adapter
      BY <1>3, <2>2 DEF PumpGoesOn, StreamEmit, adapterVars
    <3> QED BY <1>0, <2>2, <3>1
  <2>3. CASE adapter = "done"
    BY <1>0, <1>3, <2>3 DEF PumpGoesOn, InPump, Governs, StreamEnd, adapterVars
  <2> QED BY <1>3, <2>1, <2>2, <2>3 DEF PumpGoesOn, InPump
<1>4. CASE PumpResumes
  BY <1>0, <1>4 DEF PumpResumes, PumpPaced, A!AskNext, A!Proceed
<1>5. CASE PumpStopped
  <2>1. CancelPump(Run) /\ driver[Run] = "pumping" /\ pump[Run] # "created"
    BY <1>5 DEF PumpStopped, Deadline, CancelledPumping
  <2>2. CASE pump[Run] = "reading"
    <3>1. pump'[Run] = "reading" /\ gen'[Run] = "unwinding"
      BY <1>0, <2>1, <2>2 DEF CancelPump
    <3>2. A!Cancel \/ A!CancelClosing
      BY <1>5, <2>2 DEF PumpStopped
    <3> QED BY <1>1, <3>1, <3>2 DEF A!Cancel, A!CancelClosing, A!Finish
  <2>3. CASE pump[Run] # "reading"
    <3>1. gen'[Run] = gen[Run] /\ UNCHANGED adapterVars
      BY <1>0, <1>5, <2>1, <2>3 DEF PumpStopped, CancelPump
    <3> QED BY <2>3, <3>1 DEF adapterVars
  <2> QED BY <2>2, <2>3
<1>6. CASE GeneratorLeaves
  <2>1. adapter' = "done" /\ gen' = [gen EXCEPT ![Run] = "closed"]
    BY <1>6 DEF GeneratorLeaves, A!Leave, Governs, StreamEnd, StreamUnwound, adapterVars
  <2> QED BY <1>0, <2>1
<1>7. CASE CloserEnters
  <2>1. CASE gen[Run] = "suspended"
    BY <1>0, <1>7, <2>1 DEF CloserEnters, CloserStart, A!Close, A!Finish
  <2>2. CASE gen[Run] # "suspended"
    BY <1>0, <1>7, <2>2 DEF CloserEnters, CloserStart, adapterVars
  <2> QED BY <2>1, <2>2
<1>8. CASE \/ Governs(GuardTask(Run) \/ DriverAlone \/ CloseWhenSettled(Run))
           \/ Governs(Consumer(Run) \/ Finalize(Run))
  <2>1. gen' = gen /\ (pump[Run] = "reading" => pump'[Run] = "reading") /\ UNCHANGED adapterVars
    BY <1>8, GovernsFrame DEF Governs
  <2> QED BY <2>1 DEF adapterVars
<1>9. CASE Adapts(A!Handle)
  <2>1. adapter = "reading" /\ A!Proceed(A!EventsOf(inbox)) /\ UNCHANGED <<pump, gen>>
    BY <1>9 DEF Adapts, A!Handle, A!Handling, vars, streamVars
  <2> QED BY <1>0, <2>1 DEF A!Proceed
<1>10. CASE Adapts(A!HandleRaise \/ A!HandleEnd \/ A!HandleFailure)
  <2>1. adapter = "reading" /\ adapter' = "closing" /\ UNCHANGED <<pump, gen>>
    BY <1>10 DEF Adapts, A!HandleRaise, A!HandleEnd, A!HandleFailure, A!Handling, A!Finish,
                 vars, streamVars
  <2>2. verdict' \notin {"closed", "cancelled"}
    BY <1>10, RaisedVerdicts DEF Adapts, A!HandleEnd, A!Finish, AdapterPart
  <2> QED BY <2>1, <2>2
<1>11. CASE \/ Adapts(ShutdownAlone) \/ Adapts(A!SdkUnwound)
            \/ Adapts((\E m \in Messages : A!SdkDeliver(m)) \/ \E m \in SdkEndings : A!SdkEnd(m))
  <2>1. /\ UNCHANGED <<pump, gen, adapter, verdict>>
        /\ shutdown # "none" => shutdown' # "none"
    BY <1>11 DEF Adapts, ShutdownAlone, A!ShutdownStart, A!Settled, A!SettleExpired,
                 A!CancelExpired, A!BeginClose, A!SdkUnwound, A!SdkDeliver, A!SdkEnd,
                 A!endVars, vars, streamVars
  <2> QED BY <2>1
<1>12. CASE Tick \/ PipelineTerminated
  BY <1>12 DEF Tick, PipelineTerminated, pipelineVars, vars, streamVars, adapterVars
<1> QED BY <1>2, <1>3, <1>4, <1>5, <1>6, <1>7, <1>8, <1>9, <1>10, <1>11, <1>12
        DEF PipelineNext, Library, Environment, Adapts

-----------------------------------------------------------------------------
(* Timers, in terms of the one run.                                        *)
LEMMA TimersSet ==
  ASSUME Timers
  PROVE  /\ driverLeft' = IF driver'[Run] = driver[Run] THEN driverLeft
                          ELSE IF driver'[Run] = "pumping" THEN MaxTurn
                          ELSE IF driver'[Run] \in HoldingStates THEN CleanupGrace
                          ELSE 0
         /\ settleLeft' = IF shutdown' \notin {"settling", "cancelling"} THEN 0
                          ELSE IF shutdown' = shutdown THEN settleLeft ELSE SettleGrace
         /\ held' = IF driver'[Run] \in HoldingStates THEN held ELSE 0
         /\ working' = IF sdk' \in {"busy", "idle"} THEN working ELSE 0
BY PipelineAssumption DEF Timers, DriverTimer, SettleTimer, Holders, SdkWorks

LEMMA NextTimersOK == TimersOK /\ PipelineNext => TimersOK'
<1> SUFFICES ASSUME TimersOK, PipelineNext PROVE TimersOK'
  OBVIOUS
<1> USE PipelineAssumption DEF TimersOK, CloseGrace, SettleGrace, CleanupGrace
<1>1. CASE Timers
  <2>1. leaveLeft' \in {0, leaveLeft, CloseGrace}
    BY <1>1 DEF Timers, LeaveTimer
  <2> QED BY <1>1, <2>1, TimersSet
<1>2. CASE Tick
  BY <1>2 DEF Tick, Passed
<1>3. CASE PipelineTerminated
  BY <1>3 DEF PipelineTerminated, pipelineVars, timerVars
<1> QED BY <1>1, <1>2, <1>3 DEF PipelineNext

(* How a driver comes from one wait to the next.                           *)
LEMMA DriverTurns ==
  ASSUME GovernorPart, GovernorAlone \/ UNCHANGED vars
  PROVE  \/ /\ driver'[Run] = driver[Run]
            /\ gen[Run] = "closed" => gen'[Run] = "closed"
            /\ driver[Run] = "reapPump" /\ pump'[Run] = "done" /\ gen'[Run] = "suspended"
                 => pump[Run] = "done" /\ gen[Run] = "suspended"
         \/ driver[Run] \notin HoldingStates /\ driver'[Run] = "pumping"
         \/ driver[Run] = "pumping" /\ driver'[Run] = "reapPump"
         \/ /\ driver[Run] = "reapPump" /\ driver'[Run] = "reapClose"
            /\ pump[Run] = "done" /\ gen'[Run] = gen[Run]
         \/ driver'[Run] \notin HoldingStates
<1> USE DEF HoldingStates, consumerVars, driverVars, slotVars, channelVars, streamVars
<1>0. /\ Run \in Runs
      /\ gen \in [Runs -> {"unstarted", "closed", "running", "suspended", "unwinding"}]
      /\ pump \in [Runs -> {"none", "created", "reading", "pacing", "done"}]
      /\ driver \in [Runs -> {"none", "created", "queued", "done"} \cup HoldingStates]
      /\ gen[Run] = "running" => driver[Run] = "pumping"
      /\ gen[Run] = "closed" => pump[Run] = "done"
      /\ pump[Run] \in {"created", "pacing"} => driver[Run] = "pumping"
  <2>1. gen[Run] = "closed" => pump[Run] = "done"
    BY PipelineAssumption DEF GovernorPart, TypeOK, ShapeInv, Shape
  <2> QED BY <2>1, PipelineAssumption DEF GovernorPart, TypeOK, LiveStates, WorkInv
<1>1. CASE UNCHANGED driver
  <2>1. CASE PumpStart(Run) \/ \E k \in Kinds : StreamEmit(Run, k) \/ PumpPaced(Run, k)
    BY <1>0, <1>1, <2>1 DEF PumpStart, StreamEmit, PumpPaced
  <2>2. CASE (\E f \in {"end"} \cup Errors : StreamEnd(Run, f)) \/ StreamUnwound(Run)
    BY <1>0, <1>1, <2>2 DEF StreamEnd, StreamUnwound
  <2>3. CASE CloserStart(Run) \/ CloseWhenSettled(Run) \/ Finalize(Run)
    BY <1>0, <1>1, <2>3 DEF CloserStart, CloseWhenSettled, Finalize
  <2>4. CASE GuardTask(Run) \/ DriverAlone \/ Consumer(Run)
    <3>1. gen' = gen /\ (pump'[Run] = "done" => pump[Run] = "done")
      BY <2>4, GovernsFrame
    <3> QED BY <1>1, <3>1
  <2>5. CASE Deadline(Run) \/ CancelledPumping(Run)
    BY <1>0, <1>1, <2>5 DEF Deadline, CancelledPumping
  <2>6. CASE UNCHANGED vars
    BY <1>1, <2>6 DEF vars
  <2> QED BY <2>1, <2>2, <2>3, <2>4, <2>5, <2>6 DEF GovernorAlone
<1>2. CASE GuardTask(Run) \/ Consumer(Run)
  <2>1. GuardStart(Run) \/ UNCHANGED driver
    BY <1>2 DEF GuardTask, Consumer, GuardTakeEvent, GuardTakeOutcome, GuardFinish,
                ConsumerNext, ConsumerClose, ConsumerCancel, ConsumerCancelClosing
  <2> QED BY <1>0, <1>1, <2>1 DEF GuardStart
<1>3. CASE DriverAlone
  <2>1. CASE AcquireAtOnce(Run) \/ PumpEnded(Run) \/ CancelledUnstarted(Run)
    BY <1>0, <2>1 DEF AcquireAtOnce, PumpEnded, CancelledUnstarted
  <2>2. CASE ReapPump(Run)
    BY <1>0, <2>2 DEF ReapPump
  <2>3. CASE ReapPumpExpired(Run) \/ ReapClose(Run) \/ CancelledReaping(Run)
    BY <1>0, <2>3 DEF ReapPumpExpired, ReapClose, CancelledReaping, LeaveSlot
  <2> QED BY <1>3, <2>1, <2>2, <2>3 DEF DriverAlone
<1>4. CASE Deadline(Run) \/ CancelledPumping(Run)
  BY <1>0, <1>4 DEF Deadline, CancelledPumping
<1>5. \/ GuardTask(Run) \/ Consumer(Run) \/ DriverAlone
      \/ Deadline(Run) \/ CancelledPumping(Run) \/ UNCHANGED driver
  BY DEF GovernorAlone, PumpStart, StreamEmit, PumpPaced, StreamEnd, StreamUnwound,
         CloserStart, CloseWhenSettled, Finalize, vars
<1> QED BY <1>1, <1>2, <1>3, <1>4, <1>5

LEMMA NextHeldInv ==
  GovernorPart /\ AdapterPart /\ ViewInv /\ TimersOK /\ HeldInv /\ PipelineNext => HeldInv'
<1> SUFFICES ASSUME GovernorPart, AdapterPart, ViewInv, TimersOK, HeldInv, PipelineNext
             PROVE  HeldInv'
  OBVIOUS
<1> USE PipelineAssumption DEF HeldInv, CleanupGrace, HoldingStates
<1>0. /\ driverLeft \in Nat /\ held \in Nat /\ MaxTurn \in Nat
      /\ driver[Run] \in {"none", "created", "queued", "done"} \cup HoldingStates
      /\ driver[Run] = "reapPump" /\ pump[Run] = "done" => gen[Run] \in {"suspended", "closed"}
      /\ driver[Run] = "reapClose" /\ gen[Run] = "closed" => closer[Run] \in {"created", "done"}
  BY DEF TimersOK, GovernorPart, TypeOK, LiveStates, WorkInv, ShapeInv, Shape
<1>1. CASE Timers
  <2>1. GovernorAlone \/ UNCHANGED vars
    BY GovernorMoves DEF AdapterPart
  <2>2. /\ driverLeft' = IF driver'[Run] = driver[Run] THEN driverLeft
                         ELSE IF driver'[Run] = "pumping" THEN MaxTurn
                         ELSE IF driver'[Run] \in HoldingStates THEN CleanupGrace
                         ELSE 0
        /\ held' = IF driver'[Run] \in HoldingStates THEN held ELSE 0
    BY <1>1, TimersSet
  <2> QED BY <1>0, <2>1, <2>2, DriverTurns
<1>2. CASE Tick
  <2>1. /\ driver' = driver /\ pump' = pump /\ gen' = gen
        /\ held' = IF driver[Run] \in HoldingStates THEN held + 1 ELSE held
        /\ driverLeft' = IF driverLeft > 0 THEN driverLeft - 1 ELSE 0
        /\ ~TurnDue /\ ~GuardDue
    BY <1>2 DEF Tick, Passed, Holders, Due, vars, driverVars, streamVars
  <2>2. /\ driver[Run] \in HoldingStates => driverLeft > 0
        /\ driver[Run] = "reapPump" => pump[Run] # "done"
        /\ driver[Run] = "reapClose" => gen[Run] # "closed"
    BY <1>0, <2>1 DEF TurnDue, GuardDue
  <2> QED BY <1>0, <2>1, <2>2
<1>3. CASE PipelineTerminated
  BY <1>3 DEF PipelineTerminated, pipelineVars, timerVars, vars, driverVars, streamVars
<1> QED BY <1>1, <1>2, <1>3 DEF PipelineNext

-----------------------------------------------------------------------------
(* How the shutdown comes from one wait to the next.                       *)
LEMMA ShutdownMoves ==
  ASSUME AdapterPart, AdapterAlone \/ UNCHANGED adapterVars
  PROVE  \/ shutdown' = shutdown
         \/ shutdown = "none" /\ shutdown' = "created"
         \/ shutdown = "created" /\ shutdown' \in {"settling", "closing", "done"}
         \/ shutdown = "settling" /\ shutdown' \in {"cancelling", "closing", "done"}
              /\ sdk' \notin {"busy", "idle"}
         \/ shutdown = "cancelling" /\ shutdown' \in {"closing", "done"}
         \/ shutdown = "closing" /\ shutdown' = "done"
<1>0. /\ adapter \in {"unstarted", "reading", "yielded"} => shutdown = "none"
      /\ read = "pending" <=> sdk = "busy"
  BY DEF AdapterPart, AP!AdapterInv, AP!GenInv, AP!SdkInv
<1>1. CASE A!Close \/ A!Cancel
  BY <1>0, <1>1 DEF A!Close, A!Cancel, A!Finish
<1>2. CASE A!HandleRaise \/ A!HandleEnd \/ A!HandleFailure
  BY <1>0, <1>2 DEF A!HandleRaise, A!HandleEnd, A!HandleFailure, A!Handling, A!Finish
<1>3. CASE A!ShutdownStart \/ A!Settled \/ A!SettleExpired \/ A!CancelExpired
  BY <1>0, <1>3 DEF A!ShutdownStart, A!Settled, A!SettleExpired, A!CancelExpired, A!BeginClose
<1>4. CASE A!SdkUnwound
  BY <1>4 DEF A!SdkUnwound
<1>5. \/ A!Close \/ A!Cancel \/ A!HandleRaise \/ A!HandleEnd \/ A!HandleFailure
      \/ A!ShutdownStart \/ A!Settled \/ A!SettleExpired \/ A!CancelExpired
      \/ A!SdkUnwound \/ UNCHANGED shutdown
  BY DEF AdapterAlone, A!OptionsRejected, A!Start, A!AskNext, A!CancelClosing, A!Handle,
         A!Leave, A!SdkDeliver, A!SdkEnd, adapterVars
<1> QED BY <1>1, <1>2, <1>3, <1>4, <1>5

(* While the agent works on although its turn is to stop and nothing is    *)
(* due, the shutdown waits for the read.                                   *)
LEMMA OnlySettlingWorks ==
  ASSUME GovernorPart, AdapterPart, ViewInv, ToStop, SdkWorks, ~LeftOpen, ~Due
  PROVE  shutdown = "settling" /\ settleLeft # 0
<1>1. /\ adapter = "unstarted" => sdk = "none"
      /\ adapter = "closing" => shutdown # "none"
      /\ adapter = "done" /\ shutdown = "none" => sdk = "none"
      /\ adapter \in {"unstarted", "reading", "yielded", "closing", "done"}
      /\ shutdown \in {"none", "created", "settling", "cancelling", "closing", "done"}
      /\ shutdown = "closing" => sdk = "closing"
      /\ shutdown \in {"cancelling", "done"} => sdk \in {"aborting", "aborted", "closed"}
  BY DEF AdapterPart, EndInv, AP!AdapterInv, AP!GenInv, AP!SdkInv, AP!TypeOK
<1>2. /\ gen[Run] = "running" => driver[Run] = "pumping"
      /\ pump[Run] = "reading" /\ driver[Run] # "pumping" => gen[Run] = "unwinding"
      /\ gen[Run] = "suspended" => pump[Run] \in {"pacing", "done"}
      /\ pump[Run] = "pacing" => driver[Run] = "pumping"
      /\ driver[Run] = "reapClose" => closer[Run] \in {"created", "closing", "done"}
      /\ closer[Run] = "closing" => gen[Run] = "unwinding"
      /\ closer[Run] = "done" => gen[Run] = "closed"
      /\ closer[Run] \in {"none", "armed", "created", "closing", "done"}
  <2>1. pump[Run] \in {"none", "created", "reading", "pacing", "done"}
    BY PipelineAssumption DEF GovernorPart, TypeOK
  <2> QED BY <2>1, PipelineAssumption DEF GovernorPart, WorkInv, ShapeInv, Shape, TypeOK
<1>3. driver[Run] \in {"reapPump", "reapClose", "done"} /\ sdk \in {"busy", "idle"}
  BY DEF ToStop, SdkWorks
<1>4. ~TurnDue /\ ~GuardDue /\ ~AdapterDue /\ ~ShutdownDue
  BY DEF Due
<1>5. adapter \notin {"unstarted", "reading"}
  BY <1>1, <1>2, <1>3 DEF ViewInv, A!StreamState
<1>6. adapter # "yielded"
  <2>1. SUFFICES ASSUME adapter = "yielded" PROVE FALSE
    OBVIOUS
  <2>2. gen[Run] = "suspended"
    BY <1>2, <1>3, <2>1 DEF ViewInv, A!StreamState
  <2>3. pump[Run] = "done" /\ driver[Run] # "reapPump"
    BY <1>2, <1>3, <1>4, <2>2 DEF TurnDue
  <2> QED BY <1>2, <1>3, <1>4, <2>2, <2>3 DEF GuardDue, LeftOpen
<1>7. shutdown \notin {"none", "created", "closing", "cancelling", "done"}
  BY <1>1, <1>3, <1>4, <1>5, <1>6 DEF ShutdownDue
<1> QED BY <1>1, <1>4, <1>7 DEF ShutdownDue

LEMMA NextAgentInv ==
  GovernorPart /\ AdapterPart /\ ViewInv /\ TimersOK /\ AgentInv /\ PipelineNext => AgentInv'
<1> SUFFICES ASSUME GovernorPart, AdapterPart, ViewInv, TimersOK, AgentInv, PipelineNext
             PROVE  AgentInv'
  OBVIOUS
<1> USE DEF AgentInv, SettleGrace
<1>0. settleLeft \in 0..SettleGrace /\ working \in Nat
  BY DEF TimersOK
<1>1. CASE Timers
  <2>1. /\ settleLeft' = IF shutdown' \notin {"settling", "cancelling"} THEN 0
                         ELSE IF shutdown' = shutdown THEN settleLeft ELSE SettleGrace
        /\ working' = IF sdk' \in {"busy", "idle"} THEN working ELSE 0
    BY <1>1, TimersSet
  <2> QED BY <1>0, <2>1, AdapterMoves, ShutdownMoves
<1>2. CASE Tick
  <2>1. /\ shutdown' = shutdown /\ ~Due
        /\ settleLeft' = IF settleLeft > 0 THEN settleLeft - 1 ELSE 0
        /\ working' = IF ToStop /\ SdkWorks /\ ~LeftOpen THEN working + 1 ELSE working
    BY <1>2 DEF Tick, Passed, adapterVars
  <2> QED BY <1>0, <2>1, OnlySettlingWorks
<1>3. CASE PipelineTerminated
  BY <1>3 DEF PipelineTerminated, pipelineVars, timerVars, adapterVars
<1> QED BY <1>1, <1>2, <1>3 DEF PipelineNext

-----------------------------------------------------------------------------
(* A driver that begins to wait for a generator that unwinds has just      *)
(* cancelled it.                                                           *)
LEMMA ReapBegins ==
  ASSUME GovernorPart, AdapterPart, ViewInv, PipelineNext,
         driver'[Run] = "reapPump", pump'[Run] = "reading"
  PROVE  \/ driver[Run] = "reapPump" /\ pump[Run] = "reading"
         \/ driver[Run] = "pumping" /\ (A!Cancel \/ A!CancelClosing)
<1> USE DEF consumerVars, driverVars, slotVars, channelVars, streamVars
<1>0. /\ Run \in Runs
      /\ pump[Run] \in {"created", "pacing"} => driver[Run] = "pumping"
      /\ driver \in [Runs -> {"none", "created", "queued", "done"} \cup HoldingStates]
      /\ pump \in [Runs -> {"none", "created", "reading", "pacing", "done"}]
  BY PipelineAssumption DEF GovernorPart, WorkInv, TypeOK
<1>1. CASE PumpStopped
  <2>1. driver[Run] = "pumping" /\ CancelPump(Run)
    BY <1>1 DEF PumpStopped, Deadline, CancelledPumping
  <2>2. pump[Run] = "reading"
    BY <1>0, <2>1 DEF CancelPump
  <2> QED BY <1>1, <2>1, <2>2 DEF PumpStopped
<1>2. CASE PumpEnters \/ PumpResumes \/ PumpGoesOn
  <2>1. UNCHANGED driver /\ pump[Run] \in {"created", "pacing", "reading"}
    BY <1>2 DEF PumpEnters, PumpStart, PumpResumes, PumpPaced, PumpGoesOn, InPump,
                StreamEmit, Governs, StreamEnd
  <2> QED BY <1>0, <2>1
<1>3. CASE GeneratorLeaves \/ CloserEnters
  <2>1. UNCHANGED driver
    BY <1>3 DEF GeneratorLeaves, Governs, StreamEnd, StreamUnwound, CloserEnters, CloserStart
  <2>2. pump[Run] = "reading"
    BY <1>0, <1>3 DEF GeneratorLeaves, Governs, StreamEnd, StreamUnwound, CloserEnters, CloserStart
  <2> QED BY <2>1, <2>2
<1>4. CASE \/ Governs(GuardTask(Run) \/ DriverAlone \/ CloseWhenSettled(Run))
           \/ Governs(Consumer(Run) \/ Finalize(Run))
  <2>1. pump[Run] = "reading"
    BY <1>4, GovernsFrame DEF Governs
  <2>2. CASE DriverAlone
    BY <1>0, <2>1, <2>2 DEF DriverAlone, AcquireAtOnce, PumpEnded, ReapPump, ReapPumpExpired,
                  ReapClose, CancelledUnstarted, CancelledReaping, LeaveSlot
  <2>3. CASE GuardTask(Run) \/ CloseWhenSettled(Run) \/ Consumer(Run) \/ Finalize(Run)
    BY <1>0, <2>1, <2>3
       DEF GuardTask, GuardTakeEvent, GuardTakeOutcome, GuardFinish, CloseWhenSettled, Finalize,
           Consumer, GuardStart, ConsumerNext, ConsumerClose, ConsumerCancel,
           ConsumerCancelClosing
  <2> QED BY <1>4, <2>2, <2>3 DEF Governs
<1>5. CASE UNCHANGED vars
  BY <1>5 DEF vars
<1> QED BY <1>1, <1>2, <1>3, <1>4, <1>5
        DEF PipelineNext, Library, Environment, Adapts, Tick, PipelineTerminated, pipelineVars

LEMMA NextGraceInv ==
  GovernorPart /\ AdapterPart /\ ViewInv /\ TimersOK /\ GraceInv /\ PipelineNext => GraceInv'
<1> SUFFICES ASSUME GovernorPart, AdapterPart, ViewInv, TimersOK, GraceInv, PipelineNext,
                    driver'[Run] = "reapPump", pump'[Run] = "reading"
             PROVE  \/ shutdown' \in {"closing", "done"}
                    \/ shutdown' = "created" /\ driverLeft' > 2 * SettleGrace
                    \/ shutdown' = "settling" /\ driverLeft' > settleLeft' + SettleGrace
                    \/ shutdown' = "cancelling" /\ driverLeft' > settleLeft'
  BY DEF GraceInv
<1> USE DEF SettleGrace, CleanupGrace, HoldingStates
<1>0. /\ settleLeft \in 0..SettleGrace /\ driverLeft \in Nat
      /\ adapter = "closing" => shutdown # "none"
      /\ shutdown \in {"none", "created", "settling", "cancelling", "closing", "done"}
  BY DEF TimersOK, AdapterPart, AP!AdapterInv, AP!GenInv, AP!TypeOK
<1>1. CASE Timers
  <2>1. /\ driverLeft' = IF driver'[Run] = driver[Run] THEN driverLeft ELSE CleanupGrace
        /\ settleLeft' = IF shutdown' \notin {"settling", "cancelling"} THEN 0
                         ELSE IF shutdown' = shutdown THEN settleLeft ELSE SettleGrace
    BY <1>1, TimersSet
  <2>2. CASE driver[Run] = "reapPump" /\ pump[Run] = "reading"
    BY <1>0, <2>1, <2>2, AdapterMoves, ShutdownMoves DEF GraceInv
  <2>3. CASE driver[Run] = "pumping" /\ (A!Cancel \/ A!CancelClosing)
    <3>1. driverLeft' = CleanupGrace
      BY <2>1, <2>3
    <3>2. shutdown' = "created" \/ (shutdown' = shutdown /\ shutdown # "none")
      BY <1>0, <2>3 DEF A!Cancel, A!CancelClosing, A!Finish
    <3> QED BY <1>0, <2>1, <3>1, <3>2
  <2> QED BY <2>2, <2>3, ReapBegins
<1>2. CASE Tick
  <2>1. /\ driver' = driver /\ pump' = pump /\ shutdown' = shutdown
        /\ driverLeft' = IF driverLeft > 0 THEN driverLeft - 1 ELSE 0
        /\ settleLeft' = IF settleLeft > 0 THEN settleLeft - 1 ELSE 0
        /\ ~ShutdownDue
    BY <1>2 DEF Tick, Passed, Due, vars, driverVars, streamVars, adapterVars
  <2>2. shutdown # "created" /\ (shutdown \in {"settling", "cancelling"} => settleLeft > 0)
    BY <1>0, <2>1 DEF ShutdownDue
  <2> QED BY <1>0, <2>1, <2>2 DEF GraceInv
<1>3. CASE PipelineTerminated
  BY <1>3 DEF PipelineTerminated, pipelineVars, timerVars, vars, driverVars, streamVars,
              adapterVars, GraceInv
<1> QED BY <1>1, <1>2, <1>3 DEF PipelineNext

-----------------------------------------------------------------------------
LEMMA InitPipelineInv == PipelineInit => PipelineInv
<1> SUFFICES ASSUME PipelineInit PROVE PipelineInv
  OBVIOUS
<1>1. GovernorPart
  <2>1. Init => WorkInv
    BY DEF Init, WorkInv
  <2> QED BY <2>1, InitTypeOK, InitSlotInv, InitShapeInv DEF GovernorPart, PipelineInit
<1>2. A!Init
  BY DEF PipelineInit
<1>3. AP!Init
  BY <1>2 DEF A!Init, AP!Init, A!Exhausted, AP!Exhausted
<1>4. AdapterPart
  <2>1. AP!TypeOK
    BY <1>3, AP!InitTypeOK, PipelineAssumption DEF A!MessageTypes, A!Marks, AP!MessageTypes, AP!Marks
  <2>2. AP!AdapterInv /\ EndInv
    BY <1>2 DEF A!Init, AP!AdapterInv, AP!GenInv, AP!SdkInv, EndInv, A!Exhausted, A!Failed
  <2> QED BY <2>1, <2>2 DEF AdapterPart
<1>5. driver[Run] = "none" /\ gen[Run] = "unstarted"
  BY PipelineAssumption DEF PipelineInit, Init
<1>6. ViewInv
  BY <1>2, <1>5 DEF ViewInv, A!StreamState, A!Init
<1>7. ClockPart
  BY <1>5 DEF PipelineInit, ClockPart, TimersOK, HeldInv, AgentInv, GraceInv, HoldingStates,
              CloseGrace, SettleGrace
<1> QED BY <1>1, <1>4, <1>6, <1>7 DEF PipelineInv

LEMMA NextPipelineInv == PipelineInv /\ [PipelineNext]_pipelineVars => PipelineInv'
<1>1. PipelineInv /\ PipelineNext => PipelineInv'
  BY NextGovernorPart, NextAdapterPart, NextEndInv, NextViewInv, NextTimersOK, NextHeldInv,
     NextAgentInv, NextGraceInv
     DEF PipelineInv, AdapterPart, ClockPart
<1>2. PipelineInv /\ UNCHANGED pipelineVars => PipelineInv'
  <2> SUFFICES ASSUME PipelineInv, UNCHANGED pipelineVars PROVE PipelineInv'
    OBVIOUS
  <2>1. GovernorPart'
    BY NextTypeOK, NextSlotInv, NextWorkInv, NextShapeInv
       DEF PipelineInv, GovernorPart, pipelineVars
  <2>2. UNCHANGED AP!vars
    BY DEF pipelineVars, adapterVars, AP!vars, AP!streamVars, AP!limitVars, AP!endVars
  <2>3. AP!TypeOK' /\ AP!AdapterInv'
    BY <2>2, AP!NextTypeOK, AP!NextAdapterInv, PipelineAssumption
       DEF PipelineInv, AdapterPart, A!MessageTypes, A!Marks, AP!MessageTypes, AP!Marks
  <2>4. EndInv' /\ ViewInv' /\ ClockPart'
    BY DEF PipelineInv, AdapterPart, EndInv, ViewInv, ClockPart, TimersOK, HeldInv, AgentInv,
           GraceInv, A!StreamState, pipelineVars, adapterVars, timerVars, vars, driverVars,
           streamVars
  <2> QED BY <2>1, <2>3, <2>4 DEF PipelineInv, AdapterPart
<1> QED BY <1>1, <1>2

(* The inductive invariant holds for every length of a turn.               *)
THEOREM PipelineInvariant == PipelineSpec => []PipelineInv
<1> QED BY InitPipelineInv, NextPipelineInv, PTL DEF PipelineSpec

-----------------------------------------------------------------------------
(* The composition is a behaviour of the governor: run_once is a stream it *)
(* allows for.  All theorems about Governor carry over.                    *)
THEOREM PipelineUsesGovernor == PipelineSpec => Spec
<1>1. PipelineInv /\ [PipelineNext]_pipelineVars => [Next]_vars
  BY GovernorMoves, GovernorAloneNext DEF PipelineInv, AdapterPart, pipelineVars
<1>2. PipelineInit => Init
  BY DEF PipelineInit
<1> QED BY <1>1, <1>2, PipelineInvariant, PTL DEF PipelineSpec, Spec

(* It is a behaviour of run_once as well: the governor is a consumer that  *)
(* ClaudeCodeAdapter allows for, and its timers are among those the        *)
(* adapter may meet.                                                       *)
THEOREM PipelineUsesAdapter == PipelineSpec => A!Init /\ [][A!Next]_(A!vars)
<1>1. [PipelineNext]_pipelineVars => [A!Next]_(A!vars)
  BY AdapterMoves, AdapterAloneNext
     DEF pipelineVars, adapterVars, A!vars, A!streamVars, A!limitVars, A!endVars
<1>2. PipelineInit => A!Init
  BY DEF PipelineInit
<1> QED BY <1>1, <1>2, PTL DEF PipelineSpec

(* The types, and that the governor's view of the adapter generator is     *)
(* what run_once is in, except while the pump is about to hear of it.      *)
THEOREM PipelineTypeCorrect == PipelineSpec => []PipelineTypeOK
<1>1. PipelineInv => PipelineTypeOK
  BY Instance
     DEF PipelineInv, GovernorPart, AdapterPart, ClockPart, TimersOK, PipelineTypeOK, ViewInv,
         SettleGrace
<1> QED BY <1>1, PipelineInvariant, PTL

(* No run holds its slot for longer than its turn and one cleanup grace,   *)
(* for all that _reap may wait twice.                                      *)
THEOREM SlotLifetimeBounded == PipelineSpec => []SlotLifetime
<1>1. PipelineInv => SlotLifetime
  <2> SUFFICES ASSUME PipelineInv PROVE SlotLifetime
    OBVIOUS
  <2>1. /\ HeldInv /\ held \in Nat /\ driverLeft \in Nat /\ MaxTurn \in Nat
    BY PipelineAssumption DEF PipelineInv, ClockPart, TimersOK
  <2> QED BY <2>1 DEF HeldInv, HoldingStates, SlotLifetime, CleanupGrace
<1> QED BY <1>1, PipelineInvariant, PTL

(* The agent is told to stop within one settle grace of the moment its     *)
(* driver left the wait for the pump.                                      *)
THEOREM AgentAlwaysToldInTime == PipelineSpec => []AgentToldInTime
<1>1. PipelineInv => AgentToldInTime
  <2> SUFFICES ASSUME PipelineInv PROVE AgentToldInTime
    OBVIOUS
  <2>1. AgentInv /\ working \in Nat /\ settleLeft \in Nat
    BY DEF PipelineInv, ClockPart, TimersOK
  <2> QED BY <2>1 DEF AgentInv, AgentToldInTime, SettleGrace
<1> QED BY <1>1, PipelineInvariant, PTL

(* Only the first wait of _reap, when its time is over, gives a generator  *)
(* up.                                                                     *)
LEMMA GivingUp ==
  ASSUME GovernorPart, PipelineNext, closer'[Run] = "armed", closer[Run] # "armed"
  PROVE  ReapPumpExpired(Run) /\ driverLeft = 0
<1> USE PipelineAssumption DEF consumerVars, driverVars, slotVars, channelVars, streamVars
<1>0. closer \in [Runs -> {"none", "armed", "created", "closing", "done"}]
  BY DEF GovernorPart, TypeOK
<1>1. CASE Governs(DriverAlone)
  BY <1>0, <1>1 DEF Governs, DriverAlone, AcquireAtOnce, PumpEnded, ReapPump, ReapClose,
                    CancelledUnstarted, CancelledReaping
<1>2. CASE Governs(GuardTask(Run)) \/ Governs(Consumer(Run))
  BY <1>2 DEF Governs, GuardTask, GuardTakeEvent, GuardTakeOutcome, GuardFinish, Consumer,
              GuardStart, ConsumerNext, ConsumerClose, ConsumerCancel, ConsumerCancelClosing
<1>3. CASE Governs(CloseWhenSettled(Run)) \/ Governs(Finalize(Run)) \/ CloserEnters
  BY <1>0, <1>3 DEF Governs, CloseWhenSettled, Finalize, CloserEnters, CloserStart
<1>4. CASE PumpEnters \/ PumpGoesOn \/ PumpResumes \/ PumpStopped
  BY <1>4 DEF PumpEnters, PumpStart, PumpGoesOn, StreamEmit, Governs, StreamEnd, PumpResumes,
              PumpPaced, PumpStopped, Deadline, CancelledPumping
<1>5. CASE GeneratorLeaves
  BY <1>0, <1>5 DEF GeneratorLeaves, Governs, StreamEnd, StreamUnwound
<1>6. CASE UNCHANGED vars
  BY <1>6 DEF vars
<1> QED BY <1>1, <1>2, <1>3, <1>4, <1>5, <1>6
        DEF PipelineNext, Library, Environment, Governs, Adapts, Tick, PipelineTerminated,
            pipelineVars

(* The driver's grace expires over an unwinding generator only when the    *)
(* SDK's own close hangs: the two graces of the adapter fit into it.       *)
THEOREM OnlyStuckCloseGivenUp == PipelineSpec => GivesUpOnlyOnStuckClose
<1>1. ASSUME PipelineInv, PipelineNext, closer'[Run] = "armed", closer[Run] # "armed"
      PROVE  shutdown \in {"closing", "done"}
  <2> USE PipelineAssumption
  <2>2. ReapPumpExpired(Run) /\ driverLeft = 0
    BY <1>1, GivingUp DEF PipelineInv
  <2>3. driver[Run] = "reapPump" /\ pump[Run] # "done"
    BY <2>2 DEF ReapPumpExpired
  <2>4. pump[Run] = "reading"
    BY <1>1, <2>3 DEF PipelineInv, GovernorPart, TypeOK, WorkInv, ShapeInv, Shape, HoldingStates
  <2> QED BY <1>1, <2>2, <2>3, <2>4
          DEF PipelineInv, ClockPart, TimersOK, GraceInv, SettleGrace
<1>2. PipelineInv /\ [PipelineNext]_pipelineVars
        => (closer'[Run] = "armed" /\ closer[Run] # "armed" => shutdown \in {"closing", "done"})
  BY <1>1 DEF pipelineVars, vars, streamVars
<1> QED BY <1>2, PipelineInvariant, PTL DEF PipelineSpec, GivesUpOnlyOnStuckClose

-----------------------------------------------------------------------------
(* A read that is still in flight when the shutdown has begun is one whose *)
(* turn was stopped, and the settle grace has run since then.              *)
HungInv ==
  read = "pending" /\ shutdown # "none" =>
    /\ ToStop
    /\ shutdown = "settling" => working + settleLeft = SettleGrace

LEMMA StoppedStays ==
  ASSUME GovernorPart, ToStop, GovernorAlone \/ UNCHANGED vars
  PROVE  ToStop'
<1> USE PipelineAssumption DEF ToStop, driverVars, consumerVars, slotVars, channelVars, streamVars
<1>0. /\ driver \in [Runs -> {"none", "created", "queued", "done"} \cup HoldingStates]
      /\ guard[Run] = "idle" => driver[Run] = "none"
  BY DEF GovernorPart, TypeOK, SlotInv, LiveStates
<1>1. CASE GuardTask(Run) \/ Consumer(Run)
  BY <1>0, <1>1 DEF GuardTask, Consumer, GuardTakeEvent, GuardTakeOutcome, GuardFinish, GuardStart,
                    ConsumerNext, ConsumerClose, ConsumerCancel, ConsumerCancelClosing
<1>2. CASE DriverAlone
  BY <1>0, <1>2 DEF DriverAlone, AcquireAtOnce, PumpEnded, ReapPump, ReapPumpExpired, ReapClose,
                    CancelledUnstarted, CancelledReaping, LeaveSlot
<1>3. CASE Deadline(Run) \/ CancelledPumping(Run)
  BY <1>3 DEF Deadline, CancelledPumping
<1>4. \/ GuardTask(Run) \/ Consumer(Run) \/ DriverAlone
      \/ Deadline(Run) \/ CancelledPumping(Run) \/ UNCHANGED driver
  BY DEF GovernorAlone, PumpStart, StreamEmit, PumpPaced, StreamEnd, StreamUnwound,
         CloserStart, CloseWhenSettled, Finalize, vars
<1> QED BY <1>1, <1>2, <1>3, <1>4

(* A read is left in flight only by a generator that is cancelled, and so  *)
(* by a turn that is stopped.                                              *)
LEMMA ReadLeft ==
  ASSUME PipelineInv, PipelineNext, read' = "pending", shutdown' # "none"
  PROVE  \/ read = "pending" /\ shutdown # "none"
         \/ ToStop' /\ shutdown' = "created"
<1> USE DEF A!Finish, A!streamVars, A!limitVars, A!endVars
<1>0. /\ adapter \in {"unstarted", "reading", "yielded"} => shutdown = "none"
      /\ adapter = "yielded" => read = "none"
  BY DEF PipelineInv, AdapterPart, AP!AdapterInv, AP!GenInv
<1>1. CASE PumpStopped
  <2>1. driver'[Run] = "reapPump"
    BY <1>1, PipelineAssumption
       DEF PumpStopped, Deadline, CancelledPumping, PipelineInv, GovernorPart, TypeOK
  <2>2. A!Cancel \/ A!CancelClosing \/ UNCHANGED adapterVars
    BY <1>1 DEF PumpStopped
  <2> QED BY <2>1, <2>2 DEF A!Cancel, A!CancelClosing, ToStop, adapterVars
<1>2. CASE PumpEnters \/ PumpResumes \/ PumpGoesOn \/ Adapts(A!Handle)
  <2>1. \/ A!Start \/ A!OptionsRejected \/ A!AskNext \/ A!Handle
        \/ UNCHANGED adapterVars
    BY <1>2 DEF PumpEnters, PumpResumes, PumpGoesOn, Governs, Adapts
  <2> QED BY <1>0, <2>1 DEF A!Start, A!OptionsRejected, A!AskNext, A!Handle, A!Handling, adapterVars
<1>3. CASE \/ GeneratorLeaves \/ CloserEnters
           \/ Adapts(A!HandleRaise \/ A!HandleEnd \/ A!HandleFailure)
  <2>1. \/ A!Leave \/ A!Close \/ A!HandleRaise \/ A!HandleEnd \/ A!HandleFailure
        \/ UNCHANGED adapterVars
    BY <1>3 DEF GeneratorLeaves, CloserEnters, Governs, Adapts
  <2> QED BY <1>0, <2>1
          DEF A!Leave, A!Close, A!HandleRaise, A!HandleEnd, A!HandleFailure, A!Handling, adapterVars
<1>4. CASE \/ Adapts(ShutdownAlone) \/ Adapts(A!SdkUnwound)
           \/ Adapts((\E m \in Messages : A!SdkDeliver(m)) \/ \E m \in SdkEndings : A!SdkEnd(m))
  <2>1. \/ A!ShutdownStart \/ A!Settled \/ A!SettleExpired \/ A!CancelExpired \/ A!SdkUnwound
        \/ (\E m \in Messages : A!SdkDeliver(m)) \/ (\E m \in SdkEndings : A!SdkEnd(m))
    BY <1>4 DEF ShutdownAlone, Adapts
  <2> QED BY <2>1 DEF A!ShutdownStart, A!Settled, A!SettleExpired, A!CancelExpired, A!SdkUnwound,
                      A!SdkDeliver, A!SdkEnd, A!BeginClose
<1>5. CASE UNCHANGED adapterVars
  BY <1>5 DEF adapterVars
<1> QED BY <1>1, <1>2, <1>3, <1>4, <1>5
        DEF PipelineNext, Library, Environment, Governs, Adapts, Tick, PipelineTerminated,
            pipelineVars

LEMMA NextHungInv == PipelineInv /\ HungInv /\ [PipelineNext]_pipelineVars => HungInv'
<1> SUFFICES ASSUME PipelineInv, PipelineInv', HungInv, PipelineNext PROVE HungInv'
  BY NextPipelineInv DEF HungInv, ToStop, pipelineVars, vars, driverVars, adapterVars, timerVars
<1> SUFFICES ASSUME read' = "pending", shutdown' # "none"
             PROVE  ToStop' /\ (shutdown' = "settling" => working' + settleLeft' = SettleGrace)
  BY DEF HungInv
<1>0. /\ working \in Nat /\ settleLeft \in 0..SettleGrace /\ SettleGrace = 1
      /\ working > 0 => shutdown = "settling"
  BY DEF PipelineInv, ClockPart, TimersOK, AgentInv, SettleGrace
<1>1. GovernorAlone \/ UNCHANGED vars
  BY GovernorMoves DEF PipelineInv, AdapterPart
<1>2. AdapterAlone \/ UNCHANGED adapterVars
  BY AdapterMoves
<1>3. sdk' = "busy"
  BY DEF PipelineInv, AdapterPart, AP!AdapterInv, AP!SdkInv
<1>4. ToStop'
  BY <1>1, ReadLeft, StoppedStays DEF HungInv, PipelineInv
<1>5. ASSUME shutdown' = "settling" PROVE working' + settleLeft' = SettleGrace
  <2>1. read = "pending" /\ shutdown # "none"
    BY <1>5, ReadLeft
  <2>2. ToStop /\ (shutdown = "settling" => working + settleLeft = SettleGrace)
    BY <2>1 DEF HungInv
  <2>3. shutdown \in {"created", "settling"}
    BY <1>2, <1>5, <2>1, ShutdownMoves DEF PipelineInv
  <2>4. CASE Timers
    <3>1. settleLeft' = IF shutdown' = shutdown THEN settleLeft ELSE SettleGrace
      BY <1>5, <2>4, TimersSet
    <3>2. working' = working
      BY <1>3, <2>4, TimersSet
    <3> QED BY <1>0, <1>5, <2>2, <2>3, <3>1, <3>2
  <2>5. CASE Tick
    <3>1. /\ ~ShutdownDue /\ shutdown' = shutdown
          /\ settleLeft' = IF settleLeft > 0 THEN settleLeft - 1 ELSE 0
          /\ working' = IF ToStop /\ SdkWorks /\ ~LeftOpen THEN working + 1 ELSE working
      BY <2>5 DEF Tick, Due, Passed, adapterVars
    <3>2. settleLeft > 0
      BY <1>0, <1>5, <3>1 DEF ShutdownDue
    <3>3. ~LeftOpen
      <4>1. adapter \in {"closing", "done"}
        BY <2>1 DEF PipelineInv, AdapterPart, AP!AdapterInv, AP!GenInv, AP!TypeOK
      <4> QED BY <4>1 DEF LeftOpen, PipelineInv, ViewInv, A!StreamState
    <3>4. SdkWorks
      BY <2>1 DEF SdkWorks, PipelineInv, AdapterPart, AP!AdapterInv, AP!SdkInv
    <3> QED BY <1>0, <1>5, <2>2, <3>1, <3>2, <3>3, <3>4
  <2>6. CASE PipelineTerminated
    BY <1>5, <2>2, <2>6 DEF PipelineTerminated, pipelineVars, adapterVars, timerVars
  <2> QED BY <2>4, <2>5, <2>6 DEF PipelineNext
<1> QED BY <1>4, <1>5

(* Only the shutdown cancels a read, when its first wait is over.          *)
LEMMA CancellingRead ==
  ASSUME PipelineNext, sdk' = "aborting", sdk # "aborting"
  PROVE  read = "pending" /\ shutdown = "settling" /\ settleLeft = 0
<1> USE DEF A!streamVars, A!BeginRead, A!Proceed, A!Finish
<1>1. CASE Adapts(ShutdownAlone)
  BY <1>1 DEF Adapts, ShutdownAlone, A!ShutdownStart, A!Settled, A!SettleExpired, A!CancelExpired,
              A!BeginClose
<1>2. CASE PumpEnters \/ PumpResumes \/ PumpGoesOn \/ PumpStopped \/ CloserEnters
  <2>1. \/ A!Start \/ A!OptionsRejected \/ A!AskNext \/ A!Cancel \/ A!CancelClosing \/ A!Close
        \/ UNCHANGED adapterVars
    BY <1>2 DEF PumpEnters, PumpResumes, PumpGoesOn, PumpStopped, CloserEnters, Governs
  <2> QED BY <2>1 DEF A!Start, A!OptionsRejected, A!AskNext, A!Cancel, A!CancelClosing, A!Close,
                      adapterVars
<1>3. CASE \/ GeneratorLeaves \/ Adapts(A!SdkUnwound)
           \/ Adapts(A!Handle \/ A!HandleRaise \/ A!HandleEnd \/ A!HandleFailure)
           \/ Adapts((\E m \in Messages : A!SdkDeliver(m)) \/ \E m \in SdkEndings : A!SdkEnd(m))
  <2>1. \/ A!Leave \/ A!SdkUnwound
        \/ A!Handle \/ A!HandleRaise \/ A!HandleEnd \/ A!HandleFailure
        \/ (\E m \in Messages : A!SdkDeliver(m)) \/ (\E m \in SdkEndings : A!SdkEnd(m))
        \/ UNCHANGED adapterVars
    BY <1>3 DEF GeneratorLeaves, Governs, Adapts
  <2>2. CASE A!Handle
    <3>1. A!Proceed(A!EventsOf(inbox))
      BY <2>2 DEF A!Handle
    <3> QED BY <3>1
  <2> QED BY <2>1, <2>2 DEF A!Leave, A!SdkUnwound, A!HandleRaise, A!HandleEnd, A!HandleFailure,
                            A!SdkDeliver, A!SdkEnd, adapterVars
<1>4. CASE UNCHANGED adapterVars
  BY <1>4 DEF adapterVars
<1> QED BY <1>1, <1>2, <1>3, <1>4
        DEF PipelineNext, Library, Environment, Governs, Adapts, Tick, PipelineTerminated,
            pipelineVars

(* A raw cancellation meets only a read that has hung through the whole    *)
(* settle grace since its turn was stopped.                                *)
THEOREM HungReadsOnlyCancelled == PipelineSpec => OnlyHungReadCancelled
<1>1. PipelineInit => HungInv
  BY DEF PipelineInit, A!Init, HungInv
<1>2. PipelineSpec => []HungInv
  BY <1>1, NextHungInv, PipelineInvariant, PTL DEF PipelineSpec
<1>3. PipelineInv /\ HungInv /\ [PipelineNext]_pipelineVars
        => (sdk' = "aborting" /\ sdk # "aborting" => working = SettleGrace)
  <2> SUFFICES ASSUME PipelineInv, HungInv, PipelineNext, sdk' = "aborting", sdk # "aborting"
               PROVE  working = SettleGrace
    BY DEF pipelineVars, adapterVars
  <2> QED BY CancellingRead DEF HungInv, PipelineInv, ClockPart, TimersOK, SettleGrace
<1> QED BY <1>2, <1>3, PipelineInvariant, PTL DEF PipelineSpec, OnlyHungReadCancelled
=============================================================================
