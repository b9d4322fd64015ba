---------------------------- MODULE BridgeProofs ----------------------------
(* Theorems about Bridge, for any number of calls and attempts.  Its calls *)
(* are consumers that Governor allows for, which carries the theorems      *)
(* about Governor over; the rest relates a call to its guards.             *)
EXTENDS Bridge, TurnProofs

(* Every pair of a call and one of its attempts is a run.                  *)
LEMMA RunsOfCalls ==
  ASSUME NEW c \in Calls, NEW a \in 1..MaxAttempts
  PROVE  <<c, a>> \in Runs
BY BridgeRunsAssumption

-----------------------------------------------------------------------------
(* The types of a call's own variables, with where its attempts are.       *)
CallTypes ==
  /\ call \in [Calls -> {"idle", "running", "yielded", "closing", "backoff", "done"}]
  /\ mode \in [Calls -> Modes]
  /\ attempt \in [Calls -> 0..MaxAttempts]
  /\ yielded \in [Calls -> BOOLEAN]
  /\ result \in [Calls -> BOOLEAN]
  /\ error \in [Calls -> {"none", "hard", "ValueError", "closed"}]
  /\ verdict \in [Calls ->
       {"none", "refused", "result", "hard", "deadline", "ValueError", "closed"} \cup Errors]
  /\ seen \in [Calls -> SUBSET (1..MaxAttempts)]
  /\ \A c \in Calls :
       /\ call[c] \in {"running", "yielded", "closing"} => attempt[c] \in 1..MaxAttempts
       /\ call[c] = "backoff" => attempt[c] \in 1..MaxAttempts /\ attempt[c] < MaxAttempts
       /\ call[c] = "idle" => attempt[c] = 0

LEMMA InitCallTypes == BridgeInit => CallTypes
  BY MaxAttemptsAssumption DEF BridgeInit, CallTypes

LEMMA OutcomeType ==
  ASSUME CallTypes, NEW c \in Calls
  PROVE  AttemptOutcome(c) \in {"result", "hard", "deadline", "ValueError", "closed"} \cup Errors
<1>1. error[c] \in {"none", "hard", "ValueError", "closed"}
  BY DEF CallTypes
<1> QED BY <1>1 DEF AttemptOutcome

LEMMA NextCallTypes == CallTypes /\ [BridgeNext]_bridgeVars => CallTypes'
<1> SUFFICES ASSUME CallTypes, [BridgeNext]_bridgeVars PROVE CallTypes'
  OBVIOUS
<1> USE DEF CallTypes
<1>0. MaxAttempts \in Nat /\ MaxAttempts >= 1
  BY MaxAttemptsAssumption
<1>1. CASE UNCHANGED callVars
  BY <1>1 DEF callVars
<1>2. ASSUME NEW c \in Calls, NEW a \in 1..MaxAttempts, BeginAttempt(c, a) PROVE CallTypes'
  BY <1>2 DEF BeginAttempt
<1>3. ASSUME NEW c \in Calls, BridgeTask(c) PROVE CallTypes'
  <2>1. CASE PassOver(c)
    BY <1>1, <2>1 DEF PassOver
  <2>2. CASE YieldChunk(c)
    BY <2>2 DEF YieldChunk, InHand
  <2>3. CASE KeepResult(c)
    BY <2>3 DEF KeepResult, ClosePipeline, InHand
  <2>4. CASE Malformed(c)
    BY <2>4 DEF Malformed, ClosePipeline, InHand
  <2>5. CASE Retry(c)
    BY <2>5 DEF Retry, AttemptOver, MayRetry
  <2>6. CASE CallEnd(c)
    BY <2>6, OutcomeType DEF CallEnd
  <2>7. CASE BackoffOver(c)
    <3>1. attempt[c] + 1 \in 1..MaxAttempts /\ BeginAttempt(c, attempt[c] + 1)
      BY <1>0, <2>7 DEF BackoffOver
    <3> QED BY <1>2, <3>1
  <2> QED BY <1>3, <2>1, <2>2, <2>3, <2>4, <2>5, <2>6, <2>7 DEF BridgeTask
<1>4. ASSUME NEW c \in Calls, User(c) PROVE CallTypes'
  <2>1. CASE CallStart(c)
    BY <1>0, <1>2, <2>1 DEF CallStart
  <2>2. CASE UserNext(c)
    BY <2>2 DEF UserNext
  <2>3. CASE UserNextAfterResult(c) \/ UserClose(c)
    BY <2>3 DEF UserNextAfterResult, UserClose, ClosePipeline
  <2>4. CASE UserCancel(c)
    BY <2>4 DEF UserCancel
  <2>5. CASE UserCancelBackoff(c) \/ CallRefused(c)
    BY <2>5 DEF UserCancelBackoff, CallRefused
  <2> QED BY <1>4, <2>1, <2>2, <2>3, <2>4, <2>5 DEF User
<1> QED BY <1>1, <1>3, <1>4 DEF BridgeNext, BridgeTerminated, bridgeVars

(* Phase, attempt number and last error of every call keep their types;    *)
(* needed first, since it is what makes a call a consumer of Governor.     *)
THEOREM CallsTyped == BridgeSpec => []CallTypes
<1> QED BY InitCallTypes, NextCallTypes, PTL DEF BridgeSpec

-----------------------------------------------------------------------------
(* Every step of a call is a step of the consumer of its current guard, or *)
(* none of the governor's concern.                                         *)
LEMMA CallIsConsumer ==
  ASSUME CallTypes, NEW c \in Calls, BridgeTask(c) \/ User(c)
  PROVE  UNCHANGED vars \/ \E a \in 1..MaxAttempts : Consumer(<<c, a>>)
<1> USE DEF Consumer, Run
<1>0. MaxAttempts \in Nat /\ MaxAttempts >= 1
  BY MaxAttemptsAssumption
<1>1. CASE CallStart(c)
  BY <1>0, <1>1 DEF CallStart, BeginAttempt
<1>2. CASE BackoffOver(c)
  <2>1. attempt[c] + 1 \in 1..MaxAttempts /\ GuardStart(<<c, attempt[c] + 1>>)
    BY <1>0, <1>2 DEF BackoffOver, BeginAttempt, CallTypes
  <2> QED BY <2>1
<1>3. CASE \/ PassOver(c) \/ KeepResult(c) \/ Malformed(c)
           \/ UserNext(c) \/ UserNextAfterResult(c) \/ UserClose(c) \/ UserCancel(c)
  <2>1. attempt[c] \in 1..MaxAttempts
    BY <1>3 DEF CallTypes, PassOver, KeepResult, Malformed, InHand, UserNext,
                UserNextAfterResult, UserClose, UserCancel
  <2>2. Consumer(<<c, attempt[c]>>)
    BY <1>3 DEF PassOver, KeepResult, Malformed, ClosePipeline, UserNext,
                UserNextAfterResult, UserClose, UserCancel
  <2> QED BY <2>1, <2>2
<1>4. CASE YieldChunk(c) \/ Retry(c) \/ CallEnd(c) \/ UserCancelBackoff(c) \/ CallRefused(c)
  BY <1>4 DEF YieldChunk, Retry, CallEnd, UserCancelBackoff, CallRefused
<1> QED BY <1>1, <1>2, <1>3, <1>4 DEF BridgeTask, User

LEMMA BridgeStep == CallTypes /\ [BridgeNext]_bridgeVars => [Next]_vars
<1> SUFFICES ASSUME CallTypes, [BridgeNext]_bridgeVars PROVE [Next]_vars
  OBVIOUS
<1>1. ASSUME NEW c \in Calls, BridgeTask(c) \/ User(c) PROVE [Next]_vars
  BY <1>1, CallIsConsumer, RunsOfCalls DEF Next
<1>2. ASSUME NEW r \in Runs, Loop(r) PROVE [Next]_vars
  BY <1>2 DEF Next
<1>3. CASE UNCHANGED bridgeVars
  BY <1>3 DEF bridgeVars
<1> QED BY <1>1, <1>2, <1>3 DEF BridgeNext, BridgeTerminated

(* The calls of Bridge.run are consumers as Governor allows for: what is   *)
(* proved of its guards holds of theirs.                                   *)
THEOREM BridgeUsesGovernor == BridgeSpec => Spec
<1>1. BridgeInit => Init
  BY DEF BridgeInit
<1> QED BY <1>1, BridgeStep, CallsTyped, PTL DEF BridgeSpec, Spec

(* Every variable of Bridge keeps its type.                                *)
THEOREM BridgeTypeCorrect == BridgeSpec => []BridgeTypeOK
<1>1. TypeOK /\ CallTypes => BridgeTypeOK
  BY DEF CallTypes, BridgeTypeOK
<1>2. BridgeSpec => []TypeOK
  BY BridgeUsesGovernor, TypeCorrect, PTL
<1> QED BY <1>1, <1>2, CallsTyped, PTL

-----------------------------------------------------------------------------
(* The failures of a guard after which a call may try again.               *)
Retriable == {"transient"} \cup (Statuses \ {"plan", "auth"})

(* A guard that ended with one: its slot is free.                          *)
Spent(r) == guard[r] = "done" /\ driver[r] = "done" /\ item[r] \in Retriable

(* The attempts before the current one are spent, so is the current one    *)
(* during the backoff, and those after it have not begun.                  *)
AttemptsOf(c) ==
  \A a \in 1..MaxAttempts :
    /\ a < attempt[c] \/ (a = attempt[c] /\ call[c] = "backoff") => Spent(<<c, a>>)
    /\ a > attempt[c] => guard[<<c, a>>] = "idle"

(* What a call has shown and found, and where that leaves its guard.       *)
CallInv(c) ==
  /\ seen[c] \subseteq {attempt[c]}
  /\ ~yielded[c] => seen[c] = {}
  /\ call[c] \in {"idle", "backoff"} => ~yielded[c]
  /\ result[c] => /\ call[c] \in {"yielded", "closing", "done"}
                  /\ verdict[c] \in {"none", "result", "closed"}
  /\ verdict[c] # "none" => call[c] = "done"
  /\ verdict[c] = "result" => result[c]
  /\ call[c] = "yielded" => guard[Run(c)] = "yielded"
  /\ call[c] = "closing" => guard[Run(c)] \in {"closing", "done"}
  /\ result[c] /\ call[c] = "closing"
       => item[Run(c)] = "closed" /\ error[c] \in {"none", "closed"}

BridgeInv == \A c \in Calls : AttemptsOf(c) /\ CallInv(c)

LEMMA InitBridgeInv == BridgeInit => BridgeInv
<1> SUFFICES ASSUME BridgeInit, NEW c \in Calls PROVE AttemptsOf(c) /\ CallInv(c)
  BY DEF BridgeInv
<1>1. attempt[c] = 0 /\ call[c] = "idle" /\ \A r \in Runs : guard[r] = "idle"
  BY DEF BridgeInit, Init
<1>2. AttemptsOf(c)
  BY <1>1, RunsOfCalls DEF AttemptsOf
<1>3. CallInv(c)
  BY DEF BridgeInit, CallInv
<1> QED BY <1>2, <1>3

-----------------------------------------------------------------------------
(* What a step of the governor leaves of a guard.                          *)
GuardFrame(s) ==
  /\ guard[s] \in {"idle", "yielded", "done"} => guard'[s] = guard[s] /\ item'[s] = item[s]
  /\ guard[s] = "closing" => guard'[s] \in {"closing", "done"} /\ item'[s] = item[s]
  /\ driver[s] = "done" => driver'[s] = "done"

LEMMA LoopFrame ==
  ASSUME TypeOK, SlotInv, NEW r \in Runs, Loop(r), NEW s \in Runs
  PROVE  GuardFrame(s)
<1> USE DEF TypeOK, GuardFrame, consumerVars, driverVars
<1>0. \A q \in granted : driver[q] = "queued"
  BY DEF SlotInv, SlotCore, Queuers
<1>1. CASE GuardTask(r)
  BY <1>1 DEF GuardTask, GuardTakeEvent, GuardTakeOutcome, GuardFinish
<1>2. CASE DriverTask(r)
  <2>1. UNCHANGED consumerVars
    BY <1>2 DEF DriverTask, AcquireAtOnce, AcquireWait, AcquireResumed, PumpEnded, Deadline,
                ReapPump, ReapPumpExpired, ReapClose, CancelledUnstarted, CancelledQueued,
                CancelledPumping, CancelledReaping
  <2>2. driver[r] # "done" /\ \A q \in Runs \ {r} : driver'[q] = driver[q]
    <3>1. CASE AcquireAtOnce(r) \/ AcquireWait(r) \/ AcquireResumed(r)
      BY <1>0, <3>1 DEF AcquireAtOnce, AcquireWait, AcquireResumed
    <3>2. CASE PumpEnded(r) \/ Deadline(r) \/ ReapPump(r) \/ CancelledPumping(r)
      BY <3>2 DEF PumpEnded, Deadline, ReapPump, CancelledPumping
    <3>3. CASE ReapPumpExpired(r) \/ ReapClose(r) \/ CancelledReaping(r)
      BY <3>3 DEF ReapPumpExpired, ReapClose, CancelledReaping, LeaveSlot
    <3>4. CASE CancelledUnstarted(r) \/ CancelledQueued(r)
      BY <3>4 DEF CancelledUnstarted, CancelledQueued
    <3> QED BY <1>2, <3>1, <3>2, <3>3, <3>4 DEF DriverTask
  <2> QED BY <2>1, <2>2
<1>3. CASE PumpTask(r) \/ CloserTask(r) \/ Stream(r) \/ StreamUnwound(r)
  <2>1. UNCHANGED <<consumerVars, driverVars>>
    BY <1>3 DEF PumpTask, PumpStart, PumpPaced, CloserTask, CloseWhenSettled, CloserStart,
                Finalize, Stream, StreamEmit, StreamEnd, StreamUnwound
  <2> QED BY <2>1
<1> QED BY <1>1, <1>2, <1>3 DEF Loop

(* ... and one of a consumer of another guard.                             *)
LEMMA ConsumerFrame ==
  ASSUME TypeOK, NEW r \in Runs, Consumer(r), NEW s \in Runs, s # r
  PROVE  guard'[s] = guard[s] /\ item'[s] = item[s] /\ driver'[s] = driver[s]
BY DEF TypeOK, driverVars, Consumer, GuardStart, ConsumerNext, ConsumerClose,
       ConsumerCancel, ConsumerCancelClosing

-----------------------------------------------------------------------------
(* A step of the governor alone.                                           *)
LEMMA LoopKeepsCall ==
  ASSUME TypeOK, SlotInv, CallTypes, NEW c \in Calls, AttemptsOf(c), CallInv(c),
         NEW r \in Runs, Loop(r), UNCHANGED callVars
  PROVE  AttemptsOf(c)' /\ CallInv(c)'
<1>1. UNCHANGED <<call, attempt, yielded, result, error, verdict, seen>>
  BY DEF callVars
<1>2. \A a \in 1..MaxAttempts : GuardFrame(<<c, a>>)
  BY LoopFrame, RunsOfCalls
<1>3. AttemptsOf(c)'
  <2> SUFFICES ASSUME NEW a \in 1..MaxAttempts
               PROVE  /\ a < attempt[c] \/ (a = attempt[c] /\ call[c] = "backoff")
                           => Spent(<<c, a>>)'
                      /\ a > attempt[c] => guard'[<<c, a>>] = "idle"
    BY <1>1 DEF AttemptsOf
  <2> QED BY <1>2 DEF AttemptsOf, Spent, GuardFrame
<1>4. CallInv(c)'
  <2>1. call[c] \in {"yielded", "closing"} => GuardFrame(Run(c))
    BY <1>2 DEF CallTypes, Run
  <2>2. Run(c)' = Run(c)
    BY <1>1 DEF Run
  <2> QED BY <1>1, <2>1, <2>2 DEF CallInv, GuardFrame
<1> QED BY <1>3, <1>4

(* A step of a call concerns no other call ...                             *)
CallView(d) ==
  <<call[d], attempt[d], yielded[d], result[d], error[d], verdict[d], seen[d]>>

LEMMA OthersCallView ==
  ASSUME CallTypes, NEW c \in Calls, BridgeTask(c) \/ User(c), NEW d \in Calls, d # c
  PROVE  UNCHANGED CallView(d)
<1> USE DEF CallTypes, CallView, callVars
<1>1. ASSUME NEW a, BeginAttempt(c, a) PROVE UNCHANGED CallView(d)
  BY <1>1 DEF BeginAttempt
<1>2. CASE BridgeTask(c)
  <2>1. CASE PassOver(c) \/ YieldChunk(c) \/ KeepResult(c) \/ Malformed(c)
    BY <2>1 DEF PassOver, YieldChunk, KeepResult, Malformed, ClosePipeline
  <2>2. CASE Retry(c) \/ CallEnd(c)
    BY <2>2 DEF Retry, CallEnd
  <2>3. CASE BackoffOver(c)
    BY <1>1, <2>3 DEF BackoffOver
  <2> QED BY <1>2, <2>1, <2>2, <2>3 DEF BridgeTask
<1>3. CASE User(c)
  <2>1. CASE CallStart(c)
    BY <1>1, <2>1 DEF CallStart
  <2>2. CASE UserNext(c) \/ UserNextAfterResult(c) \/ UserClose(c)
    BY <2>2 DEF UserNext, UserNextAfterResult, UserClose, ClosePipeline
  <2>3. CASE UserCancel(c) \/ UserCancelBackoff(c) \/ CallRefused(c)
    BY <2>3 DEF UserCancel, UserCancelBackoff, CallRefused
  <2> QED BY <1>3, <2>1, <2>2, <2>3 DEF User
<1> QED BY <1>2, <1>3

(* ... nor its guards ...                                                  *)
LEMMA OthersGuards ==
  ASSUME TypeOK, CallTypes, NEW c \in Calls, BridgeTask(c) \/ User(c),
         NEW d \in Calls, d # c, NEW a \in 1..MaxAttempts
  PROVE  /\ guard'[<<d, a>>] = guard[<<d, a>>] /\ item'[<<d, a>>] = item[<<d, a>>]
         /\ driver'[<<d, a>>] = driver[<<d, a>>]
<1>1. CASE UNCHANGED vars
  BY <1>1 DEF vars, consumerVars, driverVars
<1>2. CASE \E b \in 1..MaxAttempts : Consumer(<<c, b>>)
  <2>1. PICK b \in 1..MaxAttempts : Consumer(<<c, b>>)
    BY <1>2
  <2>2. <<d, a>> \in Runs /\ <<c, b>> \in Runs /\ <<d, a>> # <<c, b>>
    BY RunsOfCalls
  <2> QED BY <2>1, <2>2, ConsumerFrame
<1> QED BY <1>1, <1>2, CallIsConsumer

LEMMA OthersKeepCall ==
  ASSUME TypeOK, CallTypes, NEW c \in Calls, BridgeTask(c) \/ User(c),
         NEW d \in Calls, d # c, AttemptsOf(d), CallInv(d)
  PROVE  AttemptsOf(d)' /\ CallInv(d)'
<1>1. /\ call'[d] = call[d] /\ attempt'[d] = attempt[d] /\ yielded'[d] = yielded[d]
      /\ result'[d] = result[d] /\ error'[d] = error[d] /\ verdict'[d] = verdict[d]
      /\ seen'[d] = seen[d]
  BY OthersCallView DEF CallView
<1>2. \A a \in 1..MaxAttempts :
        /\ guard'[<<d, a>>] = guard[<<d, a>>] /\ item'[<<d, a>>] = item[<<d, a>>]
        /\ driver'[<<d, a>>] = driver[<<d, a>>]
  BY OthersGuards
<1>3. AttemptsOf(d)'
  BY <1>1, <1>2 DEF AttemptsOf, Spent
<1>4. CallInv(d)'
  <2>1. call[d] \in {"yielded", "closing"} => attempt[d] \in 1..MaxAttempts
    BY DEF CallTypes
  <2> QED BY <1>1, <1>2, <2>1 DEF CallInv, Run
<1> QED BY <1>3, <1>4

(* ... and of its own guards only the current one.                         *)
LEMMA OwnAttempts ==
  ASSUME TypeOK, CallTypes, NEW c \in Calls, AttemptsOf(c),
         attempt'[c] = attempt[c], call'[c] # "backoff",
         UNCHANGED vars \/ (attempt[c] \in 1..MaxAttempts /\ Consumer(Run(c)))
  PROVE  AttemptsOf(c)'
<1>1. ASSUME NEW a \in 1..MaxAttempts, a # attempt[c]
      PROVE  /\ guard'[<<c, a>>] = guard[<<c, a>>] /\ item'[<<c, a>>] = item[<<c, a>>]
             /\ driver'[<<c, a>>] = driver[<<c, a>>]
  <2>1. CASE UNCHANGED vars
    BY <2>1 DEF vars, consumerVars, driverVars
  <2>2. CASE attempt[c] \in 1..MaxAttempts /\ Consumer(Run(c))
    <3>1. <<c, a>> \in Runs /\ Run(c) \in Runs /\ <<c, a>> # Run(c)
      BY <1>1, <2>2, RunsOfCalls DEF Run
    <3> QED BY <2>2, <3>1, ConsumerFrame
  <2> QED BY <2>1, <2>2
<1>2. attempt[c] \in Nat /\ MaxAttempts \in Nat
  BY MaxAttemptsAssumption DEF CallTypes
<1> QED BY <1>1, <1>2 DEF AttemptsOf, Spent

-----------------------------------------------------------------------------
(* An attempt begins, the first one or the one after a spent one.          *)
LEMMA BeginKeepsCall ==
  ASSUME TypeOK, CallTypes, NEW c \in Calls, AttemptsOf(c), CallInv(c),
         call[c] \in {"idle", "backoff"},
         NEW a \in 1..MaxAttempts, a = attempt[c] + 1, BeginAttempt(c, a)
  PROVE  AttemptsOf(c)' /\ CallInv(c)'
<1>1. /\ attempt'[c] = a /\ call'[c] = "running" /\ ~yielded'[c] /\ ~result'[c]
      /\ verdict'[c] = verdict[c] /\ seen'[c] = seen[c] /\ Consumer(<<c, a>>)
  BY DEF CallTypes, BeginAttempt, Consumer
<1>2. attempt[c] \in Nat /\ MaxAttempts \in Nat /\ (call[c] = "idle" => attempt[c] = 0)
  BY MaxAttemptsAssumption DEF CallTypes
<1>3. AttemptsOf(c)'
  <2>1. ASSUME NEW b \in 1..MaxAttempts, b # a
        PROVE  /\ guard'[<<c, b>>] = guard[<<c, b>>] /\ item'[<<c, b>>] = item[<<c, b>>]
               /\ driver'[<<c, b>>] = driver[<<c, b>>]
    <3>1. <<c, a>> \in Runs /\ <<c, b>> \in Runs /\ <<c, b>> # <<c, a>>
      BY <2>1, RunsOfCalls
    <3> QED BY <1>1, <3>1, ConsumerFrame
  <2>2. ASSUME NEW b \in 1..MaxAttempts, b < a PROVE Spent(<<c, b>>)'
    <3>1. b < attempt[c] \/ (b = attempt[c] /\ call[c] = "backoff")
      BY <1>2, <2>2
    <3> QED BY <2>1, <2>2, <3>1 DEF AttemptsOf, Spent
  <2>3. ASSUME NEW b \in 1..MaxAttempts, b > a PROVE guard'[<<c, b>>] = "idle"
    BY <1>2, <2>1, <2>3 DEF AttemptsOf
  <2> QED BY <1>1, <2>2, <2>3 DEF AttemptsOf
<1>4. CallInv(c)'
  BY <1>1 DEF CallInv
<1> QED BY <1>3, <1>4

(* What a call that has its Result, or was told to stop, comes to.         *)
LEMMA FinalOutcome ==
  ASSUME CallTypes, NEW c \in Calls, CallInv(c), AttemptOver(c)
  PROVE  /\ result[c] => AttemptOutcome(c) \in {"result", "closed"}
         /\ AttemptOutcome(c) = "result" => result[c]
         /\ MayRetry(c) => /\ item[Run(c)] = AttemptOutcome(c)
                           /\ item[Run(c)] \in Retriable \cap (Errors \cup {"deadline"})
<1>1. /\ Errors \subseteq {"transient", "throttled", "hard", "plan", "auth"}
      /\ Statuses \subseteq (Errors \cup {"deadline"}) \ {"hard"}
  BY BridgeKindsAssumption
<1>2. error[c] \in {"none", "hard", "ValueError", "closed"}
  BY DEF CallTypes
<1>3. result[c] => item[Run(c)] = "closed" /\ error[c] \in {"none", "closed"}
  BY DEF CallInv, AttemptOver
<1>4. result[c] => AttemptOutcome(c) \in {"result", "closed"}
  BY <1>1, <1>3 DEF AttemptOutcome
<1>5. AttemptOutcome(c) = "result" => result[c]
  BY <1>1, <1>2 DEF AttemptOutcome
<1>6. ASSUME MayRetry(c)
      PROVE  /\ item[Run(c)] = AttemptOutcome(c)
             /\ item[Run(c)] \in Retriable \cap (Errors \cup {"deadline"})
  <2>1. /\ AttemptOutcome(c) = "transient" \/ AttemptOutcome(c) \in Statuses
        /\ AttemptOutcome(c) \in {"transient", "throttled", "deadline"}
    BY <1>1, <1>6 DEF MayRetry, IsTransient, AdapterErrors
  <2>2. error[c] = "none" /\ item[Run(c)] \in Errors \cup {"deadline"}
    BY <1>2, <2>1 DEF AttemptOutcome
  <2>3. item[Run(c)] = AttemptOutcome(c)
    BY <2>2 DEF AttemptOutcome
  <2> QED BY <2>1, <2>2, <2>3 DEF Retriable
<1> QED BY <1>4, <1>5, <1>6

(* The call closes the pipeline of its attempt from inside.                *)
LEMMA CloseKeepsCall ==
  ASSUME TypeOK, CallTypes, NEW c \in Calls, CallInv(c), attempt[c] \in 1..MaxAttempts,
         NEW e, ClosePipeline(c, e), e \in {"none", "hard", "ValueError", "closed"},
         result'[c] => e \in {"none", "closed"}, verdict[c] = "none",
         UNCHANGED <<mode, attempt, yielded, verdict, seen>>
  PROVE  CallInv(c)'
<1>1. Run(c) \in Runs /\ Run(c)' = Run(c)
  BY RunsOfCalls DEF Run
<1>2. guard'[Run(c)] = "closing" /\ item'[Run(c)] = "closed"
  BY <1>1 DEF ClosePipeline, ConsumerClose, TypeOK
<1>3. /\ call'[c] = "closing" /\ error'[c] = e
      /\ UNCHANGED <<attempt, yielded, verdict, seen>>
  BY DEF ClosePipeline, CallTypes
<1> QED BY <1>1, <1>2, <1>3 DEF CallInv

LEMMA OwnStep ==
  ASSUME TypeOK, CallTypes, OutcomeMeansReaped, NEW c \in Calls,
         AttemptsOf(c), CallInv(c), BridgeTask(c) \/ User(c)
  PROVE  AttemptsOf(c)' /\ CallInv(c)'
<1>0. MaxAttempts \in Nat /\ MaxAttempts >= 1
  BY MaxAttemptsAssumption
<1>1. CASE CallStart(c) \/ BackoffOver(c)
  <2>1. /\ call[c] \in {"idle", "backoff"}
        /\ attempt[c] + 1 \in 1..MaxAttempts /\ BeginAttempt(c, attempt[c] + 1)
    BY <1>0, <1>1 DEF CallTypes, CallStart, BackoffOver
  <2> QED BY <2>1, BeginKeepsCall
<1>2. CASE \/ PassOver(c) \/ KeepResult(c) \/ Malformed(c)
           \/ UserNext(c) \/ UserNextAfterResult(c) \/ UserClose(c) \/ UserCancel(c)
  <2>1. /\ attempt[c] \in 1..MaxAttempts /\ verdict[c] = "none"
        /\ UNCHANGED <<mode, attempt, yielded, verdict, seen>>
        /\ call'[c] # "backoff"
    BY <1>2 DEF CallTypes, CallInv, PassOver, KeepResult, Malformed, InHand, UserNext,
                UserNextAfterResult, UserClose, UserCancel, ClosePipeline, callVars
  <2>2. Consumer(Run(c))
    BY <1>2 DEF Consumer, PassOver, KeepResult, Malformed, ClosePipeline, UserNext,
                UserNextAfterResult, UserClose, UserCancel
  <2>3. AttemptsOf(c)'
    BY <2>1, <2>2, OwnAttempts
  <2>4. Run(c) \in Runs /\ Run(c)' = Run(c)
    BY <2>1, RunsOfCalls DEF Run
  <2>5. CASE PassOver(c)
    <3>1. call[c] = "running" /\ UNCHANGED callVars
      BY <2>5 DEF PassOver, InHand
    <3> QED BY <2>3, <3>1 DEF CallInv, callVars
  <2>6. CASE KeepResult(c)
    BY <2>1, <2>3, <2>6, CloseKeepsCall DEF KeepResult
  <2>7. CASE Malformed(c)
    <3>1. ~result'[c]
      BY <2>7 DEF Malformed, InHand, CallInv
    <3> QED BY <2>1, <2>3, <2>7, <3>1, CloseKeepsCall DEF Malformed
  <2>8. CASE UserNext(c)
    <3>1. call'[c] = "running" /\ ~result'[c]
      BY <2>8 DEF UserNext, CallTypes
    <3> QED BY <2>1, <2>3, <3>1 DEF CallInv
  <2>9. CASE UserNextAfterResult(c) \/ UserClose(c)
    BY <2>1, <2>3, <2>9, CloseKeepsCall DEF UserNextAfterResult, UserClose
  <2>10. CASE UserCancel(c)
    <3>1. /\ call'[c] = "closing" /\ error'[c] = "closed" /\ result'[c] = result[c]
          /\ guard'[Run(c)] \in {"closing", "done"} /\ item'[Run(c)] = "closed"
      BY <2>4, <2>10 DEF UserCancel, ConsumerCancel, ConsumerCancelClosing, TypeOK, CallTypes
    <3> QED BY <2>1, <2>3, <2>4, <3>1 DEF CallInv
  <2> QED BY <1>2, <2>5, <2>6, <2>7, <2>8, <2>9, <2>10
<1>3. CASE YieldChunk(c)
  <2>1. /\ attempt[c] \in 1..MaxAttempts /\ guard[Run(c)] = "yielded"
        /\ call[c] = "running" /\ call'[c] = "yielded" /\ yielded'[c]
        /\ seen'[c] = seen[c] \cup {attempt[c]}
        /\ UNCHANGED <<vars, attempt, verdict>>
    BY <1>3 DEF YieldChunk, InHand, CallTypes
  <2>2. AttemptsOf(c)'
    BY <2>1, OwnAttempts
  <2>3. guard' = guard /\ Run(c)' = Run(c)
    BY <2>1 DEF vars, consumerVars, Run
  <2> QED BY <2>1, <2>2, <2>3 DEF CallInv
<1>4. CASE Retry(c)
  <2>1. /\ call[c] \in {"running", "closing"} /\ guard[Run(c)] = "done" /\ MayRetry(c)
        /\ call'[c] = "backoff" /\ UNCHANGED <<vars, attempt, yielded, result, error, verdict, seen>>
    BY <1>4 DEF Retry, AttemptOver, CallTypes
  <2>2. attempt[c] \in 1..MaxAttempts /\ Run(c) \in Runs
    BY <2>1, RunsOfCalls DEF CallTypes, Run
  <2>3. /\ ~result[c]
        /\ item[Run(c)] \in Retriable \cap (Errors \cup {"deadline"})
    <3>1. AttemptOver(c)
      BY <1>4 DEF Retry
    <3>2. AttemptOutcome(c) \notin {"result", "closed"}
      BY <2>1 DEF MayRetry, IsTransient, AdapterErrors
    <3> QED BY <2>1, <3>1, <3>2, FinalOutcome
  <2>4. Spent(Run(c))
    <3>1. item[Run(c)] \in Outcomes
      BY <2>3 DEF Outcomes
    <3> QED BY <2>1, <2>2, <2>3, <3>1 DEF OutcomeMeansReaped, Spent
  <2>5. AttemptsOf(c)'
    <3>1. UNCHANGED <<guard, item, driver, attempt>>
      BY <2>1 DEF vars, consumerVars, driverVars
    <3>2. \A a \in 1..MaxAttempts : a = attempt[c] => Spent(<<c, a>>)
      BY <2>4 DEF Run
    <3> QED BY <3>1, <3>2 DEF AttemptsOf, Spent
  <2>6. CallInv(c)'
    <3>1. ~yielded[c]
      BY <2>1 DEF MayRetry
    <3> QED BY <2>1, <2>3, <3>1 DEF CallInv
  <2> QED BY <2>5, <2>6
<1>5. CASE CallEnd(c) \/ UserCancelBackoff(c) \/ CallRefused(c)
  <2>1. /\ call'[c] = "done" /\ UNCHANGED <<vars, attempt, yielded, result, error, seen>>
    BY <1>5 DEF CallEnd, UserCancelBackoff, CallRefused, CallTypes
  <2>2. AttemptsOf(c)'
    BY <2>1, OwnAttempts
  <2>3. /\ result[c] => verdict'[c] \in {"result", "closed"}
        /\ verdict'[c] = "result" => result[c]
    <3>1. CASE CallEnd(c)
      <4>1. AttemptOver(c) /\ verdict'[c] = AttemptOutcome(c)
        BY <3>1 DEF CallEnd, CallTypes
      <4> QED BY <4>1, FinalOutcome
    <3>2. CASE UserCancelBackoff(c) \/ CallRefused(c)
      BY <3>2 DEF UserCancelBackoff, CallRefused, CallTypes, CallInv
    <3> QED BY <1>5, <3>1, <3>2
  <2> QED BY <2>1, <2>2, <2>3 DEF CallInv
<1> QED BY <1>1, <1>2, <1>3, <1>4, <1>5 DEF BridgeTask, User

LEMMA NextBridgeInv ==
  TypeOK /\ SlotInv /\ CallTypes /\ OutcomeMeansReaped /\ BridgeInv
    /\ [BridgeNext]_bridgeVars => BridgeInv'
<1> SUFFICES ASSUME TypeOK, SlotInv, CallTypes, OutcomeMeansReaped, BridgeInv,
                    [BridgeNext]_bridgeVars, NEW d \in Calls
             PROVE  AttemptsOf(d)' /\ CallInv(d)'
  BY DEF BridgeInv
<1>0. AttemptsOf(d) /\ CallInv(d)
  BY DEF BridgeInv
<1>1. ASSUME NEW r \in Runs, Loop(r), UNCHANGED callVars
      PROVE  AttemptsOf(d)' /\ CallInv(d)'
  BY <1>0, <1>1, LoopKeepsCall
<1>2. ASSUME NEW c \in Calls, BridgeTask(c) \/ User(c)
      PROVE  AttemptsOf(d)' /\ CallInv(d)'
  <2>1. CASE c = d
    BY <1>0, <1>2, <2>1, OwnStep
  <2>2. CASE c # d
    BY <1>0, <1>2, <2>2, OthersKeepCall
  <2> QED BY <2>1, <2>2
<1>3. CASE UNCHANGED bridgeVars
  BY <1>0, <1>3 DEF bridgeVars, vars, callVars, consumerVars, driverVars, AttemptsOf, Spent,
                    CallInv, Run
<1> QED BY <1>1, <1>2, <1>3 DEF BridgeNext, BridgeTerminated

(* The inductive invariant of the retry loops: what the attempts of a call *)
(* that are over have left behind, and where its current one is.           *)
THEOREM BridgeInvariant ==
  BridgeSpec => [](TypeOK /\ SlotInv /\ WorkInv /\ CallTypes /\ BridgeInv)
<1>1. BridgeSpec => [](TypeOK /\ SlotInv /\ WorkInv /\ OutcomeMeansReaped)
  BY BridgeUsesGovernor, TypeCorrect, SlotInvariant, WorkInvariant, OutcomeAlwaysReaped, PTL
<1> QED BY <1>1, InitBridgeInv, NextBridgeInv, CallsTyped, PTL DEF BridgeSpec

(* Only transient failures lead to another attempt.                        *)
THEOREM RetriesOnlyTransient == BridgeSpec => []OnlyTransientRetried
<1>1. BridgeInv => OnlyTransientRetried
  BY DEF BridgeInv, AttemptsOf, Spent, Retriable, OnlyTransientRetried
<1> QED BY <1>1, BridgeInvariant, PTL

(* No user sees chunks of two attempts of a call.                          *)
THEOREM NeverRepeatsChunks == BridgeSpec => []ChunksOfOneAttempt
<1>1. BridgeInv => ChunksOfOneAttempt
  BY DEF BridgeInv, CallInv, ChunksOfOneAttempt
<1> QED BY <1>1, BridgeInvariant, PTL

(* A call never has or awaits two slots, nor two streams at work.          *)
THEOREM NeverTwoSlots == BridgeSpec => []OneSlotPerCall
<1>1. TypeOK /\ SlotInv /\ WorkInv /\ CallTypes /\ BridgeInv => OneSlotPerCall
  <2> SUFFICES ASSUME TypeOK, SlotInv, WorkInv, CallTypes, BridgeInv, NEW c \in Calls
               PROVE  \A a, b \in 1..MaxAttempts :
                        /\ {<<c, a>>, <<c, b>>} \subseteq Holders \cup Queuers => a = b
                        /\ gen[<<c, a>>] = "running" /\ gen[<<c, b>>] = "running" => a = b
    BY DEF OneSlotPerCall
  <2>1. ASSUME NEW a \in 1..MaxAttempts, a # attempt[c]
        PROVE  driver[<<c, a>>] \in {"none", "done"}
    <3>1. attempt[c] \in Nat
      BY DEF CallTypes
    <3>2. <<c, a>> \in Runs /\ (a < attempt[c] \/ a > attempt[c])
      BY <2>1, <3>1, RunsOfCalls
    <3> QED BY <3>2 DEF BridgeInv, AttemptsOf, Spent, SlotInv
  <2>2. ASSUME NEW a \in 1..MaxAttempts, a # attempt[c]
        PROVE  <<c, a>> \notin Holders \cup Queuers /\ gen[<<c, a>>] # "running"
    BY <2>1, <2>2, RunsOfCalls DEF Holders, Queuers, HoldingStates, WorkInv
  <2> QED BY <2>2
<1> QED BY <1>1, BridgeInvariant, PTL

(* A call that has its Result does not fail any more.                      *)
THEOREM ResultsAreFinal == BridgeSpec => []ResultIsFinal
<1>1. BridgeInv => ResultIsFinal
  BY DEF BridgeInv, CallInv, ResultIsFinal
<1> QED BY <1>1, BridgeInvariant, PTL
=============================================================================
