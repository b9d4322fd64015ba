------------------------------ MODULE Governor ------------------------------
(***************************************************************************)
(* ConcurrencyGovernor (src/anycli/middleware/concurrency.py): one         *)
(* governor and the guard() calls that share it.  Every member of Runs is  *)
(* one guard() call with its five asyncio parties:                         *)
(*                                                                         *)
(*   guard   the async generator the consumer iterates                     *)
(*   driver  the task of _drive: slot, deadline, bounded cleanup, outcome  *)
(*   pump    the task of _pump, which reads the adapter generator          *)
(*   gen     the adapter generator (one live agent CLI subprocess)         *)
(*   closer  the background task of _close_in_background                   *)
(*                                                                         *)
(* An action is the code one of them runs between two suspension points    *)
(* of the event loop, so the interleavings are those of the loop.  The     *)
(* consumer and the adapter generator are the environment: nothing obliges *)
(* either of them to make progress.                                        *)
(***************************************************************************)
EXTENDS Integers, SequencesExt

CONSTANTS
  Runs,            \* the guard() calls
  MaxConcurrency,  \* max_concurrency: slots of the governor
  Kinds,           \* kinds of RawEvent the adapters emit
  Errors,          \* exceptions an adapter stream may raise
  SelfCancels,     \* may an adapter stream raise CancelledError of its own?
  MaxEvents        \* bound of the model: events one adapter stream emits

Outcomes == {"end", "deadline"} \cup Errors

ASSUME RunsAssumption == IsFiniteSet(Runs)
ASSUME MaxConcurrencyAssumption == MaxConcurrency \in Nat \ {0}
ASSUME MaxEventsAssumption == MaxEvents \in Nat
ASSUME SelfCancelsAssumption == SelfCancels \in BOOLEAN
ASSUME ItemAssumption ==
  /\ Kinds \cap Outcomes = {}
  /\ {"none", "closed", "cancelled"} \cap (Kinds \cup Outcomes) = {}
  /\ {"end", "deadline"} \cap Errors = {}

VARIABLES
  guard,       \* where the guard of each run is suspended
  item,        \* its local `item`; "closed" once the consumer has left
  taken,       \* events the guard has handed to its consumer
  driver,      \* where the driver of each run is suspended
  outcome,     \* its local `outcome`; "none" stands for signal = False
  cancelling,  \* driver.cancel() was called and not yet delivered
  sem,         \* _semaphore._value
  granted,     \* waiters of _semaphore that own a slot but have not resumed
  waiters,     \* the other live waiters of _semaphore, first come first
  active,      \* _active
  queued,      \* _queued
  pace,        \* value of each run's pace semaphore
  queue,       \* each run's hand-off queue: events, then the outcome
  pump,        \* where the pump of each run is suspended
  fate,        \* how its stream ended by itself ("none": it did not)
  gen,         \* the adapter generator
  produced,    \* events the adapter generator has emitted
  closer       \* the background close; "armed" is _close_when_settled

consumerVars == <<guard, item, taken>>
driverVars   == <<driver, outcome, cancelling>>
slotVars     == <<sem, granted, waiters, active, queued>>
channelVars  == <<pace, queue>>
streamVars   == <<pump, fate, gen, produced, closer>>
vars == <<consumerVars, driverVars, slotVars, channelVars, streamVars>>

Init ==
  /\ guard      = [r \in Runs |-> "idle"]
  /\ item       = [r \in Runs |-> "none"]
  /\ taken      = [r \in Runs |-> 0]
  /\ driver     = [r \in Runs |-> "none"]
  /\ outcome    = [r \in Runs |-> "none"]
  /\ cancelling = [r \in Runs |-> FALSE]
  /\ sem        = MaxConcurrency
  /\ granted    = {}
  /\ waiters    = <<>>
  /\ active     = 0
  /\ queued     = 0
  /\ pace       = [r \in Runs |-> 1]
  /\ queue      = [r \in Runs |-> <<>>]
  /\ pump       = [r \in Runs |-> "none"]
  /\ fate       = [r \in Runs |-> "none"]
  /\ gen        = [r \in Runs |-> "unstarted"]
  /\ produced   = [r \in Runs |-> 0]
  /\ closer     = [r \in Runs |-> "none"]

-----------------------------------------------------------------------------
(* The states in which a driver is inside `async with self.acquire()`.     *)
HoldingStates == {"pumping", "reapPump", "reapClose"}
Holders == {r \in Runs : driver[r] \in HoldingStates}
Queuers == {r \in Runs : driver[r] = "queued"}

(* A generator that has started and not closed: its subprocess is alive.   *)
LiveStates == {"running", "suspended", "unwinding"}
Live == {r \in Runs : gen[r] \in LiveStates}

(* Mutants, named Mutant*, are plausible slips of the definition that      *)
(* follows them; they are there to show that the properties notice.        *)

(* Semaphore.release(): the first waiter that has no slot yet is given it. *)
(* g is what remains of `granted`.                                         *)
ReleaseSlot(g) ==
  IF waiters = <<>>
  THEN /\ sem' = sem + 1
       /\ granted' = g
       /\ UNCHANGED waiters
  ELSE /\ granted' = g \cup {Head(waiters)}
       /\ waiters' = Tail(waiters)
       /\ UNCHANGED sem

(* driver.cancel(): a task that is done ignores it; the future of a waiter *)
(* with no slot is cancelled at once and so leaves the semaphore's queue.  *)
CancelDriver(r) ==
  IF driver[r] = "done"
  THEN UNCHANGED <<cancelling, waiters>>
  ELSE /\ cancelling' = [cancelling EXCEPT ![r] = TRUE]
       /\ IF \E i \in DOMAIN waiters : waiters[i] = r
          THEN \E i \in DOMAIN waiters :
                  waiters[i] = r /\ waiters' = RemoveAt(waiters, i)
          ELSE UNCHANGED waiters

(* Only a pump that waits for pace is cancelled.                           *)
MutantCancelPump(r) ==
  /\ pump' = [pump EXCEPT ![r] = IF @ = "pacing" THEN "done" ELSE @]
  /\ UNCHANGED gen

(* pump.cancel(): a pump in __anext__ throws CancelledError into the       *)
(* generator, which unwinds before the pump is done; a pump that waits for *)
(* pace drops its event and leaves the generator suspended.  The loop      *)
(* delivers it before the driver can go on.                                *)
CancelPump(r) ==
  /\ pump' = [pump EXCEPT ![r] = IF @ = "pacing" THEN "done" ELSE @]
  /\ gen'  = [gen EXCEPT ![r] = IF pump[r] = "reading" THEN "unwinding" ELSE @]

-----------------------------------------------------------------------------
(* guard(): the consumer asks for the first event.                         *)
GuardStart(r) ==
  /\ guard[r] = "idle"
  /\ guard'  = [guard EXCEPT ![r] = "waiting"]
  /\ driver' = [driver EXCEPT ![r] = "created"]
  /\ UNCHANGED <<item, taken, outcome, cancelling, slotVars, channelVars, streamVars>>

GuardTakeEvent(r) ==
  /\ guard[r] = "waiting"
  /\ queue[r] # <<>>
  /\ Head(queue[r]) \in Kinds
  /\ guard' = [guard EXCEPT ![r] = "yielded"]
  /\ item'  = [item EXCEPT ![r] = Head(queue[r])]
  /\ queue' = [queue EXCEPT ![r] = Tail(@)]
  /\ taken' = [taken EXCEPT ![r] = @ + 1]
  /\ UNCHANGED <<driverVars, slotVars, pace, streamVars>>

(* The guard returns or raises what the driver reported; its finally block *)
(* waits for the driver first.                                             *)
GuardTakeOutcome(r) ==
  /\ guard[r] = "waiting"
  /\ queue[r] # <<>>
  /\ Head(queue[r]) \in Outcomes
  /\ guard' = [guard EXCEPT ![r] = "closing"]
  /\ item'  = [item EXCEPT ![r] = Head(queue[r])]
  /\ queue' = [queue EXCEPT ![r] = Tail(@)]
  /\ CancelDriver(r)
  /\ UNCHANGED <<taken, driver, outcome, sem, granted, active, queued, pace, streamVars>>

GuardFinish(r) ==
  /\ guard[r] = "closing"
  /\ driver[r] = "done"
  /\ guard' = [guard EXCEPT ![r] = "done"]
  /\ UNCHANGED <<item, taken, driverVars, slotVars, channelVars, streamVars>>

-----------------------------------------------------------------------------
(* The consumer.  It may stop at any point: abandoning the stream is the   *)
(* behaviour in which none of these actions happens any more.              *)

(* The permit is not given back.                                           *)
MutantConsumerNext(r) ==
  /\ guard[r] = "yielded"
  /\ guard' = [guard EXCEPT ![r] = "waiting"]
  /\ UNCHANGED <<item, taken, driverVars, slotVars, channelVars, streamVars>>

(* Asking for the next event releases the pace semaphore.                  *)
ConsumerNext(r) ==
  /\ guard[r] = "yielded"
  /\ guard' = [guard EXCEPT ![r] = "waiting"]
  /\ pace'  = [pace EXCEPT ![r] = @ + 1]
  /\ UNCHANGED <<item, taken, driverVars, slotVars, queue, streamVars>>

(* aclose() of the suspended guard, by the consumer or by the finalizer of *)
(* an abandoned guard.                                                     *)
ConsumerClose(r) ==
  /\ guard[r] = "yielded"
  /\ guard' = [guard EXCEPT ![r] = "closing"]
  /\ item'  = [item EXCEPT ![r] = "closed"]
  /\ pace'  = [pace EXCEPT ![r] = @ + 1]
  /\ CancelDriver(r)
  /\ UNCHANGED <<taken, driver, outcome, sem, granted, active, queued, queue, streamVars>>

(* The consumer's task is cancelled inside queue.get().                    *)
ConsumerCancel(r) ==
  /\ guard[r] = "waiting"
  /\ guard' = [guard EXCEPT ![r] = "closing"]
  /\ item'  = [item EXCEPT ![r] = "closed"]
  /\ CancelDriver(r)
  /\ UNCHANGED <<taken, driver, outcome, sem, granted, active, queued, channelVars, streamVars>>

(* ... or inside the wait for the driver, which then ends at once.         *)
ConsumerCancelClosing(r) ==
  /\ guard[r] = "closing"
  /\ guard' = [guard EXCEPT ![r] = "done"]
  /\ item'  = [item EXCEPT ![r] = "closed"]
  /\ UNCHANGED <<taken, driverVars, slotVars, channelVars, streamVars>>

-----------------------------------------------------------------------------
(* The slot is taken without looking at the semaphore's value.             *)
MutantAcquireAtOnce(r) ==
  /\ driver[r] = "created"
  /\ ~cancelling[r]
  /\ sem'    = sem - 1
  /\ active' = active + 1
  /\ driver' = [driver EXCEPT ![r] = "pumping"]
  /\ pump'   = [pump EXCEPT ![r] = "created"]
  /\ UNCHANGED <<consumerVars, outcome, cancelling, granted, waiters, queued,
                 channelVars, fate, gen, produced, closer>>

(* The driver, _drive and acquire().  The first step takes a free slot ... *)
AcquireAtOnce(r) ==
  /\ driver[r] = "created"
  /\ ~cancelling[r]
  /\ sem > 0 /\ waiters = <<>> /\ granted = {}
  /\ sem'    = sem - 1
  /\ active' = active + 1
  /\ driver' = [driver EXCEPT ![r] = "pumping"]
  /\ pump'   = [pump EXCEPT ![r] = "created"]
  /\ UNCHANGED <<consumerVars, outcome, cancelling, granted, waiters, queued,
                 channelVars, fate, gen, produced, closer>>

(* ... or joins the waiters, behind those that were granted one too.       *)
AcquireWait(r) ==
  /\ driver[r] = "created"
  /\ ~cancelling[r]
  /\ sem = 0 \/ waiters # <<>> \/ granted # {}
  /\ waiters' = Append(waiters, r)
  /\ queued'  = queued + 1
  /\ driver'  = [driver EXCEPT ![r] = "queued"]
  /\ UNCHANGED <<consumerVars, outcome, cancelling, sem, granted, active,
                 channelVars, streamVars>>

(* A waiter that resumes wakes nobody, although it was in the way of those *)
(* that joined behind it while a slot was free.                            *)
MutantAcquireResumed(r) ==
  /\ r \in granted /\ ~cancelling[r]
  /\ granted' = granted \ {r}
  /\ queued' = queued - 1
  /\ active' = active + 1
  /\ driver' = [driver EXCEPT ![r] = "pumping"]
  /\ pump'   = [pump EXCEPT ![r] = "created"]
  /\ UNCHANGED <<consumerVars, outcome, cancelling, sem, waiters, channelVars,
                 fate, gen, produced, closer>>

(* A waiter that was granted a slot resumes; if the semaphore is not       *)
(* exhausted it wakes the next one.                                        *)
AcquireResumed(r) ==
  /\ r \in granted
  /\ ~cancelling[r]
  /\ IF sem > 0 /\ waiters # <<>>
     THEN /\ sem' = sem - 1
          /\ granted' = (granted \ {r}) \cup {Head(waiters)}
          /\ waiters' = Tail(waiters)
     ELSE /\ granted' = granted \ {r}
          /\ UNCHANGED <<sem, waiters>>
  /\ queued' = queued - 1
  /\ active' = active + 1
  /\ driver' = [driver EXCEPT ![r] = "pumping"]
  /\ pump'   = [pump EXCEPT ![r] = "created"]
  /\ UNCHANGED <<consumerVars, outcome, cancelling, channelVars, fate, gen, produced, closer>>

(* The outcome is reported before the cleanup.                             *)
MutantPumpEndedEarly(r) ==
  /\ driver[r] = "pumping" /\ ~cancelling[r] /\ pump[r] = "done"
  /\ queue'  = [queue EXCEPT ![r] = Append(@, fate[r])]
  /\ driver' = [driver EXCEPT ![r] = "reapPump"]
  /\ UNCHANGED <<consumerVars, outcome, cancelling, slotVars, pace, streamVars>>

(* The exception of the pump is swallowed.                                 *)
MutantPumpEndedSilent(r) ==
  /\ driver[r] = "pumping" /\ ~cancelling[r] /\ pump[r] = "done"
  /\ outcome' = [outcome EXCEPT ![r] = IF fate[r] = "end" THEN "end" ELSE "none"]
  /\ driver'  = [driver EXCEPT ![r] = "reapPump"]
  /\ UNCHANGED <<consumerVars, cancelling, slotVars, channelVars, streamVars>>

(* The pump was done when asyncio.wait returned.  The exception() of a     *)
(* cancelled pump raises CancelledError, which _drive takes for its own    *)
(* cancellation: it reports nothing.                                       *)
PumpEnded(r) ==
  /\ driver[r] = "pumping"
  /\ ~cancelling[r]
  /\ pump[r] = "done"
  /\ outcome' = [outcome EXCEPT ![r] = IF fate[r] = "cancelled" THEN "none" ELSE fate[r]]
  /\ driver'  = [driver EXCEPT ![r] = "reapPump"]
  /\ UNCHANGED <<consumerVars, cancelling, slotVars, channelVars, streamVars>>

(* The turn exceeded max_turn_seconds.  The pump has started: its first    *)
(* step was scheduled before the timer.                                    *)
Deadline(r) ==
  /\ driver[r] = "pumping"
  /\ ~cancelling[r]
  /\ pump[r] \in {"reading", "pacing"}
  /\ outcome' = [outcome EXCEPT ![r] = "deadline"]
  /\ driver'  = [driver EXCEPT ![r] = "reapPump"]
  /\ CancelPump(r)
  /\ UNCHANGED <<consumerVars, cancelling, slotVars, channelVars, fate, produced, closer>>

(* The generator of a settled pump is not closed.                          *)
MutantReapPump(r) ==
  /\ driver[r] = "reapPump" /\ ~cancelling[r] /\ pump[r] = "done"
  /\ driver' = [driver EXCEPT ![r] = "reapClose"]
  /\ UNCHANGED <<consumerVars, outcome, cancelling, slotVars, channelVars, streamVars>>

(* _reap, first wait: the pump is done, so the generator can be closed.    *)
ReapPump(r) ==
  /\ driver[r] = "reapPump"
  /\ ~cancelling[r]
  /\ pump[r] = "done"
  /\ closer' = [closer EXCEPT ![r] = "created"]
  /\ driver' = [driver EXCEPT ![r] = "reapClose"]
  /\ UNCHANGED <<consumerVars, outcome, cancelling, slotVars, channelVars,
                 pump, fate, gen, produced>>

(* The outcome overtakes the events that are still in the queue.           *)
MutantLeaveSlot(r, out) ==
  /\ driver' = [driver EXCEPT ![r] = "done"]
  /\ active' = active - 1
  /\ ReleaseSlot(granted)
  /\ queue'  = IF out = "none" THEN queue ELSE [queue EXCEPT ![r] = <<out>> \o @]

(* The end of _drive: the slot is released, then the outcome reported,     *)
(* and the task is done, all in one step of the loop.                      *)
LeaveSlot(r, out) ==
  /\ driver' = [driver EXCEPT ![r] = "done"]
  /\ active' = active - 1
  /\ ReleaseSlot(granted)
  /\ queue'  = IF out = "none" THEN queue ELSE [queue EXCEPT ![r] = Append(@, out)]

(* The first wait has no timeout.                                          *)
MutantReapPumpExpired(r) == ReapPump(r)

(* The first grace expired: a callback will close the generator once the   *)
(* pump has settled.                                                       *)
ReapPumpExpired(r) ==
  /\ driver[r] = "reapPump"
  /\ ~cancelling[r]
  /\ pump[r] # "done"
  /\ closer' = [closer EXCEPT ![r] = "armed"]
  /\ LeaveSlot(r, outcome[r])
  /\ UNCHANGED <<consumerVars, outcome, cancelling, queued, pace, pump, fate, gen, produced>>

(* The second wait has no timeout.                                         *)
MutantReapClose(r) ==
  /\ driver[r] = "reapClose" /\ ~cancelling[r] /\ closer[r] = "done"
  /\ LeaveSlot(r, outcome[r])
  /\ UNCHANGED <<consumerVars, outcome, cancelling, queued, pace, streamVars>>

(* _reap, second wait: it returns when the close is done or the second     *)
(* grace has expired, whichever comes first.                               *)
ReapClose(r) ==
  /\ driver[r] = "reapClose"
  /\ ~cancelling[r]
  /\ LeaveSlot(r, outcome[r])
  /\ UNCHANGED <<consumerVars, outcome, cancelling, queued, pace, streamVars>>

-----------------------------------------------------------------------------
(* Delivery of driver.cancel(), by where it finds the driver.              *)
CancelledUnstarted(r) ==
  /\ cancelling[r]
  /\ driver[r] = "created"
  /\ driver'     = [driver EXCEPT ![r] = "done"]
  /\ cancelling' = [cancelling EXCEPT ![r] = FALSE]
  /\ UNCHANGED <<consumerVars, outcome, slotVars, channelVars, streamVars>>

(* A cancelled waiter keeps the slot it was granted.                       *)
MutantCancelledQueued(r) ==
  /\ cancelling[r] /\ driver[r] = "queued"
  /\ granted' = granted \ {r}
  /\ queued'     = queued - 1
  /\ driver'     = [driver EXCEPT ![r] = "done"]
  /\ cancelling' = [cancelling EXCEPT ![r] = FALSE]
  /\ UNCHANGED <<consumerVars, outcome, sem, waiters, active, channelVars, streamVars>>

(* A cancelled waiter is still counted as queued.                          *)
MutantCancelledQueuedCount(r) ==
  /\ cancelling[r] /\ driver[r] = "queued"
  /\ IF r \in granted THEN ReleaseSlot(granted \ {r}) ELSE UNCHANGED <<sem, granted, waiters>>
  /\ driver'     = [driver EXCEPT ![r] = "done"]
  /\ cancelling' = [cancelling EXCEPT ![r] = FALSE]
  /\ UNCHANGED <<consumerVars, outcome, active, queued, channelVars, streamVars>>

(* A waiter that already owned a slot passes it on.                        *)
CancelledQueued(r) ==
  /\ cancelling[r]
  /\ driver[r] = "queued"
  /\ IF r \in granted THEN ReleaseSlot(granted \ {r}) ELSE UNCHANGED <<sem, granted, waiters>>
  /\ queued'     = queued - 1
  /\ driver'     = [driver EXCEPT ![r] = "done"]
  /\ cancelling' = [cancelling EXCEPT ![r] = FALSE]
  /\ UNCHANGED <<consumerVars, outcome, active, channelVars, streamVars>>

(* The consumer is gone: cancel the pump and clean up, reporting nothing.  *)
CancelledPumping(r) ==
  /\ cancelling[r]
  /\ driver[r] = "pumping"
  /\ pump[r] # "created"
  /\ driver'     = [driver EXCEPT ![r] = "reapPump"]
  /\ cancelling' = [cancelling EXCEPT ![r] = FALSE]
  /\ CancelPump(r)
  /\ UNCHANGED <<consumerVars, outcome, slotVars, channelVars, fate, produced, closer>>

(* _reap is cut short: what it had not done yet is not done.               *)
CancelledReaping(r) ==
  /\ cancelling[r]
  /\ driver[r] \in {"reapPump", "reapClose"}
  /\ cancelling' = [cancelling EXCEPT ![r] = FALSE]
  /\ LeaveSlot(r, "none")
  /\ UNCHANGED <<consumerVars, outcome, queued, pace, streamVars>>

-----------------------------------------------------------------------------
(* The pump, _pump, and the generator it reads.                            *)
PumpStart(r) ==
  /\ pump[r] = "created"
  /\ pump' = [pump EXCEPT ![r] = "reading"]
  /\ gen'  = [gen EXCEPT ![r] = "running"]
  /\ UNCHANGED <<consumerVars, driverVars, slotVars, channelVars, fate, produced, closer>>

(* The generator emits an event.  With pace to spare the pump hands it on  *)
(* and reads again, else it holds the event until the consumer asks.       *)
StreamEmit(r, k) ==
  /\ pump[r] = "reading" /\ gen[r] = "running"
  /\ produced[r] < MaxEvents
  /\ produced' = [produced EXCEPT ![r] = @ + 1]
  /\ IF pace[r] > 0
     THEN /\ pace'  = [pace EXCEPT ![r] = @ - 1]
          /\ queue' = [queue EXCEPT ![r] = Append(@, k)]
          /\ UNCHANGED <<pump, gen>>
     ELSE /\ pump' = [pump EXCEPT ![r] = "pacing"]
          /\ gen'  = [gen EXCEPT ![r] = "suspended"]
          /\ UNCHANGED channelVars
  /\ UNCHANGED <<consumerVars, driverVars, slotVars, fate, closer>>

(* The pump does not wait for pace.                                        *)
MutantPumpPaced(r, k) ==
  /\ pump[r] = "pacing"
  /\ pace'  = [pace EXCEPT ![r] = @ - 1]
  /\ queue' = [queue EXCEPT ![r] = Append(@, k)]
  /\ pump'  = [pump EXCEPT ![r] = "reading"]
  /\ gen'   = [gen EXCEPT ![r] = "running"]
  /\ UNCHANGED <<consumerVars, driverVars, slotVars, fate, produced, closer>>

(* The held event, of whatever kind, is handed on.                         *)
PumpPaced(r, k) ==
  /\ pump[r] = "pacing"
  /\ pace[r] > 0
  /\ pace'  = [pace EXCEPT ![r] = @ - 1]
  /\ queue' = [queue EXCEPT ![r] = Append(@, k)]
  /\ pump'  = [pump EXCEPT ![r] = "reading"]
  /\ gen'   = [gen EXCEPT ![r] = "running"]
  /\ UNCHANGED <<consumerVars, driverVars, slotVars, fate, produced, closer>>

(* The stream ends by itself: exhausted, or with an exception.             *)
StreamEnd(r, f) ==
  /\ pump[r] = "reading" /\ gen[r] = "running"
  /\ pump' = [pump EXCEPT ![r] = "done"]
  /\ fate' = [fate EXCEPT ![r] = f]
  /\ gen'  = [gen EXCEPT ![r] = "closed"]
  /\ UNCHANGED <<consumerVars, driverVars, slotVars, channelVars, produced, closer>>

(* The generator's own cleanup is over: whoever was awaiting it goes on.   *)
StreamUnwound(r) ==
  /\ gen[r] = "unwinding"
  /\ gen'    = [gen EXCEPT ![r] = "closed"]
  /\ pump'   = [pump EXCEPT ![r] = IF @ = "reading" THEN "done" ELSE @]
  /\ closer' = [closer EXCEPT ![r] = IF @ = "closing" THEN "done" ELSE @]
  /\ UNCHANGED <<consumerVars, driverVars, slotVars, channelVars, fate, produced>>

-----------------------------------------------------------------------------
(* Background cleanup.  _close_when_settled runs once the pump is done.    *)
CloseWhenSettled(r) ==
  /\ closer[r] = "armed"
  /\ pump[r] = "done"
  /\ closer' = [closer EXCEPT ![r] = "created"]
  /\ UNCHANGED <<consumerVars, driverVars, slotVars, channelVars, pump, fate, gen, produced>>

(* _aclose_quietly: GeneratorExit in a suspended generator, nothing to do  *)
(* for one that has closed.                                                *)
CloserStart(r) ==
  /\ closer[r] = "created"
  /\ closer' = [closer EXCEPT ![r] = IF gen[r] = "suspended" THEN "closing" ELSE "done"]
  /\ gen'    = [gen EXCEPT ![r] = IF @ = "suspended" THEN "unwinding" ELSE @]
  /\ UNCHANGED <<consumerVars, driverVars, slotVars, channelVars, pump, fate, produced>>

(* The loop's finalizer hook closes a suspended generator nobody refers to *)
(* any more.                                                               *)
Finalize(r) ==
  /\ guard[r] = "done" /\ driver[r] = "done" /\ pump[r] = "done"
  /\ gen[r] = "suspended"
  /\ closer[r] = "none"
  /\ closer' = [closer EXCEPT ![r] = "created"]
  /\ UNCHANGED <<consumerVars, driverVars, slotVars, channelVars, pump, fate, gen, produced>>

-----------------------------------------------------------------------------
GuardTask(r) == GuardTakeEvent(r) \/ GuardTakeOutcome(r) \/ GuardFinish(r)

DriverTask(r) ==
  \/ AcquireAtOnce(r) \/ AcquireWait(r) \/ AcquireResumed(r)
  \/ PumpEnded(r) \/ Deadline(r)
  \/ ReapPump(r) \/ ReapPumpExpired(r) \/ ReapClose(r)
  \/ CancelledUnstarted(r) \/ CancelledQueued(r)
  \/ CancelledPumping(r) \/ CancelledReaping(r)

PumpTask(r) == PumpStart(r) \/ \E k \in Kinds : PumpPaced(r, k)

CloserTask(r) == CloseWhenSettled(r) \/ CloserStart(r) \/ Finalize(r)

Consumer(r) ==
  \/ GuardStart(r) \/ ConsumerNext(r)
  \/ ConsumerClose(r) \/ ConsumerCancel(r) \/ ConsumerCancelClosing(r)

Stream(r) ==
  \/ \E k \in Kinds : StreamEmit(r, k)
  \/ \E f \in {"end"} \cup Errors \cup (IF SelfCancels THEN {"cancelled"} ELSE {}) :
        StreamEnd(r, f)

(* What the library and the loop do, whatever the consumer does.           *)
Loop(r) ==
  GuardTask(r) \/ DriverTask(r) \/ PumpTask(r) \/ CloserTask(r)
    \/ Stream(r) \/ StreamUnwound(r)

(* Every guard() call is over and nothing is left running.                 *)
Terminated ==
  /\ \A r \in Runs : /\ guard[r] = "done" /\ driver[r] = "done"
                     /\ gen[r] \in {"unstarted", "suspended", "closed"}
                     /\ closer[r] \in {"none", "done"}
  /\ UNCHANGED vars

Next == (\E r \in Runs : Loop(r) \/ Consumer(r)) \/ Terminated

Spec == Init /\ [][Next]_vars

(* asyncio runs every ready task and every timer, so each task of the      *)
(* library is fair.  The consumer and the stream are not.                  *)
Fairness ==
  \A r \in Runs : /\ WF_vars(GuardTask(r)) /\ WF_vars(DriverTask(r))
                  /\ WF_vars(PumpTask(r)) /\ WF_vars(CloserTask(r))

FairSpec == Spec /\ Fairness

-----------------------------------------------------------------------------
TypeOK ==
  /\ guard \in [Runs -> {"idle", "waiting", "yielded", "closing", "done"}]
  /\ item \in [Runs -> {"none", "closed"} \cup Kinds \cup Outcomes]
  /\ taken \in [Runs -> Nat]
  /\ driver \in [Runs -> {"none", "created", "queued", "done"} \cup HoldingStates]
  /\ outcome \in [Runs -> {"none"} \cup Outcomes]
  /\ cancelling \in [Runs -> BOOLEAN]
  /\ sem \in Nat
  /\ granted \subseteq Runs
  /\ waiters \in Seq(Runs)
  /\ active \in Int
  /\ queued \in Int
  /\ pace \in [Runs -> Nat]
  /\ queue \in [Runs -> Seq(Kinds \cup Outcomes)]
  /\ pump \in [Runs -> {"none", "created", "reading", "pacing", "done"}]
  /\ fate \in [Runs -> {"none", "end", "cancelled"} \cup Errors]
  /\ gen \in [Runs -> {"unstarted", "closed"} \cup LiveStates]
  /\ produced \in [Runs -> Nat]
  /\ closer \in [Runs -> {"none", "armed", "created", "closing", "done"}]

(* No slot is leaked or duplicated: the free slots, those granted to a     *)
(* waiter that has not resumed and those of the drivers inside acquire()   *)
(* always add up to the cap, whichever way a run is cancelled.             *)
SlotsAccounted ==
  sem + Cardinality(granted) + Cardinality(Holders) = MaxConcurrency

(* health() is exact: _active counts the runs that hold a slot and _queued *)
(* those that wait for one, also after cancellations.                      *)
HealthExact ==
  active = Cardinality(Holders) /\ queued = Cardinality(Queuers)

(* A slot is never free while runs wait for it, unless a run that was      *)
(* woken for another one has still to resume and will wake the next: runs  *)
(* that come meanwhile queue behind it although a slot is free.            *)
NoLostWakeup ==
  sem > 0 /\ waiters # <<>> => granted # {}

(* An adapter stream makes progress only inside its slot: whatever outlives*)
(* the slot is only ever unwinding.                                        *)
NoWorkWithoutSlot ==
  \A r \in Runs : gen[r] = "running" => r \in Holders

(* The events in the hand-off queue of a run.                              *)
Buffered(r) == {i \in DOMAIN queue[r] : queue[r][i] \in Kinds}

(* The pace permit of a run is never lost or duplicated: it is either      *)
(* free, or in the queue with an event, or with the consumer.              *)
OnePermit ==
  \A r \in Runs :
    pace[r] + Cardinality(Buffered(r)) + (IF guard[r] = "yielded" THEN 1 ELSE 0) = 1

(* guard()'s comment: the adapter cannot run arbitrarily far ahead of the  *)
(* consumer.  It is at most two events ahead of a consumer that asks and   *)
(* one ahead of a consumer that has not come back for more.                *)
LookAhead ==
  \A r \in Runs : produced[r] <= taken[r] + (IF guard[r] = "yielded" THEN 1 ELSE 2)

(* A run that ends normally has delivered every event of its stream.       *)
NormalEndIsComplete ==
  \A r \in Runs : item[r] = "end" => taken[r] = produced[r] /\ fate[r] = "end"

(* Once a consumer can see how its run ended, the slot is free and the     *)
(* adapter generator is closed or about to be.                             *)
OutcomeMeansReaped ==
  \A r \in Runs :
    (item[r] \in Outcomes \/ \E i \in DOMAIN queue[r] : queue[r][i] \in Outcomes)
      => driver[r] = "done" /\ closer[r] # "none" /\ gen[r] # "running"

(* guard()'s docstring: the adapter generator is still closed when the     *)
(* consumer stops.  A driver that is done has left no generator behind.    *)
NothingLeftOpen ==
  \A r \in Runs : driver[r] = "done" /\ gen[r] = "suspended" => closer[r] # "none"

(* README and CONTRIBUTING: the semaphore caps live subprocesses.          *)
LiveWithinCap == Cardinality(Live) <= MaxConcurrency

(* A consumer that waits for an event or an outcome gets one, even when    *)
(* the adapter hangs and every other consumer has walked away.             *)
ConsumerAnswered ==
  \A r \in Runs : guard[r] = "waiting" ~> guard[r] # "waiting"

(* Closing a guard terminates ("this cannot hang"), although the adapter's *)
(* cleanup may never end.                                                  *)
CloseTerminates ==
  \A r \in Runs : guard[r] = "closing" ~> guard[r] = "done"

(* Every adapter generator that was started is closed in the end.  (Not of *)
(* the governor alone: of the composition with an adapter, see Pipeline.)  *)
StreamReaped ==
  \A r \in Runs : gen[r] \in LiveStates ~> gen[r] = "closed"

(* What the governor promises of slots: see SlotPool.                      *)
Pool == INSTANCE SlotPool WITH waiting <- Queuers, holding <- Holders
ImplementsPool == Pool!Spec
ServesPool == Pool!FairSpec
=============================================================================
