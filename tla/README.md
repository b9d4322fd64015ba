# anycli: specification, model checking and proofs

anycli runs agent CLIs (today Claude Code) from Python: `Bridge.run` sends a prompt,
a governor bounds how many CLI subprocesses work at once and how long a turn may take, an
adapter drives the CLI's SDK, and a normalizer turns its events into public chunks. This
directory holds TLA+ modules of those parts, TLC configurations that check them on small
instances, and TLAPS proofs of what holds for every instance. Paths below are relative to
`src/`.

    tlc -config GovernorSlots.cfg MCGovernor       # any run of PROJECT.json
    tlapm TurnProofs.tla                           # any module named *Proofs

## 1. Inventory

| part | state it keeps | operations | talks to |
|---|---|---|---|
| `Bridge` (`anycli/bridge.py`) | per call: attempt number, `yielded`, last error | `run` buffered or streamed, retry with backoff, closing of the pipeline | iterates the normalizer, which iterates the governor's `guard()` |
| streaming normalizer (`anycli/middleware/streaming.py`) | text parts, session id, usage by message id, anonymous usages | `normalize`: one generator per attempt | iterates `guard()`, closes it in `finally` |
| `ConcurrencyGovernor` (`anycli/middleware/concurrency.py`) | one semaphore, `_active`, `_queued`; per turn a driver task, a pump task, a hand-off queue, a pace semaphore, background closes | `guard`, `acquire`, `_drive`, `_pump`, `_reap`, `_aclose_quietly` | iterates, cancels and closes the adapter generator |
| Claude Code adapter (`anycli/adapters/claude_code.py`) | per turn: the read in flight, rate-limit flags, the shutdown task | `run_once`, `_shutdown_stream`, classification of errors; `check_auth` | iterates and closes the SDK's `query()` generator (the CLI subprocess) |
| adapter contract (`anycli/adapters/base.py`) | none | event kinds; "the subprocess must be terminated when the iterator is exhausted or closed" | |
| errors and types (`anycli/errors.py`, `types.py`) | none | the hierarchy the retry policy tells apart; frozen data classes | |
| doctor (`anycli/doctor.py`) | none | `check_env`: findings about the environment and the credentials directory | called by `Bridge.__init__` |
| sessions | announced for v0.2, no code | | |

Everything runs on one asyncio loop, so two parties interleave exactly at their suspension
points. What makes that hard: a turn has five parties (consumer, driver, pump, adapter
generator, background close), each of which may be suspended when another is cancelled;
consumers stop anywhere and owe no progress; adapter streams hang, fail or clean up for
ever; three timers (turn deadline, cleanup grace, the adapter's own graces) race with all
of it; and a semaphore slot may be granted to a task that is cancelled before it resumes.

What makes each part correct:

* governor: slots are never leaked, duplicated or left free while runs sleep; `health()`
  is exact; a turn works only inside its slot; the deadline frees the slot of a hung or
  abandoned turn; events arrive in order, at consumer pace, outcome last and only after
  cleanup; closing ends in bounded time and the generator is closed in the end.
* Bridge: only transient failures are retried, never after a chunk was shown; a Result
  is final; one slot per call; every failure is a typed error.
* normalizer: chunks in the order of the events, one Result, last, faithful to them.
* the layers together: the deadline and the graces of governor and adapter, taken together,
  bound how long a slot is held and how long a stopped agent works on.
* credentials: `check_auth` reports what the CLI would use, and the doctor agrees with it.
* adapter: errors are classified as documented; no event is lost; the SDK is never entered
  twice or cancelled raw while a read may still settle; its stream is over in the end, closed
  unless a hanging read had to be cancelled.

`PROJECT.json` lists the hazards behind these, each at the line where it bites.

## 2. Modules and their correspondence to the code

* **`SlotPool`**: what `acquire()` promises: at most `MaxConcurrency` holders; who waits
  stops waiting; who holds gives back.
* **`Governor`**: the governor and the `guard()` calls that share it. Each member of `Runs`
  is one call. An action is what one task executes between two suspension points:
  `Guard*` is the body of `guard()`, `Consumer*` what its consumer does to it, `Acquire*`,
  `PumpEnded`, `Deadline`, `Reap*` and `Cancelled*` are the driver, `Pump*` and `Stream*`
  the pump and the generator it reads, `Clos*` the background close. `asyncio.Semaphore` is
  modelled from CPython 3.11, with its queue of waiters, the hand-over in `release()` and
  the loss of a cancelled waiter's place; `granted` are the waiters whose future has been
  resolved but whose task has not yet run.
* **`Bridge`** extends `Governor`: `Runs` are pairs of a call and an attempt, and the calls
  are the consumers. It contains what `normalize` does to its source (reads on, stops after
  the Result, raises) and the retry loops of `run` and `_run_stream`. A call without a working
  directory is refused (`CallRefused`).
* **`Normalizer`**: what `normalize` computes, checked against definitions over the whole
  history of events.
* **`AdapterStream`**: the contract between governor and adapter: a stream may hang while it
  works, but closed or cancelled it is over in bounded time.
* **`ClaudeCodeAdapter`**: `run_once`, the shielded read and `_shutdown_stream`, over an SDK
  that may hang. A message is its type, the marks the adapter looks for and the number of its
  tool blocks; the mark `malformed` is a usage that `int()` refuses or a delta that is no dict
  (`Unusable`). An SDK stream that ends is `closed`, when its own cleanup has terminated or killed
  the CLI, or `aborted`, when it was unwound by a raw cancellation, which skips that.
* **`Pipeline`** composes the two with a clock: it extends `Governor` for one run and
  instantiates `ClaudeCodeAdapter`, whose `gen` is the adapter's own view (`adapter`) of the
  generator that the governor knows as `gen[Run]`. What is one step of the loop in the code, as
  when the pump enters the generator, cancels it or gets its event back, is a joint action of
  both (`PumpEnters`, `PumpGoesOn`, `PumpStopped`, `GeneratorLeaves`, `CloserEnters`); every
  other action of one leaves the other alone (`Governs`, `Adapts`). The environment that each
  of the two assumes is thereby replaced by the other. Timers count units of two seconds:
  1 for `_SETTLE_GRACE_SECONDS`, 5 for `_CLOSE_GRACE_SECONDS` and `CLEANUP_GRACE_SECONDS`,
  `MaxTurn` for the turn. `Tick` needs `~Due`: what the library computes takes no time, while
  consumer, SDK and garbage collector may act before or after any tick. `Due` names, task by
  task, what is ready or has its timer expired. On every state of the instance it is
  `ENABLED Library`, which cannot be reasoned about. Were a case missing from it, time could
  pass while a task is ready, which only adds behaviours; were one too many, time would stop,
  which the liveness properties would show.
* **`AuthEnvironment`**: `check_auth` up to its await, the worker thread's look for the file, the
  rest; `check_env` as an operator; somebody who changes variables and files meanwhile. A
  value is unset (or empty), blank, padded with white space, or set: all that the two functions
  tell apart. Only `check_auth` strips, so that a blank or padded `CLAUDE_CONFIG_DIR` names another
  directory for the doctor (`literal`).
* **`MC*`**: sets and symmetry for TLC.
* **`GovernorProofs`** (types and slots) and **`TurnProofs`**, which extends it (what happens
  inside a turn): theorems about `Governor`. **`BridgeProofs`** extends `Bridge` and
  `TurnProofs`; **`AdapterProofs`** is about `ClaudeCodeAdapter`, **`NormalizerProofs`** about
  `Normalizer`, **`AuthProofs`** about `AuthEnvironment`. **`PipelineProofs`** extends `Pipeline`
  and `TurnProofs` and instantiates `AdapterProofs`. **`FoldProofs`** has the lemmas about
  sums and flattened sequences.

Definitions named `Mutant*` are not part of any specification: each is a plausible slip of
the definition it precedes, which the property listed with it in `PROJECT.json` notices.

Abstractions, and why they are sound:

* Timers are nondeterministic choices: a deadline may fire whenever its wait is pending.
  This allows more than the clock does, with two exceptions that are orders the loop
  guarantees: the pump has made its first step before its driver's deadline or
  cancellation (it was scheduled earlier, and the queue of ready callbacks is first in, first out), and
  the adapter's 10 s grace does not expire before its two 2 s graces. `Pipeline` has the clock
  and neither exception.
* `task.cancel()` of the pump is delivered in the same step; the loop runs the pump before
  the driver's next wait can end. Cancellation of the driver is a separate step
  (`cancelling`), since other tasks may run in between: that is where slots can be lost.
* An event is its kind; in `Bridge` the kind says what the normalizer does with it. An event
  the pump holds while it waits for pace gets its kind when it is handed on.
* An exception is its class and whether its text carries 429 or 529: in `Bridge` the constant
  `Statuses` is the set of errors that do, and `IsTransient` looks at it for `AdapterErrors`
  only, the watchdog's among them (whose text holds `max_turn_seconds`). `bridge_retry` puts
  a plan-limit error with such a text beside an adapter error with one;
  `TransientAdapterError` takes the same path as the latter.
* A `Result` that `run` holds is not lost by a failure to close the pipeline, because
  `_aclose` suppresses it; a cancellation there is `UserCancel`.

## 3. Runs

| run | instance | question |
|---|---|---|
| `governor_turns` | 2 turns, 1 slot, 3 events | is one turn right under every interleaving: pace, look-ahead, order, completeness, outcome after cleanup |
| `governor_slots` | 4 turns, 2 slots, no events, 2 turns never cancelled | slots, counters, wakeups, refinement of `SlotPool` |
| `governor_answers` | 2 turns, 1 slot, fair loop | is every waiting consumer answered, every close over, every waiter served |
| `bridge_retry` | 1 call, 2 attempts, 2 events, buffered or streamed | retry policy, finality of the Result, one slot per call; with a fair loop: does a buffered call end although its stream may hang in every attempt |
| `normalizer` | every sequence of 4 events | order, single terminal Result, faithful usage and text |
| `claude_code_adapter` | 20 kinds of message, sequences of 3 | classification, no lost event, shutdown, contract |
| `pipeline` | 1 turn of 3 units (6 s), up to 3 messages of 4 kinds, clock | is the slot held for deadline and one grace at most, is a stopped agent told within 2 s, do the graces of the layers fit, is only a hung read cancelled raw, are generator and SDK stream over in the end |
| `auth_environment` | all environments and directories, any number of changes | was the report right at some moment of the call, do doctor and `check_auth` agree |

and four that find a disagreement (section 6).

Why the bounds are enough. Two turns on one slot contain every pair of parties of one turn
and one competitor. Two waiters at once need as many runs more than slots, and a wakeup that is
passed on needs two slots: hence four turns on two slots. There a slot is handed to a waiter while
another sleeps, a newcomer queues behind them although a slot is free, a woken run wakes the next
one, and a granted run that is cancelled hands its slot on. To keep that instance small two of the
four, the `Steady` ones, are never cancelled by their consumers; they meet the deadline all the
same, and so occupy, wait and leave. They stand for any runs of that behaviour, so nothing a
cancellation can do to two of the runs at once is lost, only what it could do to three or four: for
these there are the theorems of section 5, which have no bound. Slots depend neither on events nor
on what a stream fails with, so `governor_slots` has none of either. Three events exceed the
look-ahead of the pump (one event in the queue, one in its hand) by one, so that pace permits
travel once around. `bridge_retry` has two attempts of the code's three (`_MAX_ATTEMPTS`): one that
is retried and one that is the last, which is what the policy tells apart; a third multiplies the
states beyond what can be checked, and the theorems hold for any number. The watchdog's error is
among the retriable ones there, so that a stream may hang in each attempt and the call must end
all the same; other callers, who may hold its slot, are the subject of `governor_answers`. Three messages are the longest dependency of the adapter: a
rejection, a later event with another reset time, a failing result. Symmetry is used for
safety only, never with liveness. In `pipeline` one run is enough because the properties are
about the two layers of a single turn; three units are a deadline longer than the settle
grace and shorter than the others; three messages make up to four events, so that the pump,
the consumer and the generator can each be the one that waits.

What the timed run adds over the untimed ones: `SlotLifetime` shows that, although `_reap` has two
waits of `CLEANUP_GRACE_SECONDS`, over the Claude Code adapter the two never add up, because
the adapter answers a cancellation within its own 10 s and a close that comes after that finds
it over. `GivesUpOnlyOnStuckClose` shows that 2 s + 2 s of waiting for a read leave the SDK's
close at least 6 s of the governor's 10 s; a longer settle grace breaks it. It speaks of the
grace's expiry: a driver cancelled while it reaps leaves its slot early too (`CancelledReaping`,
which is in `governor_live_cap`). `OnlyHungReadCancelled` relates a raw cancellation to all that
went before it: the turn was stopped and the read hung through the whole settle grace since.
`AgentToldInTime`
leaves out the generator of `governor_left_open`, which nobody tells before the garbage
collector does.

## 4. Fairness

asyncio runs every callback that is ready and every timer that is due, so each task of the
library is weakly fair: `GuardTask`, `DriverTask`, `PumpTask`, `CloserTask` of every run,
`RunOnce` and `Shutdown` of the adapter. In `Bridge` all of it is one weakly fair action,
`BridgeLoop`: no task runs for ever without waiting, so the loop that goes on serves them all.
Deadline and grace are steps of `DriverTask`, `RunOnce` and `Shutdown`, which is what ends
waits for parties that are not fair: consumers, users, adapter streams, SDK reads.

`Pipeline` states the same with time: what the library can do is done (`Library`), time
passes (`Tick`), the garbage collector runs the finalizer of a generator nobody refers to
(`Finalize`), and the SDK ends a cleanup it has begun (`SdkUnwound`; its close terminates and
then kills the CLI). Reads may hang for ever and consumers owe nothing. `StreamReaped` and
`EveryStreamEnds` hold under that: the first, which for a bare generator would need its
goodwill, follows from the adapter's own graces. `SdkStreamEnds` is the untimed form of the
second. Both say that the SDK stream is over, not that the CLI is dead: that follows for a closed
stream only (section 6).

## 5. Proofs

About the governor, for every finite set of runs, every positive number of slots and every
number of events:

* `TypeCorrect` (`GovernorProofs`): `Spec => []TypeOK`; `TypeOK` is inductive.
* `SlotsAlwaysAccounted`, `HealthAlwaysExact`, `WakeupNeverLost` (`GovernorProofs`). None of the
  three is inductive: a release that hands its slot to a waiter which already has one, was
  cancelled or has left would break the sum. `SlotInv` adds who the waiters are: without
  repetition, queued, not granted, not cancelled (`Distinct(waiters, Sleepers)`), that
  granted runs are queued, and that an unstarted guard has no driver. The step is
  proved by what an action does to the slots: nothing (`FrameKeeps`), cancel
  (`CancelDriverKeeps`), give back (`LeaveSlotKeeps`, `CancelledQueuedKeeps`), take
  (`Acquire*Keeps`).
* `AcquireImplementsPool` (`GovernorProofs`): `Spec => Pool!Spec` under the mapping "holds" =
  driver inside `acquire()`, "waits" = driver queued. A grant is within the cap because the
  slot that is taken was free or granted, and the slots add up.
* `WorkNeedsSlot`, `WorkAlwaysWithinCap` (`TurnProofs`): a generator runs only inside the
  slot of its driver, hence at most `MaxConcurrency` do. This is the cap that holds; the
  one the documentation states does not (section 6).
* `PermitNeverLost`, `NeverFarAhead`, `NormalEndAlwaysComplete`, `OutcomeAlwaysReaped`
  (`TurnProofs`), over `EventInv`, which says of every turn: the queue holds at most one
  event and the outcome behind it (`Orderly`); the permit is free, in the queue with an
  event, or with the consumer (`Permit`); what was produced is what was taken, what is queued,
  and one event more if the pump waits for pace or died waiting (`Counted`); the outcome
  is told by a driver that is done and has seen to the close (`Reported`); and it is "end" only
  if the stream ended so (`Truthful`). `Permit` is what keeps the queue orderly, and `Counted`
  is not inductive without `Orderly`. `NormalEndIsComplete` follows because a stream that has
  ended by itself was being read, not waiting for pace.
* `ShapeInvariant` (`TurnProofs`): which states of guard, driver, pump, generator and close go
  together; `PipelineProofs` rests on it.
* `StreamsUsedAsPromised` (`TurnProofs`), from `ShapeInvariant`: every step that pump, driver,
  close and finalizer take with a generator is one of `AdapterStream`. With `RunOnceIsStream`
  both sides of the contract are proved.

About `Bridge`, for every number of calls and of attempts, and every set of error texts:

* `BridgeUsesGovernor` (`BridgeProofs`): `BridgeSpec => Spec` of `Governor`, by which all of the
  above holds of the guards that `Bridge.run` opens. Each action of a call is a consumer's
  action on the run of its current attempt, or none of the governor's concern.
* `BridgeTypeCorrect`, `RetriesOnlyTransient`, `NeverRepeatsChunks`, `NeverTwoSlots`,
  `ResultsAreFinal`, over `BridgeInv`: `AttemptsOf` says that earlier attempts are over, their
  drivers done, and that they failed with something retriable, and that later ones have not begun;
  `CallInv` ties what a call has shown and found to its phase. The step is proved once for the
  loop, which leaves guards that are at rest alone (`GuardFrame`), and once for the call. That the
  driver of an attempt that has failed is done is `OutcomeAlwaysReaped`: the one slot of a call
  rests on the governor's cleanup before the outcome.

About the adapter, for every set of messages and of reset times and every length of a turn:

* `AdapterTypeCorrect`, `AlwaysShielded`, `ShutdownAlwaysCloses` (`AdapterProofs`), over
  `AdapterInv`: `SdkInv` says who is inside the SDK stream (a read, a cancelled read, the
  shutdown, or nobody), `GenInv` which of them `run_once` may have begun where it is suspended.
* `RunOnceIsStream`: every step of `run_once` is one of `AdapterStream` or none that it sees; the
  fairness of `HonoursContract` is left to TLC.
* `AlwaysRaisedAsDocumented`, over `DocInv` (which also keeps the reason of an undocumented error,
  `ForeignExplained`): while nothing was raised, no message handled so far
  asked for it (`Harmless`), `rejected` says whether one was a rejection, and `resetsAt` is the
  latest reset time (`LatestIs`); `LatestOfReport` carries that over to the property's
  definition. Once something was raised the log stands still.

* `NothingEverDropped`, over `DeliveryInv`: what the consumer got and some rest are together
  the events of all messages so far, and the rest is the outbox unless the turn was ended from
  outside or by an error. The events are a `FlattenSeq` over the log, which grows by one
  message (`FlattenGrown`); that a turn ended early leaves a prefix is `PrefixOfConcat`.

About the normalizer, for every set of events and every length of a run:

* `NormalizerTypeCorrect` and `AlwaysOneTerminalResult` (`NormalizerProofs`), over
  `TerminalInv`: the loop reads on only while no chunk is a Result.
* `ChunksAlwaysInOrder` and `ResultAlwaysFaithful`, over `AccountInv`: the chunks are what the
  history owes; `textParts` is the text spoken in it; `sessionId` is its latest session
  (`SessionAccount`); `usageByMessage` knows the messages that reported, `anonymous` is empty only
  if all reports named one, and their sum is that of the counted reports (`UsageAccount`). The sum that the code computes from
  those two is a sum over two containers, the one the property states is a sum over positions of
  the history: the step is that one more position adds its usage to exactly one of them, or
  to neither when its message is known.

About the layers together (`PipelineProofs`), for every turn length, set of messages and
number of them:

* `PipelineUsesGovernor`, `PipelineUsesAdapter`: every behaviour of `Pipeline` is one of
  `Governor` and one of `ClaudeCodeAdapter`, so what each of the two assumes of the other is what
  the other does, and all theorems about both hold of the composition.
* `PipelineTypeCorrect`, `SlotLifetimeBounded`, `AgentAlwaysToldInTime`,
  `OnlyStuckCloseGivenUp`, over `PipelineInv`, which TLC checked before it was proved. Its
  parts beyond the invariants of the two modules: the generator is in the state the governor
  thinks, or the pump is about to hear of it (`ViewInv`); what the slot has been held for and
  the timer of the driver's wait add up to the bound, except in the second wait when the
  generator is over already (`HeldInv`); an agent works against the will of its driver only
  while the shutdown lets its read settle (`AgentInv`); and the driver's grace has room for what the
  shutdown has still to wait (`GraceInv`), which is where 2 s + 2 s < 10 s is used.
  `HeldInv` is not inductive without `ViewInv`: the driver begins its second wait late only if
  the pump was unwinding, and then the close finds the generator over.
* `HungReadsOnlyCancelled`, over `HungInv` besides: a read still in flight when the shutdown has
  begun belongs to a turn that was stopped (`ReadLeft`), and what the agent has worked since and
  what is left of the settle grace are together the whole grace.

About the credentials (`AuthProofs`): `AuthTypeCorrect`, `ReportAlwaysWasRight`,
`DoctorAlwaysAgrees`. `AuthEnvironment` has no constants and TLC visits all its states; what the
proofs add is the reason. `ReadInv` says that what was read stays right until it
changes, so that the report is right at the moment of the look for the file if the
environment stood still, and at the start if the files did.

Sums and flattened sequences are recursive functions in the community modules, and the
library's induction theorems cannot be used (they take an operator). `FoldProofs` does
the inductions by the smallest counterexample, which needs only that `<` is well-founded on the
naturals (`Smallest`): existence and uniqueness of the recursive function first, then how a sum
or a flattening grows by an element. Hence the three theorems above about histories hold for
every length.

Assumptions: those named `*Assumption` in the modules, which TLC evaluates in every run that
extends them: finitely many runs, a positive cap, outcomes that are not confused with
events; in `Bridge` a positive number of attempts, `Runs` made of calls and attempts, and
statuses only in texts that can carry one; in the adapter messages with a type, marks and
a reset time; in `Pipeline` one run, whose errors are those `run_once` may raise, and an SDK
that raises no `CancelledError` of its own (what happens otherwise is `governor_self_cancel`).

With this every invariant and every action property that a passing run checks has a theorem. Out of the prover's
reach, and left to TLC, are liveness under fairness and `ENABLED`: `ConsumerAnswered`,
`CloseTerminates`, `ServesPool`, `StreamReaped`, `BufferedCallEnds`, `SdkStreamEnds`,
`EveryStreamEnds`, and the fairness in `HonoursContract`.

## 6. Disagreements found

* `governor_live_cap`: README and CONTRIBUTING say the semaphore caps live subprocesses. A
  slot is released while its generator still unwinds (cleanup grace expired, or the
  driver was cancelled while reaping), so more subprocesses than slots may live.
* `governor_left_open`: a consumer that leaves while the driver reaps after its deadline
  makes the driver skip the close of a suspended generator, against `guard`'s docstring;
  only the garbage collector's finalizer closes it later (`Finalize`, which is why
  `StreamReaped` holds all the same).
* `governor_self_cancel`: a stream that raises `CancelledError` of its own is taken for a
  cancellation of the driver; the consumer is never told and waits for ever.
* `bridge_bad_value`: a payload field that `int()` cannot convert leaves `Bridge.run` as a
  bare `ValueError`.

More the adapter's model shows without a run of their own, its properties being stated so as to
hold of the code:

* `run_once`'s docstring says "The underlying subprocess is reaped in all cases" and "a raw
  cancellation cannot skip the SDK's terminate/kill escalation" (`claude_code.py:356-361`);
  `_shutdown_stream`'s says that the cancellation of a read that does not settle does skip it and
  leaves a live CLI to the SDK's atexit reaper (269-274). The code does the latter:
  `SettleExpired` leads to a stream that is `aborted`, which `SdkStreamEnds` and `EveryStreamEnds`
  have to allow. `OnlyHungReadCancelled` says how far the first docstring is true: for every read
  but one that hangs through its grace.
* A usage that `int()` refuses, in an assistant message or a result, and a stream delta that is no
  dict make `run_once` raise `ValueError`, `TypeError` or `AttributeError` (172-177, 192, 205-206,
  227), where its docstring has "AdapterError: any other subprocess or protocol failure"; so does a
  reset time between year 9999 and 10^12 (`BadTimes`). `RaisedAsDocumented` shows that nothing else
  but the SDK's own foreign errors does, and that a documented error comes before a conversion.
* `rate_limit_rejected` is never reset, so that any failing result after a rejection counts as a
  plan limit (`RaisedAsDocumented` states it as the code does).

And of the credentials: a blank `ANTHROPIC_API_KEY` makes the doctor warn of per-token billing,
while `check_auth` ignores it; and with white space around `CLAUDE_CONFIG_DIR`, which
`_claude_config_dir` strips (`claude_code.py:157-159`) and `default_credentials_dir` does not
(`doctor.py:33-35`), the doctor may report the directory missing in which `check_auth` finds the
credentials (`DoctorAgrees` leaves both out). A report of `check_auth` may
name a method that was never the right one if environment and files both change during the call
(`ReportWasRight` says exactly when it may not). No document promises otherwise.

## 7. Not modelled

The contents of texts and payloads, logging, the
backoff's length, loop shutdown cancelling the background tasks, an adapter or SDK that swallows
`CancelledError` and goes on yielding, several event loops, a `Bridge` whose governor is
swapped while it runs. Sessions have no code yet.
The examples are users of `Bridge.run`, and users may do anything in `Bridge`; the FastAPI one
leaves its stream unclosed when a client disconnects between chunks, which is the consumer
that walks away in `Governor`: finalizer or watchdog end its turn. The wording of findings
and of `AuthStatus.detail` is left out, except whether it mentions ignored credentials; that
`Bridge.__init__` passes warnings on to `warnings.warn` is one loop without state.

## 8. Plan

Done: all components with their runs, and a theorem for every invariant they check. Left:

1. Two timed runs on one slot: a bound on how long a waiter waits, which `SlotLifetime` and
   `NoLostWakeup` together suggest.
2. A retried call that competes with others for its slot: the theorems cover its safety, its
   termination is checked for a call alone.
