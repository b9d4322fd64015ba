----------------------------- MODULE TurnProofs -----------------------------
(* Theorems about what happens inside one turn of Governor: who is at work *)
(* on it, and how its events reach the consumer.                           *)
EXTENDS GovernorProofs

(* The inductive invariant behind NoWorkWithoutSlot: a generator runs only *)
(* while its pump reads it for a driver that has not begun its cleanup.    *)
WorkInv ==
  \A r \in Runs :
    /\ gen[r] = "running" => pump[r] = "reading" /\ driver[r] = "pumping"
    /\ pump[r] \in {"created", "pacing"} => driver[r] = "pumping"

LEMMA NextWorkInv == TypeOK /\ SlotInv /\ WorkInv /\ [Next]_vars => WorkInv'
<1> SUFFICES ASSUME TypeOK, SlotInv, WorkInv, [Next]_vars PROVE WorkInv'
  OBVIOUS
<1> USE DEF WorkInv, TypeOK, consumerVars, driverVars, slotVars, channelVars, streamVars
<1>0. \A r \in granted : driver[r] = "queued"
  BY DEF SlotInv, SlotCore, Queuers
<1>1. ASSUME NEW r \in Runs, GuardTask(r) \/ Consumer(r) PROVE WorkInv'
  <2>1. CASE GuardStart(r)
    <3>1. driver[r] = "none"
      BY <2>1 DEF GuardStart, SlotInv
    <3> QED BY <2>1, <3>1 DEF GuardStart
  <2>2. CASE UNCHANGED <<driver, pump, gen>>
    BY <2>2
  <2>3. GuardStart(r) \/ UNCHANGED <<driver, pump, gen>>
    BY <1>1 DEF GuardTask, Consumer, GuardTakeEvent, GuardTakeOutcome, GuardFinish,
                ConsumerNext, ConsumerClose, ConsumerCancel, ConsumerCancelClosing
  <2> QED BY <2>1, <2>2, <2>3
<1>2. ASSUME NEW r \in Runs, DriverTask(r) PROVE WorkInv'
  <2>1. CASE AcquireAtOnce(r) \/ AcquireResumed(r)
    <3>1. /\ driver[r] \in {"created", "queued"} /\ gen' = gen
          /\ driver' = [driver EXCEPT ![r] = "pumping"]
          /\ pump' = [pump EXCEPT ![r] = "created"]
      BY <2>1, <1>0 DEF AcquireAtOnce, AcquireResumed
    <3> QED BY <3>1
  <2>2. CASE AcquireWait(r) \/ CancelledUnstarted(r) \/ CancelledQueued(r)
    BY <2>2 DEF AcquireWait, CancelledUnstarted, CancelledQueued
  <2>3. CASE PumpEnded(r)
    BY <2>3 DEF PumpEnded
  <2>4. CASE Deadline(r) \/ CancelledPumping(r)
    <3>1. /\ driver[r] = "pumping" /\ pump[r] # "created" /\ CancelPump(r)
          /\ driver' = [driver EXCEPT ![r] = "reapPump"]
      BY <2>4 DEF Deadline, CancelledPumping
    <3> QED BY <3>1 DEF CancelPump
  <2>5. CASE ReapPump(r)
    BY <2>5 DEF ReapPump
  <2>6. CASE ReapPumpExpired(r) \/ ReapClose(r) \/ CancelledReaping(r)
    <3>1. /\ driver[r] # "pumping" /\ driver' = [driver EXCEPT ![r] = "done"]
          /\ UNCHANGED <<pump, gen>>
      BY <2>6 DEF ReapPumpExpired, ReapClose, CancelledReaping, LeaveSlot
    <3> QED BY <3>1
  <2> QED BY <1>2, <2>1, <2>2, <2>3, <2>4, <2>5, <2>6 DEF DriverTask
<1>3. ASSUME NEW r \in Runs, PumpTask(r) PROVE WorkInv'
  BY <1>3 DEF PumpTask, PumpStart, PumpPaced
<1>4. ASSUME NEW r \in Runs, CloserTask(r) PROVE WorkInv'
  BY <1>4 DEF CloserTask, CloseWhenSettled, CloserStart, Finalize
<1>5. ASSUME NEW r \in Runs, Stream(r) PROVE WorkInv'
  <2>1. ASSUME NEW k \in Kinds, StreamEmit(r, k) PROVE WorkInv'
    BY <2>1 DEF StreamEmit
  <2>2. ASSUME NEW f, StreamEnd(r, f) PROVE WorkInv'
    BY <2>2 DEF StreamEnd
  <2> QED BY <1>5, <2>1, <2>2 DEF Stream
<1>6. ASSUME NEW r \in Runs, StreamUnwound(r) PROVE WorkInv'
  BY <1>6 DEF StreamUnwound
<1>7. CASE UNCHANGED vars
  BY <1>7 DEF vars
<1> QED BY <1>1, <1>2, <1>3, <1>4, <1>5, <1>6, <1>7 DEF Next, Loop, Terminated

(* A generator that works is read by a pump whose driver is inside its     *)
(* slot.                                                                   *)
THEOREM WorkInvariant == Spec => []WorkInv
<1>1. Init => WorkInv
  BY DEF Init, WorkInv
<1> QED BY <1>1, NextWorkInv, SlotInvariant, TypeCorrect, PTL DEF Spec

(* An adapter stream makes progress only inside its slot.                  *)
THEOREM WorkNeedsSlot == Spec => []NoWorkWithoutSlot
<1>1. WorkInv => NoWorkWithoutSlot
  BY DEF WorkInv, NoWorkWithoutSlot, Holders, HoldingStates
<1> QED BY <1>1, WorkInvariant, PTL

(* Where the parties of a turn may be at the same time.  Nobody closes a   *)
(* generator while its pump is not over, a generator that unwinds is       *)
(* awaited by its pump or by the background close, and a driver that waits *)
(* for the close has begun one.                                            *)
Shape(r) ==
  /\ gen[r] = "unstarted" <=> pump[r] \in {"none", "created"}
  /\ pump[r] = "pacing" => gen[r] = "suspended"
  /\ pump[r] = "reading" =>
       gen[r] = (IF driver[r] = "pumping" THEN "running" ELSE "unwinding")
  /\ gen[r] = "unwinding" /\ pump[r] # "reading" => closer[r] = "closing"
  /\ driver[r] \in {"none", "created", "queued"} => pump[r] = "none"
  /\ driver[r] \in HoldingStates => pump[r] # "none"
  /\ driver[r] \notin {"reapClose", "done"} => closer[r] = "none"
  /\ driver[r] = "reapClose" => closer[r] \in {"created", "closing", "done"}
  /\ closer[r] \in {"created", "closing", "done"} => pump[r] = "done"
  /\ closer[r] = "closing" => gen[r] = "unwinding"
  /\ closer[r] = "done" => gen[r] = "closed"

ShapeInv == \A r \in Runs : Shape(r)

LEMMA InitShapeInv == Init => ShapeInv
BY DEF Init, ShapeInv, Shape, HoldingStates

LEMMA NextShapeInv ==
  TypeOK /\ SlotInv /\ WorkInv /\ ShapeInv /\ [Next]_vars => ShapeInv'
<1> SUFFICES ASSUME TypeOK, SlotInv, WorkInv, ShapeInv, [Next]_vars, NEW s \in Runs
             PROVE  Shape(s)'
  BY DEF ShapeInv
<1> USE DEF Shape, HoldingStates, LiveStates, consumerVars, driverVars, slotVars,
            channelVars, streamVars
<1>0. /\ Shape(s)
      /\ gen[s] = "running" => pump[s] = "reading" /\ driver[s] = "pumping"
      /\ pump[s] \in {"created", "pacing"} => driver[s] = "pumping"
      /\ s \in granted => driver[s] = "queued"
  BY DEF ShapeInv, WorkInv, SlotInv, SlotCore, Queuers
<1>1. CASE UNCHANGED <<driver, pump, gen, closer>>
  BY <1>0, <1>1
<1>2. ASSUME NEW r \in Runs, GuardTask(r) \/ Consumer(r) PROVE Shape(s)'
  <2>1. CASE GuardStart(r)
    <3>1. driver[r] = "none"
      BY <2>1 DEF GuardStart, SlotInv
    <3> QED BY <1>0, <2>1, <3>1 DEF GuardStart, TypeOK
  <2>2. GuardStart(r) \/ UNCHANGED <<driver, pump, gen, closer>>
    BY <1>2 DEF GuardTask, Consumer, GuardTakeEvent, GuardTakeOutcome, GuardFinish,
                ConsumerNext, ConsumerClose, ConsumerCancel, ConsumerCancelClosing
  <2> QED BY <1>1, <2>1, <2>2
<1>3. ASSUME NEW r \in Runs, DriverTask(r) PROVE Shape(s)'
  <2>1. CASE AcquireAtOnce(r) \/ AcquireResumed(r)
    BY <1>0, <2>1 DEF AcquireAtOnce, AcquireResumed, TypeOK
  <2>2. CASE AcquireWait(r) \/ CancelledUnstarted(r) \/ CancelledQueued(r)
    <3>1. /\ driver[r] \in {"created", "queued"} /\ UNCHANGED <<pump, gen, closer>>
          /\ \/ driver' = [driver EXCEPT ![r] = "queued"]
             \/ driver' = [driver EXCEPT ![r] = "done"]
      BY <2>2 DEF AcquireWait, CancelledUnstarted, CancelledQueued
    <3> QED BY <1>0, <3>1 DEF TypeOK
  <2>3. CASE PumpEnded(r) \/ ReapPump(r)
    BY <1>0, <2>3 DEF PumpEnded, ReapPump, TypeOK
  <2>4. CASE Deadline(r) \/ CancelledPumping(r)
    <3>1. /\ driver[r] = "pumping" /\ pump[r] # "created" /\ CancelPump(r)
          /\ driver' = [driver EXCEPT ![r] = "reapPump"] /\ closer' = closer
      BY <2>4 DEF Deadline, CancelledPumping
    <3> QED BY <1>0, <3>1 DEF CancelPump, TypeOK
  <2>5. CASE ReapPumpExpired(r) \/ ReapClose(r) \/ CancelledReaping(r)
    <3>1. /\ driver[r] \in {"reapPump", "reapClose"} /\ UNCHANGED <<pump, gen>>
          /\ driver' = [driver EXCEPT ![r] = "done"]
          /\ \/ closer' = closer
             \/ driver[r] = "reapPump" /\ closer' = [closer EXCEPT ![r] = "armed"]
      BY <2>5 DEF ReapPumpExpired, ReapClose, CancelledReaping, LeaveSlot
    <3> QED BY <1>0, <3>1 DEF TypeOK
  <2> QED BY <1>3, <2>1, <2>2, <2>3, <2>4, <2>5 DEF DriverTask
<1>4. ASSUME NEW r \in Runs, PumpTask(r) PROVE Shape(s)'
  BY <1>0, <1>4 DEF PumpTask, PumpStart, PumpPaced, TypeOK
<1>5. ASSUME NEW r \in Runs, CloserTask(r) PROVE Shape(s)'
  BY <1>0, <1>5 DEF CloserTask, CloseWhenSettled, CloserStart, Finalize, TypeOK
<1>6. ASSUME NEW r \in Runs, Stream(r) PROVE Shape(s)'
  <2>1. ASSUME NEW k \in Kinds, StreamEmit(r, k) PROVE Shape(s)'
    BY <1>0, <2>1 DEF StreamEmit, TypeOK
  <2>2. ASSUME NEW f, StreamEnd(r, f) PROVE Shape(s)'
    BY <1>0, <2>2 DEF StreamEnd, TypeOK
  <2> QED BY <1>6, <2>1, <2>2 DEF Stream
<1>7. ASSUME NEW r \in Runs, StreamUnwound(r) PROVE Shape(s)'
  BY <1>0, <1>7 DEF StreamUnwound, TypeOK
<1>8. CASE UNCHANGED vars
  BY <1>1, <1>8 DEF vars
<1> QED BY <1>2, <1>3, <1>4, <1>5, <1>6, <1>7, <1>8 DEF Next, Loop, Terminated

(* A turn's tasks and its generator are always in one of these states.     *)
THEOREM ShapeInvariant == Spec => []ShapeInv
<1> QED BY InitShapeInv, NextShapeInv, WorkInvariant, SlotInvariant, TypeCorrect, PTL DEF Spec

-----------------------------------------------------------------------------
(* The governor as a user of its streams: it starts a generator once,      *)
(* reads on only in one that is suspended, and cancels or closes none that *)
(* is over or unwinds already.                                             *)
Promised(r) == INSTANCE AdapterStream WITH stream <- gen[r]

LEMMA StepsOfStream ==
  ASSUME TypeOK, SlotInv, WorkInv, ShapeInv, [Next]_vars, NEW s \in Runs
  PROVE  [Promised(s)!Next]_(gen[s])
<1> DEFINE Moves == \/ gen[s] = "unstarted" /\ gen'[s] \in {"running", "closed"}
                    \/ gen[s] = "running" /\ gen'[s] \in {"suspended", "closed", "unwinding"}
                    \/ gen[s] = "suspended" /\ gen'[s] \in {"running", "unwinding"}
                    \/ gen[s] = "unwinding" /\ gen'[s] = "closed"
                    \/ gen'[s] = gen[s]
<1> SUFFICES Moves
  BY DEF Promised!Next, Promised!Start, Promised!Emit, Promised!Resume, Promised!End,
         Promised!Unwind, Promised!Unwound
<1> USE DEF consumerVars, driverVars, slotVars, channelVars, streamVars
<1>0. Shape(s) /\ gen \in [Runs -> {"unstarted", "closed"} \cup LiveStates]
  BY DEF ShapeInv, TypeOK
<1>1. CASE UNCHANGED gen
  BY <1>1
<1>2. ASSUME NEW r \in Runs, GuardTask(r) \/ Consumer(r) PROVE Moves
  <2>1. UNCHANGED gen
    BY <1>2 DEF GuardTask, Consumer, GuardStart, GuardTakeEvent, GuardTakeOutcome, GuardFinish,
                ConsumerNext, ConsumerClose, ConsumerCancel, ConsumerCancelClosing
  <2> QED BY <1>1, <2>1
<1>3. ASSUME NEW r \in Runs, DriverTask(r) PROVE Moves
  <2>1. CASE CancelPump(r)
    BY <1>0, <2>1 DEF CancelPump, Shape, LiveStates
  <2>2. CancelPump(r) \/ UNCHANGED gen
    BY <1>3 DEF DriverTask, AcquireAtOnce, AcquireWait, AcquireResumed, PumpEnded, Deadline,
                ReapPump, ReapPumpExpired, ReapClose, CancelledUnstarted, CancelledQueued,
                CancelledPumping, CancelledReaping, LeaveSlot
  <2> QED BY <1>1, <2>1, <2>2
<1>4. ASSUME NEW r \in Runs, PumpTask(r) PROVE Moves
  BY <1>0, <1>4 DEF PumpTask, PumpStart, PumpPaced, Shape
<1>5. ASSUME NEW r \in Runs, CloserTask(r) PROVE Moves
  BY <1>0, <1>5 DEF CloserTask, CloseWhenSettled, CloserStart, Finalize
<1>6. ASSUME NEW r \in Runs, Stream(r) PROVE Moves
  BY <1>0, <1>6 DEF Stream, StreamEmit, StreamEnd
<1>7. ASSUME NEW r \in Runs, StreamUnwound(r) PROVE Moves
  BY <1>0, <1>7 DEF StreamUnwound
<1> QED BY <1>1, <1>2, <1>3, <1>4, <1>5, <1>6, <1>7 DEF Next, Loop, Terminated, vars

(* Every generator that the governor uses is an AdapterStream: it takes no *)
(* step with it that the contract has not, in any interleaving of pump,    *)
(* driver, close and finalizer.                                            *)
THEOREM StreamsUsedAsPromised ==
  Spec => \A r \in Runs : Promised(r)!Init /\ [][Promised(r)!Next]_(gen[r])
<1> SUFFICES ASSUME NEW r \in Runs
             PROVE  Spec => Promised(r)!Init /\ [][Promised(r)!Next]_(gen[r])
  OBVIOUS
<1>1. Init => Promised(r)!Init
  BY DEF Init, Promised!Init
<1>2. TypeOK /\ SlotInv /\ WorkInv /\ ShapeInv /\ [Next]_vars => [Promised(r)!Next]_(gen[r])
  BY StepsOfStream
<1> QED BY <1>1, <1>2, TypeCorrect, SlotInvariant, WorkInvariant, ShapeInvariant, PTL DEF Spec

-----------------------------------------------------------------------------
(* The cap that does hold: no more than MaxConcurrency adapter streams     *)
(* make progress at any time, however many still unwind.                   *)
WorkWithinCap ==
  Cardinality({r \in Runs : gen[r] = "running"}) <= MaxConcurrency

THEOREM WorkAlwaysWithinCap == Spec => []WorkWithinCap
<1>1. TypeOK /\ SlotInv /\ WorkInv => WorkWithinCap
  <2> SUFFICES ASSUME TypeOK, SlotInv, WorkInv PROVE WorkWithinCap
    OBVIOUS
  <2>1. {r \in Runs : gen[r] = "running"} \in SUBSET Holders
    BY DEF WorkInv, Holders, HoldingStates
  <2>2. /\ IsFiniteSet(Holders) /\ Cardinality(Holders) \in Nat
        /\ Cardinality({r \in Runs : gen[r] = "running"}) \in Nat
    BY <2>1, FiniteRuns, Disjoint
  <2>3. Cardinality({r \in Runs : gen[r] = "running"}) <= Cardinality(Holders)
    BY <2>1, <2>2, FS_Subset
  <2> QED BY <2>2, <2>3, HolderCap, MaxConcurrencyAssumption DEF SlotInv, WorkWithinCap
<1> QED BY <1>1, WorkInvariant, SlotInvariant, TypeCorrect, PTL

-----------------------------------------------------------------------------
(* What a hand-off queue may hold: one event at most, since there is one   *)
(* permit, and the outcome behind it.                                      *)
Orderly(q) ==
  \/ q = <<>>
  \/ \E k \in Kinds : q = <<k>>
  \/ \E o \in Outcomes : q = <<o>>
  \/ \E k \in Kinds, o \in Outcomes : q = <<k, o>>

EventsIn(q) == IF q # <<>> /\ Head(q) \in Kinds THEN 1 ELSE 0

(* The outcome is among what is queued.                                    *)
Tells(q, o) == \E i \in DOMAIN q : q[i] = o
Told(q) == \E i \in DOMAIN q : q[i] \in Outcomes

-----------------------------------------------------------------------------
(* What the guard and the driver do to an orderly queue.                   *)
LEMMA AppendToOne ==
  ASSUME NEW S, NEW k \in S, NEW o \in S
  PROVE  Append(<<k>>, o) = <<k, o>>
<1>1. <<k>> \in Seq(S) /\ Len(<<k>>) = 1 /\ <<k>>[1] = k
  OBVIOUS
<1>2. <<k, o>> \in Seq(S) /\ Len(<<k, o>>) = 2 /\ <<k, o>>[1] = k /\ <<k, o>>[2] = o
  OBVIOUS
<1>3. /\ Append(<<k>>, o) \in Seq(S)
      /\ Len(Append(<<k>>, o)) = Len(<<k>>) + 1
      /\ \A i \in 1..Len(<<k>>) : Append(<<k>>, o)[i] = <<k>>[i]
      /\ Append(<<k>>, o)[Len(<<k>>) + 1] = o
  BY <1>1, AppendProperties
<1>4. /\ Len(Append(<<k>>, o)) = Len(<<k, o>>)
      /\ \A i \in 1..Len(Append(<<k>>, o)) : Append(<<k>>, o)[i] = <<k, o>>[i]
  BY <1>1, <1>2, <1>3
<1> QED BY <1>2, <1>3, <1>4, SeqEqual, Zenon

LEMMA PushEvent ==
  ASSUME NEW q, NEW k \in Kinds, Orderly(q), ~Told(q), EventsIn(q) = 0
  PROVE  /\ Orderly(Append(q, k)) /\ ~Told(Append(q, k)) /\ EventsIn(Append(q, k)) = 1
         /\ ~Tells(Append(q, k), "end")
<1>1. q = <<>>
  BY DEF Orderly, Told, EventsIn
<1>2. Append(q, k) = <<k>>
  BY <1>1
<1>3. k \notin Outcomes
  BY ItemAssumption
<1> QED BY <1>2, <1>3 DEF Orderly, Told, Tells, EventsIn, Outcomes

LEMMA PushOutcome ==
  ASSUME NEW q, NEW o \in Outcomes, Orderly(q), ~Told(q)
  PROVE  /\ Orderly(Append(q, o)) /\ EventsIn(Append(q, o)) = EventsIn(q)
         /\ Tells(Append(q, o), "end") => o = "end"
<1>1. o \notin Kinds /\ "end" \notin Kinds
  BY ItemAssumption DEF Outcomes
<1>2. CASE q = <<>>
  <2>1. Append(q, o) = <<o>>
    BY <1>2
  <2> QED BY <1>1, <1>2, <2>1 DEF Orderly, Tells, EventsIn
<1>3. CASE \E k \in Kinds : q = <<k>>
  <2>1. PICK k \in Kinds : q = <<k>>
    BY <1>3
  <2>2. Append(q, o) = <<k, o>>
    <3>1. k \in Kinds \cup Outcomes /\ o \in Kinds \cup Outcomes
      OBVIOUS
    <3>2. Append(<<k>>, o) = <<k, o>>
      BY <3>1, AppendToOne
    <3> QED BY <2>1, <3>2
  <2> QED BY <1>1, <2>1, <2>2 DEF Orderly, Tells, EventsIn
<1> QED BY <1>2, <1>3 DEF Orderly, Told

LEMMA TakeEvent ==
  ASSUME NEW q, Orderly(q), q # <<>>, Head(q) \in Kinds
  PROVE  /\ Orderly(Tail(q)) /\ EventsIn(q) = 1 /\ EventsIn(Tail(q)) = 0
         /\ Told(Tail(q)) => Told(q)
         /\ Tells(Tail(q), "end") => Tells(q, "end")
<1>0. Kinds \cap Outcomes = {}
  BY ItemAssumption
<1>1. CASE \E k \in Kinds : q = <<k>>
  <2>1. Tail(q) = <<>>
    BY <1>1
  <2> QED BY <1>1, <2>1 DEF Orderly, Told, Tells, EventsIn
<1>2. CASE \E k \in Kinds, o \in Outcomes : q = <<k, o>>
  <2>1. PICK k \in Kinds, o \in Outcomes : q = <<k, o>>
    BY <1>2
  <2>2. Tail(q) = <<o>>
    BY <2>1
  <2> QED BY <1>0, <2>1, <2>2 DEF Orderly, Told, Tells, EventsIn
<1> QED BY <1>0, <1>1, <1>2 DEF Orderly

LEMMA TakeOutcome ==
  ASSUME NEW q, Orderly(q), q # <<>>, Head(q) \in Outcomes
  PROVE  /\ Tail(q) = <<>> /\ EventsIn(q) = 0 /\ Told(q) /\ Tells(q, Head(q))
<1>0. Kinds \cap Outcomes = {}
  BY ItemAssumption
<1>1. PICK o \in Outcomes : q = <<o>>
  BY <1>0 DEF Orderly
<1> QED BY <1>0, <1>1 DEF Told, Tells, EventsIn

LEMMA NothingQueued ==
  Orderly(<<>>) /\ EventsIn(<<>>) = 0 /\ ~Told(<<>>) /\ ~Tells(<<>>, "end")
BY DEF Orderly, EventsIn, Told, Tells

(* EventsIn counts the events of an orderly queue.                         *)
LEMMA EventsCounted ==
  ASSUME NEW r \in Runs, Orderly(queue[r])
  PROVE  Cardinality(Buffered(r)) = EventsIn(queue[r])
<1>0. Kinds \cap Outcomes = {}
  BY ItemAssumption
<1>1. CASE queue[r] = <<>> \/ \E o \in Outcomes : queue[r] = <<o>>
  <2>1. Buffered(r) = {}
    BY <1>0, <1>1 DEF Buffered
  <2> QED BY <1>0, <1>1, <2>1, FS_EmptySet DEF EventsIn
<1>2. CASE \/ \E k \in Kinds : queue[r] = <<k>>
           \/ \E k \in Kinds, o \in Outcomes : queue[r] = <<k, o>>
  <2>1. Buffered(r) = {1}
    BY <1>0, <1>2 DEF Buffered
  <2>2. EventsIn(queue[r]) = 1
    BY <1>2 DEF EventsIn
  <2> QED BY <2>1, <2>2, FS_Singleton
<1> QED BY <1>1, <1>2 DEF Orderly

-----------------------------------------------------------------------------
(* The inductive invariant, for one run.  The permit: ...                  *)
Permit(r) ==
  pace[r] + EventsIn(queue[r]) + (IF guard[r] = "yielded" THEN 1 ELSE 0) = 1

(* ... the events: those taken, the one in the queue, and the one the pump *)
(* holds or has dropped ...                                                *)
HandedOn(r) == taken[r] + EventsIn(queue[r])

Counted(r) ==
  /\ pump[r] \in {"none", "created", "reading"} \/ fate[r] # "none"
       => produced[r] = HandedOn(r)
  /\ pump[r] = "pacing" => produced[r] = HandedOn(r) + 1
  /\ pump[r] = "done" => produced[r] \in {HandedOn(r), HandedOn(r) + 1}
  /\ fate[r] # "none" => pump[r] = "done"
  /\ driver[r] \in {"none", "created", "queued"} => pump[r] = "none"

(* ... the outcome: it is told once, by a driver that is done and has seen *)
(* to the close of the generator ...                                       *)
Reported(r) ==
  /\ item[r] \in Outcomes => queue[r] = <<>>
  /\ item[r] \in Outcomes \/ Told(queue[r]) => driver[r] = "done" /\ closer[r] # "none"
  /\ driver[r] = "reapClose" => closer[r] # "none"

(* ... and it is "end" only if that is how the stream ended.               *)
Truthful(r) ==
  item[r] = "end" \/ Tells(queue[r], "end") \/ outcome[r] = "end" => fate[r] = "end"

TurnInv(r) ==
  Orderly(queue[r]) /\ Permit(r) /\ Counted(r) /\ Reported(r) /\ Truthful(r)

EventInv == \A r \in Runs : TurnInv(r)

-----------------------------------------------------------------------------
LEMMA InitEventInv == Init => EventInv
<1> SUFFICES ASSUME Init, NEW r \in Runs PROVE TurnInv(r)
  BY DEF EventInv
<1>1. "none" \notin Outcomes
  BY ItemAssumption
<1>2. /\ queue[r] = <<>> /\ pace[r] = 1 /\ guard[r] = "idle" /\ item[r] = "none"
      /\ taken[r] = 0 /\ produced[r] = 0 /\ pump[r] = "none" /\ fate[r] = "none"
      /\ outcome[r] = "none" /\ driver[r] = "none"
  BY DEF Init
<1> QED BY <1>1, <1>2, NothingQueued
        DEF TurnInv, Permit, Counted, HandedOn, Reported, Truthful

(* What the invariant of a run looks at.                                   *)
Seen(r) ==
  <<queue[r], pace[r], guard[r], item[r], taken[r], produced[r], pump[r], fate[r],
    outcome[r], driver[r], closer[r]>>

LEMMA TurnFrame ==
  ASSUME NEW r \in Runs, TurnInv(r), UNCHANGED Seen(r)
  PROVE  TurnInv(r)'
<1>1. /\ queue'[r] = queue[r] /\ pace'[r] = pace[r] /\ guard'[r] = guard[r]
      /\ item'[r] = item[r] /\ taken'[r] = taken[r] /\ produced'[r] = produced[r]
      /\ pump'[r] = pump[r] /\ fate'[r] = fate[r] /\ outcome'[r] = outcome[r]
      /\ driver'[r] = driver[r] /\ closer'[r] = closer[r]
  BY DEF Seen
<1>2. Orderly(queue'[r]) /\ EventsIn(queue'[r]) = EventsIn(queue[r])
  BY <1>1 DEF TurnInv
<1> QED BY <1>1, <1>2 DEF TurnInv, Permit, Counted, HandedOn, Reported, Truthful, Told, Tells

(* A step of one run leaves the others alone.                              *)
LEMMA OthersUnseen ==
  ASSUME TypeOK, NEW r \in Runs, Loop(r) \/ Consumer(r), NEW s \in Runs, s # r
  PROVE  UNCHANGED Seen(s)
<1> USE DEF TypeOK, Seen, consumerVars, driverVars, slotVars, channelVars, streamVars
<1>1. CASE GuardTask(r)
  BY <1>1 DEF GuardTask, GuardTakeEvent, GuardTakeOutcome, GuardFinish
<1>2. CASE Consumer(r)
  BY <1>2 DEF Consumer, GuardStart, ConsumerNext, ConsumerClose, ConsumerCancel,
              ConsumerCancelClosing
<1>3. CASE DriverTask(r)
  <2>1. CASE AcquireAtOnce(r) \/ AcquireWait(r) \/ AcquireResumed(r)
    BY <2>1 DEF AcquireAtOnce, AcquireWait, AcquireResumed
  <2>2. CASE PumpEnded(r) \/ Deadline(r) \/ ReapPump(r) \/ CancelledPumping(r)
    BY <2>2 DEF PumpEnded, Deadline, ReapPump, CancelledPumping, CancelPump
  <2>3. CASE ReapPumpExpired(r) \/ ReapClose(r) \/ CancelledReaping(r)
    BY <2>3 DEF ReapPumpExpired, ReapClose, CancelledReaping, LeaveSlot
  <2>4. CASE CancelledUnstarted(r) \/ CancelledQueued(r)
    BY <2>4 DEF CancelledUnstarted, CancelledQueued
  <2> QED BY <1>3, <2>1, <2>2, <2>3, <2>4 DEF DriverTask
<1>4. CASE PumpTask(r)
  BY <1>4 DEF PumpTask, PumpStart, PumpPaced
<1>5. CASE CloserTask(r)
  BY <1>5 DEF CloserTask, CloseWhenSettled, CloserStart, Finalize
<1>6. CASE Stream(r)
  <2>1. ASSUME NEW k \in Kinds, StreamEmit(r, k) PROVE UNCHANGED Seen(s)
    BY <2>1 DEF StreamEmit
  <2>2. ASSUME NEW f, StreamEnd(r, f) PROVE UNCHANGED Seen(s)
    BY <2>2 DEF StreamEnd
  <2> QED BY <1>6, <2>1, <2>2 DEF Stream
<1>7. CASE StreamUnwound(r)
  BY <1>7 DEF StreamUnwound
<1> QED BY <1>1, <1>2, <1>3, <1>4, <1>5, <1>6, <1>7 DEF Loop

-----------------------------------------------------------------------------
(* The guard and its consumer.                                             *)
LEMMA GuardKeepsTurn ==
  ASSUME TypeOK, SlotInv, NEW r \in Runs, TurnInv(r), GuardTask(r) \/ Consumer(r)
  PROVE  TurnInv(r)'
<1> USE DEF TypeOK, consumerVars, driverVars, slotVars, channelVars, streamVars
<1>0. {"none", "closed"} \cap (Kinds \cup Outcomes) = {} /\ Kinds \cap Outcomes = {}
  BY ItemAssumption
<1>1. CASE GuardTakeEvent(r)
  <2>1. /\ queue[r] # <<>> /\ Head(queue[r]) \in Kinds
        /\ guard[r] = "waiting" /\ guard'[r] = "yielded" /\ item'[r] = Head(queue[r])
        /\ queue'[r] = Tail(queue[r]) /\ taken'[r] = taken[r] + 1 /\ pace'[r] = pace[r]
        /\ UNCHANGED <<driver, outcome, pump, fate, produced, closer>>
    BY <1>1 DEF GuardTakeEvent
  <2>2. /\ Orderly(queue'[r]) /\ EventsIn(queue[r]) = 1 /\ EventsIn(queue'[r]) = 0
        /\ Told(queue'[r]) => Told(queue[r])
        /\ Tells(queue'[r], "end") => Tells(queue[r], "end")
    BY <2>1, TakeEvent DEF TurnInv
  <2>3. Permit(r)'
    BY <2>1, <2>2 DEF TurnInv, Permit
  <2>4. HandedOn(r)' = HandedOn(r)
    BY <2>1, <2>2 DEF HandedOn
  <2>5. Counted(r)'
    BY <2>1, <2>4 DEF TurnInv, Counted
  <2>6. item'[r] \notin Outcomes /\ item'[r] # "end"
    BY <1>0, <2>1 DEF Outcomes
  <2> QED BY <2>1, <2>2, <2>3, <2>5, <2>6 DEF TurnInv, Reported, Truthful
<1>2. CASE GuardTakeOutcome(r)
  <2>1. /\ queue[r] # <<>> /\ Head(queue[r]) \in Outcomes
        /\ guard[r] = "waiting" /\ guard'[r] = "closing" /\ item'[r] = Head(queue[r])
        /\ queue'[r] = Tail(queue[r])
        /\ UNCHANGED <<driver, outcome, pump, fate, produced, closer, taken, pace>>
    BY <1>2 DEF GuardTakeOutcome
  <2>2. /\ queue'[r] = <<>> /\ EventsIn(queue[r]) = 0 /\ Told(queue[r])
        /\ Tells(queue[r], item'[r])
    BY <2>1, TakeOutcome DEF TurnInv
  <2>3. /\ Orderly(queue'[r]) /\ EventsIn(queue'[r]) = 0
        /\ ~Told(queue'[r]) /\ ~Tells(queue'[r], "end")
    BY <2>2, NothingQueued
  <2>4. HandedOn(r)' = HandedOn(r)
    BY <2>1, <2>2, <2>3 DEF HandedOn
  <2> QED BY <2>1, <2>2, <2>3, <2>4 DEF TurnInv, Permit, Counted, Reported, Truthful
<1>3. CASE \/ GuardStart(r) \/ ConsumerNext(r) \/ ConsumerClose(r) \/ ConsumerCancel(r)
           \/ GuardFinish(r) \/ ConsumerCancelClosing(r)
  <2>1. UNCHANGED <<outcome, pump, fate, produced, closer, taken, queue>>
    BY <1>3 DEF GuardStart, ConsumerNext, ConsumerClose, ConsumerCancel, GuardFinish,
                ConsumerCancelClosing
  <2>2. HandedOn(r)' = HandedOn(r) /\ EventsIn(queue[r])' = EventsIn(queue[r])
    BY <2>1 DEF HandedOn
  <2>3. /\ \/ /\ pace'[r] = pace[r]
              /\ guard[r] # "yielded" /\ guard'[r] # "yielded"
           \/ /\ pace'[r] = pace[r] + 1
              /\ guard[r] = "yielded" /\ guard'[r] # "yielded"
        /\ item'[r] = item[r] \/ item'[r] = "closed"
        /\ driver'[r] = driver[r] \/ (driver[r] = "none" /\ driver'[r] = "created")
    <3>1. CASE GuardStart(r)
      <4>1. driver[r] = "none"
        BY <3>1 DEF SlotInv, GuardStart
      <4> QED BY <3>1, <4>1 DEF GuardStart
    <3>2. CASE ConsumerNext(r)
      BY <3>2 DEF ConsumerNext
    <3>3. CASE ConsumerClose(r)
      BY <3>3 DEF ConsumerClose
    <3>4. CASE ConsumerCancel(r)
      BY <3>4 DEF ConsumerCancel
    <3>5. CASE GuardFinish(r) \/ ConsumerCancelClosing(r)
      BY <3>5 DEF GuardFinish, ConsumerCancelClosing
    <3> QED BY <1>3, <3>1, <3>2, <3>3, <3>4, <3>5
  <2>4. Permit(r)'
    <3>1. Permit(r) /\ pace[r] \in Nat /\ EventsIn(queue[r]) \in {0, 1}
      BY DEF TurnInv, EventsIn
    <3> QED BY <2>2, <2>3, <3>1 DEF Permit
  <2>5. item'[r] = item[r] \/ (item'[r] \notin Outcomes /\ item'[r] # "end")
    <3>1. "closed" \notin Outcomes /\ "closed" # "end"
      BY <1>0
    <3> QED BY <2>3, <3>1
  <2>6. Counted(r)'
    BY <2>1, <2>2, <2>3 DEF TurnInv, Counted
  <2> QED BY <2>1, <2>3, <2>4, <2>5, <2>6 DEF TurnInv, Reported, Truthful, Told, Tells, Orderly
<1> QED BY <1>1, <1>2, <1>3 DEF GuardTask, Consumer

-----------------------------------------------------------------------------
(* The end of a driver that had not ended yet, and so had told nothing.    *)
LEMMA LeaveSlotKeepsTurn ==
  ASSUME TypeOK, NEW r \in Runs, TurnInv(r), driver[r] \in {"reapPump", "reapClose"},
         NEW out \in {"none"} \cup Outcomes, LeaveSlot(r, out),
         out = "none" \/ (out = outcome[r] /\ closer'[r] # "none"),
         closer'[r] = closer[r] \/ closer'[r] # "none",
         UNCHANGED <<consumerVars, outcome, pace, pump, fate, produced>>
  PROVE  TurnInv(r)'
<1>1. /\ driver'[r] = "done"
      /\ queue'[r] = IF out = "none" THEN queue[r] ELSE Append(queue[r], out)
      /\ UNCHANGED <<guard, item, taken, outcome, pump, fate, produced, pace>>
  BY DEF TypeOK, LeaveSlot, consumerVars
<1>2. ~Told(queue[r]) /\ item[r] \notin Outcomes
  BY DEF TurnInv, Reported
<1>3. /\ Orderly(queue'[r]) /\ EventsIn(queue'[r]) = EventsIn(queue[r])
      /\ Tells(queue'[r], "end") => Tells(queue[r], "end") \/ out = "end"
  <2>1. CASE out = "none"
    BY <1>1, <2>1 DEF TurnInv
  <2>2. CASE out # "none"
    <3>1. out \in Outcomes /\ queue'[r] = Append(queue[r], out)
      BY <1>1, <2>2
    <3> QED BY <1>2, <3>1, PushOutcome DEF TurnInv
  <2> QED BY <2>1, <2>2
<1>4. HandedOn(r)' = HandedOn(r) /\ Permit(r)'
  BY <1>1, <1>3 DEF TurnInv, HandedOn, Permit
<1>5. Counted(r)'
  BY <1>1, <1>4 DEF TurnInv, Counted
<1>6. Reported(r)'
  <2>1. Told(queue'[r]) => out # "none"
    BY <1>1, <1>2
  <2> QED BY <1>1, <1>2, <2>1 DEF Reported
<1>7. Truthful(r)'
  BY <1>1, <1>3 DEF TurnInv, Truthful
<1> QED BY <1>3, <1>4, <1>5, <1>6, <1>7 DEF TurnInv

(* Where a driver is moved without a word in the queue: what is counted    *)
(* depends on the pump alone.                                              *)
LEMMA SilentKeepsTurn ==
  ASSUME NEW r \in Runs, TurnInv(r),
         UNCHANGED <<consumerVars, channelVars>>,
         driver[r] # "done" \/ driver' = driver,
         Counted(r)',
         closer[r] # "none" => closer'[r] # "none",
         driver'[r] = "reapClose" => closer'[r] # "none",
         fate'[r] = fate[r] \/ fate[r] = "none",
         outcome'[r] = "end" => fate'[r] = "end"
  PROVE  TurnInv(r)'
<1>1. UNCHANGED <<guard, item, taken, pace, queue>>
  BY DEF consumerVars, channelVars
<1>2. Orderly(queue'[r]) /\ EventsIn(queue'[r]) = EventsIn(queue[r]) /\ Permit(r)'
  BY <1>1 DEF TurnInv, Permit
<1>3. driver[r] # "done" => item[r] \notin Outcomes /\ ~Told(queue[r])
  BY DEF TurnInv, Reported
<1>4. Reported(r)'
  BY <1>1, <1>3 DEF TurnInv, Reported
<1>5. Truthful(r)'
  BY <1>1 DEF TurnInv, Truthful
<1> QED BY <1>2, <1>4, <1>5 DEF TurnInv

LEMMA DriverKeepsTurn ==
  ASSUME TypeOK, SlotInv, NEW r \in Runs, TurnInv(r), DriverTask(r)
  PROVE  TurnInv(r)'
<1> USE DEF TypeOK, consumerVars, driverVars, slotVars, channelVars, streamVars
<1>0. \A q \in granted : driver[q] = "queued"
  BY DEF SlotInv, SlotCore, Queuers
<1>1. CASE AcquireAtOnce(r) \/ AcquireResumed(r)
  <2>1. /\ driver[r] \in {"created", "queued"} /\ driver'[r] = "pumping"
        /\ pump'[r] = "created"
        /\ UNCHANGED <<consumerVars, channelVars, outcome, fate, produced, closer>>
    BY <1>0, <1>1 DEF AcquireAtOnce, AcquireResumed
  <2>2. Counted(r)'
    BY <2>1 DEF TurnInv, Counted, HandedOn
  <2> QED BY <2>1, <2>2, SilentKeepsTurn DEF TurnInv, Truthful
<1>2. CASE AcquireWait(r) \/ CancelledUnstarted(r) \/ CancelledQueued(r)
  <2>1. /\ driver[r] \in {"created", "queued"} /\ driver'[r] \in {"queued", "done"}
        /\ UNCHANGED <<consumerVars, channelVars, outcome, streamVars>>
    BY <1>2 DEF AcquireWait, CancelledUnstarted, CancelledQueued
  <2>2. Counted(r)'
    BY <2>1 DEF TurnInv, Counted, HandedOn
  <2> QED BY <2>1, <2>2, SilentKeepsTurn DEF TurnInv, Truthful
<1>3. CASE PumpEnded(r)
  <2>1. /\ driver[r] = "pumping" /\ driver'[r] = "reapPump"
        /\ outcome'[r] = "end" => fate[r] = "end"
        /\ UNCHANGED <<consumerVars, channelVars, streamVars>>
    BY <1>3 DEF PumpEnded
  <2>2. Counted(r)'
    BY <2>1 DEF TurnInv, Counted, HandedOn
  <2> QED BY <2>1, <2>2, SilentKeepsTurn
<1>4. CASE Deadline(r) \/ CancelledPumping(r)
  <2>1. /\ driver[r] = "pumping" /\ driver'[r] = "reapPump" /\ pump[r] # "created"
        /\ outcome'[r] \in {outcome[r], "deadline"}
        /\ pump'[r] = IF pump[r] = "pacing" THEN "done" ELSE pump[r]
        /\ UNCHANGED <<consumerVars, channelVars, fate, produced, closer>>
    BY <1>4 DEF Deadline, CancelledPumping, CancelPump
  <2>2. Counted(r)'
    BY <2>1 DEF TurnInv, Counted, HandedOn
  <2> QED BY <2>1, <2>2, SilentKeepsTurn DEF TurnInv, Truthful
<1>5. CASE ReapPump(r)
  <2>1. /\ driver[r] = "reapPump" /\ driver'[r] = "reapClose" /\ closer'[r] = "created"
        /\ UNCHANGED <<consumerVars, channelVars, outcome, pump, fate, produced>>
    BY <1>5 DEF ReapPump
  <2>2. Counted(r)'
    BY <2>1 DEF TurnInv, Counted, HandedOn
  <2> QED BY <2>1, <2>2, SilentKeepsTurn DEF TurnInv, Truthful
<1>6. CASE ReapPumpExpired(r)
  <2>1. /\ driver[r] = "reapPump" /\ closer'[r] = "armed" /\ LeaveSlot(r, outcome[r])
        /\ UNCHANGED <<consumerVars, outcome, pace, pump, fate, produced>>
    BY <1>6 DEF ReapPumpExpired
  <2>2. outcome[r] \in {"none"} \cup Outcomes
    OBVIOUS
  <2> QED BY <2>1, <2>2, LeaveSlotKeepsTurn
<1>7. CASE ReapClose(r)
  <2>1. /\ driver[r] = "reapClose" /\ closer'[r] = closer[r] /\ LeaveSlot(r, outcome[r])
        /\ UNCHANGED <<consumerVars, outcome, pace, pump, fate, produced>>
    BY <1>7 DEF ReapClose
  <2>2. closer[r] # "none" /\ outcome[r] \in {"none"} \cup Outcomes
    BY <2>1 DEF TurnInv, Reported
  <2> QED BY <2>1, <2>2, LeaveSlotKeepsTurn
<1>8. CASE CancelledReaping(r)
  <2>1. /\ driver[r] \in {"reapPump", "reapClose"} /\ closer'[r] = closer[r]
        /\ LeaveSlot(r, "none")
        /\ UNCHANGED <<consumerVars, outcome, pace, pump, fate, produced>>
    BY <1>8 DEF CancelledReaping
  <2> QED BY <2>1, LeaveSlotKeepsTurn
<1> QED BY <1>1, <1>2, <1>3, <1>4, <1>5, <1>6, <1>7, <1>8 DEF DriverTask

-----------------------------------------------------------------------------
(* An event is handed on: only by the pump of a driver that has told       *)
(* nothing yet, and with the permit, so that the queue is empty.           *)
LEMMA HandOnKeepsTurn ==
  ASSUME TypeOK, NEW r \in Runs, TurnInv(r), driver[r] = "pumping", pace[r] > 0,
         NEW k \in Kinds,
         pace' = [pace EXCEPT ![r] = @ - 1],
         queue' = [queue EXCEPT ![r] = Append(@, k)],
         UNCHANGED <<consumerVars, driver, outcome, fate, closer>>,
         fate[r] = "none", pump'[r] = "reading",
         produced'[r] = HandedOn(r) + 1
  PROVE  TurnInv(r)'
<1>1. /\ pace'[r] = pace[r] - 1 /\ queue'[r] = Append(queue[r], k)
      /\ UNCHANGED <<guard, item, taken, driver, outcome, fate, closer>>
  BY DEF TypeOK, consumerVars
<1>2. ~Told(queue[r]) /\ item[r] \notin Outcomes
  BY DEF TurnInv, Reported
<1>3. EventsIn(queue[r]) = 0
  BY DEF TurnInv, Permit, EventsIn, TypeOK
<1>4. /\ Orderly(queue'[r]) /\ ~Told(queue'[r]) /\ EventsIn(queue'[r]) = 1
      /\ ~Tells(queue'[r], "end")
  BY <1>1, <1>2, <1>3, PushEvent DEF TurnInv
<1>5. Permit(r)'
  BY <1>1, <1>3, <1>4 DEF TurnInv, Permit, TypeOK
<1>6. Counted(r)'
  BY <1>1, <1>3, <1>4 DEF TurnInv, Counted, HandedOn, TypeOK
<1>7. Reported(r)'
  BY <1>1, <1>2, <1>4 DEF TurnInv, Reported
<1>8. Truthful(r)'
  BY <1>1, <1>4 DEF TurnInv, Truthful
<1> QED BY <1>4, <1>5, <1>6, <1>7, <1>8 DEF TurnInv

LEMMA StreamKeepsTurn ==
  ASSUME TypeOK, WorkInv, NEW r \in Runs, TurnInv(r),
         PumpTask(r) \/ CloserTask(r) \/ Stream(r) \/ StreamUnwound(r)
  PROVE  TurnInv(r)'
<1> USE DEF TypeOK, consumerVars, driverVars, slotVars, channelVars, streamVars
<1>1. CASE PumpStart(r)
  <2>1. /\ pump[r] = "created" /\ pump'[r] = "reading" /\ driver[r] = "pumping"
        /\ UNCHANGED <<consumerVars, channelVars, driver, outcome, fate, produced, closer>>
    BY <1>1 DEF PumpStart, WorkInv
  <2>2. Counted(r)'
    BY <2>1 DEF TurnInv, Counted, HandedOn
  <2> QED BY <2>1, <2>2, SilentKeepsTurn DEF TurnInv, Reported, Truthful
<1>2. ASSUME NEW k \in Kinds, PumpPaced(r, k) PROVE TurnInv(r)'
  <2>1. pump[r] = "pacing" /\ driver[r] = "pumping" /\ fate[r] = "none"
    BY <1>2 DEF PumpPaced, WorkInv, TurnInv, Counted
  <2>2. produced'[r] = HandedOn(r) + 1 /\ pump'[r] = "reading"
    BY <1>2, <2>1 DEF PumpPaced, TurnInv, Counted
  <2> QED BY <1>2, <2>1, <2>2, HandOnKeepsTurn DEF PumpPaced
<1>3. ASSUME NEW k \in Kinds, StreamEmit(r, k) PROVE TurnInv(r)'
  <2>1. /\ pump[r] = "reading" /\ driver[r] = "pumping" /\ fate[r] = "none"
        /\ produced[r] = HandedOn(r)
    BY <1>3 DEF StreamEmit, WorkInv, TurnInv, Counted
  <2>2. produced'[r] = HandedOn(r) + 1
    BY <1>3, <2>1 DEF StreamEmit
  <2>3. CASE pace[r] > 0
    BY <1>3, <2>1, <2>2, <2>3, HandOnKeepsTurn DEF StreamEmit
  <2>4. CASE ~(pace[r] > 0)
    <3>1. /\ pump'[r] = "pacing"
          /\ UNCHANGED <<consumerVars, channelVars, driver, outcome, fate, closer>>
      BY <1>3, <2>4 DEF StreamEmit
    <3>2. Counted(r)'
      BY <2>1, <2>2, <3>1 DEF Counted, HandedOn
    <3> QED BY <2>1, <3>1, <3>2, SilentKeepsTurn DEF TurnInv, Truthful
  <2> QED BY <2>3, <2>4
<1>4. ASSUME NEW f, StreamEnd(r, f) PROVE TurnInv(r)'
  <2>1. /\ pump[r] = "reading" /\ driver[r] = "pumping" /\ fate[r] = "none"
        /\ pump'[r] = "done" /\ produced[r] = HandedOn(r)
        /\ UNCHANGED <<consumerVars, channelVars, driver, outcome, produced, closer>>
    BY <1>4 DEF StreamEnd, WorkInv, TurnInv, Counted
  <2>2. Counted(r)'
    BY <2>1 DEF Counted, HandedOn
  <2>3. outcome'[r] # "end"
    BY <2>1 DEF TurnInv, Truthful
  <2> QED BY <2>1, <2>2, <2>3, SilentKeepsTurn
<1>5. CASE StreamUnwound(r) \/ CloserTask(r)
  <2>1. /\ closer[r] # "none" => closer'[r] # "none"
        /\ pump'[r] = pump[r] \/ (pump[r] = "reading" /\ pump'[r] = "done")
        /\ UNCHANGED <<consumerVars, channelVars, driver, outcome, fate, produced>>
    BY <1>5 DEF StreamUnwound, CloserTask, CloseWhenSettled, CloserStart, Finalize
  <2>2. Counted(r)'
    BY <2>1 DEF TurnInv, Counted, HandedOn
  <2> QED BY <2>1, <2>2, SilentKeepsTurn DEF TurnInv, Reported, Truthful
<1> QED BY <1>1, <1>2, <1>3, <1>4, <1>5 DEF PumpTask, Stream

LEMMA NextEventInv ==
  TypeOK /\ SlotInv /\ WorkInv /\ EventInv /\ [Next]_vars => EventInv'
<1> SUFFICES ASSUME TypeOK, SlotInv, WorkInv, EventInv, [Next]_vars, NEW s \in Runs
             PROVE  TurnInv(s)'
  BY DEF EventInv
<1>0. TurnInv(s)
  BY DEF EventInv
<1>1. ASSUME NEW r \in Runs, Loop(r) \/ Consumer(r) PROVE TurnInv(s)'
  <2>1. CASE s # r
    <3>1. UNCHANGED Seen(s)
      BY <1>1, <2>1, OthersUnseen
    <3> QED BY <1>0, <3>1, TurnFrame
  <2>2. CASE s = r
    BY <1>0, <1>1, <2>2, GuardKeepsTurn, DriverKeepsTurn, StreamKeepsTurn DEF Loop
  <2> QED BY <2>1, <2>2
<1>2. CASE UNCHANGED vars
  <2>1. UNCHANGED Seen(s)
    BY <1>2 DEF vars, Seen, consumerVars, driverVars, channelVars, streamVars
  <2> QED BY <1>0, <2>1, TurnFrame
<1> QED BY <1>1, <1>2 DEF Next, Terminated

(* The inductive invariant of the hand-off between pump and consumer holds *)
(* in every turn.                                                          *)
THEOREM EventInvariant == Spec => []EventInv
<1> QED BY InitEventInv, NextEventInv, WorkInvariant, SlotInvariant, TypeCorrect, PTL DEF Spec

-----------------------------------------------------------------------------
(* guard()'s pace semaphore: its one permit is never lost or duplicated.   *)
THEOREM PermitNeverLost == Spec => []OnePermit
<1>1. EventInv => OnePermit
  <2> SUFFICES ASSUME EventInv, NEW r \in Runs
               PROVE  pace[r] + Cardinality(Buffered(r))
                        + (IF guard[r] = "yielded" THEN 1 ELSE 0) = 1
    BY DEF OnePermit
  <2>1. Permit(r) /\ Orderly(queue[r])
    BY DEF EventInv, TurnInv
  <2>2. Cardinality(Buffered(r)) = EventsIn(queue[r])
    BY <2>1, EventsCounted
  <2> QED BY <2>1, <2>2 DEF Permit
<1> QED BY <1>1, EventInvariant, PTL

(* The adapter never runs more than two events ahead of a consumer that    *)
(* asks, or one ahead of one that has not come back for more.              *)
THEOREM NeverFarAhead == Spec => []LookAhead
<1>1. TypeOK /\ EventInv => LookAhead
  <2> SUFFICES ASSUME TypeOK, EventInv, NEW r \in Runs
               PROVE  produced[r] <= taken[r] + (IF guard[r] = "yielded" THEN 1 ELSE 2)
    BY DEF LookAhead
  <2>1. Permit(r) /\ Counted(r)
    BY DEF EventInv, TurnInv
  <2>2. /\ taken[r] \in Nat /\ produced[r] \in Nat /\ pace[r] \in Nat
        /\ pump[r] \in {"none", "created", "reading", "pacing", "done"}
        /\ EventsIn(queue[r]) \in {0, 1}
    BY DEF TypeOK, EventsIn
  <2>3. produced[r] <= HandedOn(r) + 1
    BY <2>1, <2>2 DEF Counted, HandedOn
  <2>4. guard[r] = "yielded" => EventsIn(queue[r]) = 0
    BY <2>1, <2>2 DEF Permit
  <2> QED BY <2>2, <2>3, <2>4 DEF HandedOn
<1> QED BY <1>1, EventInvariant, TypeCorrect, PTL

(* A consumer that is told that the run ended has had all its events.      *)
THEOREM NormalEndAlwaysComplete == Spec => []NormalEndIsComplete
<1>1. TypeOK /\ EventInv => NormalEndIsComplete
  <2> SUFFICES ASSUME TypeOK, EventInv, NEW r \in Runs, item[r] = "end"
               PROVE  taken[r] = produced[r] /\ fate[r] = "end"
    BY DEF NormalEndIsComplete
  <2>1. Counted(r) /\ Reported(r) /\ Truthful(r)
    BY DEF EventInv, TurnInv
  <2>2. fate[r] = "end" /\ queue[r] = <<>>
    BY <2>1 DEF Truthful, Reported, Outcomes
  <2>3. produced[r] = HandedOn(r) /\ EventsIn(queue[r]) = 0
    BY <2>1, <2>2, NothingQueued DEF Counted
  <2>4. taken[r] \in Nat
    BY DEF TypeOK
  <2> QED BY <2>2, <2>3, <2>4 DEF HandedOn
<1> QED BY <1>1, EventInvariant, TypeCorrect, PTL

(* Who can see how a run ended finds its slot free and its generator       *)
(* closed or about to be.                                                  *)
THEOREM OutcomeAlwaysReaped == Spec => []OutcomeMeansReaped
<1>1. WorkInv /\ EventInv => OutcomeMeansReaped
  <2> SUFFICES ASSUME WorkInv, EventInv, NEW r \in Runs,
                      \/ item[r] \in Outcomes
                      \/ \E i \in DOMAIN queue[r] : queue[r][i] \in Outcomes
               PROVE  driver[r] = "done" /\ closer[r] # "none" /\ gen[r] # "running"
    BY DEF OutcomeMeansReaped
  <2>1. Reported(r)
    BY DEF EventInv, TurnInv
  <2>2. driver[r] = "done" /\ closer[r] # "none"
    BY <2>1 DEF Reported, Told
  <2> QED BY <2>2 DEF WorkInv
<1> QED BY <1>1, EventInvariant, WorkInvariant, PTL
=============================================================================
