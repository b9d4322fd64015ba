--------------------------- MODULE GovernorProofs ---------------------------
(* Theorems about Governor, for any number of runs, slots and events: its  *)
(* types and its slots.  None is leaked or duplicated, no wakeup is lost,  *)
(* health() is exact, and acquire() implements SlotPool.                   *)
EXTENDS Governor, FiniteSetTheorems, SequenceTheorems, TLAPS

(* Removing one element of a sequence leaves the others, in their order.   *)
LEMMA RemoveAtProperties ==
  ASSUME NEW S, NEW s \in Seq(S), NEW i \in 1..Len(s)
  PROVE  /\ RemoveAt(s, i) \in Seq(S)
         /\ Len(RemoveAt(s, i)) = Len(s) - 1
         /\ \A j \in 1..Len(s)-1 :
               RemoveAt(s, i)[j] = IF j < i THEN s[j] ELSE s[j+1]
<1> DEFINE front == SubSeq(s, 1, i-1)
           back  == SubSeq(s, i+1, Len(s))
<1>0. Len(s) \in Nat /\ \A j \in 1..Len(s) : s[j] \in S
  BY LenProperties, ElementOfSeq
<1>1. /\ front \in Seq(S) /\ Len(front) = i-1
      /\ \A j \in 1..i-1 : front[j] = s[j]
  <2>1. \A j \in 1..i-1 : s[j] \in S
    BY <1>0
  <2>2. /\ front \in Seq(S)
        /\ Len(front) = IF 1 <= i-1 THEN i-1-1+1 ELSE 0
        /\ \A j \in 1..(i-1)-1+1 : front[j] = s[1+j-1]
    BY <2>1, SubSeqProperties
  <2> QED BY <2>2, <1>0
<1>2. /\ back \in Seq(S) /\ Len(back) = Len(s)-i
      /\ \A j \in 1..Len(s)-i : back[j] = s[i+j]
  <2>1. \A j \in i+1..Len(s) : s[j] \in S
    BY <1>0
  <2>2. /\ back \in Seq(S)
        /\ Len(back) = IF i+1 <= Len(s) THEN Len(s)-(i+1)+1 ELSE 0
        /\ \A j \in 1..Len(s)-(i+1)+1 : back[j] = s[(i+1)+j-1]
    BY <2>1, <1>0, SubSeqProperties
  <2> QED BY <2>2, <1>0
<1>3. RemoveAt(s, i) = front \o back
  BY DEF RemoveAt
<1> HIDE DEF front, back
<1>4. /\ front \o back \in Seq(S)
      /\ Len(front \o back) = Len(front) + Len(back)
      /\ \A j \in 1..Len(front)+Len(back) :
           (front \o back)[j] = IF j <= Len(front) THEN front[j] ELSE back[j - Len(front)]
  BY <1>1, <1>2, ConcatProperties
<1> QED BY <1>0, <1>1, <1>2, <1>3, <1>4

-----------------------------------------------------------------------------
(* The helpers of the actions keep the types of what they assign.          *)
LEMMA ReleaseSlotType ==
  ASSUME TypeOK, NEW g \in SUBSET Runs, ReleaseSlot(g)
  PROVE  sem' \in Nat /\ granted' \subseteq Runs /\ waiters' \in Seq(Runs)
<1>1. CASE waiters = <<>>
  BY <1>1 DEF TypeOK, ReleaseSlot
<1>2. CASE waiters # <<>>
  <2>1. waiters \in Seq(Runs) /\ sem \in Nat
    BY DEF TypeOK
  <2>2. Head(waiters) \in Runs /\ Tail(waiters) \in Seq(Runs)
    BY <1>2, <2>1, HeadTailProperties
  <2> QED BY <1>2, <2>1, <2>2 DEF ReleaseSlot
<1> QED BY <1>1, <1>2

LEMMA CancelDriverType ==
  ASSUME TypeOK, NEW r \in Runs, CancelDriver(r)
  PROVE  cancelling' \in [Runs -> BOOLEAN] /\ waiters' \in Seq(Runs)
<1>1. CASE driver[r] = "done"
  BY <1>1 DEF TypeOK, CancelDriver
<1>2. CASE driver[r] # "done"
  <2>1. cancelling' \in [Runs -> BOOLEAN]
    BY <1>2 DEF TypeOK, CancelDriver
  <2>2. CASE waiters' = waiters
    BY <2>1, <2>2 DEF TypeOK
  <2>3. CASE \E i \in DOMAIN waiters : waiters' = RemoveAt(waiters, i)
    <3>1. waiters \in Seq(Runs) /\ DOMAIN waiters = 1..Len(waiters)
      BY LenProperties DEF TypeOK
    <3>2. waiters' \in Seq(Runs)
      BY <2>3, <3>1, RemoveAtProperties
    <3> QED BY <2>1, <3>2
  <2> QED BY <1>2, <2>2, <2>3 DEF CancelDriver
<1> QED BY <1>1, <1>2

LEMMA LeaveSlotType ==
  ASSUME TypeOK, NEW r \in Runs, NEW out \in {"none"} \cup Outcomes, LeaveSlot(r, out)
  PROVE  /\ driver' = [driver EXCEPT ![r] = "done"]
         /\ sem' \in Nat /\ granted' \subseteq Runs /\ waiters' \in Seq(Runs)
         /\ active' \in Int
         /\ queue' \in [Runs -> Seq(Kinds \cup Outcomes)]
<1>1. sem' \in Nat /\ granted' \subseteq Runs /\ waiters' \in Seq(Runs)
  BY ReleaseSlotType DEF TypeOK, LeaveSlot
<1>2. queue' \in [Runs -> Seq(Kinds \cup Outcomes)]
  BY AppendProperties DEF TypeOK, LeaveSlot
<1> QED BY <1>1, <1>2 DEF TypeOK, LeaveSlot

LEMMA InitTypeOK == Init => TypeOK
  BY MaxConcurrencyAssumption DEF Init, TypeOK

(* Every step keeps the types, one step of the proof per action.           *)
LEMMA NextTypeOK == TypeOK /\ [Next]_vars => TypeOK'
<1> SUFFICES ASSUME TypeOK, [Next]_vars PROVE TypeOK'
  OBVIOUS
<1> USE DEF TypeOK, HoldingStates, LiveStates, consumerVars, driverVars,
            slotVars, channelVars, streamVars
<1>1. ASSUME NEW r \in Runs, GuardTask(r) PROVE TypeOK'
  <2>1. CASE GuardTakeEvent(r)
    <3>1. queue[r] \in Seq(Kinds \cup Outcomes)
      OBVIOUS
    <3>2. Tail(queue[r]) \in Seq(Kinds \cup Outcomes)
      BY <2>1, <3>1, HeadTailProperties DEF GuardTakeEvent
    <3>3. queue' \in [Runs -> Seq(Kinds \cup Outcomes)]
      BY <2>1, <3>2 DEF GuardTakeEvent
    <3>4. item' \in [Runs -> {"none", "closed"} \cup Kinds \cup Outcomes]
      BY <2>1 DEF GuardTakeEvent
    <3> QED BY <2>1, <3>3, <3>4 DEF GuardTakeEvent
  <2>2. CASE GuardTakeOutcome(r)
    <3>1. queue[r] \in Seq(Kinds \cup Outcomes)
      OBVIOUS
    <3>2. Tail(queue[r]) \in Seq(Kinds \cup Outcomes)
      BY <2>2, <3>1, HeadTailProperties DEF GuardTakeOutcome
    <3>3. cancelling' \in [Runs -> BOOLEAN] /\ waiters' \in Seq(Runs)
      BY <2>2, CancelDriverType DEF GuardTakeOutcome
    <3>4. queue' \in [Runs -> Seq(Kinds \cup Outcomes)]
      BY <2>2, <3>2 DEF GuardTakeOutcome
    <3>5. item' \in [Runs -> {"none", "closed"} \cup Kinds \cup Outcomes]
      BY <2>2 DEF GuardTakeOutcome
    <3> QED BY <2>2, <3>3, <3>4, <3>5 DEF GuardTakeOutcome
  <2>3. CASE GuardFinish(r)
    BY <2>3 DEF GuardFinish
  <2> QED BY <1>1, <2>1, <2>2, <2>3 DEF GuardTask
<1>2. ASSUME NEW r \in Runs, DriverTask(r) PROVE TypeOK'
  <2>1. CASE AcquireAtOnce(r)
    BY <2>1 DEF AcquireAtOnce
  <2>2. CASE AcquireWait(r)
    <3>1. waiters' \in Seq(Runs)
      BY <2>2, AppendProperties DEF AcquireWait
    <3> QED BY <2>2, <3>1 DEF AcquireWait
  <2>3. CASE AcquireResumed(r)
    <3>0. /\ queued' = queued - 1
          /\ active' = active + 1
          /\ driver' = [driver EXCEPT ![r] = "pumping"]
          /\ pump'   = [pump EXCEPT ![r] = "created"]
          /\ UNCHANGED <<consumerVars, outcome, cancelling, channelVars, fate, gen,
                         produced, closer>>
      BY <2>3 DEF AcquireResumed
    <3>1. CASE sem > 0 /\ waiters # <<>>
      <4>1. Head(waiters) \in Runs /\ Tail(waiters) \in Seq(Runs)
        BY <3>1, HeadTailProperties
      <4>2. /\ sem' = sem - 1
            /\ granted' = (granted \ {r}) \cup {Head(waiters)}
            /\ waiters' = Tail(waiters)
        BY <2>3, <3>1 DEF AcquireResumed
      <4>3. sem' \in Nat /\ granted' \subseteq Runs /\ waiters' \in Seq(Runs)
        BY <3>1, <4>1, <4>2
      <4> QED BY <3>0, <4>3
    <3>2. CASE ~(sem > 0 /\ waiters # <<>>)
      <4>1. sem' = sem /\ granted' = granted \ {r} /\ waiters' = waiters
        BY <2>3, <3>2 DEF AcquireResumed
      <4> QED BY <3>0, <4>1
    <3> QED BY <3>1, <3>2
  <2>4. CASE PumpEnded(r)
    <3>1. outcome' \in [Runs -> {"none"} \cup Outcomes]
      BY <2>4 DEF PumpEnded, Outcomes
    <3> QED BY <2>4, <3>1 DEF PumpEnded
  <2>5. CASE Deadline(r)
    <3>1. outcome' \in [Runs -> {"none"} \cup Outcomes]
      BY <2>5 DEF Deadline, Outcomes
    <3> QED BY <2>5, <3>1 DEF Deadline, CancelPump
  <2>6. CASE ReapPump(r)
    BY <2>6 DEF ReapPump
  <2>7. CASE ReapPumpExpired(r)
    <3>1. outcome[r] \in {"none"} \cup Outcomes
      OBVIOUS
    <3> QED BY <2>7, <3>1, LeaveSlotType DEF ReapPumpExpired
  <2>8. CASE ReapClose(r)
    <3>1. outcome[r] \in {"none"} \cup Outcomes
      OBVIOUS
    <3> QED BY <2>8, <3>1, LeaveSlotType DEF ReapClose
  <2>9. CASE CancelledUnstarted(r)
    BY <2>9 DEF CancelledUnstarted
  <2>10. CASE CancelledQueued(r)
    <3>1. sem' \in Nat /\ granted' \subseteq Runs /\ waiters' \in Seq(Runs)
      <4>1. granted \ {r} \in SUBSET Runs
        OBVIOUS
      <4> QED BY <2>10, <4>1, ReleaseSlotType DEF CancelledQueued
    <3>2. /\ queued' = queued - 1
          /\ driver' = [driver EXCEPT ![r] = "done"]
          /\ cancelling' = [cancelling EXCEPT ![r] = FALSE]
          /\ UNCHANGED <<consumerVars, outcome, active, channelVars, streamVars>>
      BY <2>10 DEF CancelledQueued
    <3> QED BY <3>1, <3>2
  <2>11. CASE CancelledPumping(r)
    BY <2>11 DEF CancelledPumping, CancelPump
  <2>12. CASE CancelledReaping(r)
    BY <2>12, LeaveSlotType DEF CancelledReaping
  <2> QED BY <1>2, <2>1, <2>2, <2>3, <2>4, <2>5, <2>6, <2>7, <2>8, <2>9, <2>10,
             <2>11, <2>12 DEF DriverTask
<1>3. ASSUME NEW r \in Runs, PumpTask(r) PROVE TypeOK'
  <2>1. CASE PumpStart(r)
    BY <2>1 DEF PumpStart
  <2>2. ASSUME NEW k \in Kinds, PumpPaced(r, k) PROVE TypeOK'
    <3>1. queue' \in [Runs -> Seq(Kinds \cup Outcomes)]
      BY <2>2, AppendProperties DEF PumpPaced
    <3> QED BY <2>2, <3>1 DEF PumpPaced
  <2> QED BY <1>3, <2>1, <2>2 DEF PumpTask
<1>4. ASSUME NEW r \in Runs, CloserTask(r) PROVE TypeOK'
  BY <1>4 DEF CloserTask, CloseWhenSettled, CloserStart, Finalize
<1>5. ASSUME NEW r \in Runs, Stream(r) PROVE TypeOK'
  <2>1. ASSUME NEW k \in Kinds, StreamEmit(r, k) PROVE TypeOK'
    <3>0. /\ produced' = [produced EXCEPT ![r] = @ + 1]
          /\ UNCHANGED <<consumerVars, driverVars, slotVars, fate, closer>>
      BY <2>1 DEF StreamEmit
    <3>1. CASE pace[r] > 0
      <4>1. queue[r] \in Seq(Kinds \cup Outcomes)
        OBVIOUS
      <4>2. Append(queue[r], k) \in Seq(Kinds \cup Outcomes)
        BY <4>1, AppendProperties
      <4>3. /\ pace' = [pace EXCEPT ![r] = @ - 1]
            /\ queue' = [queue EXCEPT ![r] = Append(@, k)]
            /\ UNCHANGED <<pump, gen>>
        BY <2>1, <3>1 DEF StreamEmit
      <4>4. pace' \in [Runs -> Nat] /\ queue' \in [Runs -> Seq(Kinds \cup Outcomes)]
        BY <3>1, <4>2, <4>3
      <4> QED BY <3>0, <4>3, <4>4
    <3>2. CASE ~(pace[r] > 0)
      <4>1. /\ pump' = [pump EXCEPT ![r] = "pacing"]
            /\ gen'  = [gen EXCEPT ![r] = "suspended"]
            /\ UNCHANGED channelVars
        BY <2>1, <3>2 DEF StreamEmit
      <4> QED BY <3>0, <4>1
    <3> QED BY <3>1, <3>2
  <2>2. ASSUME NEW f \in {"end", "cancelled"} \cup Errors, StreamEnd(r, f)
        PROVE  TypeOK'
    BY <2>2 DEF StreamEnd
  <2> QED BY <1>5, <2>1, <2>2 DEF Stream
<1>6. ASSUME NEW r \in Runs, StreamUnwound(r) PROVE TypeOK'
  BY <1>6 DEF StreamUnwound
<1>7. ASSUME NEW r \in Runs, Consumer(r) PROVE TypeOK'
  <2>1. CASE GuardStart(r)
    BY <2>1 DEF GuardStart
  <2>2. CASE ConsumerNext(r)
    BY <2>2 DEF ConsumerNext
  <2>3. CASE ConsumerClose(r)
    <3>1. cancelling' \in [Runs -> BOOLEAN] /\ waiters' \in Seq(Runs)
      BY <2>3, CancelDriverType DEF ConsumerClose
    <3>2. pace' \in [Runs -> Nat]
      BY <2>3 DEF ConsumerClose
    <3> QED BY <2>3, <3>1, <3>2 DEF ConsumerClose
  <2>4. CASE ConsumerCancel(r)
    <3>1. cancelling' \in [Runs -> BOOLEAN] /\ waiters' \in Seq(Runs)
      BY <2>4, CancelDriverType DEF ConsumerCancel
    <3> QED BY <2>4, <3>1 DEF ConsumerCancel
  <2>5. CASE ConsumerCancelClosing(r)
    BY <2>5 DEF ConsumerCancelClosing
  <2> QED BY <1>7, <2>1, <2>2, <2>3, <2>4, <2>5 DEF Consumer
<1>8. CASE UNCHANGED vars
  BY <1>8 DEF vars
<1> QED BY <1>1, <1>2, <1>3, <1>4, <1>5, <1>6, <1>7, <1>8 DEF Next, Loop, Terminated

(* The variables of the governor keep their types.                         *)
THEOREM TypeCorrect == Spec => []TypeOK
<1> QED BY InitTypeOK, NextTypeOK, PTL DEF Spec

-----------------------------------------------------------------------------
(* The slots.                                                              *)

(* A sequence over S without repetitions.                                  *)
Distinct(q, S) ==
  q \in Seq(S) /\ \A i, j \in 1..Len(q) : q[i] = q[j] => i = j

(* The runs that may be in the semaphore's queue: queued, without a slot   *)
(* yet, and not cancelled.                                                 *)
Sleepers == {s \in Queuers \ granted : ~cancelling[s]}

(* The inductive invariant.  What SlotsAccounted and HealthExact lack is   *)
(* who the waiters are: handing a slot to one that has left, is cancelled  *)
(* or has a slot already would lose it or count it twice.                  *)
SlotCore ==
  /\ granted \subseteq Queuers
  /\ Distinct(waiters, Sleepers)
  /\ SlotsAccounted
  /\ HealthExact
  /\ NoLostWakeup

(* A guard has no driver before its consumer asks for the first event.     *)
SlotInv ==
  /\ SlotCore
  /\ \A r \in Runs : guard[r] = "idle" => driver[r] = "none"

-----------------------------------------------------------------------------
(* Sequences without repetitions.                                          *)
LEMMA SeqOfElements ==
  ASSUME NEW S, NEW T, NEW q \in Seq(S), \A i \in 1..Len(q) : q[i] \in T
  PROVE  q \in Seq(T)
<1>1. Len(q) \in Nat /\ q \in [1..Len(q) -> S]
  BY LenProperties
<1> QED BY <1>1

LEMMA DistinctSubset ==
  ASSUME NEW S, NEW T, S \subseteq T, NEW q, Distinct(q, S)
  PROVE  Distinct(q, T)
<1>1. q \in Seq(S) /\ Len(q) \in Nat /\ \A i \in 1..Len(q) : q[i] \in S
  BY LenProperties, ElementOfSeq DEF Distinct
<1>2. q \in Seq(T)
  BY <1>1, SeqOfElements
<1> QED BY <1>2 DEF Distinct

LEMMA DistinctTail ==
  ASSUME NEW S, NEW q, Distinct(q, S), q # <<>>
  PROVE  Head(q) \in S /\ Distinct(Tail(q), S \ {Head(q)})
<1>1. /\ q \in Seq(S) /\ Len(q) \in Nat \ {0} /\ Head(q) = q[1]
      /\ \A i \in 1..Len(q) : q[i] \in S
  BY EmptySeq, ElementOfSeq DEF Distinct
<1>2. /\ Tail(q) \in Seq(S) /\ Len(Tail(q)) = Len(q) - 1
      /\ \A i \in 1..Len(Tail(q)) : Tail(q)[i] = q[i+1]
  BY <1>1, HeadTailProperties
<1>3. \A i \in 1..Len(Tail(q)) : Tail(q)[i] \in S \ {Head(q)}
  BY <1>1, <1>2 DEF Distinct
<1>4. Tail(q) \in Seq(S \ {Head(q)})
  BY <1>2, <1>3, SeqOfElements
<1>5. \A i, j \in 1..Len(Tail(q)) : Tail(q)[i] = Tail(q)[j] => i = j
  BY <1>1, <1>2 DEF Distinct
<1> QED BY <1>1, <1>4, <1>5 DEF Distinct

LEMMA DistinctAppend ==
  ASSUME NEW S, NEW q, Distinct(q, S), NEW x, x \notin S
  PROVE  Distinct(Append(q, x), S \cup {x})
<1>1. q \in Seq(S \cup {x}) /\ Len(q) \in Nat /\ \A i \in 1..Len(q) : q[i] \in S
  BY DistinctSubset, ElementOfSeq, LenProperties DEF Distinct
<1>2. /\ Append(q, x) \in Seq(S \cup {x})
      /\ Len(Append(q, x)) = Len(q) + 1
      /\ \A i \in 1..Len(q) : Append(q, x)[i] = q[i]
      /\ Append(q, x)[Len(q)+1] = x
  BY <1>1, AppendProperties
<1>3. \A i, j \in 1..Len(q)+1 : Append(q, x)[i] = Append(q, x)[j] => i = j
  BY <1>1, <1>2 DEF Distinct
<1> QED BY <1>2, <1>3 DEF Distinct

LEMMA DistinctRemove ==
  ASSUME NEW S, NEW q, Distinct(q, S), NEW i \in 1..Len(q)
  PROVE  Distinct(RemoveAt(q, i), S \ {q[i]})
<1>1. q \in Seq(S) /\ Len(q) \in Nat /\ \A j \in 1..Len(q) : q[j] \in S
  BY ElementOfSeq, LenProperties DEF Distinct
<1>2. /\ RemoveAt(q, i) \in Seq(S)
      /\ Len(RemoveAt(q, i)) = Len(q) - 1
      /\ \A j \in 1..Len(q)-1 : RemoveAt(q, i)[j] = IF j < i THEN q[j] ELSE q[j+1]
  BY <1>1, RemoveAtProperties
<1>3. \A j \in 1..Len(q)-1 : RemoveAt(q, i)[j] \in S \ {q[i]}
  BY <1>1, <1>2 DEF Distinct
<1>4. RemoveAt(q, i) \in Seq(S \ {q[i]})
  BY <1>2, <1>3, SeqOfElements
<1>5. \A j, k \in 1..Len(q)-1 : RemoveAt(q, i)[j] = RemoveAt(q, i)[k] => j = k
  BY <1>1, <1>2 DEF Distinct
<1> QED BY <1>2, <1>4, <1>5 DEF Distinct

-----------------------------------------------------------------------------
(* Who holds a slot and who waits for one, when a driver moves.            *)
LEMMA DriverMoves ==
  ASSUME TypeOK, NEW r \in Runs, NEW x, driver' = [driver EXCEPT ![r] = x]
  PROVE  /\ Holders' = IF x \in HoldingStates THEN Holders \cup {r} ELSE Holders \ {r}
         /\ Queuers' = IF x = "queued" THEN Queuers \cup {r} ELSE Queuers \ {r}
<1>1. driver \in [Runs -> {driver[s] : s \in Runs}]
  BY DEF TypeOK
<1>2. \A s \in Runs : driver'[s] = IF s = r THEN x ELSE driver[s]
  BY <1>1
<1>3. Holders' = IF x \in HoldingStates THEN Holders \cup {r} ELSE Holders \ {r}
  BY <1>2 DEF Holders
<1>4. Queuers' = IF x = "queued" THEN Queuers \cup {r} ELSE Queuers \ {r}
  BY <1>2 DEF Queuers
<1> QED BY <1>3, <1>4

LEMMA DriverEnters ==
  ASSUME TypeOK, NEW r \in Runs, NEW x \in HoldingStates,
         driver' = [driver EXCEPT ![r] = x]
  PROVE  Holders' = Holders \cup {r} /\ Queuers' = Queuers \ {r}
<1>1. x # "queued"
  BY DEF HoldingStates
<1> QED BY <1>1, DriverMoves

LEMMA DriverQueues ==
  ASSUME TypeOK, NEW r \in Runs, driver' = [driver EXCEPT ![r] = "queued"]
  PROVE  Holders' = Holders \ {r} /\ Queuers' = Queuers \cup {r}
<1>1. "queued" \notin HoldingStates
  BY DEF HoldingStates
<1> QED BY <1>1, DriverMoves

LEMMA DriverLeaves ==
  ASSUME TypeOK, NEW r \in Runs, NEW x \in {"created", "done"},
         driver' = [driver EXCEPT ![r] = x]
  PROVE  Holders' = Holders \ {r} /\ Queuers' = Queuers \ {r}
<1>1. x \notin HoldingStates /\ x # "queued"
  BY DEF HoldingStates
<1> QED BY <1>1, DriverMoves

LEMMA FiniteRuns ==
  ASSUME NEW S \in SUBSET Runs
  PROVE  /\ IsFiniteSet(S)
         /\ Cardinality(S) \in Nat
         /\ \A r : Cardinality(S \cup {r}) = IF r \in S THEN Cardinality(S) ELSE Cardinality(S) + 1
         /\ \A r : Cardinality(S \ {r}) = IF r \in S THEN Cardinality(S) - 1 ELSE Cardinality(S)
  BY RunsAssumption, FS_Subset, FS_CardinalityType, FS_AddElement, FS_RemoveElement

LEMMA Disjoint ==
  /\ Holders \subseteq Runs /\ Queuers \subseteq Runs
  /\ Holders \cap Queuers = {}
  BY DEF Holders, Queuers, HoldingStates

(* A step that moves no slot and touches no waiter keeps the invariant.    *)
SlotFrame ==
  /\ UNCHANGED slotVars
  /\ Holders' = Holders /\ Queuers' = Queuers
  /\ \A s \in Queuers : cancelling'[s] = cancelling[s]

LEMMA FrameKeeps ==
  ASSUME SlotCore, SlotFrame PROVE SlotCore'
<1>1. Sleepers' = Sleepers
  BY DEF SlotFrame, slotVars, Sleepers
<1> QED BY <1>1 DEF SlotCore, SlotFrame, slotVars, Distinct, SlotsAccounted,
                    HealthExact, NoLostWakeup

(* driver.cancel() takes a waiter without a slot out of the queue.         *)
LEMMA CancelDriverKeeps ==
  ASSUME TypeOK, SlotCore, NEW r \in Runs, CancelDriver(r),
         UNCHANGED <<driver, sem, granted, active, queued>>
  PROVE  SlotCore'
<1>1. Holders' = Holders /\ Queuers' = Queuers
  BY DEF Holders, Queuers
<1>2. SlotsAccounted' /\ HealthExact' /\ granted' \subseteq Queuers'
  BY <1>1 DEF SlotCore, SlotsAccounted, HealthExact
<1>3. Distinct(waiters', Sleepers') /\ NoLostWakeup'
  <2>1. CASE driver[r] = "done"
    <3>1. Sleepers' = Sleepers /\ waiters' = waiters
      BY <1>1, <2>1 DEF CancelDriver, Sleepers
    <3> QED BY <3>1 DEF SlotCore, NoLostWakeup
  <2>2. CASE driver[r] # "done"
    <3>1. Sleepers' = Sleepers \ {r}
      BY <1>1, <2>2 DEF CancelDriver, Sleepers, TypeOK, Queuers
    <3>2. waiters \in Seq(Runs) /\ DOMAIN waiters = 1..Len(waiters)
      BY LenProperties DEF TypeOK
    <3>3. CASE \E i \in DOMAIN waiters : waiters[i] = r
      <4>1. PICK i \in 1..Len(waiters) : waiters[i] = r /\ waiters' = RemoveAt(waiters, i)
        BY <2>2, <3>2, <3>3 DEF CancelDriver
      <4>2. Distinct(waiters', Sleepers')
        BY <3>1, <4>1, DistinctRemove DEF SlotCore
      <4>3. waiters # <<>>
        BY <3>2, <3>3
      <4> QED BY <4>2, <4>3 DEF SlotCore, NoLostWakeup
    <3>4. CASE ~\E i \in DOMAIN waiters : waiters[i] = r
      <4>1. waiters' = waiters
        BY <2>2, <3>4 DEF CancelDriver
      <4>2. \A i \in 1..Len(waiters) : waiters[i] \in Sleepers \ {r}
        BY <3>2, <3>4, ElementOfSeq DEF SlotCore, Distinct
      <4>3. waiters \in Seq(Sleepers \ {r})
        BY <3>2, <4>2, SeqOfElements
      <4> QED BY <3>1, <4>1, <4>3 DEF SlotCore, Distinct, NoLostWakeup
    <3> QED BY <3>3, <3>4
  <2> QED BY <2>1, <2>2
<1> QED BY <1>2, <1>3 DEF SlotCore

(* Semaphore.release() hands on the slot that its caller has given up: the *)
(* slots add up again, and the waiter that gets it is a queued one.        *)
LEMMA ReleaseSlotKeeps ==
  ASSUME TypeOK, SlotCore, NEW g \in SUBSET granted, ReleaseSlot(g)
  PROVE  /\ sem' + Cardinality(granted') = sem + Cardinality(g) + 1
         /\ granted' \subseteq Queuers
         /\ granted' \subseteq g \cup Sleepers
         /\ Distinct(waiters', Sleepers \ granted')
         /\ NoLostWakeup'
<1>1. granted \in SUBSET Runs /\ g \in SUBSET Runs /\ sem \in Nat
  BY DEF TypeOK
<1>2. CASE waiters = <<>>
  <2>1. sem' = sem + 1 /\ granted' = g /\ waiters' = waiters
    BY <1>2 DEF ReleaseSlot
  <2>2. Sleepers \ granted' = Sleepers
    BY <2>1 DEF Sleepers
  <2>3. sem' + Cardinality(granted') = sem + Cardinality(g) + 1
    BY <1>1, <2>1, FiniteRuns
  <2> QED BY <1>2, <2>1, <2>2, <2>3 DEF SlotCore, NoLostWakeup
<1>3. CASE waiters # <<>>
  <2>1. sem' = sem /\ granted' = g \cup {Head(waiters)} /\ waiters' = Tail(waiters)
    BY <1>3 DEF ReleaseSlot
  <2>2. Head(waiters) \in Sleepers /\ Distinct(Tail(waiters), Sleepers \ {Head(waiters)})
    BY <1>3, DistinctTail DEF SlotCore
  <2>3. Sleepers \ granted' = Sleepers \ {Head(waiters)}
    BY <2>1 DEF Sleepers
  <2>4. Head(waiters) \notin g
    BY <2>2 DEF Sleepers
  <2>5. sem' + Cardinality(granted') = sem + Cardinality(g) + 1
    BY <1>1, <2>1, <2>4, FiniteRuns
  <2>6. granted' \subseteq Queuers /\ granted' \subseteq g \cup Sleepers
    BY <2>1, <2>2 DEF Sleepers, SlotCore
  <2>7. NoLostWakeup'
    BY <2>1 DEF NoLostWakeup
  <2> QED BY <2>1, <2>2, <2>3, <2>5, <2>6, <2>7
<1> QED BY <1>2, <1>3

LEMMA LeaveSlotKeeps ==
  ASSUME TypeOK, SlotCore, NEW r \in Holders, NEW out, LeaveSlot(r, out),
         UNCHANGED queued, \A s \in Queuers : cancelling'[s] = cancelling[s]
  PROVE  SlotCore'
<1>1. r \in Runs /\ r \notin Queuers
  BY Disjoint
<1>2. Holders' = Holders \ {r} /\ Queuers' = Queuers
  <2>1. driver' = [driver EXCEPT ![r] = "done"]
    BY DEF LeaveSlot
  <2>2. Holders' = Holders \ {r} /\ Queuers' = Queuers \ {r}
    BY <1>1, <2>1, DriverLeaves
  <2> QED BY <1>1, <2>2
<1>3. /\ sem' + Cardinality(granted') = sem + Cardinality(granted) + 1
      /\ granted' \subseteq Queuers
      /\ granted' \subseteq granted \cup Sleepers
      /\ Distinct(waiters', Sleepers \ granted')
      /\ NoLostWakeup'
  BY ReleaseSlotKeeps DEF LeaveSlot
<1>4. Cardinality(Holders') = Cardinality(Holders) - 1 /\ Cardinality(Holders) \in Nat
  BY <1>2, FiniteRuns, Disjoint
<1>5. SlotsAccounted' /\ HealthExact'
  <2>1. granted \in SUBSET Runs /\ granted' \in SUBSET Runs /\ sem \in Nat
    BY <1>3, Disjoint DEF TypeOK
  <2>2. Cardinality(granted) \in Nat /\ Cardinality(granted') \in Nat /\ sem' \in Nat
    BY <2>1, FiniteRuns, ReleaseSlotType DEF LeaveSlot
  <2>3. active' = active - 1 /\ queued' = queued
    BY DEF LeaveSlot
  <2> QED BY <1>2, <1>3, <1>4, <2>1, <2>2, <2>3, MaxConcurrencyAssumption
          DEF SlotCore, SlotsAccounted, HealthExact
<1>6. Distinct(waiters', Sleepers')
  <2>1. Sleepers \ granted' \subseteq Sleepers'
    BY <1>2 DEF Sleepers
  <2> QED BY <1>3, <2>1, DistinctSubset
<1> QED BY <1>2, <1>3, <1>5, <1>6 DEF SlotCore

LEMMA CancelledQueuedKeeps ==
  ASSUME TypeOK, SlotCore, NEW r \in Runs, CancelledQueued(r)
  PROVE  SlotCore'
<1>1. /\ cancelling[r] /\ driver[r] = "queued" /\ r \in Queuers /\ r \notin Sleepers
      /\ queued' = queued - 1 /\ active' = active
      /\ driver' = [driver EXCEPT ![r] = "done"]
      /\ cancelling' = [cancelling EXCEPT ![r] = FALSE]
  BY DEF CancelledQueued, Queuers, Sleepers
<1>2. Holders' = Holders /\ Queuers' = Queuers \ {r}
  <2>1. Holders' = Holders \ {r} /\ Queuers' = Queuers \ {r}
    BY <1>1, DriverLeaves
  <2> QED BY <1>1, <2>1, Disjoint
<1>3. \A s \in Queuers' : cancelling'[s] = cancelling[s]
  BY <1>1, <1>2, Disjoint DEF TypeOK
<1>4. HealthExact'
  <2>1. Cardinality(Queuers') = Cardinality(Queuers) - 1 /\ Cardinality(Queuers) \in Nat
    BY <1>1, <1>2, FiniteRuns, Disjoint
  <2> QED BY <1>1, <1>2, <2>1 DEF SlotCore, HealthExact
<1>5. CASE r \in granted
  <2>1. ReleaseSlot(granted \ {r})
    BY <1>5 DEF CancelledQueued
  <2>2. /\ sem' + Cardinality(granted') = sem + Cardinality(granted \ {r}) + 1
        /\ granted' \subseteq Queuers
        /\ granted' \subseteq (granted \ {r}) \cup Sleepers
        /\ Distinct(waiters', Sleepers \ granted')
        /\ NoLostWakeup'
    BY <2>1, ReleaseSlotKeeps
  <2>3. granted' \subseteq Queuers'
    BY <1>1, <1>2, <2>2
  <2>4. SlotsAccounted'
    <3>1. granted \in SUBSET Runs /\ granted' \in SUBSET Runs /\ sem \in Nat
      BY <2>2, Disjoint DEF TypeOK
    <3>2. /\ Cardinality(granted \ {r}) = Cardinality(granted) - 1
          /\ Cardinality(granted) \in Nat /\ Cardinality(granted') \in Nat
          /\ Cardinality(Holders) \in Nat
      BY <1>5, <3>1, FiniteRuns, Disjoint
    <3>3. sem' \in Nat
      BY <2>1, <3>1, ReleaseSlotType
    <3> QED BY <1>2, <2>2, <3>1, <3>2, <3>3, MaxConcurrencyAssumption
            DEF SlotCore, SlotsAccounted
  <2>5. Distinct(waiters', Sleepers')
    <3>1. Sleepers \ granted' \subseteq Sleepers'
      BY <1>1, <1>2, <1>3 DEF Sleepers
    <3> QED BY <2>2, <3>1, DistinctSubset
  <2> QED BY <1>4, <2>2, <2>3, <2>4, <2>5 DEF SlotCore
<1>6. CASE r \notin granted
  <2>1. UNCHANGED <<sem, granted, waiters>>
    BY <1>6 DEF CancelledQueued
  <2>2. Sleepers' = Sleepers
    BY <1>1, <1>2, <1>3, <2>1 DEF Sleepers
  <2>3. granted' \subseteq Queuers'
    BY <1>2, <1>6, <2>1 DEF SlotCore
  <2> QED BY <1>2, <1>4, <2>1, <2>2, <2>3 DEF SlotCore, SlotsAccounted, NoLostWakeup
<1> QED BY <1>5, <1>6

-----------------------------------------------------------------------------
(* The three ways into acquire().                                          *)
LEMMA AcquireAtOnceKeeps ==
  ASSUME TypeOK, SlotCore, NEW r \in Runs, AcquireAtOnce(r)
  PROVE  SlotCore'
<1>1. /\ driver[r] = "created" /\ r \notin Holders /\ r \notin Queuers
      /\ driver' = [driver EXCEPT ![r] = "pumping"]
      /\ sem > 0 /\ waiters = <<>> /\ sem' = sem - 1 /\ active' = active + 1
      /\ UNCHANGED <<granted, waiters, queued, cancelling>>
  BY DEF AcquireAtOnce, Holders, Queuers, HoldingStates
<1>2. Holders' = Holders \cup {r} /\ Queuers' = Queuers
  <2>1. Holders' = Holders \cup {r} /\ Queuers' = Queuers \ {r}
    BY <1>1, DriverEnters DEF HoldingStates
  <2> QED BY <1>1, <2>1
<1>3. Cardinality(Holders') = Cardinality(Holders) + 1 /\ Cardinality(Holders) \in Nat
  BY <1>1, <1>2, FiniteRuns, Disjoint
<1>4. SlotsAccounted' /\ HealthExact'
  <2>1. sem \in Nat /\ Cardinality(granted) \in Nat
    BY FiniteRuns DEF TypeOK
  <2> QED BY <1>1, <1>2, <1>3, <2>1, MaxConcurrencyAssumption
          DEF SlotCore, SlotsAccounted, HealthExact
<1>5. Sleepers' = Sleepers
  BY <1>1, <1>2 DEF Sleepers
<1> QED BY <1>1, <1>2, <1>4, <1>5 DEF SlotCore, NoLostWakeup

LEMMA AcquireWaitKeeps ==
  ASSUME TypeOK, SlotCore, NEW r \in Runs, AcquireWait(r)
  PROVE  SlotCore'
<1>1. /\ driver[r] = "created" /\ r \notin Holders /\ r \notin Queuers /\ ~cancelling[r]
      /\ driver' = [driver EXCEPT ![r] = "queued"]
      /\ sem = 0 \/ waiters # <<>> \/ granted # {}
      /\ waiters' = Append(waiters, r) /\ queued' = queued + 1
      /\ UNCHANGED <<granted, sem, active, cancelling>>
  BY DEF AcquireWait, Holders, Queuers, HoldingStates
<1>2. Holders' = Holders /\ Queuers' = Queuers \cup {r}
  <2>1. Holders' = Holders \ {r} /\ Queuers' = Queuers \cup {r}
    BY <1>1, DriverQueues
  <2> QED BY <1>1, <2>1
<1>3. Cardinality(Queuers') = Cardinality(Queuers) + 1 /\ Cardinality(Queuers) \in Nat
  BY <1>1, <1>2, FiniteRuns, Disjoint
<1>4. Sleepers' = Sleepers \cup {r} /\ r \notin Sleepers
  BY <1>1, <1>2 DEF Sleepers, SlotCore
<1>5. Distinct(waiters', Sleepers')
  BY <1>1, <1>4, DistinctAppend DEF SlotCore
<1>6. NoLostWakeup'
  BY <1>1 DEF SlotCore, NoLostWakeup, TypeOK
<1> QED BY <1>1, <1>2, <1>3, <1>5, <1>6 DEF SlotCore, SlotsAccounted, HealthExact

LEMMA AcquireResumedKeeps ==
  ASSUME TypeOK, SlotCore, NEW r \in Runs, AcquireResumed(r)
  PROVE  SlotCore'
<1>1. /\ r \in granted /\ r \in Queuers /\ r \notin Holders
      /\ driver' = [driver EXCEPT ![r] = "pumping"]
      /\ queued' = queued - 1 /\ active' = active + 1 /\ cancelling' = cancelling
  BY Disjoint DEF AcquireResumed, SlotCore
<1>2. Holders' = Holders \cup {r} /\ Queuers' = Queuers \ {r}
  BY <1>1, DriverEnters DEF HoldingStates
<1>3. /\ Cardinality(Holders') = Cardinality(Holders) + 1 /\ Cardinality(Holders) \in Nat
      /\ Cardinality(Queuers') = Cardinality(Queuers) - 1 /\ Cardinality(Queuers) \in Nat
  BY <1>1, <1>2, FiniteRuns, Disjoint
<1>4. HealthExact'
  BY <1>1, <1>3 DEF SlotCore, HealthExact
<1>5. /\ granted \in SUBSET Runs /\ sem \in Nat /\ Cardinality(granted) \in Nat
      /\ Cardinality(granted \ {r}) = Cardinality(granted) - 1
  BY <1>1, FiniteRuns DEF TypeOK
<1>6. CASE sem > 0 /\ waiters # <<>>
  <2>1. /\ sem' = sem - 1 /\ waiters' = Tail(waiters)
        /\ granted' = (granted \ {r}) \cup {Head(waiters)}
    BY <1>6 DEF AcquireResumed
  <2>2. Head(waiters) \in Sleepers /\ Distinct(Tail(waiters), Sleepers \ {Head(waiters)})
    BY <1>6, DistinctTail DEF SlotCore
  <2>3. granted' \subseteq Queuers'
    BY <1>1, <1>2, <2>1, <2>2 DEF Sleepers, SlotCore
  <2>4. Sleepers' = Sleepers \ {Head(waiters)}
    BY <1>1, <1>2, <2>1, <2>2 DEF Sleepers
  <2>5. Cardinality(granted') = Cardinality(granted)
    <3>1. Head(waiters) \notin granted \ {r} /\ granted \ {r} \in SUBSET Runs
      BY <1>5, <2>2 DEF Sleepers
    <3>2. Cardinality((granted \ {r}) \cup {Head(waiters)}) = Cardinality(granted \ {r}) + 1
      BY <3>1, FiniteRuns
    <3> QED BY <1>5, <2>1, <3>2
  <2>6. SlotsAccounted'
    BY <1>3, <1>5, <2>1, <2>5, MaxConcurrencyAssumption DEF SlotCore, SlotsAccounted
  <2> QED BY <1>4, <2>1, <2>2, <2>3, <2>4, <2>6 DEF SlotCore, NoLostWakeup
<1>7. CASE ~(sem > 0 /\ waiters # <<>>)
  <2>1. sem' = sem /\ waiters' = waiters /\ granted' = granted \ {r}
    BY <1>7 DEF AcquireResumed
  <2>2. Sleepers' = Sleepers
    BY <1>1, <1>2, <2>1 DEF Sleepers
  <2>3. SlotsAccounted'
    BY <1>3, <1>5, <2>1, MaxConcurrencyAssumption DEF SlotCore, SlotsAccounted
  <2>4. granted' \subseteq Queuers'
    BY <1>2, <2>1 DEF SlotCore
  <2> QED BY <1>4, <1>7, <2>1, <2>2, <2>3, <2>4 DEF SlotCore, NoLostWakeup
<1> QED BY <1>6, <1>7

-----------------------------------------------------------------------------
LEMMA InitSlotInv == Init => SlotInv
<1> SUFFICES ASSUME Init PROVE SlotInv
  OBVIOUS
<1>1. Holders = {} /\ Queuers = {} /\ granted = {} /\ waiters = <<>>
  BY DEF Init, Holders, Queuers, HoldingStates
<1>2. Distinct(waiters, Sleepers)
  BY <1>1, EmptySeq DEF Distinct
<1>3. SlotsAccounted /\ HealthExact
  BY <1>1, FS_EmptySet, MaxConcurrencyAssumption DEF Init, SlotsAccounted, HealthExact
<1> QED BY <1>1, <1>2, <1>3 DEF Init, SlotInv, SlotCore, NoLostWakeup

(* The parties of a run that have nothing to do with slots.                *)
LEMMA OthersFrame ==
  ASSUME TypeOK, NEW r \in Runs,
         \/ GuardTakeEvent(r) \/ GuardFinish(r)
         \/ PumpTask(r) \/ CloserTask(r) \/ Stream(r) \/ StreamUnwound(r)
         \/ ConsumerNext(r) \/ ConsumerCancelClosing(r) \/ UNCHANGED vars
  PROVE  SlotFrame
<1>1. UNCHANGED <<slotVars, driver, cancelling>>
  BY DEF GuardTakeEvent, GuardFinish, PumpTask, PumpStart, PumpPaced, CloserTask,
         CloseWhenSettled, CloserStart, Finalize, Stream, StreamEmit, StreamEnd,
         StreamUnwound, ConsumerNext, ConsumerCancelClosing, vars, driverVars
<1> QED BY <1>1 DEF SlotFrame, Holders, Queuers

(* The steps of a driver inside or outside its slot that leave the slots   *)
(* alone.                                                                  *)
LEMMA DriverFrame ==
  ASSUME TypeOK, NEW r \in Runs, guard[r] = "idle" => driver[r] = "none",
         \/ GuardStart(r) \/ PumpEnded(r) \/ Deadline(r) \/ ReapPump(r)
         \/ CancelledUnstarted(r) \/ CancelledPumping(r)
  PROVE  SlotFrame
<1>1. CASE GuardStart(r) \/ CancelledUnstarted(r)
  <2>1. PICK x \in {"created", "done"} : driver' = [driver EXCEPT ![r] = x]
    BY <1>1 DEF GuardStart, CancelledUnstarted
  <2>2. r \notin Holders /\ r \notin Queuers
    BY <1>1 DEF GuardStart, CancelledUnstarted, Holders, Queuers, HoldingStates
  <2>3. Holders' = Holders /\ Queuers' = Queuers
    <3>1. Holders' = Holders \ {r} /\ Queuers' = Queuers \ {r}
      BY <2>1, DriverLeaves
    <3> QED BY <2>2, <3>1
  <2>4. UNCHANGED slotVars /\ \A s \in Runs : s # r => cancelling'[s] = cancelling[s]
    BY <1>1 DEF GuardStart, CancelledUnstarted, TypeOK
  <2> QED BY <2>2, <2>3, <2>4, Disjoint DEF SlotFrame
<1>2. CASE PumpEnded(r) \/ Deadline(r) \/ ReapPump(r) \/ CancelledPumping(r)
  <2>1. PICK x \in HoldingStates : driver' = [driver EXCEPT ![r] = x]
    BY <1>2 DEF PumpEnded, Deadline, ReapPump, CancelledPumping, HoldingStates
  <2>2. r \in Holders /\ r \notin Queuers
    BY <1>2 DEF PumpEnded, Deadline, ReapPump, CancelledPumping, Holders, Queuers,
                HoldingStates
  <2>3. Holders' = Holders /\ Queuers' = Queuers
    <3>1. Holders' = Holders \cup {r} /\ Queuers' = Queuers \ {r}
      BY <2>1, DriverEnters
    <3> QED BY <2>2, <3>1
  <2>4. UNCHANGED slotVars /\ \A s \in Runs : s # r => cancelling'[s] = cancelling[s]
    BY <1>2 DEF PumpEnded, Deadline, ReapPump, CancelledPumping, TypeOK
  <2> QED BY <2>2, <2>3, <2>4, Disjoint DEF SlotFrame
<1> QED BY <1>1, <1>2

LEMMA LeavingStep ==
  ASSUME TypeOK, NEW r \in Runs,
         ReapPumpExpired(r) \/ ReapClose(r) \/ CancelledReaping(r)
  PROVE  /\ r \in Holders
         /\ \E out : LeaveSlot(r, out)
         /\ UNCHANGED queued
         /\ \A s \in Queuers : cancelling'[s] = cancelling[s]
<1>1. r \in Holders /\ r \notin Queuers
  BY DEF ReapPumpExpired, ReapClose, CancelledReaping, Holders, Queuers, HoldingStates
<1>2. UNCHANGED queued /\ \A s \in Runs : s # r => cancelling'[s] = cancelling[s]
  BY DEF ReapPumpExpired, ReapClose, CancelledReaping, TypeOK
<1>3. \E out : LeaveSlot(r, out)
  BY DEF ReapPumpExpired, ReapClose, CancelledReaping
<1> QED BY <1>1, <1>2, <1>3, Disjoint

LEMMA CancellingStep ==
  ASSUME NEW r \in Runs, GuardTakeOutcome(r) \/ ConsumerClose(r) \/ ConsumerCancel(r)
  PROVE  CancelDriver(r) /\ UNCHANGED <<driver, sem, granted, active, queued>>
BY DEF GuardTakeOutcome, ConsumerClose, ConsumerCancel

(* The inductive step, by what an action does to the slots.                *)
LEMMA NextSlotCore ==
  ASSUME TypeOK, SlotInv, [Next]_vars PROVE SlotCore'
<1> USE DEF SlotInv
<1>1. ASSUME NEW r \in Runs,
             \/ GuardTakeEvent(r) \/ GuardFinish(r)
             \/ PumpTask(r) \/ CloserTask(r) \/ Stream(r) \/ StreamUnwound(r)
             \/ ConsumerNext(r) \/ ConsumerCancelClosing(r)
      PROVE  SlotCore'
  BY <1>1, OthersFrame, FrameKeeps
<1>2. ASSUME NEW r \in Runs,
             \/ GuardStart(r) \/ PumpEnded(r) \/ Deadline(r) \/ ReapPump(r)
             \/ CancelledUnstarted(r) \/ CancelledPumping(r)
      PROVE  SlotCore'
  BY <1>2, DriverFrame, FrameKeeps
<1>3. ASSUME NEW r \in Runs,
             GuardTakeOutcome(r) \/ ConsumerClose(r) \/ ConsumerCancel(r)
      PROVE  SlotCore'
  BY <1>3, CancellingStep, CancelDriverKeeps
<1>4. ASSUME NEW r \in Runs,
             ReapPumpExpired(r) \/ ReapClose(r) \/ CancelledReaping(r)
      PROVE  SlotCore'
  BY <1>4, LeavingStep, LeaveSlotKeeps
<1>5. ASSUME NEW r \in Runs, CancelledQueued(r) PROVE SlotCore'
  BY <1>5, CancelledQueuedKeeps
<1>6. ASSUME NEW r \in Runs, AcquireAtOnce(r) \/ AcquireWait(r) \/ AcquireResumed(r)
      PROVE  SlotCore'
  BY <1>6, AcquireAtOnceKeeps, AcquireWaitKeeps, AcquireResumedKeeps
<1>7. CASE UNCHANGED vars
  <2>1. UNCHANGED <<slotVars, driver, cancelling>>
    BY <1>7 DEF vars, driverVars
  <2>2. SlotFrame
    BY <2>1 DEF SlotFrame, Holders, Queuers
  <2> QED BY <2>2, FrameKeeps
<1> QED
  BY <1>1, <1>2, <1>3, <1>4, <1>5, <1>6, <1>7
  DEF Next, Loop, GuardTask, DriverTask, Consumer, Terminated

LEMMA NextIdle ==
  ASSUME TypeOK, SlotInv, [Next]_vars, NEW s \in Runs, guard'[s] = "idle"
  PROVE  driver'[s] = "none"
<1>1. ASSUME NEW r \in Runs, guard' = guard \/ guard'[r] # "idle",
             \A q \in Runs : q # r => guard'[q] = guard[q],
             \A q \in Runs : q # r => driver'[q] = driver[q],
             driver[r] = "none" => driver'[r] = "none" \/ guard'[r] # "idle"
      PROVE  driver'[s] = "none"
  BY <1>1 DEF SlotInv
<1> USE DEF TypeOK, consumerVars, driverVars
<1>2. ASSUME NEW r \in Runs, Consumer(r) PROVE driver'[s] = "none"
  BY <1>1, <1>2 DEF Consumer, GuardStart, ConsumerNext, ConsumerClose, ConsumerCancel,
                    ConsumerCancelClosing
<1>3. ASSUME NEW r \in Runs, GuardTask(r) PROVE driver'[s] = "none"
  BY <1>1, <1>3 DEF GuardTask, GuardTakeEvent, GuardTakeOutcome, GuardFinish
<1>4. ASSUME NEW r \in Runs, DriverTask(r) PROVE driver'[s] = "none"
  <2>1. guard' = guard
    BY <1>4 DEF DriverTask, AcquireAtOnce, AcquireWait, AcquireResumed, PumpEnded,
                Deadline, ReapPump, ReapPumpExpired, ReapClose, CancelledUnstarted,
                CancelledQueued, CancelledPumping, CancelledReaping
  <2>2. \E x : driver' = [driver EXCEPT ![r] = x]
    BY <1>4 DEF DriverTask, AcquireAtOnce, AcquireWait, AcquireResumed, PumpEnded,
                Deadline, ReapPump, ReapPumpExpired, ReapClose, CancelledUnstarted,
                CancelledQueued, CancelledPumping, CancelledReaping, LeaveSlot
  <2>3. driver[r] # "none"
    <3>1. r \in granted => driver[r] = "queued"
      BY DEF SlotInv, SlotCore, Queuers
    <3> QED BY <1>4, <3>1
            DEF DriverTask, AcquireAtOnce, AcquireWait, AcquireResumed, PumpEnded,
                Deadline, ReapPump, ReapPumpExpired, ReapClose, CancelledUnstarted,
                CancelledQueued, CancelledPumping, CancelledReaping
  <2> QED BY <1>1, <2>1, <2>2, <2>3
<1>5. ASSUME UNCHANGED <<guard, driver>> PROVE driver'[s] = "none"
  BY <1>5 DEF SlotInv
<1>6. ASSUME NEW r \in Runs, PumpTask(r) \/ CloserTask(r) \/ Stream(r) \/ StreamUnwound(r)
      PROVE  UNCHANGED <<guard, driver>>
  BY <1>6 DEF PumpTask, PumpStart, PumpPaced, CloserTask, CloseWhenSettled, CloserStart,
              Finalize, Stream, StreamEmit, StreamEnd, StreamUnwound
<1>7. CASE UNCHANGED vars
  BY <1>5, <1>7 DEF vars
<1> QED BY <1>2, <1>3, <1>4, <1>5, <1>6, <1>7 DEF Next, Loop, Terminated

LEMMA NextSlotInv == TypeOK /\ SlotInv /\ [Next]_vars => SlotInv'
BY NextSlotCore, NextIdle DEF SlotInv

(* The inductive invariant of acquire(): the slots add up and the queue of *)
(* waiters holds the runs that sleep, each once.                           *)
THEOREM SlotInvariant == Spec => []SlotInv
<1> QED BY InitSlotInv, NextSlotInv, TypeCorrect, PTL DEF Spec

(* No slot is leaked or duplicated, whichever way the runs end or are      *)
(* cancelled.                                                              *)
THEOREM SlotsAlwaysAccounted == Spec => []SlotsAccounted
<1>1. SlotInv => SlotsAccounted
  BY DEF SlotInv, SlotCore
<1> QED BY <1>1, SlotInvariant, PTL

(* The counters behind health() are exact.                                 *)
THEOREM HealthAlwaysExact == Spec => []HealthExact
<1>1. SlotInv => HealthExact
  BY DEF SlotInv, SlotCore
<1> QED BY <1>1, SlotInvariant, PTL

(* A free slot and sleeping waiters never stay together unnoticed.         *)
THEOREM WakeupNeverLost == Spec => []NoLostWakeup
<1>1. SlotInv => NoLostWakeup
  BY DEF SlotInv, SlotCore
<1> QED BY <1>1, SlotInvariant, PTL

-----------------------------------------------------------------------------
(* The refinement.  A run holds a slot in SlotPool while its driver is     *)
(* inside acquire(), and waits for one while it is queued.                 *)
LEMMA HolderCap ==
  ASSUME TypeOK, SlotCore
  PROVE  /\ Cardinality(Holders) <= MaxConcurrency
         /\ sem > 0 \/ granted # {} => Cardinality(Holders) < MaxConcurrency
<1>1. granted \in SUBSET Runs /\ sem \in Nat
  BY DEF TypeOK
<1>2. /\ Cardinality(granted) \in Nat /\ Cardinality(Holders) \in Nat
      /\ Cardinality(granted) = 0 <=> granted = {}
  BY <1>1, FiniteRuns, FS_EmptySet, Disjoint
<1> QED BY <1>1, <1>2, MaxConcurrencyAssumption DEF SlotCore, SlotsAccounted

LEMMA PoolCardinality ==
  ASSUME NEW S PROVE Pool!Cardinality(S) = Cardinality(S)
BY DEF Pool!Cardinality, Cardinality

LEMMA PoolStutter ==
  ASSUME Holders' = Holders, Queuers' = Queuers
  PROVE  [Pool!Next]_(Pool!vars)
BY DEF Pool!vars

LEMMA NextPool ==
  ASSUME TypeOK, SlotInv, [Next]_vars PROVE [Pool!Next]_(Pool!vars)
<1> USE DEF SlotInv
<1>1. ASSUME SlotFrame PROVE [Pool!Next]_(Pool!vars)
  BY <1>1, PoolStutter DEF SlotFrame
<1>2. ASSUME NEW r \in Runs,
             \/ GuardTakeEvent(r) \/ GuardFinish(r)
             \/ PumpTask(r) \/ CloserTask(r) \/ Stream(r) \/ StreamUnwound(r)
             \/ ConsumerNext(r) \/ ConsumerCancelClosing(r)
      PROVE  [Pool!Next]_(Pool!vars)
  BY <1>1, <1>2, OthersFrame
<1>3. ASSUME NEW r \in Runs,
             \/ GuardStart(r) \/ PumpEnded(r) \/ Deadline(r) \/ ReapPump(r)
             \/ CancelledUnstarted(r) \/ CancelledPumping(r)
      PROVE  [Pool!Next]_(Pool!vars)
  BY <1>1, <1>3, DriverFrame
<1>4. ASSUME UNCHANGED driver PROVE [Pool!Next]_(Pool!vars)
  <2>1. Holders' = Holders /\ Queuers' = Queuers
    BY <1>4 DEF Holders, Queuers
  <2> QED BY <2>1, PoolStutter
<1>5. ASSUME NEW r \in Runs,
             GuardTakeOutcome(r) \/ ConsumerClose(r) \/ ConsumerCancel(r)
      PROVE  [Pool!Next]_(Pool!vars)
  BY <1>4, <1>5, CancellingStep
<1>6. ASSUME NEW r \in Runs,
             ReapPumpExpired(r) \/ ReapClose(r) \/ CancelledReaping(r)
      PROVE  [Pool!Next]_(Pool!vars)
  <2>1. r \in Holders /\ r \notin Queuers /\ driver' = [driver EXCEPT ![r] = "done"]
    BY <1>6, LeavingStep, Disjoint DEF LeaveSlot
  <2>2. Holders' = Holders \ {r} /\ Queuers' = Queuers \ {r}
    BY <2>1, DriverLeaves
  <2>3. Pool!Release(r)
    BY <2>1, <2>2 DEF Pool!Release
  <2> QED BY <2>3 DEF Pool!Next
<1>7. ASSUME NEW r \in Runs, CancelledQueued(r) PROVE [Pool!Next]_(Pool!vars)
  <2>1. r \in Queuers /\ r \notin Holders /\ driver' = [driver EXCEPT ![r] = "done"]
    BY <1>7, Disjoint DEF CancelledQueued, Queuers
  <2>2. Holders' = Holders \ {r} /\ Queuers' = Queuers \ {r}
    BY <2>1, DriverLeaves
  <2>3. Pool!Withdraw(r)
    BY <2>1, <2>2 DEF Pool!Withdraw
  <2> QED BY <2>3 DEF Pool!Next
<1>8. ASSUME NEW r \in Runs, AcquireWait(r) PROVE [Pool!Next]_(Pool!vars)
  <2>1. /\ r \notin Queuers /\ r \notin Holders
        /\ driver' = [driver EXCEPT ![r] = "queued"]
    BY <1>8 DEF AcquireWait, Queuers, Holders, HoldingStates
  <2>2. Holders' = Holders \ {r} /\ Queuers' = Queuers \cup {r}
    BY <2>1, DriverQueues
  <2>3. Pool!Join(r)
    BY <2>1, <2>2 DEF Pool!Join
  <2> QED BY <2>3 DEF Pool!Next
<1>9. ASSUME NEW r \in Runs, AcquireAtOnce(r) \/ AcquireResumed(r)
      PROVE  [Pool!Next]_(Pool!vars)
  <2>1. r \notin Holders
    BY <1>9, Disjoint DEF AcquireAtOnce, AcquireResumed, SlotCore, Holders, HoldingStates
  <2>2. driver' = [driver EXCEPT ![r] = "pumping"] /\ (sem > 0 \/ granted # {})
    BY <1>9 DEF AcquireAtOnce, AcquireResumed
  <2>3. Holders' = Holders \cup {r} /\ Queuers' = Queuers \ {r}
    BY <2>2, DriverEnters DEF HoldingStates
  <2>4. Cardinality(Holders) < MaxConcurrency
    BY <2>2, HolderCap
  <2>5. Pool!Grant(r)
    BY <2>1, <2>3, <2>4, PoolCardinality DEF Pool!Grant
  <2> QED BY <2>5 DEF Pool!Next
<1>10. CASE UNCHANGED vars
  BY <1>4, <1>10 DEF vars, driverVars
<1> QED
  BY <1>2, <1>3, <1>5, <1>6, <1>7, <1>8, <1>9, <1>10
  DEF Next, Loop, GuardTask, DriverTask, Consumer, Terminated

(* acquire() implements the abstract pool: every step of the governor is a *)
(* step of SlotPool or leaves it alone, so at most MaxConcurrency runs are *)
(* inside their slot at any time.                                          *)
THEOREM AcquireImplementsPool == Spec => ImplementsPool
<1>1. Init => Pool!Init
  BY DEF Init, Pool!Init, Holders, Queuers, HoldingStates
<1>2. TypeOK /\ SlotInv /\ [Next]_vars => [Pool!Next]_(Pool!vars)
  BY NextPool
<1> QED BY <1>1, <1>2, SlotInvariant, TypeCorrect, PTL DEF Spec, ImplementsPool, Pool!Spec
=============================================================================
