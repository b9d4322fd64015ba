--------------------------- MODULE AdapterProofs ----------------------------
(* Theorems about run_once and the shutdown of its SDK stream.             *)
EXTENDS ClaudeCodeAdapter, FoldProofs

(* Where run_once may be suspended, by what it has begun.                  *)
GenInv ==
  /\ gen \in {"unstarted", "reading", "yielded"} => shutdown = "none"
  /\ gen = "unstarted" => read = "none" /\ sdk = "none"
  /\ gen = "reading" => read \in {"pending", "settled"}
  /\ gen = "yielded" => read = "none"
  /\ gen = "closing" => shutdown # "none"

(* Who is inside the SDK stream: a read, a read that was cancelled, the    *)
(* shutdown, or nobody.                                                    *)
SdkInv ==
  /\ read = "pending" <=> sdk = "busy"
  /\ read = "cancelling" <=> sdk = "aborting"
  /\ shutdown = "closing" <=> sdk = "closing"
  /\ sdk = "none" => gen \in {"unstarted", "done"} /\ read = "none" /\ shutdown = "none"
  /\ shutdown \in {"closing", "done"} => read # "pending"
  /\ shutdown = "cancelling" => sdk \in {"aborting", "aborted"}
  /\ shutdown = "done" => sdk \in {"aborting", "aborted", "closed"}
  /\ sdk \in {"aborting", "aborted"} => shutdown \in {"cancelling", "done"}

AdapterInv == GenInv /\ SdkInv

-----------------------------------------------------------------------------
(* What a step may write, by the operator that writes it.                  *)
LEMMA RaisedTypes ==
  ASSUME NEW e \in Failures
  PROVE  RaisedFor(e) \in Verdicts \ {"none", "end", "closed"}
BY DEF Failures, RaisedFor, Verdicts

LEMMA ClassifyTypes ==
  \A m : Classify(m) \in {"none", "foreign", "plan", "auth", "transient"}
BY DEF Classify

LEMMA MessageFields ==
  ASSUME NEW m \in Messages
  PROVE  m.type \in MessageTypes /\ m.reset \in Times \cup {"none"} /\ m.blocks \in Nat
BY AdapterAssumption

(* A failed read carries one failure.                                      *)
LEMMA FailureRaised ==
  ASSUME inbox \in Messages \cup Endings, inbox.type = "failed"
  PROVE  \E e \in Failures :
           /\ inbox = Failed(e)
           /\ (CHOOSE v \in {RaisedFor(f) : f \in inbox.marks} : TRUE) = RaisedFor(e)
<1>1. inbox \notin Messages
  BY MessageFields DEF MessageTypes
<1>2. PICK e \in Failures : inbox = Failed(e)
  BY <1>1 DEF Endings, Exhausted
<1>3. {RaisedFor(f) : f \in inbox.marks} = {RaisedFor(e)}
  BY <1>2 DEF Failed
<1>4. (CHOOSE v \in {RaisedFor(f) : f \in inbox.marks} : TRUE) \in {RaisedFor(e)}
  BY <1>3
<1> QED BY <1>2, <1>4

-----------------------------------------------------------------------------
LEMMA InitTypeOK == Init => TypeOK
<1>1. <<>> \in Seq(Messages)
  BY EmptySeq
<1> QED BY <1>1 DEF Init, TypeOK, Endings, Verdicts

LEMMA NextTypeOK == TypeOK /\ [Next]_vars => TypeOK'
<1> SUFFICES ASSUME TypeOK, [Next]_vars PROVE TypeOK'
  OBVIOUS
<1> USE DEF TypeOK, streamVars, limitVars, endVars
<1>1. CASE Consumer
  <2>1. CASE OptionsRejected \/ Start
    BY <2>1 DEF OptionsRejected, Start, BeginRead, Verdicts
  <2>2. CASE AskNext
    BY <2>2 DEF AskNext, Proceed, BeginRead
  <2>3. CASE Close \/ Cancel \/ CancelClosing
    BY <2>3 DEF Close, Cancel, CancelClosing, Finish, Verdicts
  <2> QED BY <1>1, <2>1, <2>2, <2>3 DEF Consumer
<1>2. CASE RunOnce
  <2>0. ASSUME Handling(MessageTypes) PROVE inbox \in Messages /\ Append(log, inbox) \in Seq(Messages)
    <3>1. inbox \in Messages
      BY <2>0 DEF Handling, MessageTypes, Endings, Exhausted, Failed
    <3> QED BY <3>1, AppendProperties
  <2>1. CASE Handle
    <3>1. inbox.reset \in Times \cup {"none"} /\ log' \in Seq(Messages) /\ inbox' = inbox
      BY <2>0, <2>1, MessageFields DEF Handle
    <3>2. rejected' \in BOOLEAN /\ resetsAt' \in Times \cup {"none"}
      BY <2>1, <3>1 DEF Handle
    <3>3. UNCHANGED <<shutdown, verdict, raisedAt>>
      BY <2>1 DEF Handle
    <3>4. /\ gen' \in {"reading", "yielded"} /\ read' \in {"pending", "none"}
          /\ sdk' \in {"busy", sdk}
      <4>1. Proceed(EventsOf(inbox))
        BY <2>1 DEF Handle
      <4> QED BY <4>1 DEF Proceed, BeginRead
    <3> QED BY <3>1, <3>2, <3>3, <3>4
  <2>2. CASE HandleRaise
    <3>1. inbox.reset \in Times \cup {"none"} /\ log' \in Seq(Messages)
      BY <2>0, <2>2, MessageFields DEF HandleRaise
    <3>2. verdict' \in Verdicts
      BY <2>2, ClassifyTypes DEF HandleRaise, Finish, Verdicts
    <3> QED BY <2>2, <3>1, <3>2 DEF HandleRaise, Finish
  <2>3. CASE HandleEnd \/ Leave
    BY <2>3 DEF HandleEnd, Leave, Finish, Verdicts
  <2>4. CASE HandleFailure
    <3>1. verdict' \in Verdicts
      BY <2>4, FailureRaised, RaisedTypes DEF HandleFailure, Handling, Finish
    <3> QED BY <2>4, <3>1 DEF HandleFailure, Finish
  <2> QED BY <1>2, <2>1, <2>2, <2>3, <2>4 DEF RunOnce
<1>3. CASE Shutdown
  BY <1>3 DEF Shutdown, ShutdownStart, Settled, SettleExpired, CancelExpired, BeginClose
<1>4. CASE Sdk
  BY <1>4 DEF Sdk, SdkDeliver, SdkEnd, SdkUnwound
<1>5. CASE Terminated \/ UNCHANGED vars
  BY <1>5 DEF Terminated, vars
<1> QED BY <1>1, <1>2, <1>3, <1>4, <1>5 DEF Next

(* Every variable of the adapter keeps its type, whatever the SDK sends.   *)
THEOREM AdapterTypeCorrect == Spec => []TypeOK
<1> QED BY InitTypeOK, NextTypeOK, PTL DEF Spec

-----------------------------------------------------------------------------
LEMMA NextAdapterInv == TypeOK /\ AdapterInv /\ [Next]_vars => AdapterInv'
<1> SUFFICES ASSUME TypeOK, AdapterInv, [Next]_vars PROVE AdapterInv'
  OBVIOUS
<1> USE DEF AdapterInv, GenInv, SdkInv, streamVars
<1>0. /\ read \in {"none", "pending", "settled", "cancelling"}
      /\ sdk \in {"none", "busy", "idle", "closing", "aborting", "aborted", "closed"}
      /\ shutdown \in {"none", "created", "settling", "cancelling", "closing", "done"}
      /\ gen \in {"unstarted", "reading", "yielded", "closing", "done"}
  BY DEF TypeOK
<1>1. CASE Consumer
  <2>1. CASE OptionsRejected \/ Start
    BY <2>1 DEF OptionsRejected, Start, BeginRead
  <2>2. CASE AskNext
    BY <2>2 DEF AskNext, Proceed, BeginRead
  <2>3. CASE Close \/ Cancel \/ CancelClosing
    BY <2>3 DEF Close, Cancel, CancelClosing, Finish
  <2> QED BY <1>1, <2>1, <2>2, <2>3 DEF Consumer
<1>2. CASE RunOnce
  <2>1. CASE Handle
    <3>1. gen = "reading" /\ read = "settled" /\ shutdown' = shutdown
      BY <2>1 DEF Handle, Handling
    <3>2. \/ gen' = "reading" /\ read' = "pending" /\ sdk' = "busy"
          \/ gen' = "yielded" /\ read' = "none" /\ sdk' = sdk
      <4>1. Proceed(EventsOf(inbox))
        BY <2>1 DEF Handle
      <4> QED BY <4>1 DEF Proceed, BeginRead
    <3> QED BY <1>0, <3>1, <3>2
  <2>2. CASE HandleRaise \/ HandleEnd
    BY <1>0, <2>2 DEF HandleRaise, HandleEnd, Handling, Finish
  <2>3. CASE HandleFailure
    BY <1>0, <2>3 DEF HandleFailure, Handling, Finish
  <2>4. CASE Leave
    BY <2>4 DEF Leave
  <2> QED BY <1>2, <2>1, <2>2, <2>3, <2>4 DEF RunOnce
<1>3. CASE Shutdown
  BY <1>0, <1>3 DEF Shutdown, ShutdownStart, Settled, SettleExpired, CancelExpired, BeginClose
<1>4. CASE Sdk
  BY <1>0, <1>4 DEF Sdk, SdkDeliver, SdkEnd, SdkUnwound
<1>5. CASE Terminated \/ UNCHANGED vars
  BY <1>5 DEF Terminated, vars
<1> QED BY <1>1, <1>2, <1>3, <1>4, <1>5 DEF Next

(* At any time one party at most is inside the SDK stream, and AdapterInv  *)
(* says which.                                                             *)
THEOREM AdapterInvariant == Spec => []AdapterInv
<1>1. Init => AdapterInv
  BY DEF Init, AdapterInv, GenInv, SdkInv
<1> QED BY <1>1, NextAdapterInv, AdapterTypeCorrect, PTL DEF Spec

(* A raw cancellation enters the SDK only from the shutdown task, after    *)
(* its grace.                                                              *)
THEOREM AlwaysShielded == Spec => []CancellationShielded
<1>1. AdapterInv => CancellationShielded
  BY DEF AdapterInv, SdkInv, CancellationShielded
<1> QED BY <1>1, AdapterInvariant, PTL

(* A shutdown that is over has closed or cancelled the SDK stream, or left *)
(* it unwinding:                                                           *)
(* it never closes one that somebody reads.                                *)
THEOREM ShutdownAlwaysCloses == Spec => []ShutdownReallyCloses
<1>1. AdapterInv => ShutdownReallyCloses
  BY DEF AdapterInv, SdkInv, ShutdownReallyCloses
<1> QED BY <1>1, AdapterInvariant, PTL

-----------------------------------------------------------------------------
(* run_once takes no step that the governor's idea of a stream does not    *)
(* allow: its refinement of AdapterStream, fairness left out.              *)
THEOREM RunOnceIsStream == Spec => Contract!Init /\ [][Contract!Next]_StreamState
<1> USE DEF StreamState
<1>1. Init => Contract!Init
  BY DEF Init, Contract!Init
<1>2. TypeOK /\ AdapterInv /\ [Next]_vars => [Contract!Next]_StreamState
  <2> SUFFICES ASSUME TypeOK, AdapterInv, [Next]_vars,
                      UNCHANGED StreamState => FALSE
               PROVE  Contract!Next
    OBVIOUS
  <2> USE DEF Contract!Next, streamVars, endVars
  <2>1. CASE OptionsRejected \/ Start
    BY <2>1 DEF OptionsRejected, Start, Contract!Start
  <2>2. CASE AskNext
    BY <2>2 DEF AskNext, Proceed, Contract!Resume
  <2>3. CASE Close \/ Cancel
    BY <2>3 DEF Close, Cancel, Finish, Contract!Unwind
  <2>4. CASE CancelClosing \/ Leave
    BY <2>4 DEF CancelClosing, Leave, Contract!End, Contract!Unwound
  <2>5. CASE Handle
    <3>1. gen = "reading" /\ gen' \in {"reading", "yielded"}
      <4>1. gen = "reading" /\ Proceed(EventsOf(inbox))
        BY <2>5 DEF Handle, Handling
      <4> QED BY <4>1 DEF Proceed
    <3> QED BY <3>1 DEF Contract!Emit
  <2>6. CASE HandleRaise \/ HandleEnd \/ HandleFailure
    <3>1. gen = "reading" /\ gen' = "closing"
      BY <2>6 DEF HandleRaise, HandleEnd, HandleFailure, Handling, Finish
    <3> QED BY <3>1 DEF Contract!Unwind
  <2>7. CASE Shutdown
    BY <2>7 DEF Shutdown, ShutdownStart, Settled, SettleExpired, CancelExpired
  <2>8. CASE Sdk
    BY <2>8 DEF Sdk, SdkDeliver, SdkEnd, SdkUnwound
  <2>9. CASE Terminated \/ UNCHANGED vars
    BY <2>9 DEF Terminated, vars
  <2> QED BY <2>1, <2>2, <2>3, <2>4, <2>5, <2>6, <2>7, <2>8, <2>9
          DEF Next, Consumer, RunOnce
<1> QED BY <1>1, <1>2, AdapterTypeCorrect, AdapterInvariant, PTL DEF Spec

-----------------------------------------------------------------------------
(* What run_once remembers of the messages l it has handled: whether one   *)
(* was a rejection, and the latest reset time t.                           *)
Failing(m) == m.type = "result" /\ "error" \in m.marks
Rejection(m) == m.type = "rate_limit" /\ "rejected" \in m.marks
Dated(m) == m.type = "rate_limit" /\ m.reset # "none"

RejectedBy(l, i) == \E j \in 1..i : Rejection(l[j])
Limited(l, i) == "plan" \in l[i].marks \/ RejectedBy(l, i)

LatestIs(l, t) ==
  \/ t = "none" /\ \A j \in 1..Len(l) : ~Dated(l[j])
  \/ \E j \in 1..Len(l) :
       /\ Dated(l[j]) /\ t = l[j].reset
       /\ \A k \in 1..Len(l) : Dated(l[k]) => k <= j

(* None of them was to be raised.                                          *)
Harmless(l) ==
  \A i \in 1..Len(l) :
    Failing(l[i]) => ~Limited(l, i) /\ "auth" \notin l[i].marks /\ "transient" \notin l[i].marks

LogInv ==
  /\ gen \in {"unstarted", "reading", "yielded"} <=> verdict = "none"
  /\ verdict = "foreign" => read # "pending"
  /\ verdict = "none" =>
       Harmless(log) /\ (rejected <=> RejectedBy(log, Len(log))) /\ LatestIs(log, resetsAt)

(* LatestReset of any sequence of messages.                                *)
LatestOf(l, i) ==
  LET dated == {j \in 1..i : /\ l[j].reset # "none"
                             /\ l[j].type = "rate_limit" \/ j = i}
  IN IF dated = {} THEN "none"
     ELSE l[CHOOSE j \in dated : \A k \in dated : k <= j].reset

(* RaisedAsDocumented for the messages l, verdict v and reset time at.     *)
Documented(l, v, at) ==
  \A i \in 1..Len(l) :
    /\ Failing(l[i]) /\ Limited(l, i) /\ l[i].reset \notin BadTimes =>
         i = Len(l) /\ v \in {"plan", "cancelled"} /\ at = LatestOf(l, i)
    /\ Failing(l[i]) /\ ~Limited(l, i) /\ "auth" \in l[i].marks =>
         i = Len(l) /\ v \in {"auth", "cancelled"}
    /\ Failing(l[i]) /\ ~Limited(l, i) /\ "auth" \notin l[i].marks /\ "transient" \in l[i].marks =>
         i = Len(l) /\ v \in {"transient", "cancelled"}
    /\ v \in {"plan", "transient"} /\ i = Len(l) => Failing(l[i])

ForeignExplained ==
  verdict = "foreign" =>
    \/ inbox = Failed("foreign")
    \/ /\ log # <<>>
       /\ \/ Last(log).reset \in BadTimes /\ Last(log).type \in {"rate_limit", "result"}
          \/ /\ Unusable(Last(log))
             /\ Failing(Last(log)) => {"plan", "auth", "transient"} \cap Last(log).marks = {}

LEMMA DocumentedIs ==
  ASSUME log \in Seq(Messages), Documented(log, verdict, raisedAt), ForeignExplained
  PROVE  RaisedAsDocumented
<1>1. DOMAIN log = 1..Len(log)
  BY LenProperties
<1>2. \A i : LatestOf(log, i) = LatestReset(i)
  BY DEF LatestOf, LatestReset
<1> QED BY <1>1, <1>2 DEF Documented, ForeignExplained, RaisedAsDocumented, Failing, Limited,
                        RejectedBy, Rejection

-----------------------------------------------------------------------------
LEMMA Appended ==
  ASSUME NEW l \in Seq(Messages), NEW m \in Messages
  PROVE  /\ Len(l) \in Nat
         /\ Append(l, m) \in Seq(Messages)
         /\ Len(Append(l, m)) = Len(l) + 1
         /\ \A i \in 1..Len(l) : Append(l, m)[i] = l[i]
         /\ Append(l, m)[Len(l) + 1] = m
BY AppendProperties, LenProperties

LEMMA LimitedAppend ==
  ASSUME NEW l \in Seq(Messages), NEW m \in Messages
  PROVE  /\ \A i \in 1..Len(l) : Limited(Append(l, m), i) <=> Limited(l, i)
         /\ RejectedBy(Append(l, m), Len(l) + 1) <=> RejectedBy(l, Len(l)) \/ Rejection(m)
<1> DEFINE a == Append(l, m)
<1>1. /\ Len(l) \in Nat /\ a[Len(l) + 1] = m
      /\ \A i \in 1..Len(l) : a[i] = l[i]
  BY Appended
<1> HIDE DEF a
<1>2. ASSUME NEW i \in 1..Len(l) PROVE Limited(a, i) <=> Limited(l, i)
  <2>1. \A j \in 1..i : j \in 1..Len(l)
    BY <1>1
  <2> QED BY <1>1, <2>1 DEF Limited, RejectedBy
<1>3. 1..(Len(l) + 1) = 1..Len(l) \cup {Len(l) + 1}
  BY <1>1
<1>4. RejectedBy(a, Len(l) + 1) <=> RejectedBy(l, Len(l)) \/ Rejection(m)
  BY <1>1, <1>3 DEF RejectedBy
<1> QED BY <1>2, <1>4 DEF a

LEMMA HarmlessAppend ==
  ASSUME NEW l \in Seq(Messages), NEW m \in Messages, Harmless(l),
         Failing(m) => /\ ~RejectedBy(l, Len(l))
                       /\ {"plan", "auth", "transient"} \cap m.marks = {}
  PROVE  Harmless(Append(l, m))
<1> DEFINE a == Append(l, m)
<1>1. /\ Len(l) \in Nat /\ a[Len(l) + 1] = m /\ Len(a) = Len(l) + 1
      /\ \A i \in 1..Len(l) : a[i] = l[i]
  BY Appended
<1>2. /\ \A i \in 1..Len(l) : Limited(a, i) <=> Limited(l, i)
      /\ RejectedBy(a, Len(l) + 1) <=> RejectedBy(l, Len(l)) \/ Rejection(m)
  BY LimitedAppend
<1> HIDE DEF a
<1>3. Limited(a, Len(l) + 1) <=> "plan" \in m.marks \/ RejectedBy(l, Len(l)) \/ Rejection(m)
  BY <1>1, <1>2 DEF Limited
<1>4. Failing(m) => ~Rejection(m)
  BY DEF Failing, Rejection
<1>5. ASSUME NEW i \in 1..Len(a), Failing(a[i])
      PROVE  ~Limited(a, i) /\ "auth" \notin a[i].marks /\ "transient" \notin a[i].marks
  <2>1. CASE i \in 1..Len(l)
    BY <1>1, <1>2, <1>5, <2>1 DEF Harmless
  <2>2. CASE i = Len(l) + 1
    BY <1>1, <1>3, <1>4, <1>5, <2>2
  <2> QED BY <1>1, <2>1, <2>2
<1> QED BY <1>5 DEF Harmless, a

LEMMA LatestAppend ==
  ASSUME NEW l \in Seq(Messages), NEW m \in Messages, NEW t, LatestIs(l, t)
  PROVE  LatestIs(Append(l, m), IF Dated(m) THEN m.reset ELSE t)
<1> DEFINE a == Append(l, m)
<1>1. /\ Len(l) \in Nat /\ a[Len(l) + 1] = m /\ Len(a) = Len(l) + 1
      /\ \A i \in 1..Len(l) : a[i] = l[i]
  BY Appended
<1> HIDE DEF a
<1>2. 1..Len(a) = 1..Len(l) \cup {Len(l) + 1} /\ \A k \in 1..Len(a) : k <= Len(l) + 1
  BY <1>1
<1>3. CASE Dated(m)
  <2>1. Len(l) + 1 \in 1..Len(a)
    BY <1>2
  <2> QED BY <1>1, <1>2, <1>3, <2>1 DEF LatestIs, a
<1>4. CASE ~Dated(m)
  <2>1. CASE \A j \in 1..Len(l) : ~Dated(l[j])
    <3>1. t = "none" /\ \A j \in 1..Len(a) : ~Dated(a[j])
      BY <1>1, <1>2, <1>4, <2>1 DEF LatestIs
    <3> QED BY <1>4, <3>1 DEF LatestIs, a
  <2>2. CASE ~\A j \in 1..Len(l) : ~Dated(l[j])
    <3>1. PICK j \in 1..Len(l) : /\ Dated(l[j]) /\ t = l[j].reset
                                 /\ \A k \in 1..Len(l) : Dated(l[k]) => k <= j
      BY <2>2 DEF LatestIs
    <3>2. /\ j \in 1..Len(a) /\ Dated(a[j]) /\ t = a[j].reset
          /\ \A k \in 1..Len(a) : Dated(a[k]) => k <= j
      BY <1>1, <1>2, <1>4, <3>1
    <3> QED BY <1>4, <3>2 DEF LatestIs, a
  <2> QED BY <2>1, <2>2
<1> QED BY <1>3, <1>4

(* The reset time of the report m that ends the messages l.                *)
LEMMA LatestOfReport ==
  ASSUME NEW l \in Seq(Messages), NEW m \in Messages, NEW t, LatestIs(l, t), ~Dated(m)
  PROVE  LatestOf(Append(l, m), Len(l) + 1) = IF m.reset # "none" THEN m.reset ELSE t
<1> DEFINE a == Append(l, m)
           n == Len(l) + 1
           dated == {j \in 1..n : a[j].reset # "none" /\ (a[j].type = "rate_limit" \/ j = n)}
           last == CHOOSE j \in dated : \A k \in dated : k <= j
<1>1. Len(l) \in Nat /\ n \in Nat /\ a[n] = m /\ \A i \in 1..Len(l) : a[i] = l[i]
  BY Appended
<1>2. 1..n = 1..Len(l) \cup {n} /\ n \notin 1..Len(l)
  BY <1>1
<1>3. LatestOf(a, n) = IF dated = {} THEN "none" ELSE a[last].reset
  BY DEF LatestOf
<1>4. ASSUME NEW j \in dated, \A k \in dated : k <= j PROVE last = j
  <2>1. last \in dated /\ \A k \in dated : k <= last
    BY <1>4
  <2>2. \A k \in dated : k \in Int
    BY <1>1
  <2> HIDE DEF last, dated
  <2> QED BY <1>4, <2>1, <2>2
<1>5. CASE m.reset # "none"
  <2>1. n \in dated /\ \A k \in dated : k <= n
    BY <1>1, <1>5
  <2>2. last = n
    BY <1>4, <2>1
  <2> HIDE DEF last, dated
  <2> QED BY <1>1, <1>3, <1>5, <2>1, <2>2
<1>6. CASE m.reset = "none"
  <2>1. dated = {j \in 1..Len(l) : Dated(l[j])}
    BY <1>1, <1>2, <1>6 DEF Dated
  <2> HIDE DEF last, dated, n, a
  <2>2. CASE \A j \in 1..Len(l) : ~Dated(l[j])
    <3>1. t = "none" /\ dated = {}
      BY <2>1, <2>2 DEF LatestIs
    <3> QED BY <1>3, <1>6, <3>1 DEF n, a
  <2>3. CASE ~\A j \in 1..Len(l) : ~Dated(l[j])
    <3>1. PICK j \in 1..Len(l) : /\ Dated(l[j]) /\ t = l[j].reset
                                 /\ \A k \in 1..Len(l) : Dated(l[k]) => k <= j
      BY <2>3 DEF LatestIs
    <3>2. j \in dated /\ \A k \in dated : k <= j
      BY <2>1, <3>1
    <3>3. last = j
      BY <1>4, <3>2
    <3> QED BY <1>1, <1>3, <1>6, <3>1, <3>2, <3>3 DEF n, a
  <2> QED BY <2>2, <2>3
<1> QED BY <1>5, <1>6

-----------------------------------------------------------------------------
DocInv == LogInv /\ Documented(log, verdict, raisedAt) /\ ForeignExplained

(* run_once ends without having raised what a message says: right, since   *)
(* no message says anything.                                               *)
LEMMA HarmlessDocumented ==
  ASSUME NEW l, Harmless(l), NEW v, v \notin {"plan", "transient"}, NEW at
  PROVE  Documented(l, v, at)
BY DEF Harmless, Documented, Limited

LEMMA HandleKeepsDoc == TypeOK /\ DocInv /\ Handle => DocInv'
<1> SUFFICES ASSUME TypeOK, DocInv, Handle PROVE DocInv'
  OBVIOUS
<1>1. inbox \in Messages /\ log \in Seq(Messages) /\ rejected \in BOOLEAN
  BY DEF TypeOK, Handle, Handling, MessageTypes, Endings, Exhausted, Failed
<1>2. gen = "reading" /\ verdict = "none" /\ verdict' = verdict /\ inbox' = inbox
  BY DEF DocInv, LogInv, Handle, Handling, endVars
<1>3. Harmless(log) /\ (rejected <=> RejectedBy(log, Len(log))) /\ LatestIs(log, resetsAt)
  BY <1>2 DEF DocInv, LogInv
<1>4. log' = Append(log, inbox) /\ Len(log') = Len(log) + 1
  BY <1>1, Appended DEF Handle
<1>5. Harmless(log')
  <2>1. Classify(inbox) = "none"
    BY DEF Handle
  <2>2. Failing(inbox) => ~rejected /\ {"plan", "auth", "transient"} \cap inbox.marks = {}
    BY <2>1 DEF Classify, Failing
  <2> QED BY <1>1, <1>3, <1>4, <2>2, HarmlessAppend
<1>6. rejected' <=> RejectedBy(log', Len(log'))
  <2>1. rejected' <=> rejected \/ Rejection(inbox)
    BY DEF Handle, Rejection, limitVars
  <2>2. RejectedBy(log', Len(log) + 1) <=> RejectedBy(log, Len(log)) \/ Rejection(inbox)
    BY <1>1, <1>4, LimitedAppend
  <2> QED BY <1>3, <1>4, <2>1, <2>2
<1>7. LatestIs(log', resetsAt')
  <2>1. resetsAt' = IF Dated(inbox) THEN inbox.reset ELSE resetsAt
    BY DEF Handle, Dated, limitVars
  <2> QED BY <1>1, <1>3, <1>4, <2>1, LatestAppend
<1>8. gen' \in {"reading", "yielded"}
  <2>1. Proceed(EventsOf(inbox))
    BY DEF Handle
  <2> QED BY <2>1 DEF Proceed
<1>9. Documented(log', verdict', raisedAt')
  BY <1>2, <1>5, HarmlessDocumented
<1> QED BY <1>2, <1>5, <1>6, <1>7, <1>8, <1>9 DEF DocInv, LogInv, ForeignExplained

LEMMA HandleRaiseKeepsDoc == TypeOK /\ DocInv /\ HandleRaise => DocInv'
<1> SUFFICES ASSUME TypeOK, DocInv, HandleRaise PROVE DocInv'
  OBVIOUS
<1> DEFINE n == Len(log) + 1
           v == Classify(inbox)
<1>1. inbox \in Messages /\ log \in Seq(Messages) /\ rejected \in BOOLEAN
  BY DEF TypeOK, HandleRaise, Handling, MessageTypes, Endings, Exhausted, Failed
<1>2. /\ gen = "reading" /\ verdict = "none" /\ gen' = "closing" /\ read' = "none"
      /\ verdict' = v /\ v # "none"
      /\ raisedAt' = IF v = "plan" THEN IF inbox.reset # "none" THEN inbox.reset ELSE resetsAt
                     ELSE "none"
  BY DEF DocInv, LogInv, HandleRaise, Handling, Finish
<1>3. Harmless(log) /\ (rejected <=> RejectedBy(log, Len(log))) /\ LatestIs(log, resetsAt)
  BY <1>2 DEF DocInv, LogInv
<1>4. /\ log' = Append(log, inbox) /\ Len(log') = n /\ log'[n] = inbox
      /\ Len(log) \in Nat /\ \A i \in 1..Len(log) : log'[i] = log[i]
  BY <1>1, Appended DEF HandleRaise
<1>5. \/ v = "foreign" /\ inbox.reset \in BadTimes /\ inbox.type = "rate_limit"
      \/ v = "foreign" /\ inbox.reset \in BadTimes /\ Failing(inbox)
           /\ (rejected \/ "plan" \in inbox.marks)
      \/ v = "plan" /\ inbox.reset \notin BadTimes /\ Failing(inbox)
           /\ (rejected \/ "plan" \in inbox.marks)
      \/ v = "auth" /\ Failing(inbox) /\ ~rejected /\ "plan" \notin inbox.marks
           /\ "auth" \in inbox.marks
      \/ v = "transient" /\ Failing(inbox) /\ ~rejected /\ "plan" \notin inbox.marks
           /\ "auth" \notin inbox.marks /\ "transient" \in inbox.marks
      \/ v = "foreign" /\ Unusable(inbox)
           /\ (Failing(inbox) => ~rejected /\ {"plan", "auth", "transient"} \cap inbox.marks = {})
  BY <1>2 DEF Classify, Failing
<1> HIDE DEF v
<1>6. Failing(inbox) => (Limited(log', n) <=> rejected \/ "plan" \in inbox.marks)
  <2>1. RejectedBy(log', n) <=> RejectedBy(log, Len(log)) \/ Rejection(inbox)
    BY <1>1, <1>4, LimitedAppend
  <2>2. Failing(inbox) => ~Rejection(inbox)
    BY DEF Failing, Rejection
  <2> QED BY <1>3, <1>4, <2>1, <2>2 DEF Limited
<1>7. v = "plan" => raisedAt' = LatestOf(log', n)
  <2>1. Failing(inbox) => ~Dated(inbox)
    BY DEF Failing, Dated
  <2> QED BY <1>1, <1>2, <1>3, <1>4, <1>5, <2>1, LatestOfReport
<1>8. Documented(log', verdict', raisedAt')
  <2> SUFFICES ASSUME NEW i \in 1..Len(log')
      PROVE /\ Failing(log'[i]) /\ Limited(log', i) /\ log'[i].reset \notin BadTimes =>
                 i = Len(log') /\ v \in {"plan", "cancelled"} /\ raisedAt' = LatestOf(log', i)
            /\ Failing(log'[i]) /\ ~Limited(log', i) /\ "auth" \in log'[i].marks =>
                 i = Len(log') /\ v \in {"auth", "cancelled"}
            /\ Failing(log'[i]) /\ ~Limited(log', i) /\ "auth" \notin log'[i].marks
                 /\ "transient" \in log'[i].marks =>
                 i = Len(log') /\ v \in {"transient", "cancelled"}
            /\ v \in {"plan", "transient"} /\ i = Len(log') => Failing(log'[i])
    BY <1>2 DEF Documented
  <2>1. CASE i = n
    <3>1. log'[i] = inbox /\ i = Len(log')
      BY <1>4, <2>1
    <3>2. Failing(inbox) => (Limited(log', i) <=> rejected \/ "plan" \in inbox.marks)
      BY <1>6, <2>1
    <3>3. v = "plan" => raisedAt' = LatestOf(log', i)
      BY <1>7, <2>1
    <3>4. CASE ~Failing(inbox)
      BY <1>5, <3>1, <3>4
    <3>5. CASE Failing(inbox) /\ (rejected \/ "plan" \in inbox.marks)
      <4>1. Failing(inbox) => inbox.type # "rate_limit"
        BY DEF Failing
      <4> QED BY <1>5, <3>1, <3>2, <3>3, <3>5, <4>1
    <3>6. CASE Failing(inbox) /\ ~(rejected \/ "plan" \in inbox.marks)
      <4>1. Failing(inbox) => inbox.type # "rate_limit"
        BY DEF Failing
      <4>2. \/ v \in {"auth", "transient"} /\ (v = "auth" <=> "auth" \in inbox.marks)
            \/ v = "foreign" /\ {"auth", "transient"} \cap inbox.marks = {}
        BY <1>5, <3>6, <4>1
      <4> QED BY <3>1, <3>2, <3>6, <4>2
    <3> QED BY <3>4, <3>5, <3>6
  <2>2. CASE i \in 1..Len(log)
    <3>1. Limited(log', i) <=> Limited(log, i)
      BY <1>1, <1>4, <2>2, LimitedAppend
    <3>2. Failing(log[i]) => /\ ~Limited(log, i)
                             /\ "auth" \notin log[i].marks /\ "transient" \notin log[i].marks
      BY <1>3, <2>2 DEF Harmless
    <3>3. log'[i] = log[i] /\ i # Len(log')
      BY <1>4, <2>2
    <3> QED BY <3>1, <3>2, <3>3
  <2> QED BY <1>4, <2>1, <2>2
<1>9. ForeignExplained'
  <2>1. log' # <<>> /\ Last(log') = inbox
    <3>1. log' \in Seq(Messages) /\ Len(log') # 0
      BY <1>1, <1>4, Appended
    <3> QED BY <1>4, <3>1, EmptySeq DEF Last
  <2> QED BY <1>2, <1>5, <2>1 DEF ForeignExplained, Failing
<1> QED BY <1>2, <1>8, <1>9 DEF DocInv, LogInv

(* Every other step that ends run_once.                                    *)
LEMMA EndKeepsDoc ==
  ASSUME DocInv, verdict = "none", verdict' \in Verdicts \ {"none", "plan", "transient"},
         gen' \in {"closing", "done"}, read' # "pending" \/ verdict' # "foreign",
         verdict' = "foreign" => inbox' = Failed("foreign"), UNCHANGED log
  PROVE  DocInv'
<1>1. Harmless(log)
  BY DEF DocInv, LogInv
<1>2. Documented(log', verdict', raisedAt')
  BY <1>1, HarmlessDocumented
<1> QED BY <1>2 DEF DocInv, LogInv, ForeignExplained

LEMMA NextDocInv == TypeOK /\ DocInv /\ [Next]_vars => DocInv'
<1> SUFFICES ASSUME TypeOK, DocInv, [Next]_vars PROVE DocInv'
  OBVIOUS
<1> USE DEF streamVars, limitVars, endVars
<1>0. gen \in {"unstarted", "reading", "yielded"} <=> verdict = "none"
  BY DEF DocInv, LogInv
<1>1. CASE OptionsRejected \/ Close \/ Cancel
  <2>1. /\ gen \in {"unstarted", "reading", "yielded"} /\ gen' \in {"closing", "done"}
        /\ verdict' \in {"adapter", "closed", "cancelled"} /\ UNCHANGED log
    BY <1>1 DEF OptionsRejected, Close, Cancel, Finish
  <2> QED BY <1>0, <2>1, EndKeepsDoc DEF Verdicts
<1>2. CASE Start \/ AskNext
  <2>1. /\ gen \in {"unstarted", "yielded"} /\ gen' \in {"reading", "yielded"}
        /\ UNCHANGED <<rejected, resetsAt, verdict, raisedAt, log>>
    BY <1>2 DEF Start, AskNext, Proceed
  <2> QED BY <1>0, <2>1 DEF DocInv, LogInv, Documented, ForeignExplained
<1>3. CASE CancelClosing
  <2>1. /\ gen = "closing" /\ gen' = "done" /\ verdict' = "cancelled" /\ UNCHANGED log
    BY <1>3 DEF CancelClosing
  <2>2. Documented(log, verdict, raisedAt) /\ raisedAt' = raisedAt /\ verdict # "none"
    BY <1>0, <1>3, <2>1 DEF DocInv, CancelClosing
  <2> QED BY <2>1, <2>2 DEF DocInv, LogInv, Documented, ForeignExplained
<1>4. CASE Handle
  BY <1>4, HandleKeepsDoc
<1>5. CASE HandleRaise
  BY <1>5, HandleRaiseKeepsDoc
<1>6. CASE HandleEnd
  <2>1. gen = "reading" /\ gen' = "closing" /\ verdict' = "end" /\ UNCHANGED log
    BY <1>6 DEF HandleEnd, Handling, Finish
  <2> QED BY <1>0, <2>1, EndKeepsDoc DEF Verdicts
<1>7. CASE HandleFailure
  <2>1. /\ gen = "reading" /\ gen' = "closing" /\ read' = "settled" /\ UNCHANGED <<inbox, log>>
        /\ verdict' = CHOOSE v \in {RaisedFor(e) : e \in inbox.marks} : TRUE
        /\ inbox \in Messages \cup Endings /\ inbox.type = "failed"
    BY <1>7 DEF HandleFailure, Handling, Finish, TypeOK
  <2>2. PICK e \in Failures : inbox = Failed(e) /\ verdict' = RaisedFor(e)
    BY <2>1, FailureRaised
  <2>3. RaisedFor(e) \in Verdicts \ {"none", "plan", "transient"}
    BY DEF Failures, RaisedFor, Verdicts
  <2>4. RaisedFor(e) = "foreign" => e = "foreign"
    BY DEF Failures, RaisedFor
  <2> QED BY <1>0, <2>1, <2>2, <2>3, <2>4, EndKeepsDoc
<1>8. CASE Leave
  BY <1>0, <1>8 DEF Leave, DocInv, LogInv, Documented, ForeignExplained
<1>9. CASE Shutdown
  <2>1. /\ UNCHANGED <<gen, inbox, rejected, resetsAt, verdict, raisedAt, log>>
        /\ read' # "pending" \/ read' = read
    BY <1>9 DEF Shutdown, ShutdownStart, Settled, SettleExpired, CancelExpired
  <2> QED BY <2>1 DEF DocInv, LogInv, Documented, ForeignExplained
<1>10. CASE Sdk
  <2>1. /\ UNCHANGED <<gen, rejected, resetsAt, verdict, raisedAt, log>>
        /\ read = "pending" \/ inbox' = inbox
        /\ read' # "pending" \/ read' = read
    BY <1>10 DEF Sdk, SdkDeliver, SdkEnd, SdkUnwound
  <2> QED BY <2>1 DEF DocInv, LogInv, Documented, ForeignExplained
<1>11. CASE Terminated \/ UNCHANGED vars
  BY <1>11 DEF Terminated, vars, DocInv, LogInv, Documented, ForeignExplained
<1> QED BY <1>1, <1>2, <1>3, <1>4, <1>5, <1>6, <1>7, <1>8, <1>9, <1>10, <1>11
        DEF Next, Consumer, RunOnce

(* run_once raises what its docstring says for the messages of the turn,   *)
(* whatever they are and however many; an error outside that list comes    *)
(* from a read, from a reset time that is no date, or from a payload whose *)
(* usage or delta cannot be converted.                                     *)
THEOREM AlwaysRaisedAsDocumented == Spec => []RaisedAsDocumented
<1>1. Init => DocInv
  <2> SUFFICES ASSUME Init PROVE DocInv
    OBVIOUS
  <2>1. log = <<>> /\ Len(log) = 0 /\ 1..Len(log) = {}
    BY EmptySeq DEF Init
  <2> QED BY <2>1 DEF Init, DocInv, LogInv, Harmless, RejectedBy, LatestIs, Documented,
                      ForeignExplained
<1>2. TypeOK /\ DocInv => RaisedAsDocumented
  BY DocumentedIs DEF TypeOK, DocInv
<1> QED BY <1>1, <1>2, NextDocInv, AdapterTypeCorrect, PTL DEF Spec

-----------------------------------------------------------------------------
(* What was yielded and what is still to be yielded, against the events of *)
(* the messages that were handled.  The rest is what never will be.        *)
EventKinds ==
  {"text_delta", "stream_event", "tool_use", "usage", "tool_result", "init"} \cup MessageTypes

EventsMade == [i \in DOMAIN log |-> EventsOf(log[i])]

DeliveryInv ==
  /\ delivered \in Seq(EventKinds) /\ outbox \in Seq(EventKinds)
  /\ verdict = "none" <=> gen \in {"unstarted", "reading", "yielded"}
  /\ gen \in {"unstarted", "reading"} => outbox = <<>>
  /\ \E rest \in Seq(EventKinds) :
       /\ delivered \o rest = FlattenSeq(EventsMade)
       /\ verdict \in {"none", "end"} => rest = outbox

LEMMA EventsOfTypes ==
  ASSUME NEW m \in Messages
  PROVE  EventsOf(m) \in Seq(EventKinds)
<1>1. /\ \A k, l \in EventKinds : <<k>> \in Seq(EventKinds) /\ <<k, l>> \in Seq(EventKinds)
      /\ <<>> \in Seq(EventKinds)
  BY EmptySeq
<1>2. /\ "tool_use" \in EventKinds /\ "usage" \in EventKinds /\ "tool_result" \in EventKinds
      /\ "init" \in EventKinds /\ "system" \in EventKinds
      /\ "text_delta" \in EventKinds /\ "stream_event" \in EventKinds
  BY DEF EventKinds, MessageTypes
<1>3. m.type \in MessageTypes
  BY MessageFields
<1>0. \A k \in EventKinds : [i \in 1..m.blocks |-> k] \in Seq(EventKinds)
  BY MessageFields
<1>4. CASE m.type = "assistant"
  <2>1. When("usage", "usage" \in m.marks) \in {<<"usage">>, <<>>}
    BY DEF When
  <2>2. EventsOf(m) = [i \in 1..m.blocks |-> "tool_use"] \o When("usage", "usage" \in m.marks)
    BY <1>4 DEF EventsOf
  <2>3. [i \in 1..m.blocks |-> "tool_use"] \in Seq(EventKinds)
    BY <1>0, <1>2
  <2>4. When("usage", "usage" \in m.marks) \in Seq(EventKinds)
    BY <1>1, <1>2, <2>1
  <2> QED BY <2>2, <2>3, <2>4, ConcatProperties
<1>5. CASE m.type = "user"
  <2>1. EventsOf(m) = [i \in 1..m.blocks |-> "tool_result"]
    BY <1>5 DEF EventsOf
  <2> QED BY <1>0, <1>2, <2>1
<1>6. CASE m.type \in {"stream", "system"}
  <2>1. EventsOf(m) \in {<<"text_delta">>, <<"stream_event">>, <<"init">>, <<"system">>}
    BY <1>6 DEF EventsOf
  <2> QED BY <1>1, <1>2, <2>1
<1>7. CASE m.type \notin {"assistant", "user", "stream", "system"}
  <2>1. EventsOf(m) = <<m.type>> /\ m.type \in EventKinds
    BY <1>3, <1>7 DEF EventsOf, EventKinds
  <2> QED BY <1>1, <2>1
<1> QED BY <1>4, <1>5, <1>6, <1>7

(* A message that is handled adds its events to those of the turn.         *)
LEMMA MessageHandled ==
  ASSUME TypeOK, NEW m \in Messages, log' = Append(log, m)
  PROVE  /\ FlattenSeq(EventsMade) \in Seq(EventKinds)
         /\ FlattenSeq(EventsMade') = FlattenSeq(EventsMade) \o EventsOf(m)
         /\ EventsOf(m) \in Seq(EventKinds)
<1>1. log \in Seq(Messages) /\ EventsOf(m) \in Seq(EventKinds)
  BY EventsOfTypes DEF TypeOK
<1>2. /\ DOMAIN log = 1..Len(log) /\ Len(log) \in Nat
      /\ DOMAIN log' = 1..(Len(log) + 1)
      /\ \A i \in 1..Len(log) : log[i] \in Messages /\ log'[i] = log[i]
      /\ log'[Len(log) + 1] = m
  BY <1>1, AppendProperties, LenProperties, ElementOfSeq
<1>3. EventsMade = [i \in 1..Len(log) |-> EventsOf(log[i])]
  BY <1>2 DEF EventsMade
<1>4. EventsMade' = [i \in 1..(Len(log) + 1) |-> EventsOf(log'[i])]
  BY <1>2 DEF EventsMade
<1>5. /\ EventsMade \in [1..Len(log) -> Seq(EventKinds)]
      /\ EventsMade' \in [1..(Len(log) + 1) -> Seq(EventKinds)]
      /\ \A i \in 1..Len(log) : EventsMade'[i] = EventsMade[i]
      /\ EventsMade'[Len(log) + 1] = EventsOf(m)
  <2>1. \A i \in 1..(Len(log) + 1) : log'[i] \in Messages
    BY <1>2
  <2> QED BY <1>2, <1>3, <1>4, <2>1, EventsOfTypes
<1> QED BY <1>1, <1>2, <1>5, FlattenGrown

(* Going on with a list of events: none is lost on the way to the consumer.*)
LEMMA ProceedDelivers ==
  ASSUME delivered \in Seq(EventKinds), outbox \in Seq(EventKinds),
         NEW events \in Seq(EventKinds), events = <<>> => outbox = <<>>, Proceed(events)
  PROVE  /\ delivered' \in Seq(EventKinds) /\ outbox' \in Seq(EventKinds)
         /\ delivered' \o outbox' = delivered \o events
         /\ (gen' = "reading" /\ outbox' = <<>>) \/ gen' = "yielded"
<1>1. CASE events = <<>>
  BY <1>1 DEF Proceed
<1>2. CASE events # <<>>
  <2>1. /\ delivered' = Append(delivered, Head(events)) /\ outbox' = Tail(events)
        /\ gen' = "yielded"
    BY <1>2 DEF Proceed
  <2>2. Head(events) \in EventKinds /\ Tail(events) \in Seq(EventKinds)
    BY <1>2, HeadTailProperties
  <2>3. Append(delivered, Head(events)) \in Seq(EventKinds)
    BY <2>2, AppendProperties
  <2> QED BY <1>2, <2>1, <2>2, <2>3, MoveHead
<1> QED BY <1>1, <1>2

(* Steps that neither handle a message nor yield.                          *)
LEMMA NothingYielded ==
  ASSUME DeliveryInv, UNCHANGED <<delivered, outbox, log>>,
         \/ verdict' = verdict
              /\ (gen' \in {"unstarted", "reading", "yielded"}
                    <=> gen \in {"unstarted", "reading", "yielded"})
              /\ (gen' \in {"unstarted", "reading"} => gen \in {"unstarted", "reading"})
         \/ verdict' \notin {"none", "end"} /\ gen' \in {"closing", "done"}
         \/ verdict' = "end" /\ gen' = "closing" /\ verdict = "none"
  PROVE  DeliveryInv'
<1>1. EventsMade' = EventsMade
  BY DEF EventsMade
<1>2. PICK rest \in Seq(EventKinds) :
        /\ delivered \o rest = FlattenSeq(EventsMade)
        /\ verdict \in {"none", "end"} => rest = outbox
  BY DEF DeliveryInv
<1>3. /\ delivered' \o rest = FlattenSeq(EventsMade')
      /\ verdict' \in {"none", "end"} => rest = outbox'
  BY <1>1, <1>2
<1> QED BY <1>3 DEF DeliveryInv

LEMMA NextDeliveryInv == TypeOK /\ AdapterInv /\ DeliveryInv /\ [Next]_vars => DeliveryInv'
<1> SUFFICES ASSUME TypeOK, AdapterInv, DeliveryInv, [Next]_vars PROVE DeliveryInv'
  OBVIOUS
<1>0. /\ delivered \in Seq(EventKinds) /\ outbox \in Seq(EventKinds)
      /\ verdict = "none" <=> gen \in {"unstarted", "reading", "yielded"}
      /\ gen \in {"unstarted", "reading"} => outbox = <<>>
      /\ verdict = "none" => delivered \o outbox = FlattenSeq(EventsMade)
  BY DEF DeliveryInv
<1>1. CASE Consumer
  <2>1. CASE OptionsRejected \/ Close \/ Cancel \/ CancelClosing
    BY <1>0, <2>1, NothingYielded DEF OptionsRejected, Close, Cancel, CancelClosing, Finish
  <2>2. CASE Start
    BY <1>0, <2>2, NothingYielded DEF Start, endVars
  <2>3. CASE AskNext
    <3>1. gen = "yielded" /\ verdict' = verdict /\ log' = log /\ Proceed(outbox)
      BY <2>3 DEF AskNext, endVars
    <3>2. /\ delivered' \in Seq(EventKinds) /\ outbox' \in Seq(EventKinds)
          /\ delivered' \o outbox' = delivered \o outbox
          /\ (gen' = "reading" /\ outbox' = <<>>) \/ gen' = "yielded"
      BY <1>0, <3>1, ProceedDelivers
    <3>3. EventsMade' = EventsMade
      BY <3>1 DEF EventsMade
    <3> QED BY <1>0, <3>1, <3>2, <3>3 DEF DeliveryInv
  <2> QED BY <1>1, <2>1, <2>2, <2>3 DEF Consumer
<1>2. CASE RunOnce
  <2>1. CASE Handle
    <3>1. /\ gen = "reading" /\ verdict' = verdict /\ Proceed(EventsOf(inbox))
          /\ log' = Append(log, inbox) /\ inbox \in Messages
      BY <2>1 DEF Handle, Handling, endVars, TypeOK, MessageTypes, Endings, Exhausted, Failed
    <3>2. /\ EventsOf(inbox) \in Seq(EventKinds)
          /\ FlattenSeq(EventsMade') = FlattenSeq(EventsMade) \o EventsOf(inbox)
      BY <3>1, MessageHandled
    <3>3. outbox = <<>> /\ delivered \o outbox = FlattenSeq(EventsMade) /\ verdict = "none"
      BY <1>0, <3>1
    <3>4. /\ delivered' \in Seq(EventKinds) /\ outbox' \in Seq(EventKinds)
          /\ delivered' \o outbox' = delivered \o EventsOf(inbox)
          /\ (gen' = "reading" /\ outbox' = <<>>) \/ gen' = "yielded"
      BY <1>0, <3>1, <3>2, <3>3, ProceedDelivers
    <3>5. delivered = FlattenSeq(EventsMade)
      BY <1>0, <3>3, ConcatEmptySeq
    <3> QED BY <3>1, <3>2, <3>3, <3>4, <3>5 DEF DeliveryInv
  <2>2. CASE HandleRaise
    <3>1. /\ gen = "reading" /\ verdict' \notin {"none", "end"} /\ gen' = "closing"
          /\ log' = Append(log, inbox) /\ inbox \in Messages
          /\ UNCHANGED <<delivered, outbox>>
      BY <2>2, ClassifyTypes
      DEF HandleRaise, Handling, Finish, TypeOK, MessageTypes, Endings, Exhausted, Failed
    <3>2. /\ EventsOf(inbox) \in Seq(EventKinds)
          /\ FlattenSeq(EventsMade') = FlattenSeq(EventsMade) \o EventsOf(inbox)
      BY <3>1, MessageHandled
    <3>3. delivered = FlattenSeq(EventsMade)
      BY <1>0, <3>1, ConcatEmptySeq
    <3>4. delivered' \o EventsOf(inbox) = FlattenSeq(EventsMade')
      BY <3>1, <3>2, <3>3
    <3> QED BY <1>0, <3>1, <3>2, <3>4 DEF DeliveryInv
  <2>3. CASE HandleEnd
    BY <1>0, <2>3, NothingYielded DEF HandleEnd, Handling, Finish
  <2>4. CASE HandleFailure
    <3>1. verdict' \notin {"none", "end"}
      BY <2>4, FailureRaised, RaisedTypes DEF HandleFailure, Handling, Finish, TypeOK
    <3> QED BY <2>4, <3>1, NothingYielded DEF HandleFailure, Finish
  <2>5. CASE Leave
    BY <2>5, NothingYielded DEF Leave, endVars
  <2> QED BY <1>2, <2>1, <2>2, <2>3, <2>4, <2>5 DEF RunOnce
<1>3. CASE Shutdown
  <2>1. UNCHANGED <<delivered, outbox, log, gen, verdict>>
    BY <1>3 DEF Shutdown, ShutdownStart, Settled, SettleExpired, CancelExpired, endVars
  <2> QED BY <2>1, NothingYielded
<1>4. CASE Sdk
  <2>1. UNCHANGED <<delivered, outbox, log, gen, verdict>>
    BY <1>4 DEF Sdk, SdkDeliver, SdkEnd, SdkUnwound, endVars
  <2> QED BY <2>1, NothingYielded
<1>5. CASE Terminated \/ UNCHANGED vars
  <2>1. UNCHANGED <<delivered, outbox, log, gen, verdict>>
    BY <1>5 DEF Terminated, vars, endVars
  <2> QED BY <2>1, NothingYielded
<1> QED BY <1>1, <1>2, <1>3, <1>4, <1>5 DEF Next

(* The inductive invariant holds for turns of every length.                *)
THEOREM DeliveryInvariant == Spec => []DeliveryInv
<1>1. Init => DeliveryInv
  <2> SUFFICES ASSUME Init PROVE DeliveryInv
    OBVIOUS
  <2>1. <<>> \in Seq(EventKinds) /\ log = <<>>
    BY EmptySeq DEF Init
  <2>2. EventsMade = <<>>
    BY <2>1 DEF EventsMade
  <2>3. FlattenSeq(<<>>) = <<>> /\ <<>> \o <<>> = <<>>
    BY <2>1, EmptySeq, ConcatEmptySeq DEF FlattenSeq
  <2> QED BY <2>1, <2>2, <2>3 DEF Init, DeliveryInv
<1> QED BY <1>1, NextDeliveryInv, AdapterTypeCorrect, AdapterInvariant, PTL DEF Spec

(* The consumer gets the events of all the messages, in order and without  *)
(* gaps, however many messages there are: nothing that was handled is lost *)
(* while the turn goes on or when it ended by itself, and what was got     *)
(* before any other end is a prefix.                                       *)
THEOREM NothingEverDropped == Spec => []NothingDropped
<1>1. DeliveryInv => NothingDropped
  <2> SUFFICES ASSUME DeliveryInv PROVE NothingDropped
    OBVIOUS
  <2>1. PICK rest \in Seq(EventKinds) :
          /\ delivered \o rest = FlattenSeq(EventsMade)
          /\ verdict \in {"none", "end"} => rest = outbox
    BY DEF DeliveryInv
  <2>2. IsPrefix(delivered, delivered \o rest)
    BY PrefixOfConcat DEF DeliveryInv
  <2> QED BY <2>1, <2>2 DEF NothingDropped, EventsMade
<1> QED BY <1>1, DeliveryInvariant, PTL
=============================================================================
