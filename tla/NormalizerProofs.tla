-------------------------- MODULE NormalizerProofs --------------------------
(* Theorems about normalize().                                             *)
EXTENDS Normalizer, FoldProofs

LEMMA NextTypeOK == TypeOK /\ [Next]_vars => TypeOK'
<1> SUFFICES ASSUME TypeOK, [Next]_vars PROVE TypeOK'
  OBVIOUS
<1> USE DEF TypeOK, accumulators
<1>1. ASSUME NEW e \in Events, Read(e) PROVE history' \in Seq(Events)
  BY <1>1, AppendProperties DEF Read
<1>2. ASSUME NEW e \in Events, TextDelta(e) PROVE TypeOK'
  <2>1. e.text \in Fragments
    BY <1>2 DEF TextDelta, Events
  <2>2. textParts' \in Seq(Fragments)
    BY <1>2, <2>1, AppendProperties DEF TextDelta
  <2> QED BY <1>1, <1>2, <2>2 DEF TextDelta, Yield
<1>3. ASSUME NEW e \in Events, Tool(e) \/ Terminal(e) PROVE TypeOK'
  <2>1. UNCHANGED accumulators /\ ending' = ending /\ Read(e) /\ status' = "yielding"
    BY <1>3 DEF Tool, Terminal, Yield
  <2> QED BY <1>1, <2>1
<1>4. ASSUME NEW e \in Events, UsageReport(e) PROVE TypeOK'
  <2>1. e.usage \in Tokens /\ e.message_id \in MessageIds \cup {"None"}
    BY <1>4 DEF UsageReport, Events
  <2>2. anonymous' \in Seq(Tokens)
    <3>1. Append(anonymous, e.usage) \in Seq(Tokens)
      BY <2>1, AppendProperties
    <3> QED BY <1>4, <3>1 DEF UsageReport
  <2>3. usageByMessage' \in [MessageIds -> Tokens \cup {NoUsage}]
    BY <1>4, <2>1 DEF UsageReport, SetDefault
  <2> QED BY <1>1, <1>4, <2>2, <2>3 DEF UsageReport
<1>5. ASSUME NEW e \in Events, SessionInit(e) PROVE TypeOK'
  <2>1. e.session_id \in Sessions \cup {""}
    BY <1>5 DEF SessionInit, Events
  <2> QED BY <1>1, <1>5, <2>1 DEF SessionInit
<1>6. ASSUME NEW e \in Events, Diagnostics(e) \/ Malformed(e) PROVE TypeOK'
  BY <1>1, <1>6 DEF Diagnostics, Malformed
<1>7. CASE \/ StreamOver("exhausted") \/ StreamOver("upstream")
           \/ Resume \/ CloseYielding \/ CloseEvents \/ Terminated \/ UNCHANGED vars
  BY <1>7 DEF StreamOver, Resume, CloseYielding, CloseEvents, Terminated, vars
<1> QED BY <1>2, <1>3, <1>4, <1>5, <1>6, <1>7 DEF Next

(* Every variable of the normalizer keeps its type.                        *)
THEOREM NormalizerTypeCorrect == Spec => []TypeOK
<1>1. Init => TypeOK
  <2>1. <<>> \in Seq(Events) /\ <<>> \in Seq(Fragments) /\ <<>> \in Seq(Tokens)
    BY EmptySeq
  <2> QED BY <2>1 DEF Init, TypeOK
<1> QED BY <1>1, NextTypeOK, PTL DEF Spec

-----------------------------------------------------------------------------
(* What may happen next and how it may end, by where the generator is.     *)
EndingInv ==
  /\ status \in {"reading", "yielding"} => ending = "none"
  /\ status = "closing" => ending \in {"end", "exhausted", "closed", "malformed", "upstream"}
  /\ status = "done" => ending \in {"end", "closed", "malformed", "upstream", "no result"}
  /\ ending = "end" => ResultYielded
  /\ ResultYielded => status # "reading" /\ ending \in {"none", "end", "closed"}

OneResult == \A i \in 1..Len(chunks) : chunks[i].type = "Result" => i = Len(chunks)

TerminalInv == (\E S : chunks \in Seq(S)) /\ OneResult /\ EndingInv

-----------------------------------------------------------------------------
(* The loop reads on only while there is no Result, so a chunk that is     *)
(* yielded follows none.                                                   *)
LEMMA YieldKeeps ==
  ASSUME TerminalInv, status = "reading", NEW chunk, Yield(chunk), ending' = ending
  PROVE  TerminalInv'
<1>1. PICK S : chunks \in Seq(S)
  BY DEF TerminalInv
<1>2. chunks \in Seq(S \cup {chunk})
  BY <1>1, SeqMonotonic
<1>3. /\ chunks' \in Seq(S \cup {chunk})
      /\ Len(chunks') = Len(chunks) + 1
      /\ \A i \in 1..Len(chunks) : chunks'[i] = chunks[i]
      /\ chunks'[Len(chunks) + 1] = chunk
  BY <1>2, AppendProperties DEF Yield
<1>4. Len(chunks) \in Nat /\ (Len(chunks) > 0 => chunks # <<>>)
  BY <1>1, LenProperties, EmptySeq
<1>5. ~ResultYielded /\ ending = "none"
  BY DEF TerminalInv, EndingInv
<1>6. \A i \in 1..Len(chunks) : chunks[i].type # "Result"
  <2>1. Len(chunks) > 0 => chunks[Len(chunks)].type # "Result"
    BY <1>4, <1>5 DEF ResultYielded, Last
  <2>2. OneResult
    BY DEF TerminalInv
  <2> QED BY <1>4, <2>1, <2>2 DEF OneResult
<1>7. OneResult'
  BY <1>3, <1>4, <1>6 DEF OneResult
<1>8. EndingInv'
  BY <1>5 DEF EndingInv, Yield
<1> QED BY <1>3, <1>7, <1>8 DEF TerminalInv

LEMMA OthersKeep ==
  ASSUME TerminalInv, UNCHANGED chunks, EndingInv'
  PROVE  TerminalInv'
BY DEF TerminalInv, OneResult

LEMMA NextTerminalInv == TerminalInv /\ [Next]_vars => TerminalInv'
<1> SUFFICES ASSUME TerminalInv, [Next]_vars PROVE TerminalInv'
  OBVIOUS
<1>0. EndingInv
  BY DEF TerminalInv
<1>1. ASSUME NEW e \in Events, TextDelta(e) \/ Tool(e) \/ Terminal(e) PROVE TerminalInv'
  <2>1. status = "reading" /\ ending' = ending /\ \E chunk : Yield(chunk)
    <3>1. CASE TextDelta(e)
      BY <3>1, Zenon DEF TextDelta, Read
    <3>2. CASE Tool(e)
      BY <3>2, Zenon DEF Tool, Read
    <3>3. CASE Terminal(e)
      BY <3>3, Zenon DEF Terminal, Read
    <3> QED BY <1>1, <3>1, <3>2, <3>3
  <2> QED BY <2>1, YieldKeeps
<1>2. ASSUME NEW e \in Events, UsageReport(e) \/ SessionInit(e) \/ Diagnostics(e)
      PROVE TerminalInv'
  <2>1. UNCHANGED <<chunks, status, ending>>
    BY <1>2 DEF UsageReport, SessionInit, Diagnostics
  <2> QED BY <1>0, <2>1, OthersKeep DEF EndingInv, ResultYielded
<1>3. ASSUME NEW e \in Events, Malformed(e) PROVE TerminalInv'
  <2>1. status = "reading" /\ status' = "closing" /\ ending' = "malformed" /\ UNCHANGED chunks
    BY <1>3 DEF Malformed, Read
  <2> QED BY <1>0, <2>1, OthersKeep DEF EndingInv, ResultYielded
<1>4. CASE StreamOver("exhausted") \/ StreamOver("upstream")
  <2>1. /\ status = "reading" /\ status' = "closing" /\ UNCHANGED chunks
        /\ ending' \in {"exhausted", "upstream"}
    BY <1>4 DEF StreamOver
  <2> QED BY <1>0, <2>1, OthersKeep DEF EndingInv, ResultYielded
<1>5. CASE Resume \/ CloseYielding
  <2>1. UNCHANGED chunks /\ (ResultYielded' <=> ResultYielded)
    BY <1>5 DEF Resume, CloseYielding, ResultYielded
  <2>2. EndingInv'
    BY <1>0, <1>5, <2>1 DEF Resume, CloseYielding, EndingInv
  <2> QED BY <2>1, <2>2, OthersKeep
<1>6. CASE CloseEvents
  <2>1. UNCHANGED chunks /\ (ResultYielded' <=> ResultYielded)
    BY <1>6 DEF CloseEvents, ResultYielded
  <2>2. EndingInv'
    BY <1>0, <1>6, <2>1 DEF CloseEvents, EndingInv
  <2> QED BY <2>1, <2>2, OthersKeep
<1>7. CASE Terminated \/ UNCHANGED vars
  <2>1. UNCHANGED <<chunks, status, ending>>
    BY <1>7 DEF Terminated, vars
  <2> QED BY <1>0, <2>1, OthersKeep DEF EndingInv, ResultYielded
<1> QED BY <1>1, <1>2, <1>3, <1>4, <1>5, <1>6, <1>7 DEF Next

(* The inductive invariant holds for streams of every length.              *)
THEOREM TerminalInvariant == Spec => []TerminalInv
<1>1. Init => TerminalInv
  <2> SUFFICES ASSUME Init PROVE TerminalInv
    OBVIOUS
  <2>1. chunks = <<>> /\ status = "reading" /\ ending = "none"
    BY DEF Init
  <2>2. chunks \in Seq({}) /\ Len(chunks) = 0
    BY <2>1, EmptySeq
  <2> QED BY <2>1, <2>2 DEF TerminalInv, OneResult, EndingInv, ResultYielded
<1> QED BY <1>1, NextTerminalInv, PTL DEF Spec

(* Exactly one Result, always last: no generator that ends without an      *)
(* error lacks it, and none reads, yields or fails after it.               *)
THEOREM AlwaysOneTerminalResult == Spec => []OneTerminalResult
<1>1. TerminalInv => OneTerminalResult
  <2> SUFFICES ASSUME TerminalInv PROVE OneTerminalResult
    OBVIOUS
  <2>1. PICK S : chunks \in Seq(S)
    BY DEF TerminalInv
  <2>2. DOMAIN chunks = 1..Len(chunks)
    BY <2>1, LenProperties
  <2> QED BY <2>2 DEF TerminalInv, OneResult, EndingInv, OneTerminalResult
<1> QED BY <1>1, TerminalInvariant, PTL

-----------------------------------------------------------------------------
(* The accumulators hold what the history says, read event by event.       *)
ShownSoFar == FlattenSeq([i \in DOMAIN history |-> Shown(history[i])])

Known == {m \in MessageIds : usageByMessage[m] # NoUsage}

CountedTotal == SumFunction([i \in Counted |-> history[i].usage])

SessionAccount ==
  \/ Named = {} /\ sessionId = ""
  \/ \E i \in Named : (\A j \in Named : j <= i) /\ sessionId = history[i].session_id

UsageAccount ==
  /\ IsFiniteSet(Known)
  /\ \A m \in MessageIds : m \in Known <=> \E i \in At("usage") : history[i].message_id = m
  /\ anonymous = <<>> <=> \A i \in At("usage") : history[i].message_id # "None"
  /\ CountedTotal = SumFunction(anonymous) + SumFunctionOnSet(usageByMessage, Known)

AccountInv ==
  /\ ChunksInOrder
  /\ textParts = SpokenText
  /\ SessionAccount
  /\ UsageAccount

-----------------------------------------------------------------------------
LEMMA HistoryGrows ==
  ASSUME TypeOK, NEW e \in Events, Read(e)
  PROVE  /\ Len(history) \in Nat
         /\ DOMAIN history = 1..Len(history)
         /\ DOMAIN history' = 1..(Len(history) + 1)
         /\ \A i \in 1..Len(history) : history[i] \in Events /\ history'[i] = history[i]
         /\ history'[Len(history) + 1] = e
         /\ Len(history') = Len(history) + 1
<1>1. history \in Seq(Events) /\ history' = Append(history, e)
  BY DEF TypeOK, Read
<1>2. /\ history' \in Seq(Events) /\ Len(history') = Len(history) + 1
      /\ \A i \in 1..Len(history) : history'[i] = history[i]
      /\ history'[Len(history) + 1] = e
  BY <1>1, AppendProperties
<1>3. /\ Len(history) \in Nat /\ DOMAIN history = 1..Len(history)
      /\ DOMAIN history' = 1..Len(history')
      /\ \A i \in 1..Len(history) : history[i] \in Events
  BY <1>1, <1>2, LenProperties, ElementOfSeq
<1> QED BY <1>2, <1>3

LEMMA NextPosition ==
  \A n \in Nat : n + 1 <= n + 1 /\ \A i \in 1..n : i # n + 1 /\ i <= n + 1
OBVIOUS

LEMMA AtGrows ==
  ASSUME TypeOK, NEW e \in Events, Read(e), NEW kind
  PROVE  At(kind)' = At(kind) \cup (IF e.kind = kind THEN {Len(history) + 1} ELSE {})
BY HistoryGrows DEF At

LEMMA EventFields ==
  ASSUME NEW e \in Events
  PROVE  /\ e.kind = "usage" => e.usage \in Tokens /\ e.usage \in Nat
                                  /\ e.message_id \in MessageIds \cup {"None"}
         /\ e.kind = "text_delta" => e.text \in Fragments
BY NormalizerAssumption DEF Events

LEMMA TextGrows ==
  ASSUME TypeOK, NEW e \in Events, Read(e)
  PROVE  /\ SpokenText \in Seq(Fragments)
         /\ SpokenText' = SpokenText \o Fragment(e)
<1> DEFINE s == [i \in DOMAIN history |-> Fragment(history[i])]
<1>1. \A x \in Events : Fragment(x) \in Seq(Fragments)
  <2>1. \A f \in Fragments : <<f>> \in Seq(Fragments)
    OBVIOUS
  <2>2. <<>> \in Seq(Fragments)
    BY EmptySeq
  <2> QED BY <2>1, <2>2, EventFields DEF Fragment
<1>2. /\ s \in [1..Len(history) -> Seq(Fragments)]
      /\ s' \in [1..(Len(history) + 1) -> Seq(Fragments)]
      /\ \A i \in 1..Len(history) : s'[i] = s[i]
      /\ s'[Len(history) + 1] = Fragment(e) /\ Len(history) \in Nat
  <2>1. \A i \in 1..(Len(history) + 1) : history'[i] \in Events
    BY HistoryGrows
  <2> QED BY <1>1, <2>1, HistoryGrows
<1> HIDE DEF s
<1>3. FlattenSeq(s) \in Seq(Fragments) /\ FlattenSeq(s') = FlattenSeq(s) \o Fragment(e)
  BY <1>2, FlattenGrown
<1> QED BY <1>3 DEF s, SpokenText

Types == {"TextDelta", "tool_use", "tool_result", "Result"}

LEMMA ShownGrows ==
  ASSUME TypeOK, NEW e \in Events, Read(e)
  PROVE  /\ ShownSoFar \in Seq(Types)
         /\ ShownSoFar' = ShownSoFar \o Shown(e)
<1> DEFINE s == [i \in DOMAIN history |-> Shown(history[i])]
<1>1. \A x \in Events : Shown(x) \in Seq(Types)
  <2>1. \A f \in Types : <<f>> \in Seq(Types)
    OBVIOUS
  <2>2. <<>> \in Seq(Types)
    BY EmptySeq
  <2>3. \A k \in DOMAIN ChunkTypes : ChunkTypes[k] \in Types
    BY DEF ChunkTypes, Types
  <2> QED BY <2>1, <2>2, <2>3 DEF Shown
<1>2. /\ s \in [1..Len(history) -> Seq(Types)]
      /\ s' \in [1..(Len(history) + 1) -> Seq(Types)]
      /\ \A i \in 1..Len(history) : s'[i] = s[i]
      /\ s'[Len(history) + 1] = Shown(e) /\ Len(history) \in Nat
  <2>1. \A i \in 1..(Len(history) + 1) : history'[i] \in Events
    BY HistoryGrows
  <2> QED BY <1>1, <2>1, HistoryGrows
<1> HIDE DEF s
<1>3. FlattenSeq(s) \in Seq(Types) /\ FlattenSeq(s') = FlattenSeq(s) \o Shown(e)
  BY <1>2, FlattenGrown
<1> QED BY <1>3 DEF s, ShownSoFar

-----------------------------------------------------------------------------
(* The chunks: an event is shown by the chunk it is owed, or by none.      *)
LEMMA ChunksGrow ==
  ASSUME TypeOK, NEW e \in Events, Read(e), ChunksInOrder, NEW S, chunks \in Seq(S),
         \/ Shown(e) = <<>> /\ UNCHANGED chunks
         \/ \E chunk : Yield(chunk) /\ Shown(e) = <<chunk.type>> /\ chunk.type \in Types
  PROVE  ChunksInOrder'
<1> DEFINE yielded == [i \in DOMAIN chunks |-> chunks[i].type]
<1>1. yielded = ShownSoFar /\ ShownSoFar \in Seq(Types) /\ ShownSoFar' = ShownSoFar \o Shown(e)
  BY ShownGrows DEF ChunksInOrder, ShownSoFar
<1>2. CASE Shown(e) = <<>> /\ UNCHANGED chunks
  <2>1. ShownSoFar' = ShownSoFar
    BY <1>1, <1>2, ConcatEmptySeq
  <2> QED BY <1>1, <1>2, <2>1 DEF ChunksInOrder, ShownSoFar
<1>3. ASSUME NEW chunk, Yield(chunk), Shown(e) = <<chunk.type>>, chunk.type \in Types
      PROVE  ChunksInOrder'
  <2>1. chunks \in Seq(S \cup {chunk})
    BY SeqMonotonic
  <2>2. /\ DOMAIN chunks = 1..Len(chunks) /\ Len(chunks) \in Nat
        /\ DOMAIN chunks' = 1..(Len(chunks) + 1)
        /\ \A i \in 1..Len(chunks) : chunks'[i] = chunks[i]
        /\ chunks'[Len(chunks) + 1] = chunk
    BY <1>3, <2>1, AppendProperties, LenProperties DEF Yield
  <2>3. /\ ShownSoFar' \in Seq(Types) /\ Len(yielded) = Len(chunks)
        /\ Len(ShownSoFar') = Len(chunks) + 1
        /\ \A i \in 1..(Len(chunks) + 1) :
             ShownSoFar'[i] = IF i <= Len(chunks) THEN yielded[i] ELSE chunk.type
    <3>1. <<chunk.type>> \in Seq(Types) /\ Len(<<chunk.type>>) = 1
          /\ <<chunk.type>>[1] = chunk.type
      BY <1>3
    <3>2. Len(ShownSoFar) = Len(chunks)
      BY <1>1, <2>2, LenProperties
    <3>3. /\ ShownSoFar \o <<chunk.type>> \in Seq(Types)
          /\ Len(ShownSoFar \o <<chunk.type>>) = Len(chunks) + 1
          /\ \A i \in 1..(Len(chunks) + 1) :
               (ShownSoFar \o <<chunk.type>>)[i]
                 = IF i <= Len(chunks) THEN ShownSoFar[i] ELSE <<chunk.type>>[i - Len(chunks)]
      BY <1>1, <3>1, <3>2, ConcatProperties
    <3>4. ShownSoFar' = ShownSoFar \o <<chunk.type>>
      BY <1>1, <1>3
    <3>5. \A i \in 1..(Len(chunks) + 1) :
            ~(i <= Len(chunks)) => <<chunk.type>>[i - Len(chunks)] = chunk.type
      BY <2>2, <3>1
    <3> QED BY <1>1, <3>2, <3>3, <3>4, <3>5
  <2>4. [i \in DOMAIN chunks' |-> chunks'[i].type] = ShownSoFar'
    <3>1. DOMAIN ShownSoFar' = 1..(Len(chunks) + 1)
          /\ ShownSoFar' = [i \in DOMAIN ShownSoFar' |-> ShownSoFar'[i]]
      BY <2>3, LenProperties
    <3>2. ASSUME NEW i \in 1..(Len(chunks) + 1) PROVE chunks'[i].type = ShownSoFar'[i]
      <4>1. CASE i <= Len(chunks)
        <5>1. i \in 1..Len(chunks) /\ ShownSoFar'[i] = yielded[i]
          BY <2>2, <2>3, <4>1
        <5> QED BY <2>2, <5>1
      <4>2. CASE i = Len(chunks) + 1
        BY <2>2, <2>3, <4>2
      <4> QED BY <2>2, <4>1, <4>2
    <3> QED BY <2>2, <3>1, <3>2
  <2> QED BY <2>4 DEF ChunksInOrder, ShownSoFar
<1> QED BY <1>2, <1>3

-----------------------------------------------------------------------------
LEMMA SessionGrows ==
  ASSUME TypeOK, NEW e \in Events, Read(e), SessionAccount,
         sessionId' = IF e.kind = "init" /\ e.session_id # "" THEN e.session_id ELSE sessionId
  PROVE  SessionAccount'
<1>0. \A i \in 1..Len(history) : i # Len(history) + 1 /\ i <= Len(history) + 1
  BY NextPosition, HistoryGrows
<1>1. Named' = Named \cup (IF e.kind = "init" /\ e.session_id # ""
                           THEN {Len(history) + 1} ELSE {})
  <2>1. At("init")' = At("init") \cup (IF e.kind = "init" THEN {Len(history) + 1} ELSE {})
    BY AtGrows
  <2>2. At("init") \subseteq 1..Len(history)
    BY HistoryGrows DEF At
  <2>3. Named' = {i \in At("init")' : history'[i].session_id # ""}
    BY DEF Named
  <2>4. \A i \in 1..Len(history) : history'[i] = history[i] /\ i # Len(history) + 1
    BY <1>0, HistoryGrows
  <2>5. history'[Len(history) + 1] = e
    BY HistoryGrows
  <2> QED BY <2>1, <2>2, <2>3, <2>4, <2>5 DEF Named
<1>2. \A i \in Named : i \in 1..Len(history) /\ history'[i] = history[i]
  BY HistoryGrows DEF Named, At
<1>3. CASE e.kind = "init" /\ e.session_id # ""
  <2>1. Len(history) + 1 \in Named' /\ \A j \in Named' : j <= Len(history) + 1
    <3>1. Named' = Named \cup {Len(history) + 1}
      BY <1>1, <1>3
    <3>2. \A j \in Named : j <= Len(history) + 1
      BY <1>0, <1>2
    <3>3. Len(history) + 1 <= Len(history) + 1
      BY NextPosition, HistoryGrows
    <3> QED BY <3>1, <3>2, <3>3
  <2>2. sessionId' = history'[Len(history) + 1].session_id
    BY <1>3, HistoryGrows
  <2> QED BY <2>1, <2>2 DEF SessionAccount
<1>4. CASE ~(e.kind = "init" /\ e.session_id # "")
  <2>1. Named' = Named /\ sessionId' = sessionId
    BY <1>1, <1>4
  <2> QED BY <1>2, <2>1 DEF SessionAccount
<1> QED BY <1>3, <1>4

-----------------------------------------------------------------------------
(* The positions of the reports, and which of them count, are settled once *)
(* they are read.                                                          *)
LEMMA CountedGrows ==
  ASSUME TypeOK, NEW e \in Events, Read(e)
  PROVE  Counted' = Counted \cup
           (IF /\ e.kind = "usage"
               /\ \/ e.message_id = "None"
                  \/ \A j \in At("usage") : history[j].message_id # e.message_id
            THEN {Len(history) + 1} ELSE {})
<1>1. At("usage")' = At("usage") \cup (IF e.kind = "usage" THEN {Len(history) + 1} ELSE {})
  BY AtGrows
<1>2. At("usage") \subseteq 1..Len(history)
  BY HistoryGrows DEF At
<1>3. ASSUME NEW i \in At("usage") PROVE i \in Counted' <=> i \in Counted
  <2>1. \A j \in At("usage")' : j < i => j \in At("usage")
    BY <1>1, <1>2, <1>3, HistoryGrows
  <2> QED BY <1>1, <1>2, <2>1, HistoryGrows DEF Counted
<1>4. ASSUME e.kind = "usage"
      PROVE  Len(history) + 1 \in Counted' <=>
               \/ e.message_id = "None"
               \/ \A j \in At("usage") : history[j].message_id # e.message_id
  <2>1. \A j \in At("usage")' : j < Len(history) + 1 <=> j \in At("usage")
    BY <1>1, <1>2, HistoryGrows
  <2>2. Len(history) + 1 \in At("usage")'
    BY <1>1, <1>4
  <2>3. /\ history'[Len(history) + 1] = e
        /\ \A j \in At("usage") : history'[j] = history[j] /\ j \in At("usage")'
    BY <1>1, <1>2, HistoryGrows
  <2>4. Counted' = {i \in At("usage")' :
                      \/ history'[i].message_id = "None"
                      \/ \A j \in At("usage")' :
                           j < i => history'[j].message_id # history'[i].message_id}
    BY DEF Counted
  <2> QED BY <2>1, <2>2, <2>3, <2>4
<1>5. Counted \subseteq At("usage") /\ Counted' \subseteq At("usage")'
  BY DEF Counted
<1> QED BY <1>1, <1>2, <1>3, <1>4, <1>5, HistoryGrows

LEMMA CountedFacts ==
  ASSUME TypeOK
  PROVE  /\ IsFiniteSet(Counted)
         /\ \A i \in Counted : history[i].usage \in Nat /\ i \in 1..Len(history)
<1>1. DOMAIN history = 1..Len(history) /\ Len(history) \in Nat
      /\ \A i \in 1..Len(history) : history[i] \in Events
  BY LenProperties, ElementOfSeq DEF TypeOK
<1>2. Counted \subseteq 1..Len(history) /\ \A i \in Counted : history[i].kind = "usage"
  BY <1>1 DEF Counted, At
<1>3. IsFiniteSet(1..Len(history))
  BY <1>1, FS_Interval
<1>4. IsFiniteSet(Counted)
  BY <1>2, <1>3, FS_Subset
<1> QED BY <1>1, <1>2, <1>4, EventFields

LEMMA CountedSame ==
  ASSUME TypeOK, NEW e \in Events, Read(e), Counted' = Counted
  PROVE  CountedTotal' = CountedTotal
<1>1. \A i \in Counted : history'[i].usage = history[i].usage
  BY CountedFacts, HistoryGrows
<1>2. [i \in Counted' |-> history'[i].usage] = [i \in Counted |-> history[i].usage]
  BY <1>1
<1> QED BY <1>2 DEF CountedTotal

LEMMA CountedAdds ==
  ASSUME TypeOK, NEW e \in Events, Read(e), e.usage \in Nat,
         Counted' = Counted \cup {Len(history) + 1}
  PROVE  CountedTotal' = CountedTotal + e.usage /\ CountedTotal \in Nat
<1> SUFFICES ASSUME NEW n, n = Len(history) + 1,
                    NEW f, f = [i \in Counted |-> history[i].usage],
                    NEW h, h = [i \in Counted \cup {n} |-> history'[i].usage]
             PROVE  /\ SumFunction(h) = SumFunction(f) + e.usage
                    /\ SumFunction(f) \in Nat
  BY DEF CountedTotal
<1>1. /\ IsFiniteSet(Counted) /\ n \notin Counted
      /\ \A i \in Counted : f[i] \in Nat /\ h[i] = f[i]
      /\ h[n] = e.usage
  <2>1. \A i \in 1..Len(history) : i # n /\ history'[i] = history[i]
    BY HistoryGrows, NextPosition
  <2>2. history'[n] = e
    BY HistoryGrows
  <2> QED BY <2>1, <2>2, CountedFacts
<1>2. \A i \in Counted \cup {n} : h[i] \in Nat
  BY <1>1
<1>3. SumFunctionOnSet(h, Counted \cup {n}) = h[n] + SumFunctionOnSet(h, Counted)
  BY <1>1, <1>2, SumInsert
<1>4. SumFunctionOnSet(h, Counted) = SumFunctionOnSet(f, Counted)
  BY <1>1, SumSame
<1>5. SumFunctionOnSet(f, Counted) \in Nat
  BY <1>1, SumType
<1>6. DOMAIN f = Counted /\ DOMAIN h = Counted \cup {n}
  OBVIOUS
<1> QED BY <1>1, <1>3, <1>4, <1>5, <1>6 DEF SumFunction

LEMMA UsageQuiet ==
  ASSUME TypeOK, NEW e \in Events, Read(e), e.kind # "usage", UsageAccount,
         UNCHANGED <<usageByMessage, anonymous>>
  PROVE  UsageAccount'
<1>1. At("usage")' = At("usage") /\ Counted' = Counted
  <2>1. At("usage")' = At("usage") \cup (IF e.kind = "usage" THEN {Len(history) + 1} ELSE {})
    BY AtGrows
  <2>2. Counted' = Counted \cup {} \/ e.kind = "usage"
    BY CountedGrows, Zenon
  <2> QED BY <2>1, <2>2
<1>2. \A i \in At("usage") : history'[i] = history[i]
  BY HistoryGrows DEF At
<1>3. CountedTotal' = CountedTotal /\ Known' = Known
  BY <1>1, CountedSame DEF Known
<1> QED BY <1>1, <1>2, <1>3 DEF UsageAccount

(* A report without a message id is added to the anonymous ones.           *)
LEMMA AnonymousReport ==
  ASSUME TypeOK, NEW e \in Events, UsageReport(e), e.message_id = "None", UsageAccount
  PROVE  UsageAccount'
<1>1. /\ Read(e) /\ e.kind = "usage" /\ usageByMessage' = usageByMessage
      /\ anonymous' = Append(anonymous, e.usage)
  BY DEF UsageReport
<1>2. e.usage \in Nat
  BY <1>1, EventFields
<1>3. anonymous \in Seq(Nat) /\ IsFiniteSet(Known) /\ \A m \in Known : usageByMessage[m] \in Nat
  <2>1. anonymous \in Seq(Tokens) /\ usageByMessage \in [MessageIds -> Tokens \cup {NoUsage}]
    BY Zenon DEF TypeOK
  <2>2. Tokens \subseteq Nat
    BY Zenon, NormalizerAssumption
  <2>3. anonymous \in Seq(Nat)
    BY <2>1, <2>2, SeqMonotonic
  <2>4. \A m \in Known : usageByMessage[m] \in Nat
    BY <2>1, <2>2 DEF Known
  <2> QED BY <2>3, <2>4 DEF UsageAccount
<1>4. At("usage")' = At("usage") \cup {Len(history) + 1}
  BY <1>1, AtGrows
<1>5. CountedTotal' = CountedTotal + e.usage /\ CountedTotal \in Nat
  <2>1. Counted' = Counted \cup {Len(history) + 1}
    BY <1>1, CountedGrows
  <2> QED BY <1>1, <1>2, <2>1, CountedAdds
<1>6. /\ SumFunction(anonymous') = SumFunction(anonymous) + e.usage
      /\ SumFunction(anonymous) \in Nat
      /\ SumFunctionOnSet(usageByMessage, Known) \in Nat
      /\ Known' = Known
  <2>1. SumFunction(anonymous') = SumFunction(anonymous) + e.usage
    BY <1>1, <1>2, <1>3, SumAppend
  <2>2. SumFunction(anonymous) \in Nat
    BY <1>3, SumSeqType
  <2>3. SumFunctionOnSet(usageByMessage, Known) \in Nat
    BY <1>3, SumType
  <2> QED BY <1>1, <2>1, <2>2, <2>3 DEF Known
<1>7. CountedTotal' = SumFunction(anonymous)' + SumFunctionOnSet(usageByMessage, Known)'
  BY <1>1, <1>2, <1>5, <1>6 DEF UsageAccount
<1>8. anonymous' # <<>> /\ history'[Len(history) + 1].message_id = "None"
  <2>1. history'[Len(history) + 1] = e
    BY <1>1, HistoryGrows
  <2>2. PICK longer : longer = Append(anonymous, e.usage)
    OBVIOUS
  <2>3. Len(longer) = Len(anonymous) + 1 /\ Len(anonymous) \in Nat
    BY <1>2, <1>3, <2>2, AppendProperties, LenProperties
  <2>4. longer # <<>>
    BY <2>3, EmptySeq
  <2> QED BY <1>1, <2>1, <2>2, <2>4
<1>9. ASSUME NEW m \in MessageIds
      PROVE  m \in Known' <=> \E i \in At("usage")' : history'[i].message_id = m
  <2>1. \A i \in At("usage") : history'[i] = history[i]
    BY <1>1, HistoryGrows DEF At
  <2>2. m # "None"
    BY NormalizerAssumption, Zenon
  <2> QED BY <1>4, <1>6, <1>8, <2>1, <2>2 DEF UsageAccount
<1> QED BY <1>3, <1>4, <1>6, <1>7, <1>8, <1>9 DEF UsageAccount

(* The first report of a message is kept, and any other is ignored.        *)
LEMMA MessageReport ==
  ASSUME TypeOK, NEW e \in Events, UsageReport(e), e.message_id # "None", UsageAccount
  PROVE  UsageAccount'
<1> SUFFICES ASSUME NEW m, m = e.message_id PROVE UsageAccount'
  OBVIOUS
<1>1. /\ Read(e) /\ e.kind = "usage" /\ anonymous' = anonymous
      /\ usageByMessage' = SetDefault(usageByMessage, m, e.usage)
  BY DEF UsageReport
<1>2. e.usage \in Nat /\ e.usage \in Tokens /\ m \in MessageIds
  BY <1>1, EventFields
<1>3. /\ usageByMessage \in [MessageIds -> Nat \cup {NoUsage}] /\ IsFiniteSet(Known)
      /\ SumFunction(anonymous) \in Nat
  <2>1. anonymous \in Seq(Tokens) /\ usageByMessage \in [MessageIds -> Tokens \cup {NoUsage}]
    BY Zenon DEF TypeOK
  <2>2. Tokens \subseteq Nat
    BY Zenon, NormalizerAssumption
  <2>3. anonymous \in Seq(Nat)
    BY <2>1, <2>2, SeqMonotonic
  <2>4. usageByMessage \in [MessageIds -> Nat \cup {NoUsage}]
    BY <2>1, <2>2
  <2> QED BY <2>3, <2>4, SumSeqType DEF UsageAccount
<1>4. /\ At("usage")' = At("usage") \cup {Len(history) + 1}
      /\ history'[Len(history) + 1] = e
      /\ \A i \in At("usage") : history'[i] = history[i]
  BY <1>1, AtGrows, HistoryGrows DEF At
<1>5. m \in Known <=> \E i \in At("usage") : history[i].message_id = m
  BY <1>2 DEF UsageAccount
<1>6. Counted' = Counted \cup (IF m \in Known THEN {} ELSE {Len(history) + 1})
  BY <1>1, <1>5, CountedGrows
<1>7. /\ Known' = Known \cup {m}
      /\ IsFiniteSet(Known')
      /\ CountedTotal' = SumFunction(anonymous)' + SumFunctionOnSet(usageByMessage, Known)'
  <2>1. CASE m \in Known
    <3>1. usageByMessage' = usageByMessage
      BY <1>1, <2>1 DEF SetDefault, Known
    <3>2. Known' = Known
      BY <3>1 DEF Known
    <3>3. CountedTotal' = CountedTotal
      BY <1>1, <1>6, <2>1, CountedSame
    <3> QED BY <1>1, <1>3, <2>1, <3>1, <3>2, <3>3 DEF UsageAccount
  <2>2. CASE m \notin Known
    <3>1. usageByMessage' = [usageByMessage EXCEPT ![m] = e.usage]
      BY <1>1, <1>2, <2>2 DEF SetDefault, Known
    <3>2. /\ Known' = Known \cup {m}
          /\ \A k \in Known : usageByMessage'[k] = usageByMessage[k]
          /\ usageByMessage'[m] = e.usage
          /\ \A k \in Known \cup {m} : usageByMessage'[k] \in Nat
      BY <1>2, <1>3, <2>2, <3>1 DEF Known, NoUsage
    <3>3. CountedTotal' = CountedTotal + e.usage /\ CountedTotal \in Nat
      BY <1>1, <1>2, <1>6, <2>2, CountedAdds
    <3>4. IsFiniteSet(Known \cup {m})
      BY <1>3, FS_AddElement
    <3>5. SumFunctionOnSet(usageByMessage', Known \cup {m})
            = usageByMessage'[m] + SumFunctionOnSet(usageByMessage', Known)
      BY <1>3, <2>2, <3>2, SumInsert
    <3>6. SumFunctionOnSet(usageByMessage', Known) = SumFunctionOnSet(usageByMessage, Known)
      BY <1>3, <3>2, SumSame
    <3>7. SumFunctionOnSet(usageByMessage', Known) \in Nat
      BY <1>3, <3>2, SumType
    <3>8. CountedTotal = SumFunction(anonymous) + SumFunctionOnSet(usageByMessage, Known)
      BY DEF UsageAccount
    <3>9. SumFunctionOnSet(usageByMessage, Known)'
            = e.usage + SumFunctionOnSet(usageByMessage, Known)
      BY <3>2, <3>5, <3>6
    <3> QED BY <1>1, <1>2, <1>3, <3>2, <3>3, <3>4, <3>6, <3>7, <3>8, <3>9
  <2> QED BY <2>1, <2>2
<1>8. ASSUME NEW k \in MessageIds
      PROVE  k \in Known' <=> \E i \in At("usage")' : history'[i].message_id = k
  BY <1>4, <1>7 DEF UsageAccount
<1>9. anonymous' = <<>> <=> \A i \in At("usage")' : history'[i].message_id # "None"
  BY <1>1, <1>4 DEF UsageAccount
<1> QED BY <1>7, <1>8, <1>9 DEF UsageAccount

-----------------------------------------------------------------------------
LEMMA TextAccount ==
  ASSUME TypeOK, NEW e \in Events, Read(e), textParts = SpokenText,
         \/ e.kind = "text_delta" /\ textParts' = Append(textParts, e.text)
         \/ e.kind # "text_delta" /\ textParts' = textParts
  PROVE  textParts' = SpokenText'
<1>1. SpokenText \in Seq(Fragments) /\ SpokenText' = SpokenText \o Fragment(e)
  BY TextGrows
<1>2. CASE e.kind = "text_delta"
  <2>1. e.text \in Fragments
    BY <1>2, EventFields
  <2>2. SpokenText \o <<e.text>> = Append(SpokenText, e.text)
    BY <1>1, <2>1, AppendIsConcat
  <2> QED BY <1>1, <1>2, <2>2 DEF Fragment
<1>3. CASE e.kind # "text_delta"
  <2>1. SpokenText \o <<>> = SpokenText
    BY <1>1, ConcatEmptySeq
  <2> QED BY <1>1, <1>3, <2>1 DEF Fragment
<1> QED BY <1>2, <1>3

(* What every action that reads an event does to the accounts.             *)
LEMMA ReadAccounts ==
  ASSUME TypeOK, TerminalInv, AccountInv, NEW e \in Events, Read(e),
         \/ Shown(e) = <<>> /\ UNCHANGED chunks
         \/ \E chunk : Yield(chunk) /\ Shown(e) = <<chunk.type>> /\ chunk.type \in Types,
         \/ e.kind = "text_delta" /\ textParts' = Append(textParts, e.text)
         \/ e.kind # "text_delta" /\ textParts' = textParts,
         sessionId' = IF e.kind = "init" /\ e.session_id # "" THEN e.session_id ELSE sessionId,
         UsageReport(e) \/ (e.kind # "usage" /\ UNCHANGED <<usageByMessage, anonymous>>)
  PROVE  AccountInv'
<1>1. ChunksInOrder'
  <2>1. PICK S : chunks \in Seq(S)
    BY DEF TerminalInv
  <2>2. ChunksInOrder
    BY DEF AccountInv
  <2> QED BY <2>1, <2>2, ChunksGrow
<1>2. textParts' = SpokenText'
  BY TextAccount DEF AccountInv
<1>3. SessionAccount'
  BY SessionGrows DEF AccountInv
<1>4. UsageAccount'
  <2>1. UsageAccount
    BY DEF AccountInv
  <2>2. CASE UsageReport(e)
    BY <2>1, <2>2, AnonymousReport, MessageReport
  <2>3. CASE e.kind # "usage" /\ UNCHANGED <<usageByMessage, anonymous>>
    BY <2>1, <2>3, UsageQuiet
  <2> QED BY <2>2, <2>3
<1> QED BY <1>1, <1>2, <1>3, <1>4 DEF AccountInv

LEMMA ShownKinds ==
  ASSUME NEW e
  PROVE  /\ e.kind \in {"usage", "init", "rate_limit", "malformed"} => Shown(e) = <<>>
         /\ e.kind = "text_delta" => Shown(e) = <<"TextDelta">>
         /\ e.kind \in {"tool_use", "tool_result"} => Shown(e) = <<e.kind>>
         /\ e.kind = "result" => Shown(e) = <<"Result">>
<1>1. DOMAIN ChunkTypes = {"text_delta", "tool_use", "tool_result", "result"}
  BY DEF ChunkTypes
<1>2. /\ ChunkTypes["text_delta"] = "TextDelta" /\ ChunkTypes["tool_use"] = "tool_use"
      /\ ChunkTypes["tool_result"] = "tool_result" /\ ChunkTypes["result"] = "Result"
  BY DEF ChunkTypes
<1>3. e.kind \in DOMAIN ChunkTypes => Shown(e) = <<ChunkTypes[e.kind]>>
  BY DEF Shown
<1>4. e.kind \notin DOMAIN ChunkTypes => Shown(e) = <<>>
  BY DEF Shown
<1> QED BY <1>1, <1>2, <1>3, <1>4

LEMMA FieldsOfResult ==
  \A t, s, u : LET r == [type |-> "Result", text |-> t, session_id |-> s, usage |-> u]
               IN  r.type = "Result" /\ r.text = t /\ r.session_id = s /\ r.usage = u
OBVIOUS

LEMMA ResultFields ==
  ASSUME NEW e
  PROVE  /\ ResultOf(e).type = "Result"
         /\ ResultOf(e).text = IF e.text # <<>> THEN e.text ELSE textParts
         /\ ResultOf(e).session_id = IF e.session_id # "" THEN e.session_id ELSE sessionId
         /\ ResultOf(e).usage = IF e.usage # NoUsage THEN e.usage ELSE FallbackUsage
BY FieldsOfResult, Zenon DEF ResultOf

LEMMA NextAccountInv == TypeOK /\ TerminalInv /\ AccountInv /\ [Next]_vars => AccountInv'
<1> SUFFICES ASSUME TypeOK, TerminalInv, AccountInv, [Next]_vars PROVE AccountInv'
  OBVIOUS
<1> USE DEF accumulators
<1>1. ASSUME NEW e \in Events, TextDelta(e) PROVE AccountInv'
  <2>1. /\ e.kind = "text_delta" /\ Read(e) /\ textParts' = Append(textParts, e.text)
        /\ UNCHANGED <<sessionId, usageByMessage, anonymous>>
    BY <1>1 DEF TextDelta
  <2>2. \E chunk : Yield(chunk) /\ chunk.type = "TextDelta"
    BY <1>1 DEF TextDelta
  <2>3. "TextDelta" \in Types
    BY DEF Types
  <2> QED BY <2>1, <2>2, <2>3, ShownKinds, ReadAccounts
<1>2. ASSUME NEW e \in Events, Tool(e) PROVE AccountInv'
  <2>1. /\ e.kind \in {"tool_use", "tool_result"} /\ Read(e)
        /\ UNCHANGED <<textParts, sessionId, usageByMessage, anonymous>>
    BY <1>2 DEF Tool
  <2>2. \E chunk : Yield(chunk) /\ chunk.type = e.kind
    BY <1>2 DEF Tool
  <2>3. e.kind \in Types
    BY <2>1 DEF Types
  <2> QED BY <2>1, <2>2, <2>3, ShownKinds, ReadAccounts
<1>3. ASSUME NEW e \in Events, Terminal(e) PROVE AccountInv'
  <2>1. /\ e.kind = "result" /\ Read(e)
        /\ UNCHANGED <<textParts, sessionId, usageByMessage, anonymous>>
    BY <1>3 DEF Terminal
  <2>2. \E chunk : Yield(chunk) /\ chunk.type = "Result"
    BY <1>3, ResultFields DEF Terminal
  <2>3. "Result" \in Types
    BY DEF Types
  <2> QED BY <2>1, <2>2, <2>3, ShownKinds, ReadAccounts
<1>4. ASSUME NEW e \in Events, UsageReport(e) PROVE AccountInv'
  <2>1. e.kind = "usage" /\ Read(e) /\ UNCHANGED <<textParts, sessionId, chunks>>
    BY <1>4 DEF UsageReport
  <2> QED BY <1>4, <2>1, ShownKinds, ReadAccounts
<1>5. ASSUME NEW e \in Events, SessionInit(e) PROVE AccountInv'
  <2>1. /\ e.kind = "init" /\ Read(e)
        /\ sessionId' = IF e.session_id # "" THEN e.session_id ELSE sessionId
        /\ UNCHANGED <<textParts, usageByMessage, anonymous, chunks>>
    BY <1>5 DEF SessionInit
  <2> QED BY <2>1, ShownKinds, ReadAccounts
<1>6. ASSUME NEW e \in Events, Diagnostics(e) \/ Malformed(e) PROVE AccountInv'
  <2>1. /\ e.kind \in {"rate_limit", "malformed"} /\ Read(e)
        /\ UNCHANGED <<textParts, sessionId, usageByMessage, anonymous, chunks>>
    BY <1>6 DEF Diagnostics, Malformed
  <2> QED BY <2>1, ShownKinds, ReadAccounts
<1>7. CASE \/ StreamOver("exhausted") \/ StreamOver("upstream")
           \/ Resume \/ CloseYielding \/ CloseEvents \/ Terminated \/ UNCHANGED vars
  <2>1. UNCHANGED <<history, textParts, sessionId, usageByMessage, anonymous, chunks>>
    BY <1>7 DEF StreamOver, Resume, CloseYielding, CloseEvents, Terminated, vars
  <2>2. UNCHANGED <<At("usage"), Named, Known, Counted, CountedTotal, SpokenText>>
    BY <2>1 DEF At, Named, Known, Counted, CountedTotal, SpokenText
  <2>3. ChunksInOrder'
    BY <2>1 DEF AccountInv, ChunksInOrder
  <2>4. SessionAccount'
    BY <2>1, <2>2 DEF AccountInv, SessionAccount
  <2>5. UsageAccount'
    BY <2>1, <2>2 DEF AccountInv, UsageAccount
  <2> QED BY <2>1, <2>2, <2>3, <2>4, <2>5 DEF AccountInv
<1> QED BY <1>1, <1>2, <1>3, <1>4, <1>5, <1>6, <1>7 DEF Next

(* The inductive invariant holds for streams of every length.              *)
THEOREM AccountInvariant == Spec => []AccountInv
<1>1. Init => AccountInv
  <2> SUFFICES ASSUME Init PROVE AccountInv
    OBVIOUS
  <2>1. /\ history = <<>> /\ chunks = <<>> /\ textParts = <<>>
        /\ anonymous = <<>> /\ usageByMessage = [m \in MessageIds |-> NoUsage]
    BY Zenon DEF Init
  <2>2. DOMAIN history = {}
    BY <2>1
  <2>3. ChunksInOrder /\ textParts = SpokenText
    <3>1. /\ [i \in DOMAIN history |-> Shown(history[i])] = <<>>
          /\ [i \in DOMAIN history |-> Fragment(history[i])] = <<>>
          /\ [i \in DOMAIN chunks |-> chunks[i].type] = <<>>
      BY <2>1
    <3> QED BY <2>1, <3>1, FlattenEmpty, Zenon DEF ChunksInOrder, SpokenText
  <2>4. SessionAccount
    <3>1. sessionId = ""
      BY Zenon DEF Init
    <3> QED BY <2>2, <3>1, Zenon DEF SessionAccount, Named, At
  <2>5. UsageAccount
    <3>1. Known = {} /\ At("usage") = {} /\ Counted = {}
      BY <2>1, <2>2 DEF Known, At, Counted
    <3>2. SumFunction(<<>>) = 0
      BY SumEmpty DEF SumFunction
    <3>3. CountedTotal = 0
      <4>1. DOMAIN [i \in Counted |-> history[i].usage] = {}
        BY <3>1
      <4> QED BY <4>1, SumEmpty DEF CountedTotal, SumFunction
    <3>4. SumFunctionOnSet(usageByMessage, Known) = 0
      BY <3>1, SumEmpty
    <3>5. CountedTotal = SumFunction(anonymous) + SumFunctionOnSet(usageByMessage, Known)
      BY <2>1, <3>2, <3>3, <3>4
    <3> QED BY <2>1, <3>1, <3>5, FS_EmptySet, Zenon DEF UsageAccount
  <2> QED BY <2>3, <2>4, <2>5 DEF AccountInv
<1> QED BY <1>1, NextAccountInv, NormalizerTypeCorrect, TerminalInvariant, PTL DEF Spec

(* Every event that is owed a chunk gets exactly one, of its type and in   *)
(* its place, and no other event gets any, in streams of every length.     *)
THEOREM ChunksAlwaysInOrder == Spec => []ChunksInOrder
<1>1. AccountInv => ChunksInOrder
  BY DEF AccountInv
<1> QED BY <1>1, AccountInvariant, PTL

-----------------------------------------------------------------------------
(* What the accumulators say is what the run reported.                     *)
AccountsRight ==
  textParts = SpokenText /\ sessionId = LatestSession /\ FallbackUsage = ReportedUsage

LEMMA SessionRight == TypeOK /\ SessionAccount => sessionId = LatestSession
<1> SUFFICES ASSUME TypeOK, SessionAccount PROVE sessionId = LatestSession
  OBVIOUS
<1>2. CASE Named = {}
  BY <1>2, Zenon DEF SessionAccount, LatestSession
<1>3. ASSUME NEW i \in Named, \A j \in Named : j <= i, sessionId = history[i].session_id
      PROVE  sessionId = LatestSession
  <2>1. Named \in SUBSET Int
    <3>1. DOMAIN history \subseteq Int
      <4>1. history \in Seq(Events)
        BY Zenon DEF TypeOK
      <4> QED BY <4>1, LenProperties
    <3> QED BY <3>1, Zenon DEF Named, At
  <2>2. Max(Named) = i
    BY <1>3, <2>1, LargestIsMax
  <2>3. LatestSession = history[Max(Named)].session_id
    BY <1>3, Zenon DEF LatestSession
  <2> QED BY <1>3, <2>2, <2>3
<1> QED BY <1>2, <1>3, Zenon DEF SessionAccount

LEMMA UsageRight == TypeOK /\ UsageAccount => FallbackUsage = ReportedUsage
<1> SUFFICES ASSUME TypeOK, UsageAccount PROVE FallbackUsage = ReportedUsage
  OBVIOUS
<1>1. FallbackUsage = IF Known = {} /\ anonymous = <<>> THEN NoUsage
                      ELSE SumFunction(anonymous) + SumFunctionOnSet(usageByMessage, Known)
  BY Zenon DEF FallbackUsage, Known
<1>2. At("usage") = {} <=> Known = {} /\ anonymous = <<>>
  <2>1. ASSUME NEW i \in At("usage") PROVE history[i].message_id \in MessageIds \cup {"None"}
    <3>1. history[i] \in Events /\ history[i].kind = "usage"
      BY LenProperties, ElementOfSeq DEF TypeOK, At
    <3> QED BY <3>1, EventFields
  <2> QED BY <2>1 DEF UsageAccount, Known
<1> QED BY <1>1, <1>2 DEF UsageAccount, ReportedUsage, CountedTotal

LEMMA AccountsAreRight == TypeOK /\ AccountInv => AccountsRight
BY SessionRight, UsageRight DEF AccountInv, AccountsRight

(* The Result is made of the accounts, and nothing is read after it.       *)
LEMMA NextFaithful ==
  ASSUME TypeOK, TerminalInv, AccountsRight', ResultIsFaithful, [Next]_vars
  PROVE  ResultIsFaithful'
<1> USE DEF accumulators
<1>1. PICK S : chunks \in Seq(S)
  BY DEF TerminalInv
<1>2. ASSUME NEW e \in Events, NEW chunk, Yield(chunk), Read(e)
      PROVE  /\ ResultYielded' <=> chunk.type = "Result"
             /\ Last(chunks)' = chunk
             /\ Last(history)' = e
  <2>1. chunks \in Seq(S \cup {chunk})
    BY <1>1, SeqMonotonic
  <2>2. /\ Len(chunks') = Len(chunks) + 1 /\ chunks'[Len(chunks) + 1] = chunk
        /\ Len(chunks) \in Nat
    BY <1>2, <2>1, AppendProperties, LenProperties DEF Yield
  <2>3. Last(chunks)' = chunk /\ chunks' # <<>>
    BY <2>2, EmptySeq DEF Last
  <2>4. Last(history)' = e
    BY <1>2, HistoryGrows DEF Last
  <2> QED BY <2>3, <2>4 DEF ResultYielded
<1>3. ASSUME NEW e \in Events, TextDelta(e) \/ Tool(e) PROVE ResultIsFaithful'
  <2>1. Read(e) /\ \E chunk : Yield(chunk) /\ chunk.type # "Result"
    <3>1. CASE TextDelta(e)
      BY <3>1 DEF TextDelta
    <3>2. CASE Tool(e)
      BY <3>2 DEF Tool
    <3> QED BY <1>3, <3>1, <3>2
  <2> QED BY <1>2, <2>1 DEF ResultIsFaithful
<1>4. ASSUME NEW e \in Events, Terminal(e) PROVE ResultIsFaithful'
  <2>1. e.kind = "result" /\ Read(e) /\ Yield(ResultOf(e)) /\ UNCHANGED accumulators
    BY <1>4 DEF Terminal
  <2>2. Last(chunks)' = ResultOf(e) /\ Last(history)' = e
    BY <1>2, <2>1
  <2>3. textParts = SpokenText' /\ sessionId = LatestSession' /\ FallbackUsage = ReportedUsage'
    <3>1. FallbackUsage' = FallbackUsage
      BY <2>1 DEF FallbackUsage
    <3> QED BY <2>1, <3>1 DEF AccountsRight
  <2> QED BY <2>1, <2>2, <2>3, ResultFields, Zenon DEF ResultIsFaithful
<1>5. ASSUME NEW e \in Events,
             UsageReport(e) \/ SessionInit(e) \/ Diagnostics(e) \/ Malformed(e)
      PROVE  ResultIsFaithful'
  <2>1. status = "reading" /\ UNCHANGED chunks
    BY <1>5 DEF UsageReport, SessionInit, Diagnostics, Malformed, Read
  <2>2. ~ResultYielded
    BY <2>1 DEF TerminalInv, EndingInv
  <2> QED BY <2>1, <2>2 DEF ResultIsFaithful, ResultYielded
<1>6. CASE \/ StreamOver("exhausted") \/ StreamOver("upstream")
           \/ Resume \/ CloseYielding \/ CloseEvents \/ Terminated \/ UNCHANGED vars
  <2>1. UNCHANGED <<history, textParts, sessionId, usageByMessage, anonymous, chunks>>
    BY <1>6 DEF StreamOver, Resume, CloseYielding, CloseEvents, Terminated, vars
  <2>2. UNCHANGED <<At("usage"), Counted, Named>>
    BY <2>1 DEF At, Counted, Named
  <2>3. UNCHANGED <<ReportedUsage, SpokenText, LatestSession, ResultYielded>>
    <3>1. UNCHANGED <<SpokenText, ResultYielded>>
      BY <2>1 DEF SpokenText, ResultYielded
    <3>2. UNCHANGED ReportedUsage
      BY <2>1, <2>2 DEF ReportedUsage
    <3>3. UNCHANGED LatestSession
      BY <2>1, <2>2, Zenon DEF LatestSession
    <3> QED BY <3>1, <3>2, <3>3
  <2> QED BY <2>1, <2>3, Zenon DEF ResultIsFaithful
<1> QED BY <1>3, <1>4, <1>5, <1>6 DEF Next

(* The Result says what the run reported, in streams of every length:      *)
(* usage with each message counted once, the text in order, the latest     *)
(* session, each unless the terminal event carries its own.                *)
THEOREM ResultAlwaysFaithful == Spec => []ResultIsFaithful
<1>1. Init => ResultIsFaithful
  BY DEF Init, ResultIsFaithful, ResultYielded
<1>2. TypeOK /\ TerminalInv /\ AccountsRight' /\ ResultIsFaithful /\ [Next]_vars
        => ResultIsFaithful'
  BY NextFaithful
<1> QED BY <1>1, <1>2, AccountsAreRight, AccountInvariant, NormalizerTypeCorrect,
           TerminalInvariant, PTL DEF Spec
=============================================================================
