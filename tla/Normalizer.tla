----------------------------- MODULE Normalizer -----------------------------
(***************************************************************************)
(* normalize() (src/anycli/middleware/streaming.py): the generator that    *)
(* turns the RawEvents of one run into public chunks.  The events it reads *)
(* are chosen as it asks for them and kept in `history`, against which its *)
(* accumulators and its Result are checked.                                *)
(*                                                                         *)
(* A text is a sequence of fragments, "" the empty one; a token report is  *)
(* one number, which stands for the four counters, all treated alike.  A   *)
(* usage of None and one of {} differ only on the result event, where both *)
(* are falsy: NoUsage.  In an interim report {} adds nothing: 0.           *)
(***************************************************************************)
EXTENDS Integers, SequencesExt

CONSTANTS
  Fragments,   \* texts of text_delta and result events
  Sessions,    \* session ids
  MessageIds,  \* ids of the messages whose usage is reported
  Tokens,      \* token counts
  MaxReads     \* bound of the model: events read from the stream

ASSUME NormalizerAssumption ==
  /\ Tokens \subseteq Nat
  /\ MaxReads \in Nat
  /\ "" \notin Sessions
  /\ "None" \notin MessageIds

NoUsage == -1

Events ==
       [kind : {"text_delta"}, text : Fragments]
  \cup [kind : {"tool_use", "tool_result", "rate_limit"}]
  \cup [kind : {"usage"}, message_id : MessageIds \cup {"None"}, usage : Tokens]
  \cup [kind : {"init"}, session_id : Sessions \cup {""}]
  \cup [kind : {"result"}, text : {<<f>> : f \in Fragments} \cup {<<>>},
        session_id : Sessions \cup {""}, usage : Tokens \cup {NoUsage}]
  \cup [kind : {"malformed"}]

VARIABLES
  history,         \* the events read so far
  textParts,       \* text_parts
  sessionId,       \* session_id
  usageByMessage,  \* usage_by_message, NoUsage where the id has no entry
  anonymous,       \* anonymous_usages
  chunks,          \* the chunks yielded so far
  status,          \* "reading", "yielding", "closing" (finally), "done"
  ending           \* what the generator ends with: "none", "end", "closed",
                   \* "malformed", "upstream", "no result"

vars == <<history, textParts, sessionId, usageByMessage, anonymous,
          chunks, status, ending>>

accumulators == <<textParts, sessionId, usageByMessage, anonymous>>

Init ==
  /\ history = <<>>
  /\ textParts = <<>>
  /\ sessionId = ""
  /\ usageByMessage = [m \in MessageIds |-> NoUsage]
  /\ anonymous = <<>>
  /\ chunks = <<>>
  /\ status = "reading"
  /\ ending = "none"

-----------------------------------------------------------------------------
(* Mutants of what follows: repeated reports add up, or the last one wins. *)
MutantSetDefaultAdds(f, m, n) == [f EXCEPT ![m] = IF @ = NoUsage THEN n ELSE @ + n]
MutantSetDefault(f, m, n) == [f EXCEPT ![m] = n]

(* setdefault: the first report of a message wins.                         *)
SetDefault(f, m, n) == IF f[m] = NoUsage THEN [f EXCEPT ![m] = n] ELSE f

(* _sum_usages over both stores: None when nothing was reported at all.    *)
FallbackUsage ==
  LET known == {m \in MessageIds : usageByMessage[m] # NoUsage}
  IN IF known = {} /\ anonymous = <<>>
     THEN NoUsage
     ELSE SumFunction(anonymous) + SumFunctionOnSet(usageByMessage, known)

(* An event is read from the stream.                                       *)
Read(e) ==
  /\ status = "reading"
  /\ Len(history) < MaxReads
  /\ history' = Append(history, e)

Yield(chunk) == chunks' = Append(chunks, chunk) /\ status' = "yielding"

TextDelta(e) ==
  /\ e.kind = "text_delta"
  /\ Read(e)
  /\ textParts' = Append(textParts, e.text)
  /\ Yield([type |-> "TextDelta", text |-> e.text])
  /\ UNCHANGED <<sessionId, usageByMessage, anonymous, ending>>

Tool(e) ==
  /\ e.kind \in {"tool_use", "tool_result"}
  /\ Read(e)
  /\ Yield([type |-> e.kind])
  /\ UNCHANGED <<accumulators, ending>>

UsageReport(e) ==
  /\ e.kind = "usage"
  /\ Read(e)
  /\ IF e.message_id = "None"
     THEN anonymous' = Append(anonymous, e.usage) /\ UNCHANGED usageByMessage
     ELSE /\ usageByMessage' = SetDefault(usageByMessage, e.message_id, e.usage)
          /\ UNCHANGED anonymous
  /\ UNCHANGED <<textParts, sessionId, chunks, status, ending>>

SessionInit(e) ==
  /\ e.kind = "init"
  /\ Read(e)
  /\ sessionId' = IF e.session_id # "" THEN e.session_id ELSE sessionId
  /\ UNCHANGED <<textParts, usageByMessage, anonymous, chunks, status, ending>>

(* Mutant: an unknown kind is shown to the user.                           *)
MutantDiagnostics(e) ==
  /\ e.kind = "rate_limit"
  /\ Read(e)
  /\ Yield([type |-> "tool_use"])
  /\ UNCHANGED <<accumulators, ending>>

(* Kinds outside the contract make no chunk.                               *)
Diagnostics(e) ==
  /\ e.kind = "rate_limit"
  /\ Read(e)
  /\ UNCHANGED <<accumulators, chunks, status, ending>>

(* The terminal event: whatever it does not carry is filled in from what   *)
(* was seen before.                                                        *)
ResultOf(e) ==
  [type       |-> "Result",
   text       |-> IF e.text # <<>> THEN e.text ELSE textParts,
   session_id |-> IF e.session_id # "" THEN e.session_id ELSE sessionId,
   usage      |-> IF e.usage # NoUsage THEN e.usage ELSE FallbackUsage]

Terminal(e) ==
  /\ e.kind = "result"
  /\ Read(e)
  /\ Yield(ResultOf(e))
  /\ UNCHANGED <<accumulators, ending>>

(* A payload that lacks a field or has one of the wrong type.              *)
Malformed(e) ==
  /\ e.kind = "malformed"
  /\ Read(e)
  /\ status' = "closing"
  /\ ending' = "malformed"
  /\ UNCHANGED <<accumulators, chunks>>

(* The stream is exhausted, or raises.                                     *)
StreamOver(how) ==
  /\ status = "reading"
  /\ status' = "closing"
  /\ ending' = how
  /\ UNCHANGED <<history, accumulators, chunks>>

-----------------------------------------------------------------------------
ResultYielded == chunks # <<>> /\ Last(chunks).type = "Result"

(* Mutant: the loop reads on after the Result.                             *)
MutantResume ==
  /\ status = "yielding"
  /\ status' = "reading"
  /\ UNCHANGED <<history, accumulators, chunks, ending>>

(* The consumer comes back: after the Result the loop breaks.              *)
Resume ==
  /\ status = "yielding"
  /\ status' = IF ResultYielded THEN "closing" ELSE "reading"
  /\ ending' = IF ResultYielded THEN "end" ELSE ending
  /\ UNCHANGED <<history, accumulators, chunks>>

(* ... or closes the generator where it is suspended.                      *)
CloseYielding ==
  /\ status = "yielding"
  /\ status' = "closing"
  /\ ending' = "closed"
  /\ UNCHANGED <<history, accumulators, chunks>>

(* The finally block closes the events, which may take a while; the check  *)
(* after it: a stream exhausted before its result event is an error.       *)
CloseEvents ==
  /\ status = "closing"
  /\ status' = "done"
  /\ ending' = IF ending = "exhausted" THEN "no result" ELSE ending
  /\ UNCHANGED <<history, accumulators, chunks>>

Terminated == status = "done" /\ UNCHANGED vars

Next ==
  \/ \E e \in Events :
       \/ TextDelta(e) \/ Tool(e) \/ UsageReport(e) \/ SessionInit(e)
       \/ Diagnostics(e) \/ Terminal(e) \/ Malformed(e)
  \/ StreamOver("exhausted") \/ StreamOver("upstream")
  \/ Resume \/ CloseYielding \/ CloseEvents \/ Terminated

Spec == Init /\ [][Next]_vars

-----------------------------------------------------------------------------
TypeOK ==
  /\ history \in Seq(Events)
  /\ textParts \in Seq(Fragments)
  /\ sessionId \in Sessions \cup {""}
  /\ usageByMessage \in [MessageIds -> Tokens \cup {NoUsage}]
  /\ anonymous \in Seq(Tokens)
  /\ status \in {"reading", "yielding", "closing", "done"}
  /\ ending \in {"none", "end", "exhausted", "closed", "malformed", "upstream", "no result"}

(* What the chunks owe to an event: the type of the chunk it is shown as,  *)
(* and its fragment of the text.                                           *)
ChunkTypes == [text_delta |-> "TextDelta", tool_use |-> "tool_use",
               tool_result |-> "tool_result", result |-> "Result"]
Shown(e) == IF e.kind \in DOMAIN ChunkTypes THEN <<ChunkTypes[e.kind]>> ELSE <<>>
Fragment(e) == IF e.kind = "text_delta" THEN <<e.text>> ELSE <<>>

(* Every event that is owed a chunk gets exactly one, of its type and in   *)
(* its place; no other event gets any.                                     *)
ChunksInOrder ==
  [i \in DOMAIN chunks |-> chunks[i].type] =
    FlattenSeq([i \in DOMAIN history |-> Shown(history[i])])

(* Positions of the events of one kind.                                    *)
At(kind) == {i \in DOMAIN history : history[i].kind = kind}

(* The reports that count: the first of each message, and all that carry   *)
(* no message id.                                                          *)
Counted ==
  {i \in At("usage") :
     \/ history[i].message_id = "None"
     \/ \A j \in At("usage") : j < i => history[j].message_id # history[i].message_id}

(* What the run has reported so far.                                       *)
ReportedUsage ==
  IF At("usage") = {} THEN NoUsage ELSE SumFunction([i \in Counted |-> history[i].usage])

SpokenText == FlattenSeq([i \in DOMAIN history |-> Fragment(history[i])])

Named == {i \in At("init") : history[i].session_id # ""}
LatestSession == IF Named = {} THEN "" ELSE history[Max(Named)].session_id

(* The Result says what the run reported: its usage is the terminal        *)
(* event's own, or each message counted once however often and in whatever *)
(* order its usage was repeated, or None when there was no report; its     *)
(* text is the terminal one or all the fragments in order; its session the *)
(* terminal one or the last that init announced.                           *)
ResultIsFaithful ==
  ResultYielded =>
    LET r == Last(chunks)
        e == Last(history)
    IN /\ e.kind = "result"
       /\ r.usage = IF e.usage # NoUsage THEN e.usage ELSE ReportedUsage
       /\ r.text = IF e.text # <<>> THEN e.text ELSE SpokenText
       /\ r.session_id = IF e.session_id # "" THEN e.session_id ELSE LatestSession

(* Exactly one Result, always last: a generator that ends without an error *)
(* has yielded one, nothing is read or yielded after it, and an error is   *)
(* never raised once it was delivered.                                     *)
OneTerminalResult ==
  /\ ending = "end" => ResultYielded
  /\ status = "done" => ending \in {"end", "closed", "malformed", "upstream", "no result"}
  /\ \A i \in DOMAIN chunks : chunks[i].type = "Result" => i = Len(chunks)
  /\ ResultYielded => status # "reading" /\ ending \in {"none", "end", "closed"}
=============================================================================
