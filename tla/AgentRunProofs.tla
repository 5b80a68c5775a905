--------------------------- MODULE AgentRunProofs ---------------------------
(***************************************************************************)
(* Type correctness of AgentRun; the framing invariant: while no row was   *)
(* torn apart, the wire holds nothing but the rest of the reply to the     *)
(* command in progress, and a sentence that ends a call is its last one;   *)
(* and what still holds out of step, when a reply was left behind.         *)
(***************************************************************************)
EXTENDS AgentRun, SequenceTheorems, TLAPS

Enders == {"done", "ret", "fatal"}

\* What is left of one reply: sentences of command p, an ender only at the end.
RestOfReply(s, p) ==
    \A i \in 1 .. Len(s) : s[i].req = p /\ (s[i].kind \in Enders => i = Len(s))

Framed ==
    /\ st # "read" => stream = <<>> /\ owed = <<>>
    /\ st = "read" => \/ stream = <<>> /\ owed = <<pos>>
                      \/ owed = <<>> /\ RestOfReply(stream, pos)
    /\ link = "closed" => owed = <<>>
    /\ rows \subseteq {pos}
    /\ st = "send" => rows = {}

IInv == TypeOK /\ (sync = "clean" => Framed)

\* What leaving a call does, whichever way it is left.
Left ==
    /\ pos' \in 1 .. N + 1
    /\ st' \in {"send", "ok", "failed"}
    /\ st' # "ok" => pos' \in 1 .. N
    /\ fw' \in {"?", "6", "7", "8"}
    /\ rows' = {} \/ (rows' = rows /\ pos' = pos /\ st' = "failed")
    /\ trap' \in BOOLEAN

\* The command list is a constant of 33 entries.
LEMMA CommandCount == N = 33
  BY DEF N, Order

\* Every skip count is a natural number.
LEMMA SkipsAreNaturals == ASSUME NEW c, NEW r PROVE Skips(c, r) \subseteq Nat
  BY DEF Skips

\* Going on to a further command keeps pos and st within their ranges.
LEMMA AdvanceLeaves ==
    ASSUME TypeOK, st # "ok", NEW r, NEW f \in {"?", "6", "7", "8"}, Advance(r, f)
    PROVE  Left /\ rows' = {} /\ trap' = FALSE
<1>1. PICK k \in Skips(cmd, r) : \E q \in Following(pos, k, f) :
        /\ pos' = q
        /\ st' = IF q = N + 1 THEN "ok" ELSE "send"
        /\ fw' = f /\ rows' = {} /\ trap' = FALSE
  BY DEF Advance
<1>2. PICK q \in Following(pos, k, f) :
        /\ pos' = q
        /\ st' = IF q = N + 1 THEN "ok" ELSE "send"
        /\ fw' = f /\ rows' = {} /\ trap' = FALSE
  BY <1>1
<1>3. k \in Nat /\ pos \in 1 .. N
  BY SkipsAreNaturals DEF TypeOK
<1>4. q \in 1 .. N + 1
  BY <1>3, CommandCount DEF Following
<1>5. st' \in {"ok", "send"} /\ (st' # "ok" => pos' \in 1 .. N)
  BY <1>2, <1>4, CommandCount
<1>6. fw' \in {"?", "6", "7", "8"} /\ rows' = {} /\ trap' = FALSE /\ trap' \in BOOLEAN
  BY <1>2
<1> QED
  BY <1>2, <1>4, <1>5, <1>6 DEF Left

\* Failing leaves the call where it is.
LEMMA FailLeaves ==
    ASSUME TypeOK, st # "ok", Fail
    PROVE  Left
  BY DEF TypeOK, Fail, Left

\* The ways out of a call: return, exception, sys.exit.
LEMMA CallLeaves ==
    ASSUME TypeOK, st # "ok", NEW r, Return(r) \/ Raise \/ Exit
    PROVE  Left
<1>1. fw \in {"?", "6", "7", "8"}
  BY DEF TypeOK
<1>2. CASE Return(r)
  <2>1. Fail \/ Advance(r, fw) \/ \E f \in {"6", "7", "8"} : Advance(r, f)
    BY <1>2 DEF Return
  <2> QED
    BY <2>1, <1>1, AdvanceLeaves, FailLeaves
<1>3. CASE Raise
  BY <1>1, <1>3, AdvanceLeaves, FailLeaves DEF Raise
<1>4. CASE Exit
  BY <1>1, <1>4, AdvanceLeaves, FailLeaves DEF Exit
<1> QED
  BY <1>2, <1>3, <1>4

-----------------------------------------------------------------------------
\* A tagged reply is a sequence of sentences of one command.
LEMMA TaggedReply ==
    ASSUME NEW p \in 1 .. N, NEW reply \in Replies(Order[p])
    PROVE  /\ Tagged(reply, p) \in Seq(Sentence)
           /\ RestOfReply(Tagged(reply, p), p)
<1> DEFINE t == Tagged(reply, p)
<1>1. /\ Len(reply) \in Nat
      /\ \A i \in 1 .. Len(reply) :
            reply[i] \in Kinds /\ (reply[i] \in Enders => i = Len(reply))
  <2>1. reply \in {<<"trap", "done">>, <<"fatal">>, <<"done">>, <<"ret">>,
                   <<"empty", "done">>, <<"re", "done">>, <<"re", "re", "done">>}
    BY DEF Replies
  <2>2. CASE reply \in {<<"fatal">>, <<"done">>, <<"ret">>}
    BY <2>2 DEF Kinds, Enders
  <2>3. CASE reply \in {<<"trap", "done">>, <<"empty", "done">>, <<"re", "done">>}
    <3>1. PICK x \in {"trap", "empty", "re"} : reply = <<x, "done">>
      BY <2>3
    <3>2. Len(reply) = 2 /\ reply[1] = x /\ reply[2] = "done"
      BY <3>1
    <3> QED
      BY <3>2 DEF Kinds, Enders
  <2>4. CASE reply = <<"re", "re", "done">>
    BY <2>4 DEF Kinds, Enders
  <2> QED
    BY <2>1, <2>2, <2>3, <2>4
<1>2. t = [i \in 1 .. Len(reply) |-> [kind |-> reply[i], req |-> p]]
  BY DEF Tagged
<1>3. t \in Seq(Sentence) /\ Len(t) = Len(reply)
  BY <1>1, <1>2 DEF Sentence
<1>4. \A i \in 1 .. Len(t) : t[i].req = p /\ t[i].kind = reply[i]
  BY <1>2, <1>3
<1> QED
  BY <1>1, <1>3, <1>4 DEF RestOfReply

\* Dropping sentences from either end leaves a sequence of sentences.
LEMMA PartsOfStream ==
    ASSUME NEW s \in Seq(Sentence)
    PROVE  /\ \A k \in 0 .. Len(s) : SubSeq(s, 1, k) \in Seq(Sentence)
           /\ \A k \in 1 .. Len(s) : SubSeq(s, k + 1, Len(s)) \in Seq(Sentence)
           /\ s # <<>> => Head(s) \in Sentence /\ Tail(s) \in Seq(Sentence)
  OBVIOUS

\* What remains of a reply after its first sentence, or when it is cut short.
LEMMA PartsOfReply ==
    ASSUME NEW s \in Seq(Sentence), NEW p \in 1 .. N, RestOfReply(s, p)
    PROVE  /\ \A k \in 0 .. Len(s) : RestOfReply(SubSeq(s, 1, k), p)
           /\ s # <<>> => /\ RestOfReply(Tail(s), p)
                          /\ Head(s).req = p
                          /\ Head(s).kind \in Enders => Tail(s) = <<>>
<1>1. ASSUME NEW k \in 0 .. Len(s) PROVE RestOfReply(SubSeq(s, 1, k), p)
  <2>1. Len(SubSeq(s, 1, k)) = k /\ \A i \in 1 .. k : SubSeq(s, 1, k)[i] = s[i]
    OBVIOUS
  <2> QED
    BY <2>1 DEF RestOfReply
<1>2. ASSUME s # <<>>
      PROVE  /\ RestOfReply(Tail(s), p) /\ Head(s).req = p
             /\ Head(s).kind \in Enders => Tail(s) = <<>>
  <2>1. PICK t : t = Tail(s)
    OBVIOUS
  <2>2. /\ Len(s) \in Nat \ {0} /\ Head(s) = s[1]
        /\ t \in Seq(Sentence) /\ Len(t) = Len(s) - 1
        /\ \A i \in 1 .. Len(t) : t[i] = s[i + 1]
    BY <1>2, <2>1, HeadTailProperties
  <2>3. Head(s).req = p /\ (Head(s).kind \in Enders => Len(s) = 1)
    BY <2>2 DEF RestOfReply
  <2>4. Len(s) = 1 => t = <<>>
    BY <2>2, EmptySeq
  <2>5. RestOfReply(t, p)
    BY <2>2 DEF RestOfReply
  <2> QED
    BY <2>1, <2>3, <2>4, <2>5
<1> QED
  BY <1>1, <1>2

-----------------------------------------------------------------------------
\* Reading one sentence in any of the three loops: it is taken off the stream,
\* and the call is left, goes on unchanged, or has collected the sentence.
Taken ==
    /\ st = "read" /\ stream # <<>>
    /\ stream' = Tail(stream)
    /\ UNCHANGED <<mode, active, owed, link>>
    /\ \/ Left /\ st' # "read"
       \/ UNCHANGED <<pos, st, fw>> /\ rows' \subseteq rows \cup {Head(stream).req}
                                   /\ trap' \in BOOLEAN

\* Each of the loops takes one sentence; a call is left before the end of the
\* stream's sentence order only at an ender.
LEMMA SentenceTaken ==
    ASSUME TypeOK, TalkSentence \/ MyapiSentence \/ ApiCallSentence
    PROVE  /\ Taken /\ sync' = sync /\ sync # "lost"
           /\ st' # "read" => Head(stream).kind \in Enders
<1> DEFINE s == Head(stream)
<1>1. /\ st = "read" /\ stream # <<>> /\ stream' = Tail(stream) /\ sync # "lost"
      /\ UNCHANGED <<mode, active, owed, link>> /\ sync' = sync /\ trap \in BOOLEAN
  BY DEF TypeOK, TalkSentence, MyapiSentence, ApiCallSentence, Reading, Consume
<1>2. \/ Collect(s)
      \/ UNCHANGED <<pos, st, fw, rows, trap>>
      \/ s.kind \in Enders /\ \E r : Return(r)
  <2>1. CASE TalkSentence
    BY <2>1 DEF TalkSentence, Enders
  <2>2. CASE MyapiSentence
    BY <2>2 DEF MyapiSentence, Enders
  <2>3. CASE ApiCallSentence
    BY <2>3 DEF ApiCallSentence, Enders
  <2> QED
    BY <2>1, <2>2, <2>3
<1>3. CASE Collect(s)
  BY <1>1, <1>3 DEF Collect, Taken
<1>4. CASE UNCHANGED <<pos, st, fw, rows, trap>>
  BY <1>1, <1>4 DEF Taken
<1>5. CASE s.kind \in Enders /\ \E r : Return(r)
  BY <1>1, <1>5, CallLeaves DEF Taken, Left
<1> QED
  BY <1>2, <1>3, <1>4, <1>5

\* Leaving a call keeps the typing of everything a call changes.
LEMMA LeftTyped ==
    ASSUME TypeOK, Left
    PROVE  /\ fw' \in {"?", "6", "7", "8"} /\ pos' \in 1 .. N + 1
           /\ st' \in {"send", "read", "ok", "failed"}
           /\ st' # "ok" => pos' \in 1 .. N
           /\ rows' \subseteq 0 .. N /\ trap' \in BOOLEAN
  BY DEF TypeOK, Left

\* Taking a sentence keeps the types.
LEMMA TakenTyped ==
    ASSUME TypeOK, Taken, sync' \in {"clean", "behind", "lost"}
    PROVE  TypeOK'
<1>1. Head(stream) \in Sentence /\ stream' \in Seq(Sentence)
  BY PartsOfStream DEF TypeOK, Taken
<1>2. Head(stream).req \in 1 .. N
  BY <1>1 DEF Sentence
<1>3. CASE Left /\ st' # "read"
  BY <1>1, <1>3, LeftTyped DEF TypeOK, Taken
<1>4. CASE UNCHANGED <<pos, st, fw>> /\ rows' \subseteq rows \cup {Head(stream).req}
                                   /\ trap' \in BOOLEAN
  <2>1. rows' \subseteq 0 .. N
    <3>1. PICK r \in 1 .. N : r = Head(stream).req
      BY <1>2
    <3>2. rows \subseteq 0 .. N /\ rows' \subseteq rows \cup {r} /\ r \in 0 .. N
      BY <1>4, <3>1, CommandCount DEF TypeOK
    <3> QED
      BY <3>2
  <2> QED
    BY <1>1, <1>4, <2>1 DEF TypeOK, Taken
<1> QED
  BY <1>3, <1>4 DEF Taken, TypeOK

\* Type correctness is inductive by itself.
LEMMA TypeStep == TypeOK /\ [Next]_vars => TypeOK'
<1> SUFFICES ASSUME TypeOK, [Next]_vars PROVE TypeOK'
  OBVIOUS
<1>1. CASE Send
  <2>1. pos \in 1 .. N
    BY <1>1 DEF TypeOK, Send
  <2>2. owed' \in Seq(1 .. N)
    BY <1>1, <2>1, AppendProperties DEF TypeOK, Send
  <2> QED
    BY <1>1, <2>1, <2>2 DEF TypeOK, Send
<1>2. CASE TalkSentence \/ MyapiSentence \/ ApiCallSentence
  BY <1>2, SentenceTaken, TakenTyped DEF TypeOK
<1>3. CASE ReadEnd
  BY <1>3, CallLeaves, LeftTyped DEF TypeOK, ReadEnd
<1>4. CASE ReadBytesWord
  <2>1. Taken /\ sync' = "behind"
    BY <1>4, CallLeaves DEF ReadBytesWord, Reading, Consume, Taken, Left
  <2> QED
    BY <2>1, TakenTyped
<1>5. CASE LoseFraming
  BY <1>5 DEF TypeOK, LoseFraming
<1>6. CASE ReadGarbled
  <2>1. stream' \in Seq(Sentence)
    BY <1>6, PartsOfStream DEF TypeOK, ReadGarbled
  <2>2. CASE rows' = rows \cup {0} /\ UNCHANGED <<pos, st, fw, trap>>
    BY <1>6, <2>1, <2>2, CommandCount DEF TypeOK, ReadGarbled
  <2>3. CASE Return(Collected) \/ Raise
    BY <1>6, <2>1, <2>3, CallLeaves, LeftTyped DEF TypeOK, ReadGarbled
  <2> QED
    BY <1>6, <2>2, <2>3 DEF ReadGarbled
<1>7. CASE RestAnswer \/ RestRaise \/ RestRefused
  <2>1. Left /\ UNCHANGED <<mode, active, stream, owed, link, sync>>
    BY <1>7, CallLeaves DEF RestAnswer, RestRaise, RestRefused
  <2> QED
    BY <2>1, LeftTyped DEF TypeOK
<1>8. CASE DeviceAnswer
  <2>1. PICK reply \in Replies(Order[Head(owed)]) :
          /\ stream' = stream \o Tagged(reply, Head(owed))
          /\ link' \in {"up", "closed"}
          /\ owed' \in {<<>>, Tail(owed)}
    BY <1>8 DEF DeviceAnswer
  <2>2. Head(owed) \in 1 .. N /\ Tail(owed) \in Seq(1 .. N)
    BY <1>8, HeadTailProperties DEF DeviceAnswer, TypeOK
  <2>3. stream' \in Seq(Sentence)
    BY <2>1, <2>2, TaggedReply DEF TypeOK
  <2>4. owed' \in Seq(1 .. N)
    BY <2>1, <2>2, EmptySeq
  <2>5. UNCHANGED <<mode, active, fw, pos, st, rows, trap, sync>>
    BY <1>8 DEF DeviceAnswer
  <2> QED
    BY <2>1, <2>3, <2>4, <2>5 DEF TypeOK
<1>9. CASE DeviceClose
  BY <1>9, PartsOfStream DEF TypeOK, DeviceClose
<1>10. CASE Terminated \/ UNCHANGED vars
  BY <1>10 DEF TypeOK, Terminated, vars
<1> QED
  BY <1>1, <1>2, <1>3, <1>4, <1>5, <1>6, <1>7, <1>8, <1>9, <1>10 DEF Next, AgentStep

\* The initial states are typed.
LEMMA InitTyped == Init => TypeOK
<1> SUFFICES ASSUME Init PROVE TypeOK
  OBVIOUS
<1>1. stream \in Seq(Sentence) /\ owed \in Seq(1 .. N)
  BY EmptySeq DEF Init
<1>2. active \subseteq {"agent"} \cup Requested
  BY DEF Init
<1>3. mode \in {"api", "rest"} /\ pos \in 1 .. N /\ pos \in 1 .. N + 1
  BY ModesAssumption, CommandCount DEF Init
<1>4. /\ fw = "?" /\ st = "send" /\ link = "up"
      /\ rows = {} /\ trap = FALSE /\ sync = "clean"
  BY DEF Init
<1>5. rows \subseteq 0 .. N /\ trap \in BOOLEAN
  BY <1>4
<1> QED
  BY <1>1, <1>2, <1>3, <1>4, <1>5 DEF TypeOK

\* Every variable keeps to its type in every run of the agent.
THEOREM TypeCorrect == Spec => []TypeOK
  BY InitTyped, TypeStep, PTL DEF Spec

-----------------------------------------------------------------------------
\* A call that is left with a silent wire keeps the framing.
LEMMA LeftFramed ==
    ASSUME TypeOK, Framed, Left, stream' = <<>>, owed' = <<>>
    PROVE  Framed'
<1>1. st' # "read" /\ rows' \subseteq {pos'} /\ (st' = "send" => rows' = {})
  BY DEF Left, Framed
<1> QED
  BY <1>1 DEF Framed

\* While the wire is framed, no step but tearing a row unframes it.
LEMMA FramedStep ==
    ASSUME IInv, Next, sync' = "clean"
    PROVE  Framed'
<1> USE DEF IInv
<1>1. CASE Send
  <2>1. stream = <<>> /\ owed = <<>> /\ rows = {}
    BY <1>1 DEF Send, Framed
  <2>2. stream' = <<>> /\ st' = "read" /\ rows' = {} /\ pos' = pos
        /\ (owed' = <<pos>> \/ owed' = <<>>)
        /\ (link' = "closed" => owed' = <<>>)
    BY <1>1, <2>1 DEF Send
  <2>3. RestOfReply(<<>>, pos)
    BY DEF RestOfReply
  <2> QED
    BY <2>2, <2>3 DEF Framed
<1>2. CASE TalkSentence \/ MyapiSentence \/ ApiCallSentence
  <2>1. /\ Taken /\ sync = "clean"
        /\ st' # "read" => Head(stream).kind \in Enders
    BY <1>2, SentenceTaken
  <2>2. /\ owed' = <<>> /\ RestOfReply(stream', pos) /\ Head(stream).req = pos
        /\ Head(stream).kind \in Enders => stream' = <<>>
    <3>1. pos \in 1 .. N /\ owed = <<>> /\ RestOfReply(stream, pos)
      BY <2>1 DEF Taken, Framed, TypeOK
    <3> QED
      BY <2>1, <3>1, PartsOfReply DEF Taken, TypeOK
  <2>3. CASE Left /\ st' # "read"
    BY <2>1, <2>2, <2>3, LeftFramed
  <2>4. CASE UNCHANGED <<pos, st, fw>> /\ rows' \subseteq rows \cup {Head(stream).req}
    BY <2>1, <2>2, <2>4 DEF Framed, Taken
  <2> QED
    BY <2>1, <2>3, <2>4 DEF Taken
<1>3. CASE ReadEnd
  <2>1. Left /\ stream' = <<>> /\ sync = "clean"
    BY <1>3, CallLeaves DEF ReadEnd
  <2>2. owed' = <<>>
    BY <1>3, <2>1 DEF ReadEnd, Framed
  <2> QED
    BY <2>1, <2>2, LeftFramed
<1>4. CASE ReadBytesWord \/ LoseFraming \/ ReadGarbled
  BY <1>4 DEF ReadBytesWord, LoseFraming, ReadGarbled
<1>5. CASE RestAnswer \/ RestRaise \/ RestRefused
  <2>1. Left /\ st = "send" /\ UNCHANGED <<stream, owed, sync>>
    BY <1>5, CallLeaves DEF RestAnswer, RestRaise, RestRefused
  <2>2. stream' = <<>> /\ owed' = <<>>
    BY <2>1 DEF Framed
  <2> QED
    BY <2>1, <2>2, LeftFramed
<1>6. CASE DeviceAnswer
  <2>1. owed # <<>> /\ sync = "clean" /\ UNCHANGED <<pos, st, rows>>
    BY <1>6 DEF DeviceAnswer
  <2>2. st = "read" /\ stream = <<>> /\ owed = <<pos>> /\ pos \in 1 .. N
    BY <2>1 DEF Framed, TypeOK
  <2>3. PICK reply \in Replies(Order[pos]) :
          /\ stream' = stream \o Tagged(reply, pos)
          /\ owed' \in {<<>>, Tail(owed)}
    BY <1>6, <2>2 DEF DeviceAnswer
  <2>4. owed' = <<>>
    BY <2>2, <2>3
  <2>5. stream' = Tagged(reply, pos) /\ RestOfReply(stream', pos)
    BY <2>2, <2>3, TaggedReply, ConcatEmptySeq
  <2> QED
    BY <2>1, <2>2, <2>4, <2>5 DEF Framed
<1>7. CASE DeviceClose
  <2>1. PICK k \in 0 .. Len(stream) : stream' = SubSeq(stream, 1, k)
    BY <1>7 DEF DeviceClose
  <2>2. owed' = <<>> /\ sync = "clean" /\ UNCHANGED <<pos, st, rows>>
    BY <1>7 DEF DeviceClose
  <2>3. CASE stream = <<>>
    <3>1. stream' = <<>>
      BY <2>1, <2>3
    <3>2. RestOfReply(<<>>, pos)
      BY DEF RestOfReply
    <3> QED
      BY <2>2, <3>1, <3>2 DEF Framed
  <2>4. CASE stream # <<>>
    <3>1. st = "read" /\ RestOfReply(stream, pos) /\ pos \in 1 .. N
      BY <2>2, <2>4 DEF Framed, TypeOK
    <3>2. RestOfReply(stream', pos)
      BY <2>1, <3>1, PartsOfReply DEF TypeOK
    <3> QED
      BY <2>2, <3>1, <3>2 DEF Framed
  <2> QED
    BY <2>3, <2>4
<1>8. CASE Terminated
  BY <1>8 DEF Terminated, vars, Framed
<1> QED
  BY <1>1, <1>2, <1>3, <1>4, <1>5, <1>6, <1>7, <1>8 DEF Next, AgentStep

\* The invariant holds initially.
LEMMA InvariantInit == Init => IInv
<1>1. Init => Framed
  BY DEF Init, Framed
<1> QED
  BY <1>1, InitTyped DEF IInv

\* No step breaks the invariant.
LEMMA InvariantStep == IInv /\ [Next]_vars => IInv'
<1>1. ASSUME IInv, Next PROVE IInv'
  BY <1>1, TypeStep, FramedStep DEF IInv
<1>2. ASSUME IInv, UNCHANGED vars PROVE IInv'
  BY <1>2, TypeStep DEF IInv, Framed, vars
<1> QED
  BY <1>1, <1>2

\* The inductive invariant: the types, and the framing of an untorn wire.
LEMMA Invariance == Spec => []IInv
  BY InvariantInit, InvariantStep, PTL DEF Spec

\* No reply is left behind between two calls as long as no row was torn apart.
THEOREM NothingLeftBehind == Spec => []QuietBetweenCalls
<1>1. IInv => QuietBetweenCalls
  BY DEF IInv, Framed, QuietBetweenCalls
<1> QED
  BY <1>1, Invariance, PTL

\* With ASCII rows none is ever torn, so every row answers its command outright.
THEOREM AsciiRowsAnswer == ~Fragmented /\ Spec => []RowsAnswerTheirCommand
<1> DEFINE Clean == sync = "clean"
<1>1. Init => Clean
  BY DEF Init
<1>2. ASSUME ~Fragmented, Clean, [Next]_vars PROVE Clean'
  BY <1>2 DEF Next, AgentStep, vars, Terminated, DeviceAnswer, DeviceClose, Send,
     TalkSentence, MyapiSentence, ApiCallSentence, ReadEnd, ReadBytesWord, LoseFraming,
     ReadGarbled, RestAnswer, RestRaise, RestRefused, Tearable
<1>3. Clean /\ IInv => RowsAnswerTheirCommand
  BY DEF IInv, Framed, RowsAnswerTheirCommand
<1>4. ASSUME ~Fragmented PROVE Spec => []RowsAnswerTheirCommand
  <2>1. Clean /\ [Next]_vars => Clean'
    BY <1>2, <1>4
  <2> QED
    BY <1>1, <2>1, <1>3, Invariance, PTL DEF Spec
<1> QED
  BY <1>4
-----------------------------------------------------------------------------
\* The command in progress is one the run wants (of the firmware it reported), and
\* when a reply was left behind, a handled call before this one left it, and nothing
\* on the wire is older.
InCommand == st \in {"send", "read"} => pos \in 1 .. N /\ Wanted(Order[pos], fw)
BInv == IInv /\ InCommand /\ OnlyHandledCallsFallBehind

\* Where a call leads, told apart by what the two properties look at.
Stays ==
    /\ pos' = pos /\ fw' = fw
    /\ st' \in {"send", "read"} => st \in {"send", "read"}
    /\ (sync' = "behind" /\ st' # "failed") => (sync = "behind" /\ st # "failed")
GoesOn ==
    /\ st \in {"send", "read"}
    /\ \E r : Advance(r, fw)
    /\ sync' = "behind" => sync = "behind" \/ Guard(cmd) # "none"
LearnsVersion ==
    /\ st \in {"send", "read"} /\ cmd = "version" /\ sync' = sync
    /\ \E r : \E f \in {"6", "7", "8"} : Advance(r, f)

\* A call that returns leads on, or fails for want of a version.
LEMMA ReturnLeads ==
    ASSUME NEW r, Return(r), st \in {"send", "read"}, sync' = sync
    PROVE  st' = "failed" \/ GoesOn \/ LearnsVersion
<1>1. CASE cmd = "version"
  <2>1. Fail \/ \E f \in {"6", "7", "8"} : Advance(r, f)
    <3>1. cmd \notin LoginCommands
      BY <1>1 DEF LoginCommands
    <3> QED
      BY <1>1, <3>1 DEF Return
  <2> QED
    BY <1>1, <2>1 DEF Fail, LearnsVersion
<1>2. CASE cmd # "version"
  <2>1. Fail \/ Advance(r, fw)
    BY <1>2 DEF Return
  <2> QED
    BY <2>1 DEF Fail, GoesOn
<1> QED
  BY <1>1, <1>2

\* A call left by an exception or an exit leads on only through its handler.
LEMMA RaiseLeads ==
    ASSUME Raise \/ Exit, st \in {"send", "read"}
    PROVE  st' = "failed" \/ GoesOn
<1>1. st' = "failed" \/ (Guard(cmd) # "none" /\ Advance("none", fw))
  BY DEF Raise, Exit, Fail
<1> QED
  BY <1>1 DEF GoesOn

\* Every step stays at its command, fails, or leads on to a further one.
LEMMA EveryStepLeads ==
    ASSUME TypeOK, [Next]_vars
    PROVE  active' = active /\ (Stays \/ st' = "failed" \/ GoesOn \/ LearnsVersion)
<1>1. CASE Send \/ LoseFraming \/ DeviceAnswer \/ DeviceClose \/ Terminated \/ UNCHANGED vars
  BY <1>1 DEF Send, LoseFraming, DeviceAnswer, DeviceClose, Terminated, vars, Stays
<1>2. CASE TalkSentence \/ MyapiSentence \/ ApiCallSentence
  <2>1. st = "read" /\ sync' = sync /\ active' = active
    BY <1>2 DEF TalkSentence, MyapiSentence, ApiCallSentence, Reading, Consume
  <2>2. UNCHANGED <<pos, st, fw>> \/ \E r : Return(r)
    BY <1>2 DEF TalkSentence, MyapiSentence, ApiCallSentence, Collect
  <2>3. CASE UNCHANGED <<pos, st, fw>>
    BY <2>1, <2>3 DEF Stays
  <2> QED
    BY <2>1, <2>2, <2>3, ReturnLeads
<1>3. CASE ReadEnd \/ ReadBytesWord \/ RestRaise \/ RestRefused
  <2>1. (Raise \/ Exit) /\ st \in {"send", "read"} /\ active' = active
    BY <1>3 DEF ReadEnd, ReadBytesWord, RestRaise, RestRefused, Reading, Consume
  <2> QED
    BY <2>1, RaiseLeads
<1>4. CASE ReadGarbled
  <2>1. st = "read" /\ sync' = sync /\ active' = active
    BY <1>4 DEF ReadGarbled
  <2>2. UNCHANGED <<pos, st, fw>> \/ Return(Collected) \/ Raise
    BY <1>4 DEF ReadGarbled
  <2>3. CASE UNCHANGED <<pos, st, fw>>
    BY <2>1, <2>3 DEF Stays
  <2> QED
    BY <2>1, <2>2, <2>3, ReturnLeads, RaiseLeads
<1>5. CASE RestAnswer
  <2>1. st = "send" /\ sync' = sync /\ active' = active /\ \E r : Return(r)
    BY <1>5 DEF RestAnswer
  <2> QED
    BY <2>1, ReturnLeads
<1> QED
  BY <1>1, <1>2, <1>3, <1>4, <1>5 DEF Next, AgentStep

\* Leading on means a later command, and a wanted one, unless the run is over.
LEMMA AdvanceWanted ==
    ASSUME TypeOK, st # "ok", NEW r, NEW f, Advance(r, f)
    PROVE  /\ fw' = f /\ pos' \in pos + 1 .. N + 1 /\ st' \in {"send", "ok"}
           /\ st' = "send" => pos' \in 1 .. N /\ Wanted(Order[pos'], f)
<1>1. PICK k \in Skips(cmd, r) : \E q \in Following(pos, k, f) :
        pos' = q /\ st' = (IF q = N + 1 THEN "ok" ELSE "send") /\ fw' = f
  BY DEF Advance
<1>2. PICK q \in Following(pos, k, f) :
        pos' = q /\ st' = (IF q = N + 1 THEN "ok" ELSE "send") /\ fw' = f
  BY <1>1
<1>3. k \in Nat /\ pos \in 1 .. N
  BY SkipsAreNaturals DEF TypeOK
<1>4. q \in pos + 1 .. N + 1 /\ (q = N + 1 \/ Wanted(Order[q], f))
  BY <1>3, CommandCount DEF Following
<1> QED
  BY <1>2, <1>3, <1>4, CommandCount

\* Nothing before the version command has a handler, so no reply is left behind there.
LEMMA VersionIsThird ==
    /\ \A q \in 1 .. N : Order[q] = "version" => q = 3
    /\ \A q \in 1 .. 3 : Guard(Order[q]) = "none"
<1>1. \A q \in 1 .. N : Order[q] = "version" => q = 3
  BY CommandCount DEF Order
<1>2. Order[1] = "login" /\ Order[2] = "login.response" /\ Order[3] = "version"
  BY DEF Order
<1>3. \A c \in {"login", "login.response", "version"} : Guard(c) = "none"
  BY DEF Guard, WifiCommands
<1>4. \A q \in 1 .. 3 : q = 1 \/ q = 2 \/ q = 3
  OBVIOUS
<1> QED
  BY <1>1, <1>2, <1>3, <1>4

\* Out of step, sentences come from the commands received, each behind the one before.
LEMMA NothingBeforeKept ==
    ASSUME TypeOK, [Next]_vars, sync # "lost", sync' # "lost",
           NEW q \in 1 .. pos, NothingBefore(q)
    PROVE  NothingBefore(q)'
<1>1. CASE Send
  <2>1. owed' = owed \/ owed' = Append(owed, pos)
    BY <1>1 DEF Send
  <2>2. owed \in Seq(1 .. N) /\ pos \in 1 .. N /\ pos >= q
    BY <1>1 DEF TypeOK, Send
  <2>3. \A i \in 1 .. Len(Append(owed, pos)) : Append(owed, pos)[i] >= q
    BY <2>2, AppendProperties DEF NothingBefore
  <2>4. \A i \in 1 .. Len(owed') : owed'[i] >= q
    BY <2>1, <2>3 DEF NothingBefore
  <2> QED
    BY <1>1, <2>4 DEF NothingBefore, Send
<1>2. CASE TalkSentence \/ MyapiSentence \/ ApiCallSentence \/ ReadBytesWord
  <2>1. Taken
    <3>1. CASE ReadBytesWord
      BY <3>1, CallLeaves DEF ReadBytesWord, Reading, Consume, Taken, Left
    <3> QED
      BY <1>2, <3>1, SentenceTaken
  <2>2. /\ Len(stream) \in Nat \ {0} /\ Head(stream) = stream[1]
        /\ Len(Tail(stream)) = Len(stream) - 1
        /\ \A i \in 1 .. Len(Tail(stream)) : Tail(stream)[i] = stream[i + 1]
    BY <2>1, HeadTailProperties DEF Taken, TypeOK
  <2>3. Head(stream).req >= q
    BY <2>2 DEF NothingBefore
  <2>4. \A i \in 1 .. Len(Tail(stream)) : Tail(stream)[i].req >= q
    BY <2>2 DEF NothingBefore
  <2>5. rows' \subseteq rows \cup {Head(stream).req}
    BY <2>1 DEF Taken, Left
  <2>6. \A r \in rows' : r >= q
    BY <2>3, <2>5 DEF NothingBefore
  <2> QED
    BY <2>1, <2>4, <2>6 DEF NothingBefore, Taken
<1>3. CASE ReadEnd \/ RestAnswer \/ RestRaise \/ RestRefused
  <2>1. Left /\ UNCHANGED <<stream, owed>>
    BY <1>3, CallLeaves DEF ReadEnd, RestAnswer, RestRaise, RestRefused
  <2> QED
    BY <2>1 DEF NothingBefore, Left
<1>4. CASE DeviceAnswer
  <2>1. PICK reply \in Replies(Order[Head(owed)]) :
          /\ stream' = stream \o Tagged(reply, Head(owed))
          /\ owed' \in {<<>>, Tail(owed)}
    BY <1>4 DEF DeviceAnswer
  <2>2. owed \in Seq(1 .. N) /\ owed # <<>> /\ rows' = rows /\ stream \in Seq(Sentence)
    BY <1>4 DEF DeviceAnswer, TypeOK
  <2>3. /\ Head(owed) = owed[1] /\ Len(owed) \in Nat \ {0} /\ Head(owed) \in 1 .. N
        /\ Tail(owed) \in Seq(1 .. N) /\ Len(Tail(owed)) = Len(owed) - 1
        /\ \A i \in 1 .. Len(Tail(owed)) : Tail(owed)[i] = owed[i + 1]
    <3>1. Head(owed) = owed[1] /\ Len(owed) \in Nat \ {0}
      BY <2>2
    <3>2. owed[1] \in 1 .. N
      BY <2>2, HeadTailProperties, <3>1
    <3>3. /\ Tail(owed) \in Seq(1 .. N) /\ Len(Tail(owed)) = Len(owed) - 1
          /\ \A i \in 1 .. Len(Tail(owed)) : Tail(owed)[i] = owed[i + 1]
      BY <2>2, HeadTailProperties
    <3> QED
      BY <3>1, <3>2, <3>3
  <2>4. Head(owed) >= q
    BY <2>3 DEF NothingBefore
  <2>5. \A i \in 1 .. Len(owed') : owed'[i] >= q
    BY <2>1, <2>3, EmptySeq DEF NothingBefore
  <2> DEFINE t == Tagged(reply, Head(owed))
  <2>6. t \in Seq(Sentence) /\ \A i \in 1 .. Len(t) : t[i].req = Head(owed)
    BY <2>1, <2>3, TaggedReply DEF RestOfReply
  <2> HIDE DEF t
  <2>7. \A i \in 1 .. Len(stream \o t) : (stream \o t)[i].req >= q
    <3> SUFFICES ASSUME NEW i \in 1 .. Len(stream \o t) PROVE (stream \o t)[i].req >= q
      OBVIOUS
    <3>1. CASE i <= Len(stream)
      BY <2>2, <2>6, <3>1 DEF NothingBefore
    <3>2. CASE i > Len(stream)
      <4>1. (stream \o t)[i] = t[i - Len(stream)] /\ i - Len(stream) \in 1 .. Len(t)
        BY <2>2, <2>6, <3>2
      <4> QED
        BY <2>4, <2>6, <4>1
    <3> QED
      BY <2>2, <2>6, <3>1, <3>2
  <2> QED
    BY <2>1, <2>2, <2>5, <2>7 DEF NothingBefore, t
<1>5. CASE DeviceClose
  <2>1. PICK k \in 0 .. Len(stream) : stream' = SubSeq(stream, 1, k)
    BY <1>5 DEF DeviceClose
  <2>2. stream \in Seq(Sentence) /\ rows' = rows /\ owed' = <<>>
    BY <1>5 DEF DeviceClose, TypeOK
  <2>3. Len(SubSeq(stream, 1, k)) = k /\ \A i \in 1 .. k : SubSeq(stream, 1, k)[i] = stream[i]
    BY <2>2
  <2> QED
    BY <2>1, <2>2, <2>3, EmptySeq DEF NothingBefore
<1>6. CASE LoseFraming \/ ReadGarbled \/ Terminated \/ UNCHANGED vars
  BY <1>6 DEF LoseFraming, ReadGarbled, Terminated, vars, NothingBefore
<1> QED
  BY <1>1, <1>2, <1>3, <1>4, <1>5, <1>6 DEF Next, AgentStep

\* The first reply that is left is that of the call in progress.
LEMMA FirstLeft ==
    ASSUME IInv, [Next]_vars, sync # "behind", sync' = "behind", st' # "failed",
           NEW q \in 1 .. N, q = pos
    PROVE  NothingBefore(q)'
<1>1. ReadBytesWord /\ sync = "clean" /\ TypeOK
  <2>1. ReadBytesWord
    BY DEF Next, AgentStep, Send, TalkSentence, MyapiSentence, ApiCallSentence, ReadEnd,
       LoseFraming, ReadGarbled, RestAnswer, RestRaise, RestRefused, DeviceAnswer,
       DeviceClose, Terminated, vars
  <2> QED
    BY <2>1 DEF ReadBytesWord, Reading, IInv, TypeOK
<1>2. st = "read" /\ stream # <<>> /\ stream' = Tail(stream) /\ owed' = owed /\ Left
  BY <1>1, CallLeaves DEF ReadBytesWord, Reading, Consume
<1>3. owed = <<>> /\ RestOfReply(stream, q) /\ stream \in Seq(Sentence)
  BY <1>1, <1>2 DEF IInv, Framed, TypeOK
<1>4. RestOfReply(stream', q) /\ rows' = {} /\ q >= q
  BY <1>2, <1>3, PartsOfReply DEF Left
<1> QED
  BY <1>2, <1>3, <1>4, EmptySeq DEF NothingBefore, RestOfReply

\* No step breaks BInv.
LEMMA BehindStep == BInv /\ [Next]_vars => BInv'
<1> SUFFICES ASSUME BInv, [Next]_vars PROVE BInv'
  OBVIOUS
<1>1. TypeOK' /\ TypeOK /\ IInv' /\ IInv
  BY InvariantStep DEF BInv, IInv
<1>2. active' = active /\ (Stays \/ st' = "failed" \/ GoesOn \/ LearnsVersion)
  BY <1>1, EveryStepLeads
<1>3. \A c, f : Wanted(c, f)' <=> Wanted(c, f)
  BY <1>2 DEF Wanted
<1>4. CASE Stays
  <2>1. InCommand'
    BY <1>2, <1>4 DEF Stays, BInv, InCommand, Wanted
  <2>2. ASSUME sync' = "behind", st' # "failed"
        PROVE  \E q \in 1 .. pos' - 1 :
                  Guard(Order[q]) # "none" /\ Wanted(Order[q], fw)' /\ NothingBefore(q)'
    <3>1. sync = "behind" /\ st # "failed" /\ pos' = pos /\ fw' = fw
      BY <1>4, <2>2 DEF Stays
    <3>2. PICK q \in 1 .. pos - 1 :
            Guard(Order[q]) # "none" /\ Wanted(Order[q], fw) /\ NothingBefore(q)
      BY <3>1 DEF BInv, OnlyHandledCallsFallBehind
    <3>3. q \in 1 .. pos
      BY <1>1, CommandCount DEF TypeOK
    <3>4. NothingBefore(q)'
      BY <1>1, <2>2, <3>1, <3>2, <3>3, NothingBeforeKept
    <3> QED
      BY <1>3, <3>1, <3>2, <3>4 DEF Wanted
  <2> QED
    BY <1>1, <2>1, <2>2 DEF BInv, OnlyHandledCallsFallBehind
<1>5. CASE st' = "failed"
  BY <1>1, <1>5 DEF BInv, InCommand, OnlyHandledCallsFallBehind
<1>6. CASE GoesOn
  <2>1. PICK r : Advance(r, fw)
    BY <1>6 DEF GoesOn
  <2>2. /\ fw' = fw /\ pos' \in pos + 1 .. N + 1 /\ st' \in {"send", "ok"}
        /\ st' = "send" => pos' \in 1 .. N /\ Wanted(Order[pos'], fw)
    BY <1>1, <1>6, <2>1, AdvanceWanted DEF GoesOn
  <2>3. InCommand'
    BY <1>2, <2>2 DEF InCommand, Wanted
  <2>4. st \in {"send", "read"} /\ pos \in 1 .. N /\ Wanted(Order[pos], fw)
    BY <1>6 DEF GoesOn, BInv, InCommand
  <2>5. ASSUME sync' = "behind"
        PROVE  \E q \in 1 .. pos :
                  Guard(Order[q]) # "none" /\ Wanted(Order[q], fw) /\ NothingBefore(q)'
    <3>1. CASE sync = "behind"
      <4>1. PICK q \in 1 .. pos - 1 :
              Guard(Order[q]) # "none" /\ Wanted(Order[q], fw) /\ NothingBefore(q)
        BY <2>4, <3>1 DEF BInv, OnlyHandledCallsFallBehind
      <4>2. q \in 1 .. pos
        BY <2>4, CommandCount
      <4>3. NothingBefore(q)'
        BY <1>1, <2>5, <3>1, <4>1, <4>2, NothingBeforeKept
      <4> QED
        BY <4>1, <4>2, <4>3
    <3>2. CASE sync # "behind"
      <4>1. Guard(Order[pos]) # "none"
        BY <1>6, <2>5, <3>2 DEF GoesOn, cmd
      <4>2. PICK q \in 1 .. N : q = pos
        BY <2>4
      <4>3. q \in 1 .. pos
        BY <2>4, <4>2, CommandCount
      <4>4. st' # "failed"
        BY <2>2
      <4>5. NothingBefore(q)'
        BY <1>1, <2>5, <3>2, <4>2, <4>4, FirstLeft
      <4> QED
        BY <2>4, <4>1, <4>2, <4>3, <4>5
    <3> QED
      BY <3>1, <3>2
  <2>6. 1 .. pos \subseteq 1 .. pos' - 1
    <3>1. \A a, b \in Nat : b \in a + 1 .. N + 1 => 1 .. a \subseteq 1 .. b - 1
      BY CommandCount
    <3>2. pos \in Nat /\ pos' \in Nat
      BY <1>1, CommandCount DEF TypeOK
    <3> QED
      BY <2>2, <3>1, <3>2
  <2>7. ASSUME sync' = "behind"
        PROVE  \E q \in 1 .. pos' - 1 :
                  Guard(Order[q]) # "none" /\ Wanted(Order[q], fw)' /\ NothingBefore(q)'
    <3>1. PICK q \in 1 .. pos :
            Guard(Order[q]) # "none" /\ Wanted(Order[q], fw) /\ NothingBefore(q)'
      BY <2>5, <2>7
    <3>2. q \in 1 .. pos' - 1 /\ Wanted(Order[q], fw)'
      BY <1>2, <2>2, <2>6, <3>1 DEF Wanted
    <3> QED
      BY <3>1, <3>2
  <2>8. OnlyHandledCallsFallBehind'
    BY <2>7 DEF OnlyHandledCallsFallBehind
  <2> QED
    BY <1>1, <2>3, <2>8 DEF BInv
<1>7. CASE LearnsVersion
  <2>1. PICK r : \E f \in {"6", "7", "8"} : Advance(r, f)
    BY <1>7 DEF LearnsVersion
  <2> PICK f \in {"6", "7", "8"} : Advance(r, f)
    BY <2>1
  <2>2. /\ fw' = f /\ pos' \in pos + 1 .. N + 1 /\ st' \in {"send", "ok"}
        /\ st' = "send" => pos' \in 1 .. N /\ Wanted(Order[pos'], f)
    BY <1>1, <1>7, AdvanceWanted DEF LearnsVersion
  <2>3. InCommand'
    BY <1>2, <2>2 DEF InCommand, Wanted
  <2>4. pos = 3
    BY <1>1, <1>7, VersionIsThird DEF LearnsVersion, cmd, TypeOK
  <2>5. sync' # "behind"
    <3> SUFFICES ASSUME sync = "behind" PROVE FALSE
      BY <1>7 DEF LearnsVersion
    <3>1. \E q \in 1 .. 2 : Guard(Order[q]) # "none"
      BY <1>7, <2>4 DEF BInv, OnlyHandledCallsFallBehind, LearnsVersion
    <3> QED
      BY <3>1, VersionIsThird
  <2>6. OnlyHandledCallsFallBehind'
    BY <2>5 DEF OnlyHandledCallsFallBehind
  <2> QED
    BY <1>1, <2>3, <2>6 DEF BInv
<1> QED
  BY <1>2, <1>4, <1>5, <1>6, <1>7

\* The initial states satisfy BInv.
LEMMA InitBehind == Init => BInv
<1> SUFFICES ASSUME Init PROVE BInv
  OBVIOUS
<1>1. sync # "behind" /\ "agent" \in active /\ pos \in {1, 3}
  BY DEF Init
<1>2. Order[1] = "login" /\ Order[3] = "version" /\ pos \in 1 .. N
  BY <1>1, CommandCount DEF Order
<1>3. \A c \in {"login", "version"} : ModuleOf(c) = "agent" /\ KnownTo(c, fw)
  <2>1. ModuleOf("login") = "agent" /\ ModuleOf("version") = "agent"
    BY DEF ModuleOf, LoginCommands, WifiCommands
  <2>2. KnownTo("login", fw) /\ KnownTo("version", fw)
    BY DEF KnownTo
  <2> QED
    BY <2>1, <2>2
<1>4. InCommand
  BY <1>1, <1>2, <1>3 DEF InCommand, Wanted
<1> QED
  BY <1>1, <1>4, InvariantInit DEF BInv, OnlyHandledCallsFallBehind

\* A run is out of step only behind a handled call it has made, and what is left on the
\* wire then, or misread by a later call, is of that call or a later one.
THEOREM HandledCallsFallBehind == Spec => []OnlyHandledCallsFallBehind
<1>1. Init => BInv
  BY InitBehind
<1>2. BInv => OnlyHandledCallsFallBehind
  BY DEF BInv
<1> QED
  BY <1>1, <1>2, BehindStep, PTL DEF Spec

-----------------------------------------------------------------------------
\* What a wire may hold whichever replies were left: a reply goes on up to its end, an
\* open link holds whole replies, !fatal is the end of a closed one, and only the login
\* has a challenge.
Wire(s, l) ==
    /\ \A i \in 1 .. Len(s) - 1 : s[i].kind \notin Enders => s[i + 1].req = s[i].req
    /\ \A i \in 1 .. Len(s) : s[i].kind = "fatal" => i = Len(s) /\ l = "closed"
    /\ \A i \in 1 .. Len(s) : s[i].kind = "ret" => s[i].req = 1
    /\ l = "up" /\ s # <<>> => s[Len(s)].kind \in Enders

\* The rows collected so far are of the reply whose rest comes next.
RowsOf(s, l) ==
    \/ rows = {}
    \/ \E r \in 1 .. N : rows = {r} /\ IF s = <<>> THEN l = "closed" ELSE s[1].req = r

OneReply == Wire(stream, link) /\ RowsOf(stream, link)

CInv ==
    /\ BInv
    /\ sync # "lost" => RowsOfOneReply /\ (st # "failed" => OneReply)

\* A wire of which the first sentence was read.
LEMMA WireTail ==
    ASSUME NEW s \in Seq(Sentence), NEW l, s # <<>>, Wire(s, l), l \in {"up", "closed"}
    PROVE  /\ Wire(Tail(s), l)
           /\ s[1].kind \notin Enders \/ s[1].kind = "fatal" =>
                 IF Tail(s) = <<>> THEN l = "closed" ELSE Tail(s)[1].req = s[1].req
<1>1. PICK t : t = Tail(s)
  OBVIOUS
<1>2. /\ Len(s) \in Nat \ {0} /\ t \in Seq(Sentence) /\ Len(t) = Len(s) - 1
      /\ \A i \in 1 .. Len(t) : t[i] = s[i + 1]
  BY <1>1, HeadTailProperties
<1>3. \A i \in 1 .. Len(t) - 1 : t[i].kind \notin Enders => t[i + 1].req = t[i].req
  BY <1>2 DEF Wire
<1>4. \A i \in 1 .. Len(t) : t[i].kind = "fatal" => i = Len(t) /\ l = "closed"
  BY <1>2 DEF Wire
<1>5. \A i \in 1 .. Len(t) : t[i].kind = "ret" => t[i].req = 1
  BY <1>2 DEF Wire
<1>6. t # <<>> => Len(t) \in 1 .. Len(t) /\ t[Len(t)] = s[Len(s)]
  BY <1>2, EmptySeq
<1>7. t = <<>> => Len(s) = 1
  BY <1>2, EmptySeq
<1>8. Wire(t, l)
  BY <1>3, <1>4, <1>5, <1>6 DEF Wire
<1>9. ASSUME s[1].kind \notin Enders \/ s[1].kind = "fatal"
      PROVE  IF t = <<>> THEN l = "closed" ELSE t[1].req = s[1].req
  <2>1. CASE t = <<>>
    <3>1. Len(s) = 1 /\ 1 \in 1 .. Len(s)
      BY <1>7, <2>1
    <3>2. s[1].kind = "fatal" => l = "closed"
      BY <3>1 DEF Wire
    <3>3. l = "up" => s[1].kind \in Enders
      BY <3>1 DEF Wire
    <3> QED
      BY <1>9, <2>1, <3>2, <3>3
  <2>2. CASE t # <<>>
    <3>1. 1 \in 1 .. Len(s) - 1 /\ 1 \in 1 .. Len(t) /\ 1 \in 1 .. Len(s) /\ Len(s) # 1
      BY <1>2, <2>2, EmptySeq
    <3>2. s[1].kind \notin Enders
      BY <1>9, <3>1 DEF Wire
    <3> QED
      BY <1>2, <2>2, <3>1, <3>2 DEF Wire
  <2> QED
    BY <2>1, <2>2
<1> QED
  BY <1>1, <1>8, <1>9

\* A wire that was cut off.
LEMMA WireCut ==
    ASSUME NEW s \in Seq(Sentence), Wire(s, "up"), NEW k \in 0 .. Len(s)
    PROVE  /\ Wire(SubSeq(s, 1, k), "closed")
           /\ SubSeq(s, 1, k) # <<>> => s # <<>> /\ SubSeq(s, 1, k)[1] = s[1]
<1>1. PICK t : t = SubSeq(s, 1, k)
  OBVIOUS
<1>2. Len(t) = k /\ (\A i \in 1 .. k : t[i] = s[i]) /\ t \in Seq(Sentence)
  BY <1>1
<1>3. Len(s) \in Nat /\ k \in Nat /\ k <= Len(s)
  OBVIOUS
<1>4. \A i \in 1 .. Len(t) - 1 : t[i].kind \notin Enders => t[i + 1].req = t[i].req
  BY <1>2, <1>3 DEF Wire
<1>5. \A i \in 1 .. Len(t) : t[i].kind # "fatal" /\ (t[i].kind = "ret" => t[i].req = 1)
  BY <1>2, <1>3 DEF Wire
<1>6. t # <<>> => s # <<>> /\ t[1] = s[1]
  BY <1>2, <1>3, EmptySeq
<1> QED
  BY <1>1, <1>4, <1>5, <1>6 DEF Wire

\* The reply to one command, as a wire.
LEMMA ReplyWire ==
    ASSUME NEW p \in 1 .. N, NEW reply \in Replies(Order[p])
    PROVE  /\ Tagged(reply, p) # <<>>
           /\ Wire(Tagged(reply, p), IF reply = <<"fatal">> THEN "closed" ELSE "up")
<1> DEFINE t == Tagged(reply, p)
<1>1. t \in Seq(Sentence) /\ \A i \in 1 .. Len(t) : t[i].req = p
  BY TaggedReply DEF RestOfReply
<1>2. /\ Len(reply) \in Nat \ {0} /\ reply[Len(reply)] \in Enders
      /\ \A i \in 1 .. Len(reply) :
            /\ reply[i] = "fatal" => reply = <<"fatal">>
            /\ reply[i] = "ret" => Order[p] = "login"
  <2>1. \/ reply \in {<<"trap", "done">>, <<"empty", "done">>, <<"re", "done">>}
        \/ reply = <<"re", "re", "done">> \/ reply = <<"done">> \/ reply = <<"fatal">>
        \/ reply = <<"ret">> /\ Order[p] = "login"
    BY DEF Replies
  <2>2. CASE reply \in {<<"trap", "done">>, <<"empty", "done">>, <<"re", "done">>}
    <3>1. PICK x \in {"trap", "empty", "re"} : reply = <<x, "done">>
      BY <2>2
    <3>2. Len(reply) = 2 /\ reply[1] = x /\ reply[2] = "done"
      BY <3>1
    <3> QED
      BY <3>2 DEF Enders
  <2>3. CASE reply = <<"re", "re", "done">>
    BY <2>3 DEF Enders
  <2>4. CASE reply = <<"done">> \/ (reply = <<"ret">> /\ Order[p] = "login")
    <3>1. PICK x \in {"done", "ret"} : reply = <<x>> /\ (x = "ret" => Order[p] = "login")
      BY <2>4
    <3>2. Len(reply) = 1 /\ reply[1] = x
      BY <3>1
    <3> QED
      BY <3>1, <3>2 DEF Enders
  <2>5. CASE reply = <<"fatal">>
    <3>1. Len(reply) = 1 /\ reply[1] = "fatal"
      BY <2>5
    <3> QED
      BY <2>5, <3>1 DEF Enders
  <2> QED
    BY <2>1, <2>2, <2>3, <2>4, <2>5
<1>3. Len(t) = Len(reply) /\ \A i \in 1 .. Len(t) : t[i].kind = reply[i]
  BY <1>2 DEF Tagged
<1>4. Order[p] = "login" => p = 1
  BY CommandCount DEF Order
<1>5. reply = <<"fatal">> => Len(t) = 1
  BY <1>3
<1>6. \A i \in 1 .. Len(t) - 1 : t[i + 1].req = t[i].req
  BY <1>1
<1>7. \A i \in 1 .. Len(t) : t[i].kind = "fatal" => reply = <<"fatal">> /\ i = Len(t)
  BY <1>2, <1>3, <1>5
<1>8. \A i \in 1 .. Len(t) : t[i].kind = "ret" => t[i].req = 1
  BY <1>1, <1>2, <1>3, <1>4
<1>9. Len(t) \in 1 .. Len(t) /\ t[Len(t)].kind \in Enders /\ t # <<>>
  BY <1>1, <1>2, <1>3, EmptySeq
<1> HIDE DEF t
<1>10. Wire(t, IF reply = <<"fatal">> THEN "closed" ELSE "up")
  BY <1>6, <1>7, <1>8, <1>9 DEF Wire
<1> QED
  BY <1>9, <1>10 DEF t

\* A reply arrives behind what is on an open link.
LEMMA WireJoined ==
    ASSUME NEW s \in Seq(Sentence), NEW t \in Seq(Sentence), NEW l \in {"up", "closed"},
           Wire(s, "up"), Wire(t, l), t # <<>>
    PROVE  /\ Wire(s \o t, l)
           /\ s # <<>> => s \o t # <<>> /\ (s \o t)[1] = s[1]
<1>1. PICK u : u = s \o t
  OBVIOUS
<1>2. /\ u \in Seq(Sentence) /\ Len(u) = Len(s) + Len(t)
      /\ \A i \in 1 .. Len(s) : u[i] = s[i]
      /\ \A i \in Len(s) + 1 .. Len(u) : u[i] = t[i - Len(s)]
      /\ Len(s) \in Nat /\ Len(t) \in Nat \ {0}
  BY <1>1, EmptySeq
<1>3. ASSUME NEW i \in 1 .. Len(u) - 1, u[i].kind \notin Enders
      PROVE  u[i + 1].req = u[i].req
  <2>1. CASE i < Len(s)
    <3>1. i \in 1 .. Len(s) - 1 /\ i \in 1 .. Len(s) /\ i + 1 \in 1 .. Len(s)
      BY <1>2, <2>1
    <3> QED
      BY <1>2, <1>3, <3>1 DEF Wire
  <2>2. CASE i = Len(s)
    <3>1. s # <<>> /\ i \in 1 .. Len(s)
      BY <1>2, <2>2, EmptySeq
    <3> QED
      BY <1>2, <1>3, <2>2, <3>1 DEF Wire
  <2>3. CASE i > Len(s)
    <3>1. /\ i - Len(s) \in 1 .. Len(t) - 1
          /\ i \in Len(s) + 1 .. Len(u) /\ i + 1 \in Len(s) + 1 .. Len(u)
          /\ i + 1 - Len(s) = i - Len(s) + 1
      BY <1>2, <2>3
    <3>2. u[i] = t[i - Len(s)] /\ u[i + 1] = t[i - Len(s) + 1]
      BY <1>2, <3>1
    <3> QED
      BY <1>3, <3>1, <3>2 DEF Wire
  <2> QED
    BY <1>2, <2>1, <2>2, <2>3
<1>4. ASSUME NEW i \in 1 .. Len(u)
      PROVE  /\ u[i].kind = "fatal" => i = Len(u) /\ l = "closed"
             /\ u[i].kind = "ret" => u[i].req = 1
  <2>1. CASE i <= Len(s)
    <3>1. i \in 1 .. Len(s) /\ u[i] = s[i]
      BY <1>2, <2>1
    <3> QED
      BY <3>1 DEF Wire
  <2>2. CASE i > Len(s)
    <3>1. i - Len(s) \in 1 .. Len(t) /\ u[i] = t[i - Len(s)]
      BY <1>2, <2>2
    <3>2. i - Len(s) = Len(t) => i = Len(u)
      BY <1>2
    <3> QED
      BY <3>1, <3>2 DEF Wire
  <2> QED
    BY <1>2, <2>1, <2>2
<1>5. u[Len(u)] = t[Len(t)]
  BY <1>2
<1>6. s # <<>> => u # <<>> /\ u[1] = s[1]
  BY <1>2, EmptySeq
<1>7. Wire(u, l)
  BY <1>3, <1>4, <1>5 DEF Wire
<1> QED
  BY <1>1, <1>6, <1>7

\* A sentence that does not end the call is a row, or is passed over.
LEMMA SentenceCollected ==
    ASSUME TypeOK, TalkSentence \/ MyapiSentence \/ ApiCallSentence
    PROVE  \/ Left /\ st' # "read"
           \/ /\ UNCHANGED <<pos, st, fw>> /\ rows' \in {rows, rows \cup {Head(stream).req}}
              /\ \/ Head(stream).kind \notin Enders \/ Head(stream).kind = "fatal"
                 \/ Head(stream).kind = "ret" /\ cmd \notin LoginCommands
<1> DEFINE s == Head(stream)
<1>1. \/ \E r : Return(r)
      \/ /\ Collect(s) \/ UNCHANGED <<pos, st, fw, rows, trap>>
         /\ s.kind # "done" /\ (s.kind # "ret" \/ cmd \notin LoginCommands)
  <2>1. CASE TalkSentence
    BY <2>1 DEF TalkSentence
  <2>2. CASE MyapiSentence
    BY <2>2 DEF MyapiSentence
  <2>3. CASE ApiCallSentence
    <3>1. "ups.monitor" \notin LoginCommands
      BY DEF LoginCommands
    <3> QED
      BY <2>3, <3>1 DEF ApiCallSentence
  <2> QED
    BY <2>1, <2>2, <2>3
<1>2. st = "read"
  BY DEF TalkSentence, MyapiSentence, ApiCallSentence, Reading
<1>3. CASE \E r : Return(r)
  BY <1>2, <1>3, CallLeaves DEF Left
<1>4. CASE ~ \E r : Return(r)
  BY <1>1, <1>4 DEF Collect, Enders
<1> QED
  BY <1>3, <1>4

\* No call but a login meets a challenge: what is on the wire is of its own command, or
\* of one behind a handled call, and the login has no handler.
LEMMA NoChallenge ==
    ASSUME BInv, OneReply, st = "read", stream # <<>>, sync # "lost",
           cmd \notin LoginCommands
    PROVE  Head(stream).kind # "ret"
<1> SUFFICES ASSUME Head(stream).kind = "ret" PROVE FALSE
  OBVIOUS
<1>1. TypeOK /\ IInv /\ stream \in Seq(Sentence) /\ pos \in 1 .. N
  BY DEF BInv, IInv, TypeOK
<1>2. Head(stream) = stream[1] /\ 1 \in 1 .. Len(stream)
  BY <1>1, EmptySeq
<1>3. stream[1].req = 1
  BY <1>2 DEF OneReply, Wire
<1>4. CASE sync = "clean"
  <2>1. RestOfReply(stream, pos)
    BY <1>4 DEF BInv, IInv, Framed
  <2>2. pos = 1
    BY <1>2, <1>3, <2>1 DEF RestOfReply
  <2>3. Order[1] = "login"
    BY DEF Order
  <2> QED
    BY <2>2, <2>3 DEF cmd, LoginCommands
<1>5. CASE sync = "behind"
  <2>1. PICK q \in 1 .. pos - 1 : Guard(Order[q]) # "none" /\ NothingBefore(q)
    BY <1>5 DEF BInv, OnlyHandledCallsFallBehind
  <2>2. q <= 1 /\ q \in 1 .. 3
    BY <1>1, <1>2, <1>3, <2>1, CommandCount DEF NothingBefore
  <2> QED
    BY <2>1, <2>2, VersionIsThird
<1> QED
  BY <1>1, <1>4, <1>5 DEF TypeOK

\* No step mixes the rows of two replies.
LEMMA OneReplyStep == CInv /\ [Next]_vars => CInv'
<1> SUFFICES ASSUME CInv, [Next]_vars, sync' # "lost"
             PROVE  RowsOfOneReply' /\ (st' # "failed" => OneReply')
  BY BehindStep DEF CInv
<1>1. /\ BInv /\ TypeOK /\ sync # "lost" /\ RowsOfOneReply
      /\ st # "failed" => OneReply
  <2>1. sync # "lost"
    BY DEF Next, AgentStep, Send, TalkSentence, MyapiSentence, ApiCallSentence, ReadEnd,
       ReadBytesWord, Reading, LoseFraming, ReadGarbled, RestAnswer, RestRaise,
       RestRefused, DeviceAnswer, DeviceClose, Terminated, vars
  <2> QED
    BY <2>1 DEF CInv, BInv, IInv
<1>2. ASSUME rows' = {} \/ rows' = rows PROVE RowsOfOneReply'
  BY <1>1, <1>2 DEF RowsOfOneReply
<1>3. ASSUME rows' = {}, Wire(stream', link') PROVE OneReply'
  BY <1>3 DEF OneReply, RowsOf
<1>4. CASE Send \/ UNCHANGED vars
  <2>1. UNCHANGED <<stream, rows, link>> /\ (st' # "failed" => st # "failed")
    BY <1>4 DEF Send, vars
  <2> QED
    BY <1>1, <1>2, <2>1 DEF OneReply, RowsOf, Wire
<1>5. CASE TalkSentence \/ MyapiSentence \/ ApiCallSentence
  <2>1. Taken /\ OneReply
    BY <1>1, <1>5, SentenceTaken DEF Taken
  <2>2. /\ stream \in Seq(Sentence) /\ stream # <<>> /\ stream' = Tail(stream)
        /\ link' = link /\ link \in {"up", "closed"} /\ Head(stream) = stream[1]
        /\ st = "read"
    BY <1>1, <2>1 DEF Taken, TypeOK
  <2>3. /\ Wire(stream', link')
        /\ stream[1].kind \notin Enders \/ stream[1].kind = "fatal" =>
              IF stream' = <<>> THEN link' = "closed" ELSE stream'[1].req = stream[1].req
    BY <2>1, <2>2, WireTail DEF OneReply
  <2>4. CASE Left /\ st' # "read"
    BY <1>2, <1>3, <2>3, <2>4 DEF Left
  <2>5. CASE ~(Left /\ st' # "read")
    <3>1. /\ rows' \in {rows, rows \cup {stream[1].req}}
          /\ \/ stream[1].kind \notin Enders \/ stream[1].kind = "fatal"
             \/ stream[1].kind = "ret" /\ cmd \notin LoginCommands
      BY <1>1, <1>5, <2>2, <2>5, SentenceCollected
    <3>2. stream[1].kind \notin Enders \/ stream[1].kind = "fatal"
      BY <1>1, <2>1, <2>2, <3>1, NoChallenge
    <3>3. PICK r \in 1 .. N : r = stream[1].req
      <4>1. stream[1] \in Sentence
        BY <2>2, PartsOfStream
      <4> QED
        BY <4>1 DEF Sentence
    <3>4. rows = {} \/ rows = {r}
      BY <2>1, <2>2, <3>3 DEF OneReply, RowsOf
    <3>5. rows' = {} \/ rows' = {r}
      BY <3>1, <3>3, <3>4
    <3>6. RowsOfOneReply'
      BY <3>5 DEF RowsOfOneReply
    <3>7. RowsOf(stream, link)'
      BY <2>3, <3>2, <3>3, <3>5 DEF RowsOf
    <3> QED
      BY <2>3, <3>6, <3>7 DEF OneReply
  <2> QED
    BY <2>4, <2>5
<1>6. CASE ReadEnd \/ RestAnswer \/ RestRaise \/ RestRefused
  <2>1. Left /\ UNCHANGED <<stream, link>> /\ st # "failed"
    BY <1>1, <1>6, CallLeaves DEF ReadEnd, RestAnswer, RestRaise, RestRefused
  <2>2. st' # "failed" => rows' = {}
    BY <2>1 DEF Left
  <2>3. Wire(stream', link')
    BY <1>1, <2>1 DEF OneReply
  <2> QED
    BY <1>2, <1>3, <2>1, <2>2, <2>3 DEF Left
<1>7. CASE ReadBytesWord
  <2>1. /\ Left /\ st # "failed" /\ stream # <<>> /\ stream' = Tail(stream)
        /\ link' = link
    BY <1>1, <1>7, CallLeaves DEF ReadBytesWord, Reading, Consume
  <2>2. Wire(stream', link')
    BY <1>1, <2>1, WireTail DEF OneReply, TypeOK
  <2>3. st' # "failed" => rows' = {}
    BY <2>1 DEF Left
  <2> QED
    BY <1>2, <1>3, <2>1, <2>2, <2>3 DEF Left
<1>8. CASE LoseFraming \/ ReadGarbled
  BY <1>1, <1>8 DEF LoseFraming, ReadGarbled
<1>9. CASE DeviceAnswer
  <2>1. PICK reply \in Replies(Order[Head(owed)]) :
          /\ stream' = stream \o Tagged(reply, Head(owed))
          /\ link' = IF reply = <<"fatal">> THEN "closed" ELSE "up"
    BY <1>9 DEF DeviceAnswer
  <2>2. /\ link = "up" /\ owed # <<>> /\ UNCHANGED <<rows, st>>
        /\ stream \in Seq(Sentence) /\ owed \in Seq(1 .. N)
    BY <1>1, <1>9 DEF DeviceAnswer, TypeOK
  <2>3. Head(owed) \in 1 .. N
    BY <2>2, HeadTailProperties
  <2> DEFINE t == Tagged(reply, Head(owed))
  <2>4. t \in Seq(Sentence) /\ t # <<>> /\ Wire(t, link') /\ link' \in {"up", "closed"}
    BY <2>1, <2>3, TaggedReply, ReplyWire
  <2> HIDE DEF t
  <2>5. ASSUME st' # "failed" PROVE OneReply'
    <3>1. Wire(stream, "up") /\ RowsOf(stream, "up")
      BY <1>1, <2>2, <2>5 DEF OneReply
    <3>2. /\ Wire(stream \o t, link')
          /\ stream # <<>> => stream \o t # <<>> /\ (stream \o t)[1] = stream[1]
      BY <2>2, <2>4, <3>1, WireJoined
    <3>3. stream' = stream \o t
      BY <2>1 DEF t
    <3>4. RowsOf(stream, link)'
      BY <2>2, <3>1, <3>2, <3>3 DEF RowsOf
    <3> QED
      BY <3>2, <3>3, <3>4 DEF OneReply
  <2> QED
    BY <1>2, <2>2, <2>5
<1>10. CASE DeviceClose
  <2>1. PICK k \in 0 .. Len(stream) : stream' = SubSeq(stream, 1, k)
    BY <1>10 DEF DeviceClose
  <2>2. /\ link = "up" /\ link' = "closed" /\ UNCHANGED <<rows, st>>
        /\ stream \in Seq(Sentence) /\ st # "failed"
    BY <1>1, <1>10 DEF DeviceClose, TypeOK
  <2>3. Wire(stream, "up") /\ RowsOf(stream, "up")
    BY <1>1, <2>2 DEF OneReply
  <2>4. /\ Wire(stream', "closed")
        /\ stream' # <<>> => stream # <<>> /\ stream'[1] = stream[1]
    BY <2>1, <2>2, <2>3, WireCut
  <2>5. RowsOf(stream, link)'
    BY <2>2, <2>3, <2>4 DEF RowsOf
  <2> QED
    BY <1>2, <2>2, <2>4, <2>5 DEF OneReply
<1>11. CASE Terminated
  <2>1. UNCHANGED <<stream, rows, link, st>>
    BY <1>11 DEF Terminated, vars
  <2> QED
    BY <1>1, <1>2, <2>1 DEF OneReply, RowsOf, Wire
<1> QED
  BY <1>4, <1>5, <1>6, <1>7, <1>8, <1>9, <1>10, <1>11 DEF Next, AgentStep

\* In and out of step, a call never collects rows of two replies, until a sentence is
\* read from inside a word.
THEOREM RowsNeverMix == Spec => []RowsOfOneReply
<1>1. Init => CInv
  <2> SUFFICES ASSUME Init PROVE CInv
    OBVIOUS
  <2>1. stream = <<>> /\ rows = {} /\ sync = "clean"
    BY DEF Init
  <2>2. Wire(<<>>, link)
    BY DEF Wire
  <2> QED
    BY <2>1, <2>2, InitBehind DEF CInv, OneReply, RowsOf, RowsOfOneReply
<1>2. CInv => RowsOfOneReply \/ sync = "lost"
  BY DEF CInv
<1>3. CInv => RowsOfOneReply
  BY <1>2 DEF RowsOfOneReply
<1> QED
  BY <1>1, <1>3, OneReplyStep, PTL DEF Spec

\* An unhandled call never gets past a connection that is closed and empty.
THEOREM DeadLinkIsFatal == Spec => DeadLinkFailsRawCalls
<1>1. ASSUME [Next]_vars, mode = "api", link = "closed", stream = <<>>, pos' # pos
      PROVE  Guard(cmd) # "none"
  <2>1. ReadEnd
    BY <1>1 DEF Next, AgentStep, vars, Terminated, DeviceAnswer, DeviceClose, Send,
       TalkSentence, MyapiSentence, ApiCallSentence, Reading, ReadBytesWord, LoseFraming,
       ReadGarbled, RestAnswer, RestRaise, RestRefused
  <2> QED
    BY <1>1, <2>1 DEF ReadEnd, Raise, Fail
<1> QED
  BY <1>1, PTL DEF Spec, DeadLinkFailsRawCalls
=============================================================================
