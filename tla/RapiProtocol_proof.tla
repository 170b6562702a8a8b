------------------------- MODULE RapiProtocol_proof -------------------------
(***************************************************************************)
(* What TLAPS proves of RapiProtocol, for every set of commands and forms,  *)
(* any noise and length of the buffer, and any number of frames.            *)
(***************************************************************************)
EXTENDS RapiProtocol, SequenceTheorems, TLAPS

Words == Texts \union {"", "none"}
Kinds == {"soc", "eoc", "mark", "text", "id", "sum", "bad"}
Symbols == [kind : Kinds, text : Words, n : Nat]
Frames == [text : Texts, id : BOOLEAN, sum : BOOLEAN, intact : BOOLEAN]
Answers == [id : Nat, text : Words, verified : BOOLEAN]

LineTypeOK ==
    /\ buffer \in Seq(Symbols)
    /\ wire \in Seq(Symbols)
    /\ frames \in Seq(Frames)
    /\ answers \in Seq(Answers)

IsSum(s) == s.kind = "sum"
NoSum(s) == \A i \in DOMAIN s : ~IsSum(s[i])
OneSum(s) == \A i, j \in DOMAIN s : IsSum(s[i]) /\ IsSum(s[j]) => i = j

\* Every symbol belongs to a frame that was sent.
WireTraced == \A i \in DOMAIN wire : wire[i].n \in 1 .. Len(frames)
BufferTraced == \A i \in DOMAIN buffer : buffer[i].n \in 1 .. Len(frames)

\* The checksum on the line is that of a later frame than those in the buffer.
SumsInOrder ==
    \A i \in DOMAIN buffer, j \in DOMAIN wire :
      IsSum(buffer[i]) /\ IsSum(wire[j]) => buffer[i].n < wire[j].n

Traced == WireTraced /\ BufferTraced /\ OneSum(wire) /\ SumsInOrder

\* A verified answer names the frame it answers ...
Answered ==
    \A a \in DOMAIN answers : answers[a].verified =>
      /\ answers[a].id \in 1 .. Len(frames)
      /\ answers[a].text = frames[answers[a].id].text

\* ... a later one than those before, ...
AnswersInOrder ==
    \A a, b \in DOMAIN answers :
      b < a /\ answers[a].verified /\ answers[b].verified => answers[b].id < answers[a].id

\* ... and the checksums still to be compared belong to later frames.
SumsUnanswered ==
    \A a \in DOMAIN answers : answers[a].verified =>
      /\ \A i \in DOMAIN buffer : IsSum(buffer[i]) => answers[a].id < buffer[i].n
      /\ \A j \in DOMAIN wire : IsSum(wire[j]) => answers[a].id < wire[j].n

LineInv == LineTypeOK /\ Traced /\ Answered /\ AnswersInOrder /\ SumsUnanswered

-----------------------------------------------------------------------------
(* Frames.                                                                  *)

LEMMA SymbolType ==
  ASSUME NEW k \in Kinds, NEW t \in Words, NEW n \in Nat
  PROVE  /\ Symbol(k, t, n) \in Symbols
         /\ Symbol(k, t, n).kind = k
         /\ Symbol(k, t, n).n = n
  BY DEF Symbol, Symbols

LEMMA SymbolIs ==
  ASSUME NEW k \in Kinds, k # "sum", NEW t \in Words, NEW n \in Nat
  PROVE  /\ Symbol(k, t, n) \in Symbols /\ ~IsSum(Symbol(k, t, n)) /\ Symbol(k, t, n).n = n
  BY DEF Symbol, Symbols, IsSum

\* All symbols of s belong to frame n.
OfFrame(s, n) == s \in Seq(Symbols) /\ \A i \in DOMAIN s : s[i].n = n

LEMMA FrameConcat ==
  ASSUME NEW n \in Nat, NEW s, NEW t, OfFrame(s, n), OfFrame(t, n)
  PROVE  /\ OfFrame(s \o t, n)
         /\ NoSum(s) /\ NoSum(t) => NoSum(s \o t)
         /\ NoSum(s) /\ OneSum(t) => OneSum(s \o t)
         /\ OneSum(s) /\ NoSum(t) => OneSum(s \o t)
  <1>1. s \in Seq(Symbols) /\ t \in Seq(Symbols)
    BY DEF OfFrame
  <1>2. /\ s \o t \in Seq(Symbols)
        /\ Len(s \o t) = Len(s) + Len(t)
        /\ \A i \in 1 .. Len(s) + Len(t) :
             (s \o t)[i] = IF i <= Len(s) THEN s[i] ELSE t[i - Len(s)]
    BY <1>1, ConcatProperties
  <1>3. /\ Len(s) \in Nat /\ Len(t) \in Nat
        /\ DOMAIN s = 1 .. Len(s) /\ DOMAIN t = 1 .. Len(t)
        /\ DOMAIN (s \o t) = 1 .. Len(s) + Len(t)
    BY <1>1, <1>2, LenProperties
  <1> DEFINE u == s \o t
  <1>4. \A i \in DOMAIN u : \/ i \in DOMAIN s /\ u[i] = s[i]
                            \/ i - Len(s) \in DOMAIN t /\ i > Len(s) /\ u[i] = t[i - Len(s)]
    BY <1>2, <1>3
  <1>5. u \in Seq(Symbols) /\ DOMAIN u \subseteq Int /\ DOMAIN s = 1 .. Len(s)
    BY <1>2, <1>3
  <1> HIDE DEF u
  <1>6. OfFrame(u, n)
    BY <1>4, <1>5 DEF OfFrame
  <1>7. NoSum(s) /\ NoSum(t) => NoSum(u)
    BY <1>4 DEF NoSum
  <1>8. NoSum(s) /\ OneSum(t) => OneSum(u)
    BY <1>3, <1>4, <1>5 DEF NoSum, OneSum
  <1>9. OneSum(s) /\ NoSum(t) => OneSum(u)
    BY <1>3, <1>4, <1>5 DEF NoSum, OneSum
  <1>10. QED
    BY <1>6, <1>7, <1>8, <1>9 DEF u

LEMMA SingleSymbol ==
  ASSUME NEW n \in Nat, NEW k \in Kinds, NEW t \in Words
  PROVE  /\ OfFrame(<<Symbol(k, t, n)>>, n)
         /\ k # "sum" => NoSum(<<Symbol(k, t, n)>>)
         /\ OneSum(<<Symbol(k, t, n)>>)
  BY SymbolType DEF OfFrame, NoSum, OneSum, IsSum

LEMMA TwoSymbols ==
  ASSUME NEW n \in Nat, NEW a \in Symbols, NEW b \in Symbols, a.n = n, b.n = n, ~IsSum(a)
  PROVE  OfFrame(<<a, b>>, n) /\ OneSum(<<a, b>>)
  <1> DEFINE u == <<a, b>>
  <1>1. u \in Seq(Symbols) /\ DOMAIN u = {1, 2} /\ u[1] = a /\ u[2] = b
    OBVIOUS
  <1> HIDE DEF u
  <1>2. OfFrame(u, n) /\ OneSum(u)
    BY <1>1 DEF OfFrame, OneSum
  <1>3. QED
    BY <1>2 DEF u

LEMMA FrameParts ==
  ASSUME NEW f \in Frames, NEW n \in Nat
  PROVE  OfFrame(FrameOf(f, n), n) /\ OneSum(FrameOf(f, n))
  <1>1. f.text \in Words /\ "" \in Words
    BY DEF Frames, Words
  <1>2. OfFrame(<<>>, n) /\ NoSum(<<>>) /\ OneSum(<<>>)
    BY DEF OfFrame, NoSum, OneSum
  <1> DEFINE soc == <<Symbol("soc", "", n)>>
             text == <<Symbol("text", f.text, n)>>
             id == IF f.id THEN <<Symbol("id", "", n)>> ELSE <<>>
             sum == IF f.sum THEN <<Symbol("mark", "", n), Symbol("sum", "", n)>> ELSE <<>>
             eoc == <<Symbol("eoc", "", n)>>
  <1>3. /\ OfFrame(soc, n) /\ NoSum(soc)
        /\ OfFrame(text, n) /\ NoSum(text)
        /\ OfFrame(id, n) /\ NoSum(id)
        /\ OfFrame(eoc, n) /\ NoSum(eoc)
    BY <1>1, <1>2, SingleSymbol DEF Kinds
  <1>4. OfFrame(sum, n) /\ OneSum(sum)
    <2>1. Symbol("mark", "", n) \in Symbols /\ Symbol("sum", "", n) \in Symbols
      BY <1>1, SymbolType DEF Kinds
    <2>2. /\ Symbol("mark", "", n).n = n /\ Symbol("sum", "", n).n = n
          /\ ~IsSum(Symbol("mark", "", n))
      BY DEF Symbol, IsSum
    <2>3. /\ OfFrame(<<Symbol("mark", "", n), Symbol("sum", "", n)>>, n)
          /\ OneSum(<<Symbol("mark", "", n), Symbol("sum", "", n)>>)
      BY <2>1, <2>2, TwoSymbols
    <2>4. QED
      BY <2>3, <1>2
  <1>5. FrameOf(f, n) = ((soc \o (text \o id)) \o sum) \o eoc
    BY DEF FrameOf, Content
  <1> HIDE DEF soc, text, id, sum, eoc
  <1>6. OfFrame(text \o id, n) /\ NoSum(text \o id)
    BY <1>3, FrameConcat
  <1>7. OfFrame(soc \o (text \o id), n) /\ NoSum(soc \o (text \o id))
    BY <1>3, <1>6, FrameConcat
  <1>8. OfFrame((soc \o (text \o id)) \o sum, n) /\ OneSum((soc \o (text \o id)) \o sum)
    BY <1>4, <1>7, FrameConcat
  <1>9. QED
    BY <1>3, <1>5, <1>8, FrameConcat

-----------------------------------------------------------------------------
(* A checksum that agrees names the frame.                                  *)

LEMMA OneOrTwo ==
  ASSUME NEW S, NEW a \in S, NEW b \in S
  PROVE  /\ <<a>> \in Seq(S) /\ <<a>> \o <<>> = <<a>>
         /\ <<a>> \o <<b>> \in Seq(S) /\ Len(<<a>> \o <<b>>) = 2
         /\ (<<a>> \o <<b>>)[1] = a /\ (<<a>> \o <<b>>)[2] = b
  <1>1. <<a>> \in Seq(S) /\ <<b>> \in Seq(S)
    OBVIOUS
  <1>2. <<a>> \o <<>> = <<a>>
    BY <1>1, ConcatEmptySeq
  <1>3. /\ <<a>> \o <<b>> \in Seq(S)
        /\ Len(<<a>> \o <<b>>) = Len(<<a>>) + Len(<<b>>)
        /\ \A i \in 1 .. Len(<<a>>) + Len(<<b>>) :
             (<<a>> \o <<b>>)[i] = IF i <= Len(<<a>>) THEN <<a>>[i] ELSE <<b>>[i - Len(<<a>>)]
    BY <1>1, ConcatProperties
  <1>4. Len(<<a>>) = 1 /\ Len(<<b>>) = 1 /\ <<a>>[1] = a /\ <<b>>[1] = b
    OBVIOUS
  <1>5. QED
    BY <1>1, <1>2, <1>3, <1>4

LEMMA ContentParts ==
  ASSUME NEW f \in Frames, NEW n \in Nat
  PROVE  /\ Len(Content(f, n)) \in {1, 2}
         /\ Content(f, n)[1] = Symbol("text", f.text, n)
         /\ Len(Content(f, n)) = 2 => Content(f, n)[2].kind = "id" /\ Content(f, n)[2].n = n
  <1> DEFINE text == Symbol("text", f.text, n)
             id == Symbol("id", "", n)
  <1>1. text \in Symbols /\ id \in Symbols
    BY SymbolType DEF Frames, Words, Kinds
  <1>2. Content(f, n) = <<text>> \o (IF f.id THEN <<id>> ELSE <<>>)
    BY DEF Content
  <1>3. id.kind = "id" /\ id.n = n
    BY DEF Symbol
  <1> HIDE DEF text, id
  <1>4. CASE f.id
    <2>1. Content(f, n) = <<text>> \o <<id>>
      BY <1>2, <1>4
    <2>2. Len(<<text>> \o <<id>>) = 2 /\ (<<text>> \o <<id>>)[1] = text /\ (<<text>> \o <<id>>)[2] = id
      BY <1>1, OneOrTwo
    <2>3. QED
      BY <2>1, <2>2, <1>3 DEF text
  <1>5. CASE ~f.id
    <2>1. Content(f, n) = <<text>>
      BY <1>1, <1>2, <1>5, OneOrTwo
    <2>2. Len(<<text>>) = 1 /\ <<text>>[1] = text
      OBVIOUS
    <2>3. QED
      BY <2>1, <2>2 DEF text
  <1>6. QED
    BY <1>4, <1>5

LEMMA MarkFound ==
  ASSUME NEW text \in Seq(Symbols), Marked(text)
  PROVE  Mark(text) \in 1 .. Len(text)
  <1>1. \E m \in DOMAIN text : IsMark(text, m)
    BY DEF Marked
  <1>2. Mark(text) \in DOMAIN text
    BY <1>1 DEF Mark
  <1>3. QED
    BY <1>2, LenProperties

LEMMA ArgsType ==
  ASSUME NEW text \in Seq(Symbols)
  PROVE  Args(text) \in Seq(Symbols)
  <1>1. CASE Marked(text)
    <2>1. \A i \in 1 .. Mark(text) - 1 : text[i] \in Symbols
      BY <1>1, MarkFound, LenProperties
    <2>2. QED
      BY <1>1, <2>1, MarkFound, SubSeqProperties DEF Args
  <1>2. QED
    BY <1>1 DEF Args

LEMMA ContentAgrees ==
  ASSUME NEW f \in Frames, NEW n \in Nat, NEW args \in Seq(Symbols),
         SameContent(args, Content(f, n))
  PROVE  /\ args # <<>> /\ Len(args) \in {1, 2}
         /\ args[1].kind = "text" /\ args[1].text = f.text
         /\ Len(args) = 2 => args[2].kind = "id" /\ args[2].n = n
  <1> DEFINE content == Content(f, n)
  <1>1. Len(content) \in {1, 2} /\ content[1] = Symbol("text", f.text, n)
    BY ContentParts
  <1>2. Len(content) = 2 => content[2].kind = "id" /\ content[2].n = n
    BY ContentParts
  <1> HIDE DEF content
  <1>3. Len(args) = Len(content) /\ \A i \in DOMAIN args : SameSymbol(args[i], content[i])
    BY DEF SameContent, content
  <1>4. DOMAIN args = 1 .. Len(args)
    BY LenProperties
  <1>5. Len(args) \in {1, 2}
    BY <1>1, <1>3
  <1>6. SameSymbol(args[1], content[1])
    BY <1>3, <1>4, <1>5
  <1>7. args[1].kind = "text" /\ args[1].text = f.text
    BY <1>1, <1>6 DEF SameSymbol, Symbol
  <1>8. Len(args) = 2 => args[2].kind = "id" /\ args[2].n = n
    <2>1. Len(args) = 2 => SameSymbol(args[2], content[2])
      BY <1>3, <1>4
    <2>2. HAVE Len(args) = 2
    <2>3. content[2].kind = "id" /\ content[2].n = n
      BY <2>2, <1>2, <1>3
    <2>4. QED
      BY <2>1, <2>2, <2>3 DEF SameSymbol
  <1>9. args # <<>>
    BY <1>5, EmptySeq
  <1>10. QED
    BY <1>5, <1>7, <1>8, <1>9

LEMMA VerifiedNames ==
  ASSUME NEW text \in Seq(Symbols), LineTypeOK, Verified(text),
         \A i \in DOMAIN text : text[i].n \in 1 .. Len(frames),
         NEW t \in TextsOf(Args(text)), NEW q \in SequenceIds(Args(text)), q # 0
  PROVE  \E i \in DOMAIN text : IsSum(text[i]) /\ text[i].n = q /\ t = frames[q].text
  <1> DEFINE i == Mark(text) + 1
             n == text[i].n
             args == Args(text)
  <1>1. i \in DOMAIN text /\ IsSum(text[i]) /\ SameContent(args, Content(frames[n], n))
    BY MarkFound, LenProperties DEF Verified, IsSum
  <1>2. n \in Nat /\ frames[n] \in Frames
    BY <1>1, LenProperties DEF LineTypeOK
  <1>3. args \in Seq(Symbols)
    BY ArgsType
  <1> HIDE DEF i, n, args
  <1>4. Len(args) \in {1, 2}
    BY <1>1, <1>2, <1>3, ContentAgrees
  <1>5. args[1].kind = "text" /\ args[1].text = frames[n].text
    BY <1>1, <1>2, <1>3, ContentAgrees
  <1>6. Len(args) = 2 => args[2].kind = "id" /\ args[2].n = n
    BY <1>1, <1>2, <1>3, ContentAgrees
  <1>9. args # <<>>
    BY <1>1, <1>2, <1>3, ContentAgrees
  <1>10. t = frames[n].text
    BY <1>5, <1>9 DEF TextsOf, args
  <1>11. q = n
    <2>1. Len(args) # 1
      BY <1>9 DEF SequenceIds, IdPlaces, args
    <2>2. IdPlaces(args) = {2}
      BY <2>1, <1>4, <1>6 DEF IdPlaces
    <2>3. LastId(args) = {2}
      BY <2>2 DEF LastId
    <2>4. QED
      BY <2>1, <2>2, <2>3, <1>4, <1>6, <1>9 DEF SequenceIds, args
  <1>12. QED
    BY <1>1, <1>10, <1>11 DEF n

-----------------------------------------------------------------------------
(* The invariant.                                                           *)

\* The next symbol leaves the wire.
LEMMA HeadLeaves ==
  ASSUME LineTypeOK, WireTraced, OneSum(wire), wire # <<>>, wire' = Tail(wire), frames' = frames
  PROVE  /\ Head(wire) \in Symbols /\ Head(wire).n \in 1 .. Len(frames) /\ 1 \in DOMAIN wire
         /\ wire[1] = Head(wire) /\ wire' \in Seq(Symbols)
         /\ \A j \in DOMAIN wire' : \E k \in DOMAIN wire : wire'[j] = wire[k]
         /\ \A j \in DOMAIN wire' : IsSum(wire'[j]) => ~IsSum(Head(wire))
         /\ WireTraced' /\ OneSum(wire')
  <1>1. wire \in Seq(Symbols) /\ Len(wire) \in Nat /\ DOMAIN wire = 1 .. Len(wire)
    BY LenProperties DEF LineTypeOK
  <1>2. Len(wire) # 0
    BY <1>1, EmptySeq
  <1>3. wire[1] = Head(wire) /\ Head(wire) \in Symbols /\ 1 \in DOMAIN wire
    BY <1>1, <1>2, HeadTailProperties
  <1>4. /\ wire' \in Seq(Symbols) /\ DOMAIN wire' = 1 .. Len(wire) - 1
        /\ \A j \in 1 .. Len(wire) - 1 : wire'[j] = wire[j + 1]
    BY <1>1, <1>2, HeadTailProperties, LenProperties
  <1>5. \A j \in DOMAIN wire' : j + 1 \in DOMAIN wire /\ j + 1 # 1 /\ wire'[j] = wire[j + 1]
    BY <1>1, <1>4
  <1>6. Head(wire).n \in 1 .. Len(frames)
    BY <1>3 DEF WireTraced
  <1>7. \A j \in DOMAIN wire' : IsSum(wire'[j]) => ~IsSum(Head(wire))
    BY <1>3, <1>5 DEF OneSum
  <1>8. WireTraced'
    BY <1>5 DEF WireTraced
  <1>9. OneSum(wire')
    BY <1>1, <1>4, <1>5 DEF OneSum
  <1>10. QED
    BY <1>3, <1>4, <1>5, <1>6, <1>7, <1>8, <1>9

\* Wherever the symbol goes, the buffer holds it and what it held before.
LEMMA SymbolKept ==
  ASSUME LineInv, wire # <<>>, wire' = Tail(wire), frames' = frames, answers' = answers,
         buffer' \in Seq(Symbols),
         \A i \in DOMAIN buffer' : \/ buffer'[i] = Head(wire)
                                   \/ \E k \in DOMAIN buffer : buffer'[i] = buffer[k]
  PROVE  LineInv'
  <1> USE DEF LineInv, Traced
  <1>1. /\ Head(wire).n \in 1 .. Len(frames)
        /\ 1 \in DOMAIN wire /\ wire[1] = Head(wire) /\ wire' \in Seq(Symbols)
        /\ WireTraced' /\ OneSum(wire')
    BY HeadLeaves
  <1>2. \A j \in DOMAIN wire' : \E k \in DOMAIN wire : wire'[j] = wire[k]
    BY HeadLeaves
  <1>3. \A j \in DOMAIN wire' : IsSum(wire'[j]) => ~IsSum(Head(wire))
    BY HeadLeaves
  <1>4. LineTypeOK'
    BY <1>1 DEF LineTypeOK
  <1>5. BufferTraced'
    BY <1>1 DEF BufferTraced
  <1>6. SumsInOrder'
    BY <1>2, <1>3 DEF SumsInOrder
  <1>7. Answered' /\ AnswersInOrder'
    BY DEF Answered, AnswersInOrder
  <1>8. SumsUnanswered'
    BY <1>1, <1>2 DEF SumsUnanswered
  <1>9. QED
    BY <1>1, <1>4, <1>5, <1>6, <1>7, <1>8

\* An empty buffer holds no checksum.
LEMMA BufferCleared ==
  ASSUME LineInv, wire # <<>>, wire' = Tail(wire), frames' = frames, answers' = answers,
         buffer' = <<>>
  PROVE  LineInv'
  <1>1. buffer' \in Seq(Symbols) /\ DOMAIN buffer' = {}
    OBVIOUS
  <1>2. QED
    BY <1>1, SymbolKept

LEMMA TailOfBuffer ==
  ASSUME LineTypeOK, BufferTraced, buffer # <<>>
  PROVE  /\ Tail(buffer) \in Seq(Symbols)
         /\ \A i \in DOMAIN Tail(buffer) : Tail(buffer)[i].n \in 1 .. Len(frames)
         /\ \A i \in DOMAIN Tail(buffer) : \E k \in DOMAIN buffer : Tail(buffer)[i] = buffer[k]
  <1>1. buffer \in Seq(Symbols) /\ Len(buffer) \in Nat /\ DOMAIN buffer = 1 .. Len(buffer)
    BY LenProperties DEF LineTypeOK
  <1>2. Len(buffer) # 0
    BY <1>1, EmptySeq
  <1> DEFINE text == Tail(buffer)
  <1>3. /\ text \in Seq(Symbols) /\ DOMAIN text = 1 .. Len(buffer) - 1
        /\ \A i \in 1 .. Len(buffer) - 1 : text[i] = buffer[i + 1]
    BY <1>1, <1>2, HeadTailProperties, LenProperties
  <1> HIDE DEF text
  <1>4. \A i \in DOMAIN text : i + 1 \in DOMAIN buffer /\ text[i] = buffer[i + 1]
    BY <1>1, <1>3
  <1>5. \A i \in DOMAIN text : text[i].n \in 1 .. Len(frames)
    BY <1>4 DEF BufferTraced
  <1>6. QED
    BY <1>3, <1>4, <1>5 DEF text

-----------------------------------------------------------------------------
(* The steps.                                                               *)

LEMMA Sends ==
  ASSUME LineInv, ClientSends
  PROVE  LineInv'
  <1> USE DEF LineInv, Traced
  <1>1. PICK text \in Texts, form \in Forms :
          /\ frames' = Append(frames, [text |-> text, id |-> form[1], sum |-> form[2], intact |-> TRUE])
          /\ wire' = FrameOf([text |-> text, id |-> form[1], sum |-> form[2], intact |-> TRUE],
                             Len(frames) + 1)
    BY DEF ClientSends
  <1> DEFINE f == [text |-> text, id |-> form[1], sum |-> form[2], intact |-> TRUE]
             n == Len(frames) + 1
  <1>2. f \in Frames
    BY RapiAssumption DEF Frames
  <1>3. frames \in Seq(Frames) /\ Len(frames) \in Nat /\ n \in Nat
    BY LenProperties DEF LineTypeOK
  <1>4. frames' = Append(frames, f) /\ wire' = FrameOf(f, n)
    BY <1>1
  <1>5. buffer' = buffer /\ answers' = answers
    BY DEF ClientSends
  <1> HIDE DEF f, n
  <1>6. /\ frames' \in Seq(Frames) /\ Len(frames') = n
        /\ \A i \in 1 .. Len(frames) : frames'[i] = frames[i]
    BY <1>2, <1>3, <1>4, AppendProperties DEF n
  <1>7. wire' \in Seq(Symbols) /\ (\A j \in DOMAIN wire' : wire'[j].n = n) /\ OneSum(wire')
    BY <1>2, <1>3, <1>4, FrameParts DEF OfFrame
  <1>8. LineTypeOK'
    BY <1>5, <1>6, <1>7 DEF LineTypeOK
  <1>9. WireTraced' /\ BufferTraced'
    BY <1>3, <1>5, <1>6, <1>7 DEF WireTraced, BufferTraced, n
  <1>10. SumsInOrder'
    BY <1>3, <1>5, <1>7 DEF SumsInOrder, BufferTraced, n
  <1>11. Answered' /\ AnswersInOrder'
    BY <1>3, <1>5, <1>6 DEF Answered, AnswersInOrder, n
  <1>12. SumsUnanswered'
    BY <1>3, <1>5, <1>7 DEF Answered, SumsUnanswered, n
  <1>13. QED
    BY <1>7, <1>8, <1>9, <1>10, <1>11, <1>12

\* Damage marks the frame at the head of the line; what is left on the line, if anything,
\* is what was there, with no checksum more.
LEMMA DamagedLine ==
  ASSUME LineTypeOK, WireTraced, OneSum(wire), LineDamages
  PROVE  /\ Head(wire).n \in 1 .. Len(frames) /\ wire # <<>> /\ wire[1] = Head(wire)
         /\ frames' \in Seq(Frames) /\ Len(frames') = Len(frames)
         /\ \A i \in 1 .. Len(frames) : frames'[i].text = frames[i].text
         /\ ~frames'[Head(wire).n].intact
         /\ wire' \in Seq(Symbols)
         /\ \A j \in DOMAIN wire' : \E k \in DOMAIN wire :
              wire'[j].n = wire[k].n /\ (IsSum(wire'[j]) => IsSum(wire[k]))
         /\ OneSum(wire')
  <1>1. wire \in Seq(Symbols) /\ Len(wire) \in Nat /\ DOMAIN wire = 1 .. Len(wire)
    BY LenProperties DEF LineTypeOK
  <1>2. wire # <<>> /\ Len(wire) # 0
    BY <1>1, EmptySeq DEF LineDamages
  <1>3. wire[1] = Head(wire) /\ Head(wire) \in Symbols /\ Head(wire).n \in 1 .. Len(frames)
    BY <1>1, <1>2, HeadTailProperties DEF WireTraced
  <1>4. frames \in Seq(Frames) /\ DOMAIN frames = 1 .. Len(frames)
    BY LenProperties DEF LineTypeOK
  <1>5. frames' = [frames EXCEPT ![Head(wire).n].intact = FALSE]
    BY DEF LineDamages
  <1>6. /\ frames' \in Seq(Frames) /\ Len(frames') = Len(frames)
        /\ \A i \in 1 .. Len(frames) : frames'[i].text = frames[i].text
        /\ ~frames'[Head(wire).n].intact
    <2> DEFINE i == Head(wire).n
               e == [frames[i] EXCEPT !.intact = FALSE]
    <2>1. i \in 1 .. Len(frames) /\ frames[i] \in Frames
      BY <1>3, <1>4
    <2>2. e \in Frames /\ e.text = frames[i].text /\ ~e.intact
      BY <2>1 DEF Frames
    <2>3. frames' = [frames EXCEPT ![i] = e]
      BY <1>5
    <2> HIDE DEF e
    <2>4. /\ frames' \in Seq(Frames) /\ Len(frames') = Len(frames)
          /\ \A j \in 1 .. Len(frames) : frames'[j] = IF j = i THEN e ELSE frames[j]
      BY <1>4, <2>1, <2>2, <2>3, ExceptSeq
    <2>5. frames'[i] = e
      BY <2>1, <2>4
    <2>6. QED
      BY <2>2, <2>4, <2>5
  <1>7. /\ wire' \in Seq(Symbols)
        /\ \A j \in DOMAIN wire' : \E k \in DOMAIN wire :
             wire'[j].n = wire[k].n /\ (IsSum(wire'[j]) => IsSum(wire[k]))
        /\ OneSum(wire')
    <2>1. PICK k \in Noise : wire' = IF k = "lost" THEN Tail(wire)
                                     ELSE [wire EXCEPT ![1] = Symbol(k, "", wire[1].n)]
      BY DEF LineDamages
    <2>2. CASE k = "lost"
      <3>1. /\ wire' \in Seq(Symbols) /\ DOMAIN wire' = 1 .. Len(wire) - 1
            /\ \A j \in 1 .. Len(wire) - 1 : wire'[j] = wire[j + 1]
        BY <1>1, <1>2, <2>1, <2>2, HeadTailProperties, LenProperties
      <3>2. \A j \in DOMAIN wire' : j + 1 \in DOMAIN wire /\ wire'[j] = wire[j + 1]
        BY <1>1, <3>1
      <3>3. OneSum(wire')
        BY <1>1, <3>1, <3>2 DEF OneSum
      <3>4. QED
        BY <3>1, <3>2, <3>3
    <2>3. CASE k # "lost"
      <3>1. k \in Kinds /\ k # "sum"
        BY <2>3, RapiAssumption DEF Kinds
      <3> DEFINE e == Symbol(k, "", wire[1].n)
      <3>2. e \in Symbols /\ ~IsSum(e) /\ e.n = wire[1].n
        <4>1. wire[1].n \in Nat /\ "" \in Words
          BY <1>3 DEF Symbols, Words
        <4>2. QED
          BY <3>1, <4>1, SymbolIs
      <3>3. wire' = [wire EXCEPT ![1] = e]
        BY <2>1, <2>3
      <3> HIDE DEF e
      <3>4. 1 \in 1 .. Len(wire)
        BY <1>1, <1>2
      <3>5. /\ wire' \in Seq(Symbols) /\ DOMAIN wire' = DOMAIN wire /\ wire'[1] = e
            /\ \A j \in DOMAIN wire \ {1} : wire'[j] = wire[j]
        BY <1>1, <3>2, <3>3, <3>4, ExceptSeq, LenProperties
      <3>6. OneSum(wire')
        BY <3>2, <3>5 DEF OneSum
      <3>7. QED
        BY <3>2, <3>4, <3>5, <3>6, <1>1
    <2>4. QED
      BY <2>2, <2>3
  <1>8. QED
    BY <1>2, <1>3, <1>6, <1>7

LEMMA Damages ==
  ASSUME LineInv, LineDamages
  PROVE  LineInv'
  <1> USE DEF LineInv, Traced
  <1>1. buffer' = buffer /\ answers' = answers
    BY DEF LineDamages
  <1>2. /\ frames' \in Seq(Frames) /\ Len(frames') = Len(frames)
        /\ \A i \in 1 .. Len(frames) : frames'[i].text = frames[i].text
    BY DamagedLine
  <1>3. /\ wire' \in Seq(Symbols)
        /\ \A j \in DOMAIN wire' : \E k \in DOMAIN wire :
             wire'[j].n = wire[k].n /\ (IsSum(wire'[j]) => IsSum(wire[k]))
        /\ OneSum(wire')
    BY DamagedLine
  <1>4. LineTypeOK'
    BY <1>1, <1>2, <1>3 DEF LineTypeOK
  <1>5. WireTraced' /\ BufferTraced'
    BY <1>1, <1>2, <1>3 DEF WireTraced, BufferTraced
  <1>6. SumsInOrder'
    BY <1>1, <1>3 DEF SumsInOrder
  <1>7. Answered' /\ AnswersInOrder'
    BY <1>1, <1>2 DEF Answered, AnswersInOrder
  <1>8. SumsUnanswered'
    BY <1>1, <1>3 DEF SumsUnanswered
  <1>9. QED
    BY <1>3, <1>4, <1>5, <1>6, <1>7, <1>8

LEMMA Receives ==
  ASSUME LineInv, ReceiveSoc \/ ReceiveIgnored \/ ReceiveStored \/ ReceiveOverflow
  PROVE  LineInv'
  <1>1. wire # <<>> /\ wire' = Tail(wire) /\ frames' = frames /\ answers' = answers
    BY DEF ReceiveSoc, ReceiveIgnored, ReceiveStored, ReceiveOverflow, Arrives, Quiet
  <1>2. buffer \in Seq(Symbols) /\ Head(wire) \in Symbols
    BY <1>1, HeadLeaves DEF LineInv, Traced, LineTypeOK
  <1>3. CASE ReceiveSoc
    <2>1. buffer' = <<Head(wire)>>
      BY <1>3 DEF ReceiveSoc, StartsFrame
    <2> DEFINE c == Head(wire)
    <2> HIDE DEF c
    <2>2. <<c>> \in Seq(Symbols) /\ \A i \in DOMAIN <<c>> : <<c>>[i] = c
      BY <1>2 DEF c
    <2>3. QED
      BY <1>1, <2>1, <2>2, SymbolKept DEF c
  <1>4. CASE ReceiveIgnored
    BY <1>1, <1>2, <1>4, SymbolKept DEF ReceiveIgnored
  <1>5. CASE ReceiveStored
    <2>1. buffer' = Append(buffer, Head(wire))
      BY <1>5 DEF ReceiveStored
    <2>2. /\ buffer' \in Seq(Symbols) /\ Len(buffer') = Len(buffer) + 1
          /\ \A i \in 1 .. Len(buffer) : buffer'[i] = buffer[i]
          /\ buffer'[Len(buffer) + 1] = Head(wire)
      BY <1>2, <2>1, AppendProperties
    <2>3. /\ Len(buffer) \in Nat /\ DOMAIN buffer = 1 .. Len(buffer)
          /\ DOMAIN buffer' = 1 .. Len(buffer) + 1
      BY <1>2, <2>2, LenProperties
    <2>4. \A i \in DOMAIN buffer' : \/ buffer'[i] = Head(wire)
                                    \/ \E k \in DOMAIN buffer : buffer'[i] = buffer[k]
      BY <2>2, <2>3
    <2>5. QED
      BY <1>1, <2>2, <2>4, SymbolKept
  <1>6. CASE ReceiveOverflow
    BY <1>1, <1>6, BufferCleared DEF ReceiveOverflow, reset
  <1>7. QED
    BY <1>3, <1>4, <1>5, <1>6

LEMMA CommandType ==
  ASSUME NEW args \in Seq(Symbols), LineTypeOK,
         NEW t \in TextsOf(args), NEW q \in SequenceIds(args)
  PROVE  t \in Words /\ q \in Nat
  <1>1. /\ Len(args) \in Nat /\ DOMAIN args = 1 .. Len(args)
        /\ \A i \in 1 .. Len(args) : args[i] \in Symbols
    BY LenProperties
  <1>2. \A i \in 1 .. Len(args) : args[i].n \in Nat /\ args[i].text \in Words
    BY <1>1 DEF Symbols
  <1>3. t \in Words
    <2>1. CASE args = <<>>
      BY <2>1 DEF TextsOf, Words
    <2>2. CASE args # <<>>
      <3>1. args[1].text \in Words
        BY <1>1, <1>2, <2>2, EmptySeq
      <3>2. QED
        BY <3>1 DEF TextsOf, Words
    <2>3. QED
      BY <2>1, <2>2
  <1>4. q \in Nat
    <2>1. Len(frames) \in Nat
      BY LenProperties DEF LineTypeOK
    <2>2. \A i \in LastId(args) : args[i].n \in Nat
      BY <1>1, <1>2 DEF LastId, IdPlaces
    <2>3. QED
      BY <2>1, <2>2 DEF SequenceIds
  <1>5. QED
    BY <1>3, <1>4

\* A frame is executed and answered: a verified answer has the id of the checksum.
LEMMA Executes ==
  ASSUME LineInv, ReceiveEoc, ProcessCmd(Tail(buffer))
  PROVE  LineInv'
  <1> DEFINE text == Tail(buffer)
  <1>1. wire # <<>> /\ wire' = Tail(wire) /\ frames' = frames /\ buffer # <<>>
    BY DEF ReceiveEoc, Arrives, Collecting
  <1>2. PICK t \in TextsOf(Args(text)), q \in SequenceIds(Args(text)) :
          /\ buffer' = <<>>
          /\ answers' = IF q # 0 /\ t # "none"
                        THEN Append(answers, [id |-> q, text |-> t, verified |-> Verified(text)])
                        ELSE answers
    BY DEF ProcessCmd, Reset, reset
  <1>3. /\ text \in Seq(Symbols)
        /\ \A i \in DOMAIN text : text[i].n \in 1 .. Len(frames)
        /\ \A i \in DOMAIN text : \E k \in DOMAIN buffer : text[i] = buffer[k]
    BY <1>1, TailOfBuffer DEF LineInv, Traced
  <1> HIDE DEF text
  <1>4. CASE ~(q # 0 /\ t # "none")
    <2>1. answers' = answers
      BY <1>2, <1>4
    <2>2. QED
      BY <1>1, <1>2, <2>1, BufferCleared
  <1>5. CASE q # 0 /\ t # "none"
    <2> DEFINE e == [id |-> q, text |-> t, verified |-> Verified(text)]
               last == Len(answers) + 1
    <2>1. e \in Answers
      <3>1. t \in Words /\ q \in Nat
        BY <1>3, ArgsType, CommandType DEF LineInv
      <3>2. Verified(text) \in BOOLEAN
        BY DEF Verified
      <3>3. QED
        BY <3>1, <3>2 DEF Answers
    <2>2. e.verified => /\ q \in 1 .. Len(frames) /\ t = frames[q].text
                        /\ \E k \in DOMAIN buffer : IsSum(buffer[k]) /\ buffer[k].n = q
      <3>1. HAVE Verified(text)
      <3>2. PICK i \in DOMAIN text : IsSum(text[i]) /\ text[i].n = q /\ t = frames[q].text
        BY <1>3, <1>5, <3>1, VerifiedNames DEF LineInv
      <3>3. QED
        BY <1>3, <3>2
    <2>3. answers' = Append(answers, e) /\ e.id = q /\ e.text = t
      BY <1>2, <1>5
    <2> HIDE DEF e
    <2>4. answers \in Seq(Answers) /\ Len(answers) \in Nat /\ DOMAIN answers = 1 .. Len(answers)
      BY LenProperties DEF LineInv, LineTypeOK
    <2>5. /\ answers' \in Seq(Answers) /\ DOMAIN answers' = 1 .. last
          /\ answers'[last] = e /\ \A a \in 1 .. Len(answers) : answers'[a] = answers[a]
      BY <2>1, <2>3, <2>4, AppendProperties, LenProperties
    <2> HIDE DEF last
    <2>6. \A a \in DOMAIN answers' : \/ a = last /\ answers'[a] = e
                                     \/ a \in DOMAIN answers /\ a < last /\ answers'[a] = answers[a]
      BY <2>4, <2>5 DEF last
    <2>7. /\ wire' \in Seq(Symbols) /\ WireTraced' /\ OneSum(wire')
          /\ \A j \in DOMAIN wire' : \E k \in DOMAIN wire : wire'[j] = wire[k]
      BY <1>1, HeadLeaves DEF LineInv, Traced
    <2>8. buffer' \in Seq(Symbols) /\ DOMAIN buffer' = {}
      BY <1>2
    <2>9. LineTypeOK'
      BY <1>1, <2>5, <2>7, <2>8 DEF LineInv, LineTypeOK
    <2>10. BufferTraced' /\ SumsInOrder'
      BY <2>8 DEF BufferTraced, SumsInOrder
    <2>11. Answered'
      BY <1>1, <2>2, <2>3, <2>6 DEF LineInv, Answered
    <2>12. AnswersInOrder'
      <3>1. \A b \in DOMAIN answers : e.verified /\ answers[b].verified => answers[b].id < q
        BY <2>2 DEF LineInv, SumsUnanswered
      <3>2. last \in Nat /\ \A a \in DOMAIN answers : a \in Nat /\ a < last
        BY <2>4 DEF last
      <3>3. QED
        BY <2>3, <2>6, <3>1, <3>2 DEF LineInv, AnswersInOrder
    <2>13. SumsUnanswered'
      <3>1. \A j \in DOMAIN wire : e.verified /\ IsSum(wire[j]) => q < wire[j].n
        BY <2>2 DEF LineInv, Traced, SumsInOrder
      <3>2. \A a \in DOMAIN answers, j \in DOMAIN wire :
              answers[a].verified /\ IsSum(wire[j]) => answers[a].id < wire[j].n
        BY DEF LineInv, SumsUnanswered
      <3>3. \A a \in DOMAIN answers', j \in DOMAIN wire :
              answers'[a].verified /\ IsSum(wire[j]) => answers'[a].id < wire[j].n
        BY <2>3, <2>6, <3>1, <3>2
      <3>4. QED
        BY <2>7, <2>8, <3>3 DEF SumsUnanswered
    <2>14. QED
      BY <2>7, <2>9, <2>10, <2>11, <2>12, <2>13 DEF LineInv, Traced
  <1>6. QED
    BY <1>4, <1>5

LEMMA LineStep ==
  ASSUME LineInv, [Next]_vars
  PROVE  LineInv'
  <1>1. CASE Station \/ UNCHANGED vars
    <2>1. UNCHANGED <<buffer, wire, frames, answers>>
      BY <1>1 DEF Station, line, vars
    <2>2. QED
      BY <2>1 DEF LineInv, LineTypeOK, Traced, WireTraced, BufferTraced, OneSum, SumsInOrder,
                  Answered, AnswersInOrder, SumsUnanswered
  <1>2. CASE ClientSends
    BY <1>2, Sends
  <1>3. CASE LineDamages
    BY <1>3, Damages
  <1>4. CASE ReceiveEoc
    <2>1. CASE ProcessCmd(Tail(buffer))
      BY <1>4, <2>1, Executes
    <2>2. CASE Reject
      BY <1>4, <2>2, BufferCleared DEF ReceiveEoc, Arrives, Reject, reset
    <2>3. QED
      BY <1>4, <2>1, <2>2 DEF ReceiveEoc
  <1>5. CASE ReceiveSoc \/ ReceiveIgnored \/ ReceiveStored \/ ReceiveOverflow
    BY <1>5, Receives
  <1>6. QED
    BY <1>1, <1>2, <1>3, <1>4, <1>5 DEF Next, Receive

LEMMA LineInit == Init => LineInv
  <1> SUFFICES ASSUME Init PROVE LineInv
    OBVIOUS
  <1>1. buffer = <<>> /\ wire = <<>> /\ frames = <<>> /\ answers = <<>>
    BY DEF Init
  <1>2. QED
    BY <1>1 DEF LineInv, LineTypeOK, Traced, WireTraced, BufferTraced, OneSum, SumsInOrder,
                Answered, AnswersInOrder, SumsUnanswered

LEMMA LineAlways == Spec => []LineInv
  BY LineInit, LineStep, PTL DEF Spec

-----------------------------------------------------------------------------
(* The theorems.                                                            *)

\* However the line loses and alters symbols, an answer to a frame whose checksum was
\* verified names that frame and what it asked for, and no frame is executed twice on
\* the word of its checksum or after a later one.
THEOREM AnswerIsTheFrames == Spec => []AnswersMatch
  <1>1. LineInv => AnswersMatch
    <2> SUFFICES ASSUME LineInv PROVE AnswersMatch
      OBVIOUS
    <2>1. answers \in Seq(Answers) /\ DOMAIN answers = 1 .. Len(answers) /\ Len(answers) \in Nat
      BY LenProperties DEF LineInv, LineTypeOK
    <2>2. \A i \in DOMAIN answers : \A j \in 1 .. i - 1 : j \in DOMAIN answers /\ j < i
      BY <2>1
    <2>3. QED
      BY <2>2 DEF LineInv, Answered, AnswersInOrder, AnswersMatch
  <1>2. QED
    BY <1>1, LineAlways, PTL

\* Whoever changes the state, the client knows it as soon as the pilot confirms it: every
\* path that can leave the station in a confirmed state notifies, or did not change it.
THEOREM ClientIsTold == Spec => []ClientKnowsState
  <1>1. Init => ClientKnowsState
    BY DEF Init, ClientKnowsState, Consistent
  <1>2. ASSUME ClientKnowsState, [Next]_vars PROVE ClientKnowsState'
    <2> USE DEF ClientKnowsState, Consistent
    <2>1. CASE RapiSendEvseState
      BY <2>1 DEF RapiSendEvseState
    <2>2. CASE UNCHANGED <<state, conn, told>>
      BY <1>2, <2>2
    <2>3. CASE ButtonWake
      BY <1>2, <2>3 DEF ButtonWake, Enable, Resting, NotTold
    <2>4. CASE UpdateAsleep
      <3>1. state = "SLEEPING" /\ state' = state /\ (RapiSendEvseState \/ NotTold)
        BY <2>4 DEF UpdateAsleep
      <3>2. told.state = state
        BY <1>2, <3>1
      <3>3. CASE NotTold
        BY <3>1, <3>2, <3>3 DEF NotTold
      <3>4. QED
        BY <2>1, <3>1, <3>3
    <2>5. CASE Station
      BY <2>1, <2>2, <2>3, <2>4, <2>5 DEF Station, ButtonSleep, UpdateAwake, VehicleActs
    <2>6. CASE ClientSends \/ LineDamages
      BY <2>2, <2>6 DEF ClientSends, LineDamages, station
    <2>7. CASE Receive
      <3>1. CASE ReceiveEoc
        BY <2>1, <2>2, <3>1 DEF ReceiveEoc, Arrives, ProcessCmd, Notify, Reject
      <3>2. CASE Quiet /\ UNCHANGED conn
        BY <2>2, <3>2 DEF Quiet
      <3>3. QED
        BY <2>7, <3>1, <3>2
           DEF Receive, ReceiveSoc, ReceiveIgnored, ReceiveStored, ReceiveOverflow, Arrives
    <2>8. CASE UNCHANGED vars
      BY <2>2, <2>8 DEF vars
    <2>9. QED
      BY <1>2, <2>5, <2>6, <2>7, <2>8 DEF Next
  <1>3. QED
    BY <1>1, <1>2, PTL DEF Spec

-----------------------------------------------------------------------------
(* An undamaged frame is heard.                                             *)

\* A frame, symbol by symbol.
Shape(s, f, n) ==
    /\ s \in Seq(Symbols)
    /\ Len(s) = 3 + (IF f.id THEN 1 ELSE 0) + (IF f.sum THEN 2 ELSE 0)
    /\ s[1].kind = "soc" /\ s[Len(s)].kind = "eoc"
    /\ \A i \in 2 .. Len(s) - 1 : s[i].kind \in {"text", "id", "mark", "sum"}
    /\ s[2] = Content(f, n)[1]
    /\ f.id => s[3] = Content(f, n)[2]
    /\ f.id /\ f.sum => s[4].kind = "mark" /\ s[5].kind = "sum" /\ s[5].n = n

\* What a frame says: its text and, if it has one, its id.
LEMMA ContentIs ==
  ASSUME NEW f \in Frames, NEW n \in Nat
  PROVE  /\ Content(f, n) \in Seq(Symbols)
         /\ Len(Content(f, n)) = IF f.id THEN 2 ELSE 1
         /\ Content(f, n)[1].kind = "text" /\ Content(f, n)[1].text = f.text
         /\ f.id => Content(f, n)[2].kind = "id" /\ Content(f, n)[2].n = n
  <1> DEFINE text == Symbol("text", f.text, n)
             id == Symbol("id", "", n)
  <1>1. text \in Symbols /\ id \in Symbols
    BY SymbolType DEF Frames, Words, Kinds
  <1>2. Content(f, n) = <<text>> \o (IF f.id THEN <<id>> ELSE <<>>)
    BY DEF Content
  <1>t. text.kind = "text" /\ text.text = f.text
    BY DEF Symbol
  <1>i. id.kind = "id" /\ id.n = n
    BY DEF Symbol
  <1> HIDE DEF text, id
  <1>3. CASE f.id
    <2>1. Content(f, n) = <<text>> \o <<id>>
      BY <1>2, <1>3
    <2>2. /\ <<text>> \o <<id>> \in Seq(Symbols) /\ Len(<<text>> \o <<id>>) = 2
          /\ (<<text>> \o <<id>>)[1] = text /\ (<<text>> \o <<id>>)[2] = id
      BY <1>1, OneOrTwo
    <2>3. QED
      BY <1>3, <1>t, <1>i, <2>1, <2>2
  <1>4. CASE ~f.id
    <2>1. Content(f, n) = <<text>>
      BY <1>1, <1>2, <1>4, OneOrTwo
    <2>2. Len(<<text>>) = 1 /\ <<text>>[1] = text /\ <<text>> \in Seq(Symbols)
      BY <1>1
    <2>3. QED
      BY <1>4, <1>t, <2>1, <2>2
  <1>5. QED
    BY <1>3, <1>4

\* Every frame has this shape.
LEMMA FrameShape ==
  ASSUME NEW f \in Frames, NEW n \in Nat
  PROVE  Shape(FrameOf(f, n), f, n)
  <1> DEFINE soc == Symbol("soc", "", n)
             content == Content(f, n)
             mark == Symbol("mark", "", n)
             sum == Symbol("sum", "", n)
             eoc == Symbol("eoc", "", n)
             check == IF f.sum THEN <<mark, sum>> ELSE <<>>
  <1>1. /\ soc \in Symbols /\ mark \in Symbols /\ sum \in Symbols /\ eoc \in Symbols
        /\ soc.kind = "soc" /\ mark.kind = "mark" /\ sum.kind = "sum" /\ eoc.kind = "eoc"
        /\ sum.n = n
    <2>1. "" \in Words /\ {"soc", "mark", "sum", "eoc"} \subseteq Kinds
      BY DEF Words, Kinds
    <2>2. \A k \in {"soc", "mark", "sum", "eoc"} :
            /\ Symbol(k, "", n) \in Symbols /\ Symbol(k, "", n).kind = k /\ Symbol(k, "", n).n = n
      BY <2>1 DEF Symbol, Symbols
    <2>3. QED
      BY <2>2
  <1>2. /\ content \in Seq(Symbols) /\ Len(content) = IF f.id THEN 2 ELSE 1
        /\ content[1].kind = "text" /\ (f.id => content[2].kind = "id")
    BY ContentIs
  <1>3. FrameOf(f, n) = ((<<soc>> \o content) \o check) \o <<eoc>>
    BY DEF FrameOf
  <1> HIDE DEF soc, content, mark, sum, eoc
  <1>5. /\ check \in Seq(Symbols) /\ Len(check) = IF f.sum THEN 2 ELSE 0
        /\ f.sum => check[1] = mark /\ check[2] = sum
    <2>1. <<mark, sum>> \in Seq(Symbols) /\ Len(<<mark, sum>>) = 2
          /\ <<mark, sum>>[1] = mark /\ <<mark, sum>>[2] = sum
      BY <1>1
    <2>2. <<>> \in Seq(Symbols) /\ Len(<<>>) = 0
      OBVIOUS
    <2>3. QED
      BY <2>1, <2>2
  <1>6. /\ <<soc>> \in Seq(Symbols) /\ Len(<<soc>>) = 1 /\ <<soc>>[1] = soc
        /\ <<eoc>> \in Seq(Symbols) /\ Len(<<eoc>>) = 1 /\ <<eoc>>[1] = eoc
    BY <1>1
  <1> HIDE DEF check
  <1> DEFINE k == IF f.id THEN 2 ELSE 1
             m == IF f.sum THEN 2 ELSE 0
             a == <<soc>> \o content
             b == a \o check
             c == b \o <<eoc>>
  <1>7. k \in {1, 2} /\ m \in {0, 2} /\ Len(content) = k /\ Len(check) = m
    BY <1>2, <1>5
  <1>8. /\ a \in Seq(Symbols) /\ Len(a) = 1 + k
        /\ \A i \in 1 .. 1 + k : a[i] = IF i <= 1 THEN soc ELSE content[i - 1]
    <2>1. /\ a \in Seq(Symbols) /\ Len(a) = Len(<<soc>>) + Len(content)
          /\ \A i \in 1 .. Len(<<soc>>) + Len(content) :
               a[i] = IF i <= Len(<<soc>>) THEN <<soc>>[i] ELSE content[i - Len(<<soc>>)]
      BY <1>2, <1>6, ConcatProperties
    <2> HIDE DEF a, k
    <2>2. QED
      BY <1>6, <1>7, <2>1
  <1> HIDE DEF a
  <1>9. /\ b \in Seq(Symbols) /\ Len(b) = 1 + k + m
        /\ \A i \in 1 .. 1 + k + m : b[i] = IF i <= 1 + k THEN a[i] ELSE check[i - (1 + k)]
    BY <1>5, <1>7, <1>8, ConcatProperties
  <1> HIDE DEF b
  <1>10. /\ c \in Seq(Symbols) /\ Len(c) = 2 + k + m
         /\ \A i \in 1 .. 2 + k + m : c[i] = IF i <= 1 + k + m THEN b[i] ELSE eoc
    BY <1>6, <1>7, <1>9, ConcatProperties
  <1> HIDE DEF c
  <1>11. /\ c[1] = soc /\ c[2] = content[1] /\ c[2 + k + m] = eoc
         /\ k = 2 => c[3] = content[2]
         /\ m = 2 => c[2 + k] = mark /\ c[3 + k] = sum
    <2>1. c[1] = soc /\ c[2 + k + m] = eoc
      BY <1>7, <1>8, <1>9, <1>10
    <2>2. c[2] = content[1] /\ (k = 2 => c[3] = content[2])
      BY <1>7, <1>8, <1>9, <1>10
    <2>3. ASSUME m = 2 PROVE c[2 + k] = mark /\ c[3 + k] = sum
      <3>1. f.sum
        BY <2>3
      <3>2. b[2 + k] = check[1] /\ b[3 + k] = check[2]
        BY <1>7, <1>9, <2>3
      <3>3. QED
        BY <1>5, <1>7, <1>10, <2>3, <3>1, <3>2
    <2>4. QED
      BY <2>1, <2>2, <2>3
  <1>12. \A i \in 2 .. 1 + k + m :
           i = 2 \/ (i = 3 /\ k = 2) \/ (i = 2 + k /\ m = 2) \/ (i = 3 + k /\ m = 2)
    BY <1>7
  <1>13. Shape(c, f, n)
    <2>1. \A i \in 2 .. Len(c) - 1 : c[i].kind \in {"text", "id", "mark", "sum"}
      <3> SUFFICES ASSUME NEW i \in 2 .. 1 + k + m
                   PROVE  c[i].kind \in {"text", "id", "mark", "sum"}
        BY <1>7, <1>10
      <3>1. CASE i = 2
        BY <1>2, <1>11, <3>1
      <3>2. CASE i = 3 /\ k = 2
        <4>1. f.id
          BY <3>2
        <4>2. QED
          BY <1>2, <1>11, <3>2, <4>1
      <3>3. CASE m = 2 /\ (i = 2 + k \/ i = 3 + k)
        BY <1>1, <1>11, <3>3
      <3>4. QED
        BY <1>12, <3>1, <3>2, <3>3
    <2>2. Len(c) = 3 + (IF f.id THEN 1 ELSE 0) + (IF f.sum THEN 2 ELSE 0)
      BY <1>10
    <2>3. c[1].kind = "soc" /\ c[Len(c)].kind = "eoc" /\ c[2] = content[1]
      BY <1>1, <1>2, <1>10, <1>11
    <2>4. f.id => c[3] = content[2]
      BY <1>2, <1>11
    <2>5. f.id /\ f.sum => c[4].kind = "mark" /\ c[5].kind = "sum" /\ c[5].n = n
      BY <1>1, <1>11
    <2>6. QED
      BY <1>10, <2>1, <2>2, <2>3, <2>4, <2>5 DEF Shape, content
  <1>14. QED
    BY <1>3, <1>13 DEF a, b, c

\* The frame the client sent last, and how much of it has arrived.
Sent == FrameOf(frames[Len(frames)], Len(frames))
Arrived == Len(Sent) - Len(wire)

\* As long as nothing of it was damaged, what has arrived is in the buffer and the rest is
\* on the line.
InTransit ==
    wire # <<>> =>
      /\ \A j \in DOMAIN wire : wire[j].n = Len(frames)
      /\ frames[Len(frames)].intact =>
           /\ Arrived >= 0 /\ \A i \in 1 .. Len(wire) : wire[i] = Sent[Arrived + i]
           /\ Arrived > 0 =>
                Len(buffer) = Arrived /\ \A i \in 1 .. Arrived : buffer[i] = Sent[i]

Transit == damages \in Nat /\ InTransit

\* What a line that is not empty says of the last frame.
LEMMA SentShape ==
  ASSUME LineTypeOK, WireTraced, wire # <<>>
  PROVE  /\ Len(frames) \in Nat \ {0} /\ frames[Len(frames)] \in Frames
         /\ Shape(Sent, frames[Len(frames)], Len(frames))
         /\ Len(Sent) \in 3 .. 6
         /\ wire \in Seq(Symbols) /\ Len(wire) \in Nat \ {0} /\ DOMAIN wire = 1 .. Len(wire)
         /\ Head(wire) = wire[1]
         /\ Tail(wire) \in Seq(Symbols) /\ Len(Tail(wire)) = Len(wire) - 1
         /\ DOMAIN Tail(wire) = 1 .. Len(wire) - 1
         /\ \A i \in 1 .. Len(wire) - 1 : Tail(wire)[i] = wire[i + 1]
  <1>1. /\ wire \in Seq(Symbols) /\ Len(wire) \in Nat \ {0} /\ DOMAIN wire = 1 .. Len(wire)
        /\ Head(wire) = wire[1] /\ Tail(wire) \in Seq(Symbols) /\ Len(Tail(wire)) = Len(wire) - 1
        /\ \A i \in 1 .. Len(wire) - 1 : Tail(wire)[i] = wire[i + 1]
    BY EmptySeq, LenProperties, HeadTailProperties DEF LineTypeOK
  <1>2. DOMAIN Tail(wire) = 1 .. Len(wire) - 1
    BY <1>1, LenProperties
  <1>3. Len(frames) \in Nat \ {0} /\ frames[Len(frames)] \in Frames
    <2>1. wire[1].n \in 1 .. Len(frames)
      BY <1>1 DEF WireTraced
    <2>2. Len(frames) \in Nat /\ \A i \in 1 .. Len(frames) : frames[i] \in Frames
      BY LenProperties DEF LineTypeOK
    <2>3. QED
      BY <2>1, <2>2
  <1>4. Shape(Sent, frames[Len(frames)], Len(frames))
    BY <1>3, FrameShape DEF Sent
  <1>5. Len(Sent) \in 3 .. 6
    <2> DEFINE a == IF frames[Len(frames)].id THEN 1 ELSE 0
               b == IF frames[Len(frames)].sum THEN 2 ELSE 0
    <2>1. Len(Sent) = 3 + a + b
      BY <1>4 DEF Shape
    <2>2. a \in {0, 1} /\ b \in {0, 2}
      OBVIOUS
    <2> HIDE DEF a, b
    <2>3. QED
      BY <2>1, <2>2
  <1>6. QED
    BY <1>1, <1>2, <1>3, <1>4, <1>5

\* Where in its frame an undamaged symbol stands.
LEMMA HeadPlace ==
  ASSUME LineTypeOK, WireTraced, InTransit, wire # <<>>, frames[Len(frames)].intact
  PROVE  /\ Arrived \in 0 .. Len(Sent) - 1 /\ Head(wire) = Sent[Arrived + 1]
         /\ Head(wire).kind = "soc" <=> Arrived = 0
         /\ Head(wire).kind = "eoc" <=> Arrived = Len(Sent) - 1
         /\ Head(wire).kind \in Others \union {"soc"}
         /\ Arrived > 0 => /\ Collecting /\ ~Full /\ Len(buffer) = Arrived
                           /\ \A i \in 1 .. Arrived : buffer[i] = Sent[i]
  <1> DEFINE l == Len(Sent)
  <1>1. /\ Shape(Sent, frames[Len(frames)], Len(frames)) /\ l \in 3 .. 6
        /\ Len(wire) \in Nat \ {0} /\ Head(wire) = wire[1]
    BY SentShape
  <1>2. Arrived >= 0 /\ Arrived = l - Len(wire) /\ wire[1] = Sent[Arrived + 1]
    <2>1. Arrived >= 0 /\ \A i \in 1 .. Len(wire) : wire[i] = Sent[Arrived + i]
      BY DEF InTransit
    <2>2. 1 \in 1 .. Len(wire)
      BY <1>1
    <2>3. QED
      BY <2>1, <2>2 DEF Arrived
  <1>3. /\ Sent[1].kind = "soc" /\ Sent[l].kind = "eoc"
        /\ \A i \in 2 .. l - 1 : Sent[i].kind \in {"text", "id", "mark", "sum"}
    BY <1>1 DEF Shape
  <1> HIDE DEF l
  <1>4. Arrived \in 0 .. l - 1
    BY <1>1, <1>2
  <1>5. \/ Arrived = 0 \/ Arrived = l - 1
        \/ Arrived + 1 \in 2 .. l - 1
    BY <1>1, <1>4
  <1>6. /\ Head(wire).kind = "soc" <=> Arrived = 0
        /\ Head(wire).kind = "eoc" <=> Arrived = l - 1
        /\ Head(wire).kind \in Others \union {"soc"}
    <2>1. CASE Arrived = 0
      BY <1>1, <1>2, <1>3, <2>1
    <2>2. CASE Arrived = l - 1
      BY <1>1, <1>2, <1>3, <2>2 DEF Others
    <2>3. CASE Arrived + 1 \in 2 .. l - 1
      <3>1. Head(wire).kind \in {"text", "id", "mark", "sum"}
        BY <1>1, <1>2, <1>3, <2>3
      <3>2. QED
        BY <1>1, <1>4, <2>3, <3>1 DEF Others
    <2>4. QED
      BY <1>5, <2>1, <2>2, <2>3
  <1>7. Arrived > 0 => Len(buffer) = Arrived /\ \A i \in 1 .. Arrived : buffer[i] = Sent[i]
    BY DEF InTransit
  <1>8. Arrived > 0 => Collecting /\ ~Full
    <2> HAVE Arrived > 0
    <2>1. Len(buffer) = Arrived /\ Arrived <= 5
      BY <1>1, <1>4, <1>7
    <2>2. BufLen \in Nat /\ BufLen >= 6
      BY RapiAssumption
    <2>3. buffer # <<>>
      BY <2>1, EmptySeq DEF LineTypeOK
    <2>4. QED
      BY <1>4, <2>1, <2>2, <2>3 DEF Collecting, Full
  <1>9. QED
    BY <1>1, <1>2, <1>4, <1>6, <1>7, <1>8 DEF l

\* A frame that is sent is on the line, all of it.
LEMMA TransitSends ==
  ASSUME LineInv, ClientSends, damages \in Nat
  PROVE  Transit'
  <1>1. PICK text \in Texts, form \in Forms :
          /\ frames' = Append(frames, [text |-> text, id |-> form[1], sum |-> form[2], intact |-> TRUE])
          /\ wire' = FrameOf([text |-> text, id |-> form[1], sum |-> form[2], intact |-> TRUE],
                             Len(frames) + 1)
    BY DEF ClientSends
  <1> DEFINE f == [text |-> text, id |-> form[1], sum |-> form[2], intact |-> TRUE]
             n == Len(frames) + 1
  <1>2. f \in Frames
    BY RapiAssumption DEF Frames
  <1>3. frames \in Seq(Frames) /\ Len(frames) \in Nat /\ n \in Nat
    BY LenProperties DEF LineInv, LineTypeOK
  <1>4. frames' = Append(frames, f) /\ wire' = FrameOf(f, n) /\ damages' = damages
    BY <1>1 DEF ClientSends
  <1> HIDE DEF f, n
  <1>5. Len(frames') = n /\ frames'[n] = f
    BY <1>2, <1>3, <1>4, AppendProperties DEF n
  <1>6. Sent' = wire'
    BY <1>4, <1>5 DEF Sent
  <1>7. wire' \in Seq(Symbols) /\ \A j \in DOMAIN wire' : wire'[j].n = n
    BY <1>2, <1>3, <1>4, FrameParts DEF OfFrame
  <1>8. Arrived' = 0
    <2>1. Len(wire') \in Nat
      BY <1>7, LenProperties
    <2>2. Arrived' = Len(Sent') - Len(wire')
      BY DEF Arrived
    <2>3. QED
      BY <1>6, <2>1, <2>2
  <1>9. \A i \in 1 .. Len(wire') : wire'[i] = (Sent')[Arrived' + i]
    BY <1>6, <1>8
  <1>10. QED
    BY <1>4, <1>5, <1>7, <1>8, <1>9 DEF Transit, InTransit

\* A damaged frame is none of which anything is promised.
LEMMA TransitDamages ==
  ASSUME LineInv, Transit, LineDamages
  PROVE  Transit'
  <1>1. /\ Head(wire).n \in 1 .. Len(frames) /\ Len(frames') = Len(frames)
        /\ wire # <<>> /\ wire[1] = Head(wire)
        /\ ~frames'[Head(wire).n].intact
        /\ \A j \in DOMAIN wire' : \E k \in DOMAIN wire : wire'[j].n = wire[k].n
    BY DamagedLine DEF LineInv, Traced
  <1>2. 1 \in DOMAIN wire
    BY <1>1, SentShape DEF LineInv, Traced
  <1>3. \A j \in DOMAIN wire : wire[j].n = Len(frames)
    BY <1>1 DEF Transit, InTransit
  <1>4. damages' \in Nat
    <2>1. damages \in Nat
      BY DEF Transit
    <2>2. damages' = damages + 1
      BY DEF LineDamages
    <2>3. QED
      BY <2>1, <2>2
  <1>5. ~frames'[Len(frames')].intact
    BY <1>1, <1>2, <1>3
  <1>6. \A j \in DOMAIN wire' : wire'[j].n = Len(frames')
    BY <1>1, <1>3
  <1>7. QED
    BY <1>4, <1>5, <1>6 DEF Transit, InTransit

\* A symbol that arrives goes from the line to the buffer.
LEMMA TransitReceives ==
  ASSUME LineInv, Transit, Receive
  PROVE  Transit'
  <1>1. /\ wire # <<>> /\ wire' = Tail(wire) /\ frames' = frames /\ damages' = damages
    BY DEF Receive, ReceiveSoc, ReceiveIgnored, ReceiveStored, ReceiveOverflow, ReceiveEoc, Arrives
  <1>2. /\ LineTypeOK /\ WireTraced /\ InTransit
    BY DEF LineInv, Traced, Transit
  <1>3. /\ Len(Sent) \in 3 .. 6 /\ Len(wire) \in Nat \ {0} /\ DOMAIN wire = 1 .. Len(wire)
        /\ Len(wire') = Len(wire) - 1 /\ DOMAIN wire' = 1 .. Len(wire) - 1
        /\ \A i \in 1 .. Len(wire) - 1 : wire'[i] = wire[i + 1]
    BY <1>1, <1>2, SentShape
  <1>4. Sent' = Sent /\ Arrived = Len(Sent) - Len(wire) /\ Arrived' = Arrived + 1
    <2>1. Sent' = Sent
      BY <1>1 DEF Sent
    <2>2. Arrived = Len(Sent) - Len(wire) /\ Arrived' = Len(Sent) - Len(wire')
      BY <2>1 DEF Arrived
    <2>3. QED
      BY <1>3, <2>1, <2>2
  <1>5. ASSUME wire' # <<>> PROVE \A j \in DOMAIN wire' : wire'[j].n = Len(frames)
    <2>1. \A j \in DOMAIN wire : wire[j].n = Len(frames)
      BY <1>1, <1>2 DEF InTransit
    <2>2. \A j \in DOMAIN wire' : j + 1 \in DOMAIN wire /\ wire'[j] = wire[j + 1]
      BY <1>3
    <2>3. QED
      BY <2>1, <2>2
  <1>6. ASSUME wire' # <<>>, frames[Len(frames)].intact
        PROVE  /\ Arrived' > 0 /\ \A i \in 1 .. Len(wire') : wire'[i] = Sent[Arrived' + i]
               /\ Len(buffer') = Arrived' /\ \A i \in 1 .. Arrived' : buffer'[i] = Sent[i]
    <2>1. Arrived >= 0 /\ \A i \in 1 .. Len(wire) : wire[i] = Sent[Arrived + i]
      BY <1>1, <1>2, <1>6 DEF InTransit
    <2>2. Arrived' > 0 /\ Arrived \in Nat
      BY <1>3, <1>4, <2>1
    <2>3. \A i \in 1 .. Len(wire') : wire'[i] = Sent[Arrived' + i]
      <3> SUFFICES ASSUME NEW i \in 1 .. Len(wire') PROVE wire'[i] = Sent[Arrived' + i]
        OBVIOUS
      <3>1. i + 1 \in 1 .. Len(wire) /\ wire'[i] = wire[i + 1]
        BY <1>3
      <3>2. Arrived' + i = Arrived + (i + 1)
        BY <1>3, <1>4, <2>2
      <3>3. QED
        BY <2>1, <3>1, <3>2
    <2>4. Len(wire) > 1
      <3>1. Len(wire') # 0
        BY <1>1, <1>2, <1>6, EmptySeq, SentShape
      <3>2. QED
        BY <1>3, <3>1
    <2>5. /\ Head(wire).kind # "eoc" /\ Head(wire) = Sent[Arrived + 1]
          /\ Head(wire).kind = "soc" <=> Arrived = 0
          /\ Head(wire).kind \in Others \union {"soc"}
          /\ Arrived > 0 => /\ Collecting /\ ~Full /\ Len(buffer) = Arrived
                            /\ \A i \in 1 .. Arrived : buffer[i] = Sent[i]
      <3>1. Arrived # Len(Sent) - 1
        BY <1>3, <1>4, <2>4
      <3>2. QED
        BY <1>1, <1>2, <1>6, <3>1, HeadPlace
    <2>6. CASE Arrived = 0
      <3> DEFINE c == Head(wire)
      <3>1. buffer' = <<c>>
        BY <2>5, <2>6
           DEF Receive, ReceiveSoc, ReceiveIgnored, ReceiveStored, ReceiveOverflow, ReceiveEoc,
               Arrives, Others, StartsFrame
      <3> HIDE DEF c
      <3>2. Len(buffer') = 1 /\ buffer'[1] = c
        BY <3>1
      <3>3. QED
        BY <1>4, <2>2, <2>3, <2>5, <2>6, <3>2 DEF c
    <2>7. CASE Arrived > 0
      <3>1. buffer' = Append(buffer, Head(wire))
        BY <2>5, <2>7
           DEF Receive, ReceiveSoc, ReceiveIgnored, ReceiveStored, ReceiveOverflow, ReceiveEoc,
               Arrives
      <3>2. buffer \in Seq(Symbols) /\ Head(wire) \in Symbols
        BY <1>1, <1>2, HeadTailProperties DEF LineTypeOK
      <3>3. /\ Len(buffer') = Len(buffer) + 1 /\ buffer'[Len(buffer) + 1] = Head(wire)
            /\ \A i \in 1 .. Len(buffer) : buffer'[i] = buffer[i]
        BY <3>1, <3>2, AppendProperties
      <3>4. Len(buffer') = Arrived' /\ buffer'[Arrived'] = Sent[Arrived']
        BY <1>4, <2>5, <2>7, <3>3
      <3>5. \A i \in 1 .. Arrived' : i \in 1 .. Arrived \/ i = Arrived'
        BY <1>4, <2>2
      <3>6. \A i \in 1 .. Arrived : buffer'[i] = Sent[i]
        BY <2>5, <2>7, <3>3
      <3>7. QED
        BY <2>2, <2>3, <3>4, <3>5, <3>6
    <2>8. QED
      BY <2>2, <2>6, <2>7
  <1>7. InTransit'
    <2>1. ASSUME wire' # <<>>, frames'[Len(frames')].intact
          PROVE  /\ Arrived' >= 0 /\ \A i \in 1 .. Len(wire') : wire'[i] = (Sent')[Arrived' + i]
                 /\ Len(buffer') = Arrived' /\ \A i \in 1 .. Arrived' : buffer'[i] = (Sent')[i]
      <3>1. frames[Len(frames)].intact
        BY <1>1, <2>1
      <3>2. Arrived' > 0 /\ Arrived' \in Int
        BY <1>3, <1>4, <1>6, <2>1, <3>1
      <3>3. QED
        BY <1>4, <1>6, <2>1, <3>1, <3>2
    <2>2. ASSUME wire' # <<>> PROVE \A j \in DOMAIN wire' : wire'[j].n = Len(frames')
      BY <1>1, <1>5, <2>2
    <2>3. QED
      BY <2>1, <2>2 DEF InTransit
  <1>8. QED
    BY <1>1, <1>7 DEF Transit

\* Every step keeps it.
LEMMA TransitStep ==
  ASSUME LineInv, Transit, [Next]_vars
  PROVE  Transit'
  <1>1. CASE Station \/ UNCHANGED vars
    <2>1. UNCHANGED <<buffer, wire, frames, damages>>
      BY <1>1 DEF Station, line, vars
    <2>2. QED
      BY <2>1 DEF Transit, InTransit, Sent, Arrived
  <1>2. QED
    BY <1>1, TransitSends, TransitDamages, TransitReceives DEF Next, Transit

\* The places of a sequence of two or four.
LEMMA Places ==
  ASSUME NEW s \in Seq(Symbols)
  PROVE  /\ Len(s) = 2 => s # <<>> /\ DOMAIN s = {1, 2}
         /\ Len(s) = 4 => DOMAIN s = {1, 2, 3, 4} /\ s[1] \in Symbols /\ s[2] \in Symbols
         /\ s # <<>> => Tail(s) # s
  <1>1. DOMAIN s = 1 .. Len(s)
    BY LenProperties
  <1>2. Len(s) = 2 => s # <<>> /\ DOMAIN s = {1, 2}
    BY <1>1
  <1>3. Len(s) = 4 => DOMAIN s = {1, 2, 3, 4} /\ s[1] \in Symbols /\ s[2] \in Symbols
    <2> HAVE Len(s) = 4
    <2>1. 1 .. 4 = {1, 2, 3, 4}
      OBVIOUS
    <2>2. s[1] \in Symbols /\ s[2] \in Symbols
      BY ElementOfSeq
    <2>3. QED
      BY <1>1, <2>1, <2>2, Zenon
  <1>4. s # <<>> => Tail(s) # s
    BY HeadTailProperties, EmptySeq
  <1>5. QED
    BY <1>2, <1>3, <1>4

\* The arguments of a frame that arrived as it was sent are its content.
LEMMA ArgsOfFrame ==
  ASSUME LineTypeOK, NEW n \in 1 .. Len(frames), frames[n].id,
         NEW text \in Seq(Symbols),
         Len(text) = IF frames[n].sum THEN 4 ELSE 2,
         text[1] = Content(frames[n], n)[1], text[2] = Content(frames[n], n)[2],
         frames[n].sum => text[3].kind = "mark" /\ text[4].kind = "sum" /\ text[4].n = n
  PROVE  /\ Tokenized(text)
         /\ Args(text) \in Seq(Symbols) /\ Len(Args(text)) = 2
         /\ Args(text)[1] = text[1] /\ Args(text)[2] = text[2]
  <1>1. n \in Nat /\ frames[n] \in Frames
    BY LenProperties DEF LineTypeOK
  <1>2. DOMAIN text = 1 .. Len(text)
    BY LenProperties
  <1>3. text[1].kind = "text" /\ text[2].kind = "id"
    <2>1. Content(frames[n], n)[1].kind = "text" /\ Content(frames[n], n)[2].kind = "id"
      BY <1>1, ContentIs, Zenon
    <2>2. QED
      BY <2>1, Zenon
  <1>4. CASE frames[n].sum
    <2>1. Len(text) = 4 /\ text[3].kind = "mark" /\ text[4].kind = "sum" /\ text[4].n = n
      BY <1>4
    <2>2. IsMark(text, 3)
      <3>1. \A i \in 1 .. 3 - 1 : i = 1 \/ i = 2
        OBVIOUS
      <3>2. QED
        BY <1>3, <2>1, <3>1 DEF IsMark
    <2>3. \A m \in DOMAIN text : IsMark(text, m) => m = 3
      <3> SUFFICES ASSUME NEW m \in DOMAIN text, IsMark(text, m) PROVE m = 3
        OBVIOUS
      <3>1. m \in {1, 2, 3, 4}
        BY <1>2, <2>1
      <3>2. text[m].kind = "mark"
        BY DEF IsMark
      <3>3. QED
        BY <1>3, <2>1, <3>1, <3>2
    <2>4. 3 \in DOMAIN text
      <3>1. DOMAIN text = {1, 2, 3, 4}
        BY <2>1, Places, Zenon
      <3>2. QED
        BY <3>1, Zenon
    <2>5. Marked(text) /\ Mark(text) = 3
      BY <2>2, <2>3, <2>4 DEF Marked, Mark
    <2>6. Args(text) = SubSeq(text, 1, 2)
      BY <2>5 DEF Args
    <2>7. \A i \in 1 .. 2 : text[i] \in Symbols
      <3>1. text[1] \in Symbols /\ text[2] \in Symbols
        BY <2>1, Places, Zenon
      <3>2. QED
        BY <3>1
    <2>8. /\ Args(text) \in Seq(Symbols) /\ Len(Args(text)) = 2
          /\ \A i \in 1 .. 2 : Args(text)[i] = text[i]
      BY <2>6, <2>7, SubSeqProperties
    <2> DEFINE args == Args(text)
               content == Content(frames[n], n)
    <2>9. Len(content) = 2 /\ text[1] = content[1] /\ text[2] = content[2]
      BY <1>1, ContentIs
    <2>10. args[1] = text[1] /\ args[2] = text[2] /\ DOMAIN args = {1, 2}
      <3>1. DOMAIN args = 1 .. 2
        BY <2>8, LenProperties
      <3>2. QED
        BY <2>8, <3>1
    <2> HIDE DEF content
    <2>11. SameContent(args, content)
      BY <2>8, <2>9, <2>10 DEF SameContent, SameSymbol
    <2>12. Verified(text)
      BY <2>1, <2>5, <2>11 DEF Verified, content
    <2>13. QED
      BY <2>8, <2>10, <2>12 DEF Tokenized
  <1>5. CASE ~frames[n].sum
    <2>1. Len(text) = 2
      BY <1>5
    <2>2. \A m \in DOMAIN text : m = 1 \/ m = 2
      <3>1. DOMAIN text = {1, 2}
        BY <2>1, Places, Zenon
      <3>2. QED
        BY <3>1, Zenon
    <2>3. ~Marked(text)
      BY <1>3, <2>2 DEF Marked, IsMark
    <2>4. QED
      BY <2>1, <2>3 DEF Tokenized, Args
  <1>6. QED
    BY <1>4, <1>5

\* Text and sequence id of a frame's content are its own.
LEMMA ArgsName ==
  ASSUME NEW args \in Seq(Symbols), NEW n \in Nat, NEW f \in Frames, Len(args) = 2,
         args[1].kind = "text", args[1].text = f.text, args[2].kind = "id", args[2].n = n
  PROVE  TextsOf(args) = {f.text} /\ SequenceIds(args) = {n}
  <1>2. args # <<>>
    BY Places, Zenon
  <1>3. TextsOf(args) = {f.text}
    BY <1>2 DEF TextsOf
  <1>4. IdPlaces(args) = {2}
    BY DEF IdPlaces
  <1>5. LastId(args) = {2}
    BY <1>4 DEF LastId
  <1>6. SequenceIds(args) = {n}
    BY <1>2, <1>4, <1>5 DEF SequenceIds
  <1>7. QED
    BY <1>3, <1>6

\* The end of an undamaged frame with an id meets a buffer that holds all the rest of it.
LEMMA Hears ==
  ASSUME LineInv, Transit, [Next]_vars, NEW n \in DOMAIN frames,
         wire # <<>>, wire' = Tail(wire), damages' = damages,
         Head(wire).kind = "eoc", Head(wire).n = n, frames[n].intact, frames[n].id
  PROVE  answers' # answers /\ Last(answers').id = n /\ Last(answers').text = frames[n].text
  <1>1. LineTypeOK /\ WireTraced /\ InTransit
    BY DEF LineInv, Traced, Transit
  <1>s. Shape(Sent, frames[Len(frames)], Len(frames))
    BY <1>1, SentShape
  <1>2. /\ Len(frames) \in Nat \ {0} /\ frames[Len(frames)] \in Frames
        /\ Len(Sent) \in 3 .. 6
        /\ Len(wire) \in Nat \ {0} /\ DOMAIN wire = 1 .. Len(wire) /\ Head(wire) = wire[1]
        /\ Len(wire') = Len(wire) - 1
    BY <1>1, SentShape
  <1>3. n = Len(frames)
    <2>1. \A j \in DOMAIN wire : wire[j].n = Len(frames)
      BY <1>1 DEF InTransit
    <2>2. 1 \in DOMAIN wire
      BY <1>2
    <2>3. QED
      BY <1>2, <2>1, <2>2
  <1>4. /\ Arrived = Len(Sent) - 1
        /\ Collecting /\ ~Full /\ Len(buffer) = Arrived
        /\ \A i \in 1 .. Arrived : buffer[i] = Sent[i]
    <2>1. Arrived = Len(Sent) - 1
      BY <1>1, <1>3, HeadPlace
    <2>2. Arrived > 0
      <3>1. \A l \in 3 .. 6 : l - 1 > 0
        OBVIOUS
      <3>2. QED
        BY <1>2, <2>1, <3>1, Zenon
    <2>3. QED
      BY <1>1, <1>3, <2>1, <2>2, HeadPlace
  <1>5. ReceiveEoc
    <2>1. wire' # wire
      BY <1>1, Places, Zenon DEF LineTypeOK
    <2>2. ~Station /\ ~UNCHANGED vars
      BY <2>1 DEF Station, line, vars
    <2>3. ~ClientSends
      BY DEF ClientSends
    <2>4. ~LineDamages
      <3>1. damages \in Nat
        BY DEF Transit
      <3>2. LineDamages => damages' = damages + 1
        BY DEF LineDamages
      <3>3. QED
        BY <3>1, <3>2
    <2>5. Receive
      BY <2>2, <2>3, <2>4 DEF Next
    <2>6. QED
      BY <2>5, <1>4
         DEF Receive, ReceiveSoc, ReceiveIgnored, ReceiveStored, ReceiveOverflow, Arrives
  <1> DEFINE text == Tail(buffer)
             f == frames[n]
  <1>6. /\ text \in Seq(Symbols) /\ Len(text) = Len(Sent) - 2
        /\ \A i \in 1 .. Len(Sent) - 2 : text[i] = Sent[i + 1]
    <2>1. buffer \in Seq(Symbols) /\ buffer # <<>>
      BY <1>1, <1>4 DEF LineTypeOK, Collecting
    <2>2. /\ text \in Seq(Symbols) /\ Len(text) = Len(buffer) - 1
          /\ \A i \in 1 .. Len(text) : text[i] = buffer[i + 1]
      BY <2>1, HeadTailProperties
    <2> HIDE DEF text
    <2>3. Len(text) = Len(Sent) - 2
      BY <1>2, <1>4, <2>2
    <2>4. ASSUME NEW i \in 1 .. Len(Sent) - 2 PROVE text[i] = Sent[i + 1]
      <3>1. i \in 1 .. Len(text) /\ i + 1 \in 1 .. Arrived
        BY <1>2, <1>4, <2>3
      <3>2. QED
        BY <1>4, <2>2, <3>1
    <2>5. QED
      BY <2>2, <2>3, <2>4
  <1> HIDE DEF text
  <1>7. /\ text[1] = Content(f, n)[1] /\ text[2] = Content(f, n)[2]
        /\ Len(text) = IF f.sum THEN 4 ELSE 2
        /\ f.sum => text[3].kind = "mark" /\ text[4].kind = "sum" /\ text[4].n = n
    <2>1. /\ Len(Sent) = 3 + (IF f.id THEN 1 ELSE 0) + (IF f.sum THEN 2 ELSE 0)
          /\ Sent[2] = Content(f, n)[1]
          /\ f.id => Sent[3] = Content(f, n)[2]
          /\ f.id /\ f.sum => Sent[4].kind = "mark" /\ Sent[5].kind = "sum" /\ Sent[5].n = n
      BY <1>s, <1>3 DEF Shape
    <2>2. Len(Sent) = IF f.sum THEN 6 ELSE 4
      <3>1. CASE f.sum
        BY <2>1, <3>1
      <3>2. CASE ~f.sum
        BY <2>1, <3>2
      <3>3. QED
        BY <3>1, <3>2
    <2>3. text[1] = Sent[2] /\ text[2] = Sent[3]
      BY <1>6, <2>2
    <2>4. f.sum => text[3] = Sent[4] /\ text[4] = Sent[5]
      BY <1>6, <2>2
    <2>5. Len(text) = IF f.sum THEN 4 ELSE 2
      BY <1>6, <2>2
    <2>6. QED
      BY <2>1, <2>3, <2>4, <2>5
  <1>8. /\ Tokenized(text)
        /\ Args(text) \in Seq(Symbols) /\ Len(Args(text)) = 2
        /\ Args(text)[1] = text[1] /\ Args(text)[2] = text[2]
    <2>1. n \in 1 .. Len(frames)
      BY <1>2, <1>3
    <2>2. QED
      BY <1>1, <1>6, <1>7, <2>1, ArgsOfFrame
  <1>9. TextsOf(Args(text)) = {f.text} /\ SequenceIds(Args(text)) = {n}
    <2>1. f \in Frames /\ n \in Nat
      BY <1>2, <1>3
    <2>2. /\ Content(f, n)[1].kind = "text" /\ Content(f, n)[1].text = f.text
          /\ Content(f, n)[2].kind = "id" /\ Content(f, n)[2].n = n
      BY <2>1, ContentIs
    <2>3. QED
      BY <1>7, <1>8, <2>1, <2>2, ArgsName
  <1>10. ProcessCmd(text)
    BY <1>5, <1>8 DEF ReceiveEoc, text
  <1>11. n # 0 /\ f.text # "none"
    <2>1. f.text \in Texts
      BY <1>2, <1>3 DEF Frames
    <2>2. QED
      BY <1>2, <1>3, <2>1, RapiAssumption
  <1> DEFINE e == [id |-> n, text |-> f.text, verified |-> Verified(text)]
  <1>12. answers' = Append(answers, e)
    BY <1>9, <1>10, <1>11 DEF ProcessCmd
  <1>13. e.id = n /\ e.text = f.text /\ e \in Answers
    <2>1. f.text \in Words /\ n \in Nat
      BY <1>2, <1>3 DEF Frames, Words
    <2>2. Verified(text) \in BOOLEAN
      BY DEF Verified
    <2>3. QED
      BY <2>1, <2>2 DEF Answers
  <1> HIDE DEF e
  <1>14. answers \in Seq(Answers) /\ Len(answers) \in Nat
    BY <1>1, LenProperties DEF LineTypeOK
  <1>15. Len(answers') = Len(answers) + 1 /\ answers'[Len(answers) + 1] = e
    BY <1>12, <1>13, <1>14, AppendProperties
  <1>16. Last(answers') = e /\ answers' # answers
    BY <1>14, <1>15 DEF Last
  <1>17. QED
    BY <1>13, <1>16

\* However the frames before it were mutilated, and whatever of them is left in the buffer,
\* a frame of which nothing is damaged is executed and answered with its own id.
THEOREM IntactFrameHeard == Spec => HeardAfterNoise
  <1>1. Init => LineInv /\ Transit
    BY LineInit DEF Init, Transit, InTransit
  <1>2. LineInv /\ Transit /\ [Next]_vars => LineInv' /\ Transit'
    BY LineStep, TransitStep
  <1>3. LineInv /\ Transit /\ [Next]_vars =>
          [\A n \in DOMAIN frames :
             wire # <<>> /\ wire' = Tail(wire) /\ damages' = damages
               /\ Head(wire).kind = "eoc" /\ Head(wire).n = n /\ frames[n].intact /\ frames[n].id
             => /\ answers' # answers /\ Last(answers').id = n
                /\ Last(answers').text = frames[n].text]_vars
    BY Hears
  <1>4. QED
    BY <1>1, <1>2, <1>3, PTL DEF Spec, HeardAfterNoise

=============================================================================
