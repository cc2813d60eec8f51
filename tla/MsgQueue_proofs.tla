--------------------------- MODULE MsgQueue_proofs ---------------------------
(***************************************************************************)
(* Proofs about the ring buffer of mqtt/ringbuf.c, for every size and      *)
(* every set of characters, and about the MQTT send queue of mqtt/queue.c  *)
(* and mqtt/proto.c above it, for every size, every longest message and    *)
(* any messages no longer than that.                                       *)
(*                                                                         *)
(* The queue's invariant says where frames may start: at the first         *)
(* character of the ring and behind every 7F.  The parser is a fold of the *)
(* characters it reads, and so is the scan of the ring for whole messages. *)
(* From that: text without a 7F at the end of the ring changes nothing of  *)
(* what will be read, a frame there adds its message whatever stands       *)
(* before it, and what is cut off at the first 7F is the oldest message.   *)
(* The loop that makes room is followed round by round.                    *)
(***************************************************************************)
EXTENDS MsgQueue, RingBuf, SeqLemmas, TLAPS

-----------------------------------------------------------------------------
\* The ring buffer.

\* Every variable keeps its range: the pointers stay inside the buffer and the
\* count within 0 .. size, whatever calls are made (ringbuf.c:16-67).
THEOREM RingTyped == Spec => []TypeOK
<1> USE RingAssumption DEF TypeOK, Slots
<1>1. Init => TypeOK
  BY DEF Init
<1>2. TypeOK /\ [Next]_vars => TypeOK'
  <2> SUFFICES ASSUME TypeOK, [Next]_vars PROVE TypeOK'
    OBVIOUS
  <2>1. ASSUME NEW x \in Byte, RINGBUF_Put(x) PROVE TypeOK'
    BY <2>1 DEF RINGBUF_Put, Full, Step
  <2>2. CASE RINGBUF_Get
    BY <2>2 DEF RINGBUF_Get, Empty, Step
  <2>3. CASE UNCHANGED vars
    BY <2>3 DEF vars
  <2>4. QED
    BY <2>1, <2>2, <2>3 DEF Next
<1>3. QED
  BY <1>1, <1>2, PTL DEF Spec

\* The write pointer is always fill_cnt slots ahead of the read pointer
\* (ringbuf.c:37-43 and 58-64 move the count and the pointers separately).
THEOREM RingPointers == Spec => []PointersAgree
<1> USE RingAssumption DEF TypeOK, Slots, PointersAgree, Behind
<1>1. Init => PointersAgree
  BY DEF Init
<1>2. TypeOK /\ PointersAgree /\ [Next]_vars => PointersAgree'
  <2> SUFFICES ASSUME TypeOK, PointersAgree, [Next]_vars PROVE PointersAgree'
    OBVIOUS
  <2>1. ASSUME NEW x \in Byte, RINGBUF_Put(x) PROVE PointersAgree'
    BY <2>1 DEF RINGBUF_Put, Full, Step
  <2>2. CASE RINGBUF_Get
    BY <2>2 DEF RINGBUF_Get, Empty, Step
  <2>3. CASE UNCHANGED vars
    BY <2>3 DEF vars
  <2>4. QED
    BY <2>1, <2>2, <2>3 DEF Next
<1>3. QED
  BY <1>1, <1>2, RingTyped, PTL DEF Spec

\* The characters stored form a sequence of fill_cnt characters.
LEMMA StoredSeq ==
  TypeOK => Stored \in Seq(Byte) /\ Len(Stored) = fill_cnt
<1> SUFFICES ASSUME TypeOK PROVE Stored \in Seq(Byte) /\ Len(Stored) = fill_cnt
  OBVIOUS
<1>1. fill_cnt \in Nat
  BY RingAssumption DEF TypeOK
<1>2. ASSUME NEW i \in 1 .. fill_cnt PROVE buf[Behind(i - 1)] \in Byte
  BY RingAssumption DEF TypeOK, Slots, Behind
<1>3. Stored \in [1 .. fill_cnt -> Byte]
  BY <1>2 DEF Stored
<1>4. Stored \in Seq(Byte)
  BY <1>1, <1>3
<1>5. DOMAIN Stored = 1 .. fill_cnt
  BY DEF Stored
<1>6. QED
  BY <1>1, <1>4, <1>5

\* A put that finds room appends its character to what is stored.
LEMMA PutAppends ==
  ASSUME TypeOK, PointersAgree, NEW x \in Byte, RINGBUF_Put(x), ~Full
  PROVE  Stored' = Append(Stored, x)
<1> USE RingAssumption
<1>1. /\ fill_cnt \in 0 .. Size - 1
      /\ fill_cnt' = fill_cnt + 1
      /\ buf' = [buf EXCEPT ![p_w] = x]
      /\ p_r' = p_r
      /\ p_w = Behind(fill_cnt)
  BY DEF RINGBUF_Put, Full, TypeOK, PointersAgree
<1>2. ASSUME NEW i \in 1 .. fill_cnt PROVE buf'[Behind(i - 1)'] = buf[Behind(i - 1)]
  <2>1. Behind(i - 1) # p_w /\ Behind(i - 1)' = Behind(i - 1)
    BY <1>1 DEF Behind, TypeOK, Slots
  <2>2. QED
    BY <1>1, <2>1 DEF TypeOK
<1>3. Stored \in Seq(Byte) /\ Len(Stored) = fill_cnt
  BY StoredSeq
<1>4. ASSUME NEW i \in 1 .. fill_cnt + 1
      PROVE  buf'[Behind(i - 1)'] = (IF i = fill_cnt + 1 THEN x ELSE Stored[i])
  <2>1. CASE i = fill_cnt + 1
    <3>1. Behind(i - 1)' = p_w
      BY <1>1, <2>1 DEF Behind, TypeOK, Slots
    <3>2. QED
      BY <1>1, <2>1, <3>1 DEF TypeOK
  <2>2. CASE i # fill_cnt + 1
    BY <1>1, <1>2, <2>2 DEF Stored
  <2>3. QED
    BY <2>1, <2>2
<1>5. TypeOK'
  BY <1>1 DEF RINGBUF_Put, TypeOK, Full, Slots, Step
<1>6. Stored' \in Seq(Byte) /\ Len(Stored') = fill_cnt + 1
  <2>1. (Stored \in Seq(Byte) /\ Len(Stored) = fill_cnt)'
    BY <1>5, StoredSeq, PTL
  <2>2. QED
    BY <1>1, <2>1
<1>7. /\ Append(Stored, x) \in Seq(Byte)
      /\ Len(Append(Stored, x)) = fill_cnt + 1
      /\ \A i \in 1 .. fill_cnt : Append(Stored, x)[i] = Stored[i]
      /\ Append(Stored, x)[fill_cnt + 1] = x
  BY <1>3, AppendProperties
<1>8. ASSUME NEW i \in 1 .. fill_cnt + 1 PROVE Stored'[i] = Append(Stored, x)[i]
  <2>1. Stored'[i] = buf'[Behind(i - 1)']
    BY <1>1 DEF Stored
  <2>2. Append(Stored, x)[i] = IF i = fill_cnt + 1 THEN x ELSE Stored[i]
    BY <1>1, <1>7
  <2>3. QED
    BY <1>4, <2>1, <2>2
<1>9. QED
  BY <1>6, <1>7, <1>8, SeqEqual

\* A get on a non-empty ring removes the oldest character.
LEMMA GetTakesHead ==
  ASSUME TypeOK, RINGBUF_Get, ~Empty
  PROVE  Stored # <<>> /\ c' = Head(Stored) /\ Stored' = Tail(Stored)
<1> USE RingAssumption
<1>1. /\ fill_cnt \in 1 .. Size
      /\ fill_cnt' = fill_cnt - 1
      /\ buf' = buf
      /\ c' = buf[p_r]
      /\ p_r' = Step(p_r)
  BY DEF RINGBUF_Get, Empty, TypeOK
<1>2. Stored \in Seq(Byte) /\ Len(Stored) = fill_cnt
  BY StoredSeq
<1>3. Stored # <<>> /\ c' = Head(Stored)
  <2>1. Stored[1] = buf[p_r]
    BY <1>1 DEF Stored, Behind, TypeOK, Slots
  <2>2. QED
    BY <1>1, <1>2, <2>1
<1>4. ASSUME NEW i \in 1 .. fill_cnt - 1
      PROVE  buf'[Behind(i - 1)'] = Stored[i + 1]
  <2>1. Behind(i - 1)' = Behind(i)
    BY <1>1 DEF Behind, Step, TypeOK, Slots
  <2>2. Stored[i + 1] = buf[Behind(i)]
    BY <1>1 DEF Stored
  <2>3. QED
    BY <1>1, <2>1, <2>2
<1>5. TypeOK'
  BY <1>1 DEF RINGBUF_Get, TypeOK, Empty, Slots, Step
<1>6. Stored' \in Seq(Byte) /\ Len(Stored') = fill_cnt - 1
  <2>1. (Stored \in Seq(Byte) /\ Len(Stored) = fill_cnt)'
    BY <1>5, StoredSeq, PTL
  <2>2. QED
    BY <1>1, <2>1
<1>7. /\ Tail(Stored) \in Seq(Byte)
      /\ Len(Tail(Stored)) = fill_cnt - 1
      /\ \A i \in 1 .. fill_cnt - 1 : Tail(Stored)[i] = Stored[i + 1]
  BY <1>2, <1>3, HeadTailProperties
<1>8. ASSUME NEW i \in 1 .. fill_cnt - 1 PROVE Stored'[i] = Tail(Stored)[i]
  BY <1>1, <1>4, <1>7 DEF Stored
<1>9. QED
  BY <1>3, <1>6, <1>7, <1>8, SeqEqual

\* The ring buffer implements the bounded FIFO of characters (ringbuf.c:16-67).
THEOREM RingIsFifo == Spec => FifoSpec
<1> USE RingAssumption
<1>1. Init => Fifo!Init
  BY DEF Init, Fifo!Init, Stored
<1>2. TypeOK /\ PointersAgree /\ [Next]_vars => [Fifo!Next]_Fifo!vars
  <2> SUFFICES ASSUME TypeOK, PointersAgree, [Next]_vars
               PROVE  [Fifo!Next]_Fifo!vars
    OBVIOUS
  <2>0. Len(Stored) = fill_cnt
    BY StoredSeq
  <2>1. ASSUME NEW x \in Byte, RINGBUF_Put(x) PROVE Fifo!Next
    <3>1. CASE Full
      <4>1. Stored' = Stored /\ ret' = -1 /\ c' = c
        BY <2>1, <3>1 DEF RINGBUF_Put, Stored, Behind
      <4>2. Len(Stored) = Size
        BY <2>0, <3>1 DEF Full, TypeOK
      <4>3. QED
        BY <4>1, <4>2 DEF Fifo!Next, Fifo!PutFull
    <3>2. CASE ~Full
      <4>1. Stored' = Append(Stored, x)
        BY <2>1, <3>2, PutAppends
      <4>2. Len(Stored) < Size /\ ret' = 0 /\ c' = c
        BY <2>0, <2>1, <3>2 DEF Full, RINGBUF_Put, TypeOK
      <4>3. QED
        BY <4>1, <4>2 DEF Fifo!Next, Fifo!PutOk
    <3>3. QED
      BY <3>1, <3>2
  <2>2. CASE RINGBUF_Get
    <3>1. CASE Empty
      <4>1. Stored' = Stored /\ ret' = -1 /\ c' = c
        BY <2>2, <3>1 DEF RINGBUF_Get, Stored, Behind
      <4>2. Stored = <<>>
        BY <2>0, <3>1, StoredSeq DEF Empty, TypeOK
      <4>3. QED
        BY <4>1, <4>2 DEF Fifo!Next, Fifo!GetEmpty
    <3>2. CASE ~Empty
      <4>1. Stored # <<>> /\ c' = Head(Stored) /\ Stored' = Tail(Stored)
        BY <2>2, <3>2, GetTakesHead
      <4>2. ret' = 0
        BY <2>2, <3>2 DEF RINGBUF_Get
      <4>3. QED
        BY <4>1, <4>2 DEF Fifo!Next, Fifo!GetOk
    <3>3. QED
      BY <3>1, <3>2
  <2>3. CASE UNCHANGED vars
    BY <2>3 DEF vars, Fifo!vars, Stored, Behind
  <2>4. QED
    BY <2>1, <2>2, <2>3 DEF Next
<1>3. QED
  BY <1>1, <1>2, RingTyped, RingPointers, PTL DEF Spec, FifoSpec, Fifo!Spec

-----------------------------------------------------------------------------
\* The parser.

\* The states of the parser, and its step.
Parser == [data : Seq(Char), esc : BOOLEAN, begin : BOOLEAN]
ParseFn == [x \in Parser \X Char |-> PROTO_ParseByte(x[1], x[2])]

\* The three characters of the framing differ, and the exclusive or takes none of them to
\* one of them and back to itself when done twice (proto.c:5-11, 44, 83).
LEMMA CharTyped == /\ Esc \in Char /\ Begin \in Char /\ End \in Char
                   /\ Esc # Begin /\ Esc # End /\ Begin # End
                   /\ \A v \in Char : Xor20(v) \in Char
                   /\ \A v \in {Esc, Begin, End} : Xor20(v) \notin {Esc, Begin, End} /\ Xor20(Xor20(v)) = v
<1>1. \A v \in Char : Xor20(v) \in Char
  BY DEF Char, Xor20
<1>2. Esc \in Char /\ Begin \in Char /\ End \in Char /\ Esc # Begin /\ Esc # End /\ Begin # End
  BY DEF Char, Esc, Begin, End
<1>6. \A v \in {Esc, Begin, End} : Xor20(v) \notin {Esc, Begin, End} /\ Xor20(Xor20(v)) = v
  <2> DEFINE x == 93
             y == 94
             z == 95
  <2>1. x \notin {Esc, Begin, End} /\ y \notin {Esc, Begin, End} /\ z \notin {Esc, Begin, End}
    BY DEF Esc, Begin, End
  <2>2. Xor20(Esc) = x /\ Xor20(Begin) = y /\ Xor20(End) = z
    BY DEF Xor20, Esc, Begin, End
  <2>3. Xor20(x) = Esc /\ Xor20(y) = Begin /\ Xor20(z) = End
    BY DEF Xor20, Esc, Begin, End
  <2> HIDE DEF x, y, z
  <2>4. Xor20(Esc) \notin {Esc, Begin, End} /\ Xor20(Xor20(Esc)) = Esc
    BY <2>1, <2>2, <2>3, Zenon
  <2>5. Xor20(Begin) \notin {Esc, Begin, End} /\ Xor20(Xor20(Begin)) = Begin
    BY <2>1, <2>2, <2>3, Zenon
  <2>6. Xor20(End) \notin {Esc, Begin, End} /\ Xor20(Xor20(End)) = End
    BY <2>1, <2>2, <2>3, Zenon
  <2> QED BY <2>4, <2>5, <2>6, Zenon
<1> QED BY <1>1, <1>2, <1>6

\* PROTO_Init leaves a parser, whatever the stack held.
LEMMA InitParser == \A b \in BOOLEAN : PROTO_Init(b) \in Parser /\ PROTO_Init(b).data = <<>>
<1>1. <<>> \in Seq(Char)
  OBVIOUS
<1> QED BY <1>1 DEF PROTO_Init, Parser

\* A character takes a parser to a parser,
LEMMA ParseTyped ==
  ASSUME NEW p \in Parser, NEW v \in Char
  PROVE  PROTO_ParseByte(p, v) \in Parser
<1>1. p.data \in Seq(Char) /\ p.esc \in BOOLEAN /\ p.begin \in BOOLEAN
      /\ p = [data |-> p.data, esc |-> p.esc, begin |-> p.begin]
  BY DEF Parser
<1>2. CASE v = Esc
  <2>0. v # Begin
    BY <1>2, CharTyped, Zenon
  <2>1. PROTO_ParseByte(p, v) = [p EXCEPT !.esc = TRUE]
    BY <1>2, <2>0, Zenon DEF PROTO_ParseByte
  <2> QED BY <2>1 DEF Parser
<1>3. CASE v # Esc /\ v = Begin
  <2>1. PROTO_ParseByte(p, v) = [data |-> <<>>, esc |-> FALSE, begin |-> TRUE]
    BY <1>3, CharTyped, Zenon DEF PROTO_ParseByte
  <2>2. <<>> \in Seq(Char)
    OBVIOUS
  <2> QED BY <2>1, <2>2 DEF Parser
<1>4. CASE v # Esc /\ v # Begin
  <2> DEFINE w == IF p.esc THEN Xor20(v) ELSE v
             d == IF Len(p.data) < MaxLen THEN Append(p.data, w) ELSE p.data
  <2>1. PROTO_ParseByte(p, v) = IF ~p.begin THEN p ELSE [p EXCEPT !.esc = FALSE, !.data = d]
    BY <1>4, Zenon DEF PROTO_ParseByte
  <2>2. w \in Char
    BY CharTyped, Zenon
  <2>3. d \in Seq(Char)
    <3> HIDE DEF w
    <3> QED BY <1>1, <2>2, AppendProperties
  <2> HIDE DEF d
  <2> QED BY <2>1, <2>3 DEF Parser
<1> QED BY <1>2, <1>3, <1>4

\* so that the parser is a fold of the characters.
LEMMA ParseFnTyped ==
  /\ ParseFn \in FoldFns(Parser, Char)
  /\ \A p \in Parser, v \in Char : ParseFn[<<p, v>>] = PROTO_ParseByte(p, v)
<1>1. \A x \in Parser \X Char : PROTO_ParseByte(x[1], x[2]) \in Parser
  <2> SUFFICES ASSUME NEW x \in Parser \X Char PROVE PROTO_ParseByte(x[1], x[2]) \in Parser
    BY Zenon
  <2>1. x[1] \in Parser /\ x[2] \in Char
    OBVIOUS
  <2> QED BY <2>1, ParseTyped, Zenon
<1>2. ParseFn \in [Parser \X Char -> Parser]
  BY <1>1, Zenon DEF ParseFn
<1>3. \A p \in Parser, v \in Char : ParseFn[<<p, v>>] = PROTO_ParseByte(p, v)
  BY DEF ParseFn
<1> QED BY <1>2, <1>3, Zenon DEF FoldFns

\* What the parser makes of r from the state p.
Parsed(p, r) == Fold(ParseFn, p, r)

\* It is a parser again;
LEMMA ParsedTyped == ASSUME NEW p \in Parser, NEW r \in Seq(Char) PROVE Parsed(p, r) \in Parser
BY ParseFnTyped, FoldTyped DEF Parsed

\* it is as it was after nothing,
LEMMA ParsedEmpty == ASSUME NEW p \in Parser PROVE Parsed(p, <<>>) = p
BY ParseFnTyped, FoldEmpty DEF Parsed

\* has taken one step more after one character more,
LEMMA ParsedAppend ==
  ASSUME NEW p \in Parser, NEW r \in Seq(Char), NEW v \in Char
  PROVE  Parsed(p, Append(r, v)) = PROTO_ParseByte(Parsed(p, r), v)
<1>1. Parsed(p, Append(r, v)) = ParseFn[<<Parsed(p, r), v>>]
  BY ParseFnTyped, FoldAppend DEF Parsed
<1> QED BY <1>1, ParseFnTyped, ParsedTyped

\* one step after one character,
LEMMA ParsedOne == ASSUME NEW p \in Parser, NEW v \in Char PROVE Parsed(p, <<v>>) = PROTO_ParseByte(p, v)
<1>1. <<>> \in Seq(Char) /\ <<v>> = Append(<<>>, v)
  OBVIOUS
<1>2. Parsed(p, Append(<<>>, v)) = PROTO_ParseByte(Parsed(p, <<>>), v)
  BY <1>1, ParsedAppend, Zenon
<1> QED BY <1>1, <1>2, ParsedEmpty, Zenon

\* and goes on from where it was.
LEMMA ParsedConcat ==
  ASSUME NEW p \in Parser, NEW r \in Seq(Char), NEW s \in Seq(Char)
  PROVE  Parsed(p, r \o s) = Parsed(Parsed(p, r), s)
BY ParseFnTyped, FoldConcat DEF Parsed

\* Decode is what the parser has read at the end.
LEMMA DecodeIs ==
  ASSUME NEW r \in Seq(Char), NEW b \in BOOLEAN
  PROVE  Decode(r, b) = Parsed(PROTO_Init(b), r).data
<1> DEFINE n == Len(r)
           i0 == PROTO_Init(b)
           Is(F) == F = [k \in 0 .. n |-> IF k = 0 THEN i0 ELSE PROTO_ParseByte(F[k - 1], r[k])]
           F == CHOOSE G : Is(G)
<1>1. n \in Nat /\ i0 \in Parser /\ \A k \in 1 .. n : r[k] \in Char
  BY InitParser, ElementOfSeq
<1>2. Decode(r, b) = F[n].data
  BY Zenon DEF Decode
<1>3. PICK g : Folds(g, Parser, ParseFn, i0, r)
  <2> HIDE DEF i0
  <2> QED BY <1>1, ParseFnTyped, FoldsExist
<1>4. Is(g)
  <2>1. g \in [0 .. n -> Parser] /\ g[0] = i0 /\ \A k \in 1 .. n : g[k] = ParseFn[<<g[k - 1], r[k]>>]
    BY <1>3, Zenon DEF Folds
  <2>2. \A k \in 1 .. n : k - 1 \in 0 .. n
    <3> HIDE DEF n
    <3> QED BY <1>1
  <2>3. \A k \in 1 .. n : g[k] = PROTO_ParseByte(g[k - 1], r[k])
    <3> HIDE DEF n
    <3>1. \A k \in 1 .. n : g[k - 1] \in Parser
      BY <2>1, <2>2
    <3> QED BY <1>1, <2>1, <3>1, ParseFnTyped, Zenon
  <2> HIDE DEF n, i0
  <2>4. g = [k \in 0 .. n |-> g[k]]
    BY <2>1
  <2>5. \A k \in 0 .. n : k = 0 \/ (k \in 1 .. n /\ k # 0)
    BY <1>1
  <2>6. \A k \in 0 .. n : g[k] = IF k = 0 THEN i0 ELSE PROTO_ParseByte(g[k - 1], r[k])
    BY <2>1, <2>3, <2>5, Zenon
  <2>7. g = [k \in 0 .. n |-> IF k = 0 THEN i0 ELSE PROTO_ParseByte(g[k - 1], r[k])]
    BY <2>4, <2>6
  <2> QED BY <2>7, Zenon
<1>5. Is(F)
  <2> HIDE DEF Is
  <2> QED BY <1>4, Zenon
<1>6. F[0] = i0 /\ \A k \in 1 .. n : F[k] = PROTO_ParseByte(F[k - 1], r[k])
  <2> HIDE DEF F, n, i0
  <2> QED BY <1>1, <1>5
<1> HIDE DEF F, Is, i0
<1>7. \A k \in 1 .. n : F[k - 1] \in Parser => F[k] = ParseFn[<<F[k - 1], r[k]>>]
  BY <1>1, <1>6, ParseFnTyped, Zenon
<1>8. F[n] = Fold(ParseFn, i0, r)
  BY <1>1, <1>6, <1>7, ParseFnTyped, FoldUnfold
<1> QED BY <1>2, <1>8, Zenon DEF i0, Parsed

-----------------------------------------------------------------------------
\* Frames.

\* The characters other than 7F.
Text == Char \ {End}

\* Text is characters.
LEMMA TextSeq == ASSUME NEW s \in Seq(Text) PROVE s \in Seq(Char)
<1>1. Text \subseteq Char
  BY DEF Text
<1> QED BY <1>1, SeqMonotonic

\* Escaping leaves no 7F in a character,
LEMMA EscapedTyped == ASSUME NEW v \in Char PROVE Escaped(v) \in Seq(Text)
<1>1. CASE v \in {Esc, Begin, End}
  <2>1. Esc \in Text /\ Xor20(v) \in Text
    BY <1>1, CharTyped, Zenon DEF Text
  <2>2. Escaped(v) = <<Esc, Xor20(v)>>
    BY <1>1 DEF Escaped
  <2> HIDE DEF Text, Xor20, Esc
  <2> QED BY <2>1, <2>2
<1>2. CASE v \notin {Esc, Begin, End}
  <2>1. v \in Text
    BY <1>2 DEF Text
  <2>2. Escaped(v) = <<v>>
    BY <1>2 DEF Escaped
  <2> QED BY <2>1, <2>2
<1> QED BY <1>1, <1>2

\* What a message is between the first and the last character of its frame.
Escapes(m) == [i \in DOMAIN m |-> Escaped(m[i])]
Content(m) == FlattenSeq(Escapes(m))

\* nor in any of a message,
LEMMA EscapesTyped ==
  ASSUME NEW m \in Seq(Char)
  PROVE  Escapes(m) \in Seq(Seq(Text)) /\ Len(Escapes(m)) = Len(m)
         /\ \A i \in 1 .. Len(m) : Escapes(m)[i] = Escaped(m[i])
<1>1. DOMAIN m = 1 .. Len(m) /\ Len(m) \in Nat /\ \A i \in 1 .. Len(m) : m[i] \in Char
  BY ElementOfSeq
<1>2. Escapes(m) = [i \in 1 .. Len(m) |-> Escaped(m[i])]
  BY <1>1 DEF Escapes
<1>3. \A i \in 1 .. Len(m) : Escaped(m[i]) \in Seq(Text)
  BY <1>1, EscapedTyped
<1>4. Escapes(m) \in [1 .. Len(m) -> Seq(Text)]
  BY <1>2, <1>3
<1>5. Len(Escapes(m)) = Len(m)
  BY <1>1, <1>4
<1> QED BY <1>1, <1>2, <1>4, <1>5

\* so the content of its frame is text.
LEMMA ContentTyped == ASSUME NEW m \in Seq(Char) PROVE Content(m) \in Seq(Text)
BY EscapesTyped, FlattenTyped DEF Content

\* An empty message has no content,
LEMMA ContentEmpty == Content(<<>>) = <<>>
<1>1. <<>> \in Seq(Char) /\ Len(<<>>) = 0
  OBVIOUS
<1>2. Escapes(<<>>) = <<>>
  BY <1>1, EscapesTyped, EmptySeq
<1> QED BY <1>2, FlattenEmpty, Zenon DEF Content

\* and one character more adds its escape.
LEMMA ContentAppend ==
  ASSUME NEW m \in Seq(Char), NEW v \in Char
  PROVE  Content(Append(m, v)) = Content(m) \o Escaped(v)
<1> DEFINE e == Escapes(m)
           f == Escapes(Append(m, v))
           x == Escaped(v)
           n == Len(m)
<1>1. Append(m, v) \in Seq(Char) /\ Len(Append(m, v)) = n + 1 /\ Append(m, v)[n + 1] = v
      /\ n \in Nat /\ \A i \in 1 .. n : Append(m, v)[i] = m[i]
  OBVIOUS
<1>2. e \in Seq(Seq(Text)) /\ Len(e) = n /\ \A i \in 1 .. n : e[i] = Escaped(m[i])
  BY EscapesTyped
<1>3. f \in Seq(Seq(Text)) /\ Len(f) = n + 1 /\ \A i \in 1 .. n + 1 : f[i] = Escaped(Append(m, v)[i])
  <2> HIDE DEF n
  <2> QED BY <1>1, EscapesTyped, Zenon
<1>4. x \in Seq(Text)
  BY EscapedTyped
<1>5. f[n + 1] = x /\ \A i \in 1 .. n : f[i] = e[i]
  <2> HIDE DEF e, f, n
  <2>1. n + 1 \in 1 .. n + 1 /\ \A i \in 1 .. n : i \in 1 .. n + 1
    BY <1>1
  <2> QED BY <1>1, <1>2, <1>3, <2>1, Zenon
<1> HIDE DEF e, f, x, n
<1>6. f = Append(e, x)
  <2> DEFINE S == Seq(Text)
  <2>0. e \in Seq(S) /\ f \in Seq(S) /\ x \in S
    BY <1>2, <1>3, <1>4
  <2> HIDE DEF S
  <2>1. Append(e, x) \in Seq(S) /\ Len(Append(e, x)) = n + 1
        /\ Append(e, x)[n + 1] = x /\ \A i \in 1 .. n : Append(e, x)[i] = e[i]
    BY <2>0, <1>2
  <2>2. \A i \in 1 .. n + 1 : i \in 1 .. n \/ i = n + 1
    BY <1>1
  <2>3. \A i \in 1 .. n + 1 : f[i] = Append(e, x)[i]
    BY <2>1, <2>2, <1>5, Zenon
  <2> QED BY <2>0, <2>1, <2>3, <1>3, SeqEqual
<1>7. FlattenSeq(Append(e, x)) = FlattenSeq(e) \o x
  BY <1>2, <1>4, FlattenAppend
<1> QED BY <1>6, <1>7, Zenon DEF Content, e, f, x

\* The parser in the state of having read d.
Read(d) == [data |-> d, esc |-> FALSE, begin |-> TRUE]

\* That is a parser.
LEMMA ReadTyped == ASSUME NEW d \in Seq(Char) PROVE Read(d) \in Parser
BY DEF Read, Parser

\* The parser takes back what Escaped wrote.
LEMMA EscapedParsed ==
  ASSUME NEW d \in Seq(Char), Len(d) < MaxLen, NEW v \in Char
  PROVE  Parsed(Read(d), Escaped(v)) = Read(Append(d, v))
<1>1. Read(d) \in Parser /\ Read(d).begin = TRUE /\ Read(d).esc = FALSE /\ Read(d).data = d
  BY ReadTyped DEF Read
<1>5. CASE v \notin {Esc, Begin, End}
  <2>1. Escaped(v) = <<v>>
    BY <1>5 DEF Escaped
  <2>2. Parsed(Read(d), Escaped(v)) = PROTO_ParseByte(Read(d), v)
    BY <1>1, <2>1, ParsedOne
  <2>3. v # Esc /\ v # Begin
    BY <1>5
  <2>4. PROTO_ParseByte(Read(d), v) = [Read(d) EXCEPT !.esc = FALSE, !.data = Append(d, v)]
    <3> DEFINE p == Read(d)
    <3>1. PROTO_ParseByte(p, v) = [p EXCEPT !.esc = FALSE, !.data = IF Len(p.data) < MaxLen THEN Append(p.data, IF p.esc THEN Xor20(v) ELSE v) ELSE p.data]
      <4> HIDE DEF p
      <4> QED BY <1>1, <2>3, Zenon DEF p, PROTO_ParseByte
    <3> HIDE DEF p
    <3> QED BY <3>1, <1>1, Zenon DEF p
  <2> QED BY <2>2, <2>4 DEF Read
<1>6. CASE v \in {Esc, Begin, End}
  <2> DEFINE w == Xor20(v)
             q == [Read(d) EXCEPT !.esc = TRUE]
  <2>1. Escaped(v) = <<Esc, w>>
    BY <1>6 DEF Escaped
  <2>2. w \in Char /\ w # Esc /\ w # Begin /\ Xor20(w) = v
    BY <1>6, CharTyped, Zenon
  <2> HIDE DEF w
  <2>3. <<Esc>> \in Seq(Char) /\ <<Esc, w>> = Append(<<Esc>>, w)
    BY CharTyped
  <2>4. Parsed(Read(d), <<Esc>>) = q
    <3>1. Esc # Begin
      BY CharTyped, Zenon
    <3>2. PROTO_ParseByte(Read(d), Esc) = q
      BY <3>1, Zenon DEF PROTO_ParseByte
    <3> HIDE DEF q
    <3> QED BY <1>1, <3>2, ParsedOne, CharTyped
  <2>6. Parsed(Read(d), Escaped(v)) = PROTO_ParseByte(q, w)
    <3> HIDE DEF q
    <3> DEFINE e == <<Esc>>
    <3> HIDE DEF e
    <3>1. Parsed(Read(d), Append(e, w)) = PROTO_ParseByte(Parsed(Read(d), e), w)
      BY <1>1, <2>2, <2>3, ParsedAppend DEF e
    <3> QED BY <3>1, <2>1, <2>3, <2>4, Zenon DEF e
  <2>7. q = [data |-> d, esc |-> TRUE, begin |-> TRUE]
    <3> DEFINE p == Read(d)
    <3>1. p = [data |-> d, esc |-> FALSE, begin |-> TRUE]
      BY DEF Read
    <3>2. q = [p EXCEPT !.esc = TRUE]
      OBVIOUS
    <3> HIDE DEF p, q
    <3> QED BY <3>1, <3>2
  <2> HIDE DEF q
  <2>10. q.begin = TRUE /\ q.esc = TRUE /\ q.data = d
    BY <2>7
  <2>8. PROTO_ParseByte(q, w) = [q EXCEPT !.esc = FALSE, !.data = IF Len(q.data) < MaxLen THEN Append(q.data, IF q.esc THEN Xor20(w) ELSE w) ELSE q.data]
    BY <2>2, <2>10, Zenon DEF PROTO_ParseByte
  <2>9. PROTO_ParseByte(q, w) = [q EXCEPT !.esc = FALSE, !.data = Append(d, v)]
    BY <2>2, <2>10, <2>8, Zenon
  <2> QED BY <2>6, <2>7, <2>9 DEF Read
<1> QED BY <1>5, <1>6

\* The parser reads a message that is not too long back from its content: induction over
\* the message, with the lemma above for its last character.
LEMMA ContentParsed ==
  ASSUME NEW m \in Seq(Char), Len(m) <= MaxLen
  PROVE  Parsed(Read(<<>>), Content(m)) = Read(m)
<1> DEFINE T == {s \in Seq(Char) : Len(s) <= MaxLen => Parsed(Read(<<>>), Content(s)) = Read(s)}
<1>0. <<>> \in Seq(Char) /\ Read(<<>>) \in Parser
  <2>1. <<>> \in Seq(Char)
    OBVIOUS
  <2> QED BY <2>1, ReadTyped
<1>1. <<>> \in T
  <2>1. Parsed(Read(<<>>), Content(<<>>)) = Read(<<>>)
    BY <1>0, ContentEmpty, ParsedEmpty
  <2> QED BY <1>0, <2>1
<1>2. ASSUME NEW s \in Seq(Char), NEW v \in Char, s \in T PROVE Append(s, v) \in T
  <2>1. Append(s, v) \in Seq(Char) /\ Len(Append(s, v)) = Len(s) + 1 /\ Len(s) \in Nat
    OBVIOUS
  <2> SUFFICES ASSUME Len(Append(s, v)) <= MaxLen
               PROVE  Parsed(Read(<<>>), Content(Append(s, v))) = Read(Append(s, v))
    BY <2>1
  <2>2. Len(s) <= MaxLen /\ Len(s) < MaxLen
    BY <2>1, QueueAssumption
  <2>3. Parsed(Read(<<>>), Content(s)) = Read(s)
    BY <1>2, <2>2
  <2>4. Content(s) \in Seq(Char) /\ Escaped(v) \in Seq(Char)
    BY ContentTyped, EscapedTyped, TextSeq
  <2>5. Parsed(Read(<<>>), Content(s) \o Escaped(v)) = Parsed(Parsed(Read(<<>>), Content(s)), Escaped(v))
    BY <1>0, <2>4, ParsedConcat
  <2>6. Parsed(Read(s), Escaped(v)) = Read(Append(s, v))
    BY <2>2, EscapedParsed
  <2> QED BY <2>3, <2>5, <2>6, ContentAppend
<1>3. Seq(Char) \subseteq T
  <2> HIDE DEF T
  <2> QED BY <1>1, <1>2, SeqInduct
<1> QED BY <1>3

\* A frame without its last character.
Body(m) == <<Begin>> \o Content(m)

\* It is text, starts with 7E and is not empty;
LEMMA BodyTyped == ASSUME NEW m \in Seq(Char) PROVE Body(m) \in Seq(Text) /\ Len(Body(m)) \in Nat \ {0} /\ Body(m)[1] = Begin
<1>1. Content(m) \in Seq(Text) /\ <<Begin>> \in Seq(Text)
  <2>1. Begin \in Text
    BY CharTyped, Zenon DEF Text
  <2> QED BY <2>1, ContentTyped
<1> DEFINE k == Content(m)
           b == Begin
<1> HIDE DEF k, b
<1>2. (<<b>> \o k) \in Seq(Text) /\ Len(<<b>> \o k) \in Nat \ {0} /\ (<<b>> \o k)[1] = b
  <2>1. k \in Seq(Text) /\ b \in Text
    BY <1>1 DEF k, b
  <2> HIDE DEF Text
  <2> QED BY <2>1
<1> QED BY <1>2 DEF k, b, Body

\* with its 7F it is the frame (proto.c:76-96);
LEMMA FrameIs ==
  ASSUME NEW m \in Msg
  PROVE  m \in Seq(Char) /\ Len(m) <= MaxLen /\ Frame[m] = Append(Body(m), End)
<1>1. m \in Seq(Char) /\ Len(m) <= MaxLen
  BY QueueAssumption
<1>2. Frame[m] = <<Begin>> \o Content(m) \o <<End>>
  BY Zenon DEF Frame, Content, Escapes
<1>3. Body(m) \in Seq(Char) /\ End \in Char
  BY <1>1, BodyTyped, TextSeq, CharTyped
<1>4. Body(m) \o <<End>> = Append(Body(m), End)
  BY <1>3, AppendIsConcat
<1> QED BY <1>1, <1>2, <1>4 DEF Body

\* and the parser reads the message from it whatever it was in the middle of, since 7E
\* makes it start over (proto.c:25-33).
LEMMA BodyParsed ==
  ASSUME NEW m \in Seq(Char), Len(m) <= MaxLen, NEW p \in Parser
  PROVE  Parsed(p, Body(m)) = Read(m)
<1>1. <<>> \in Seq(Char) /\ Begin \in Char /\ <<Begin>> = Append(<<>>, Begin) /\ <<Begin>> \in Seq(Char)
  <2>1. Begin \in Char
    BY CharTyped
  <2> QED BY <2>1
<1>2. Parsed(p, <<Begin>>) = Read(<<>>)
  <2>1. Esc # Begin
    BY CharTyped, Zenon
  <2>2. PROTO_ParseByte(p, Begin) = Read(<<>>)
    BY <2>1, Zenon DEF PROTO_ParseByte, Read
  <2> QED BY <1>1, <2>2, ParsedOne
<1>3. Content(m) \in Seq(Char)
  BY ContentTyped, TextSeq
<1>4. Parsed(p, <<Begin>> \o Content(m)) = Parsed(Parsed(p, <<Begin>>), Content(m))
  <2> DEFINE b == <<Begin>>
             k == Content(m)
  <2> HIDE DEF b, k
  <2>1. b \in Seq(Char) /\ k \in Seq(Char)
    BY <1>1, <1>3 DEF b, k
  <2>2. Parsed(p, b \o k) = Parsed(Parsed(p, b), k)
    BY <2>1, ParsedConcat
  <2> QED BY <2>2 DEF b, k
<1> QED BY <1>2, <1>4, ContentParsed DEF Body

-----------------------------------------------------------------------------
\* Scanning the ring.

\* What a scan finds, its states, the first of them, and its step.
Stretch == [msg : Seq(Char), len : Nat]
ScanState == [whole : Seq(Stretch), parser : Parser, taken : Nat]
Scan0 == [whole |-> <<>>, parser |-> PROTO_Init(FALSE), taken |-> 0]
ScanFn == [x \in ScanState \X Char |-> ScanByte(x[1], x[2])]

\* A message was cut off behind what z has read.
CutOff(z) == [whole  |-> Append(z.whole, [msg |-> z.parser.data, len |-> z.taken + 1]),
              parser |-> PROTO_Init(FALSE), taken |-> 0]

\* Its parts.
LEMMA ScanStateParts ==
  ASSUME NEW z \in ScanState
  PROVE  /\ z.whole \in Seq(Stretch) /\ z.parser \in Parser /\ z.taken \in Nat
         /\ z = [whole |-> z.whole, parser |-> z.parser, taken |-> z.taken]
BY DEF ScanState

\* What a character does to a scan.
LEMMA ScanByteIs ==
  ASSUME NEW z \in ScanState, NEW v \in Char
  PROVE  /\ v = End => ScanByte(z, v) = CutOff(z)
         /\ v # End => ScanByte(z, v) = [whole |-> z.whole, parser |-> PROTO_ParseByte(z.parser, v), taken |-> z.taken + 1]
<1>1. CASE v = End
  BY <1>1, Zenon DEF ScanByte, CutOff
<1>2. CASE v # End
  <2> DEFINE p == PROTO_ParseByte(z.parser, v)
             n == z.taken + 1
             y == [z EXCEPT !.parser = p, !.taken = n]
  <2>1. ScanByte(z, v) = y
    BY <1>2, Zenon DEF ScanByte
  <2>2. p \in Parser /\ n \in Nat
    BY ScanStateParts, ParseTyped
  <2>3. y = [z EXCEPT !.parser = p, !.taken = n]
    BY Zenon
  <2> HIDE DEF p, n, y
  <2>4. y \in ScanState
    BY <2>2, <2>3 DEF ScanState
  <2>5. y.whole = z.whole
    BY <2>3 DEF ScanState
  <2>6. y.parser = p
    BY <2>3 DEF ScanState
  <2>7. y.taken = n
    BY <2>3 DEF ScanState
  <2>8. y = [whole |-> y.whole, parser |-> y.parser, taken |-> y.taken]
    BY <2>4, ScanStateParts, Zenon
  <2> QED BY <1>2, <2>1, <2>5, <2>6, <2>7, <2>8, Zenon DEF p, n
<1> QED BY <1>1, <1>2

\* That is a scan again.
LEMMA CutOffTyped == ASSUME NEW z \in ScanState PROVE CutOff(z) \in ScanState
<1>1. z.whole \in Seq(Stretch) /\ z.parser \in Parser /\ z.taken \in Nat
  BY ScanStateParts
<1>2. z.parser.data \in Seq(Char)
  BY <1>1 DEF Parser
<1> DEFINE w == [msg |-> z.parser.data, len |-> z.taken + 1]
           i == PROTO_Init(FALSE)
<1>3. w \in Stretch
  BY <1>1, <1>2 DEF Stretch
<1>4. i \in Parser
  BY InitParser
<1> HIDE DEF w, i
<1>5. Append(z.whole, w) \in Seq(Stretch)
  BY <1>1, <1>3, AppendProperties
<1>6. [whole |-> Append(z.whole, w), parser |-> i, taken |-> 0] \in ScanState
  BY <1>4, <1>5 DEF ScanState
<1> QED BY <1>6 DEF CutOff, w, i

\* A scan is a fold of the characters, as the parser is.
LEMMA ScanFnTyped ==
  /\ ScanFn \in FoldFns(ScanState, Char)
  /\ \A z \in ScanState, v \in Char : ScanFn[<<z, v>>] = ScanByte(z, v)
  /\ Scan0 \in ScanState
<1>1. ASSUME NEW z \in ScanState, NEW v \in Char PROVE ScanByte(z, v) \in ScanState
  <2>1. CASE v = End
    BY <2>1, ScanByteIs, CutOffTyped
  <2>2. CASE v # End
    <3>1. z.whole \in Seq(Stretch) /\ z.parser \in Parser /\ z.taken \in Nat
      BY ScanStateParts
    <3>2. PROTO_ParseByte(z.parser, v) \in Parser
      BY <3>1, ParseTyped
    <3>3. z.taken + 1 \in Nat
      BY <3>1
    <3>4. [whole |-> z.whole, parser |-> PROTO_ParseByte(z.parser, v), taken |-> z.taken + 1] \in ScanState
      BY <3>1, <3>2, <3>3, Zenon DEF ScanState
    <3> QED BY <2>2, <3>4, ScanByteIs
  <2> QED BY <2>1, <2>2
<1>2. \A x \in ScanState \X Char : ScanByte(x[1], x[2]) \in ScanState
  <2> SUFFICES ASSUME NEW x \in ScanState \X Char PROVE ScanByte(x[1], x[2]) \in ScanState
    BY Zenon
  <2>1. x[1] \in ScanState /\ x[2] \in Char
    OBVIOUS
  <2> QED BY <2>1, <1>1, Zenon
<1>3. ScanFn \in [ScanState \X Char -> ScanState]
  BY <1>2, Zenon DEF ScanFn
<1>4. \A z \in ScanState, v \in Char : ScanFn[<<z, v>>] = ScanByte(z, v)
  BY DEF ScanFn
<1>5. Scan0 \in ScanState
  <2>1. <<>> \in Seq(Stretch)
    OBVIOUS
  <2>2. PROTO_Init(FALSE) \in Parser
    BY InitParser
  <2>3. 0 \in Nat
    OBVIOUS
  <2> QED BY <2>1, <2>2, <2>3, Zenon DEF Scan0, ScanState
<1> QED BY <1>3, <1>4, <1>5, Zenon DEF FoldFns

\* Where a scan that was at z is after r.
Scanned(z, r) == Fold(ScanFn, z, r)

\* The facts about folds once more, for a scan.
LEMMA ScannedTyped == ASSUME NEW z \in ScanState, NEW r \in Seq(Char) PROVE Scanned(z, r) \in ScanState
BY ScanFnTyped, FoldTyped DEF Scanned

\* After nothing,
LEMMA ScannedEmpty == ASSUME NEW z \in ScanState PROVE Scanned(z, <<>>) = z
BY ScanFnTyped, FoldEmpty DEF Scanned

\* after one character more,
LEMMA ScannedAppend ==
  ASSUME NEW z \in ScanState, NEW r \in Seq(Char), NEW v \in Char
  PROVE  Scanned(z, Append(r, v)) = ScanByte(Scanned(z, r), v)
<1>1. Scanned(z, Append(r, v)) = ScanFn[<<Scanned(z, r), v>>]
  BY ScanFnTyped, FoldAppend DEF Scanned
<1> QED BY <1>1, ScanFnTyped, ScannedTyped

\* and going on.
LEMMA ScannedConcat ==
  ASSUME NEW z \in ScanState, NEW r \in Seq(Char), NEW s \in Seq(Char)
  PROVE  Scanned(z, r \o s) = Scanned(Scanned(z, r), s)
BY ScanFnTyped, FoldConcat DEF Scanned

\* Scan is what has been found at the end.
LEMMA ScanIs == ASSUME NEW r \in Seq(Char) PROVE Scan(r) = Scanned(Scan0, r).whole
<1> DEFINE n == Len(r)
           Is(F) == F = [k \in 0 .. n |-> IF k = 0 THEN Scan0 ELSE ScanByte(F[k - 1], r[k])]
           F == CHOOSE G : Is(G)
<1>1. n \in Nat /\ Scan0 \in ScanState /\ \A k \in 1 .. n : r[k] \in Char
  BY ScanFnTyped, ElementOfSeq
<1>2. Scan(r) = F[n].whole
  BY Zenon DEF Scan, Scan0
<1>3. PICK g : Folds(g, ScanState, ScanFn, Scan0, r)
  BY <1>1, ScanFnTyped, FoldsExist
<1>4. Is(g)
  <2>1. g \in [0 .. n -> ScanState] /\ g[0] = Scan0 /\ \A k \in 1 .. n : g[k] = ScanFn[<<g[k - 1], r[k]>>]
    BY <1>3, Zenon DEF Folds
  <2>2. \A k \in 1 .. n : k - 1 \in 0 .. n
    <3> HIDE DEF n
    <3> QED BY <1>1
  <2>3. \A k \in 1 .. n : g[k] = ScanByte(g[k - 1], r[k])
    <3> HIDE DEF n
    <3>1. \A k \in 1 .. n : g[k - 1] \in ScanState
      BY <2>1, <2>2
    <3> QED BY <1>1, <2>1, <3>1, ScanFnTyped, Zenon
  <2> HIDE DEF n
  <2>4. g = [k \in 0 .. n |-> g[k]]
    BY <2>1
  <2>5. \A k \in 0 .. n : k = 0 \/ (k \in 1 .. n /\ k # 0)
    BY <1>1
  <2>6. \A k \in 0 .. n : g[k] = IF k = 0 THEN Scan0 ELSE ScanByte(g[k - 1], r[k])
    BY <2>1, <2>3, <2>5, Zenon
  <2>7. g = [k \in 0 .. n |-> IF k = 0 THEN Scan0 ELSE ScanByte(g[k - 1], r[k])]
    BY <2>4, <2>6
  <2> QED BY <2>7, Zenon
<1>5. Is(F)
  <2> HIDE DEF Is
  <2> QED BY <1>4, Zenon
<1>6. F[0] = Scan0 /\ \A k \in 1 .. n : F[k] = ScanByte(F[k - 1], r[k])
  <2> HIDE DEF F, n
  <2> QED BY <1>1, <1>5
<1> HIDE DEF F, Is
<1>7. \A k \in 1 .. n : F[k - 1] \in ScanState => F[k] = ScanFn[<<F[k - 1], r[k]>>]
  BY <1>1, <1>6, ScanFnTyped, Zenon
<1>8. F[n] = Fold(ScanFn, Scan0, r)
  BY <1>1, <1>6, <1>7, ScanFnTyped, FoldUnfold
<1> QED BY <1>2, <1>8, Zenon DEF Scanned

\* It is a sequence of stretches.
LEMMA ScanTyped == ASSUME NEW r \in Seq(Char) PROVE Scan(r) \in Seq(Stretch)
BY ScanIs, ScanFnTyped, ScannedTyped, ScanStateParts

\* Text adds nothing to what was found.
LEMMA ScannedText ==
  ASSUME NEW z \in ScanState, NEW s \in Seq(Text)
  PROVE  Scanned(z, s) = [whole |-> z.whole, parser |-> Parsed(z.parser, s), taken |-> z.taken + Len(s)]
<1> DEFINE At(t) == [whole |-> z.whole, parser |-> Parsed(z.parser, t), taken |-> z.taken + Len(t)]
           T == {t \in Seq(Text) : Scanned(z, t) = At(t)}
<1>0. z.whole \in Seq(Stretch) /\ z.parser \in Parser /\ z.taken \in Nat
      /\ z = [whole |-> z.whole, parser |-> z.parser, taken |-> z.taken]
  BY ScanStateParts
<1>1. <<>> \in T
  <2>1. <<>> \in Seq(Text) /\ z.taken + Len(<<>>) = z.taken
    BY <1>0
  <2>2. Parsed(z.parser, <<>>) = z.parser
    BY <1>0, ParsedEmpty
  <2>3. Scanned(z, <<>>) = At(<<>>)
    BY <1>0, <2>1, <2>2, ScannedEmpty
  <2> QED BY <2>1, <2>3
<1>2. ASSUME NEW t \in Seq(Text), NEW v \in Text, t \in T PROVE Append(t, v) \in T
  <2>1. t \in Seq(Char) /\ v \in Char /\ v # End
    BY TextSeq DEF Text
  <2>2. Append(t, v) \in Seq(Text) /\ Len(Append(t, v)) = Len(t) + 1 /\ Len(t) \in Nat
    <3> HIDE DEF Text
    <3> QED OBVIOUS
  <2>3. Scanned(z, Append(t, v)) = ScanByte(Scanned(z, t), v)
    BY <2>1, ScannedAppend
  <2> DEFINE y == Scanned(z, t)
  <2>4. y \in ScanState /\ y = At(t)
    BY <1>2, <2>1, ScannedTyped
  <2>5. y.whole = z.whole /\ y.parser = Parsed(z.parser, t) /\ y.taken = z.taken + Len(t)
    <3> HIDE DEF y
    <3> QED BY <2>4
  <2>6. ScanByte(y, v) = [whole |-> y.whole, parser |-> PROTO_ParseByte(y.parser, v), taken |-> y.taken + 1]
    <3> HIDE DEF y
    <3> QED BY <2>1, <2>4, ScanByteIs
  <2>7. PROTO_ParseByte(Parsed(z.parser, t), v) = Parsed(z.parser, Append(t, v))
    BY <1>0, <2>1, ParsedAppend
  <2>8. y.taken + 1 = z.taken + Len(Append(t, v))
    <3> HIDE DEF y
    <3> QED BY <1>0, <2>2, <2>5
  <2> HIDE DEF y
  <2>9. ScanByte(y, v) = At(Append(t, v))
    BY <2>5, <2>6, <2>7, <2>8, Zenon
  <2>10. Scanned(z, Append(t, v)) = At(Append(t, v))
    BY <2>3, <2>9, Zenon DEF y
  <2> HIDE DEF At
  <2> QED BY <2>2, <2>10, Zenon
<1>3. Seq(Text) \subseteq T
  <2> HIDE DEF T
  <2> QED BY <1>1, <1>2, SeqInduct
<1> QED BY <1>3

\* Text and a 7F behind it add one message.
LEMMA ScannedFrame ==
  ASSUME NEW z \in ScanState, NEW s \in Seq(Text)
  PROVE  Scanned(z, Append(s, End)) =
           [whole  |-> Append(z.whole, [msg |-> Parsed(z.parser, s).data, len |-> z.taken + Len(s) + 1]),
            parser |-> PROTO_Init(FALSE), taken |-> 0]
<1>1. s \in Seq(Char) /\ End \in Char
  BY TextSeq, CharTyped
<1> DEFINE y == Scanned(z, s)
<1>2. Scanned(z, Append(s, End)) = ScanByte(y, End)
  BY <1>1, ScannedAppend
<1>3. y \in ScanState
  BY <1>1, ScannedTyped
<1>4. y.whole = z.whole /\ y.parser = Parsed(z.parser, s) /\ y.taken = z.taken + Len(s)
  <2>1. y = [whole |-> z.whole, parser |-> Parsed(z.parser, s), taken |-> z.taken + Len(s)]
    BY ScannedText
  <2> HIDE DEF y
  <2> QED BY <2>1
<1> HIDE DEF y
<1>5. ScanByte(y, End) = CutOff(y)
  BY <1>1, <1>3, ScanByteIs
<1> QED BY <1>2, <1>4, <1>5, Zenon DEF CutOff

\* What was found before comes before what is found from now on.
Preceded(w, z) == [whole |-> w \o z.whole, parser |-> z.parser, taken |-> z.taken]

\* That is a scan.
LEMMA PrecededTyped ==
  ASSUME NEW w \in Seq(Stretch), NEW z \in ScanState
  PROVE  Preceded(w, z) \in ScanState /\ Preceded(w, z).whole = w \o z.whole
         /\ Preceded(w, z).parser = z.parser /\ Preceded(w, z).taken = z.taken
<1>1. z.whole \in Seq(Stretch) /\ z.parser \in Parser /\ z.taken \in Nat
  BY ScanStateParts
<1>2. w \o z.whole \in Seq(Stretch)
  BY <1>1, ConcatProperties
<1> QED BY <1>1, <1>2, Zenon DEF Preceded, ScanState

\* Whether it was found before or put in front afterwards makes no difference.
LEMMA ScannedShift ==
  ASSUME NEW w \in Seq(Stretch), NEW z \in ScanState, NEW s \in Seq(Char)
  PROVE  Scanned(Preceded(w, z), s) = Preceded(w, Scanned(z, s))
<1> DEFINE T == {t \in Seq(Char) : Scanned(Preceded(w, z), t) = Preceded(w, Scanned(z, t))}
<1>0. Preceded(w, z) \in ScanState
  BY PrecededTyped
<1>1. <<>> \in T
  <2>1. <<>> \in Seq(Char)
    OBVIOUS
  <2> QED BY <1>0, <2>1, ScannedEmpty
<1>2. ASSUME NEW t \in Seq(Char), NEW v \in Char, t \in T PROVE Append(t, v) \in T
  <2>1. Append(t, v) \in Seq(Char)
    OBVIOUS
  <2> DEFINE y == Scanned(z, t)
             b == Preceded(w, y)
  <2>2. y \in ScanState /\ Scanned(Preceded(w, z), t) = b
    BY <1>2, ScannedTyped
  <2>3. Scanned(Preceded(w, z), Append(t, v)) = ScanByte(b, v)
    BY <1>0, <2>2, ScannedAppend
  <2>4. Scanned(z, Append(t, v)) = ScanByte(y, v)
    BY ScannedAppend
  <2> HIDE DEF y
  <2>5. b \in ScanState /\ b.whole = w \o y.whole /\ b.parser = y.parser /\ b.taken = y.taken
    BY <2>2, PrecededTyped
  <2>6. y.whole \in Seq(Stretch) /\ y.parser \in Parser /\ y.taken \in Nat
    BY <2>2, ScanStateParts
  <2> HIDE DEF b
  <2>7. ScanByte(b, v) = Preceded(w, ScanByte(y, v))
    <3>1. CASE v = End
      <4> DEFINE x == [msg |-> y.parser.data, len |-> y.taken + 1]
      <4>1. x \in Stretch
        <5>1. y.parser.data \in Seq(Char)
          BY <2>6 DEF Parser
        <5> QED BY <2>6, <5>1 DEF Stretch
      <4>2. ScanByte(y, v) = CutOff(y) /\ ScanByte(b, v) = CutOff(b)
        BY <2>2, <2>5, <3>1, ScanByteIs
      <4>3. CutOff(y).whole = Append(y.whole, x) /\ CutOff(y).parser = PROTO_Init(FALSE) /\ CutOff(y).taken = 0
        BY Zenon DEF CutOff
      <4>4. CutOff(b) = [whole |-> Append(w \o y.whole, x), parser |-> PROTO_Init(FALSE), taken |-> 0]
        BY <2>5, Zenon DEF CutOff
      <4> HIDE DEF x
      <4>5. Append(w \o y.whole, x) = w \o Append(y.whole, x)
        <5> DEFINE u == y.whole
        <5>1. u \in Seq(Stretch)
          BY <2>6
        <5> HIDE DEF u
        <5> HIDE DEF Stretch
        <5>2. Append(w \o u, x) = w \o Append(u, x)
          BY <4>1, <5>1, ConcatAppend, SMTT(30)
        <5> QED BY <5>2 DEF u
      <4> QED BY <4>2, <4>3, <4>4, <4>5, Zenon DEF Preceded
    <3>2. CASE v # End
      <4>1. ScanByte(y, v) = [whole |-> y.whole, parser |-> PROTO_ParseByte(y.parser, v), taken |-> y.taken + 1]
        BY <2>2, <3>2, ScanByteIs
      <4>2. ScanByte(b, v) = [whole |-> b.whole, parser |-> PROTO_ParseByte(b.parser, v), taken |-> b.taken + 1]
        BY <2>5, <3>2, ScanByteIs
      <4> DEFINE x == ScanByte(y, v)
      <4>3. x.whole = y.whole /\ x.parser = PROTO_ParseByte(y.parser, v) /\ x.taken = y.taken + 1
        <5>1. x = [whole |-> y.whole, parser |-> PROTO_ParseByte(y.parser, v), taken |-> y.taken + 1]
          BY <4>1
        <5> HIDE DEF x
        <5> QED BY <5>1
      <4> HIDE DEF x
      <4>4. ScanByte(b, v) = Preceded(w, x)
        BY <2>5, <4>2, <4>3, Zenon DEF Preceded
      <4> QED BY <4>4 DEF x
    <3> QED BY <3>1, <3>2
  <2> QED BY <2>1, <2>2, <2>3, <2>4, <2>7 DEF b
<1>3. Seq(Char) \subseteq T
  <2> HIDE DEF T
  <2> QED BY <1>1, <1>2, SeqInduct
<1> QED BY <1>3

-----------------------------------------------------------------------------
\* Where the messages are in the ring.

\* What Scan finds: nothing in text,
LEMMA ScanText == ASSUME NEW s \in Seq(Text) PROVE Scan(s) = <<>>
<1>1. s \in Seq(Char) /\ Scan0 \in ScanState
  BY TextSeq, ScanFnTyped
<1>2. Scanned(Scan0, s) = [whole |-> Scan0.whole, parser |-> Parsed(Scan0.parser, s), taken |-> Scan0.taken + Len(s)]
  BY <1>1, ScannedText
<1>3. Scan0.whole = <<>>
  BY DEF Scan0
<1> DEFINE y == Scanned(Scan0, s)
<1>4. y.whole = <<>>
  <2> HIDE DEF y
  <2>1. y = [whole |-> Scan0.whole, parser |-> Parsed(Scan0.parser, s), taken |-> Scan0.taken + Len(s)]
    BY <1>2 DEF y
  <2> QED BY <1>3, <2>1
<1> QED BY <1>1, <1>4, ScanIs

\* nothing more in text at the end,
LEMMA ScanThenText ==
  ASSUME NEW r \in Seq(Char), NEW s \in Seq(Text)
  PROVE  Scan(r \o s) = Scan(r)
<1>1. s \in Seq(Char) /\ Scan0 \in ScanState
  BY TextSeq, ScanFnTyped
<1> DEFINE z == Scanned(Scan0, r)
           y == Scanned(z, s)
<1>2. z \in ScanState
  BY <1>1, ScannedTyped
<1>3. Scanned(Scan0, r \o s) = y
  BY <1>1, ScannedConcat
<1>4. y.whole = z.whole
  <2> HIDE DEF z
  <2>1. y = [whole |-> z.whole, parser |-> Parsed(z.parser, s), taken |-> z.taken + Len(s)]
    BY <1>2, ScannedText
  <2> HIDE DEF y
  <2> QED BY <2>1
<1>5. r \o s \in Seq(Char)
  BY <1>1, ConcatProperties
<1> QED BY <1>3, <1>4, <1>5, ScanIs

\* one message more in a frame at the end,
LEMMA ScanThenFrame ==
  ASSUME NEW r \in Seq(Char), NEW m \in Msg
  PROVE  \E l \in Nat : Scan(r \o Frame[m]) = Append(Scan(r), [msg |-> m, len |-> l])
<1> DEFINE f == Body(m)
           g == Append(f, End)
<1>1. m \in Seq(Char) /\ Len(m) <= MaxLen /\ Frame[m] = g
  BY FrameIs
<1>2. f \in Seq(Text)
  BY <1>1, BodyTyped
<1>3. f \in Seq(Char) /\ g \in Seq(Char) /\ Scan0 \in ScanState
  BY <1>2, TextSeq, CharTyped, ScanFnTyped, AppendProperties
<1> DEFINE z == Scanned(Scan0, r)
           y == Scanned(z, g)
<1>4. z \in ScanState
  BY <1>3, ScannedTyped
<1>5. Scanned(Scan0, r \o g) = y
  <2> HIDE DEF g
  <2> QED BY <1>3, ScannedConcat
<1>6. r \o g \in Seq(Char)
  <2> HIDE DEF g
  <2> QED BY <1>3, ConcatProperties
<1>7. y.whole = Append(z.whole, [msg |-> m, len |-> z.taken + Len(f) + 1])
  <2> HIDE DEF z, f
  <2>1. y = [whole  |-> Append(z.whole, [msg |-> Parsed(z.parser, f).data, len |-> z.taken + Len(f) + 1]),
             parser |-> PROTO_Init(FALSE), taken |-> 0]
    BY <1>2, <1>4, ScannedFrame
  <2>2. z.parser \in Parser
    BY <1>4, ScanStateParts
  <2>3. Parsed(z.parser, f) = Read(m)
    BY <1>1, <2>2, BodyParsed DEF f
  <2>4. Read(m).data = m
    BY DEF Read
  <2> HIDE DEF y
  <2> QED BY <2>1, <2>3, <2>4
<1>8. z.taken + Len(f) + 1 \in Nat
  <2> HIDE DEF z, f
  <2>1. Len(f) \in Nat /\ z.taken \in Nat
    BY <1>3, <1>4, ScanStateParts
  <2> QED BY <2>1
<1>9. Scan(r \o Frame[m]) = Append(Scan(r), [msg |-> m, len |-> z.taken + Len(f) + 1])
  <2> HIDE DEF g
  <2>1. Scan(r \o g) = Scanned(Scan0, r \o g).whole /\ Scan(r) = z.whole
    BY <1>6, ScanIs
  <2> HIDE DEF y, z
  <2> QED BY <1>1, <1>5, <1>7, <2>1
<1> HIDE DEF z, f
<1> QED BY <1>8, <1>9

\* and first what is cut off at the first 7F.
LEMMA ScanFirst ==
  ASSUME NEW a \in Seq(Text), NEW d \in Seq(Char)
  PROVE  Scan(Append(a, End) \o d) = <<[msg |-> Decode(a, FALSE), len |-> Len(a) + 1]>> \o Scan(d)
<1> DEFINE x == [msg |-> Decode(a, FALSE), len |-> Len(a) + 1]
           h == Append(a, End)
<1>1. a \in Seq(Char) /\ h \in Seq(Char) /\ Scan0 \in ScanState
  BY TextSeq, CharTyped, ScanFnTyped, AppendProperties
<1>2. Scan0.whole = <<>> /\ Scan0.parser = PROTO_Init(FALSE) /\ Scan0.taken = 0
  BY DEF Scan0
<1>3. Decode(a, FALSE) = Parsed(Scan0.parser, a).data
  <2>1. FALSE \in BOOLEAN
    OBVIOUS
  <2> QED BY <1>1, <1>2, <2>1, DecodeIs
<1>4. Scan0.taken + Len(a) + 1 = Len(a) + 1
  <2>1. Len(a) \in Nat
    BY <1>1
  <2> QED BY <1>2, <2>1
<1>5. Scanned(Scan0, h) = [whole |-> Append(Scan0.whole, [msg |-> Parsed(Scan0.parser, a).data, len |-> Scan0.taken + Len(a) + 1]),
                           parser |-> PROTO_Init(FALSE), taken |-> 0]
  BY <1>1, ScannedFrame
<1>6. x \in Stretch
  <2>1. Parsed(Scan0.parser, a) \in Parser
    BY <1>1, ScanStateParts, ParsedTyped
  <2>2. Decode(a, FALSE) \in Seq(Char)
    BY <1>3, <2>1 DEF Parser
  <2>3. Len(a) + 1 \in Nat
    BY <1>1
  <2> HIDE DEF Char
  <2> QED BY <2>2, <2>3, Zenon DEF Stretch
<1> HIDE DEF h
<1>7. Scanned(Scan0, h) = Preceded(<<x>>, Scan0)
  <2>1. Scanned(Scan0, h) = [whole |-> Append(Scan0.whole, x), parser |-> PROTO_Init(FALSE), taken |-> 0]
    BY <1>3, <1>4, <1>5, Zenon
  <2>2. Append(Scan0.whole, x) = <<x>> /\ <<x>> \o Scan0.whole = <<x>>
    <3> HIDE DEF x
    <3>1. Append(<<>>, x) = <<x>> /\ <<x>> \o <<>> = <<x>>
      OBVIOUS
    <3> QED BY <1>2, <3>1, Zenon
  <2> HIDE DEF x
  <2> QED BY <1>2, <2>1, <2>2, Zenon DEF Preceded
<1> HIDE DEF x
<1>8. <<x>> \in Seq(Stretch)
  BY <1>6
<1>9. Scanned(Scan0, h \o d) = Preceded(<<x>>, Scanned(Scan0, d))
  <2> DEFINE u == <<x>>
  <2> HIDE DEF u
  <2>1. Scanned(Scan0, h \o d) = Scanned(Preceded(u, Scan0), d)
    BY <1>1, <1>7, ScannedConcat DEF u
  <2>2. Scanned(Preceded(u, Scan0), d) = Preceded(u, Scanned(Scan0, d))
    BY <1>1, <1>8, ScannedShift DEF u
  <2> QED BY <2>1, <2>2 DEF u
<1>10. Scanned(Scan0, d) \in ScanState
  BY <1>1, ScannedTyped
<1>11. Scanned(Scan0, h \o d).whole = <<x>> \o Scanned(Scan0, d).whole
  <2> DEFINE u == <<x>>
             z == Scanned(Scan0, d)
  <2> HIDE DEF u, z
  <2>1. Preceded(u, z).whole = u \o z.whole
    BY <1>8, <1>10, PrecededTyped DEF u, z
  <2> QED BY <1>9, <2>1 DEF u, z
<1>12. h \o d \in Seq(Char)
  BY <1>1, ConcatProperties
<1>13. Scan(h \o d) = <<x>> \o Scan(d)
  BY <1>11, <1>12, ScanIs
<1> QED BY <1>13 DEF h, x

\* No more messages are found than characters.
LEMMA ScanLen == ASSUME NEW r \in Seq(Char) PROVE Len(Scan(r)) \in Nat /\ Len(Scan(r)) <= Len(r)
<1> DEFINE T == {t \in Seq(Char) : Len(Scanned(Scan0, t).whole) <= Len(t)}
<1>0. Scan0 \in ScanState /\ Scan0.whole = <<>>
  BY ScanFnTyped DEF Scan0
<1>1. <<>> \in T
  <2>1. <<>> \in Seq(Char) /\ Len(<<>>) = 0 /\ 0 <= 0
    OBVIOUS
  <2>2. Scanned(Scan0, <<>>) = Scan0
    BY <1>0, ScannedEmpty
  <2>3. Len(Scanned(Scan0, <<>>).whole) <= Len(<<>>)
    BY <1>0, <2>1, <2>2, Zenon
  <2> QED BY <2>1, <2>3
<1>2. ASSUME NEW t \in Seq(Char), NEW v \in Char, t \in T PROVE Append(t, v) \in T
  <2> DEFINE z == Scanned(Scan0, t)
             y == ScanByte(z, v)
             u == z.whole
  <2>1. Append(t, v) \in Seq(Char) /\ Len(Append(t, v)) = Len(t) + 1 /\ Len(t) \in Nat
    OBVIOUS
  <2>2. z \in ScanState /\ Scanned(Scan0, Append(t, v)) = y
    BY <1>0, ScannedTyped, ScannedAppend
  <2>3. Len(u) <= Len(t)
    BY <1>2
  <2> HIDE DEF z
  <2>4. u \in Seq(Stretch) /\ Len(u) \in Nat
    <3>1. u \in Seq(Stretch)
      BY <2>2, ScanStateParts
    <3> HIDE DEF u
    <3> QED BY <3>1
  <2>5. Len(y.whole) <= Len(u) + 1
    <3>1. CASE v = End
      <4> DEFINE x == [msg |-> z.parser.data, len |-> z.taken + 1]
      <4>1. y = CutOff(z)
        BY <2>2, <3>1, ScanByteIs
      <4> HIDE DEF y
      <4>2. y.whole = Append(u, x)
        BY <4>1 DEF CutOff
      <4> HIDE DEF x, u
      <4>3. Len(Append(u, x)) = Len(u) + 1
        BY <2>4
      <4> QED BY <2>4, <4>2, <4>3
    <3>2. CASE v # End
      <4>1. y = [whole |-> z.whole, parser |-> PROTO_ParseByte(z.parser, v), taken |-> z.taken + 1]
        BY <2>2, <3>2, ScanByteIs
      <4> HIDE DEF y
      <4>2. y.whole = u
        BY <4>1
      <4> HIDE DEF u
      <4> QED BY <2>4, <4>2
    <3> QED BY <3>1, <3>2
  <2>6. Len(y.whole) \in Nat
    <3>1. y \in ScanState
      BY <1>0, <2>1, <2>2, ScannedTyped
    <3> HIDE DEF y
    <3>2. y.whole \in Seq(Stretch)
      BY <3>1, ScanStateParts
    <3> QED BY <3>2, LenProperties
  <2> HIDE DEF y, u
  <2>7. Len(y.whole) <= Len(t) + 1
    BY <2>1, <2>3, <2>4, <2>5, <2>6
  <2> QED BY <2>1, <2>2, <2>7
<1>3. Seq(Char) \subseteq T
  <2> HIDE DEF T
  <2> QED BY <1>1, <1>2, SeqInduct
<1>4. Len(Scanned(Scan0, r).whole) <= Len(r)
  BY <1>3
<1>5. Scan(r) = Scanned(Scan0, r).whole /\ Scan(r) \in Seq(Stretch)
  BY ScanIs, ScanTyped
<1> QED BY <1>4, <1>5, LenProperties, Zenon

-----------------------------------------------------------------------------
\* The calls of queue.c.

\* There is no 7F in r, or the first one is where SelectInSeq finds it.
LEMMA FirstEnd ==
  ASSUME NEW r \in Seq(Char)
  PROVE  LET e == SelectInSeq(r, LAMBDA v : v = End)
         IN \/ e = 0 /\ r \in Seq(Text)
            \/ e \in 1 .. Len(r) /\ r[e] = End /\ \A i \in 1 .. e - 1 : r[i] # End
<1> DEFINE I == {i \in 1 .. Len(r) : r[i] = End}
           e == SelectInSeq(r, LAMBDA v : v = End)
<1>1. e = IF I # {} THEN Min(I) ELSE 0
  BY DEF SelectInSeq
<1> HIDE DEF e
<1>2. CASE I = {}
  <2>1. \A i \in 1 .. Len(r) : r[i] \in Text
    <3>1. \A i \in 1 .. Len(r) : r[i] \in Char
      BY ElementOfSeq
    <3> QED BY <1>2, <3>1, Zenon DEF Text
  <2>2. r \in Seq(Text)
    <3> HIDE DEF I
    <3> QED BY <2>1
  <2> QED BY <1>1, <1>2, <2>2 DEF e
<1>3. CASE I # {}
  <2>1. I \in SUBSET Nat
    OBVIOUS
  <2>2. PICK x \in I : \A y \in I : x <= y
    <3> HIDE DEF I
    <3> QED BY <1>3, <2>1, Smallest
  <2>3. Min(I) \in I /\ \A y \in I : Min(I) <= y
    <3> HIDE DEF I
    <3> QED BY <2>2, Zenon DEF Min
  <2>4. e = Min(I)
    BY <1>1, <1>3
  <2>5. e \in I /\ \A y \in I : e <= y
    <3> HIDE DEF I
    <3> QED BY <2>3, <2>4, Zenon
  <2>6. e \in 1 .. Len(r) /\ r[e] = End
    BY <2>5
  <2>7. \A i \in 1 .. e - 1 : r[i] # End
    <3> SUFFICES ASSUME NEW i \in 1 .. e - 1, r[i] = End PROVE FALSE
      OBVIOUS
    <3>1. i \in 1 .. Len(r)
      BY <2>6
    <3>2. e <= i
      BY <2>5, <3>1
    <3> QED BY <2>6, <3>2
  <2> QED BY <2>6, <2>7 DEF e
<1> QED BY <1>2, <1>3

\* r is the text a, a 7F and d.
Takes(r, a, d) == r = Append(a, End) \o d

\* QUEUE_Gets takes no part of a message (queue.c:42-50).
LEMMA Gets ==
  ASSUME NEW r \in Seq(Char), NEW b \in BOOLEAN
  PROVE  \/ /\ r \in Seq(Text)
            /\ QUEUE_Gets(r, b) = [ok |-> FALSE, rb |-> <<>>, msg |-> <<>>]
         \/ \E a \in Seq(Text), d \in Seq(Char) :
              /\ Takes(r, a, d)
              /\ QUEUE_Gets(r, b) = [ok |-> TRUE, rb |-> d, msg |-> Decode(a, b)]
<1> DEFINE e == SelectInSeq(r, LAMBDA v : v = End)
<1>1. QUEUE_Gets(r, b) = IF e = 0 THEN [ok |-> FALSE, rb |-> <<>>, msg |-> <<>>]
        ELSE [ok |-> TRUE, rb |-> SubSeq(r, e + 1, Len(r)), msg |-> Decode(SubSeq(r, 1, e - 1), b)]
  BY DEF QUEUE_Gets
<1>2. \/ e = 0 /\ r \in Seq(Text)
      \/ e \in 1 .. Len(r) /\ r[e] = End /\ \A i \in 1 .. e - 1 : r[i] # End
  BY FirstEnd
<1> HIDE DEF e
<1>3. CASE e = 0 /\ r \in Seq(Text)
  BY <1>1, <1>3
<1>4. CASE e \in 1 .. Len(r) /\ r[e] = End /\ \A i \in 1 .. e - 1 : r[i] # End
  <2> DEFINE a == SubSeq(r, 1, e - 1)
             d == SubSeq(r, e + 1, Len(r))
             h == Append(a, End)
             n == Len(r)
  <2>1. n \in Nat /\ e \in 1 .. n /\ r[e] = End /\ e \in Nat /\ \A i \in 1 .. n : r[i] \in Char
    BY <1>4, ElementOfSeq
  <2>2. \A i \in 1 .. e - 1 : r[i] \in Text
    <3>1. \A i \in 1 .. e - 1 : i \in 1 .. n
      BY <2>1
    <3> HIDE DEF n
    <3> QED BY <1>4, <2>1, <3>1, Zenon DEF Text
  <2>3. a \in Seq(Text) /\ Len(a) = e - 1 /\ \A i \in 1 .. e - 1 : a[i] = r[i]
    <3>1. 1 \in Int /\ e - 1 \in Int /\ (1 <= e - 1 => e - 1 - 1 + 1 = e - 1) /\ (~(1 <= e - 1) => e - 1 = 0)
      BY <2>1
    <3>2. /\ a \in Seq(Text) /\ Len(a) = IF 1 <= e - 1 THEN e - 1 - 1 + 1 ELSE 0
          /\ \A i \in 1 .. e - 1 - 1 + 1 : a[i] = r[1 + i - 1]
      <4> HIDE DEF Text
      <4> QED BY <2>2, <3>1, SubSeqProperties
    <3>3. Len(a) = e - 1
      <4> HIDE DEF a
      <4> QED BY <3>1, <3>2
    <3>4. \A i \in 1 .. e - 1 : i \in 1 .. e - 1 - 1 + 1 /\ 1 + i - 1 = i
      BY <2>1
    <3> HIDE DEF a
    <3> QED BY <3>2, <3>3, <3>4
  <2>4. d \in Seq(Char) /\ Len(d) = n - e /\ \A i \in 1 .. n - e : d[i] = r[e + i]
    <3> HIDE DEF n
    <3>1. /\ e + 1 \in Int /\ n \in Int /\ \A i \in e + 1 .. n : r[i] \in Char
      BY <2>1
    <3>2. /\ SubSeq(r, e + 1, n) \in Seq(Char)
          /\ Len(SubSeq(r, e + 1, n)) = IF e + 1 <= n THEN n - (e + 1) + 1 ELSE 0
          /\ \A i \in 1 .. n - (e + 1) + 1 : SubSeq(r, e + 1, n)[i] = r[e + 1 + i - 1]
      <4> HIDE DEF Char
      <4> QED BY <3>1, SubSeqProperties
    <3> DEFINE s == SubSeq(r, e + 1, n)
    <3>3. s = d
      BY DEF n
    <3> HIDE DEF s, d
    <3>4. Len(s) = n - e
      BY <2>1, <3>2 DEF s
    <3>5. \A i \in 1 .. n - e : i \in 1 .. n - (e + 1) + 1 /\ e + 1 + i - 1 = e + i
      BY <2>1
    <3>6. \A i \in 1 .. n - e : s[i] = r[e + i]
      BY <3>2, <3>5 DEF s
    <3>7. s \in Seq(Char)
      BY <3>2 DEF s
    <3> QED BY <3>3, <3>4, <3>6, <3>7
  <2> HIDE DEF a, d
  <2>5. a \in Seq(Char) /\ End \in Char
    BY <2>3, TextSeq, CharTyped
  <2>6. h \in Seq(Char) /\ Len(h) = e /\ h[e] = End /\ \A i \in 1 .. e - 1 : h[i] = r[i]
    <3>1. h \in Seq(Char)
      BY <2>5, AppendProperties
    <3>2. Len(h) = e /\ h[e] = End
      BY <2>1, <2>3, <2>5
    <3>3. \A i \in 1 .. e - 1 : h[i] = a[i]
      BY <2>1, <2>3, <2>5
    <3> HIDE DEF h
    <3> QED BY <2>3, <3>1, <3>2, <3>3
  <2> HIDE DEF h, n
  <2>7. r = h \o d
    <3>0. h \in Seq(Char) /\ d \in Seq(Char)
      BY <2>4, <2>6, Zenon
    <3> DEFINE x == h \o d
    <3>1. /\ Len(x) = Len(h) + Len(d)
          /\ \A i \in 1 .. Len(h) : x[i] = h[i]
          /\ \A i \in 1 .. Len(d) : x[Len(h) + i] = d[i]
      BY <3>0, ConcatAt
    <3>2. x \in Seq(Char)
      BY <3>0, ConcatProperties
    <3> HIDE DEF x
    <3>3. Len(x) = n
      BY <2>1, <2>4, <2>6, <3>1
    <3>4. ASSUME NEW i \in 1 .. n PROVE x[i] = r[i]
      <4>1. CASE i \in 1 .. e - 1
        BY <2>1, <2>6, <3>1, <4>1
      <4>2. CASE i = e
        BY <2>1, <2>6, <3>1, <4>2
      <4>3. CASE i \notin 1 .. e
        <5> DEFINE k == i - e
        <5>1. k \in 1 .. n - e /\ e + k = i
          BY <2>1, <4>3
        <5> HIDE DEF k
        <5>2. d[k] = r[e + k]
          BY <2>4, <5>1, Zenon
        <5>3. x[e + k] = d[k]
          BY <2>4, <2>6, <3>1, <5>1, Zenon
        <5> QED BY <5>1, <5>2, <5>3, Zenon
      <4> QED BY <2>1, <4>1, <4>2, <4>3
    <3>5. x = r
      BY <3>2, <3>3, <3>4, SeqEqual DEF n
    <3> QED BY <3>5 DEF x
  <2>8. QUEUE_Gets(r, b) = [ok |-> TRUE, rb |-> d, msg |-> Decode(a, b)]
    <3>1. e # 0
      BY <2>1
    <3> QED BY <1>1, <3>1, Zenon DEF a, d
  <2> QED BY <2>3, <2>4, <2>7, <2>8 DEF Takes, h
<1> QED BY <1>2, <1>3, <1>4

\* A frame or a fragment starts wherever a reader may start.
Starts(r) == \A i \in 1 .. Len(r) : (i = 1 \/ r[i - 1] = End) => r[i] = Begin

\* A ring that the calls can have left.
Ring(r) == r \in Seq(Char) /\ Len(r) <= QUEUE_BUFFER_SIZE /\ Starts(r)

\* That stays so when something that starts with 7E and has a 7F at most at its end is
\* added.
LEMMA StartsConcat ==
  ASSUME NEW r \in Seq(Char), Starts(r), NEW g \in Seq(Char),
         g # <<>> => g[1] = Begin, \A i \in 2 .. Len(g) : g[i - 1] # End
  PROVE  Starts(r \o g)
<1> DEFINE n == Len(r)
           k == Len(g)
           x == r \o g
<1>1. n \in Nat /\ k \in Nat /\ Len(x) = n + k
      /\ (\A i \in 1 .. n : x[i] = r[i]) /\ (\A i \in 1 .. k : x[n + i] = g[i])
      /\ (k # 0 => g[1] = Begin)
  <2>1. n \in Nat /\ k \in Nat /\ (k # 0 => g # <<>>)
    OBVIOUS
  <2>2. /\ Len(x) = n + k
        /\ \A i \in 1 .. n : x[i] = r[i]
        /\ \A i \in 1 .. k : x[n + i] = g[i]
    BY ConcatAt
  <2> HIDE DEF x, n, k
  <2> QED BY <2>1, <2>2
<1>2. \A i \in 1 .. n : (i = 1 \/ r[i - 1] = End) => r[i] = Begin
  BY DEF Starts
<1> HIDE DEF x, n
<1>3. ASSUME NEW i \in 1 .. n + k, i = 1 \/ x[i - 1] = End PROVE x[i] = Begin
  <2>1. CASE i <= n
    <3>1. i \in 1 .. n /\ (i # 1 => i - 1 \in 1 .. n)
      BY <1>1, <2>1
    <3>2. i = 1 \/ r[i - 1] = End
      BY <1>1, <1>3, <3>1
    <3> QED BY <1>1, <1>2, <3>1, <3>2
  <2>2. CASE i = n + 1
    <3>1. 1 \in 1 .. k /\ k # 0
      BY <1>1, <2>2
    <3> QED BY <1>1, <2>2, <3>1
  <2>3. CASE i > n + 1
    <3> DEFINE j == i - n
    <3>1. j \in 2 .. k /\ j - 1 \in 1 .. k /\ n + (j - 1) = i - 1 /\ i # 1
      BY <1>1, <2>3
    <3> HIDE DEF j
    <3>2. x[i - 1] = g[j - 1] /\ g[j - 1] # End
      <4>1. x[n + (j - 1)] = g[j - 1]
        BY <1>1, <3>1
      <4>2. g[j - 1] # End
        BY <3>1
      <4> QED BY <3>1, <4>1, <4>2
    <3> QED BY <1>3, <3>1, <3>2
  <2> QED BY <1>1, <2>1, <2>2, <2>3
<1> QED BY <1>1, <1>3 DEF Starts, x

\* What is behind a 7F starts a frame or a fragment too, and so did what was in front.
LEMMA StartsRest ==
  ASSUME NEW a \in Seq(Text), NEW d \in Seq(Char), Starts(Append(a, End) \o d)
  PROVE  Starts(d) /\ a # <<>> /\ a[1] = Begin
<1> DEFINE h == Append(a, End)
           r == h \o d
           n == Len(a)
           k == Len(d)
<1>1. n \in Nat /\ k \in Nat /\ h \in Seq(Char) /\ Len(h) = n + 1 /\ h[n + 1] = End /\ \A i \in 1 .. n : h[i] = a[i]
  <2>1. a \in Seq(Char) /\ End \in Char
    BY TextSeq, CharTyped
  <2> QED BY <2>1
<1> HIDE DEF h, n
<1> DEFINE e == n + 1
<1>2. Len(r) = e + k /\ (\A i \in 1 .. e : r[i] = h[i]) /\ (\A i \in 1 .. k : r[e + i] = d[i])
  <2>1. /\ Len(r) = Len(h) + k
        /\ \A i \in 1 .. Len(h) : r[i] = h[i]
        /\ \A i \in 1 .. k : r[Len(h) + i] = d[i]
    <3>1. h \in Seq(Char) /\ d \in Seq(Char)
      BY <1>1, Zenon
    <3> QED BY <3>1, ConcatAt
  <2> HIDE DEF r, k
  <2> QED BY <1>1, <2>1, Zenon
<1>3. \A i \in 1 .. e + k : (i = 1 \/ r[i - 1] = End) => r[i] = Begin
  <2>1. Starts(r)
    BY DEF h
  <2> HIDE DEF r, e
  <2> QED BY <1>2, <2>1, Zenon DEF Starts
<1>e. e \in Nat /\ e >= 1 /\ h[e] = End /\ e = n + 1
  BY <1>1
<1> HIDE DEF r, e, k
<1>4. n # 0 /\ a[1] = Begin
  <2>1. 1 \in 1 .. e + k /\ 1 \in 1 .. e
    BY <1>1, <1>e
  <2>2. h[1] = Begin
    BY <1>2, <1>3, <2>1
  <2>3. n # 0
    <3>1. SUFFICES ASSUME n = 0 PROVE FALSE
      OBVIOUS
    <3>2. h[1] = End
      BY <1>1, <3>1
    <3> QED BY <2>2, <3>2, CharTyped, Zenon
  <2> QED BY <1>1, <2>2, <2>3
<1>5. ASSUME NEW i \in 1 .. k, i = 1 \/ d[i - 1] = End PROVE d[i] = Begin
  <2> DEFINE j == e + i
  <2>1. j \in 1 .. e + k
    BY <1>1, <1>e
  <2>2. r[j] = d[i]
    BY <1>2
  <2>3. r[j - 1] = End
    <3>1. CASE i = 1
      <4>1. j - 1 = e /\ e \in 1 .. e
        BY <1>e, <3>1
      <4> QED BY <1>e, <1>2, <4>1, Zenon
    <3>2. CASE i # 1
      <4>1. i - 1 \in 1 .. k /\ j - 1 = e + (i - 1)
        BY <1>1, <1>e, <3>2
      <4>2. r[e + (i - 1)] = d[i - 1]
        BY <1>2, <4>1
      <4> QED BY <1>5, <3>2, <4>1, <4>2, Zenon
    <3> QED BY <3>1, <3>2
  <2> HIDE DEF j
  <2> QED BY <1>3, <2>1, <2>2, <2>3
<1>6. a # <<>>
  <2>1. Len(<<>>) = 0
    OBVIOUS
  <2> QED BY <1>4, <2>1 DEF n
<1>7. Starts(d)
  BY <1>5 DEF Starts, k
<1> QED BY <1>4, <1>6, <1>7

\* A put that fits adds the frame,
LEMMA PutsFits ==
  ASSUME NEW m \in Msg, NEW r \in Seq(Char), Len(r) + Len(Frame[m]) <= QUEUE_BUFFER_SIZE
  PROVE  /\ QUEUE_Puts(r, m) = [ok |-> TRUE, rb |-> r \o Frame[m]]
         /\ Starts(r) => Ring(r \o Frame[m])
<1> DEFINE g == Frame[m]
           f == Body(m)
           x == r \o g
<1>0. f \in Seq(Text) /\ Len(f) \in Nat \ {0} /\ f[1] = Begin /\ g = Append(f, End)
  BY FrameIs, BodyTyped
<1>1. f \in Seq(Char) /\ End \in Char
  BY <1>0, TextSeq, CharTyped
<1>2. g \in Seq(Char) /\ Len(g) = Len(f) + 1 /\ \A i \in 1 .. Len(f) : g[i] = f[i]
  <2> HIDE DEF f, g
  <2> QED BY <1>0, <1>1
<1>3. x \in Seq(Char) /\ Len(x) = Len(r) + Len(g)
  <2> HIDE DEF g
  <2> QED BY <1>2, ConcatProperties
<1>4. Len(x) <= QUEUE_BUFFER_SIZE
  BY <1>3
<1>5. SubSeq(x, 1, Len(x)) = x
  <2> HIDE DEF x
  <2> QED BY <1>3, SubSeqFull
<1>6. QUEUE_Puts(r, m) = [ok |-> TRUE, rb |-> x]
  <2>1. QUEUE_Puts(r, m) = [ok |-> Len(x) <= QUEUE_BUFFER_SIZE, rb |-> SubSeq(x, 1, IF Len(x) <= QUEUE_BUFFER_SIZE THEN Len(x) ELSE QUEUE_BUFFER_SIZE)]
    BY DEF QUEUE_Puts
  <2> HIDE DEF x
  <2>2. (Len(x) <= QUEUE_BUFFER_SIZE) = TRUE
    BY <1>4
  <2>3. (IF Len(x) <= QUEUE_BUFFER_SIZE THEN Len(x) ELSE QUEUE_BUFFER_SIZE) = Len(x)
    BY <1>4
  <2> QED BY <1>5, <2>1, <2>2, <2>3, Zenon
<1>7. g[1] = Begin
  <2>1. 1 \in 1 .. Len(f)
    BY <1>0
  <2> QED BY <1>0, <1>2, <2>1, Zenon
<1>8. \A i \in 2 .. Len(g) : g[i - 1] # End
  <2> HIDE DEF f, g
  <2>1. \A i \in 1 .. Len(f) : f[i] \in Text
    BY <1>0, ElementOfSeq
  <2>2. \A i \in 1 .. Len(f) : g[i] # End
    BY <1>2, <2>1, Zenon DEF Text
  <2>3. \A i \in 2 .. Len(g) : i - 1 \in 1 .. Len(f)
    BY <1>0, <1>2
  <2> QED BY <2>2, <2>3, Zenon
<1>9. Starts(r) => Starts(x)
  <2> HIDE DEF g
  <2> QED BY <1>2, <1>7, <1>8, StartsConcat
<1> HIDE DEF x
<1>10. Starts(r) => Ring(x)
  BY <1>3, <1>4, <1>9 DEF Ring
<1> QED BY <1>6, <1>10, Zenon DEF x

\* and another fills the ring with a part of it that has no 7F (queue.c:32-40).
LEMMA PutsFull ==
  ASSUME NEW m \in Msg, NEW r \in Seq(Char), Len(r) <= QUEUE_BUFFER_SIZE,
         Len(r) + Len(Frame[m]) > QUEUE_BUFFER_SIZE
  PROVE  \E s \in Seq(Text) :
           /\ QUEUE_Puts(r, m) = [ok |-> FALSE, rb |-> r \o s]
           /\ Len(r \o s) = QUEUE_BUFFER_SIZE
           /\ Starts(r) => Ring(r \o s)
<1> DEFINE g == Frame[m]
           f == Body(m)
           x == r \o g
           N == QUEUE_BUFFER_SIZE
           k == N - Len(r)
           s == SubSeq(f, 1, k)
           y == SubSeq(x, 1, N)
<1>0. f \in Seq(Text) /\ Len(f) \in Nat \ {0} /\ f[1] = Begin /\ g = Append(f, End)
  BY FrameIs, BodyTyped
<1>1. f \in Seq(Char) /\ End \in Char /\ N \in Nat /\ N >= 2 /\ Len(r) \in Nat
  BY <1>0, TextSeq, CharTyped, QueueAssumption
<1>2. g \in Seq(Char) /\ Len(g) = Len(f) + 1 /\ \A i \in 1 .. Len(f) : g[i] = f[i]
  <2> HIDE DEF f, g
  <2> QED BY <1>0, <1>1
<1>3. x \in Seq(Char) /\ Len(x) = Len(r) + Len(g)
      /\ \A i \in 1 .. Len(r) + Len(g) : x[i] = IF i <= Len(r) THEN r[i] ELSE g[i - Len(r)]
  <2> HIDE DEF g
  <2> QED BY <1>2, ConcatProperties
<1>4. ~(Len(x) <= N) /\ Len(r) <= N /\ Len(x) \in Nat
  <2>1. Len(r) + Len(g) > N /\ Len(r) <= N
    OBVIOUS
  <2> HIDE DEF g, x, N, f
  <2>2. Len(g) \in Nat
    BY <1>0, <1>2
  <2> QED BY <1>1, <1>3, <2>1, <2>2
<1>5. k \in Nat /\ k <= Len(f) /\ k <= N
  <2>1. Len(r) + Len(g) > N
    OBVIOUS
  <2> HIDE DEF f, g, N
  <2> QED BY <1>0, <1>1, <1>2, <1>4, <2>1
<1>6. QUEUE_Puts(r, m) = [ok |-> FALSE, rb |-> y]
  <2>1. QUEUE_Puts(r, m) = [ok |-> Len(x) <= N, rb |-> SubSeq(x, 1, IF Len(x) <= N THEN Len(x) ELSE N)]
    BY DEF QUEUE_Puts
  <2> HIDE DEF x, N
  <2>2. (Len(x) <= N) = FALSE
    BY <1>4
  <2>3. (IF Len(x) <= N THEN Len(x) ELSE N) = N
    BY <1>4
  <2> QED BY <2>1, <2>2, <2>3, Zenon
<1> HIDE DEF x, g, f, N
<1>7. s \in Seq(Text) /\ Len(s) = k /\ \A i \in 1 .. k : s[i] = f[i]
  <2>0. \A i \in 1 .. Len(f) : f[i] \in Text
    BY <1>0, ElementOfSeq
  <2>1. \A i \in 1 .. k : f[i] \in Text
    BY <1>0, <1>5, <2>0
  <2> HIDE DEF k
  <2>2. 1 \in Int /\ k \in Int /\ k - 1 + 1 = k
    BY <1>5
  <2>3. /\ s \in Seq(Text) /\ Len(s) = (IF 1 <= k THEN k - 1 + 1 ELSE 0)
        /\ \A i \in 1 .. k - 1 + 1 : s[i] = f[1 + i - 1]
    <3> HIDE DEF Text
    <3> QED BY <2>1, <2>2, SubSeqProperties
  <2> HIDE DEF s
  <2>4. Len(s) = k
    BY <1>5, <2>2, <2>3
  <2>5. \A i \in 1 .. k : 1 + i - 1 = i
    BY <2>2
  <2> QED BY <2>2, <2>3, <2>4, <2>5
<1>8. y \in Seq(Char) /\ Len(y) = N /\ \A i \in 1 .. N : y[i] = x[i]
  <2>1. \A i \in 1 .. N : x[i] \in Char
    <3>1. \A i \in 1 .. Len(x) : x[i] \in Char
      BY <1>3, ElementOfSeq
    <3>2. \A i \in 1 .. N : i \in 1 .. Len(x)
      BY <1>1, <1>4
    <3> QED BY <3>1, <3>2, Zenon
  <2>2. 1 \in Int /\ N \in Int /\ N - 1 + 1 = N /\ 1 <= N
    BY <1>1
  <2>3. /\ y \in Seq(Char) /\ Len(y) = (IF 1 <= N THEN N - 1 + 1 ELSE 0)
        /\ \A i \in 1 .. N - 1 + 1 : y[i] = x[1 + i - 1]
    <3> HIDE DEF Char
    <3> QED BY <2>1, <2>2, SubSeqProperties
  <2> HIDE DEF y
  <2>5. \A i \in 1 .. N : 1 + i - 1 = i
    BY <2>2
  <2> QED BY <2>2, <2>3, <2>5
<1> HIDE DEF s, y
<1> DEFINE w == r \o s
<1>9. s \in Seq(Char)
  BY <1>7, TextSeq
<1>10. w \in Seq(Char) /\ Len(w) = Len(r) + Len(s) /\ \A i \in 1 .. Len(r) + Len(s) : w[i] = IF i <= Len(r) THEN r[i] ELSE s[i - Len(r)]
  BY <1>9, ConcatProperties
<1>11. Len(r) + Len(s) = N
  BY <1>1, <1>7 DEF k
<1> HIDE DEF w
<1>12. ASSUME NEW i \in 1 .. N PROVE y[i] = w[i]
  <2>1. CASE i <= Len(r)
    <3>1. i \in 1 .. Len(r) + Len(g) /\ i \in 1 .. Len(r) + Len(s)
      BY <1>1, <1>2, <1>0, <1>11, <2>1
    <3> QED BY <1>3, <1>8, <1>10, <2>1, <3>1, Zenon
  <2>2. CASE ~(i <= Len(r))
    <3> DEFINE j == i - Len(r)
    <3>1. j \in 1 .. k /\ j \in 1 .. Len(f) /\ i \in 1 .. Len(r) + Len(g) /\ i \in 1 .. Len(r) + Len(s)
      BY <1>0, <1>1, <1>2, <1>5, <1>11, <2>2 DEF k
    <3>2. x[i] = g[j] /\ w[i] = s[j]
      <4>1. x[i] = g[i - Len(r)]
        BY <1>3, <2>2, <3>1, Zenon
      <4>2. w[i] = s[i - Len(r)]
        BY <1>10, <2>2, <3>1, Zenon
      <4> QED BY <4>1, <4>2
    <3> HIDE DEF j
    <3>3. g[j] = f[j] /\ s[j] = f[j]
      BY <1>2, <1>7, <3>1, Zenon
    <3> QED BY <1>8, <3>2, <3>3, Zenon
  <2> QED BY <2>1, <2>2
<1>13. y = w
  BY <1>8, <1>10, <1>11, <1>12, SeqEqual
<1>14. s # <<>> => s[1] = Begin
  <2>1. s # <<>> => Len(s) # 0
    BY <1>9, EmptySeq
  <2>2. Len(s) # 0 => 1 \in 1 .. k
    BY <1>5, <1>7
  <2> QED BY <1>0, <1>7, <2>1, <2>2, Zenon
<1>15. \A i \in 2 .. Len(s) : s[i - 1] # End
  <2>1. \A i \in 1 .. Len(s) : s[i] \in Text
    BY <1>7, ElementOfSeq
  <2>2. \A i \in 2 .. Len(s) : i - 1 \in 1 .. Len(s)
    BY <1>5, <1>7
  <2> QED BY <2>1, <2>2, Zenon DEF Text
<1>16. Starts(r) => Starts(w)
  BY <1>9, <1>14, <1>15, StartsConcat DEF w
<1>17. Starts(r) => Ring(w)
  <2>1. Len(w) <= N
    BY <1>1, <1>10, <1>11
  <2> QED BY <1>10, <1>16, <2>1 DEF Ring, N
<1>18. Len(w) = QUEUE_BUFFER_SIZE
  BY <1>10, <1>11 DEF N
<1> QED BY <1>6, <1>7, <1>13, <1>17, <1>18 DEF w

-----------------------------------------------------------------------------
\* Making room.

\* A message that starts at its first character is decoded the same whatever the
\* parser's isBegin held.
LEMMA DecodeSame ==
  ASSUME NEW a \in Seq(Text), a # <<>>, a[1] = Begin, NEW b \in BOOLEAN
  PROVE  Decode(a, b) = Decode(a, FALSE)
<1> DEFINE h == <<Begin>>
           t == Tail(a)
<1>1. a \in Seq(Char) /\ Begin \in Char
  BY TextSeq, CharTyped
<1>2. t \in Seq(Char) /\ h \in Seq(Char) /\ a = h \o t
  <2>1. t \in Seq(Char) /\ Head(a) = Begin /\ h \in Seq(Char)
    BY <1>1
  <2>2. a = <<Head(a)>> \o t
    BY <1>1
  <2> QED BY <2>1, <2>2
<1>3. ASSUME NEW p \in Parser PROVE Parsed(p, a) = Parsed(Read(<<>>), t)
  <2>1. Parsed(p, h) = PROTO_ParseByte(p, Begin)
    BY <1>1, ParsedOne
  <2>2. PROTO_ParseByte(p, Begin) = Read(<<>>)
    <3>1. Esc # Begin
      BY CharTyped, Zenon
    <3> QED BY <3>1, Zenon DEF PROTO_ParseByte, Read
  <2> HIDE DEF h, t
  <2>3. Parsed(p, h \o t) = Parsed(Parsed(p, h), t)
    BY <1>2, ParsedConcat
  <2> QED BY <1>2, <2>1, <2>2, <2>3, Zenon
<1>4. PROTO_Init(b) \in Parser /\ PROTO_Init(FALSE) \in Parser
  BY InitParser
<1>5. Decode(a, b) = Parsed(PROTO_Init(b), a).data /\ Decode(a, FALSE) = Parsed(PROTO_Init(FALSE), a).data
  BY <1>1, DecodeIs
<1> QED BY <1>3, <1>4, <1>5

\* What is left of w behind its first n.
Rest(w, n) == SubSeq(w, n + 1, Len(w))

\* The loop of MQTT_Publish for the message m on the ring r: whether it fits at once; the
\* first n messages waiting are shorter than its frame;
Fits(r, m) == Len(r) + Len(Frame[m]) <= QUEUE_BUFFER_SIZE
Shorter(r, m, n) == \A j \in 1 .. n : Scan(r)[j].len < Len(Frame[m])

\* how it stands after n rounds that found no room,
PuttingAt(l, n, r, m) ==
  LET w == Scan(r)
  IN /\ l.state = "putting" /\ Ring(l.rb)
     /\ n <= Len(w) /\ Scan(l.rb) = Rest(w, n)
     /\ n = 0 => l.rb = r
     /\ n # 0 => ~Fits(r, m) /\ w[n].len = QUEUE_BUFFER_SIZE - Len(l.rb)
     /\ Shorter(r, m, n - 1)

\* when the message is in,
QueuedAfter(l, k, r, m) ==
  LET w == Scan(r)
  IN /\ l.state = "queued" /\ Ring(l.rb)
     /\ \E x \in Nat : Scan(l.rb) = Append(Rest(w, k), [msg |-> m, len |-> x])
     /\ k = 0 => Fits(r, m)
     /\ k # 0 => ~Fits(r, m) /\ w[k].len >= Len(Frame[m]) /\ Shorter(r, m, k - 1)

\* and when all is lost.
LostAll(l, r, m) ==
  /\ l.state = "failed" /\ l.rb = <<>> /\ ~Fits(r, m) /\ Shorter(r, m, Len(Scan(r)))

\* These are its ends.
Done(l, r, m) == (\E k \in 0 .. Len(Scan(r)) : QueuedAfter(l, k, r, m)) \/ LostAll(l, r, m)

\* Its elements.
LEMMA RestIs ==
  ASSUME NEW C, NEW w \in Seq(C), NEW k \in 0 .. Len(w)
  PROVE  /\ Rest(w, k) \in Seq(C) /\ Len(Rest(w, k)) = Len(w) - k
         /\ \A i \in 1 .. Len(w) - k : Rest(w, k)[i] = w[k + i]
<1> DEFINE n == Len(w)
           u == SubSeq(w, k + 1, n)
<1>1. n \in Nat /\ k \in Nat /\ k <= n /\ \A i \in 1 .. n : w[i] \in C
  BY ElementOfSeq
<1>2. u = Rest(w, k)
  BY DEF Rest
<1> HIDE DEF n
<1>3. k + 1 \in Int /\ n \in Int /\ \A i \in k + 1 .. n : w[i] \in C
  BY <1>1
<1>4. u \in Seq(C) /\ Len(u) = (IF k + 1 <= n THEN n - (k + 1) + 1 ELSE 0) /\ \A i \in 1 .. n - (k + 1) + 1 : u[i] = w[k + 1 + i - 1]
  BY <1>3, SubSeqProperties
<1> HIDE DEF u
<1>5. Len(u) = n - k
  BY <1>1, <1>4
<1>6. \A i \in 1 .. n - k : i \in 1 .. n - (k + 1) + 1 /\ k + 1 + i - 1 = k + i
  BY <1>1
<1>7. \A i \in 1 .. n - k : u[i] = w[k + i]
  BY <1>4, <1>6
<1> QED BY <1>2, <1>4, <1>5, <1>7, Zenon DEF n

\* Taking the first of what is left of w from n on.
LEMMA Peel ==
  ASSUME NEW C, NEW w \in Seq(C), NEW n \in 0 .. Len(w), NEW x \in C, NEW t \in Seq(C),
         Rest(w, n) = Cons(x, t)
  PROVE  n + 1 \in 1 .. Len(w) /\ w[n + 1] = x /\ t = Rest(w, n + 1)
<1> DEFINE k == Len(w)
           u == Rest(w, n)
           v == Rest(w, n + 1)
           y == <<x>> \o t
<1>1. k \in Nat /\ n \in Nat /\ n <= k /\ Len(t) \in Nat
  OBVIOUS
<1>2. Len(y) = 1 + Len(t) /\ y[1] = x /\ \A i \in 1 .. Len(t) : y[1 + i] = t[i]
  <2>1. <<x>> \in Seq(C) /\ Len(<<x>>) = 1 /\ <<x>>[1] = x /\ 1 \in 1 .. 1
    OBVIOUS
  <2> DEFINE h == <<x>>
  <2> HIDE DEF h
  <2>2. /\ Len(h \o t) = Len(h) + Len(t)
        /\ \A i \in 1 .. Len(h) : (h \o t)[i] = h[i]
        /\ \A i \in 1 .. Len(t) : (h \o t)[Len(h) + i] = t[i]
    BY <2>1, ConcatAt DEF h
  <2> QED BY <2>1, <2>2 DEF h
<1>3. u = y
  BY DEF Cons
<1> HIDE DEF k, y
<1>4. Len(u) = k - n /\ \A i \in 1 .. k - n : u[i] = w[n + i]
  BY RestIs DEF k
<1> HIDE DEF u
<1>5. n + 1 \in 1 .. k /\ Len(t) = k - n - 1 /\ 1 \in 1 .. k - n
  <2>1. 1 + Len(t) = k - n
    BY <1>2, <1>3, <1>4, Zenon
  <2> QED BY <1>1, <2>1
<1>6. w[n + 1] = x
  BY <1>2, <1>3, <1>4, <1>5
<1>7. v \in Seq(C) /\ Len(v) = k - n - 1 /\ \A i \in 1 .. k - n - 1 : v[i] = w[n + (1 + i)]
  <2> DEFINE j == n + 1
  <2>1. j \in 0 .. Len(w) /\ Len(w) - j = k - n - 1 /\ \A i \in 1 .. k - n - 1 : j + i = n + (1 + i)
    BY <1>1, <1>5 DEF k
  <2> HIDE DEF j
  <2>2. Rest(w, j) \in Seq(C) /\ Len(Rest(w, j)) = Len(w) - j /\ \A i \in 1 .. Len(w) - j : Rest(w, j)[i] = w[j + i]
    BY <2>1, RestIs
  <2> QED BY <2>1, <2>2, Zenon DEF j
<1> HIDE DEF v
<1>8. \A i \in 1 .. k - n - 1 : t[i] = v[i]
  <2> SUFFICES ASSUME NEW i \in 1 .. k - n - 1 PROVE t[i] = v[i]
    OBVIOUS
  <2> DEFINE j == 1 + i
  <2>1. j \in 1 .. k - n
    BY <1>1
  <2>2. y[j] = t[i] /\ v[i] = w[n + j]
    BY <1>2, <1>5, <1>7
  <2> HIDE DEF j
  <2> QED BY <1>3, <1>4, <2>1, <2>2
<1>9. t = v
  BY <1>5, <1>7, <1>8, SeqEqual
<1> QED BY <1>5, <1>6, <1>9 DEF k, v

\* A frame is a sequence of characters.
LEMMA FrameLen == ASSUME NEW m \in Msg PROVE Frame[m] \in Seq(Char) /\ Len(Frame[m]) \in Nat
<1>1. Body(m) \in Seq(Char) /\ End \in Char /\ Frame[m] = Append(Body(m), End)
  BY FrameIs, BodyTyped, TextSeq, CharTyped
<1> DEFINE f == Body(m)
<1> HIDE DEF f
<1>2. Append(f, End) \in Seq(Char)
  BY <1>1, AppendProperties DEF f
<1>3. Frame[m] \in Seq(Char)
  BY <1>1, <1>2, Zenon DEF f
<1> DEFINE g == Frame[m]
<1> HIDE DEF g
<1>4. Len(g) \in Nat
  BY <1>3, LenProperties DEF g
<1> QED BY <1>3, <1>4 DEF g

\* A ring that has a whole message in it.
LEMMA TakeFirst ==
  ASSUME NEW r, Ring(r), NEW a \in Seq(Text), NEW d \in Seq(Char), Takes(r, a, d)
  PROVE  /\ Ring(d)
         /\ \A b \in BOOLEAN : Decode(a, b) = Decode(a, FALSE)
         /\ \E x \in Stretch : x.msg = Decode(a, FALSE) /\ x.len = Len(r) - Len(d) /\ Scan(r) = Cons(x, Scan(d))
<1> DEFINE h == Append(a, End)
           x == [msg |-> Decode(a, FALSE), len |-> Len(a) + 1]
<1>1. r = h \o d /\ r \in Seq(Char) /\ Len(r) <= QUEUE_BUFFER_SIZE /\ Starts(r)
  BY Zenon DEF Takes, Ring
<1>2. a \in Seq(Char) /\ End \in Char /\ h \in Seq(Char) /\ Len(h) = Len(a) + 1 /\ Len(a) \in Nat /\ Len(d) \in Nat
  <2>1. a \in Seq(Char) /\ End \in Char
    BY TextSeq, CharTyped
  <2> QED BY <2>1
<1>3. Starts(h \o d)
  BY <1>1, Zenon
<1>4. Starts(d) /\ a # <<>> /\ a[1] = Begin
  BY <1>3, StartsRest
<1>5. Len(r) = Len(a) + 1 + Len(d)
  <2> HIDE DEF h
  <2>1. Len(h \o d) = Len(h) + Len(d)
    BY <1>2, ConcatProperties
  <2> QED BY <1>1, <1>2, <2>1
<1>6. Ring(d)
  <2>1. Len(d) <= QUEUE_BUFFER_SIZE
    BY <1>1, <1>2, <1>5, QueueAssumption
  <2> QED BY <1>4, <2>1 DEF Ring
<1>7. \A b \in BOOLEAN : Decode(a, b) = Decode(a, FALSE)
  BY <1>4, DecodeSame
<1>8. Scan(h \o d) = Cons(x, Scan(d))
  BY ScanFirst DEF Cons
<1>9. x \in Stretch
  <2>1. FALSE \in BOOLEAN /\ PROTO_Init(FALSE) \in Parser
    BY InitParser
  <2>2. Decode(a, FALSE) = Parsed(PROTO_Init(FALSE), a).data /\ Parsed(PROTO_Init(FALSE), a) \in Parser
    BY <1>2, <2>1, DecodeIs, ParsedTyped
  <2>3. Decode(a, FALSE) \in Seq(Char)
    BY <2>2 DEF Parser
  <2>4. Len(a) + 1 \in Nat
    BY <1>2
  <2> HIDE DEF Char
  <2> QED BY <2>3, <2>4, Zenon DEF Stretch
<1>10. x.msg = Decode(a, FALSE) /\ x.len = Len(r) - Len(d)
  <2>1. x.msg = Decode(a, FALSE) /\ x.len = Len(a) + 1
    OBVIOUS
  <2> HIDE DEF x
  <2> QED BY <1>2, <1>5, <2>1
<1> HIDE DEF x, h
<1> QED BY <1>1, <1>6, <1>7, <1>8, <1>9, <1>10, Zenon

\* A round leaves the loop where the next one starts, or ends it: the room the message finds
\* is what the last eviction made, because the put before had filled the ring
\* (mqtt.c:521-527).
LEMMA RoundStep ==
  ASSUME NEW r, Ring(r), NEW m \in Msg, NEW l, NEW n \in Nat, PuttingAt(l, n, r, m)
  PROVE  PuttingAt(Round(l, m), n + 1, r, m) \/ Done(Round(l, m), r, m)
<1> DEFINE w == Scan(r)
           N == QUEUE_BUFFER_SIZE
           need == Len(Frame[m])
           q == l.rb
           p == QUEUE_Puts(q, m)
           g == QUEUE_Gets(p.rb, FALSE)
           o == Round(l, m)
<1>1. /\ l.state = "putting" /\ Ring(q) /\ n <= Len(w) /\ Scan(q) = Rest(w, n)
      /\ (n = 0 => q = r) /\ (n # 0 => ~Fits(r, m) /\ w[n].len = N - Len(q)) /\ Shorter(r, m, n - 1)
  BY Zenon DEF PuttingAt
<1>2. /\ w \in Seq(Stretch) /\ Len(w) \in Nat /\ r \in Seq(Char) /\ q \in Seq(Char) /\ Len(q) <= N /\ Starts(q)
      /\ N \in Nat /\ need \in Nat /\ Len(q) \in Nat
  <2>1. r \in Seq(Char) /\ q \in Seq(Char) /\ Len(q) <= N /\ Starts(q)
    BY <1>1, Zenon DEF Ring
  <2>2. w \in Seq(Stretch)
    BY <2>1, ScanTyped
  <2>3. Len(w) \in Nat
    BY <2>1, ScanLen
  <2> HIDE DEF w, q
  <2> QED BY <2>1, <2>2, <2>3, FrameLen, QueueAssumption, LenProperties
<1>3. o = IF p.ok THEN [state |-> "queued", rb |-> p.rb]
          ELSE [state |-> IF g.ok THEN "putting" ELSE "failed", rb |-> g.rb]
  BY <1>1, Zenon DEF Round
<1>4. \A i \in 1 .. Len(w) : w[i].len \in Nat
  <2>1. \A i \in 1 .. Len(w) : w[i] \in Stretch
    BY <1>2, ElementOfSeq
  <2> QED BY <2>1 DEF Stretch
<1>5. CASE Len(q) + need <= N
  <2> DEFINE f == Frame[m]
             y == q \o f
  <2>1. p = [ok |-> TRUE, rb |-> y] /\ Ring(y)
    <3> HIDE DEF q, p
    <3> QED BY <1>2, <1>5, PutsFits DEF p
  <2>2. o = [state |-> "queued", rb |-> y]
    <3> HIDE DEF g, p, y, o
    <3>1. p.ok = TRUE /\ p.rb = y
      BY <2>1
    <3> QED BY <1>3, <3>1
  <2>3. o.state = "queued" /\ o.rb = y
    <3> HIDE DEF o, y
    <3> QED BY <2>2
  <2>4. PICK x \in Nat : Scan(y) = Append(Scan(q), [msg |-> m, len |-> x])
    <3> HIDE DEF q
    <3> QED BY <1>2, ScanThenFrame
  <2>5. n = 0 => Fits(r, m)
    BY <1>1, <1>5 DEF Fits
  <2>6. n # 0 => ~Fits(r, m) /\ w[n].len >= need
    <3> SUFFICES ASSUME n # 0 PROVE ~Fits(r, m) /\ w[n].len >= need
      OBVIOUS
    <3>1. ~Fits(r, m) /\ w[n].len = N - Len(q)
      BY <1>1, Zenon
    <3> HIDE DEF w, N, q, need
    <3>2. w[n].len >= need
      BY <1>2, <1>5, <3>1
    <3> QED BY <3>1, <3>2
  <2>7. QueuedAfter(o, n, r, m)
    <3> HIDE DEF o
    <3> QED BY <1>1, <2>1, <2>3, <2>4, <2>5, <2>6, Zenon DEF QueuedAfter
  <2>8. n \in 0 .. Len(w)
    <3> HIDE DEF w
    <3> QED BY <1>1, <1>2
  <2> QED BY <2>7, <2>8, Zenon DEF Done
<1>6. CASE ~(Len(q) + need <= N)
  <2>1. Len(q) + Len(Frame[m]) > QUEUE_BUFFER_SIZE
    <3> HIDE DEF q
    <3> QED BY <1>2, <1>6
  <2>2. PICK s \in Seq(Text) : p = [ok |-> FALSE, rb |-> q \o s] /\ Len(q \o s) = QUEUE_BUFFER_SIZE /\ Ring(q \o s)
    <3> HIDE DEF q, p
    <3> QED BY <1>2, <2>1, PutsFull DEF p
  <2> DEFINE y == q \o s
  <2>3. p.ok = FALSE /\ p.rb = y
    <3> HIDE DEF p, y
    <3> QED BY <2>2 DEF y
  <2>4. Ring(y) /\ Len(y) = N /\ y \in Seq(Char) /\ Scan(y) = Rest(w, n)
    <3>1. Scan(y) = Scan(q)
      <4> HIDE DEF q
      <4> QED BY <1>2, ScanThenText
    <3> QED BY <1>1, <2>2, <3>1, Zenon DEF Ring
  <2>5. ~Fits(r, m)
    <3>1. n = 0 => ~Fits(r, m)
      BY <1>1, <1>6 DEF Fits
    <3> QED BY <1>1, <3>1
  <2>6. Shorter(r, m, n)
    <3>1. n # 0 => w[n].len < need
      <4> SUFFICES ASSUME n # 0 PROVE w[n].len < need
        OBVIOUS
      <4>1. w[n].len = N - Len(q)
        BY <1>1, Zenon
      <4> HIDE DEF w, N, q, need
      <4> QED BY <1>2, <1>6, <4>1
    <3>2. \A j \in 1 .. n - 1 : w[j].len < need
      BY <1>1, Zenon DEF Shorter
    <3>3. \A j \in 1 .. n : j \in 1 .. n - 1 \/ (j = n /\ n # 0)
      OBVIOUS
    <3> HIDE DEF w, need
    <3>4. \A j \in 1 .. n : w[j].len < need
      BY <3>1, <3>2, <3>3, Zenon
    <3> QED BY <3>4, Zenon DEF Shorter, w, need
  <2> HIDE DEF y
  <2>7. \/ y \in Seq(Text) /\ g = [ok |-> FALSE, rb |-> <<>>, msg |-> <<>>]
        \/ \E a \in Seq(Text), d \in Seq(Char) : Takes(y, a, d) /\ g = [ok |-> TRUE, rb |-> d, msg |-> Decode(a, FALSE)]
    <3>1. g = QUEUE_Gets(y, FALSE)
      BY <2>3, Zenon
    <3> HIDE DEF g
    <3>2. FALSE \in BOOLEAN
      OBVIOUS
    <3> QED BY <2>4, <3>1, <3>2, Gets
  <2>8. CASE y \in Seq(Text) /\ g = [ok |-> FALSE, rb |-> <<>>, msg |-> <<>>]
    <3>1. o = [state |-> "failed", rb |-> <<>>]
      <4> HIDE DEF g, p, o
      <4>1. g.ok = FALSE /\ g.rb = <<>>
        BY <2>8
      <4> QED BY <1>3, <2>3, <4>1
    <3>2. o.state = "failed" /\ o.rb = <<>>
      <4> HIDE DEF o
      <4> QED BY <3>1
    <3>3. Scan(y) = <<>>
      BY <2>8, ScanText
    <3>4. n = Len(w)
      <4>1. SUFFICES ASSUME n < Len(w) PROVE FALSE
        <5> HIDE DEF w
        <5> QED BY <1>1, <1>2
      <4>2. SubSeq(w, n + 1, Len(w)) = <<>>
        BY <2>4, <3>3, Zenon DEF Rest
      <4> HIDE DEF w
      <4>3. \A i \in n + 1 .. Len(w) : w[i] \in Stretch
        BY <1>2, ElementOfSeq
      <4>4. Len(SubSeq(w, n + 1, Len(w))) = IF n + 1 <= Len(w) THEN Len(w) - (n + 1) + 1 ELSE 0
        BY <1>2, <4>3, SubSeqProperties
      <4>5. Len(<<>>) = 0
        OBVIOUS
      <4>6. Len(SubSeq(w, n + 1, Len(w))) = 0
        BY <4>2, <4>5, Zenon
      <4>7. Len(w) \in Nat
        BY <1>2
      <4> QED BY <4>1, <4>4, <4>6, <4>7
    <3>5. LostAll(o, r, m)
      <4> HIDE DEF o
      <4> QED BY <2>5, <2>6, <3>2, <3>4, Zenon DEF LostAll
    <3> QED BY <3>5, Zenon DEF Done
  <2>9. ASSUME NEW a \in Seq(Text), NEW d \in Seq(Char), Takes(y, a, d),
               g = [ok |-> TRUE, rb |-> d, msg |-> Decode(a, FALSE)]
        PROVE  PuttingAt(o, n + 1, r, m)
    <3>1. o = [state |-> "putting", rb |-> d]
      <4> HIDE DEF g, p, o
      <4>1. g.ok = TRUE /\ g.rb = d
        BY <2>9
      <4> QED BY <1>3, <2>3, <4>1
    <3>2. o.state = "putting" /\ o.rb = d
      <4> HIDE DEF o
      <4> QED BY <3>1
    <3>3. Ring(d)
      BY <2>4, <2>9, TakeFirst
    <3>4. PICK x \in Stretch : x.len = Len(y) - Len(d) /\ Scan(y) = Cons(x, Scan(d))
      BY <2>4, <2>9, TakeFirst
    <3>5. Scan(d) \in Seq(Stretch)
      BY ScanTyped
    <3>6. n + 1 \in 1 .. Len(w) /\ w[n + 1] = x /\ Scan(d) = Rest(w, n + 1)
      <4> DEFINE t == Scan(d)
      <4>1. Rest(w, n) = Cons(x, t)
        BY <2>4, <3>4, Zenon
      <4>2. n \in 0 .. Len(w)
        <5> HIDE DEF w
        <5> QED BY <1>1, <1>2
      <4> HIDE DEF w, t
      <4>3. n + 1 \in 1 .. Len(w) /\ w[n + 1] = x /\ t = Rest(w, n + 1)
        <5>1. w \in Seq(Stretch) /\ t \in Seq(Stretch) /\ x \in Stretch
          BY <1>2, <3>5 DEF t
        <5> HIDE DEF Stretch
        <5> QED BY <4>1, <4>2, <5>1, Peel
      <4> QED BY <4>3 DEF t
    <3> DEFINE k == n + 1
    <3>k. Scan(d) = Rest(w, k)
      BY <3>6
    <3>7. k <= Len(w) /\ k # 0 /\ k - 1 = n
      BY <3>6
    <3>8. w[k].len = N - Len(d)
      BY <2>4, <3>4, <3>6
    <3> HIDE DEF k, o, g
    <3>9. Scan(o.rb) = Rest(w, k) /\ w[k].len = N - Len(o.rb) /\ Shorter(r, m, k - 1) /\ Ring(o.rb)
      BY <2>6, <3>2, <3>3, <3>k, <3>7, <3>8, Zenon
    <3>10. PuttingAt(o, k, r, m)
      BY <2>5, <3>2, <3>7, <3>9, Zenon DEF PuttingAt
    <3> QED BY <3>10, Zenon DEF k
  <2> HIDE DEF g, o
  <2> QED BY <2>7, <2>8, <2>9 DEF o
<1> QED BY <1>5, <1>6

\* The states of the loop.
LoopState == [state : {"putting", "queued", "failed"}, rb : {r \in Seq(Char) : Ring(r)}]

\* A round leads to a state of the loop.
LEMMA RoundTyped == ASSUME NEW l \in LoopState, NEW m \in Msg PROVE Round(l, m) \in LoopState
<1> DEFINE q == l.rb
           p == QUEUE_Puts(q, m)
           g == QUEUE_Gets(p.rb, FALSE)
           o == Round(l, m)
<1>1. q \in Seq(Char) /\ Ring(q) /\ Starts(q) /\ Len(q) <= QUEUE_BUFFER_SIZE /\ Len(q) \in Nat
  <2>1. q \in Seq(Char) /\ Ring(q)
    BY DEF LoopState
  <2> HIDE DEF q
  <2>2. Len(q) \in Nat
    BY <2>1, LenProperties
  <2> QED BY <2>1, <2>2 DEF Ring
<1>2. o = IF l.state # "putting" THEN l ELSE IF p.ok THEN [state |-> "queued", rb |-> p.rb]
          ELSE [state |-> IF g.ok THEN "putting" ELSE "failed", rb |-> g.rb]
  BY Zenon DEF Round
<1> HIDE DEF q, o
<1>3. (p.ok \in BOOLEAN) /\ Ring(p.rb)
  <2>1. CASE Len(q) + Len(Frame[m]) <= QUEUE_BUFFER_SIZE
    <3> DEFINE y == q \o Frame[m]
    <3>1. p = [ok |-> TRUE, rb |-> y] /\ Ring(y)
      BY <1>1, <2>1, PutsFits
    <3> HIDE DEF p, y
    <3> QED BY <3>1
  <2>2. CASE Len(q) + Len(Frame[m]) > QUEUE_BUFFER_SIZE
    <3>1. PICK s \in Seq(Text) : p = [ok |-> FALSE, rb |-> q \o s] /\ Ring(q \o s)
      BY <1>1, <2>2, PutsFull
    <3> DEFINE y == q \o s
    <3> HIDE DEF p, y
    <3>2. p = [ok |-> FALSE, rb |-> y] /\ Ring(y)
      BY <3>1 DEF y
    <3> QED BY <3>2
  <2>3. Len(Frame[m]) \in Nat
    BY FrameLen
  <2> QED BY <1>1, <2>1, <2>2, <2>3, QueueAssumption
<1> HIDE DEF p
<1>4. (g.ok \in BOOLEAN) /\ Ring(g.rb)
  <2> DEFINE y == p.rb
  <2>1. y \in Seq(Char) /\ FALSE \in BOOLEAN
    BY <1>3 DEF Ring
  <2>2. g = QUEUE_Gets(y, FALSE)
    OBVIOUS
  <2> HIDE DEF y, g
  <2>3. \/ y \in Seq(Text) /\ g = [ok |-> FALSE, rb |-> <<>>, msg |-> <<>>]
        \/ \E a \in Seq(Text), d \in Seq(Char) : Takes(y, a, d) /\ g = [ok |-> TRUE, rb |-> d, msg |-> Decode(a, FALSE)]
    BY <2>1, <2>2, Gets
  <2>4. CASE g = [ok |-> FALSE, rb |-> <<>>, msg |-> <<>>]
    <3>1. g.ok = FALSE /\ g.rb = <<>>
      BY <2>4
    <3>2. Ring(<<>>)
      <4>1. <<>> \in Seq(Char) /\ Len(<<>>) = 0
        OBVIOUS
      <4>2. Starts(<<>>)
        BY <4>1 DEF Starts
      <4>3. 0 <= QUEUE_BUFFER_SIZE
        BY QueueAssumption
      <4> QED BY <4>1, <4>2, <4>3, Zenon DEF Ring
    <3> QED BY <3>1, <3>2
  <2>5. ASSUME NEW a \in Seq(Text), NEW d \in Seq(Char), Takes(y, a, d), g = [ok |-> TRUE, rb |-> d, msg |-> Decode(a, FALSE)]
        PROVE  (g.ok \in BOOLEAN) /\ Ring(g.rb)
    <3>1. g.ok = TRUE /\ g.rb = d
      BY <2>5
    <3>2. Ring(d)
      BY <1>3, <2>5, TakeFirst DEF y
    <3> QED BY <3>1, <3>2
  <2> QED BY <2>3, <2>4, <2>5
<1> HIDE DEF g
<1>5. p.rb \in {r \in Seq(Char) : Ring(r)} /\ g.rb \in {r \in Seq(Char) : Ring(r)}
  BY <1>3, <1>4 DEF Ring
<1>6. CASE l.state # "putting"
  <2>1. o = l
    BY <1>2, <1>6, Zenon
  <2> QED BY <2>1 DEF o
<1>7. CASE l.state = "putting" /\ p.ok
  <2>1. o = [state |-> "queued", rb |-> p.rb]
    BY <1>2, <1>7
  <2> QED BY <1>5, <2>1 DEF o, LoopState
<1>8. CASE l.state = "putting" /\ ~p.ok
  <2>1. o = [state |-> IF g.ok THEN "putting" ELSE "failed", rb |-> g.rb]
    BY <1>2, <1>8
  <2> QED BY <1>5, <2>1 DEF o, LoopState
<1> QED BY <1>6, <1>7, <1>8 DEF o

\* What the loop makes of the ring.
LEMMA MakeRoomDoes ==
  ASSUME NEW r, Ring(r), NEW m \in Msg
  PROVE  Done(MakeRoom(r, m), r, m)
<1> DEFINE N == QUEUE_BUFFER_SIZE + 1
           l0 == [state |-> "putting", rb |-> r]
           Is(F) == F = [n \in 0 .. N |-> IF n = 0 THEN l0 ELSE Round(F[n - 1], m)]
           F == CHOOSE G : Is(G)
           w == Scan(r)
           h == [x \in (1 .. N) \X LoopState |-> Round(x[2], m)]
<1>1. r \in Seq(Char) /\ w \in Seq(Stretch) /\ Len(w) \in Nat /\ Len(w) < N /\ N \in Nat
  <2>1. r \in Seq(Char) /\ Len(r) <= QUEUE_BUFFER_SIZE /\ Len(r) \in Nat
    <3>1. r \in Seq(Char) /\ Len(r) <= QUEUE_BUFFER_SIZE
      BY DEF Ring
    <3> QED BY <3>1, LenProperties
  <2>2. w \in Seq(Stretch) /\ Len(w) \in Nat /\ Len(w) <= Len(r)
    BY <2>1, ScanTyped, ScanLen
  <2> HIDE DEF w
  <2> QED BY <2>1, <2>2, QueueAssumption
<1>2. l0 \in LoopState
  BY <1>1 DEF LoopState
<1>3. MakeRoom(r, m) = F[N]
  BY Zenon DEF MakeRoom
<1>4. \A i \in 1 .. N, l \in LoopState : h[<<i, l>>] = Round(l, m)
  <2> HIDE DEF N
  <2> QED OBVIOUS
<1>5. h \in Steps(N, LoopState)
  <2> HIDE DEF N
  <2>1. ASSUME NEW x \in (1 .. N) \X LoopState PROVE Round(x[2], m) \in LoopState
    <3>1. x[2] \in LoopState
      OBVIOUS
    <3> QED BY <3>1, RoundTyped
  <2>2. h \in [(1 .. N) \X LoopState -> LoopState]
    BY <2>1, Zenon
  <2> HIDE DEF h
  <2> QED BY <2>2, Zenon DEF Steps
<1>6. PICK g : Recurs(g, LoopState, N, l0, h)
  <2> HIDE DEF h, l0, N
  <2> QED BY <1>1, <1>2, <1>5, Recursion, Zenon
<1> HIDE DEF h
<1>7. Is(g)
  <2> HIDE DEF l0, N
  <2>1. g \in [0 .. N -> LoopState] /\ g[0] = l0 /\ \A i \in 1 .. N : g[i] = h[<<i, g[i - 1]>>]
    BY <1>6, Zenon DEF Recurs
  <2>2. \A i \in 1 .. N : i - 1 \in 0 .. N
    BY <1>1
  <2>3. \A i \in 1 .. N : g[i - 1] \in LoopState
    BY <2>1, <2>2
  <2>4. \A i \in 1 .. N : g[i] = Round(g[i - 1], m)
    BY <1>4, <2>1, <2>3, Zenon
  <2>5. g = [i \in 0 .. N |-> g[i]]
    BY <2>1
  <2>6. \A i \in 0 .. N : i = 0 \/ (i \in 1 .. N /\ i # 0)
    BY <1>1
  <2>7. \A i \in 0 .. N : g[i] = IF i = 0 THEN l0 ELSE Round(g[i - 1], m)
    BY <2>1, <2>4, <2>6, Zenon
  <2>8. g = [i \in 0 .. N |-> IF i = 0 THEN l0 ELSE Round(g[i - 1], m)]
    BY <2>5, <2>7
  <2> QED BY <2>8, Zenon
<1>8. Is(F)
  <2> HIDE DEF Is
  <2> QED BY <1>7, Zenon
<1>9. F[0] = l0 /\ \A i \in 1 .. N : F[i] = Round(F[i - 1], m)
  <2> HIDE DEF F, l0, N
  <2> QED BY <1>1, <1>8
<1> HIDE DEF F, Is
<1> DEFINE T == {n \in 0 .. N : PuttingAt(F[n], n, r, m) \/ Done(F[n], r, m)}
<1>10. 0 \in T
  <2>1. l0.state = "putting" /\ l0.rb = r
    OBVIOUS
  <2>2. w = Rest(w, 0)
    <3> HIDE DEF w
    <3>1. 0 + 1 = 1 /\ SubSeq(w, 1, Len(w)) = w
      BY <1>1, SubSeqFull
    <3> QED BY <3>1 DEF Rest
  <2>3. Shorter(r, m, 0 - 1)
    BY DEF Shorter
  <2>4. 0 <= Len(w) /\ 0 \in 0 .. N
    <3> HIDE DEF w, N
    <3> QED BY <1>1
  <2> HIDE DEF l0
  <2>5. PuttingAt(l0, 0, r, m)
    BY <2>1, <2>2, <2>3, <2>4, Zenon DEF PuttingAt
  <2> HIDE DEF N
  <2> QED BY <1>9, <2>4, <2>5
<1>11. ASSUME NEW n \in 0 .. N - 1, n \in T PROVE n + 1 \in T
  <2> HIDE DEF N, l0
  <2>1. n \in Nat /\ n + 1 \in 1 .. N /\ n + 1 \in 0 .. N /\ (n + 1) - 1 = n
    BY <1>1
  <2>2. F[n + 1] = Round(F[n], m)
    <3> DEFINE k == n + 1
    <3>1. k \in 1 .. N /\ k - 1 = n
      BY <2>1
    <3> HIDE DEF k
    <3>2. F[k] = Round(F[k - 1], m)
      BY <1>9, <3>1, Zenon
    <3> QED BY <3>1, <3>2 DEF k
  <2>3. PuttingAt(F[n], n, r, m) \/ Done(F[n], r, m)
    BY <1>11, Zenon
  <2>4. CASE PuttingAt(F[n], n, r, m)
    BY <2>1, <2>2, <2>4, RoundStep
  <2>5. CASE Done(F[n], r, m)
    <3>1. F[n].state # "putting"
      <4>1. F[n].state = "queued" \/ F[n].state = "failed"
        BY <2>5, Zenon DEF Done, QueuedAfter, LostAll
      <4> QED BY <4>1
    <3>2. Round(F[n], m) = F[n]
      BY <3>1, Zenon DEF Round
    <3>3. Done(F[n + 1], r, m)
      BY <2>2, <2>5, <3>2, Zenon
    <3> QED BY <2>1, <3>3
  <2> QED BY <2>3, <2>4, <2>5
<1>12. 0 .. N \subseteq T
  <2> HIDE DEF T, N
  <2> QED BY <1>1, <1>10, <1>11, UpTo
<1>13. N \in T
  <2> HIDE DEF T, N
  <2>1. N \in 0 .. N
    BY <1>1
  <2> QED BY <1>12, <2>1, Zenon
<1>14. PuttingAt(F[N], N, r, m) \/ Done(F[N], r, m)
  <2> HIDE DEF N
  <2> QED BY <1>13, Zenon
<1>15. ~PuttingAt(F[N], N, r, m)
  <2> HIDE DEF N
  <2>1. ~(N <= Len(w))
    <3> HIDE DEF w
    <3> QED BY <1>1
  <2> QED BY <2>1, Zenon DEF PuttingAt
<1> QED BY <1>3, <1>14, <1>15

-----------------------------------------------------------------------------
\* The steps, and what follows.

\* The messages of what a scan finds.
Msgs(w) == [k \in DOMAIN w |-> w[k].msg]

\* They are as many.
LEMMA MsgsAre ==
  ASSUME NEW w \in Seq(Stretch)
  PROVE  Msgs(w) \in Seq(Seq(Char)) /\ Len(Msgs(w)) = Len(w) /\ \A i \in 1 .. Len(w) : Msgs(w)[i] = w[i].msg
<1>1. DOMAIN w = 1 .. Len(w) /\ Len(w) \in Nat /\ \A i \in 1 .. Len(w) : w[i] \in Stretch
  BY ElementOfSeq
<1>2. \A i \in 1 .. Len(w) : w[i].msg \in Seq(Char)
  BY <1>1 DEF Stretch
<1> DEFINE f == [k \in 1 .. Len(w) |-> w[k].msg]
<1>3. Msgs(w) = f
  BY <1>1 DEF Msgs
<1>4. f \in Seq(Seq(Char)) /\ Len(f) = Len(w)
  <2> DEFINE S == Seq(Char)
             n == Len(w)
  <2>1. f \in [1 .. n -> S] /\ n \in Nat
    BY <1>1, <1>2
  <2> HIDE DEF f, S, n
  <2>2. f \in Seq(S) /\ Len(f) = n
    BY <2>1, IsASeq
  <2> QED BY <2>2 DEF S, n
<1>5. \A i \in 1 .. Len(w) : f[i] = w[i].msg
  OBVIOUS
<1> QED BY <1>3, <1>4, <1>5, Zenon

\* None in nothing,
LEMMA MsgsEmpty == Msgs(<<>>) = <<>>
<1>1. <<>> \in Seq(Stretch) /\ Len(<<>>) = 0
  OBVIOUS
<1> QED BY <1>1, MsgsAre, EmptySeq

\* one more at the end,
LEMMA MsgsAppend ==
  ASSUME NEW w \in Seq(Stretch), NEW x \in Stretch
  PROVE  Msgs(Append(w, x)) = Append(Msgs(w), x.msg)
<1> DEFINE M == Seq(Char)
           n == Len(w)
           v == Append(w, x)
           a == Msgs(w)
           e == Msgs(v)
           z == Append(a, x.msg)
<1>1. v \in Seq(Stretch) /\ Len(v) = n + 1 /\ n \in Nat /\ v[n + 1] = x /\ \A i \in 1 .. n : v[i] = w[i]
  <2> HIDE DEF Stretch
  <2> QED OBVIOUS
<1>2. x.msg \in M
  BY DEF Stretch
<1>3. a \in Seq(M) /\ Len(a) = n /\ \A i \in 1 .. n : a[i] = w[i].msg
  BY MsgsAre
<1> HIDE DEF v, n
<1>4. e \in Seq(M) /\ Len(e) = n + 1 /\ \A i \in 1 .. n + 1 : e[i] = v[i].msg
  <2>1. e \in Seq(M) /\ Len(e) = Len(v) /\ \A i \in 1 .. Len(v) : e[i] = v[i].msg
    BY <1>1, MsgsAre
  <2> QED BY <1>1, <2>1, Zenon
<1> HIDE DEF a, e, M
<1>5. z \in Seq(M) /\ Len(z) = n + 1 /\ z[n + 1] = x.msg /\ \A i \in 1 .. n : z[i] = a[i]
  BY <1>1, <1>2, <1>3
<1> HIDE DEF z
<1>6. ASSUME NEW i \in 1 .. n + 1 PROVE e[i] = z[i]
  <2>1. CASE i = n + 1
    <3>1. e[n + 1] = v[n + 1].msg
      BY <1>4, <2>1, Zenon
    <3> QED BY <1>1, <1>5, <2>1, <3>1, Zenon
  <2>2. CASE i # n + 1
    <3>1. i \in 1 .. n
      BY <1>1, <2>2
    <3> QED BY <1>1, <1>3, <1>4, <1>5, <3>1, Zenon
  <2> QED BY <2>1, <2>2
<1>7. e = z
  BY <1>4, <1>5, <1>6, SeqEqual
<1> QED BY <1>7 DEF e, z, a, v

\* what is left behind some,
LEMMA MsgsRest ==
  ASSUME NEW w \in Seq(Stretch), NEW k \in 0 .. Len(w)
  PROVE  Msgs(Rest(w, k)) = Rest(Msgs(w), k)
<1> DEFINE M == Seq(Char)
           n == Len(w)
           v == Rest(w, k)
           a == Msgs(w)
           e == Msgs(v)
           u == Rest(a, k)
<1>1. v \in Seq(Stretch) /\ Len(v) = n - k /\ \A i \in 1 .. n - k : v[i] = w[k + i]
  <2> HIDE DEF Stretch
  <2> QED BY RestIs
<1>2. a \in Seq(M) /\ Len(a) = n /\ \A i \in 1 .. n : a[i] = w[i].msg
  BY MsgsAre
<1>3. n \in Nat /\ k \in Nat /\ k <= n
  OBVIOUS
<1> HIDE DEF v, n
<1>4. e \in Seq(M) /\ Len(e) = n - k /\ \A i \in 1 .. n - k : e[i] = v[i].msg
  <2>1. e \in Seq(M) /\ Len(e) = Len(v) /\ \A i \in 1 .. Len(v) : e[i] = v[i].msg
    BY <1>1, MsgsAre
  <2> QED BY <1>1, <2>1, Zenon
<1> HIDE DEF a, e, M
<1>5. u \in Seq(M) /\ Len(u) = n - k /\ \A i \in 1 .. n - k : u[i] = a[k + i]
  <2>1. k \in 0 .. Len(a)
    BY <1>2, <1>3
  <2>2. u \in Seq(M) /\ Len(u) = Len(a) - k /\ \A i \in 1 .. Len(a) - k : u[i] = a[k + i]
    BY <1>2, <2>1, RestIs
  <2> QED BY <1>2, <2>2, Zenon
<1> HIDE DEF u
<1>6. ASSUME NEW i \in 1 .. n - k PROVE e[i] = u[i]
  <2>1. k + i \in 1 .. n
    BY <1>3
  <2>2. a[k + i] = w[k + i].msg
    BY <1>2, <2>1, Zenon
  <2> QED BY <1>1, <1>4, <1>5, <2>2, Zenon
<1>7. e = u
  BY <1>4, <1>5, <1>6, SeqEqual
<1> QED BY <1>7 DEF e, u, a, v

\* and the first.
LEMMA MsgsCons ==
  ASSUME NEW x \in Stretch, NEW t \in Seq(Stretch)
  PROVE  Msgs(Cons(x, t)) # <<>> /\ Head(Msgs(Cons(x, t))) = x.msg /\ Tail(Msgs(Cons(x, t))) = Msgs(t)
<1> DEFINE M == Seq(Char)
           n == Len(t)
           h == <<x>>
           v == h \o t
           a == Msgs(t)
           e == Msgs(v)
<1>1. h \in Seq(Stretch) /\ Len(h) = 1 /\ h[1] = x /\ n \in Nat
  <2> HIDE DEF Stretch
  <2> QED OBVIOUS
<1>2. a \in Seq(M) /\ Len(a) = n /\ \A i \in 1 .. n : a[i] = t[i].msg
  BY MsgsAre
<1> HIDE DEF h, n
<1>3. v \in Seq(Stretch) /\ Len(v) = 1 + n /\ v[1] = x /\ \A i \in 1 .. n : v[1 + i] = t[i]
  <2>1. v \in Seq(Stretch)
    <3> HIDE DEF Stretch
    <3> QED BY <1>1, ConcatProperties
  <2>2. /\ Len(v) = Len(h) + Len(t)
        /\ \A i \in 1 .. Len(h) : v[i] = h[i]
        /\ \A i \in 1 .. Len(t) : v[Len(h) + i] = t[i]
    <3>1. h \in Seq(Stretch)
      BY <1>1
    <3> HIDE DEF Stretch
    <3> QED BY <3>1, ConcatAt
  <2>3. 1 \in 1 .. 1
    OBVIOUS
  <2> HIDE DEF v
  <2>4. v[1] = x
    BY <1>1, <2>2, <2>3, Zenon
  <2> QED BY <1>1, <2>1, <2>2, <2>4, Zenon DEF n
<1> HIDE DEF v
<1>4. e \in Seq(M) /\ Len(e) = 1 + n /\ \A i \in 1 .. 1 + n : e[i] = v[i].msg
  <2>1. e \in Seq(M) /\ Len(e) = Len(v) /\ \A i \in 1 .. Len(v) : e[i] = v[i].msg
    BY <1>3, MsgsAre
  <2> QED BY <1>3, <2>1, Zenon
<1> HIDE DEF a, e, M
<1>5. e # <<>> /\ Head(e) = x.msg
  <2>1. 1 \in 1 .. 1 + n
    BY <1>1
  <2>2. e[1] = x.msg
    BY <1>3, <1>4, <2>1, Zenon
  <2>3. e # <<>>
    BY <1>1, <1>4
  <2> QED BY <2>2, <2>3, <1>4
<1>6. Tail(e) \in Seq(M) /\ Len(Tail(e)) = n /\ \A i \in 1 .. n : Tail(e)[i] = e[i + 1]
  <2>1. Tail(e) \in Seq(M) /\ Len(Tail(e)) = Len(e) - 1 /\ \A i \in 1 .. Len(Tail(e)) : Tail(e)[i] = e[i + 1]
    BY <1>4, <1>5, HeadTailProperties
  <2>2. Len(Tail(e)) = n
    BY <1>1, <1>4, <2>1
  <2> QED BY <2>1, <2>2, Zenon
<1>7. ASSUME NEW i \in 1 .. n PROVE Tail(e)[i] = a[i]
  <2>1. i + 1 = 1 + i /\ 1 + i \in 1 .. 1 + n
    BY <1>1
  <2>2. e[1 + i] = v[1 + i].msg
    BY <1>4, <2>1, Zenon
  <2> QED BY <1>2, <1>3, <1>6, <2>1, <2>2, Zenon
<1>8. Tail(e) = a
  BY <1>2, <1>6, <1>7, SeqEqual
<1>9. v = Cons(x, t)
  BY DEF v, h, Cons
<1> QED BY <1>5, <1>8, <1>9 DEF e, a

\* The queue that the refinement maps the ring to.
LEMMA WaitingIs == Waiting = Msgs(Scan(rb)) /\ Waiting' = Msgs(Scan(rb'))
BY Zenon DEF Waiting, Msgs

\* An empty ring is one, and nothing is in it.
LEMMA EmptyRing == Ring(<<>>) /\ Scan(<<>>) = <<>>
<1>1. <<>> \in Seq(Char) /\ <<>> \in Seq(Text) /\ Len(<<>>) = 0
  OBVIOUS
<1>2. Starts(<<>>)
  BY <1>1 DEF Starts
<1>3. 0 <= QUEUE_BUFFER_SIZE
  BY QueueAssumption
<1>4. Scan(<<>>) = <<>>
  BY <1>1, ScanText
<1> QED BY <1>1, <1>2, <1>3, <1>4, Zenon DEF Ring

\* What a ring is.
LEMMA RingParts == ASSUME NEW r, Ring(r) PROVE r \in Seq(Char) /\ Len(r) <= QUEUE_BUFFER_SIZE /\ Starts(r) /\ Scan(r) \in Seq(Stretch)
<1>1. r \in Seq(Char) /\ Len(r) <= QUEUE_BUFFER_SIZE /\ Starts(r)
  BY DEF Ring
<1> QED BY <1>1, ScanTyped

\* What each call makes of the ring.
LEMMA EnqueueDoes ==
  ASSUME NEW m \in Msg, Ring(rb), Enqueue(m)
  PROVE  /\ Ring(rb') /\ sent' = sent
         /\ \/ /\ res' = "failed" /\ rb' = <<>> /\ Waiting' = <<>>
               /\ ~Fits(rb, m) /\ Shorter(rb, m, Len(Scan(rb)))
            \/ \E k \in 0 .. Len(Scan(rb)) :
                 /\ res' = "queued" /\ Waiting' = Append(Rest(Waiting, k), m)
                 /\ k = 0 => Fits(rb, m)
                 /\ k # 0 => ~Fits(rb, m) /\ Scan(rb)[k].len >= Len(Frame[m]) /\ Shorter(rb, m, k - 1)
<1> DEFINE l == MakeRoom(rb, m)
<1>1. rb' = l.rb /\ res' = l.state /\ sent' = sent
  BY DEF Enqueue
<1>2. Done(l, rb, m)
  BY MakeRoomDoes
<1>3. Scan(rb) \in Seq(Stretch)
  BY RingParts
<1>4. Waiting' = Msgs(Scan(rb')) /\ Waiting = Msgs(Scan(rb))
  BY WaitingIs
<1> HIDE DEF l
<1>5. CASE LostAll(l, rb, m)
  <2>1. l.state = "failed" /\ l.rb = <<>> /\ ~Fits(rb, m) /\ Shorter(rb, m, Len(Scan(rb)))
    BY <1>5, Zenon DEF LostAll
  <2>2. Ring(rb') /\ Waiting' = <<>>
    BY <1>1, <1>4, <2>1, EmptyRing, MsgsEmpty, Zenon
  <2> QED BY <1>1, <2>1, <2>2
<1>6. ASSUME NEW k \in 0 .. Len(Scan(rb)), QueuedAfter(l, k, rb, m)
      PROVE  /\ Ring(rb')
             /\ res' = "queued" /\ Waiting' = Append(Rest(Waiting, k), m)
             /\ k = 0 => Fits(rb, m)
             /\ k # 0 => ~Fits(rb, m) /\ Scan(rb)[k].len >= Len(Frame[m]) /\ Shorter(rb, m, k - 1)
  <2>1. /\ l.state = "queued" /\ Ring(l.rb)
        /\ \E x \in Nat : Scan(l.rb) = Append(Rest(Scan(rb), k), [msg |-> m, len |-> x])
        /\ k = 0 => Fits(rb, m)
        /\ k # 0 => ~Fits(rb, m) /\ Scan(rb)[k].len >= Len(Frame[m]) /\ Shorter(rb, m, k - 1)
    BY <1>6, Zenon DEF QueuedAfter
  <2>2. PICK x \in Nat : Scan(l.rb) = Append(Rest(Scan(rb), k), [msg |-> m, len |-> x])
    BY <2>1
  <2> DEFINE e == [msg |-> m, len |-> x]
             w == Scan(rb)
  <2>3. e \in Stretch /\ e.msg = m
    BY FrameIs DEF Stretch
  <2> HIDE DEF e, w
  <2>4. Rest(w, k) \in Seq(Stretch) /\ Msgs(Rest(w, k)) = Rest(Msgs(w), k)
    <3>1. w \in Seq(Stretch) /\ k \in 0 .. Len(w)
      BY <1>3 DEF w
    <3> HIDE DEF Stretch
    <3> QED BY <3>1, RestIs, MsgsRest
  <2>5. Msgs(Append(Rest(w, k), e)) = Append(Msgs(Rest(w, k)), m)
    <3> DEFINE u == Rest(w, k)
    <3>1. u \in Seq(Stretch)
      BY <2>4
    <3> HIDE DEF u
    <3>2. Msgs(Append(u, e)) = Append(Msgs(u), e.msg)
      BY <2>3, <3>1, MsgsAppend
    <3> QED BY <2>3, <3>2, Zenon DEF u
  <2>6. Waiting' = Append(Rest(Waiting, k), m)
    BY <1>1, <1>4, <2>2, <2>4, <2>5, Zenon DEF e, w
  <2> QED BY <1>1, <2>1, <2>6, Zenon
<1>7. LostAll(l, rb, m) \/ \E k \in 0 .. Len(Scan(rb)) : QueuedAfter(l, k, rb, m)
  BY <1>2, Zenon DEF Done
<1> QED BY <1>1, <1>5, <1>6, <1>7, Zenon

\* An acknowledgement is queued whole or not at all.
LEMMA ReplyDoes ==
  ASSUME NEW m \in Msg, Ring(rb), Reply(m)
  PROVE  /\ Ring(rb') /\ sent' = sent
         /\ \/ res' = "queued" /\ Waiting' = Append(Waiting, m)
            \/ res' = "dropped" /\ Waiting' = Waiting
<1> DEFINE p == QUEUE_Puts(rb, m)
<1>1. rb' = p.rb /\ res' = (IF p.ok THEN "queued" ELSE "dropped") /\ sent' = sent
  BY DEF Reply
<1>2. rb \in Seq(Char) /\ Len(rb) <= QUEUE_BUFFER_SIZE /\ Starts(rb) /\ Scan(rb) \in Seq(Stretch)
  BY RingParts
<1>3. Waiting' = Msgs(Scan(rb')) /\ Waiting = Msgs(Scan(rb))
  BY WaitingIs
<1>4. CASE Len(rb) + Len(Frame[m]) <= QUEUE_BUFFER_SIZE
  <2> DEFINE y == rb \o Frame[m]
  <2>1. p = [ok |-> TRUE, rb |-> y] /\ Ring(y)
    BY <1>2, <1>4, PutsFits
  <2>2. PICK x \in Nat : Scan(y) = Append(Scan(rb), [msg |-> m, len |-> x])
    BY <1>2, ScanThenFrame
  <2> HIDE DEF p, y
  <2>3. rb' = y /\ res' = "queued"
    <3>1. p.ok = TRUE /\ p.rb = y
      BY <2>1
    <3> QED BY <1>1, <3>1
  <2> DEFINE e == [msg |-> m, len |-> x]
             w == Scan(rb)
  <2>4. e \in Stretch /\ e.msg = m
    BY FrameIs DEF Stretch
  <2> HIDE DEF e, w
  <2>5. Msgs(Append(w, e)) = Append(Msgs(w), e.msg)
    BY <1>2, <2>4, MsgsAppend DEF w
  <2>6. Waiting' = Append(Waiting, m)
    BY <1>3, <2>2, <2>3, <2>4, <2>5, Zenon DEF e, w
  <2> QED BY <1>1, <2>1, <2>3, <2>6, Zenon
<1>5. CASE Len(rb) + Len(Frame[m]) > QUEUE_BUFFER_SIZE
  <2>1. PICK s \in Seq(Text) : p = [ok |-> FALSE, rb |-> rb \o s] /\ Ring(rb \o s)
    BY <1>2, <1>5, PutsFull
  <2> DEFINE y == rb \o s
  <2>2. Scan(y) = Scan(rb)
    BY <1>2, ScanThenText
  <2>3. p = [ok |-> FALSE, rb |-> y] /\ Ring(y)
    BY <2>1
  <2> HIDE DEF p, y
  <2>4. rb' = y /\ res' = "dropped"
    <3>1. p.ok = FALSE /\ p.rb = y
      BY <2>3
    <3> QED BY <1>1, <3>1
  <2> QED BY <1>1, <1>3, <2>2, <2>3, <2>4, Zenon
<1>6. Len(Frame[m]) \in Nat /\ Len(rb) \in Nat
  BY <1>2, FrameLen, LenProperties
<1> QED BY <1>4, <1>5, <1>6, QueueAssumption

\* Sending takes the oldest message out and hands over that message, or finds none.
LEMMA SendDoes ==
  ASSUME NEW b \in BOOLEAN, Ring(rb), Send(b)
  PROVE  /\ Ring(rb')
         /\ \/ /\ Waiting = <<>> /\ Waiting' = <<>> /\ res' = "nothing" /\ sent' = sent
            \/ /\ Waiting # <<>> /\ Waiting' = Tail(Waiting) /\ res' = "sent" /\ sent' = Head(Waiting)
<1> DEFINE g == QUEUE_Gets(rb, b)
<1>1. rb' = g.rb /\ sent' = (IF g.ok THEN g.msg ELSE sent) /\ res' = (IF g.ok THEN "sent" ELSE "nothing")
  BY DEF Send
<1>2. rb \in Seq(Char) /\ Len(rb) <= QUEUE_BUFFER_SIZE /\ Starts(rb) /\ Scan(rb) \in Seq(Stretch)
  BY RingParts
<1>3. Waiting' = Msgs(Scan(rb')) /\ Waiting = Msgs(Scan(rb))
  BY WaitingIs
<1>4. \/ rb \in Seq(Text) /\ g = [ok |-> FALSE, rb |-> <<>>, msg |-> <<>>]
      \/ \E a \in Seq(Text), d \in Seq(Char) : Takes(rb, a, d) /\ g = [ok |-> TRUE, rb |-> d, msg |-> Decode(a, b)]
  BY <1>2, Gets
<1> HIDE DEF g
<1>5. CASE rb \in Seq(Text) /\ g = [ok |-> FALSE, rb |-> <<>>, msg |-> <<>>]
  <2>1. g.ok = FALSE /\ g.rb = <<>>
    BY <1>5
  <2>2. rb' = <<>> /\ res' = "nothing" /\ sent' = sent
    BY <1>1, <2>1
  <2>3. Scan(rb) = <<>>
    BY <1>5, ScanText
  <2>4. Waiting = <<>> /\ Waiting' = <<>>
    BY <1>3, <2>2, <2>3, EmptyRing, MsgsEmpty, Zenon
  <2> QED BY <2>2, <2>4, EmptyRing, Zenon
<1>6. ASSUME NEW a \in Seq(Text), NEW d \in Seq(Char), Takes(rb, a, d), g = [ok |-> TRUE, rb |-> d, msg |-> Decode(a, b)]
      PROVE  /\ Ring(rb')
             /\ Waiting # <<>> /\ Waiting' = Tail(Waiting) /\ res' = "sent" /\ sent' = Head(Waiting)
  <2>1. g.ok = TRUE /\ g.rb = d /\ g.msg = Decode(a, b)
    BY <1>6
  <2>2. rb' = d /\ res' = "sent" /\ sent' = Decode(a, b)
    BY <1>1, <2>1
  <2>3. /\ Ring(d)
        /\ Decode(a, b) = Decode(a, FALSE)
        /\ \E x \in Stretch : x.msg = Decode(a, FALSE) /\ x.len = Len(rb) - Len(d) /\ Scan(rb) = Cons(x, Scan(d))
    BY <1>6, TakeFirst
  <2>4. PICK x \in Stretch : x.msg = Decode(a, FALSE) /\ Scan(rb) = Cons(x, Scan(d))
    BY <2>3
  <2>5. Msgs(Cons(x, Scan(d))) # <<>> /\ Head(Msgs(Cons(x, Scan(d)))) = x.msg
        /\ Tail(Msgs(Cons(x, Scan(d)))) = Msgs(Scan(d))
    BY ScanTyped, MsgsCons
  <2> QED BY <1>3, <2>2, <2>3, <2>4, <2>5, Zenon
<1> QED BY <1>4, <1>5, <1>6, Zenon

\* The invariant: what the ring holds starts with a frame or a fragment of one, and so does
\* what stands behind any 7F.  It holds at the start,
LEMMA QueueInitInv == QueueInit => Ring(rb)
BY EmptyRing DEF QueueInit

\* every call keeps it,
LEMMA QueueStepInv == Ring(rb) /\ [QueueNext]_queueVars => Ring(rb)'
<1> SUFFICES ASSUME Ring(rb), [QueueNext]_queueVars PROVE Ring(rb')
  BY DEF Ring, Starts
<1>1. ASSUME NEW m \in Msg, Enqueue(m) PROVE Ring(rb')
  BY <1>1, EnqueueDoes
<1>2. ASSUME NEW m \in Msg, Reply(m) PROVE Ring(rb')
  BY <1>2, ReplyDoes
<1>3. ASSUME NEW b \in BOOLEAN, Send(b) PROVE Ring(rb')
  BY <1>3, SendDoes
<1>4. CASE UNCHANGED queueVars
  BY <1>4, Zenon DEF queueVars
<1> QED BY <1>1, <1>2, <1>3, <1>4 DEF QueueNext

\* so it always holds.
LEMMA QueueInv == QueueSpec => []Ring(rb)
BY QueueInitInv, QueueStepInv, PTL DEF QueueSpec

\* A reader always starts at the beginning of a frame or a fragment, so the flag that
\* PROTO_Init leaves unset never decides anything (proto.c:60-61 and 34).
THEOREM QueueStartsAtBegin == QueueSpec => []StartsAtBegin
<1>1. Ring(rb) => StartsAtBegin
  <2> SUFFICES ASSUME Ring(rb), rb # <<>> PROVE Head(rb) = Begin
    BY DEF StartsAtBegin
  <2>1. rb \in Seq(Char) /\ Starts(rb)
    BY RingParts
  <2>2. 1 \in 1 .. Len(rb) /\ Head(rb) = rb[1]
    BY <2>1
  <2>3. rb[1] = Begin
    BY <2>1, <2>2, Zenon DEF Starts
  <2> QED BY <2>2, <2>3
<1> QED BY <1>1, QueueInv, PTL

\* The framed ring is a FIFO of whole messages, for every size, every longest message and
\* any messages no longer than that, escaped or not (queue.c:32-50, proto.c:13-128).
THEOREM QueueWholeMessages == QueueSpec => WholeMessages
<1>1. QueueInit => Queue!Init
  <2>1. ASSUME QueueInit PROVE Waiting = <<>>
    BY <2>1, WaitingIs, EmptyRing, MsgsEmpty, Zenon DEF QueueInit
  <2> QED BY <2>1 DEF QueueInit, Queue!Init
<1>2. Ring(rb) /\ [QueueNext]_queueVars => [Queue!Next]_Queue!vars
  <2> SUFFICES ASSUME Ring(rb), [QueueNext]_queueVars PROVE [Queue!Next]_Queue!vars
    OBVIOUS
  <2>0. Len(Waiting) = Len(Scan(rb))
    BY RingParts, WaitingIs, MsgsAre
  <2>1. ASSUME NEW m \in Msg, Enqueue(m) PROVE Queue!Next
    <3>1. CASE res' = "failed" /\ Waiting' = <<>> /\ sent' = sent
      BY <3>1, Zenon DEF Queue!Next, Queue!EnqueueFails
    <3>2. ASSUME NEW k \in 0 .. Len(Scan(rb)), res' = "queued", Waiting' = Append(Rest(Waiting, k), m), sent' = sent
          PROVE  Queue!Next
      <4>1. Queue!Enqueue(m)
        BY <2>0, <3>2, Zenon DEF Queue!Enqueue, Rest
      <4> QED BY <4>1, Zenon DEF Queue!Next
    <3> QED BY <2>1, <3>1, <3>2, EnqueueDoes, Zenon
  <2>2. ASSUME NEW m \in Msg, Reply(m) PROVE Queue!Next
    <3>1. Queue!Reply(m)
      BY <2>2, ReplyDoes, Zenon DEF Queue!Reply
    <3> QED BY <3>1, Zenon DEF Queue!Next
  <2>3. ASSUME NEW b \in BOOLEAN, Send(b) PROVE Queue!Next
    BY <2>3, SendDoes, Zenon DEF Queue!Next, Queue!Send, Queue!SendNothing
  <2>4. CASE UNCHANGED queueVars
    <3>1. rb' = rb /\ sent' = sent /\ res' = res
      BY <2>4 DEF queueVars
    <3>2. Waiting' = Waiting
      BY <3>1, WaitingIs, Zenon
    <3> QED BY <3>1, <3>2 DEF Queue!vars
  <2> QED BY <2>1, <2>2, <2>3, <2>4 DEF QueueNext
<1> QED BY <1>1, <1>2, QueueInv, PTL DEF QueueSpec, WholeMessages, Queue!Spec

\* The first of w that is as long as need, if there is one.
LEMMA FirstLong ==
  ASSUME NEW w \in Seq(Stretch), NEW need \in Nat
  PROVE  LET k == SelectInSeq(w, LAMBDA s : s.len >= need)
         IN /\ (\A j \in 1 .. Len(w) : w[j].len < need) => k = 0
            /\ \A i \in 1 .. Len(w) : w[i].len >= need /\ (\A j \in 1 .. i - 1 : w[j].len < need) => k = i
<1> DEFINE I == {i \in 1 .. Len(w) : w[i].len >= need}
           k == SelectInSeq(w, LAMBDA s : s.len >= need)
<1>0. Len(w) \in Nat /\ \A i \in 1 .. Len(w) : w[i].len \in Nat
  <2>1. \A i \in 1 .. Len(w) : w[i] \in Stretch
    BY ElementOfSeq
  <2> QED BY <2>1, LenProperties DEF Stretch
<1>1. k = IF I # {} THEN Min(I) ELSE 0
  BY DEF SelectInSeq
<1> HIDE DEF k
<1>2. ASSUME \A j \in 1 .. Len(w) : w[j].len < need PROVE k = 0
  <2>1. I = {}
    BY <1>0, <1>2
  <2> QED BY <1>1, <2>1
<1>3. ASSUME NEW i \in 1 .. Len(w), w[i].len >= need, \A j \in 1 .. i - 1 : w[j].len < need
      PROVE  k = i
  <2>1. i \in I /\ \A j \in I : i <= j
    <3> SUFFICES ASSUME NEW j \in I, ~(i <= j) PROVE FALSE
      BY <1>3
    <3>1. j \in 1 .. i - 1 /\ j \in 1 .. Len(w) /\ w[j].len >= need
      BY <1>0
    <3>2. w[j].len < need
      BY <1>3, <3>1
    <3> QED BY <1>0, <3>1, <3>2
  <2>2. Min(I) \in I /\ \A j \in I : Min(I) <= j
    <3> HIDE DEF I
    <3> QED BY <2>1, Zenon DEF Min
  <2>3. Min(I) <= i /\ i <= Min(I)
    <3> HIDE DEF I
    <3> QED BY <2>1, <2>2
  <2>4. Min(I) \in Nat
    <3>1. I \subseteq Nat
      OBVIOUS
    <3> HIDE DEF I
    <3> QED BY <2>2, <3>1
  <2>5. Min(I) = i
    <3> HIDE DEF I
    <3> QED BY <2>3, <2>4
  <2>6. I # {}
    <3> HIDE DEF I
    <3> QED BY <2>1
  <2> QED BY <1>1, <2>5, <2>6, Zenon
<1> QED BY <1>2, <1>3 DEF k

\* A request succeeds exactly if its frame fits or some one message waiting takes up as much;
\* the messages up to the first such one go, or else all (mqtt.c:521-527).
THEOREM QueueRoomNeeded == QueueSpec => RoomNeeded
<1> DEFINE A == \A m \in Msg : Enqueue(m) =>
             LET need == Len(Frame[m])
                 k == IF Len(rb) + need <= QUEUE_BUFFER_SIZE THEN 0
                      ELSE SelectInSeq(Scan(rb), LAMBDA w : w.len >= need)
             IN IF k = 0 /\ Len(rb) + need > QUEUE_BUFFER_SIZE
                THEN res' = "failed" /\ rb' = <<>>
                ELSE res' = "queued" /\ Waiting' = Append(SubSeq(Waiting, k + 1, Len(Waiting)), m)
<1>1. Ring(rb) => A
  <2> SUFFICES ASSUME Ring(rb), NEW m \in Msg, Enqueue(m)
               PROVE  LET need == Len(Frame[m])
                          k == IF Len(rb) + need <= QUEUE_BUFFER_SIZE THEN 0
                               ELSE SelectInSeq(Scan(rb), LAMBDA w : w.len >= need)
                      IN IF k = 0 /\ Len(rb) + need > QUEUE_BUFFER_SIZE
                         THEN res' = "failed" /\ rb' = <<>>
                         ELSE res' = "queued" /\ Waiting' = Append(SubSeq(Waiting, k + 1, Len(Waiting)), m)
    BY Zenon
  <2> DEFINE need == Len(Frame[m])
             s == SelectInSeq(Scan(rb), LAMBDA w : w.len >= need)
             k == IF Len(rb) + need <= QUEUE_BUFFER_SIZE THEN 0 ELSE s
             v == Scan(rb)
             N == QUEUE_BUFFER_SIZE
  <2>1. v \in Seq(Stretch) /\ need \in Nat /\ Len(rb) \in Nat /\ N \in Nat
    BY RingParts, FrameLen, LenProperties, QueueAssumption
  <2>2. /\ (\A j \in 1 .. Len(v) : v[j].len < need) => s = 0
        /\ \A i \in 1 .. Len(v) : v[i].len >= need /\ (\A j \in 1 .. i - 1 : v[j].len < need) => s = i
    <3> HIDE DEF need
    <3> QED BY <2>1, FirstLong
  <2> HIDE DEF s
  <2>3. Fits(rb, m) <=> Len(rb) + need <= N
    BY DEF Fits
  <2>4. Len(rb) + need > N <=> ~(Len(rb) + need <= N)
    <3> HIDE DEF need, N
    <3> QED BY <2>1
  <2>5. CASE res' = "failed" /\ rb' = <<>> /\ ~Fits(rb, m) /\ Shorter(rb, m, Len(Scan(rb)))
    <3>1. \A j \in 1 .. Len(v) : v[j].len < need
      BY <2>5, Zenon DEF Shorter
    <3>2. k = 0
      BY <2>2, <3>1
    <3> HIDE DEF k, need
    <3>3. k = 0 /\ Len(rb) + need > N
      BY <2>3, <2>4, <2>5, <3>2, Zenon
    <3> QED BY <2>5, <3>3, Zenon DEF k, s, need
  <2>6. ASSUME NEW j \in 0 .. Len(v), res' = "queued", Waiting' = Append(Rest(Waiting, j), m),
               j = 0 => Fits(rb, m),
               j # 0 => ~Fits(rb, m) /\ v[j].len >= need /\ Shorter(rb, m, j - 1)
        PROVE  k = j /\ (k # 0 \/ ~(Len(rb) + need > N))
               /\ res' = "queued" /\ Waiting' = Append(SubSeq(Waiting, k + 1, Len(Waiting)), m)
    <3>1. CASE j = 0
      <4>1. k = 0
        BY <2>3, <2>6, <3>1, Zenon
      <4> HIDE DEF k, need
      <4> QED BY <2>3, <2>4, <2>6, <3>1, <4>1, Zenon DEF Rest
    <3>2. CASE j # 0
      <4>1. j \in 1 .. Len(v)
        <5> HIDE DEF v
        <5> QED BY <2>1, <3>2, LenProperties
      <4>2. v[j].len >= need /\ \A i \in 1 .. j - 1 : v[i].len < need
        BY <2>6, <3>2, Zenon DEF Shorter
      <4>3. s = j
        BY <2>2, <4>1, <4>2, Zenon
      <4>4. k = j
        BY <2>3, <2>6, <3>2, <4>3, Zenon
      <4> HIDE DEF k, need
      <4> QED BY <2>6, <3>2, <4>4, Zenon DEF Rest
    <3> QED BY <3>1, <3>2
  <2>7. \/ res' = "failed" /\ rb' = <<>> /\ ~Fits(rb, m) /\ Shorter(rb, m, Len(Scan(rb)))
        \/ \E j \in 0 .. Len(v) :
             /\ res' = "queued" /\ Waiting' = Append(Rest(Waiting, j), m)
             /\ j = 0 => Fits(rb, m)
             /\ j # 0 => ~Fits(rb, m) /\ v[j].len >= need /\ Shorter(rb, m, j - 1)
    BY EnqueueDoes, Zenon
  <2>8. CASE \E j \in 0 .. Len(v) :
             /\ res' = "queued" /\ Waiting' = Append(Rest(Waiting, j), m)
             /\ j = 0 => Fits(rb, m)
             /\ j # 0 => ~Fits(rb, m) /\ v[j].len >= need /\ Shorter(rb, m, j - 1)
    <3>1. (k # 0 \/ ~(Len(rb) + need > N))
          /\ res' = "queued" /\ Waiting' = Append(SubSeq(Waiting, k + 1, Len(Waiting)), m)
      <4> HIDE DEF k, need, v
      <4> QED BY <2>6, <2>8, Zenon
    <3> QED BY <3>1, Zenon DEF s
  <2> QED BY <2>5, <2>7, <2>8, Zenon
<1>2. QueueSpec => [][A]_queueVars
  <2> HIDE DEF A
  <2>1. Ring(rb) /\ [QueueNext]_queueVars => [A]_queueVars
    BY <1>1
  <2> QED BY <2>1, QueueInv, PTL DEF QueueSpec
<1> QED BY <1>2 DEF RoomNeeded
=============================================================================
