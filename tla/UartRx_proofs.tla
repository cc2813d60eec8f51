---------------------------- MODULE UartRx_proofs ----------------------------
(***************************************************************************)
(* Proofs about the receive side of driver/uart.c for every size of the    *)
(* FIFO and the ring and every set of bytes, as long as no interrupt falls *)
(* between the load and the store of Space: Space is the remaining space,  *)
(* and ring and FIFO together are one first-in first-out line.             *)
(***************************************************************************)
EXTENDS UartRx, SequenceTheorems, TLAPS

\* What the proofs use of the sizes.
LEMMA Sizes == /\ FifoLen \in Nat \ {0} /\ BuffSize \in Nat
               /\ FifoLen < BuffSize
BY UartAssumption, SMT DEF Word

\* The count in sixteen bits is the count.
LEMMA NoOverflow == ASSUME NEW k \in 1 .. BuffSize PROVE k % Word # 0
BY UartAssumption, SMT DEF Word

\* What is still to be added to Space for the byte that was taken.
Owed == IF pc \in {"load", "store"} THEN 1 ELSE 0

\* The inductive invariant: Space lags behind the pointers by the byte taken,
\* and the poll takes a byte only when there is one.
Inv == /\ TypeOK
       /\ Space = BuffSize - Used - Owed
       /\ pc = "take" => pInPos # pOutPos
       /\ pc \in {"load", "store"} => len_tmp = 1
       /\ pc = "store" => loaded = Space

LEMMA InvInit == Init => Inv
BY UartAssumption, Sizes DEF Init, Inv, TypeOK, Slots, Used, Ahead, Owed

LEMMA ArriveInv == ASSUME Inv, NEW b \in Byte, Arrive(b) PROVE Inv'
<1>1. fifo' \in Seq(Byte) /\ Len(fifo') <= FifoLen
  BY Sizes DEF Inv, TypeOK, Arrive
<1>2. QED
  BY <1>1 DEF Inv, TypeOK, Arrive, hardware, ring, poll, Used, Ahead, Owed

LEMMA RxIntrInv == ASSUME Inv, OutsideWindow PROVE Inv'
<1> USE Sizes
<1>1. /\ pInPos \in Slots /\ pOutPos \in Slots /\ Owed \in {0, 1}
      /\ pOutPos' = pOutPos /\ pc' = pc /\ len_tmp' = len_tmp /\ loaded' = loaded /\ rx' = rx
      /\ Owed' = Owed /\ Space = BuffSize - Used - Owed
      /\ pc # "store" /\ (pc = "take" => pInPos # pOutPos)
      /\ Len(fifo) \in 1 .. FifoLen /\ Space \in 1 .. BuffSize
  BY DEF Inv, TypeOK, OutsideWindow, RxIntr, poll, Owed
<1>2. CASE Fits(Len(fifo))
  <2>0. /\ pInPos' = At(pInPos, Len(fifo)) /\ Space' = Space - Len(fifo)
        /\ fifo' = <<>> /\ intrEna' \in BOOLEAN /\ Len(fifo) < Space
    BY <1>2 DEF OutsideWindow, RxIntr, Fits
  <2>1. pUartBuff' \in [Slots -> Byte]
    <3>1. ASSUME NEW s \in Slots
          PROVE  (IF Ahead(pInPos, s) < Len(fifo) THEN fifo[Ahead(pInPos, s) + 1] ELSE pUartBuff[s]) \in Byte
      BY <1>1 DEF Slots, Ahead, Inv, TypeOK
    <3>2. QED
      BY <1>2, <3>1 DEF OutsideWindow, RxIntr
  <2>2. /\ pInPos' \in Slots /\ Used' = Used + Len(fifo)
        /\ Used \in Int /\ pInPos' # pOutPos'
    BY <1>1, <2>0 DEF Slots, Used, Ahead, At
  <2>3. Space' = BuffSize - Used' - Owed' /\ Space' \in 1 .. BuffSize
    BY <1>1, <2>0, <2>2
  <2>4. QED
    BY <1>1, <2>0, <2>1, <2>2, <2>3 DEF Inv, TypeOK
<1>3. CASE ~Fits(Len(fifo))
  <2>0. intrEna' = FALSE /\ UNCHANGED <<fifo, pUartBuff, pInPos, Space>>
    BY <1>3 DEF OutsideWindow, RxIntr
  <2>1. /\ pInPos' = pInPos /\ Space' = Space /\ fifo' = fifo
        /\ pUartBuff' = pUartBuff /\ intrEna' \in BOOLEAN
    BY <2>0
  <2>2. Used' = Used
    BY <1>1, <2>1 DEF Used, Ahead
  <2>3. TypeOK'
    BY <1>1, <2>1 DEF Inv, TypeOK
  <2>4. Space' = BuffSize - Used' - Owed'
    BY <1>1, <2>1, <2>2
  <2>5. QED
    BY <1>1, <2>1, <2>3, <2>4 DEF Inv
<1>4. QED
  BY <1>2, <1>3

\* A poll that found a byte takes one.
LEMMA TakesOne == ASSUME Inv, Take PROVE len_tmp' = 1
<1>1. BuffSize - Space \in 1 .. BuffSize
  BY Sizes DEF Inv, TypeOK, Take, Used, Ahead, Slots, Owed
<1>2. QED
  BY <1>1, NoOverflow DEF Take

LEMMA PollInv == ASSUME Inv, Poll PROVE Inv'
<1> USE Sizes DEF Inv, TypeOK, hardware, ring, Owed, Used, Ahead, Slots
<1>1. CASE uart0_Available
  BY <1>1 DEF uart0_Available
<1>2. CASE Take
  <2>1. len_tmp' = 1
    BY <1>2, TakesOne
  <2>2. pOutPos' \in Slots /\ Used' = Used - 1
    BY <1>2, <2>1 DEF Take, NextOut, At
  <2>3. rx' \in Byte
    BY <1>2, <2>1 DEF Take, At
  <2>4. QED
    BY <1>2, <2>1, <2>2, <2>3 DEF Take
<1>3. CASE LoadSpace
  BY <1>3 DEF LoadSpace
<1>4. CASE StoreSpace
  BY <1>4 DEF StoreSpace
<1>5. CASE CheckSpace \/ Enable
  BY <1>5 DEF CheckSpace, Enable
<1>6. QED
  BY <1>1, <1>2, <1>3, <1>4, <1>5 DEF Poll

LEMMA StepInv == Inv /\ [GentleNext]_vars => Inv'
<1> SUFFICES ASSUME Inv, [GentleNext]_vars PROVE Inv'
  OBVIOUS
<1>1. CASE UNCHANGED vars
  BY <1>1 DEF vars, hardware, ring, poll, Inv, TypeOK, Used, Ahead, Owed
<1>2. QED
  BY <1>1, ArriveInv, RxIntrInv, PollInv DEF GentleNext

\* The pointers, the count and the registers keep their ranges; the ring is
\* never full to the last slot (uart.c:426-497).
THEOREM UartTyped == GentleSpec => []TypeOK
<1>1. Inv => TypeOK
  BY DEF Inv
<1>2. QED
  BY <1>1, InvInit, StepInv, PTL DEF GentleSpec

\* Between two polls Space is the remaining space of the buffer, wherever else
\* than between its load and its store interrupts came (uart.h:162).
THEOREM UartSpace == GentleSpec => []SpaceIsRemaining
<1>1. Inv => SpaceIsRemaining
  BY Sizes DEF Inv, SpaceIsRemaining, Owed, TypeOK, Used, Ahead, Slots
<1>2. QED
  BY <1>1, InvInit, StepInv, PTL DEF GentleSpec

-----------------------------------------------------------------------------

LEMMA UnreadSeq == Inv => Unread \in Seq(Byte) /\ Len(Unread) = Used
<1> SUFFICES ASSUME Inv PROVE Unread \in Seq(Byte) /\ Len(Unread) = Used
  OBVIOUS
<1> USE Sizes DEF Inv, TypeOK, Slots
<1>1. Used \in Nat /\ Used < BuffSize
  BY DEF Used, Ahead
<1>2. ASSUME NEW i \in 1 .. Used PROVE pUartBuff[At(pOutPos, i - 1)] \in Byte
  BY <1>1 DEF At
<1>3. Unread \in [1 .. Used -> Byte]
  BY <1>2 DEF Unread
<1>4. DOMAIN Unread = 1 .. Used
  BY DEF Unread
<1>5. QED
  BY <1>1, <1>3, <1>4

\* The interrupt appends the FIFO to what is unread in the ring.
LEMMA IntrAppends ==
  ASSUME Inv, OutsideWindow, Fits(Len(fifo)) PROVE Unread' = Unread \o fifo
<1> USE Sizes
<1> DEFINE n == Len(fifo)
<1>1. /\ n \in 1 .. FifoLen /\ n < Space /\ fifo \in Seq(Byte)
      /\ pOutPos' = pOutPos /\ pInPos' = At(pInPos, n)
      /\ pUartBuff' = [s \in Slots |->
            IF Ahead(pInPos, s) < n THEN fifo[Ahead(pInPos, s) + 1] ELSE pUartBuff[s]]
  BY DEF Inv, TypeOK, OutsideWindow, RxIntr, Fits
<1>2. Used \in 0 .. BuffSize - 1 /\ Used + n < BuffSize /\ Used' = Used + n
  BY <1>1, SMTT(30) DEF Inv, TypeOK, Slots, Used, Ahead, At, Owed
<1>3. Unread \in Seq(Byte) /\ Len(Unread) = Used
  BY UnreadSeq
<1>4. Unread' \in Seq(Byte) /\ Len(Unread') = Used + n
  <2>1. Inv'
    BY RxIntrInv
  <2>2. (Unread \in Seq(Byte) /\ Len(Unread) = Used)'
    BY <2>1, UnreadSeq, PTL
  <2>3. QED
    BY <1>2, <2>2
<1>5. /\ Unread \o fifo \in Seq(Byte)
      /\ Len(Unread \o fifo) = Used + n
      /\ \A i \in 1 .. Used + n :
           (Unread \o fifo)[i] = IF i <= Used THEN Unread[i] ELSE fifo[i - Used]
  <2>1. /\ Unread \o fifo \in Seq(Byte)
        /\ Len(Unread \o fifo) = Len(Unread) + Len(fifo)
        /\ \A i \in 1 .. Len(Unread) + Len(fifo) :
             (Unread \o fifo)[i] = IF i <= Len(Unread) THEN Unread[i] ELSE fifo[i - Len(Unread)]
    BY <1>1, <1>3, ConcatProperties
  <2>2. QED
    BY <1>3, <2>1
<1>6. ASSUME NEW i \in 1 .. Used + n PROVE Unread'[i] = (Unread \o fifo)[i]
  <2> DEFINE s == At(pOutPos, i - 1)
  <2>1. Unread'[i] = pUartBuff'[s]
    BY <1>1, <1>2 DEF Unread, At
  <2>2. s \in Slots
    BY <1>2 DEF Inv, TypeOK, Slots, At
  <2>3. CASE i <= Used
    <3>1. ~(Ahead(pInPos, s) < n)
      BY <1>1, <1>2, <2>3 DEF Inv, TypeOK, Slots, At, Ahead, Used
    <3>2. Unread[i] = pUartBuff[s]
      BY <1>2, <2>3 DEF Unread
    <3>3. QED
      BY <1>1, <1>5, <2>1, <2>2, <2>3, <3>1, <3>2
  <2>4. CASE ~(i <= Used)
    <3>1. Ahead(pInPos, s) = i - Used - 1
      BY <1>1, <1>2, <2>4 DEF Inv, TypeOK, Slots, At, Ahead, Used
    <3>2. QED
      BY <1>1, <1>2, <1>5, <2>1, <2>2, <2>4, <3>1
  <2>5. QED
    BY <2>3, <2>4
<1>7. QED
  BY <1>4, <1>5, <1>6, SeqEqual

\* The poll takes the oldest unread byte.
LEMMA TakeReads ==
  ASSUME Inv, Take
  PROVE  Unread # <<>> /\ rx' = Head(Unread) /\ Unread' = Tail(Unread)
<1> USE Sizes
<1>1. /\ pInPos # pOutPos /\ pInPos' = pInPos /\ pUartBuff' = pUartBuff
      /\ len_tmp' = 1
      /\ pOutPos' = NextOut(1)
      /\ rx' = pUartBuff[At(pOutPos, 0)]
  BY TakesOne DEF Inv, Take
<1>2. Used \in 1 .. BuffSize - 1 /\ Used' = Used - 1
  BY <1>1 DEF Inv, TypeOK, Slots, Used, Ahead, NextOut, At
<1>3. Unread \in Seq(Byte) /\ Len(Unread) = Used
  BY UnreadSeq
<1>4. Unread # <<>> /\ rx' = Head(Unread)
  <2>1. Unread[1] = pUartBuff[At(pOutPos, 0)]
    BY <1>2 DEF Unread
  <2>2. QED
    BY <1>1, <1>2, <1>3, <2>1
<1>5. Unread' \in Seq(Byte) /\ Len(Unread') = Used - 1
  <2>1. Inv'
    BY PollInv DEF Poll
  <2>2. (Unread \in Seq(Byte) /\ Len(Unread) = Used)'
    BY <2>1, UnreadSeq, PTL
  <2>3. QED
    BY <1>2, <2>2
<1>6. /\ Tail(Unread) \in Seq(Byte)
      /\ Len(Tail(Unread)) = Used - 1
      /\ \A i \in 1 .. Used - 1 : Tail(Unread)[i] = Unread[i + 1]
  BY <1>3, <1>4, HeadTailProperties
<1>7. ASSUME NEW i \in 1 .. Used - 1 PROVE Unread'[i] = Tail(Unread)[i]
  <2>1. At(pOutPos, i - 1)' = At(pOutPos, i)
    BY <1>1, <1>2 DEF Inv, TypeOK, Slots, NextOut, At, Used, Ahead
  <2>2. Unread'[i] = pUartBuff[At(pOutPos, i)]
    BY <1>1, <1>2, <2>1 DEF Unread
  <2>3. Unread[i + 1] = pUartBuff[At(pOutPos, i)]
    BY <1>2 DEF Unread
  <2>4. QED
    BY <1>6, <2>2, <2>3
<1>8. QED
  BY <1>4, <1>5, <1>6, <1>7, SeqEqual

\* Ring and FIFO implement the one serial line: what was taken from the line is
\* read once, unchanged and in order (uart.c:426-497).
THEOREM UartIsLine == GentleSpec => ReadsTheLine
<1>1. Init => Line!Init
  <2> SUFFICES ASSUME Init PROVE Line!Init
    OBVIOUS
  <2>1. Unread = <<>>
    <3>1. Unread \in Seq(Byte) /\ Len(Unread) = Used
      BY InvInit, UnreadSeq
    <3>2. Used = 0
      BY DEF Init, Used, Ahead
    <3>3. QED
      BY <3>1, <3>2
  <2>2. QED
    BY <2>1 DEF Init, Line!Init
<1>2. Inv /\ [GentleNext]_vars => [Line!Next]_Line!vars
  <2> SUFFICES ASSUME Inv, [GentleNext]_vars PROVE [Line!Next]_Line!vars
    OBVIOUS
  <2>0. Unread \in Seq(Byte) /\ fifo \in Seq(Byte)
    BY UnreadSeq DEF Inv, TypeOK
  <2>1. ASSUME NEW b \in Byte, Arrive(b) PROVE [Line!Next]_Line!vars
    <3>1. Unread' = Unread /\ rx' = rx
      BY <2>1 DEF Arrive, ring, poll, Unread, Used, Ahead, At
    <3>2. CASE Len(fifo) < FifoLen
      <4>1. Unread' \o fifo' = Append(Unread \o fifo, b)
        BY <2>0, <2>1, <3>1, <3>2 DEF Arrive
      <4>2. QED
        BY <2>1, <3>1, <4>1 DEF Line!Next, Line!Arrive
    <3>3. CASE ~(Len(fifo) < FifoLen)
      BY <2>1, <3>1, <3>3 DEF Arrive, Line!vars
    <3>4. QED
      BY <3>2, <3>3
  <2>2. CASE OutsideWindow
    <3>1. rx' = rx
      BY <2>2 DEF OutsideWindow, RxIntr, poll
    <3>2. CASE Fits(Len(fifo))
      <4>1. Unread' = Unread \o fifo /\ fifo' = <<>>
        BY <2>2, <3>2, IntrAppends DEF OutsideWindow, RxIntr
      <4>2. Unread' \o fifo' = Unread \o fifo
        BY <2>0, <4>1
      <4>3. QED
        BY <3>1, <4>2 DEF Line!vars
    <3>3. CASE ~Fits(Len(fifo))
      BY <2>2, <3>1, <3>3 DEF OutsideWindow, RxIntr, Unread, Used, Ahead, At, Line!vars
    <3>4. QED
      BY <3>2, <3>3
  <2>3. CASE Take
    <3>1. Unread # <<>> /\ rx' = Head(Unread) /\ Unread' = Tail(Unread)
      BY <2>3, TakeReads
    <3>2. fifo' = fifo
      BY <2>3 DEF Take, hardware
    <3>3. /\ Unread \o fifo # <<>>
          /\ Head(Unread \o fifo) = Head(Unread)
          /\ Tail(Unread \o fifo) = Tail(Unread) \o fifo
      BY <2>0, <3>1
    <3>4. QED
      BY <3>1, <3>2, <3>3 DEF Line!Next, Line!Read
  <2>4. CASE uart0_Available \/ LoadSpace \/ StoreSpace \/ CheckSpace \/ Enable \/ UNCHANGED vars
    BY <2>4 DEF uart0_Available, LoadSpace, StoreSpace, CheckSpace, Enable, vars, hardware, ring, poll,
                Unread, Used, Ahead, At, Line!vars
  <2>5. QED
    BY <2>1, <2>2, <2>3, <2>4 DEF GentleNext, Poll
<1>3. QED
  BY <1>1, <1>2, InvInit, StepInv, PTL DEF GentleSpec, ReadsTheLine, Line!Spec
=============================================================================
