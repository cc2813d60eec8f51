-------------------------- MODULE Settings_proofs --------------------------
(***************************************************************************)
(* Proofs about the configuration store of modules/config.c, for any set   *)
(* of configurations and any values the flag byte may read as, and about   *)
(* the settings of the web server above it, for any requests, for any      *)
(* order and lengths of the arrays of SYSCFG that keep what Layout says,   *)
(* and any configurations closed under what handlers set.                  *)
(*                                                                         *)
(* The store's invariant says what a save under way has achieved before    *)
(* each flash call: until the copy is written the target is the copy that  *)
(* does not count, and from then on it holds what the handler has set, so  *)
(* that whatever the flag reads as, an intact copy is selected.            *)
(*                                                                         *)
(* The settings change the configuration only through the store, so that   *)
(* every behaviour of theirs is one of it.  What the client and the        *)
(* answers rely on then follows from three facts: until the flag is turned *)
(* over, both the stored configuration and the one being stored agree with *)
(* the client's copies and with the answers; the flag selects one of the   *)
(* two, whenever power fails; and a put of a text, which may go on behind  *)
(* its array, changes no byte but those it touches, so that neither        *)
(* another setting's text reaches the host or a port, nor one that is not  *)
(* of MQTT the client's copies.                                            *)
(*                                                                         *)
(* That a page can be sent back needs what texts and numbers make of each  *)
(* other: that a text which fits its array is read from it, the digits of  *)
(* a number read as it again and its bytes too, and the text of a mesh     *)
(* address as its bytes.  An address of the broker is what the parser      *)
(* takes off the front of a text, followed character by character to each  *)
(* dot.                                                                    *)
(***************************************************************************)
EXTENDS Settings, SeqLemmas

-----------------------------------------------------------------------------
\* The store.

\* Before the copy is written: the flag is the one CFG_Save read.
Reading == pc \in {"eraseCfg", "writeCfg"} => saveFlag = flag

\* The flag is about to be turned over: the other copy is already the new one.
Turning == pc = "eraseFlag" =>
             /\ saveFlag \in {0, 1}
             /\ saveFlag = 0 <=> flag # 0
             /\ sec[saveFlag] = sysCfg

\* The flag is erased.
Writing == pc = "writeFlag" =>
             /\ saveFlag \in {0, 1}
             /\ flag = 255
             /\ sec[saveFlag] = sysCfg

\* Power on: a whole configuration is in use, and between handlers it is stored.
InUse == /\ pc # "off" => sysCfg \in Config
         /\ pc = "idle" => sysCfg = Selected

IInv == TypeOK /\ SelectedIntact /\ Reading /\ Turning /\ Writing /\ InUse

\* An interrupted write of 1 does not read as 0.
LEMMA NeverZero == ASSUME NEW f, NEW b \in PartlyWritten(f)
                   PROVE b \in FlagByte /\ (f = 1 => b # 0)
<1>1. 0 % 2 # 1
  OBVIOUS
<1>2. b \in FlagByte /\ (f = 1 => b % 2 = 1)
  BY DEF PartlyWritten
<1>3. QED
  BY <1>1, <1>2

LEMMA InitInvariant == Init => IInv
BY ConfigAssumption
   DEF Init, IInv, TypeOK, Copy, SelectedIntact, Selected, Reading, Turning, Writing, InUse

LEMMA NextInvariant == IInv /\ [Next]_vars => IInv'
<1> USE ConfigAssumption DEF IInv, TypeOK, Copy, SelectedIntact, Selected
<1> SUFFICES ASSUME IInv, [Next]_vars PROVE IInv'
  OBVIOUS
<1>1. CASE CFG_Load
  BY <1>1 DEF CFG_Load, BeginSave, Reading, Turning, Writing, InUse
<1>2. ASSUME NEW cfg \in Config, Change(cfg) PROVE IInv'
  BY <1>2 DEF Change, BeginSave, Reading, Turning, Writing, InUse
<1>3. CASE EraseCfg
  BY <1>3 DEF EraseCfg, Target, Reading, Turning, Writing, InUse
<1>4. CASE WriteCfg
  BY <1>4 DEF WriteCfg, Target, Reading, Turning, Writing, InUse
<1>5. CASE EraseFlag
  BY <1>5 DEF EraseFlag, Reading, Turning, Writing, InUse
<1>6. CASE WriteFlag
  BY <1>6 DEF WriteFlag, Reading, Turning, Writing, InUse
<1>7. CASE PowerLoss
  <2>1. pc' = "off" /\ sysCfg' = NoHolder /\ saveFlag' = 0
    BY <1>7 DEF PowerLoss
  <2>2. Reading' /\ Turning' /\ Writing' /\ InUse'
    BY <2>1 DEF Reading, Turning, Writing, InUse
  <2>3. CASE pc \in {"eraseCfg", "writeCfg"} /\ flag' = flag
             /\ \E torn \in {NoHolder, Mixed} : sec' = [sec EXCEPT ![Target(saveFlag)] = torn]
    BY <2>1, <2>2, <2>3 DEF Target, Reading
  <2>4. CASE pc = "eraseFlag" /\ flag' \in FlagByte /\ sec' = sec
    BY <2>1, <2>2, <2>4 DEF Turning, InUse
  <2>5. CASE pc = "writeFlag" /\ flag' \in PartlyWritten(saveFlag) /\ sec' = sec
    <3>1. flag' \in FlagByte /\ (saveFlag = 1 => flag' # 0)
      BY <2>5, NeverZero
    <3>2. QED
      BY <2>1, <2>2, <2>5, <3>1 DEF Writing, InUse
  <2>6. CASE UNCHANGED <<sec, flag>>
    BY <2>1, <2>2, <2>6
  <2>7. QED
    BY <1>7, <2>3, <2>4, <2>5, <2>6 DEF PowerLoss
<1>8. CASE UNCHANGED vars
  BY <1>8 DEF vars, Reading, Turning, Writing, InUse
<1>9. QED
  BY <1>1, <1>2, <1>3, <1>4, <1>5, <1>6, <1>7, <1>8 DEF Next

LEMMA Invariant == Spec => []IInv
BY InitInvariant, NextInvariant, PTL DEF Spec

\* Every variable keeps its range, in particular the flag that is written back
\* (config.c:43-65).
THEOREM ConfigTyped == Spec => []TypeOK
<1>1. IInv => TypeOK
  BY DEF IInv
<1>2. QED
  BY <1>1, Invariant, PTL

\* Wherever power fails during any number of saves, CFG_Load never accepts a torn
\* copy (config.c:48-64 and 73-80).
THEOREM ConfigIntact == Spec => []SelectedIntact
<1>1. IInv => SelectedIntact
  BY DEF IInv
<1>2. QED
  BY <1>1, Invariant, PTL

-----------------------------------------------------------------------------

\* A save does not touch the copy that counts, and the flag moves to a copy that
\* holds what is in use: each step replaces the stored configuration as a whole
\* or not at all (config.c:43-138).
THEOREM ConfigIsAtomic == Spec => AtomicStore
<1> USE ConfigAssumption
<1> DEFINE disk == IF Selected = NoHolder THEN None ELSE Selected
           ram  == IF pc = "off" THEN None ELSE sysCfg
<1>1. Init => Store!Init
  BY DEF Init, Store!Init, Selected
<1>2. IInv /\ [Next]_vars => [Store!Next]_(Store!vars)
  <2> SUFFICES ASSUME IInv, [Next]_vars PROVE [Store!Next]_(Store!vars)
    OBVIOUS
  <2> USE DEF IInv, TypeOK, Copy, SelectedIntact, Selected
  <2>1. CASE CFG_Load
    <3>1. Store!Boot
      BY <2>1 DEF CFG_Load, BeginSave, Store!Boot
    <3>2. QED
      BY <3>1 DEF Store!Next
  <2>2. ASSUME NEW cfg \in Config, Change(cfg) PROVE Store!Next
    <3>1. Store!Change(cfg)
      BY <2>2 DEF Change, BeginSave, Store!Change, InUse
    <3>2. QED
      BY <3>1 DEF Store!Next
  <2>3. CASE EraseCfg
    BY <2>3 DEF EraseCfg, Target, Reading, Store!vars
  <2>4. CASE WriteCfg
    BY <2>4 DEF WriteCfg, Target, Reading, Store!vars
  <2>5. CASE EraseFlag
    <3>1. CASE saveFlag = 1
      <4>1. Store!Commit
        BY <2>5, <3>1 DEF EraseFlag, Turning, InUse, Store!Commit
      <4>2. QED
        BY <4>1 DEF Store!Next
    <3>2. CASE saveFlag = 0
      BY <2>5, <3>2 DEF EraseFlag, Turning, Store!vars
    <3>3. QED
      BY <2>5, <3>1, <3>2 DEF EraseFlag, Turning
  <2>6. CASE WriteFlag
    <3>1. CASE saveFlag = 0
      <4>1. Store!Commit
        BY <2>6, <3>1 DEF WriteFlag, Writing, InUse, Store!Commit
      <4>2. QED
        BY <4>1 DEF Store!Next
    <3>2. CASE saveFlag = 1
      BY <2>6, <3>2 DEF WriteFlag, Writing, Store!vars
    <3>3. QED
      BY <2>6, <3>1, <3>2 DEF WriteFlag, Writing
  <2>7. CASE PowerLoss
    <3>1. ram # None /\ ram' = None
      BY <2>7 DEF PowerLoss, InUse
    <3>2. disk' \in {disk, ram}
      <4>1. CASE pc \in {"eraseCfg", "writeCfg"} /\ flag' = flag
                 /\ \E torn \in {NoHolder, Mixed} : sec' = [sec EXCEPT ![Target(saveFlag)] = torn]
        BY <4>1 DEF Target, Reading
      <4>2. CASE pc = "eraseFlag" /\ flag' \in FlagByte /\ sec' = sec
        BY <4>2 DEF Turning, InUse
      <4>3. CASE pc = "writeFlag" /\ flag' \in PartlyWritten(saveFlag) /\ sec' = sec
        <5>1. saveFlag = 1 => flag' # 0
          BY <4>3, NeverZero
        <5>2. QED
          BY <4>3, <5>1 DEF Writing, InUse
      <4>4. CASE UNCHANGED <<sec, flag>>
        BY <4>4
      <4>5. QED
        BY <2>7, <4>1, <4>2, <4>3, <4>4 DEF PowerLoss
    <3>3. Store!PowerLoss
      BY <3>1, <3>2 DEF Store!PowerLoss
    <3>4. QED
      BY <3>3 DEF Store!Next
  <2>8. CASE UNCHANGED vars
    BY <2>8 DEF vars, Store!vars
  <2>9. QED
    BY <2>1, <2>2, <2>3, <2>4, <2>5, <2>6, <2>7, <2>8 DEF Next
<1>3. QED
  BY <1>1, <1>2, Invariant, PTL DEF Spec, AtomicStore, Store!Spec

-----------------------------------------------------------------------------
\* The flag selects the stored configuration or the one being stored.

LEMMA FlashSelects == ASSUME IInv, EraseCfg \/ WriteCfg \/ EraseFlag \/ WriteFlag
                      PROVE /\ Selected' \in {Selected, sysCfg} /\ sysCfg' = sysCfg
                            /\ pc # "off" /\ pc' # "off" /\ sysCfg \in Config
<1> USE DEF IInv, TypeOK, Selected, InUse
<1>1. CASE EraseCfg
  BY <1>1 DEF EraseCfg, Target, Reading
<1>2. CASE WriteCfg
  BY <1>2 DEF WriteCfg, Target, Reading
<1>3. CASE EraseFlag
  BY <1>3 DEF EraseFlag, Turning
<1>4. CASE WriteFlag
  BY <1>4 DEF WriteFlag, Writing
<1>5. QED
  BY <1>1, <1>2, <1>3, <1>4

LEMMA PowerSelects == ASSUME IInv, PowerLoss
                      PROVE Selected' \in {Selected, sysCfg} /\ sysCfg \in Config /\ pc' = "off"
<1> USE DEF IInv, TypeOK, Selected
<1>1. pc # "off" /\ pc' = "off" /\ sysCfg \in Config
  BY DEF PowerLoss, InUse
<1>2. CASE pc \in {"eraseCfg", "writeCfg"} /\ flag' = flag
           /\ \E torn \in {NoHolder, Mixed} : sec' = [sec EXCEPT ![Target(saveFlag)] = torn]
  BY <1>1, <1>2 DEF Target, Reading
<1>3. CASE pc = "eraseFlag" /\ flag' \in FlagByte /\ sec' = sec
  BY <1>1, <1>3 DEF Turning
<1>4. CASE pc = "writeFlag" /\ flag' \in PartlyWritten(saveFlag) /\ sec' = sec
  <2>1. saveFlag = 1 => flag' # 0
    BY <1>4, NeverZero
  <2>2. QED
    BY <1>1, <1>4, <2>1 DEF Writing
<1>5. CASE UNCHANGED <<sec, flag>>
  BY <1>1, <1>5
<1>6. QED
  BY <1>1, <1>2, <1>3, <1>4, <1>5 DEF PowerLoss

-----------------------------------------------------------------------------
\* Numbers and their digits.

\* Value is a fold, with one step for each digit.
ValueFn == [p \in Int \X Int |-> (p[1] * 10) + p[2] - Zero]

LEMMA ValueFnTyped ==
  /\ ValueFn \in FoldFns(Int, Int)
  /\ \A v, c \in Int : ValueFn[<<v, c>>] = (v * 10) + c - Zero
<1>1. \A p \in Int \X Int : (p[1] * 10) + p[2] - Zero \in Int
  BY DEF Zero
<1>2. ValueFn \in [Int \X Int -> Int]
  BY <1>1, Zenon DEF ValueFn
<1>3. \A v, c \in Int : ValueFn[<<v, c>>] = (v * 10) + c - Zero
  BY DEF ValueFn
<1> QED BY <1>2, <1>3, Zenon DEF FoldFns

LEMMA ValueIs == ASSUME NEW t \in Seq(Int) PROVE Value(t) = Fold(ValueFn, 0, t)
<1> DEFINE n == Len(t)
           Is(F) == F = [i \in 0 .. n |-> IF i = 0 THEN 0 ELSE (F[i - 1] * 10) + t[i] - Zero]
           F == CHOOSE G : Is(G)
<1>1. n \in Nat /\ \A i \in 1 .. n : t[i] \in Int
  BY ElementOfSeq
<1>2. Value(t) = F[n]
  BY Zenon DEF Value
<1>3. PICK g : Folds(g, Int, ValueFn, 0, t)
  <2>1. 0 \in Int
    OBVIOUS
  <2> QED BY <2>1, ValueFnTyped, FoldsExist, Zenon
<1>4. Is(g)
  <2>1. g \in [0 .. n -> Int] /\ g[0] = 0 /\ \A i \in 1 .. n : g[i] = ValueFn[<<g[i - 1], t[i]>>]
    BY <1>3, Zenon DEF Folds
  <2> HIDE DEF n
  <2>2. \A i \in 1 .. n : g[i - 1] \in Int
    BY <1>1, <2>1
  <2>3. \A i \in 1 .. n : g[i] = (g[i - 1] * 10) + t[i] - Zero
    BY <1>1, <2>1, <2>2, ValueFnTyped, Zenon
  <2>4. g = [i \in 0 .. n |-> g[i]]
    BY <2>1
  <2>5. \A i \in 0 .. n : i = 0 \/ (i \in 1 .. n /\ i # 0)
    BY <1>1
  <2>6. \A i \in 0 .. n : g[i] = IF i = 0 THEN 0 ELSE (g[i - 1] * 10) + t[i] - Zero
    BY <2>1, <2>3, <2>5, Zenon
  <2>7. g = [i \in 0 .. n |-> IF i = 0 THEN 0 ELSE (g[i - 1] * 10) + t[i] - Zero]
    BY <2>4, <2>6
  <2> QED BY <2>7, Zenon
<1>5. Is(F)
  <2> HIDE DEF Is
  <2> QED BY <1>4, Zenon
<1>6. F[0] = 0 /\ \A i \in 1 .. n : F[i] = (F[i - 1] * 10) + t[i] - Zero
  <2> HIDE DEF F, n
  <2> QED BY <1>1, <1>5
<1> HIDE DEF F, Is
<1>7. \A i \in 1 .. n : F[i - 1] \in Int => F[i] = ValueFn[<<F[i - 1], t[i]>>]
  BY <1>1, <1>6, ValueFnTyped, Zenon
<1>8. F[n] = Fold(ValueFn, 0, t)
  <2>1. 0 \in Int
    OBVIOUS
  <2>2. ValueFn \in FoldFns(Int, Int)
    BY ValueFnTyped, Zenon
  <2>3. F[0] = 0 /\ \A i \in 1 .. Len(t) : F[i - 1] \in Int => F[i] = ValueFn[<<F[i - 1], t[i]>>]
    BY <1>6, <1>7, Zenon DEF n
  <2>4. F[Len(t)] = Fold(ValueFn, 0, t)
    <3>1. PICK z, V, k : z = 0 /\ V = Int /\ k = F
      OBVIOUS
    <3>2. z \in V /\ t \in Seq(V) /\ ValueFn \in FoldFns(V, V) /\ k[0] = z
      BY <2>1, <2>2, <2>3, <3>1, Zenon
    <3>3. \A i \in 1 .. Len(t) : k[i - 1] \in V => k[i] = ValueFn[<<k[i - 1], t[i]>>]
      BY <2>3, <3>1, Zenon
    <3>4. k[Len(t)] = Fold(ValueFn, z, t)
      BY <3>2, <3>3, FoldUnfold, SMTT(30)
    <3> QED BY <3>1, <3>4, Zenon
  <2> QED BY <2>4, Zenon DEF n
<1> QED BY <1>2, <1>8, Zenon

\* so that it is 0 of no digit, and one more digit moves the others up.
LEMMA ValueSteps ==
  /\ Value(<<>>) = 0
  /\ \A t \in Seq(Int) : Value(t) \in Int
  /\ \A t \in Seq(Int), c \in Int : Value(Append(t, c)) = (Value(t) * 10) + c - Zero
<1>0. 0 \in Int
  OBVIOUS
<1>1. Value(<<>>) = 0
  <2>1. <<>> \in Seq(Int)
    OBVIOUS
  <2> QED BY <1>0, <2>1, ValueIs, ValueFnTyped, FoldEmpty, Zenon
<1>2. ASSUME NEW t \in Seq(Int) PROVE Value(t) \in Int
  <2>1. Fold(ValueFn, 0, t) \in Int
    BY <1>0, ValueFnTyped, FoldTyped, Zenon
  <2> QED BY <2>1, ValueIs, Zenon
<1>3. ASSUME NEW t \in Seq(Int), NEW c \in Int PROVE Value(Append(t, c)) = (Value(t) * 10) + c - Zero
  <2>0. ValueFn \in FoldFns(Int, Int)
    BY ValueFnTyped, Zenon
  <2>1. Fold(ValueFn, 0, Append(t, c)) = ValueFn[<<Fold(ValueFn, 0, t), c>>]
    BY <1>0, <2>0, FoldAppend
  <2>2. Append(t, c) \in Seq(Int)
    OBVIOUS
  <2>3. Value(Append(t, c)) = ValueFn[<<Value(t), c>>]
    BY <2>1, <2>2, ValueIs, Zenon
  <2> QED BY <2>3, <1>2, ValueFnTyped, Zenon
<1> QED BY <1>1, <1>2, <1>3, Zenon

\* The digits of the numbers up to k,
DigitsUpTo(F, k) ==
  /\ F \in [0 .. k -> Seq(Int)]
  /\ \A n \in 0 .. k : n < 10 => F[n] = <<Zero + n>>
  /\ \A n \in 10 .. k : F[n] = Append(F[n \div 10], Zero + (n % 10))

\* which are there,
LEMMA DigitsExist == \A k \in Nat : \E F : DigitsUpTo(F, k)
<1> DEFINE T == {k \in Nat : \E F : DigitsUpTo(F, k)}
<1>1. 0 \in T
  <2> DEFINE G == [n \in 0 .. 0 |-> <<Zero + n>>]
  <2>1. G \in [0 .. 0 -> Seq(Int)]
    BY DEF Zero
  <2>2. \A n \in 0 .. 0 : G[n] = <<Zero + n>>
    OBVIOUS
  <2>3. \A n \in 10 .. 0 : FALSE
    OBVIOUS
  <2> HIDE DEF G
  <2>4. DigitsUpTo(G, 0)
    BY <2>1, <2>2, <2>3, Zenon DEF DigitsUpTo
  <2> QED BY <2>4
<1>2. ASSUME NEW k \in Nat, k \in T PROVE k + 1 \in T
  <2>1. PICK F : DigitsUpTo(F, k)
    BY <1>2
  <2>2. /\ F \in [0 .. k -> Seq(Int)]
        /\ \A n \in 0 .. k : n < 10 => F[n] = <<Zero + n>>
        /\ \A n \in 10 .. k : F[n] = Append(F[n \div 10], Zero + (n % 10))
    BY <2>1, Zenon DEF DigitsUpTo
  <2> DEFINE c == k + 1
             new == IF c < 10 THEN <<Zero + c>> ELSE Append(F[c \div 10], Zero + (c % 10))
             G == [n \in 0 .. k + 1 |-> IF n = c THEN new ELSE F[n]]
  <2>3. new \in Seq(Int)
    <3>1. CASE c < 10
      BY <3>1 DEF Zero
    <3>2. CASE ~(c < 10)
      <4>1. c \div 10 \in 0 .. k /\ Zero + (c % 10) \in Int
        BY <3>2 DEF Zero
      <4>2. F[c \div 10] \in Seq(Int)
        <5> HIDE DEF c
        <5> QED BY <2>2, <4>1
      <4>3. Append(F[c \div 10], Zero + (c % 10)) \in Seq(Int)
        BY <4>1, <4>2, AppendProperties, Zenon
      <4> QED BY <3>2, <4>3, Zenon
    <3> QED BY <3>1, <3>2
  <2>4. G \in [0 .. k + 1 -> Seq(Int)] /\ \A n \in 0 .. k : G[n] = F[n]
    <3> HIDE DEF new
    <3> QED BY <2>2, <2>3
  <2>5. G[c] = new
    <3> HIDE DEF new
    <3> QED OBVIOUS
  <2> HIDE DEF G
  <2>6. ASSUME NEW n \in 0 .. k + 1, n < 10 PROVE G[n] = <<Zero + n>>
    <3>1. CASE n = c
      BY <2>5, <2>6, <3>1, Zenon
    <3>2. CASE n # c
      <4>1. n \in 0 .. k
        BY <3>2
      <4> QED BY <2>2, <2>4, <2>6, <4>1, Zenon
    <3> QED BY <3>1, <3>2
  <2>7. ASSUME NEW n \in 10 .. k + 1 PROVE G[n] = Append(G[n \div 10], Zero + (n % 10))
    <3>1. G[n \div 10] = F[n \div 10]
      <4>1. n \div 10 \in 0 .. k
        OBVIOUS
      <4> QED BY <2>4, <4>1, Zenon
    <3>2. CASE n = c
      <4>1. ~(c < 10)
        BY <3>2
      <4> QED BY <2>5, <3>1, <3>2, <4>1, Zenon
    <3>3. CASE n # c
      <4>1. n \in 10 .. k /\ n \in 0 .. k
        BY <3>3
      <4> QED BY <2>2, <2>4, <3>1, <4>1, Zenon
    <3> QED BY <3>2, <3>3
  <2>8. DigitsUpTo(G, k + 1)
    BY <2>4, <2>6, <2>7, Zenon DEF DigitsUpTo
  <2> QED BY <2>8
<1>3. Nat \subseteq T
  <2> HIDE DEF T
  <2> QED BY <1>1, <1>2, Induct
<1> QED BY <1>3

\* and only once,
LEMMA DigitsAgree ==
  ASSUME NEW j \in Nat, NEW k \in Nat, NEW F, NEW G, DigitsUpTo(F, j), DigitsUpTo(G, k)
  PROVE  \A n \in Nat : n <= j /\ n <= k => F[n] = G[n]
<1> DEFINE T == {m \in Nat : \A n \in 0 .. m : n <= j /\ n <= k => F[n] = G[n]}
<1>1. /\ \A n \in 0 .. j : n < 10 => F[n] = <<Zero + n>>
      /\ \A n \in 0 .. k : n < 10 => G[n] = <<Zero + n>>
      /\ \A n \in 10 .. j : F[n] = Append(F[n \div 10], Zero + (n % 10))
      /\ \A n \in 10 .. k : G[n] = Append(G[n \div 10], Zero + (n % 10))
  BY Zenon DEF DigitsUpTo
<1>2. 0 \in T
  <2>1. 0 \in 0 .. j /\ 0 \in 0 .. k /\ 0 < 10
    OBVIOUS
  <2>2. F[0] = G[0]
    BY <1>1, <2>1, Zenon
  <2>3. \A n \in 0 .. 0 : n = 0
    OBVIOUS
  <2> QED BY <2>2, <2>3
<1>3. ASSUME NEW m \in Nat, m \in T PROVE m + 1 \in T
  <2> DEFINE c == m + 1
  <2>1. ASSUME c <= j, c <= k PROVE F[c] = G[c]
    <3>1. CASE c < 10
      <4>1. c \in 0 .. j /\ c \in 0 .. k
        BY <2>1
      <4> HIDE DEF c
      <4> QED BY <1>1, <3>1, <4>1, Zenon
    <3>2. CASE c >= 10
      <4>1. c \in 10 .. j /\ c \in 10 .. k /\ c \div 10 \in 0 .. m /\ c \div 10 <= j /\ c \div 10 <= k
        BY <2>1, <3>2
      <4> HIDE DEF c
      <4>2. F[c \div 10] = G[c \div 10]
        BY <1>3, <4>1, Zenon
      <4> QED BY <1>1, <4>1, <4>2, Zenon
    <3> QED BY <3>1, <3>2
  <2>2. \A n \in 0 .. m + 1 : n \in 0 .. m \/ n = c
    OBVIOUS
  <2>3. \A n \in 0 .. m : n <= j /\ n <= k => F[n] = G[n]
    BY <1>3, Zenon
  <2>4. \A n \in 0 .. m + 1 : n <= j /\ n <= k => F[n] = G[n]
    BY <2>1, <2>2, <2>3, Zenon
  <2> QED BY <2>4
<1>4. Nat \subseteq T
  <2> HIDE DEF T
  <2> QED BY <1>2, <1>3, Induct
<1>5. \A n \in Nat : n \in 0 .. n
  OBVIOUS
<1> QED BY <1>4, <1>5, Zenon

\* so that Decimal writes them.
LEMMA DecimalIs ==
  /\ \A n \in Nat : Decimal[n] \in Seq(Int)
  /\ \A n \in Nat : n < 10 => Decimal[n] = <<Zero + n>>
  /\ \A n \in Nat : n >= 10 => Decimal[n] = Append(Decimal[n \div 10], Zero + (n % 10))
  /\ Decimal[-1] = <<Minus>> \o Decimal[1]
<1> DEFINE Is(H) == H = [n \in Nat |-> IF n < 10 THEN <<Zero + n>> ELSE Append(H[n \div 10], Zero + (n % 10))]
           upTo == [n \in Nat |-> CHOOSE F : DigitsUpTo(F, n)]
           G == [n \in Nat |-> upTo[n][n]]
           digits == CHOOSE H : Is(H)
<1>1. \A n \in Nat : DigitsUpTo(upTo[n], n)
  <2>1. \A n \in Nat : upTo[n] = CHOOSE F : DigitsUpTo(F, n)
    OBVIOUS
  <2> HIDE DEF upTo
  <2> QED BY <2>1, DigitsExist, Zenon
<1> HIDE DEF upTo
<1>2. \A n \in Nat : G[n] = upTo[n][n]
  OBVIOUS
<1> HIDE DEF G
<1>3. ASSUME NEW n \in Nat
      PROVE  /\ upTo[n][n] \in Seq(Int)
             /\ n < 10 => upTo[n][n] = <<Zero + n>>
             /\ n >= 10 => upTo[n][n] = Append(upTo[n][n \div 10], Zero + (n % 10))
  <2> DEFINE F == upTo[n]
  <2>1. DigitsUpTo(F, n)
    BY <1>1
  <2> HIDE DEF F
  <2>2. F \in [0 .. n -> Seq(Int)] /\ n \in 0 .. n /\ (n >= 10 => n \in 10 .. n)
    BY <2>1 DEF DigitsUpTo
  <2>3. /\ n < 10 => F[n] = <<Zero + n>>
        /\ n >= 10 => F[n] = Append(F[n \div 10], Zero + (n % 10))
    BY <2>1, <2>2, Zenon DEF DigitsUpTo
  <2>4. F[n] \in Seq(Int)
    BY <2>2
  <2> QED BY <2>3, <2>4, Zenon DEF F
<1>4. ASSUME NEW n \in Nat, n >= 10 PROVE upTo[n][n \div 10] = G[n \div 10]
  <2> DEFINE m == n \div 10
  <2>1. m \in Nat /\ m <= m /\ m <= n
    BY <1>4
  <2> HIDE DEF m
  <2>2. DigitsUpTo(upTo[m], m) /\ DigitsUpTo(upTo[n], n)
    BY <1>1, <2>1, Zenon
  <2>3. \A k \in Nat : k <= m /\ k <= n => upTo[m][k] = upTo[n][k]
    BY <2>1, <2>2, DigitsAgree
  <2>4. upTo[m][m] = upTo[n][m]
    BY <2>1, <2>3, Zenon
  <2> QED BY <1>2, <2>1, <2>4, Zenon DEF m
<1>5. /\ \A n \in Nat : G[n] \in Seq(Int)
      /\ \A n \in Nat : n < 10 => G[n] = <<Zero + n>>
      /\ \A n \in Nat : n >= 10 => G[n] = Append(G[n \div 10], Zero + (n % 10))
  BY <1>2, <1>3, <1>4, Zenon
<1>6. Is(G)
  <2>1. G = [n \in Nat |-> G[n]]
    BY DEF G
  <2>2. \A n \in Nat : n < 10 \/ n >= 10
    OBVIOUS
  <2>3. \A n \in Nat : n >= 10 => ~(n < 10)
    OBVIOUS
  <2>4. \A n \in Nat : G[n] = IF n < 10 THEN <<Zero + n>> ELSE Append(G[n \div 10], Zero + (n % 10))
    BY <1>5, <2>2, <2>3, Zenon
  <2>5. [n \in Nat |-> G[n]] = [n \in Nat |-> IF n < 10 THEN <<Zero + n>> ELSE Append(G[n \div 10], Zero + (n % 10))]
    BY <2>4, Zenon
  <2> QED BY <2>1, <2>5, Zenon
<1>7. Is(digits)
  <2> HIDE DEF Is
  <2> QED BY <1>6, Zenon
<1>8. Decimal = [n \in Int |-> IF n < 0 THEN <<Minus>> \o digits[-n] ELSE digits[n]]
  BY Zenon DEF Decimal
<1> HIDE DEF digits
<1>9. (\A n \in Nat : Decimal[n] = digits[n]) /\ Decimal[-1] = <<Minus>> \o digits[1]
  BY <1>8
<1>10. \A n \in Nat : digits[n] = IF n < 10 THEN <<Zero + n>> ELSE Append(digits[n \div 10], Zero + (n % 10))
  <2>1. digits = [n \in Nat |-> IF n < 10 THEN <<Zero + n>> ELSE Append(digits[n \div 10], Zero + (n % 10))]
    BY <1>7, Zenon
  <2> DEFINE body == [n \in Nat |-> IF n < 10 THEN <<Zero + n>> ELSE Append(digits[n \div 10], Zero + (n % 10))]
  <2>2. \A n \in Nat : body[n] = IF n < 10 THEN <<Zero + n>> ELSE Append(digits[n \div 10], Zero + (n % 10))
    BY Zenon
  <2>3. digits = body
    BY <2>1
  <2> HIDE DEF body
  <2> QED BY <2>2, <2>3, Zenon
<1>11. ASSUME NEW n \in Nat, n < 10 PROVE Decimal[n] = <<Zero + n>>
  BY <1>9, <1>10, <1>11, Zenon
<1>12. ASSUME NEW n \in Nat, n >= 10 PROVE Decimal[n] = Append(Decimal[n \div 10], Zero + (n % 10))
  <2>1. ~(n < 10) /\ n \div 10 \in Nat
    BY <1>12
  <2> QED BY <1>9, <1>10, <2>1, Zenon
<1>13. \A n \in Nat : Decimal[n] \in Seq(Int)
  <2> DEFINE T == {m \in Nat : \A n \in 0 .. m : Decimal[n] \in Seq(Int)}
  <2>0. \A n \in Nat : Zero + n \in Int /\ <<Zero + n>> \in Seq(Int)
    BY DEF Zero
  <2>1. 0 \in T
    <3>1. 0 \in Nat /\ 0 < 10
      OBVIOUS
    <3>2. Decimal[0] \in Seq(Int)
      BY <1>11, <2>0, <3>1, Zenon
    <3>3. \A n \in 0 .. 0 : n = 0
      OBVIOUS
    <3> QED BY <3>1, <3>2, <3>3, Zenon
  <2>2. ASSUME NEW m \in Nat, m \in T PROVE m + 1 \in T
    <3> DEFINE c == m + 1
    <3>0. c \in Nat
      OBVIOUS
    <3>1. Decimal[c] \in Seq(Int)
      <4>1. CASE c < 10
        <5> HIDE DEF c
        <5> QED BY <1>11, <2>0, <3>0, <4>1, Zenon
      <4>2. CASE c >= 10
        <5>1. c \div 10 \in 0 .. m /\ Zero + (c % 10) \in Int
          BY <4>2 DEF Zero
        <5> HIDE DEF c
        <5>2. Decimal[c \div 10] \in Seq(Int)
          BY <2>2, <5>1, Zenon
        <5>3. Append(Decimal[c \div 10], Zero + (c % 10)) \in Seq(Int)
          BY <5>1, <5>2, AppendProperties, Zenon
        <5> QED BY <1>12, <3>0, <4>2, <5>3, Zenon
      <4> QED BY <3>0, <4>1, <4>2
    <3>2. \A n \in 0 .. m + 1 : n \in 0 .. m \/ n = c
      OBVIOUS
    <3> QED BY <2>2, <3>0, <3>1, <3>2, Zenon
  <2>3. Nat \subseteq T
    <3> HIDE DEF T
    <3> QED BY <2>1, <2>2, Induct
  <2>4. \A n \in Nat : n \in 0 .. n
    OBVIOUS
  <2> QED BY <2>3, <2>4, Zenon
<1>14. Decimal[-1] = <<Minus>> \o Decimal[1]
  <2>1. 1 \in Nat
    OBVIOUS
  <2> QED BY <1>9, <2>1, Zenon
<1> QED BY <1>11, <1>12, <1>13, <1>14, Zenon

\* What %d writes Atoi reads, and -1 too, since it is read of anything that is no number.
LEMMA DecimalRead == \A n \in Nat \cup {-1} : Atoi(Decimal[n]) = n
<1> DEFINE Reads(n) == /\ Decimal[n] # <<>>
                       /\ \A i \in 1 .. Len(Decimal[n]) : isNumericChar(Decimal[n][i])
                       /\ Value(Decimal[n]) = n
           T == {m \in Nat : \A n \in 0 .. m : Reads(n)}
<1>1. ASSUME NEW n \in Nat, n < 10 PROVE Reads(n)
  <2> DEFINE c == Zero + n
  <2>1. Decimal[n] = <<c>>
    BY <1>1, DecimalIs, Zenon
  <2>2. c \in Int /\ isNumericChar(c) /\ c - Zero = n
    BY <1>1 DEF Zero, isNumericChar
  <2> HIDE DEF c
  <2>3. <<c>> = Append(<<>>, c) /\ <<>> \in Seq(Int) /\ Len(<<c>>) = 1 /\ <<c>>[1] = c /\ <<c>> # <<>>
    BY <2>2
  <2>4. Value(<<c>>) = (0 * 10) + c - Zero
    BY <2>2, <2>3, ValueSteps, Zenon
  <2>5. Value(<<c>>) = n
    BY <2>2, <2>4 DEF Zero
  <2>6. \A i \in 1 .. Len(<<c>>) : isNumericChar(<<c>>[i])
    BY <2>2, <2>3
  <2> QED BY <2>1, <2>3, <2>5, <2>6, Zenon
<1>2. ASSUME NEW n \in Nat, n >= 10, Reads(n \div 10) PROVE Reads(n)
  <2> DEFINE s == Decimal[n \div 10]
             c == Zero + (n % 10)
             m == n \div 10
  <2>1. m \in Nat /\ n = 10 * m + (n % 10) /\ n % 10 \in 0 .. 9
    OBVIOUS
  <2>2. c \in Int /\ isNumericChar(c) /\ n = 10 * m + c - Zero
    BY <2>1 DEF Zero, isNumericChar
  <2>3. Decimal[n] = Append(s, c) /\ s \in Seq(Int)
    BY <1>2, <2>1, DecimalIs, Zenon
  <2>4. Value(s) = m /\ \A i \in 1 .. Len(s) : isNumericChar(s[i])
    BY <1>2
  <2> HIDE DEF s, c, m
  <2>5. Value(Append(s, c)) = (Value(s) * 10) + c - Zero
    BY <2>2, <2>3, ValueSteps, Zenon
  <2>6. Value(Append(s, c)) = n
    BY <2>1, <2>2, <2>4, <2>5 DEF Zero
  <2>7. Len(Append(s, c)) = Len(s) + 1 /\ Append(s, c)[Len(s) + 1] = c
        /\ \A i \in 1 .. Len(s) : Append(s, c)[i] = s[i]
    BY <2>2, <2>3, AppendProperties
  <2>8. Append(s, c) # <<>>
    BY <2>2, <2>3
  <2>9. ASSUME NEW i \in 1 .. Len(Append(s, c)) PROVE isNumericChar(Append(s, c)[i])
    <3>1. i = Len(s) + 1 \/ i \in 1 .. Len(s)
      BY <2>3, <2>7
    <3> QED BY <2>2, <2>4, <2>7, <3>1, Zenon
  <2> QED BY <2>3, <2>6, <2>8, <2>9, Zenon
<1> HIDE DEF Reads
<1>3. 0 \in T
  <2>1. \A n \in 0 .. 0 : n \in Nat /\ n < 10
    OBVIOUS
  <2> QED BY <1>1, <2>1
<1>4. ASSUME NEW m \in Nat, m \in T PROVE m + 1 \in T
  <2> DEFINE c == m + 1
  <2>1. \A n \in 0 .. m + 1 : n \in 0 .. m \/ n = c
    OBVIOUS
  <2>2. c \in Nat /\ (c < 10 \/ c >= 10) /\ (c >= 10 => c \div 10 \in 0 .. m)
    OBVIOUS
  <2>3. \A n \in 0 .. m : Reads(n)
    BY <1>4, Zenon
  <2>4. Reads(c)
    <3> HIDE DEF c
    <3> QED BY <1>1, <1>2, <2>2, <2>3, Zenon
  <2>5. \A n \in 0 .. m + 1 : Reads(n)
    BY <2>1, <2>3, <2>4, Zenon
  <2> QED BY <2>5
<1>5. Nat \subseteq T
  <2> HIDE DEF T
  <2> QED BY <1>3, <1>4, Induct
<1>6. ASSUME NEW n \in Nat PROVE Atoi(Decimal[n]) = n
  <2>0. n \in 0 .. n
    OBVIOUS
  <2>1. Reads(n)
    BY <1>5, <2>0, Zenon
  <2>2. DOMAIN Decimal[n] = 1 .. Len(Decimal[n])
    <3>1. Decimal[n] \in Seq(Int)
      BY DecimalIs, Zenon
    <3> QED BY <3>1
  <2> QED BY <2>1, <2>2, Zenon DEF Atoi, Reads
<1>7. Atoi(Decimal[-1]) = -1
  <2>0. 1 \in Nat /\ 1 < 10 /\ Minus \in Int /\ Zero + 1 \in Int
    BY DEF Minus, Zero
  <2>1. Decimal[-1] = <<Minus>> \o <<Zero + 1>>
    BY <2>0, DecimalIs, Zenon
  <2>2. <<Minus>> \o <<Zero + 1>> = <<Minus, Zero + 1>>
    BY <2>0, TwoAre, Zenon
  <2>3. 1 \in DOMAIN <<Minus, Zero + 1>> /\ <<Minus, Zero + 1>>[1] = Minus
    OBVIOUS
  <2>4. ~isNumericChar(Minus)
    BY DEF Minus, isNumericChar
  <2> QED BY <2>1, <2>2, <2>3, <2>4, Zenon DEF Atoi
<1> QED BY <1>6, <1>7

-----------------------------------------------------------------------------
\* The texts of addresses on the mesh.

\* The digits that a byte is written in are read as it.
LEMMA HexRead == \A b \in 0 .. 255 : Nibble(Hex2(b)[1]) * 16 + Nibble(Hex2(b)[2]) = b
<1>1. ASSUME NEW n \in 0 .. 15 PROVE Nibble(Hex(n)) = n
  <2>1. CASE n < 10
    BY <2>1 DEF Nibble, Hex, isNumericChar, Zero
  <2>2. CASE ~(n < 10)
    <3>1. Hex(n) = 87 + n /\ 87 + n \in 97 .. 102 /\ ~isNumericChar(87 + n)
      BY <2>2 DEF Hex, isNumericChar
    <3>2. Nibble(87 + n) = (87 + n) - 87
      BY <3>1, Zenon DEF Nibble
    <3> QED BY <3>1, <3>2
  <2> QED BY <2>1, <2>2
<1>2. ASSUME NEW b \in 0 .. 255 PROVE Nibble(Hex2(b)[1]) * 16 + Nibble(Hex2(b)[2]) = b
  <2>1. b \div 16 \in 0 .. 15 /\ b % 16 \in 0 .. 15 /\ b = (b \div 16) * 16 + (b % 16)
    OBVIOUS
  <2>2. Hex2(b)[1] = Hex(b \div 16) /\ Hex2(b)[2] = Hex(b % 16)
    BY DEF Hex2
  <2>3. Nibble(Hex2(b)[1]) = b \div 16 /\ Nibble(Hex2(b)[2]) = b % 16
    <3>1. Nibble(Hex(b \div 16)) = b \div 16
      BY <1>1, <2>1
    <3>2. Nibble(Hex(b % 16)) = b % 16
      BY <1>1, <2>1
    <3> QED BY <2>2, <3>1, <3>2, Zenon
  <2> QED BY <2>1, <2>3
<1> QED BY <1>2

LEMMA NibbleIn == \A c \in Nat : Nibble(c) \in 0 .. 15
BY DEF Nibble, isNumericChar, Zero

\* The text of an address has the length of one.
LEMMA MacTextIs ==
  ASSUME NEW id \in [1 .. 6 -> 0 .. 255]
  PROVE  /\ Len(ID6TOSTR(id)) = MacText
         /\ \A j \in 1 .. 6 : /\ ID6TOSTR(id)[(j - 1) * 3 + 1] = Hex2(id[j])[1]
                             /\ ID6TOSTR(id)[(j - 1) * 3 + 2] = Hex2(id[j])[2]
<1> DEFINE at(i) == IF i % 3 = 0 THEN Colon ELSE Hex2(id[(i + 2) \div 3])[i % 3]
           t == [i \in 1 .. 17 |-> at(i)]
<1>1. ID6TOSTR(id) = t
  BY Zenon DEF ID6TOSTR, MacText
<1>2. Len(t) = 17
  <2> HIDE DEF at
  <2> QED OBVIOUS
<1>3. \A i \in 1 .. 17 : t[i] = at(i)
  <2> HIDE DEF at
  <2> QED OBVIOUS
<1> HIDE DEF t
<1>4. ASSUME NEW j \in 1 .. 6, NEW d \in 1 .. 2 PROVE t[(j - 1) * 3 + d] = Hex2(id[j])[d]
  <2> DEFINE i == (j - 1) * 3 + d
  <2>1. i \in 1 .. 17 /\ i % 3 = d /\ (i + 2) \div 3 = j /\ d # 0
    OBVIOUS
  <2> HIDE DEF i
  <2>2. t[i] = Hex2(id[j])[d]
    BY <1>3, <2>1, Zenon
  <2> QED BY <2>2, Zenon DEF i
<1>5. 1 \in 1 .. 2 /\ 2 \in 1 .. 2
  OBVIOUS
<1>6. \A j \in 1 .. 6 : t[(j - 1) * 3 + 1] = Hex2(id[j])[1] /\ t[(j - 1) * 3 + 2] = Hex2(id[j])[2]
  BY <1>4, <1>5, Zenon
<1> QED BY <1>1, <1>2, <1>6, Zenon DEF MacText

\* An address that is written as ID6STR is read as itself (config.c).
LEMMA MacRead ==
  ASSUME NEW id \in [1 .. 6 -> 0 .. 255]
  PROVE  Len(ID6TOSTR(id)) = MacText /\ str_mac_to_byte_mac(ID6TOSTR(id)) = id
<1> DEFINE t == ID6TOSTR(id)
           r == str_mac_to_byte_mac(t)
<1>0. \A j \in 1 .. 6 : t[(j - 1) * 3 + 1] = Hex2(id[j])[1] /\ t[(j - 1) * 3 + 2] = Hex2(id[j])[2]
  BY MacTextIs, Zenon
<1> HIDE DEF t
<1>1. r = [i \in 1 .. 6 |-> hex2int(t, (i - 1) * 3)]
  BY Zenon DEF str_mac_to_byte_mac
<1>2. ASSUME NEW j \in 1 .. 6 PROVE hex2int(t, (j - 1) * 3) = id[j]
  <2>1. id[j] \in 0 .. 255
    OBVIOUS
  <2>2. hex2int(t, (j - 1) * 3) = Nibble(Hex2(id[j])[1]) * 16 + Nibble(Hex2(id[j])[2])
    BY <1>0, Zenon DEF hex2int
  <2> QED BY <2>1, <2>2, HexRead, Zenon
<1>3. id = [j \in 1 .. 6 |-> id[j]]
  OBVIOUS
<1>4. [i \in 1 .. 6 |-> hex2int(t, (i - 1) * 3)] = [j \in 1 .. 6 |-> id[j]]
  BY <1>2, Zenon
<1>5. r = id
  BY <1>1, <1>3, <1>4, Zenon
<1> QED BY <1>5, MacTextIs, Zenon DEF t

\* Any text of that length is read as an address.
LEMMA MacTyped ==
  ASSUME NEW t \in Seq(Char), Len(t) = MacText
  PROVE  str_mac_to_byte_mac(t) \in [1 .. 6 -> 0 .. 255]
<1>1. ASSUME NEW j \in 1 .. 6 PROVE hex2int(t, (j - 1) * 3) \in 0 .. 255
  <2> DEFINE i == (j - 1) * 3
  <2>1. i + 1 \in 1 .. Len(t) /\ i + 2 \in 1 .. Len(t)
    BY DEF MacText
  <2> HIDE DEF i
  <2>2. t[i + 1] \in Char /\ t[i + 2] \in Char
    BY <2>1, ElementOfSeq, Zenon
  <2>3. t[i + 1] \in Nat /\ t[i + 2] \in Nat
    <3>1. \A c \in Char : c \in Nat
      BY DEF Char
    <3> QED BY <2>2, <3>1, Zenon
  <2> DEFINE a == Nibble(t[i + 1])
             b == Nibble(t[i + 2])
  <2>4. a \in 0 .. 15 /\ b \in 0 .. 15
    BY <2>3, NibbleIn, Zenon
  <2>5. hex2int(t, i) = a * 16 + b
    BY Zenon DEF hex2int
  <2> HIDE DEF a, b
  <2>6. hex2int(t, i) \in 0 .. 255
    BY <2>4, <2>5
  <2> QED BY <2>6 DEF i
<1> QED BY <1>1 DEF str_mac_to_byte_mac

-----------------------------------------------------------------------------
\* The addresses of texts.

\* What UTILS_StrToIP is at, character by character.
Place == [ip : Seq(Int), n : Int, reading : BOOLEAN]
Run(g, str) == /\ g \in [0 .. Len(str) -> Place]
               /\ g[0].ip = <<>> /\ g[0].n = 0 /\ g[0].reading
               /\ \A i \in 1 .. Len(str) : g[i] = ReadChar(g[i - 1], str[i])

LEMMA ReadCharTyped == ASSUME NEW at \in Place, NEW c \in Int PROVE ReadChar(at, c) \in Place
<1>1. Wrong \in Place
  BY DEF Wrong, Place
<1>2. [at EXCEPT !.n = (at.n * 10) + c - Zero] \in Place
  BY SMTT(30) DEF Place, Zero
<1>3. [ip |-> Append(at.ip, at.n), n |-> 0, reading |-> Len(at.ip) < 3] \in Place
  <2>1. Append(at.ip, at.n) \in Seq(Int)
    BY DEF Place
  <2> QED BY <2>1 DEF Place
<1> QED BY <1>1, <1>2, <1>3, Zenon DEF ReadChar

LEMMA RunExists ==
  ASSUME NEW t \in Seq(Int)
  PROVE  \E g : Run(g, Append(t, 0)) /\ UTILS_StrToIP(t) = g[Len(Append(t, 0))].ip
<1> DEFINE str == Append(t, 0)
           n == Len(str)
           b == [ip |-> <<>>, n |-> 0, reading |-> TRUE]
           Is(G) == G = [i \in 0 .. n |-> IF i = 0 THEN b ELSE ReadChar(G[i - 1], str[i])]
           F == CHOOSE G : Is(G)
           h == [p \in (1 .. n) \X Place |-> ReadChar(p[2], str[p[1]])]
<1>1. UTILS_StrToIP(t) = F[n].ip
  BY Zenon DEF UTILS_StrToIP
<1>2. b.ip = <<>> /\ b.n = 0 /\ b.reading /\ b \in Place
  BY DEF Place
<1>3. str \in Seq(Int)
  OBVIOUS
<1> HIDE DEF b, str
<1>4. n \in Nat /\ \A i \in 1 .. n : str[i] \in Int
  BY <1>3, ElementOfSeq
<1> HIDE DEF n
<1>5. h \in [(1 .. n) \X Place -> Place]
  <2>1. ASSUME NEW p \in (1 .. n) \X Place PROVE ReadChar(p[2], str[p[1]]) \in Place
    <3>1. p[1] \in 1 .. n /\ p[2] \in Place
      OBVIOUS
    <3> QED BY <1>4, <3>1, ReadCharTyped, Zenon
  <2> QED BY <2>1
<1>6. \A i \in 1 .. n, x \in Place : h[<<i, x>>] = ReadChar(x, str[i])
  OBVIOUS
<1> HIDE DEF h
<1>7. PICK g : Recurs(g, Place, n, b, h)
  <2>1. h \in Steps(n, Place)
    BY <1>5, Zenon DEF Steps
  <2> QED BY <1>2, <1>4, <2>1, Recursion, Zenon
<1>8. g \in [0 .. n -> Place] /\ g[0] = b /\ \A i \in 1 .. n : g[i] = h[<<i, g[i - 1]>>]
  BY <1>7, Zenon DEF Recurs
<1>9. \A i \in 1 .. n : g[i] = ReadChar(g[i - 1], str[i])
  <2>1. \A i \in 1 .. n : g[i - 1] \in Place
    BY <1>4, <1>8
  <2> QED BY <1>6, <1>8, <2>1, Zenon
<1>10. Is(g)
  <2>1. g = [i \in 0 .. n |-> g[i]]
    BY <1>8
  <2>2. \A i \in 0 .. n : i = 0 \/ (i \in 1 .. n /\ i # 0)
    BY <1>4
  <2>3. \A i \in 0 .. n : g[i] = IF i = 0 THEN b ELSE ReadChar(g[i - 1], str[i])
    BY <1>8, <1>9, <2>2, Zenon
  <2>4. [i \in 0 .. n |-> g[i]] = [i \in 0 .. n |-> IF i = 0 THEN b ELSE ReadChar(g[i - 1], str[i])]
    BY <2>3, Zenon
  <2> QED BY <2>1, <2>4, Zenon
<1>11. Is(F)
  <2> HIDE DEF Is
  <2> QED BY <1>10, Zenon
<1>12. F[0] = b /\ \A i \in 1 .. n : F[i] = ReadChar(F[i - 1], str[i])
  <2> DEFINE body(i) == IF i = 0 THEN b ELSE ReadChar(F[i - 1], str[i])
  <2>1. F = [i \in 0 .. n |-> body(i)]
    BY <1>11, Zenon
  <2>2. body(0) = b /\ \A i \in 1 .. n : body(i) = ReadChar(F[i - 1], str[i])
    <3>1. \A i \in 1 .. n : i # 0
      OBVIOUS
    <3> QED BY <3>1, Zenon
  <2> HIDE DEF body, F
  <2>3. \A i \in 0 .. n : F[i] = body(i)
    BY <2>1
  <2>4. 0 \in 0 .. n /\ \A i \in 1 .. n : i \in 0 .. n
    BY <1>4
  <2> QED BY <2>2, <2>3, <2>4, Zenon
<1>13. F = [i \in 0 .. n |-> F[i]]
  <2> HIDE DEF F
  <2> QED BY <1>11
<1> HIDE DEF F, Is
<1>14. \A i \in 0 .. n : F[i] = g[i]
  <2> DEFINE T == {i \in 0 .. n : F[i] = g[i]}
  <2>1. 0 \in T
    BY <1>4, <1>8, <1>12
  <2>2. ASSUME NEW i \in 0 .. n - 1, i \in T PROVE i + 1 \in T
    <3> DEFINE j == i + 1
    <3>1. j \in 1 .. n /\ j - 1 = i /\ j \in 0 .. n
      BY <1>4
    <3> HIDE DEF j
    <3>2. F[j] = g[j]
      BY <1>9, <1>12, <2>2, <3>1, Zenon
    <3> QED BY <3>1, <3>2 DEF j
  <2>3. 0 .. n \subseteq T
    <3> HIDE DEF T
    <3> QED BY <1>4, <2>1, <2>2, UpTo
  <2> QED BY <2>3
<1>15. F[n] = g[n]
  BY <1>4, <1>14
<1>16. Run(g, str)
  BY <1>2, <1>8, <1>9, Zenon DEF Run, n
<1> QED BY <1>1, <1>15, <1>16, Zenon DEF str, n

\* What one character does.
LEMMA ReadCharDoes ==
  ASSUME NEW at \in Place, NEW c \in Int
  PROVE  LET next == ReadChar(at, c)
             bad == (Len(at.ip) < 3 /\ c # Dot) \/ at.n >= 256
         IN  /\ ~at.reading => next = at
             /\ at.reading /\ isNumericChar(c) =>
                  next.reading /\ next.ip = at.ip /\ next.n = (at.n * 10) + c - Zero
             /\ at.reading /\ ~isNumericChar(c) /\ bad => ~next.reading /\ next.ip = <<>>
             /\ at.reading /\ ~isNumericChar(c) /\ ~bad =>
                  /\ next.ip = Append(at.ip, at.n) /\ next.n = 0
                  /\ next.reading = (Len(at.ip) < 3)
<1> DEFINE next == ReadChar(at, c)
           bad == (Len(at.ip) < 3 /\ c # Dot) \/ at.n >= 256
<1>1. ~at.reading => next = at
  BY Zenon DEF ReadChar
<1>2. ASSUME at.reading, isNumericChar(c)
      PROVE  next.reading /\ next.ip = at.ip /\ next.n = (at.n * 10) + c - Zero
  <2>1. next = [at EXCEPT !.n = (at.n * 10) + c - Zero]
    BY <1>2, Zenon DEF ReadChar
  <2> HIDE DEF next
  <2> QED BY <1>2, <2>1 DEF Place
<1>3. ASSUME at.reading, ~isNumericChar(c), bad PROVE ~next.reading /\ next.ip = <<>>
  <2>1. next = Wrong
    BY <1>3, Zenon DEF ReadChar
  <2> HIDE DEF next
  <2> QED BY <2>1 DEF Wrong
<1>4. ASSUME at.reading, ~isNumericChar(c), ~bad
      PROVE  next.ip = Append(at.ip, at.n) /\ next.n = 0 /\ next.reading = (Len(at.ip) < 3)
  <2>1. next = [ip |-> Append(at.ip, at.n), n |-> 0, reading |-> Len(at.ip) < 3]
    BY <1>4, Zenon DEF ReadChar
  <2> HIDE DEF next
  <2> QED BY <2>1
<1> QED BY <1>1, <1>2, <1>3, <1>4, Zenon

\* Where numbers begin.
LEMMA FromIs ==
  ASSUME NEW cut \in [1 .. 4 -> Nat]
  PROVE  /\ From(cut, 1) = 1 /\ \A i \in 1 .. 4 : From(cut, i + 1) = cut[i] + 1
         /\ \A i \in 1 .. 5 : From(cut, i) \in Nat /\ From(cut, i) > 0
<1>1. From(cut, 1) = 1
  BY DEF From
<1>2. ASSUME NEW i \in 1 .. 4 PROVE From(cut, i + 1) = cut[i] + 1
  <2>1. i + 1 # 1 /\ (i + 1) - 1 = i
    OBVIOUS
  <2> QED BY <2>1 DEF From
<1>3. ASSUME NEW i \in 1 .. 5 PROVE From(cut, i) \in Nat /\ From(cut, i) > 0
  <2>1. CASE i = 1
    BY <1>1, <2>1
  <2>2. CASE i # 1
    <3>1. i - 1 \in 1 .. 4 /\ (i - 1) + 1 = i
      BY <2>2
    <3>2. From(cut, i) = cut[i - 1] + 1 /\ cut[i - 1] \in Nat
      BY <2>2, <3>1 DEF From
    <3> QED BY <3>2
  <2> QED BY <2>1, <2>2
<1> QED BY <1>1, <1>2, <1>3

\* One character more of a text.
LEMMA SubSeqMore ==
  ASSUME NEW str \in Seq(Int), NEW a \in Nat, a > 0, NEW k \in Nat, a <= k + 1, k <= Len(str)
  PROVE  /\ SubSeq(str, a, k) \in Seq(Int) /\ (k = a - 1 => SubSeq(str, a, k) = <<>>)
         /\ k < Len(str) => SubSeq(str, a, k + 1) = Append(SubSeq(str, a, k), str[k + 1])
<1>1. SubSeq(str, a, k) \in Seq(Int) /\ (k = a - 1 => SubSeq(str, a, k) = <<>>)
      /\ Len(SubSeq(str, a, k)) = k + 1 - a /\ \A i \in 1 .. k + 1 - a : SubSeq(str, a, k)[i] = str[a + i - 1]
  OBVIOUS
<1>2. ASSUME k < Len(str) PROVE SubSeq(str, a, k + 1) = Append(SubSeq(str, a, k), str[k + 1])
  <2> DEFINE x == SubSeq(str, a, k)
             y == SubSeq(str, a, k + 1)
             c == str[k + 1]
  <2>1. c \in Int
    BY <1>2
  <2>2. y \in Seq(Int) /\ Len(y) = k + 2 - a /\ \A i \in 1 .. k + 2 - a : y[i] = str[a + i - 1]
    BY <1>2
  <2> HIDE DEF x, y
  <2>3. x \in Seq(Int) /\ Len(x) = k + 1 - a /\ \A i \in 1 .. k + 1 - a : x[i] = str[a + i - 1]
    BY <1>1 DEF x
  <2> HIDE DEF c
  <2>4. Append(x, c) \in Seq(Int) /\ Len(Append(x, c)) = k + 2 - a /\ Append(x, c)[k + 2 - a] = c
        /\ \A i \in 1 .. k + 1 - a : Append(x, c)[i] = x[i]
    BY <2>1, <2>3
  <2>5. ASSUME NEW i \in 1 .. Len(y) PROVE y[i] = Append(x, c)[i]
    <3>1. CASE i = k + 2 - a
      <4>1. a + i - 1 = k + 1
        BY <3>1
      <4> QED BY <2>2, <2>4, <3>1, <4>1 DEF c
    <3>2. CASE i # k + 2 - a
      <4>1. i \in 1 .. k + 1 - a /\ i \in 1 .. k + 2 - a
        BY <2>2, <3>2
      <4> QED BY <2>2, <2>3, <2>4, <4>1, Zenon
    <3> QED BY <3>1, <3>2
  <2>6. Len(y) = Len(Append(x, c))
    BY <2>2, <2>4
  <2>7. y = Append(x, c)
    BY <2>2, <2>4, <2>5, <2>6, SeqEqual, Zenon
  <2> QED BY <2>7, Zenon DEF x, y, c
<1> QED BY <1>1, <1>2, Zenon

-----------------------------------------------------------------------------
\* The numbers of a text that is cut, and what UTILS_StrToIP is at behind k characters
\* once it has read m of them.
Values(str, cut, m) == [i \in 1 .. m |-> Value(Number(str, cut, i))]
ReadTo(at, str, cut, m, k) ==
  /\ at.reading /\ at.ip = Values(str, cut, m)
  /\ \A i \in 1 .. m : Fits(str, cut, i)
  /\ k \in From(cut, m + 1) - 1 .. Len(str)
  /\ \A j \in From(cut, m + 1) .. k : isNumericChar(str[j])
  /\ at.n = Value(SubSeq(str, From(cut, m + 1), k))

\* Only these cuts count.
LEMMA SameCuts ==
  ASSUME NEW str, NEW at, NEW c \in [1 .. 4 -> Nat], NEW d \in [1 .. 4 -> Nat],
         NEW m \in 0 .. 3, NEW k, \A i \in 1 .. m : c[i] = d[i], ReadTo(at, str, c, m, k)
  PROVE  ReadTo(at, str, d, m, k)
<1>1. \A i \in 1 .. m + 1 : From(c, i) = From(d, i)
  <2>1. ASSUME NEW i \in 1 .. m + 1 PROVE From(c, i) = From(d, i)
    <3>1. CASE i = 1
      BY <3>1, FromIs
    <3>2. CASE i # 1
      <4>1. i - 1 \in 1 .. m
        BY <3>2
      <4> QED BY <3>2, <4>1, Zenon DEF From
    <3> QED BY <3>1, <3>2
  <2> QED BY <2>1
<1>2. \A i \in 1 .. m : From(c, i) = From(d, i)
  BY <1>1
<1>3. \A i \in 1 .. m : Number(str, c, i) = Number(str, d, i)
  BY <1>2, Zenon DEF Number
<1>4. \A i \in 1 .. m : Fits(str, c, i) => Fits(str, d, i)
  BY <1>2, <1>3, Zenon DEF Fits
<1>5. Values(str, c, m) = Values(str, d, m)
  BY <1>3, Zenon DEF Values
<1>6. From(c, m + 1) = From(d, m + 1)
  BY <1>1
<1>7. \A i \in 1 .. m : Fits(str, d, i)
  BY <1>4, Zenon DEF ReadTo
<1> QED BY <1>5, <1>6, <1>7, Zenon DEF ReadTo

\* One more number.
LEMMA ValuesMore ==
  ASSUME NEW str \in Seq(Int), NEW c \in [1 .. 4 -> Nat], NEW m \in 0 .. 3,
         \A i \in 1 .. m : Fits(str, c, i)
  PROVE  /\ Values(str, c, m) \in Seq(Int) /\ Len(Values(str, c, m)) = m
         /\ Value(Number(str, c, m + 1)) \in Int =>
              Values(str, c, m + 1) = Append(Values(str, c, m), Value(Number(str, c, m + 1)))
<1> DEFINE val(i) == Value(Number(str, c, i))
<1>1. ASSUME NEW i \in 1 .. m PROVE val(i) \in Int
  <2>1. c[i] \in From(c, i) .. Len(str) /\ c[i] \in Nat
    <3>1. i \in 1 .. 4
      OBVIOUS
    <3> QED BY <3>1 DEF Fits
  <2>2. From(c, i) \in Nat /\ From(c, i) > 0
    <3>1. i \in 1 .. 5
      OBVIOUS
    <3> QED BY <3>1, FromIs, Zenon
  <2> DEFINE a == From(c, i)
             n == c[i]
             l == Len(str)
             k == n - 1
  <2>3. a \in Nat /\ a > 0 /\ k \in Nat /\ a <= k + 1 /\ k <= Len(str)
    <3>1. a \in Nat /\ a > 0 /\ n \in a .. l /\ n \in Nat /\ l \in Nat
      BY <2>1, <2>2, LenProperties, Zenon
    <3> HIDE DEF a, n, l
    <3>2. k \in Nat /\ a <= k + 1 /\ k <= l
      BY <3>1
    <3> QED BY <3>1, <3>2, Zenon DEF l
  <2> HIDE DEF a, k, l
  <2>4. SubSeq(str, a, k) \in Seq(Int)
    BY <2>3, SubSeqMore
  <2>5. Value(SubSeq(str, a, k)) \in Int
    BY <2>4, ValueSteps, Zenon
  <2> QED BY <2>5, Zenon DEF a, k, Number
<1>2. \A j : Values(str, c, j) = [i \in 1 .. j |-> val(i)]
  BY Zenon DEF Values
<1> HIDE DEF val
<1>3. [i \in 1 .. m |-> val(i)] \in Seq(Int) /\ Len([i \in 1 .. m |-> val(i)]) = m
  BY <1>1
<1>4. ASSUME val(m + 1) \in Int
      PROVE  [i \in 1 .. m + 1 |-> val(i)] = Append([i \in 1 .. m |-> val(i)], val(m + 1))
  <2>1. \A i \in 1 .. m + 1 : val(i) \in Int
    <3>1. \A i \in 1 .. m + 1 : i \in 1 .. m \/ i = m + 1
      OBVIOUS
    <3> QED BY <1>1, <1>4, <3>1, Zenon
  <2> DEFINE x == [i \in 1 .. m |-> val(i)]
             y == [i \in 1 .. m + 1 |-> val(i)]
             v == val(m + 1)
  <2>2. y \in Seq(Int) /\ Len(y) = m + 1 /\ \A i \in 1 .. m + 1 : y[i] = val(i)
    BY <2>1
  <2>3. x \in Seq(Int) /\ Len(x) = m /\ \A i \in 1 .. m : x[i] = val(i)
    BY <1>1
  <2>4. v \in Int
    BY <1>4
  <2> HIDE DEF x, y
  <2>5. Append(x, v) \in Seq(Int) /\ Len(Append(x, v)) = m + 1 /\ Append(x, v)[m + 1] = v
        /\ \A i \in 1 .. m : Append(x, v)[i] = x[i]
    <3> HIDE DEF v
    <3> QED BY <2>3, <2>4
  <2>6. \A i \in 1 .. Len(y) : y[i] = Append(x, v)[i]
    <3>1. \A i \in 1 .. Len(y) : i \in 1 .. m + 1 /\ (i \in 1 .. m \/ i = m + 1)
      BY <2>2
    <3> QED BY <2>2, <2>3, <2>5, <3>1, Zenon
  <2>7. y = Append(x, v)
    BY <2>2, <2>5, <2>6, SeqEqual, Zenon
  <2> QED BY <2>7, Zenon DEF x, y
<1> QED BY <1>2, <1>3, <1>4, Zenon DEF val

\* A digit is one of the number that is read.
LEMMA ReadsDigit ==
  ASSUME NEW str \in Seq(Int), NEW at \in Place, NEW c \in [1 .. 4 -> Nat], NEW m \in 0 .. 3,
         NEW k \in Nat, k < Len(str), ReadTo(at, str, c, m, k), isNumericChar(str[k + 1])
  PROVE  ReadTo(ReadChar(at, str[k + 1]), str, c, m, k + 1)
<1> DEFINE a == From(c, m + 1)
           ch == str[k + 1]
           x == SubSeq(str, a, k)
<1>1. a \in Nat /\ a > 0
  <2>1. m + 1 \in 1 .. 5
    OBVIOUS
  <2> QED BY <2>1, FromIs, Zenon
<1>2. ch \in Int
  OBVIOUS
<1>3. /\ at.reading /\ at.ip = Values(str, c, m) /\ at.n = Value(x)
      /\ \A i \in 1 .. m : Fits(str, c, i)
      /\ k \in a - 1 .. Len(str) /\ \A j \in a .. k : isNumericChar(str[j])
  BY Zenon DEF ReadTo
<1> HIDE DEF a
<1>4. x \in Seq(Int) /\ SubSeq(str, a, k + 1) = Append(x, ch)
  <2>1. a <= k + 1 /\ k <= Len(str)
    BY <1>1, <1>3
  <2> QED BY <1>1, <2>1, SubSeqMore, Zenon
<1> HIDE DEF x, ch
<1>5. Value(Append(x, ch)) = (Value(x) * 10) + ch - Zero
  BY <1>2, <1>4, ValueSteps, Zenon
<1> DEFINE next == ReadChar(at, ch)
<1>6. next.reading /\ next.ip = at.ip /\ next.n = (at.n * 10) + ch - Zero
  <2>1. isNumericChar(ch)
    BY DEF ch
  <2> QED BY <1>2, <1>3, <2>1, ReadCharDoes, Zenon
<1> HIDE DEF next
<1>7. k + 1 \in a - 1 .. Len(str)
  BY <1>1, <1>3
<1>8. \A j \in a .. k + 1 : isNumericChar(str[j])
  <2>1. \A j \in a .. k + 1 : j \in a .. k \/ j = k + 1
    BY <1>1
  <2> QED BY <1>3, <2>1, Zenon
<1>9. next.n = Value(SubSeq(str, a, k + 1))
  BY <1>3, <1>4, <1>5, <1>6, Zenon
<1>10. next.ip = Values(str, c, m)
  BY <1>3, <1>6, Zenon
<1>11. ReadTo(next, str, c, m, k + 1)
  BY <1>3, <1>6, <1>7, <1>8, <1>9, <1>10, Zenon DEF ReadTo, a
<1> QED BY <1>11, Zenon DEF next, ch
\* Another character ends it, or the text is no address.
LEMMA ReadsStop ==
  ASSUME NEW str \in Seq(Int), NEW at \in Place, NEW c \in [1 .. 4 -> Nat], NEW m \in 0 .. 3,
         NEW k \in Nat, k < Len(str), ReadTo(at, str, c, m, k), ~isNumericChar(str[k + 1]),
         c[m + 1] = k + 1
  PROVE  LET next == ReadChar(at, str[k + 1])
         IN  /\ Fits(str, c, m + 1) =>
                  /\ next.ip = Values(str, c, m + 1)
                  /\ m < 3 => ReadTo(next, str, c, m + 1, k + 1)
                  /\ m = 3 => ~next.reading
             /\ ~Fits(str, c, m + 1) => ~next.reading /\ next.ip = <<>>
<1> DEFINE a == From(c, m + 1)
           ch == str[k + 1]
           n == Number(str, c, m + 1)
           next == ReadChar(at, ch)
           bad == (Len(at.ip) < 3 /\ ch # Dot) \/ at.n >= 256
<1>0. m + 1 \in 1 .. 4 /\ m + 1 \in 1 .. 5
  OBVIOUS
<1>1. a \in Nat /\ a > 0
  BY <1>0, FromIs, Zenon
<1>2. ch \in Int
  OBVIOUS
<1>3. /\ at.reading /\ at.ip = Values(str, c, m) /\ at.n = Value(SubSeq(str, a, k))
      /\ \A i \in 1 .. m : Fits(str, c, i)
      /\ k \in a - 1 .. Len(str) /\ \A j \in a .. k : isNumericChar(str[j])
  BY Zenon DEF ReadTo
<1>4. Len(at.ip) = m
  BY <1>3, ValuesMore, Zenon
<1> HIDE DEF a
<1>5. at.n = Value(n) /\ Value(n) \in Int
  <2>1. c[m + 1] - 1 = k
    OBVIOUS
  <2>2. n = SubSeq(str, a, k)
    BY <2>1, Zenon DEF Number, a
  <2>3. a <= k + 1 /\ k <= Len(str)
    BY <1>1, <1>3
  <2>4. n \in Seq(Int)
    BY <1>1, <2>2, <2>3, SubSeqMore, Zenon
  <2>5. Value(n) \in Int
    BY <2>4, ValueSteps, Zenon
  <2> QED BY <1>3, <2>2, <2>5, Zenon
<1> HIDE DEF n
<1>6. Fits(str, c, m + 1) <=> (m + 1 < 4 => ch = Dot) /\ Value(n) < 256
  <2>1. c[m + 1] \in a .. Len(str) /\ c[m + 1] - 1 = k
    BY <1>1, <1>3
  <2>2. str[c[m + 1]] = ch
    OBVIOUS
  <2> HIDE DEF ch
  <2>3. ~isNumericChar(ch)
    BY DEF ch
  <2> QED BY <1>3, <2>1, <2>2, <2>3, Zenon DEF Fits, a, n
<1> HIDE DEF ch
<1>7. bad <=> ~((m + 1 < 4 => ch = Dot) /\ Value(n) < 256)
  <2> DEFINE l == Len(at.ip)
             v == Value(n)
             dot == ch = Dot
  <2>1. l = m /\ at.n = v /\ v \in Int
    BY <1>4, <1>5, Zenon
  <2> HIDE DEF l, v, dot
  <2>2. (l < 3 /\ ~dot) \/ v >= 256 <=> ~((m + 1 < 4 => dot) /\ v < 256)
    BY <2>1, SMTT(30)
  <2> QED BY <2>1, <2>2, Zenon DEF l, v, dot
<1>8. ~isNumericChar(ch)
  BY DEF ch
<1>9. /\ bad => ~next.reading /\ next.ip = <<>>
      /\ ~bad => next.ip = Append(at.ip, at.n) /\ next.n = 0 /\ next.reading = (Len(at.ip) < 3)
  BY <1>2, <1>3, <1>8, ReadCharDoes, Zenon
<1> HIDE DEF bad, next
<1>10. ASSUME Fits(str, c, m + 1)
       PROVE  /\ next.ip = Values(str, c, m + 1)
              /\ m < 3 => ReadTo(next, str, c, m + 1, k + 1)
              /\ m = 3 => ~next.reading
  <2>1. next.ip = Append(at.ip, at.n) /\ next.n = 0 /\ next.reading = (m < 3)
    BY <1>4, <1>6, <1>7, <1>9, <1>10, Zenon
  <2>2. next.ip = Values(str, c, m + 1)
    <3>1. Value(Number(str, c, m + 1)) \in Int /\ at.n = Value(Number(str, c, m + 1))
      BY <1>5, Zenon DEF n
    <3>2. Values(str, c, m + 1) = Append(Values(str, c, m), Value(Number(str, c, m + 1)))
      BY <1>3, <3>1, ValuesMore, Zenon
    <3> QED BY <1>3, <2>1, <3>1, <3>2, Zenon
  <2>3. m = 3 => ~next.reading
    <3>1. m = 3 => ~(m < 3)
      OBVIOUS
    <3> QED BY <2>1, <3>1, Zenon
  <2>4. ASSUME m < 3 PROVE ReadTo(next, str, c, m + 1, k + 1)
    <3> DEFINE b == From(c, (m + 1) + 1)
    <3>1. b = k + 2
      <4>1. From(c, (m + 1) + 1) = c[m + 1] + 1
        BY <1>0, FromIs, Zenon
      <4> QED BY <4>1
    <3> HIDE DEF b
    <3>2. next.reading
      BY <2>1, <2>4
    <3>3. ASSUME NEW i \in 1 .. m + 1 PROVE Fits(str, c, i)
      <4>1. i \in 1 .. m \/ i = m + 1
        OBVIOUS
      <4> QED BY <1>3, <1>10, <4>1, Zenon
    <3>4. k + 1 \in b - 1 .. Len(str) /\ \A j \in b .. k + 1 : FALSE
      BY <3>1, SMTT(30)
    <3>5. SubSeq(str, b, k + 1) = <<>>
      <4>1. b \in Nat /\ b > 0 /\ k + 1 \in Nat /\ b <= (k + 1) + 1 /\ k + 1 <= Len(str) /\ k + 1 = b - 1
        BY <3>1
      <4> QED BY <4>1, SubSeqMore, Zenon
    <3>6. next.n = Value(SubSeq(str, b, k + 1))
      BY <2>1, <3>5, ValueSteps, Zenon
    <3> QED BY <2>2, <3>2, <3>3, <3>4, <3>6, Zenon DEF ReadTo, b
  <2> QED BY <2>2, <2>3, <2>4, Zenon
<1> QED BY <1>6, <1>7, <1>9, <1>10, Zenon DEF next, ch

-----------------------------------------------------------------------------
\* An address that has been read is spelled,
LEMMA ReadIsSpelt ==
  ASSUME NEW str \in Seq(Int), NEW g, Run(g, str)
  PROVE  \A k \in 0 .. Len(str) :
           /\ g[k].reading => \E m \in 0 .. 3, c \in [1 .. 4 -> Nat] : ReadTo(g[k], str, c, m, k)
           /\ ~g[k].reading /\ g[k].ip # <<>> =>
                \E c \in [1 .. 4 -> Nat] :
                  g[k].ip = Values(str, c, 4) /\ \A i \in 1 .. 4 : Fits(str, c, i)
<1> DEFINE one(k) == \E m \in 0 .. 3, c \in [1 .. 4 -> Nat] : ReadTo(g[k], str, c, m, k)
           two(k) == \E c \in [1 .. 4 -> Nat] :
                       g[k].ip = Values(str, c, 4) /\ \A i \in 1 .. 4 : Fits(str, c, i)
           T == {k \in 0 .. Len(str) : (g[k].reading => one(k)) /\ (~g[k].reading /\ g[k].ip # <<>> => two(k))}
<1>1. /\ g \in [0 .. Len(str) -> Place] /\ Len(str) \in Nat
      /\ g[0].ip = <<>> /\ g[0].n = 0 /\ g[0].reading
      /\ \A i \in 1 .. Len(str) : g[i] = ReadChar(g[i - 1], str[i])
  BY LenProperties, Zenon DEF Run
<1>2. 0 \in T
  <2> DEFINE c == [i \in 1 .. 4 |-> 0]
  <2>1. c \in [1 .. 4 -> Nat]
    OBVIOUS
  <2> HIDE DEF c
  <2>2. From(c, 0 + 1) = 1
    BY <2>1, FromIs
  <2>3. Values(str, c, 0) = <<>>
    <3>1. \A i \in 1 .. 0 : FALSE
      OBVIOUS
    <3>2. 0 \in 0 .. 3 /\ \A i \in 1 .. 0 : Fits(str, c, i)
      BY <3>1
    <3>3. Values(str, c, 0) \in Seq(Int) /\ Len(Values(str, c, 0)) = 0
      BY <2>1, <3>2, ValuesMore, Zenon
    <3> QED BY <3>3, EmptySeq, Zenon
  <2>4. SubSeq(str, 1, 0) = <<>>
    <3>1. 1 \in Nat /\ 1 > 0 /\ 0 \in Nat /\ 1 <= 0 + 1 /\ 0 <= Len(str) /\ 0 = 1 - 1
      BY <1>1
    <3> QED BY <3>1, SubSeqMore, Zenon
  <2>5. g[0].n = Value(SubSeq(str, 1, 0))
    BY <1>1, <2>4, ValueSteps, Zenon
  <2>6. 0 \in 1 - 1 .. Len(str) /\ (\A j \in 1 .. 0 : FALSE) /\ 0 \in 0 .. 3 /\ 0 \in 0 .. Len(str)
    BY <1>1
  <2>7. ReadTo(g[0], str, c, 0, 0)
    BY <1>1, <2>2, <2>3, <2>5, <2>6, Zenon DEF ReadTo
  <2> QED BY <1>1, <2>1, <2>6, <2>7
<1>3. ASSUME NEW k \in 0 .. Len(str) - 1, k \in T PROVE k + 1 \in T
  <2> DEFINE n == k + 1
             ch == str[k + 1]
  <2>1. n \in 1 .. Len(str) /\ n - 1 = k /\ n \in 0 .. Len(str) /\ k \in Nat /\ k < Len(str) /\ k \in 0 .. Len(str)
    BY <1>1
  <2>2. g[n] = ReadChar(g[k], ch)
    BY <1>1, <2>1, Zenon
  <2>3. g[k] \in Place /\ ch \in Int
    <3>1. ch \in Int
      BY <2>1, ElementOfSeq
    <3>2. g[k] \in Place
      BY <1>1, <2>1
    <3> QED BY <3>1, <3>2, Zenon
  <2>4. (g[k].reading => one(k)) /\ (~g[k].reading /\ g[k].ip # <<>> => two(k))
    BY <1>3
  <2> SUFFICES (g[n].reading => one(n)) /\ (~g[n].reading /\ g[n].ip # <<>> => two(n))
    <3> HIDE DEF one, two
    <3> QED BY <2>1
  <2>5. CASE ~g[k].reading
    <3>1. g[n] = g[k]
      BY <2>2, <2>3, <2>5, ReadCharDoes, Zenon
    <3> QED BY <2>4, <2>5, <3>1, Zenon
  <2>6. CASE g[k].reading
    <3>1. PICK m \in 0 .. 3, c \in [1 .. 4 -> Nat] : ReadTo(g[k], str, c, m, k)
      BY <2>4, <2>6, Zenon
    <3>2. CASE isNumericChar(ch)
      <4>1. ReadTo(g[n], str, c, m, n)
        BY <2>1, <2>2, <2>3, <3>1, <3>2, ReadsDigit, Zenon
      <4>2. g[n].reading
        BY <4>1, Zenon DEF ReadTo
      <4> QED BY <4>1, <4>2, Zenon
    <3>3. CASE ~isNumericChar(ch)
      <4> DEFINE d == [c EXCEPT ![m + 1] = k + 1]
      <4>1. d \in [1 .. 4 -> Nat] /\ d[m + 1] = k + 1 /\ \A i \in 1 .. m : c[i] = d[i]
        BY <2>1, SMTT(30)
      <4> HIDE DEF d
      <4>2. ReadTo(g[k], str, d, m, k)
        BY <3>1, <4>1, SameCuts, Zenon
      <4>3. /\ Fits(str, d, m + 1) =>
                 /\ g[n].ip = Values(str, d, m + 1)
                 /\ m < 3 => ReadTo(g[n], str, d, m + 1, n)
                 /\ m = 3 => ~g[n].reading
            /\ ~Fits(str, d, m + 1) => ~g[n].reading /\ g[n].ip = <<>>
        <5> DEFINE next == ReadChar(g[k], str[k + 1])
        <5>1. ~isNumericChar(str[k + 1])
          BY <3>3, Zenon
        <5>2. /\ Fits(str, d, m + 1) =>
                   /\ next.ip = Values(str, d, m + 1)
                   /\ m < 3 => ReadTo(next, str, d, m + 1, k + 1)
                   /\ m = 3 => ~next.reading
              /\ ~Fits(str, d, m + 1) => ~next.reading /\ next.ip = <<>>
          <6> HIDE DEF n
          <6> QED BY <2>1, <2>3, <4>1, <4>2, <5>1, ReadsStop, SMTT(40)
        <5>3. g[n] = next
          BY <2>2, Zenon
        <5> HIDE DEF next
        <5> QED BY <5>2, <5>3, Zenon
      <4>4. CASE ~Fits(str, d, m + 1)
        BY <4>3, <4>4, Zenon
      <4>5. CASE Fits(str, d, m + 1) /\ m < 3
        <5>1. ReadTo(g[n], str, d, m + 1, n) /\ m + 1 \in 0 .. 3
          BY <4>3, <4>5
        <5>2. g[n].reading
          BY <5>1, Zenon DEF ReadTo
        <5> QED BY <4>1, <5>1, <5>2, Zenon
      <4>6. CASE Fits(str, d, m + 1) /\ m = 3
        <5>1. g[n].ip = Values(str, d, m + 1) /\ ~g[n].reading
          BY <4>3, <4>6, Zenon
        <5>2. \A i \in 1 .. m : Fits(str, d, i)
          BY <4>2, Zenon DEF ReadTo
        <5>3. m + 1 = 4 /\ \A i \in 1 .. 4 : i \in 1 .. m \/ i = m + 1
          BY <4>6
        <5>4. \A i \in 1 .. 4 : Fits(str, d, i)
          BY <4>6, <5>2, <5>3, Zenon
        <5> QED BY <4>1, <5>1, <5>3, <5>4, Zenon
      <4>7. m < 3 \/ m = 3
        OBVIOUS
      <4> QED BY <4>4, <4>5, <4>6, <4>7, Zenon
    <3> QED BY <3>2, <3>3, Zenon
  <2> QED BY <2>5, <2>6, Zenon
<1>4. 0 .. Len(str) \subseteq T
  <2> HIDE DEF T
  <2> QED BY <1>1, <1>2, <1>3, UpTo
<1> HIDE DEF one, two
<1>5. \A k \in 0 .. Len(str) : (g[k].reading => one(k)) /\ (~g[k].reading /\ g[k].ip # <<>> => two(k))
  BY <1>4
<1> QED BY <1>5, Zenon DEF one, two
\* and one that is spelled has been read.
LEMMA SpeltIsRead ==
  ASSUME NEW str \in Seq(Int), NEW g, Run(g, str),
         NEW c \in [1 .. 4 -> Nat], \A i \in 1 .. 4 : Fits(str, c, i)
  PROVE  ~g[Len(str)].reading /\ g[Len(str)].ip = Values(str, c, 4)
<1> DEFINE within(k, m) == k \in From(c, m + 1) - 1 .. c[m + 1] - 1
           read(k) == \A m \in 0 .. 3 : within(k, m) => ReadTo(g[k], str, c, m, k)
           done(k) == k >= c[4] => ~g[k].reading /\ g[k].ip = Values(str, c, 4)
           T == {k \in 0 .. Len(str) : read(k) /\ done(k)}
<1>1. /\ g \in [0 .. Len(str) -> Place] /\ Len(str) \in Nat
      /\ g[0].ip = <<>> /\ g[0].n = 0 /\ g[0].reading
      /\ \A i \in 1 .. Len(str) : g[i] = ReadChar(g[i - 1], str[i])
  BY LenProperties, Zenon DEF Run
<1>2. From(c, 1) = 1 /\ \A i \in 1 .. 4 : From(c, i + 1) = c[i] + 1
  BY FromIs, Zenon
<1>3. /\ \A i \in 1 .. 4 : c[i] \in From(c, i) .. Len(str) /\ ~isNumericChar(str[c[i]])
      /\ \A i \in 1 .. 4 : \A k \in From(c, i) .. c[i] - 1 : isNumericChar(str[k])
  BY Zenon DEF Fits
<1>4. \A i \in 1 .. 4 : c[i] \in Nat /\ From(c, i) \in Nat /\ From(c, i) > 0 /\ c[i] >= From(c, i) /\ c[i] <= Len(str)
  <2>1. ASSUME NEW i \in 1 .. 4
        PROVE  c[i] \in Nat /\ From(c, i) \in Nat /\ From(c, i) > 0 /\ c[i] >= From(c, i) /\ c[i] <= Len(str)
    <3>1. i \in 1 .. 5
      OBVIOUS
    <3>2. From(c, i) \in Nat /\ From(c, i) > 0 /\ c[i] \in Nat
      BY <3>1, FromIs
    <3>3. c[i] \in From(c, i) .. Len(str)
      BY <1>3
    <3> QED BY <1>1, <3>2, <3>3
  <2> QED BY <2>1, Zenon
<1>5. 0 \in T
  <2>1. ASSUME NEW m \in 0 .. 3, within(0, m) PROVE m = 0
    <3>1. CASE m # 0
      <4>1. m \in 1 .. 4
        BY <3>1
      <4>2. From(c, m + 1) = c[m] + 1 /\ c[m] \in Nat /\ c[m] >= From(c, m) /\ From(c, m) > 0 /\ From(c, m) \in Nat
        BY <1>2, <1>4, <4>1, Zenon
      <4> QED BY <2>1, <4>2
    <3> QED BY <3>1
  <2>2. Values(str, c, 0) = <<>> /\ \A i \in 1 .. 0 : Fits(str, c, i)
    <3>1. \A i \in 1 .. 0 : FALSE
      OBVIOUS
    <3>2. 0 \in 0 .. 3 /\ \A i \in 1 .. 0 : Fits(str, c, i)
      BY <3>1
    <3>3. Values(str, c, 0) \in Seq(Int) /\ Len(Values(str, c, 0)) = 0
      BY <3>2, ValuesMore, Zenon
    <3> QED BY <3>2, <3>3, EmptySeq, Zenon
  <2>3. SubSeq(str, 1, 0) = <<>>
    <3>1. 1 \in Nat /\ 1 > 0 /\ 0 \in Nat /\ 1 <= 0 + 1 /\ 0 <= Len(str) /\ 0 = 1 - 1
      BY <1>1
    <3> QED BY <3>1, SubSeqMore, Zenon
  <2>4. g[0].n = Value(SubSeq(str, 1, 0))
    BY <1>1, <2>3, ValueSteps, Zenon
  <2>5. 0 \in 1 - 1 .. Len(str) /\ (\A j \in 1 .. 0 : FALSE) /\ 0 \in 0 .. Len(str) /\ 0 + 1 = 1
    BY <1>1
  <2>6. ReadTo(g[0], str, c, 0, 0)
    BY <1>1, <1>2, <2>2, <2>4, <2>5, Zenon DEF ReadTo
  <2>7. read(0)
    BY <2>1, <2>6, Zenon
  <2>8. done(0)
    <3>1. 4 \in 1 .. 4
      OBVIOUS
    <3>2. c[4] \in Nat /\ c[4] >= From(c, 4) /\ From(c, 4) > 0 /\ From(c, 4) \in Nat
      BY <1>4, <3>1, Zenon
    <3>3. ~(0 >= c[4])
      BY <3>2
    <3> QED BY <3>3
  <2> HIDE DEF read, done
  <2> QED BY <2>5, <2>7, <2>8
<1>6. ASSUME NEW k \in 0 .. Len(str) - 1, k \in T PROVE k + 1 \in T
  <2> DEFINE n == k + 1
             ch == str[k + 1]
  <2>1. n \in 1 .. Len(str) /\ n - 1 = k /\ n \in 0 .. Len(str) /\ k \in Nat /\ k < Len(str) /\ k \in 0 .. Len(str)
    BY <1>1
  <2>2. g[n] = ReadChar(g[k], ch)
    BY <1>1, <2>1, Zenon
  <2>3. g[k] \in Place /\ ch \in Int
    <3>1. ch \in Int
      BY <2>1, ElementOfSeq
    <3>2. g[k] \in Place
      BY <1>1, <2>1
    <3> QED BY <3>1, <3>2, Zenon
  <2>4. read(k) /\ done(k)
    BY <1>6
  <2> HIDE DEF read, done
  \* Where a number ends.
  <2>5. ASSUME NEW m \in 0 .. 3, c[m + 1] = n
        PROVE  /\ g[n].ip = Values(str, c, m + 1)
               /\ m < 3 => ReadTo(g[n], str, c, m + 1, n)
               /\ m = 3 => ~g[n].reading
    <3>1. m + 1 \in 1 .. 4
      OBVIOUS
    <3>2. c[m + 1] \in Nat /\ c[m + 1] >= From(c, m + 1) /\ From(c, m + 1) \in Nat
      BY <1>4, <3>1, Zenon
    <3>3. within(k, m)
      BY <2>1, <2>5, <3>2
    <3>4. ReadTo(g[k], str, c, m, k)
      BY <2>4, <3>3, Zenon DEF read
    <3>5. ~isNumericChar(str[k + 1]) /\ Fits(str, c, m + 1)
      BY <1>3, <2>5, <3>1, Zenon
    <3> DEFINE next == ReadChar(g[k], str[k + 1])
    <3>6. c[m + 1] = k + 1
      BY <2>5, Zenon
    <3>7. /\ next.ip = Values(str, c, m + 1)
          /\ m < 3 => ReadTo(next, str, c, m + 1, k + 1)
          /\ m = 3 => ~next.reading
      <4> HIDE DEF n
      <4> QED BY <2>1, <2>3, <3>4, <3>5, <3>6, ReadsStop
    <3>8. g[n] = next
      BY <2>2, Zenon
    <3> HIDE DEF next
    <3> QED BY <3>7, <3>8, Zenon
  <2>6. read(n)
    <3>1. ASSUME NEW m \in 0 .. 3, within(n, m) PROVE ReadTo(g[n], str, c, m, n)
      <4> DEFINE a == From(c, m + 1)
                 e == c[m + 1]
      <4>1. m + 1 \in 1 .. 4
        OBVIOUS
      <4>2. a \in Nat /\ a > 0 /\ e \in Nat /\ n \in a - 1 .. e - 1
        BY <1>4, <3>1, <4>1, Zenon
      <4>3. CASE n >= a
        <5> HIDE DEF a, e
        <5>1. k \in a - 1 .. e - 1 /\ n \in a .. e - 1
          BY <2>1, <4>2, <4>3
        <5>2. within(k, m)
          BY <5>1, Zenon DEF a, e
        <5>3. ReadTo(g[k], str, c, m, k)
          BY <2>4, <5>2, Zenon DEF read
        <5>4. isNumericChar(str[k + 1])
          BY <1>3, <4>1, <5>1, Zenon DEF a, e
        <5>5. ReadTo(ReadChar(g[k], str[k + 1]), str, c, m, k + 1)
          BY <2>1, <2>3, <5>3, <5>4, ReadsDigit, Zenon
        <5> QED BY <2>2, <5>5, Zenon
      <4>4. CASE ~(n >= a)
        <5>1. n = a - 1
          <6> HIDE DEF a, e
          <6> QED BY <2>1, <4>2, <4>4
        <5>2. m # 0
          <6>1. CASE m = 0
            <7>1. a = 1
              BY <1>2, <6>1
            <7> QED BY <2>1, <5>1, <7>1
          <6> QED BY <6>1
        <5> DEFINE l == m - 1
        <5>3. l \in 0 .. 3 /\ l + 1 = m /\ m \in 1 .. 4 /\ l < 3
          BY <5>2
        <5>4. c[l + 1] = n
          <6>1. a = c[m] + 1 /\ c[m] \in Nat
            BY <1>2, <1>4, <5>3, Zenon
          <6>2. c[m] = n
            <7> DEFINE x == c[m]
            <7>1. a = x + 1 /\ x \in Nat /\ n \in Nat
              BY <2>1, <6>1
            <7> HIDE DEF a, n, x
            <7>2. x = n
              BY <5>1, <7>1
            <7> QED BY <7>2, Zenon DEF x
          <6> QED BY <5>3, <6>2
        <5> HIDE DEF l
        <5>5. ReadTo(g[n], str, c, l + 1, n)
          BY <2>5, <5>3, <5>4, Zenon
        <5> QED BY <5>3, <5>5, Zenon
      <4> QED BY <4>3, <4>4, Zenon
    <3> QED BY <3>1, Zenon DEF read
  <2>7. done(n)
    <3>1. 3 \in 0 .. 3 /\ 3 + 1 = 4 /\ c[4] \in Nat
      OBVIOUS
    <3>2. CASE c[4] = n
      <4>1. g[n].ip = Values(str, c, 3 + 1) /\ ~g[n].reading
        BY <2>5, <3>1, <3>2, Zenon
      <4> QED BY <3>1, <4>1, Zenon DEF done
    <3>3. CASE n >= c[4] /\ c[4] # n
      <4>1. k >= c[4]
        BY <2>1, <3>1, <3>3
      <4>2. ~g[k].reading /\ g[k].ip = Values(str, c, 4)
        BY <2>4, <4>1, Zenon DEF done
      <4>3. g[n] = g[k]
        BY <2>2, <2>3, <4>2, ReadCharDoes, Zenon
      <4> QED BY <4>2, <4>3, Zenon DEF done
    <3> QED BY <3>2, <3>3, Zenon DEF done
  <2> QED BY <2>1, <2>6, <2>7
<1>7. 0 .. Len(str) \subseteq T
  <2> HIDE DEF T
  <2> QED BY <1>1, <1>5, <1>6, UpTo
<1>8. Len(str) \in 0 .. Len(str)
  BY <1>1
<1>9. done(Len(str))
  <2> HIDE DEF read, done
  <2> QED BY <1>7, <1>8
<1>10. Len(str) >= c[4]
  BY <1>4
<1> QED BY <1>9, <1>10, Zenon

\* A text is a sequence of numbers.
LEMMA TextIs == \A t \in Seq(Char) : t \in Seq(Int)
<1>1. \A c \in Char : c \in Int
  BY DEF Char
<1>2. ASSUME NEW t \in Seq(Char) PROVE t \in Seq(Int)
  <2>1. Len(t) \in Nat /\ t \in [1 .. Len(t) -> Char]
    BY LenProperties
  <2>2. t \in [1 .. Len(t) -> Int]
    BY <1>1, <2>1
  <2> QED BY <2>1, <2>2, IsSequence, Zenon
<1> QED BY <1>2

\* UTILS_StrToIP takes a text for an address exactly if it begins with the spelling of
\* one, which is at most one (utils.c:91-127).
THEOREM AddressRead == \A t \in Seq(Char) : {UTILS_StrToIP(t)} \ {<<>>} = Spelt(t)
<1> SUFFICES ASSUME NEW t \in Seq(Char) PROVE {UTILS_StrToIP(t)} \ {<<>>} = Spelt(t)
  OBVIOUS
<1> DEFINE str == Append(t, 0)
           n == Len(str)
           stops == {i \in DOMAIN str : ~isNumericChar(str[i])}
           cuts == {cut \in [1 .. 4 -> stops] : \A i \in 1 .. 4 : Fits(str, cut, i)}
<1>0. t \in Seq(Int)
  BY TextIs, Zenon
<1>1. str \in Seq(Int) /\ n = Len(t) + 1 /\ n \in Nat /\ str[n] = 0 /\ DOMAIN str = 1 .. n
  BY <1>0
<1>2. PICK g : Run(g, str) /\ UTILS_StrToIP(t) = g[n].ip
  BY <1>0, RunExists, Zenon
<1>3. Spelt(t) = {Values(str, cut, 4) : cut \in cuts}
  BY Zenon DEF Spelt, Values
<1> HIDE DEF str, n
<1>4. n = Len(str)
  BY DEF n
<1>5. ASSUME NEW cut \in cuts PROVE UTILS_StrToIP(t) = Values(str, cut, 4) /\ Values(str, cut, 4) # <<>>
  <2>1. cut \in [1 .. 4 -> Nat] /\ \A i \in 1 .. 4 : Fits(str, cut, i)
    BY <1>1
  <2>2. g[n].ip = Values(str, cut, 4)
    BY <1>1, <1>2, <1>4, <2>1, SpeltIsRead, Zenon
  <2>3. Values(str, cut, 4) # <<>>
    <3>1. DOMAIN Values(str, cut, 4) = 1 .. 4
      BY DEF Values
    <3> QED BY <3>1
  <2> QED BY <1>2, <2>2, <2>3, Zenon
<1>6. ASSUME UTILS_StrToIP(t) # <<>> PROVE \E cut \in cuts : UTILS_StrToIP(t) = Values(str, cut, 4)
  <2>1. n \in 1 .. n /\ n \in 0 .. n /\ n - 1 \in 0 .. n
    <3>1. n # 0
      BY <1>0, <1>1
    <3> QED BY <1>1, <3>1
  <2>2. g[n] = ReadChar(g[n - 1], 0) /\ g[n - 1] \in Place
    <3>1. g \in [0 .. n -> Place] /\ \A i \in 1 .. n : g[i] = ReadChar(g[i - 1], str[i])
      BY <1>2, <1>4, Zenon DEF Run
    <3>2. g[n] = ReadChar(g[n - 1], 0)
      BY <1>1, <2>1, <3>1, Zenon
    <3> QED BY <2>1, <3>1, <3>2
  <2>3. ~g[n].reading
    <3> DEFINE at == g[n - 1]
    <3>1. ~isNumericChar(0) /\ 0 # Dot /\ 0 \in Int
      BY DEF isNumericChar, Dot
    <3> HIDE DEF at
    <3>2. at \in Place /\ g[n] = ReadChar(at, 0)
      BY <2>2, Zenon DEF at
    <3>3. CASE ~at.reading
      BY <3>1, <3>2, <3>3, ReadCharDoes, Zenon
    <3>4. CASE at.reading /\ ((Len(at.ip) < 3 /\ 0 # Dot) \/ at.n >= 256)
      BY <3>1, <3>2, <3>4, ReadCharDoes, Zenon
    <3>5. CASE at.reading /\ ~((Len(at.ip) < 3 /\ 0 # Dot) \/ at.n >= 256)
      <4>1. g[n].reading = (Len(at.ip) < 3)
        BY <3>1, <3>2, <3>5, ReadCharDoes, Zenon
      <4>2. ~(Len(at.ip) < 3)
        BY <3>1, <3>5, Zenon
      <4> QED BY <4>1, <4>2, Zenon
    <3> QED BY <3>3, <3>4, <3>5, Zenon
  <2>4. PICK c \in [1 .. 4 -> Nat] : g[n].ip = Values(str, c, 4) /\ \A i \in 1 .. 4 : Fits(str, c, i)
    BY <1>1, <1>2, <1>4, <1>6, <2>1, <2>3, ReadIsSpelt, Zenon
  <2>5. \A i \in 1 .. 4 : c[i] \in From(c, i) .. n /\ ~isNumericChar(str[c[i]])
    BY <1>4, <2>4, Zenon DEF Fits
  <2>6. ASSUME NEW i \in 1 .. 4 PROVE c[i] \in stops
    <3>1. i \in 1 .. 5
      OBVIOUS
    <3>2. From(c, i) \in Nat /\ From(c, i) > 0
      BY <3>1, FromIs, Zenon
    <3>3. c[i] \in 1 .. n
      BY <1>1, <2>5, <3>2
    <3> QED BY <1>1, <2>5, <3>3, Zenon
  <2>7. c \in [1 .. 4 -> stops]
    <3> HIDE DEF stops
    <3> QED BY <2>6
  <2>8. c \in cuts
    <3> HIDE DEF stops
    <3> QED BY <2>4, <2>7
  <2> QED BY <1>2, <2>4, <2>8, Zenon
<1> HIDE DEF cuts
<1> QED BY <1>3, <1>5, <1>6, Zenon

\* A text is read as a number, or as -1.
LEMMA AtoiTyped == \A t \in Seq(Char) : Atoi(t) \in Nat \cup {-1}
<1> DEFINE D == 48 .. 57
           T == {t \in Seq(D) : Value(t) \in Nat}
<1>1. <<>> \in T
  <2>1. <<>> \in Seq(D) /\ 0 \in Nat
    OBVIOUS
  <2> HIDE DEF D
  <2> QED BY <2>1, ValueSteps
<1>2. ASSUME NEW s \in Seq(D), NEW c \in D, s \in T PROVE Append(s, c) \in T
  <2>1. c \in Int /\ c - Zero \in Nat
    BY DEF Zero
  <2>2. s \in Seq(Int)
    <3>1. Len(s) \in Nat /\ s \in [1 .. Len(s) -> D]
      BY LenProperties
    <3>2. s \in [1 .. Len(s) -> Int]
      BY <3>1
    <3> QED BY <3>1, <3>2, IsSequence, Zenon
  <2>3. Append(s, c) \in Seq(D)
    <3> HIDE DEF D
    <3> QED OBVIOUS
  <2>4. Value(Append(s, c)) = (Value(s) * 10) + c - Zero /\ Value(s) \in Nat
    BY <1>2, <2>1, <2>2, ValueSteps, Zenon
  <2>5. (Value(s) * 10) + c - Zero \in Nat
    <3> DEFINE v == Value(s)
    <3>1. v \in Nat
      BY <2>4, Zenon
    <3> HIDE DEF v
    <3>2. (v * 10) + c - Zero \in Nat
      BY <2>1, <3>1 DEF Zero
    <3> QED BY <3>2, Zenon DEF v
  <2> QED BY <2>3, <2>4, <2>5, Zenon
<1>3. Seq(D) \subseteq T
  <2> HIDE DEF T, D
  <2> QED BY <1>1, <1>2, SeqInduct
<1>4. ASSUME NEW t \in Seq(Char), \A i \in DOMAIN t : isNumericChar(t[i]) PROVE Value(t) \in Nat
  <2>1. Len(t) \in Nat /\ DOMAIN t = 1 .. Len(t) /\ t \in [1 .. Len(t) -> Char]
    BY LenProperties
  <2>2. t \in [1 .. Len(t) -> D]
    BY <1>4, <2>1 DEF isNumericChar
  <2>3. t \in Seq(D)
    BY <2>1, <2>2, IsSequence, Zenon
  <2> QED BY <1>3, <2>3
<1>5. -1 \in Nat \cup {-1} /\ Nat \subseteq Nat \cup {-1}
  OBVIOUS
<1> QED BY <1>4, <1>5, Zenon DEF Atoi

-----------------------------------------------------------------------------
\* The arrays of SYSCFG.

\* How far a text may go on from the beginning of its array.
Longest(f) == IF f = "meshSSID" THEN Limit + Len(ChipId) + 1
              ELSE IF f \in (Texts \ DeviceFields) \cup {"ap"} THEN Limit + 1
              ELSE Size[f]
Reached(f) == Cells(f) \cup (At[f] .. At[f] + Longest(f) - 1)

\* What the layout makes sure of.
LEMMA LayoutIs ==
  /\ \A f \in Field : /\ At[f] \in Nat /\ Size[f] \in Nat \ {0}
                      /\ Reached(f) \subseteq 0 .. End - 1 /\ Cells(f) \subseteq 0 .. End - 1
  /\ \A f \in Field, g \in {"host"} \cup Ports : f # g => Reached(f) \cap Cells(g) = {}
  /\ \A f \in Field \ MqttFields, g \in MqttFields \cup {"mac"} :
       f # g => Reached(f) \cap Cells(g) = {}
  /\ Limit < Size["host"] /\ Limit \in Nat /\ End \in Nat
  /\ Web \subseteq Field /\ MqttFields \cup {"mac"} \subseteq Web
<1>1. Layout(At, Size, End, Limit, Len(ChipId)) /\ Limit \in Nat /\ End \in Nat
  BY LayoutAssumption
<1>2. /\ \A f \in Field : /\ At[f] \in Nat /\ Size[f] \in Nat \ {0} /\ Reached(f) \subseteq 0 .. End - 1
      /\ \A f \in Field, g \in {"host"} \cup Ports : f # g => Reached(f) \cap Cells(g) = {}
      /\ \A f \in Field \ MqttFields, g \in MqttFields \cup {"mac"} :
           f # g => Reached(f) \cap Cells(g) = {}
      /\ Limit < Size["host"]
  BY <1>1, Zenon DEF Layout, Cells, Reached, Longest
<1>3. \A f : Cells(f) \subseteq Reached(f)
  BY DEF Reached
<1>4. Web \subseteq Field /\ MqttFields \cup {"mac"} \subseteq Web
  BY DEF Field, Web, DeviceFields
<1> QED BY <1>1, <1>2, <1>3, <1>4

\* SYSCFG in memory: any bytes.
Memory == [0 .. End -> 0 .. 255]

\* Of the puts that touch a byte the last one is one.
LEMMA LatestIs ==
  ASSUME NEW puts, NEW n \in Nat, DOMAIN puts = 1 .. n, NEW x \in Touched(puts)
  PROVE  /\ Latest(puts, x) \in DOMAIN puts /\ x \in Touches(puts[Latest(puts, x)])
         /\ \A j \in DOMAIN puts : x \in Touches(puts[j]) => j <= Latest(puts, x)
<1> DEFINE T == {i \in 1 .. n : x \in Touches(puts[i])}
<1>1. T \in SUBSET (1 .. n) /\ T # {}
  BY DEF Touched
<1>2. PICK i \in T : \A j \in T : j <= i
  BY <1>1, LastExists
<1>3. i \in DOMAIN puts /\ x \in Touches(puts[i]) /\ \A j \in DOMAIN puts : x \in Touches(puts[j]) => j <= i
  BY <1>2
<1> QED BY <1>3, Zenon DEF Latest

\* What no put touches stays.
LEMMA Untouched ==
  ASSUME NEW cfg, NEW puts, NEW x \in DOMAIN cfg, x \notin Touched(puts)
  PROVE  Written(cfg, puts)[x] = cfg[x]
BY DEF Written

\* and so does a setting none of whose bytes are touched.
LEMMA OwnStays ==
  ASSUME NEW cfg \in Memory, NEW puts, NEW f \in Field, Cells(f) \cap Touched(puts) = {}
  PROVE  /\ \A x \in Cells(f) : Written(cfg, puts)[x] = cfg[x]
         /\ Own(Written(cfg, puts), f) = Own(cfg, f)
<1> DEFINE new == Written(cfg, puts)
<1>1. \A x \in Cells(f) : new[x] = cfg[x]
  <2>1. Cells(f) \subseteq DOMAIN cfg
    BY LayoutIs DEF Memory
  <2> QED BY <2>1, Untouched
<1> HIDE DEF new
<1>2. \A i \in 1 .. Size[f] : At[f] + i - 1 \in Cells(f)
  BY LayoutIs DEF Cells
<1>3. \A i \in 1 .. Size[f] : new[At[f] + i - 1] = cfg[At[f] + i - 1]
  BY <1>1, <1>2
<1>4. Own(new, f) = Own(cfg, f)
  BY <1>3, Zenon DEF Own
<1> QED BY <1>1, <1>4 DEF new

\* A byte that is touched is one of the last put.
LEMMA TouchedIs ==
  ASSUME NEW cfg, NEW puts, NEW x \in DOMAIN cfg, x \in Touched(puts)
  PROVE  LET put == puts[Latest(puts, x)] IN Written(cfg, puts)[x] = put.bytes[x - put.at + 1]
BY DEF Written

\* One put.
LEMMA OnePut ==
  ASSUME NEW cfg, NEW put, NEW x \in DOMAIN cfg
  PROVE  Written(cfg, <<put>>)[x] = IF x \in Touches(put) THEN put.bytes[x - put.at + 1] ELSE cfg[x]
<1> DEFINE puts == <<put>>
<1>1. DOMAIN puts = 1 .. 1 /\ puts[1] = put /\ 1 \in 1 .. 1
  OBVIOUS
<1> HIDE DEF puts
<1>2. x \in Touched(puts) <=> x \in Touches(put)
  BY <1>1 DEF Touched
<1>3. CASE x \in Touches(put)
  <2>1. Latest(puts, x) \in DOMAIN puts
    BY <1>1, <1>2, <1>3, LatestIs
  <2>2. Latest(puts, x) = 1
    BY <1>1, <2>1
  <2>3. Written(cfg, puts)[x] = put.bytes[x - put.at + 1]
    BY <1>1, <1>2, <1>3, <2>2, TouchedIs
  <2> QED BY <1>3, <2>3 DEF puts
<1>4. CASE x \notin Touches(put)
  BY <1>2, <1>4, Untouched DEF puts
<1> QED BY <1>3, <1>4

-----------------------------------------------------------------------------
\* Texts in memory.

\* A text that ends in its array is what stands before the first NUL.
LEMMA TextIn ==
  ASSUME NEW cfg \in Memory, NEW f \in Field, Whole(cfg, f)
  PROVE  \E n \in 0 .. Size[f] - 1 : /\ Ends(cfg, f, n)
                                     /\ Text(cfg, f) = [i \in 1 .. n |-> cfg[At[f] + i - 1]]
<1> DEFINE Z == {n \in Nat : At[f] + n \in Cells(f) /\ cfg[At[f] + n] = 0}
<1>0. At[f] \in Nat /\ Size[f] \in Nat \ {0} /\ Cells(f) \subseteq 0 .. End - 1 /\ End \in Nat
  BY LayoutIs
<1>1. Z # {} /\ Z \in SUBSET Nat
  <2>1. PICK x \in Cells(f) : cfg[x] = 0
    BY DEF Whole
  <2>2. x - At[f] \in Nat /\ At[f] + (x - At[f]) = x
    BY <1>0, <2>1 DEF Cells
  <2>3. x - At[f] \in Z
    BY <2>1, <2>2
  <2> QED BY <2>3
<1>2. PICK n \in Z : \A m \in Z : n <= m
  BY <1>1, Smallest
<1>3. n \in 0 .. Size[f] - 1 /\ n \in 0 .. End - At[f] /\ cfg[At[f] + n] = 0
  BY <1>0, <1>2 DEF Cells
<1>4. ASSUME NEW i \in 0 .. n - 1 PROVE cfg[At[f] + i] # 0
  <2>1. i \in Nat /\ ~(n <= i) /\ At[f] + i \in Cells(f)
    BY <1>0, <1>3 DEF Cells
  <2> QED BY <1>2, <2>1
<1>5. Ends(cfg, f, n)
  BY <1>3, <1>4 DEF Ends
<1>6. ASSUME NEW m \in 0 .. End - At[f], Ends(cfg, f, m) PROVE m = n
  <2>1. ~(m < n)
    <3>1. m < n => m \in 0 .. n - 1
      BY <1>0, <1>3
    <3> QED BY <1>4, <1>6, <3>1 DEF Ends
  <2>2. ~(n < m)
    <3>1. n < m => n \in 0 .. m - 1
      BY <1>0, <1>3
    <3> QED BY <1>3, <1>6, <3>1 DEF Ends
  <2> QED BY <1>0, <1>3, <2>1, <2>2
<1> DEFINE c == CHOOSE m \in 0 .. End - At[f] : Ends(cfg, f, m)
<1>7. c \in 0 .. End - At[f] /\ Ends(cfg, f, c)
  BY <1>3, <1>5, Zenon
<1>8. Text(cfg, f) = [i \in 1 .. c |-> cfg[At[f] + i - 1]]
  BY Zenon DEF Text
<1> HIDE DEF c
<1>9. c = n
  BY <1>6, <1>7
<1> QED BY <1>3, <1>5, <1>8, <1>9

\* There is one such place.
LEMMA EndsOnce ==
  ASSUME NEW cfg, NEW f \in Field, NEW m \in Nat, NEW n \in Nat, Ends(cfg, f, m), Ends(cfg, f, n)
  PROVE  m = n
<1>1. ~(m < n)
  <2>1. m < n => m \in 0 .. n - 1
    OBVIOUS
  <2> QED BY <2>1 DEF Ends
<1>2. ~(n < m)
  <2>1. n < m => n \in 0 .. m - 1
    OBVIOUS
  <2> QED BY <2>1 DEF Ends
<1> QED BY <1>1, <1>2

\* It is a text, shorter than its array.
LEMMA TextTyped ==
  ASSUME NEW cfg \in Memory, NEW f \in Field, Whole(cfg, f)
  PROVE  Text(cfg, f) \in Seq(Char) /\ Len(Text(cfg, f)) < Size[f]
<1>0. At[f] \in Nat /\ Size[f] \in Nat \ {0} /\ Cells(f) \subseteq 0 .. End - 1 /\ End \in Nat
  BY LayoutIs
<1>1. PICK n \in 0 .. Size[f] - 1 : /\ Ends(cfg, f, n)
                                    /\ Text(cfg, f) = [i \in 1 .. n |-> cfg[At[f] + i - 1]]
  BY TextIn
<1>2. ASSUME NEW i \in 1 .. n PROVE cfg[At[f] + i - 1] \in Char
  <2>1. i - 1 \in 0 .. n - 1 /\ At[f] + (i - 1) \in Cells(f) /\ At[f] + (i - 1) = At[f] + i - 1
    BY <1>0 DEF Cells
  <2>2. cfg[At[f] + i - 1] # 0 /\ At[f] + i - 1 \in 0 .. End
    BY <1>0, <1>1, <2>1 DEF Ends
  <2>3. cfg[At[f] + i - 1] \in 0 .. 255
    BY <2>2 DEF Memory
  <2> QED BY <2>2, <2>3 DEF Char
<1> DEFINE t == [i \in 1 .. n |-> cfg[At[f] + i - 1]]
<1>3. t \in [1 .. n -> Char] /\ n \in Nat
  BY <1>0, <1>2
<1> HIDE DEF t
<1>4. t \in Seq(Char) /\ Len(t) = n
  BY <1>3, IsSequence, Zenon
<1>5. n < Size[f]
  BY <1>0
<1> QED BY <1>1, <1>4, <1>5, Zenon DEF t

\* The same bytes are the same text.
LEMMA TextSame ==
  ASSUME NEW cfg \in Memory, NEW new \in Memory, NEW f \in Field,
         \A x \in Cells(f) : new[x] = cfg[x]
  PROVE  /\ Whole(new, f) <=> Whole(cfg, f)
         /\ Whole(cfg, f) => Text(new, f) = Text(cfg, f)
<1>0. At[f] \in Nat /\ Size[f] \in Nat \ {0}
  BY LayoutIs
<1>1. Whole(new, f) <=> Whole(cfg, f)
  BY DEF Whole
<1>2. ASSUME Whole(cfg, f) PROVE Text(new, f) = Text(cfg, f)
  <2>1. PICK n \in 0 .. Size[f] - 1 : /\ Ends(cfg, f, n)
                                      /\ Text(cfg, f) = [i \in 1 .. n |-> cfg[At[f] + i - 1]]
    BY <1>2, TextIn
  <2>2. PICK m \in 0 .. Size[f] - 1 : /\ Ends(new, f, m)
                                      /\ Text(new, f) = [i \in 1 .. m |-> new[At[f] + i - 1]]
    BY <1>1, <1>2, TextIn
  <2>3. \A i \in 0 .. Size[f] - 1 : At[f] + i \in Cells(f)
    BY <1>0 DEF Cells
  <2>4. n \in Nat /\ m \in Nat /\ \A i \in 0 .. n : i \in 0 .. Size[f] - 1
    BY <1>0
  <2>5. Ends(new, f, n)
    <3>1. \A i \in 0 .. n : new[At[f] + i] = cfg[At[f] + i]
      BY <2>3, <2>4
    <3>2. n \in 0 .. n /\ \A i \in 0 .. n - 1 : i \in 0 .. n
      BY <2>4
    <3> QED BY <2>1, <3>1, <3>2 DEF Ends
  <2>6. m = n
    BY <2>2, <2>4, <2>5, EndsOnce
  <2>7. ASSUME NEW i \in 1 .. n PROVE new[At[f] + i - 1] = cfg[At[f] + i - 1]
    <3>1. At[f] + i - 1 \in Cells(f)
      BY <1>0 DEF Cells
    <3> QED BY <3>1
  <2>8. [i \in 1 .. n |-> new[At[f] + i - 1]] = [i \in 1 .. n |-> cfg[At[f] + i - 1]]
    BY <2>7, Zenon
  <2> QED BY <2>1, <2>2, <2>6, <2>8, Zenon
<1> QED BY <1>1, <1>2

-----------------------------------------------------------------------------
\* What handlers put.

\* The greatest number.
LEMMA MaxIntIs == MaxInt = ((127 * 256 + 255) * 256 + 255) * 256 + 255
BY SMT DEF MaxInt

LEMMA MaxIntTyped == MaxInt \in Nat
BY SMT DEF MaxInt

\* Bytes whose highest is below 128 make no number above the greatest.
LEMMA Greatest ==
  ASSUME NEW b, b[1] \in 0 .. 255, b[2] \in 0 .. 255, b[3] \in 0 .. 255, b[4] \in 0 .. 127
  PROVE  Unsigned(b) <= MaxInt
<1>0. PICK b1 \in 0 .. 255, b2 \in 0 .. 255, b3 \in 0 .. 255, b4 \in 0 .. 127 :
        b[1] = b1 /\ b[2] = b2 /\ b[3] = b3 /\ b[4] = b4
  OBVIOUS
<1>1. ((b4 * 256 + b3) * 256 + b2) * 256 + b1 <= ((127 * 256 + 255) * 256 + 255) * 256 + 255
  OBVIOUS
<1>2. ((b4 * 256 + b3) * 256 + b2) * 256 + b1 <= MaxInt
  BY <1>1, MaxIntIs
<1> QED BY <1>0, <1>2 DEF Unsigned

\* What a division leaves.
LEMMA Divides ==
  ASSUME NEW n \in Int
  PROVE  n \div 256 \in Int /\ n = 256 * (n \div 256) + (n % 256) /\ n % 256 \in 0 .. 255
OBVIOUS

\* Bytes of a number are read as it.
LEMMA WordRead == \A n \in -1 .. MaxInt : Word(Bytes(n)) = n
<1>1. ASSUME NEW n \in 0 .. MaxInt PROVE Word(Bytes(n)) = n
  <2> DEFINE b == Bytes(n)
             n1 == n \div 256
             n2 == n1 \div 256
             n3 == n2 \div 256
  <2>1. b[1] = n % 256 /\ b[2] = n1 % 256 /\ b[3] = n2 % 256 /\ b[4] = n3 % 256
    BY DEF Bytes
  <2>2. n1 \in Nat /\ n = 256 * n1 + (n % 256) /\ n % 256 \in 0 .. 255 /\ n \in Nat
    OBVIOUS
  <2> HIDE DEF b, n1
  <2>3. n2 \in Nat /\ n1 = 256 * n2 + (n1 % 256) /\ n1 % 256 \in 0 .. 255
    BY <2>2
  <2> HIDE DEF n2
  <2>4. n3 \in Nat /\ n2 = 256 * n3 + (n2 % 256) /\ n2 % 256 \in 0 .. 255
    BY <2>3
  <2> HIDE DEF n3
  <2> DEFINE r0 == n % 256  r1 == n1 % 256  r2 == n2 % 256
  <2>5. /\ n \in Nat /\ n1 \in Nat /\ n2 \in Nat /\ n3 \in Nat
        /\ r0 \in 0 .. 255 /\ r1 \in 0 .. 255 /\ r2 \in 0 .. 255
        /\ n = 256 * n1 + r0 /\ n1 = 256 * n2 + r1 /\ n2 = 256 * n3 + r2
        /\ b[1] = r0 /\ b[2] = r1 /\ b[3] = r2
    BY <2>1, <2>2, <2>3, <2>4
  <2> HIDE DEF r0, r1, r2
  <2>r. n <= MaxInt
    BY MaxIntTyped
  <2>a. n3 <= 127
    <3>1. n <= ((127 * 256 + 255) * 256 + 255) * 256 + 255
      BY <2>r, MaxIntIs
    <3> QED BY <2>5, <3>1
  <2>b. b[4] = n3
    <3>1. n3 % 256 = n3
      BY <2>5, <2>a
    <3> QED BY <2>1, <3>1
  <2>6. Unsigned(b) = n /\ b[4] < 128
    <3>1. Unsigned(b) = ((n3 * 256 + r2) * 256 + r1) * 256 + r0
      BY <2>5, <2>b DEF Unsigned
    <3>2. n2 = n3 * 256 + r2
      BY <2>5
    <3>3. n1 = n2 * 256 + r1
      BY <2>5
    <3>4. n = n1 * 256 + r0
      BY <2>5
    <3> QED BY <2>a, <2>b, <2>5, <3>1, <3>2, <3>3, <3>4
  <2>7. Word(b) = n
    BY <2>6, Zenon DEF Word
  <2> QED BY <2>7 DEF b
<1>2. Word(Bytes(-1)) = -1
  <2> DEFINE b == Bytes(-1)
             c == [i \in 1 .. 4 |-> 255 - b[i]]
  <2>1. b[1] = 255 /\ b[2] = 255 /\ b[3] = 255 /\ b[4] = 255
    <3>1. (-1) \div 256 = -1 /\ (-1) % 256 = 255
      <4>1. PICK n \in Int : n = -1
        OBVIOUS
      <4>2. PICK q, r : q = n \div 256 /\ r = n % 256
        OBVIOUS
      <4>3. q \in Int /\ n = 256 * q + r /\ r \in 0 .. 255
        BY <4>2, Divides
      <4>4. q = -1 /\ r = 255
        BY <4>1, <4>3
      <4> QED BY <4>1, <4>2, <4>4
    <3>2. b = <<255, 255, 255, 255>>
      BY <3>1, Zenon DEF Bytes
    <3> QED BY <3>2
  <2> HIDE DEF b
  <2>2. c[1] = 0 /\ c[2] = 0 /\ c[3] = 0 /\ c[4] = 0
    BY <2>1
  <2>3. Word(b) = -1 - Unsigned(c)
    <3>1. ~(b[4] < 128)
      BY <2>1
    <3> QED BY <3>1, Zenon DEF Word
  <2> HIDE DEF c
  <2>4. Unsigned(c) = 0
    BY <2>2 DEF Unsigned
  <2> QED BY <2>3, <2>4 DEF b
<1>3. \A n \in -1 .. MaxInt : n = -1 \/ n \in 0 .. MaxInt
  BY MaxIntTyped
<1> QED BY <1>1, <1>2, <1>3

\* No four bytes make a number above the greatest.
LEMMA WordBelow == \A b \in [1 .. 4 -> 0 .. 255] : Word(b) \in Int /\ Word(b) <= MaxInt
<1> SUFFICES ASSUME NEW b \in [1 .. 4 -> 0 .. 255] PROVE Word(b) \in Int /\ Word(b) <= MaxInt
  OBVIOUS
<1>1. b[1] \in 0 .. 255 /\ b[2] \in 0 .. 255 /\ b[3] \in 0 .. 255 /\ b[4] \in 0 .. 255
  OBVIOUS
<1> DEFINE c == [i \in 1 .. 4 |-> 255 - b[i]]
<1>2. c[1] \in 0 .. 255 /\ c[2] \in 0 .. 255 /\ c[3] \in 0 .. 255 /\ c[4] \in 0 .. 255
  BY <1>1
<1>3. Word(b) = IF b[4] < 128 THEN Unsigned(b) ELSE -1 - Unsigned(c)
  BY Zenon DEF Word
<1>4. ASSUME NEW d, \A i \in 1 .. 4 : d[i] \in 0 .. 255 PROVE Unsigned(d) \in Nat
  <2>1. d[1] \in Nat /\ d[2] \in Nat /\ d[3] \in Nat /\ d[4] \in Nat
    BY <1>4
  <2> QED BY <2>1 DEF Unsigned
<1>5. Unsigned(b) \in Nat /\ Unsigned(c) \in Nat
  <2>1. \A i \in 1 .. 4 : c[i] = 255 - b[i]
    OBVIOUS
  <2> HIDE DEF c
  <2>2. \A i \in 1 .. 4 : b[i] \in 0 .. 255
    OBVIOUS
  <2>3. \A i \in 1 .. 4 : c[i] \in 0 .. 255
    BY <2>1, <2>2
  <2> QED BY <1>4, <2>2, <2>3
<1>6. b[4] < 128 => Unsigned(b) <= MaxInt
  <2>2. b[4] < 128 => b[4] \in 0 .. 127
    BY <1>1
  <2>3. ASSUME b[4] \in 0 .. 127 PROVE Unsigned(b) <= MaxInt
    BY <1>1, <2>3, Greatest, Zenon
  <2> QED BY <2>2, <2>3
<1> HIDE DEF c
<1> QED BY <1>3, <1>5, <1>6, MaxIntTyped

\* A text and the zeros behind it.
LEMMA ZeroedIs ==
  ASSUME NEW f \in Field, NEW t \in Seq(Int)
  PROVE  LET n == IF Len(t) < Size[f] THEN Size[f] ELSE Len(t) + 1 IN
         /\ Zeroed(f, t) \in Seq(Int) /\ Len(Zeroed(f, t)) = n
         /\ \A i \in 1 .. Len(t) : Zeroed(f, t)[i] = t[i]
         /\ \A i \in Len(t) + 1 .. n : Zeroed(f, t)[i] = 0
<1> DEFINE k == IF Len(t) < Size[f] THEN Size[f] - Len(t) ELSE 1
           z == [i \in 1 .. k |-> 0]
<1>0. Size[f] \in Nat \ {0} /\ Len(t) \in Nat
  BY LayoutIs, LenProperties
<1>1. k \in Nat /\ Len(t) + k = IF Len(t) < Size[f] THEN Size[f] ELSE Len(t) + 1
  BY <1>0
<1>2. Zeroed(f, t) = t \o z
  BY Zenon DEF Zeroed
<1> HIDE DEF k
<1>3. z \in Seq(Int) /\ Len(z) = k /\ \A i \in 1 .. k : z[i] = 0
  BY <1>1
<1> HIDE DEF z
<1>4. /\ t \o z \in Seq(Int) /\ Len(t \o z) = Len(t) + k
      /\ \A i \in 1 .. Len(t) : (t \o z)[i] = t[i]
      /\ \A i \in Len(t) + 1 .. Len(t) + k : (t \o z)[i] = 0
  BY <1>0, <1>1, <1>3
<1> QED BY <1>1, <1>2, <1>4

\* How far the text of a field goes on.
LEMMA StoredIs ==
  ASSUME NEW f \in Web, NEW t \in Seq(Int), f \in Texts => Len(t) <= Limit
  PROVE  /\ Len(Stored(f, t)) \in Nat
         /\ Len(Stored(f, t)) <= Size[f] \/ Len(Stored(f, t)) <= Longest(f)
         /\ f \in Texts /\ f # "meshSSID" /\ (f \in DeviceFields => Taken(f, t))
              => Stored(f, t) = Zeroed(f, t)
         /\ f \in DeviceFields /\ ~Taken(f, t) => Stored(f, t) = <<>>
         /\ f \in Ports => Stored(f, t) = Bytes(Atoi(t))
<1>0. f \in Field /\ Size[f] \in Nat \ {0} /\ Limit \in Nat /\ Len(t) \in Nat
  BY LayoutIs, LenProperties
<1>s. /\ ChipId \in Seq(Int) /\ Len(ChipId) \in Nat /\ Size["port"] = 4 /\ Size["server_port"] = 4
      /\ Size["security"] = 1 /\ Size["enable"] = 1 /\ Size["meshId"] = 6
  <2>1. ChipId \in Seq(Char)
    BY LayoutAssumption
  <2>2. /\ Size["port"] = 4 /\ Size["server_port"] = 4
        /\ Size["security"] = 1 /\ Size["enable"] = 1 /\ Size["meshId"] = 6
    BY LayoutAssumption DEF Ports
  <2> QED BY <2>1, <2>2, TextIs, LenProperties, Zenon
<1>z. ASSUME NEW u \in Seq(Int)
      PROVE  Len(Zeroed(f, u)) = IF Len(u) < Size[f] THEN Size[f] ELSE Len(u) + 1
  BY <1>0, ZeroedIs
<1>t. ASSUME Stored(f, t) = Zeroed(f, t), f \in Texts \ DeviceFields, f # "meshSSID", f \notin Ports
      PROVE  Len(Stored(f, t)) \in Nat /\ (Len(Stored(f, t)) <= Size[f] \/ Len(Stored(f, t)) <= Longest(f))
  <2>1. Longest(f) = Limit + 1 /\ Len(t) <= Limit
    BY <1>t DEF Longest
  <2> QED BY <1>0, <1>t, <1>z, <2>1
<1>1. CASE f \in {"host", "user", "pass"}
  <2>1. Stored(f, t) = Zeroed(f, t)
    BY <1>1 DEF Stored, MqttFields, mqtt_info_set
  <2>2. f \in Texts \ DeviceFields /\ f # "meshSSID" /\ f \notin Ports
    BY <1>1 DEF Texts, DeviceFields, Ports
  <2> QED BY <1>t, <2>1, <2>2
<1>2. CASE f \in {"meshPasswd", "server_host"}
  <2>1. Stored(f, t) = Zeroed(f, t)
    BY <1>2 DEF Stored, MqttFields, DeviceFields, mesh_config_set
  <2>2. f \in Texts \ DeviceFields /\ f # "meshSSID" /\ f \notin Ports
    BY <1>2 DEF Texts, DeviceFields, Ports
  <2> QED BY <1>t, <2>1, <2>2
<1>3. CASE f \in DeviceFields
  <2>1. f \notin MqttFields /\ f \notin Ports
    BY <1>3 DEF DeviceFields, MqttFields, Ports
  <2>2. Stored(f, t) = IF Taken(f, t) THEN Zeroed(f, t) ELSE <<>>
    BY <1>3, <2>1, Zenon DEF Stored, device_cfg_set
  <2>3. Taken(f, t) => Len(Zeroed(f, t)) = Size[f]
    BY <1>z DEF Taken
  <2>4. Len(Stored(f, t)) \in Nat /\ Len(Stored(f, t)) <= Size[f]
    BY <1>0, <2>2, <2>3
  <2> QED BY <1>3, <2>1, <2>2, <2>4
<1>4. CASE f = "meshSSID"
  <2>1. Stored(f, t) = Zeroed(f, t \o ChipId)
    BY <1>4 DEF Stored, MqttFields, DeviceFields, mesh_config_set
  <2>2. t \o ChipId \in Seq(Int) /\ Len(t \o ChipId) = Len(t) + Len(ChipId)
    BY <1>s
  <2>3. Longest(f) = Limit + Len(ChipId) + 1 /\ Len(t) <= Limit
    BY <1>4 DEF Longest, Texts
  <2>4. Len(Zeroed(f, t \o ChipId)) = IF Len(t \o ChipId) < Size[f] THEN Size[f] ELSE Len(t \o ChipId) + 1
    BY <1>z, <2>2
  <2>5. f \notin DeviceFields /\ f \notin Ports
    BY <1>4 DEF DeviceFields, Ports
  <2> QED BY <1>0, <1>4, <1>s, <2>1, <2>2, <2>3, <2>4, <2>5
<1>5. CASE f \in Ports
  <2>1. Stored(f, t) = Bytes(Atoi(t))
    BY <1>5 DEF Ports, Stored, MqttFields, DeviceFields, mqtt_info_set, mesh_config_set
  <2>2. f \notin Texts /\ f \notin DeviceFields /\ Size[f] = 4
    BY <1>5, <1>s DEF Ports, Texts, DeviceFields
  <2>3. Len(Bytes(Atoi(t))) = 4
    BY DEF Bytes
  <2> QED BY <2>1, <2>2, <2>3
<1>6. CASE f \in {"security", "enable"}
  <2>1. \E b : Stored(f, t) = <<b>>
    BY <1>6 DEF Stored, MqttFields, DeviceFields, mqtt_info_set, mesh_config_set
  <2>2. Len(Stored(f, t)) = 1 /\ Size[f] = 1
    BY <1>6, <1>s, <2>1
  <2>3. f \notin Texts /\ f \notin DeviceFields /\ f \notin Ports
    BY <1>6 DEF Texts, DeviceFields, Ports
  <2> QED BY <2>2, <2>3
<1>7. CASE f = "meshId"
  <2>1. Stored(f, t) = IF Len(t) = MacText THEN str_mac_to_byte_mac(t) ELSE <<>>
    BY <1>7 DEF Stored, MqttFields, DeviceFields, mesh_config_set
  <2>2. Len(str_mac_to_byte_mac(t)) = 6
    BY DEF str_mac_to_byte_mac
  <2>3. f \notin Texts /\ f \notin DeviceFields /\ f \notin Ports
    BY <1>7 DEF Texts, DeviceFields, Ports
  <2>4. Len(Stored(f, t)) \in Nat /\ Len(Stored(f, t)) <= Size[f]
    <3>1. CASE Len(t) = MacText
      <4>1. Stored(f, t) = str_mac_to_byte_mac(t)
        BY <2>1, <3>1, Zenon
      <4>2. Len(Stored(f, t)) = 6 /\ Size[f] = 6
        BY <1>7, <1>s, <2>2, <4>1, Zenon
      <4> QED BY <4>2
    <3>2. CASE Len(t) # MacText
      <4>1. Stored(f, t) = <<>>
        BY <2>1, <3>2
      <4> QED BY <1>7, <1>s, <4>1
    <3> QED BY <3>1, <3>2
  <2> QED BY <2>3, <2>4
<1> QED BY <1>1, <1>2, <1>3, <1>4, <1>5, <1>6, <1>7 DEF Web, MqttFields, MeshFields, Ports

\* What a handler puts: into the arrays of settings, no farther than they reach, into
\* the host a text that ends in it and into a port a number.
Fine(puts) ==
  /\ \E n \in Nat : DOMAIN puts = 1 .. n
  /\ \A i \in DOMAIN puts : \E f \in Field :
       /\ puts[i].at = At[f] /\ Touches(puts[i]) \subseteq Reached(f)
       /\ f = "host" => Touches(puts[i]) \subseteq Cells(f) /\ puts[i].bytes[Size[f]] = 0
       /\ f \in Ports => \E k \in -1 .. MaxInt : puts[i].bytes = Bytes(k)

\* A put of no more than that many bytes stays within what its setting reaches.
LEMMA PutReaches ==
  ASSUME NEW f \in Field, NEW b, Len(b) \in Nat,
         Len(b) <= Size[f] \/ Len(b) <= Longest(f)
  PROVE  /\ Put(f, b).at = At[f] /\ Put(f, b).bytes = b
         /\ Touches(Put(f, b)) = At[f] .. At[f] + Len(b) - 1
         /\ Touches(Put(f, b)) \subseteq Reached(f)
<1>0. At[f] \in Nat /\ Size[f] \in Nat
  BY LayoutIs
<1>1. Put(f, b).at = At[f] /\ Put(f, b).bytes = b
  BY DEF Put
<1>2. Touches(Put(f, b)) = At[f] .. At[f] + Len(b) - 1
  BY <1>1 DEF Touches
<1>l. Longest(f) \in Int
  <2>1. ChipId \in Seq(Char) /\ Limit \in Nat
    BY LayoutAssumption, Zenon
  <2>2. Len(ChipId) \in Nat
    BY <2>1, LenProperties, Zenon
  <2> QED BY <1>0, <2>1, <2>2 DEF Longest
<1>3. At[f] .. At[f] + Len(b) - 1 \subseteq Reached(f)
  <2>1. \A x \in Int, y \in Int, a \in Int : x <= y => a .. a + x - 1 \subseteq a .. a + y - 1
    OBVIOUS
  <2>2. CASE Len(b) <= Size[f]
    <3>1. At[f] .. At[f] + Len(b) - 1 \subseteq Cells(f)
      BY <1>0, <2>2 DEF Cells
    <3> QED BY <3>1 DEF Reached
  <2>3. CASE Len(b) <= Longest(f)
    <3>1. At[f] .. At[f] + Len(b) - 1 \subseteq At[f] .. At[f] + Longest(f) - 1
      BY <1>0, <1>l, <2>3
    <3> QED BY <3>1 DEF Reached
  <2> QED BY <2>2, <2>3
<1> QED BY <1>1, <1>2, <1>3

\* Of a request:
LEMMA RequestIs ==
  ASSUME NEW request \in Requests
  PROVE  /\ \E n \in Nat : DOMAIN request = 1 .. n
         /\ DOMAIN json_parse(request) = DOMAIN request
         /\ \A i \in DOMAIN request : LET f == request[i].field t == request[i].text IN
              /\ f \in Web /\ f \in Field /\ t \in Seq(Int) /\ t \in Seq(Char)
              /\ f \in Texts => Len(t) <= Limit
              /\ json_parse(request)[i] = Put(f, Stored(f, t))
<1>1. request \in Seq([field : Web, text : Seq(Char)])
  BY TextAssumption, Zenon
<1>2. DOMAIN request = 1 .. Len(request) /\ Len(request) \in Nat
  BY <1>1, LenProperties
<1>3. \A i \in DOMAIN request : request[i] \in [field : Web, text : Seq(Char)]
  BY <1>1, <1>2, ElementOfSeq, Zenon
<1>4. \A i \in DOMAIN request : request[i].field \in Web /\ request[i].text \in Seq(Char)
  <2> DEFINE S == Seq(Char)
  <2>1. \A i \in DOMAIN request : request[i] \in [field : Web, text : S]
    BY <1>3
  <2> HIDE DEF S
  <2>2. \A i \in DOMAIN request : request[i].field \in Web /\ request[i].text \in S
    BY <2>1
  <2> QED BY <2>2 DEF S
<1>5. \A i \in DOMAIN request : request[i].field \in Texts => Len(request[i].text) <= Limit
  BY TextAssumption, Zenon
<1>6. /\ DOMAIN json_parse(request) = DOMAIN request
      /\ \A i \in DOMAIN request :
           json_parse(request)[i] = Put(request[i].field, Stored(request[i].field, request[i].text))
  BY Zenon DEF json_parse
<1>7. \A f \in Web : f \in Field
  BY LayoutIs
<1> QED BY <1>2, <1>4, <1>5, <1>6, <1>7, TextIs, Zenon

\* what it puts is fine,
LEMMA RequestFine == ASSUME NEW request \in Requests PROVE Fine(json_parse(request))
<1> DEFINE puts == json_parse(request)
<1>1. ASSUME NEW i \in DOMAIN request
      PROVE  \E f \in Field :
               /\ puts[i].at = At[f] /\ Touches(puts[i]) \subseteq Reached(f)
               /\ f = "host" => Touches(puts[i]) \subseteq Cells(f) /\ puts[i].bytes[Size[f]] = 0
               /\ f \in Ports => \E k \in -1 .. MaxInt : puts[i].bytes = Bytes(k)
  <2> DEFINE f == request[i].field
             t == request[i].text
             b == Stored(f, t)
  <2>1. /\ f \in Web /\ f \in Field /\ t \in Seq(Int) /\ t \in Seq(Char)
        /\ f \in Texts => Len(t) <= Limit
        /\ puts[i] = Put(f, b)
    BY RequestIs, Zenon
  <2>a. f \in Ports => Atoi(t) <= MaxInt
    BY TextAssumption, Zenon
  <2> HIDE DEF puts, f, t
  <2>2. /\ Len(b) \in Nat
        /\ Len(b) <= Size[f] \/ Len(b) <= Longest(f)
        /\ f \in Texts /\ f # "meshSSID" /\ (f \in DeviceFields => Taken(f, t)) => b = Zeroed(f, t)
        /\ f \in Ports => b = Bytes(Atoi(t))
    BY <2>1, StoredIs, Zenon
  <2> HIDE DEF b
  <2>3. /\ puts[i].at = At[f] /\ puts[i].bytes = b
        /\ Touches(puts[i]) = At[f] .. At[f] + Len(b) - 1
        /\ Touches(puts[i]) \subseteq Reached(f)
    BY <2>1, <2>2, PutReaches
  <2>4. ASSUME f = "host" PROVE Touches(puts[i]) \subseteq Cells(f) /\ puts[i].bytes[Size[f]] = 0
    <3>1. b = Zeroed(f, t) /\ Len(t) <= Limit /\ Limit < Size[f] /\ Limit \in Nat /\ Len(t) \in Nat
      BY <2>1, <2>2, <2>4, LayoutIs, LenProperties DEF Texts, DeviceFields
    <3>2. Len(t) < Size[f] /\ Size[f] \in Nat
      BY <2>1, <3>1, LayoutIs
    <3>3. Len(b) = Size[f] /\ b[Size[f]] = 0
      <4>1. Len(Zeroed(f, t)) = Size[f] /\ \A k \in Len(t) + 1 .. Size[f] : Zeroed(f, t)[k] = 0
        BY <2>1, <3>2, ZeroedIs
      <4>2. Size[f] \in Len(t) + 1 .. Size[f]
        BY <3>1, <3>2
      <4> QED BY <3>1, <4>1, <4>2
    <3> QED BY <2>3, <3>3 DEF Cells
  <2>5. ASSUME f \in Ports PROVE \E k \in -1 .. MaxInt : puts[i].bytes = Bytes(k)
    <3>1. Atoi(t) \in Nat \cup {-1}
      BY <2>1, AtoiTyped, Zenon
    <3>2. Atoi(t) \in -1 .. MaxInt
      BY <2>a, <2>5, <3>1, MaxIntTyped
    <3> QED BY <2>2, <2>3, <2>5, <3>2
  <2> QED BY <2>1, <2>3, <2>4, <2>5, Zenon
<1>2. DOMAIN puts = DOMAIN request /\ \E n \in Nat : DOMAIN request = 1 .. n
  BY RequestIs, Zenon
<1> HIDE DEF puts
<1>3. Fine(puts)
  BY <1>1, <1>2, Zenon DEF Fine
<1> QED BY <1>3 DEF puts

\* and so is the text of a name or a password.
LEMMA TermIs ==
  ASSUME NEW f \in Field \ ({"host"} \cup Ports), NEW t \in Seq(Char),
         Len(t) < Size[f] \/ Len(t) < Longest(f)
  PROVE  LET put == Put(f, Append(t, 0)) IN
         put.at = At[f] /\ Touches(put) \subseteq Reached(f)
<1>1. t \in Seq(Int) /\ Len(t) \in Nat
  BY TextIs, LenProperties, Zenon
<1>2. Len(Append(t, 0)) = Len(t) + 1
  BY <1>1
<1>l. Longest(f) \in Int /\ Size[f] \in Int
  <2>1. ChipId \in Seq(Char) /\ Limit \in Nat
    BY LayoutAssumption, Zenon
  <2>2. Len(ChipId) \in Nat
    BY <2>1, LenProperties, Zenon
  <2>3. Size[f] \in Int
    BY LayoutIs
  <2> QED BY <2>1, <2>2, <2>3 DEF Longest
<1>3. Len(Append(t, 0)) \in Nat /\ (Len(Append(t, 0)) <= Size[f] \/ Len(Append(t, 0)) <= Longest(f))
  BY <1>1, <1>2, <1>l
<1> QED BY <1>3, PutReaches, Zenon

\* The settings of the networks, and puts of them.
Wifi == {"sta_ssid", "sta_pwd", "ap"}
Within(puts) ==
  /\ \E n \in Nat : DOMAIN puts = 1 .. n
  /\ \A i \in DOMAIN puts : \E f \in Wifi : puts[i].at = At[f] /\ Touches(puts[i]) \subseteq Reached(f)

\* They are what the handlers of the networks put,
LEMMA WifiWithin ==
  /\ \A net \in Networks : Within(StaPuts(net))
  /\ \A pass \in Passwords : Within(ApPuts(pass))
<1>0. \A f \in Wifi : f \in Field \ ({"host"} \cup Ports)
  BY DEF Field, Ports, Wifi
<1>1. ASSUME NEW net \in Networks PROVE Within(StaPuts(net))
  <2>1. /\ net.ssid \in Seq(Char) /\ Len(net.ssid) < Size["sta_ssid"]
        /\ net.password \in Seq(Char) /\ Len(net.password) < Size["sta_pwd"]
    BY TextAssumption, Zenon
  <2> DEFINE p1 == Put("sta_ssid", Append(net.ssid, 0))
             p2 == Put("sta_pwd", Append(net.password, 0))
             puts == <<p1, p2>>
  <2>0. "sta_ssid" \in Wifi /\ "sta_pwd" \in Wifi
    BY DEF Wifi
  <2>2. p1.at = At["sta_ssid"] /\ Touches(p1) \subseteq Reached("sta_ssid")
    BY <1>0, <2>0, <2>1, TermIs
  <2>3. p2.at = At["sta_pwd"] /\ Touches(p2) \subseteq Reached("sta_pwd")
    BY <1>0, <2>0, <2>1, TermIs
  <2>4. StaPuts(net) = puts
    BY Zenon DEF StaPuts
  <2> HIDE DEF p1, p2
  <2>5. DOMAIN puts = 1 .. 2 /\ puts[1] = p1 /\ puts[2] = p2
    OBVIOUS
  <2> HIDE DEF puts
  <2>6. \A i \in DOMAIN puts : i = 1 \/ i = 2
    BY <2>5
  <2>7. \A i \in DOMAIN puts : \E f \in Wifi : puts[i].at = At[f] /\ Touches(puts[i]) \subseteq Reached(f)
    BY <2>0, <2>2, <2>3, <2>5, <2>6, Zenon
  <2> QED BY <2>4, <2>5, <2>7 DEF Within
<1>2. ASSUME NEW pass \in Passwords PROVE Within(ApPuts(pass))
  <2>1. pass \in Seq(Char) /\ Len(pass) <= Limit /\ Len(pass) \in Nat /\ Limit \in Nat
    BY TextAssumption, LenProperties, LayoutIs
  <2> DEFINE p == Put("ap", Append(pass, 0))
             puts == <<p>>
  <2>0. "ap" \in Wifi
    BY DEF Wifi
  <2>2. Len(pass) < Longest("ap")
    BY <2>1 DEF Longest, Texts, DeviceFields
  <2>3. p.at = At["ap"] /\ Touches(p) \subseteq Reached("ap")
    BY <1>0, <2>0, <2>1, <2>2, TermIs
  <2>4. ApPuts(pass) = puts
    BY Zenon DEF ApPuts
  <2> HIDE DEF p
  <2>5. DOMAIN puts = 1 .. 1 /\ puts[1] = p
    OBVIOUS
  <2> HIDE DEF puts
  <2>6. \A i \in DOMAIN puts : i = 1
    BY <2>5
  <2>7. \A i \in DOMAIN puts : \E f \in Wifi : puts[i].at = At[f] /\ Touches(puts[i]) \subseteq Reached(f)
    BY <2>0, <2>3, <2>5, <2>6, Zenon
  <2> QED BY <2>4, <2>5, <2>7 DEF Within
<1> QED BY <1>1, <1>2

\* and are fine.
LEMMA WifiFine == ASSUME NEW puts, Within(puts) PROVE Fine(puts)
<1>1. \A f \in Wifi : f \in Field /\ f # "host" /\ f \notin Ports
  BY DEF Field, Ports, Wifi
<1> QED BY <1>1, Zenon DEF Within, Fine

-----------------------------------------------------------------------------
\* What a configuration holds.

\* A put into the array of a port or of the host is one of that setting.
LEMMA PutOfPort ==
  ASSUME NEW puts, Fine(puts), NEW g \in {"host"} \cup Ports,
         NEW i \in DOMAIN puts, NEW x \in Cells(g), x \in Touches(puts[i])
  PROVE  /\ puts[i].at = At[g]
         /\ g = "host" => Touches(puts[i]) \subseteq Cells(g) /\ puts[i].bytes[Size[g]] = 0
         /\ g \in Ports => \E k \in -1 .. MaxInt : puts[i].bytes = Bytes(k)
<1>1. PICK f \in Field :
        /\ puts[i].at = At[f] /\ Touches(puts[i]) \subseteq Reached(f)
        /\ f = "host" => Touches(puts[i]) \subseteq Cells(f) /\ puts[i].bytes[Size[f]] = 0
        /\ f \in Ports => \E k \in -1 .. MaxInt : puts[i].bytes = Bytes(k)
  BY Zenon DEF Fine
<1>2. f = g
  <2>1. x \in Reached(f) \cap Cells(g)
    BY <1>1
  <2> QED BY <2>1, LayoutIs, Zenon
<1> QED BY <1>1, <1>2, Zenon

\* The last byte of the host stays 0,
LEMMA HostHeld ==
  ASSUME NEW cfg \in Memory, NEW puts, Fine(puts), cfg[At["host"] + Size["host"] - 1] = 0
  PROVE  Written(cfg, puts)[At["host"] + Size["host"] - 1] = 0
<1> DEFINE x == At["host"] + Size["host"] - 1
<1>0. "host" \in Field /\ At["host"] \in Nat /\ Size["host"] \in Nat \ {0}
      /\ Cells("host") \subseteq 0 .. End - 1 /\ End \in Nat
  BY LayoutIs DEF Web, MqttFields
<1>1. x \in Cells("host") /\ x \in DOMAIN cfg
  BY <1>0 DEF Cells, Memory
<1> HIDE DEF x
<1>2. CASE x \notin Touched(puts)
  BY <1>1, <1>2, Untouched DEF x
<1>3. CASE x \in Touched(puts)
  <2> DEFINE i == Latest(puts, x)
  <2>1. i \in DOMAIN puts /\ x \in Touches(puts[i])
    <3>1. PICK n \in Nat : DOMAIN puts = 1 .. n
      BY Zenon DEF Fine
    <3> QED BY <1>3, <3>1, LatestIs
  <2>2. Written(cfg, puts)[x] = puts[i].bytes[x - puts[i].at + 1]
    BY <1>1, <1>3, TouchedIs
  <2> HIDE DEF i
  <2>3. puts[i].at = At["host"] /\ puts[i].bytes[Size["host"]] = 0
    BY <1>1, <2>1, PutOfPort
  <2>4. x - At["host"] + 1 = Size["host"]
    BY <1>0 DEF x
  <2> QED BY <2>2, <2>3, <2>4 DEF x
<1> QED BY <1>2, <1>3

\* a port is a number, whole,
LEMMA PortHeld ==
  ASSUME NEW cfg \in Memory, NEW puts, Fine(puts), NEW f \in Ports
  PROVE  \/ Own(Written(cfg, puts), f) = Own(cfg, f)
         \/ \E k \in -1 .. MaxInt : \A i \in 1 .. 4 : Own(Written(cfg, puts), f)[i] = Bytes(k)[i]
<1> DEFINE new == Written(cfg, puts)
<1>0. f \in Field /\ At[f] \in Nat /\ Size[f] = 4 /\ Cells(f) \subseteq 0 .. End - 1 /\ End \in Nat
  BY LayoutIs, LayoutAssumption DEF Ports, Web, MqttFields, MeshFields
<1>n. PICK n \in Nat : DOMAIN puts = 1 .. n
  BY Zenon DEF Fine
<1>1. CASE Cells(f) \cap Touched(puts) = {}
  BY <1>0, <1>1, OwnStays
<1>2. ASSUME NEW x \in Cells(f), x \in Touched(puts)
      PROVE  \E k \in -1 .. MaxInt : \A i \in 1 .. 4 : Own(new, f)[i] = Bytes(k)[i]
  <2>1. ASSUME NEW j \in DOMAIN puts, NEW y \in Cells(f), y \in Touches(puts[j])
        PROVE  Touches(puts[j]) = Cells(f) /\ puts[j].at = At[f] /\ \E k \in -1 .. MaxInt : puts[j].bytes = Bytes(k)
    <3>1. puts[j].at = At[f] /\ \E k \in -1 .. MaxInt : puts[j].bytes = Bytes(k)
      BY <2>1, PutOfPort
    <3>2. Len(puts[j].bytes) = 4
      BY <3>1 DEF Bytes
    <3> QED BY <1>0, <3>1, <3>2 DEF Touches, Cells
  <2> DEFINE l == Latest(puts, x)
  <2>2. /\ l \in DOMAIN puts /\ x \in Touches(puts[l])
        /\ \A j \in DOMAIN puts : x \in Touches(puts[j]) => j <= l
    BY <1>2, <1>n, LatestIs
  <2> HIDE DEF l
  <2>3. Touches(puts[l]) = Cells(f) /\ puts[l].at = At[f]
    BY <2>1, <2>2
  <2>4. PICK k \in -1 .. MaxInt : puts[l].bytes = Bytes(k)
    BY <2>1, <2>2
  <2>5. ASSUME NEW y \in Cells(f) PROVE new[y] = Bytes(k)[y - At[f] + 1]
    <3>1. y \in Touched(puts) /\ y \in DOMAIN cfg
      BY <1>0, <2>2, <2>3 DEF Touched, Memory
    <3> DEFINE m == Latest(puts, y)
    <3>2. /\ m \in DOMAIN puts /\ y \in Touches(puts[m])
          /\ \A j \in DOMAIN puts : y \in Touches(puts[j]) => j <= m
      BY <1>n, <3>1, LatestIs
    <3>3. new[y] = puts[m].bytes[y - puts[m].at + 1]
      BY <3>1, TouchedIs
    <3> HIDE DEF m, new
    <3>4. Touches(puts[m]) = Cells(f)
      BY <2>1, <3>2
    <3>5. m <= l /\ l <= m
      BY <1>2, <2>2, <2>3, <3>2, <3>4
    <3>6. m = l
      BY <1>n, <2>2, <3>2, <3>5
    <3> QED BY <2>3, <2>4, <3>3, <3>6
  <2> HIDE DEF new
  <2>6. ASSUME NEW i \in 1 .. 4 PROVE Own(new, f)[i] = Bytes(k)[i]
    <3>1. At[f] + i - 1 \in Cells(f) /\ (At[f] + i - 1) - At[f] + 1 = i
      BY <1>0 DEF Cells
    <3>2. Own(new, f)[i] = new[At[f] + i - 1]
      BY <1>0 DEF Own
    <3>3. new[At[f] + i - 1] = Bytes(k)[(At[f] + i - 1) - At[f] + 1]
      BY <2>5, <3>1
    <3> QED BY <3>1, <3>2, <3>3
  <2> QED BY <2>6
<1> QED BY <1>1, <1>2

\* Four bytes that are those of a number are read as it.
LEMMA WordSame ==
  ASSUME NEW b, NEW k \in -1 .. MaxInt, \A i \in 1 .. 4 : b[i] = Bytes(k)[i]
  PROVE  Word(b) = k
<1>1. b[1] = Bytes(k)[1] /\ b[2] = Bytes(k)[2] /\ b[3] = Bytes(k)[3] /\ b[4] = Bytes(k)[4]
  OBVIOUS
<1>2. Unsigned(b) = Unsigned(Bytes(k))
  BY <1>1, Zenon DEF Unsigned
<1>3. [i \in 1 .. 4 |-> 255 - b[i]] = [i \in 1 .. 4 |-> 255 - Bytes(k)[i]]
  OBVIOUS
<1>4. Word(b) = Word(Bytes(k))
  BY <1>1, <1>2, <1>3, Zenon DEF Word
<1> QED BY <1>4, WordRead, Zenon

\* so that what a configuration holds, whatever is set, stays.
LEMMA HeldWritten ==
  ASSUME NEW cfg \in Memory, NEW puts, Fine(puts), Held(cfg) PROVE Held(Written(cfg, puts))
<1> DEFINE new == Written(cfg, puts)
<1>1. new[End] = 0
  <2>1. End \notin Touched(puts)
    <3>1. SUFFICES ASSUME NEW i \in DOMAIN puts, End \in Touches(puts[i]) PROVE FALSE
      BY DEF Touched
    <3>2. PICK f \in Field : Touches(puts[i]) \subseteq Reached(f)
      BY Zenon DEF Fine
    <3> QED BY <3>1, <3>2, LayoutIs
  <2>2. End \in DOMAIN cfg
    BY LayoutIs DEF Memory
  <2> QED BY <2>1, <2>2, Untouched DEF Held
<1>2. new[At["host"] + Size["host"] - 1] = 0
  BY HostHeld DEF Held
<1>3. ASSUME NEW f \in Ports PROVE Word(Own(new, f)) >= -1
  <2> HIDE DEF new
  <2>1. CASE Own(new, f) = Own(cfg, f)
    BY <2>1 DEF Held
  <2>2. ASSUME NEW k \in -1 .. MaxInt, \A i \in 1 .. 4 : Own(new, f)[i] = Bytes(k)[i]
        PROVE  Word(Own(new, f)) >= -1
    <3>1. Word(Own(new, f)) = k
      BY <2>2, WordSame
    <3> QED BY <3>1, MaxIntTyped
  <2> QED BY <2>1, <2>2, PortHeld DEF new
<1> HIDE DEF new
<1>4. Held(new)
  BY <1>1, <1>2, <1>3 DEF Held
<1> QED BY <1>4 DEF new

\* The host is a text that ends in its array.
LEMMA HostWhole == ASSUME NEW cfg \in Memory, Held(cfg) PROVE Whole(cfg, "host")
<1>1. At["host"] \in Nat /\ Size["host"] \in Nat \ {0}
  BY LayoutIs DEF Web, MqttFields
<1>2. At["host"] + Size["host"] - 1 \in Cells("host")
  BY <1>1 DEF Cells
<1> QED BY <1>2 DEF Held, Whole

-----------------------------------------------------------------------------
\* The settings.

\* Nothing runs without power, and no request before the client is initialised.
OffIsOff == pc = "off" => client = NoClient

\* Both the stored configuration and the one being stored are what requests may set,
\* and there is a stored one once the client is initialised.
Holding == /\ Selected \in Config => Held(Selected)
           /\ pc # "off" => Held(sysCfg)
           /\ client # NoClient => Selected # NoHolder

\* The client's copies are those of a configuration, as far as its texts end in their
\* arrays.
Alike(cfg) == \A f \in MqttFields \cup {"mac"} :
                (f \in Texts => Whole(cfg, f)) => client[f] = Copies(cfg)[f]

\* They are those of the stored one and of the one being stored, unless the running
\* handler is about to renew them.
Agreeing == client # NoClient /\ handler.after # "client" => Alike(sysCfg) /\ Alike(Selected)

\* So are the answers.
Kept == \A f \in Web : promised[f] # Unknown =>
          /\ Selected # NoHolder /\ Own(Selected, f) = promised[f]
          /\ pc # "off" => Own(sysCfg, f) = promised[f]

\* The address in use is the one that the client's host was read as.
Peering == /\ client # NoClient => /\ DOMAIN client = MqttFields \cup {"mac"}
                                   /\ client["host"] \in Seq(Char)
           /\ peer # NoPeer => client # NoClient /\ peer = UTILS_StrToIP(client["host"])

SettingsIInv == IInv /\ OffIsOff /\ Holding /\ Agreeing /\ Kept /\ Peering

-----------------------------------------------------------------------------
\* A step of the settings is one of the store.

\* A handler finds a configuration,
LEMMA IdleConfig == ASSUME IInv, pc = "idle"
                    PROVE  sysCfg \in Config /\ sysCfg = Selected /\ sysCfg \in Memory
<1>1. sysCfg \in Config /\ sysCfg = Selected
  BY DEF IInv, InUse
<1> QED BY <1>1, SettingsAssumption, Zenon DEF Memory

\* what it makes of it is one,
LEMMA MadeConfig ==
  /\ \A cfg \in Config : cfg \in Memory
  /\ \A cfg \in Config, request \in Requests : Written(cfg, json_parse(request)) \in Config
  /\ \A cfg \in Config, net \in Networks : Written(cfg, StaPuts(net)) \in Config
  /\ \A cfg \in Config, pass \in Passwords : Written(cfg, ApPuts(pass)) \in Config
<1>1. \A cfg \in Config : cfg \in Memory
  BY SettingsAssumption DEF Memory
<1>2. \A cfg \in Config :
        /\ \A request \in Requests : Written(cfg, json_parse(request)) \in Config
        /\ \A net \in Networks : Written(cfg, StaPuts(net)) \in Config
        /\ \A pass \in Passwords : Written(cfg, ApPuts(pass)) \in Config
  BY SettingsAssumption, Zenon
<1> QED BY <1>1, <1>2, Zenon

\* and it saves that.
LEMMA SettingsStep == ASSUME IInv, [SettingsNext]_settingsVars PROVE [Next]_vars
<1>0. ASSUME NEW cfg \in Config, Change(cfg) PROVE Next
  BY <1>0 DEF Next
<1>1. ASSUME NEW request \in Requests, Post(request) PROVE Next
  <2>1. pc = "idle" /\ Change(Written(sysCfg, json_parse(request)))
    BY <1>1, Zenon DEF Post, Free
  <2> QED BY <1>0, <2>1, IdleConfig, MadeConfig, Zenon
<1>2. ASSUME NEW net \in Networks, NEW after, CFG_saveStaCfg(net, after) PROVE Next
  <2>1. pc = "idle" /\ Change(Written(sysCfg, StaPuts(net)))
    BY <1>2, Zenon DEF CFG_saveStaCfg, Free
  <2> QED BY <1>0, <2>1, IdleConfig, MadeConfig, Zenon
<1>3. ASSUME NEW pass \in Passwords, CFG_saveSoftApPass(pass) PROVE Next
  <2>1. Change(Written(sysCfg, ApPuts(pass)))
    BY <1>3, Zenon DEF CFG_saveSoftApPass
  <2>2. pc = "idle"
    BY <2>1, Zenon DEF Change
  <2> QED BY <1>0, <2>1, <2>2, IdleConfig, MadeConfig, Zenon
<1>4. CASE Started \/ Respond \/ MQTT_Connect \/ UNCHANGED settingsVars
  BY <1>4 DEF Started, Respond, MQTT_Connect, settingsVars
<1>5. CASE Flash
  BY <1>5 DEF Flash, Next
<1>6. CASE PowerFails
  BY <1>6 DEF PowerFails, Next
<1>7. QED
  BY <1>1, <1>2, <1>3, <1>4, <1>5, <1>6 DEF SettingsNext

\* The web server, Wi-Fi and esp-touch use the store as ConfigStore allows
\* (user_webserver.c:166, 290, 425 and 924-930, esp_touch.c:39): what is proved of it
\* holds for them.
THEOREM SettingsUseStore == SettingsSpec => Spec
<1>1. SettingsInit => Init
  BY DEF SettingsInit
<1>2. Init => IInv
  BY InitInvariant
<1>3. IInv /\ [SettingsNext]_settingsVars => [Next]_vars /\ IInv'
  BY SettingsStep, NextInvariant
<1>4. QED
  BY <1>1, <1>2, <1>3, PTL DEF SettingsSpec, Spec

\* Every behaviour of the settings keeps torn copies from being selected and replaces
\* the stored configuration as a whole (user_webserver.c:166, 290 and 425,
\* config.c:43-138).
THEOREM SettingsStored == SettingsSpec => []SelectedIntact /\ AtomicStore
BY SettingsUseStore, ConfigIntact, ConfigIsAtomic

-----------------------------------------------------------------------------
\* What a handler stores differs from what was stored in what it renews or answers.

\* What is copied is in bytes that only requests for it, and ones that are too long of
\* MQTT, put anew.
LEMMA CopySame ==
  ASSUME NEW cfg \in Memory, NEW new \in Memory, NEW f \in MqttFields \cup {"mac"},
         \A x \in Cells(f) : new[x] = cfg[x]
  PROVE  /\ (f \in Texts => Whole(new, f)) <=> (f \in Texts => Whole(cfg, f))
         /\ (f \in Texts => Whole(cfg, f)) => Copies(new)[f] = Copies(cfg)[f]
<1>1. f \in Field
  BY LayoutIs
<1>2. /\ Whole(new, f) <=> Whole(cfg, f)
      /\ Whole(cfg, f) => Text(new, f) = Text(cfg, f)
  BY <1>1, TextSame
<1>3. Own(new, f) = Own(cfg, f)
  <2>1. \A i \in 1 .. Size[f] : At[f] + i - 1 \in Cells(f)
    BY <1>1, LayoutIs DEF Cells
  <2>2. \A i \in 1 .. Size[f] : new[At[f] + i - 1] = cfg[At[f] + i - 1]
    BY <2>1
  <2> QED BY <2>2, Zenon DEF Own
<1>4. \A c : Copies(c)[f] = IF f \in Texts THEN Text(c, f) ELSE Own(c, f)
  BY DEF Copies
<1> QED BY <1>2, <1>3, <1>4, Zenon

\* Puts that touch none of it
Aside(puts) == \A f \in MqttFields \cup {"mac"} : Cells(f) \cap Touched(puts) = {}

\* leave the client alike,
LEMMA AlikeStays ==
  ASSUME NEW cfg \in Memory, NEW puts, Written(cfg, puts) \in Memory, Aside(puts), Alike(cfg),
         client' = client
  PROVE  \A f \in MqttFields \cup {"mac"} :
           (f \in Texts => Whole(Written(cfg, puts), f)) => client[f] = Copies(Written(cfg, puts))[f]
<1> DEFINE new == Written(cfg, puts)
<1>1. ASSUME NEW f \in MqttFields \cup {"mac"} PROVE \A x \in Cells(f) : new[x] = cfg[x]
  <2>1. f \in Field /\ Cells(f) \cap Touched(puts) = {}
    BY LayoutIs DEF Aside
  <2> QED BY <2>1, OwnStays
<1> HIDE DEF new
<1>2. new \in Memory
  BY DEF new
<1>3. ASSUME NEW f \in MqttFields \cup {"mac"}, f \in Texts => Whole(new, f)
      PROVE  client[f] = Copies(new)[f]
  BY <1>1, <1>2, <1>3, CopySame DEF Alike
<1> QED BY <1>3 DEF new

\* are those of a request without a call of onDataChangedCbFunc,
LEMMA RequestAside ==
  ASSUME NEW request \in Requests, AfterSave(request) # "client" PROVE Aside(json_parse(request))
<1> DEFINE puts == json_parse(request)
<1>1. SUFFICES ASSUME NEW g \in MqttFields \cup {"mac"}, NEW i \in DOMAIN request,
                      NEW x \in Cells(g), x \in Touches(puts[i])
               PROVE  FALSE
  <2>1. DOMAIN puts = DOMAIN request
    BY RequestIs, Zenon
  <2> HIDE DEF puts
  <2> QED BY <2>1 DEF Aside, Touched, puts
<1> DEFINE f == request[i].field
           t == request[i].text
           b == Stored(f, t)
<1>2. /\ f \in Web /\ f \in Field /\ t \in Seq(Int) /\ (f \in Texts => Len(t) <= Limit)
      /\ puts[i] = Put(f, b)
  BY RequestIs, Zenon
<1>3. f \notin MqttFields /\ (f = "mac" => ~Taken("mac", t))
  BY DEF AfterSave, Named
<1> HIDE DEF puts, f, t
<1>4. /\ Len(b) \in Nat
      /\ Len(b) <= Size[f] \/ Len(b) <= Longest(f)
      /\ f \in DeviceFields /\ ~Taken(f, t) => b = <<>>
  BY <1>2, StoredIs, Zenon
<1> HIDE DEF b
<1>5. /\ Touches(puts[i]) = At[f] .. At[f] + Len(b) - 1
      /\ Touches(puts[i]) \subseteq Reached(f)
  BY <1>2, <1>4, PutReaches
<1>6. CASE f = g
  <2>1. f = "mac" /\ f \in DeviceFields
    BY <1>3, <1>6 DEF DeviceFields
  <2>2. b = <<>>
    BY <1>3, <1>4, <2>1
  <2>3. Touches(puts[i]) = {}
    <3>1. Len(b) = 0 /\ At[f] \in Nat
      BY <1>2, <2>2, LayoutIs
    <3> QED BY <1>5, <3>1
  <2> QED BY <1>1, <2>3
<1>7. CASE f # g
  <2>1. x \in Reached(f) \cap Cells(g)
    BY <1>1, <1>5
  <2>2. f \in Field \ MqttFields
    BY <1>2, <1>3
  <2> QED BY <1>7, <2>1, <2>2, LayoutIs
<1> QED BY <1>6, <1>7

\* and of a network or a password.
LEMMA WifiAside == ASSUME NEW puts, Within(puts) PROVE Aside(puts)
<1>1. ASSUME NEW f \in Wifi, NEW g \in MqttFields \cup {"mac"} PROVE Reached(f) \cap Cells(g) = {}
  <2>1. f \in Field \ MqttFields /\ f # g
    BY DEF Wifi, Field, MqttFields
  <2> QED BY <2>1, LayoutIs
<1>2. ASSUME NEW g \in MqttFields \cup {"mac"}, NEW x \in Cells(g) \cap Touched(puts) PROVE FALSE
  <2>1. PICK i \in DOMAIN puts : x \in Touches(puts[i])
    BY DEF Touched
  <2>2. PICK f \in Wifi : Touches(puts[i]) \subseteq Reached(f)
    BY Zenon DEF Within
  <2>3. x \in Reached(f) \cap Cells(g)
    BY <2>1, <2>2
  <2> QED BY <1>1, <2>3
<1> QED BY <1>2 DEF Aside

\* The client copies a host that is a text.
LEMMA CopiesHost ==
  ASSUME NEW cfg \in Memory, Held(cfg)
  PROVE  /\ DOMAIN Copies(cfg) = MqttFields \cup {"mac"}
         /\ Copies(cfg)["host"] \in Seq(Char) /\ Copies(cfg)["host"] = Text(cfg, "host")
<1>1. "host" \in MqttFields \cup {"mac"} /\ "host" \in Texts /\ "host" \in Field
  BY LayoutIs DEF MqttFields, Texts
<1>2. Text(cfg, "host") \in Seq(Char)
  BY <1>1, HostWhole, TextTyped, Zenon
<1>3. Copies(cfg)["host"] = Text(cfg, "host")
  BY <1>1 DEF Copies
<1>4. DOMAIN Copies(cfg) = MqttFields \cup {"mac"}
  BY DEF Copies
<1> QED BY <1>2, <1>3, <1>4, Zenon

-----------------------------------------------------------------------------

LEMMA SettingsInitInvariant == SettingsInit => SettingsIInv
<1> SUFFICES ASSUME SettingsInit PROVE SettingsIInv
  OBVIOUS
<1>1. IInv
  BY InitInvariant DEF SettingsInit
<1>2. Selected = NoHolder /\ pc = "off" /\ client = NoClient /\ peer = NoPeer
  BY DEF SettingsInit, Init, Selected
<1>3. \A f \in Web : promised[f] = Unknown
  BY DEF SettingsInit
<1>4. Selected \notin Config
  BY <1>2, ConfigAssumption
<1> QED
  BY <1>1, <1>2, <1>3, <1>4, Zenon DEF SettingsIInv, OffIsOff, Holding, Agreeing, Kept, Peering

\* A handler stores what a configuration may hold, neither the client's copies nor the
\* answers that stand are in what it changes, unless it is to renew them,
LEMMA ChangeKeeps ==
  ASSUME SettingsIInv, NEW puts, Fine(puts), Written(sysCfg, puts) \in Config,
         pc = "idle", Change(Written(sysCfg, puts)), Withdrawn(puts), UNCHANGED <<client, peer>>,
         handler'.after # "client" => Aside(puts) /\ handler.after # "client"
  PROVE  OffIsOff' /\ Holding' /\ Agreeing' /\ Kept' /\ Peering'
<1> DEFINE new == Written(sysCfg, puts)
<1>0. IInv /\ Holding /\ Agreeing /\ Kept /\ Peering
  BY DEF SettingsIInv
<1>1. sysCfg \in Config /\ sysCfg = Selected /\ sysCfg \in Memory /\ new \in Memory
  BY <1>0, IdleConfig, MadeConfig, Zenon
<1>2. sysCfg' = new /\ pc' # "off" /\ Selected' = Selected
  BY DEF Change, BeginSave, Selected
<1>3. Held(sysCfg) /\ Held(new)
  <2>1. Held(sysCfg)
    BY <1>0, <1>1, Zenon DEF Holding
  <2> QED BY <1>1, <2>1, HeldWritten, Zenon
<1>4. Holding'
  BY <1>0, <1>2, <1>3 DEF Holding
<1>5. Agreeing'
  <2>1. SUFFICES ASSUME client' # NoClient, handler'.after # "client" PROVE Alike(sysCfg)' /\ Alike(Selected)'
    BY DEF Agreeing
  <2>2. Alike(sysCfg) /\ Alike(Selected) /\ Aside(puts)
    BY <1>0, <2>1 DEF Agreeing
  <2>3. \A f \in MqttFields \cup {"mac"} : (f \in Texts => Whole(new, f)) => client[f] = Copies(new)[f]
    BY <1>1, <2>2, AlikeStays
  <2> HIDE DEF new
  <2>4. Alike(sysCfg)'
    BY <1>2, <2>3 DEF Alike
  <2>5. Alike(Selected)'
    BY <1>2, <2>2 DEF Alike
  <2> QED BY <2>4, <2>5
<1>6. Kept'
  <2>1. SUFFICES ASSUME NEW f \in Web, promised'[f] # Unknown
                 PROVE  /\ Selected' # NoHolder /\ Own(Selected', f) = promised'[f]
                        /\ Own(sysCfg', f) = promised'[f]
    BY DEF Kept
  <2>2. promised'[f] = promised[f] /\ Cells(f) \cap Touched(puts) = {}
    BY <2>1 DEF Withdrawn
  <2>3. f \in Field
    BY LayoutIs
  <2>4. Own(new, f) = Own(sysCfg, f)
    BY <1>1, <2>2, <2>3, OwnStays
  <2> HIDE DEF new
  <2>5. Selected # NoHolder /\ Own(Selected, f) = promised[f]
    BY <1>0, <2>1, <2>2 DEF Kept
  <2> QED BY <1>1, <1>2, <2>2, <2>4, <2>5
<1>7. OffIsOff' /\ Peering'
  BY <1>0, <1>2 DEF OffIsOff, Peering
<1> QED BY <1>4, <1>5, <1>6, <1>7

\* as Respond and user_init do,
LEMMA RenewKeeps ==
  ASSUME SettingsIInv, pc = "idle", UNCHANGED vars, user_init_mqtt
  PROVE  OffIsOff' /\ Holding' /\ Agreeing' /\ Peering'
<1>0. IInv /\ Holding
  BY DEF SettingsIInv
<1>1. sysCfg \in Config /\ sysCfg = Selected /\ sysCfg \in Memory
  BY <1>0, IdleConfig, Zenon
<1>2. sysCfg' = sysCfg /\ pc' = pc /\ Selected' = Selected
  BY DEF vars, Selected
<1>3. client' = Copies(sysCfg) /\ peer' = NoPeer
  BY DEF user_init_mqtt
<1>4. Held(sysCfg)
  BY <1>0, <1>1, Zenon DEF Holding
<1>5. Selected # NoHolder
  BY <1>1, ConfigAssumption
<1>6. OffIsOff' /\ Holding'
  BY <1>0, <1>2, <1>5 DEF OffIsOff, Holding
<1>7. Agreeing'
  BY <1>1, <1>2, <1>3 DEF Agreeing, Alike
<1>8. Peering'
  BY <1>1, <1>3, <1>4, CopiesHost, Zenon DEF Peering
<1> QED BY <1>6, <1>7, <1>8

\* and neither flash nor power failures make another configuration.
LEMMA SettingsInvariantStep == SettingsIInv /\ [SettingsNext]_settingsVars => SettingsIInv'
<1> SUFFICES ASSUME SettingsIInv, [SettingsNext]_settingsVars PROVE SettingsIInv'
  OBVIOUS
<1>0. IInv /\ OffIsOff /\ Holding /\ Agreeing /\ Kept /\ Peering
  BY DEF SettingsIInv
<1>i. IInv'
  BY <1>0, SettingsStep, NextInvariant
<1>q. ASSUME OffIsOff', Holding', Agreeing', Kept', Peering' PROVE SettingsIInv'
  BY <1>i, <1>q DEF SettingsIInv
<1>1. CASE Started
  <2>1. pc = "idle" /\ UNCHANGED <<vars, handler, promised>> /\ user_init_mqtt
    BY <1>1 DEF Started
  <2>2. OffIsOff' /\ Holding' /\ Agreeing' /\ Peering'
    BY <2>1, RenewKeeps
  <2>3. Kept'
    BY <1>0, <2>1 DEF Kept, vars, Selected
  <2> QED BY <1>q, <2>2, <2>3
<1>2. ASSUME NEW request \in Requests, Post(request) PROVE SettingsIInv'
  <2> DEFINE puts == json_parse(request)
  <2>1. /\ pc = "idle" /\ handler = Idle /\ Change(Written(sysCfg, puts)) /\ Withdrawn(puts)
        /\ handler'.after = AfterSave(request) /\ UNCHANGED <<client, peer>>
    BY <1>2 DEF Post, Free
  <2>2. Written(sysCfg, puts) \in Config
    BY <1>0, <2>1, IdleConfig, MadeConfig, Zenon
  <2>3. Fine(puts) /\ (AfterSave(request) # "client" => Aside(puts))
    BY RequestFine, RequestAside, Zenon
  <2> HIDE DEF puts
  <2>4. handler.after # "client"
    BY <2>1 DEF Idle
  <2>5. OffIsOff' /\ Holding' /\ Agreeing' /\ Kept' /\ Peering'
    BY <2>1, <2>2, <2>3, <2>4, ChangeKeeps
  <2> QED BY <1>q, <2>5
<1>3. CASE Respond
  <2>1. /\ pc = "idle" /\ UNCHANGED vars /\ handler' = Idle
        /\ promised' = Promise(handler.fields, sysCfg)
    BY <1>3 DEF Respond
  <2>2. sysCfg = Selected /\ sysCfg \in Config
    BY <1>0, <2>1, IdleConfig, Zenon
  <2>3. Selected' = Selected /\ sysCfg' = sysCfg /\ pc' = pc
    BY <2>1 DEF vars, Selected
  <2>4. OffIsOff' /\ Holding' /\ Agreeing' /\ Peering'
    <3>1. CASE handler.after = "client"
      BY <1>3, <2>1, <3>1, RenewKeeps DEF Respond
    <3>2. CASE handler.after # "client"
      <4>1. UNCHANGED <<client, peer>>
        BY <1>3, <3>2 DEF Respond
      <4> QED BY <1>0, <2>3, <3>2, <4>1 DEF OffIsOff, Holding, Agreeing, Alike, Peering
    <3> QED BY <3>1, <3>2
  <2>5. Kept'
    <3>1. ASSUME NEW f \in Web PROVE promised'[f] = Own(sysCfg, f) \/ promised'[f] = promised[f]
      BY <2>1 DEF Promise
    <3>2. Selected # NoHolder
      BY <2>2, ConfigAssumption
    <3> QED BY <1>0, <2>2, <2>3, <3>1, <3>2 DEF Kept
  <2> QED BY <1>q, <2>4, <2>5
<1>5. ASSUME NEW puts, Within(puts), Written(sysCfg, puts) \in Config, pc = "idle",
             Change(Written(sysCfg, puts)), Withdrawn(puts), UNCHANGED <<client, peer>>,
             handler.after # "client"
      PROVE  SettingsIInv'
  <2>1. Fine(puts) /\ Aside(puts)
    BY <1>5, WifiFine, WifiAside
  <2>2. OffIsOff' /\ Holding' /\ Agreeing' /\ Kept' /\ Peering'
    BY <1>5, <2>1, ChangeKeeps
  <2> QED BY <1>q, <2>2
<1>6. ASSUME NEW net \in Networks, NEW after \in {"nothing", "softAp"}, CFG_saveStaCfg(net, after)
      PROVE SettingsIInv'
  <2> DEFINE puts == StaPuts(net)
  <2>1. /\ pc = "idle" /\ handler.after # "client" /\ Change(Written(sysCfg, puts))
        /\ Withdrawn(puts) /\ UNCHANGED <<client, peer>>
    BY <1>6 DEF CFG_saveStaCfg, Free, Idle
  <2>2. Written(sysCfg, puts) \in Config /\ Within(puts)
    BY <1>0, <2>1, IdleConfig, MadeConfig, WifiWithin, Zenon
  <2> HIDE DEF puts
  <2> QED BY <1>5, <2>1, <2>2
<1>7. ASSUME NEW pass \in Passwords, CFG_saveSoftApPass(pass) PROVE SettingsIInv'
  <2> DEFINE puts == ApPuts(pass)
  <2>1. /\ handler.after # "client" /\ Change(Written(sysCfg, puts))
        /\ Withdrawn(puts) /\ UNCHANGED <<client, peer>>
    BY <1>7 DEF CFG_saveSoftApPass, Free, Idle
  <2>2. pc = "idle"
    BY <2>1, Zenon DEF Change
  <2>3. Written(sysCfg, puts) \in Config /\ Within(puts)
    BY <1>0, <2>2, IdleConfig, MadeConfig, WifiWithin, Zenon
  <2> HIDE DEF puts
  <2> QED BY <1>5, <2>1, <2>2, <2>3
<1>8. CASE MQTT_Connect
  <2>1. /\ client # NoClient /\ UNCHANGED <<vars, client, handler, promised>>
        /\ peer' = UTILS_StrToIP(client["host"])
    BY <1>8 DEF MQTT_Connect, Free
  <2>2. Selected' = Selected /\ sysCfg' = sysCfg /\ pc' = pc
    BY <2>1 DEF vars, Selected
  <2>3. OffIsOff' /\ Holding' /\ Agreeing' /\ Kept'
    BY <1>0, <2>1, <2>2 DEF OffIsOff, Holding, Agreeing, Alike, Kept
  <2>4. Peering'
    BY <1>0, <2>1 DEF Peering
  <2> QED BY <1>q, <2>3, <2>4
<1>9. CASE Flash
  <2>1. UNCHANGED <<client, peer, handler, promised>>
    BY <1>9 DEF Flash, webVars
  <2>p. Peering'
    BY <1>0, <2>1 DEF Peering
  <2>2. CASE CFG_Load
    <3>1. pc = "off" /\ pc' # "off" /\ Selected' = Selected /\ client = NoClient
      BY <1>0, <2>2 DEF CFG_Load, BeginSave, Selected, OffIsOff
    <3>2. IF Selected = NoHolder THEN sysCfg' = Default ELSE sysCfg' = Selected
      BY <2>2 DEF CFG_Load
    <3>3. Held(sysCfg)'
      <4>1. CASE Selected = NoHolder
        BY <3>2, <4>1, SettingsAssumption
      <4>2. CASE Selected # NoHolder
        <5>1. Selected \in Config
          BY <1>0, <4>2 DEF IInv, TypeOK, Copy, SelectedIntact, Selected
        <5> QED BY <1>0, <3>2, <4>2, <5>1 DEF Holding
      <4> QED BY <4>1, <4>2
    <3>4. Holding'
      BY <1>0, <2>1, <3>1, <3>3 DEF Holding
    <3>5. Agreeing' /\ OffIsOff'
      BY <2>1, <3>1 DEF Agreeing, OffIsOff
    <3>6. Kept'
      BY <1>0, <2>1, <3>1, <3>2 DEF Kept
    <3> QED BY <1>q, <2>p, <3>4, <3>5, <3>6
  <2>3. CASE EraseCfg \/ WriteCfg \/ EraseFlag \/ WriteFlag
    <3>1. /\ Selected' \in {Selected, sysCfg} /\ sysCfg' = sysCfg
          /\ pc # "off" /\ pc' # "off" /\ sysCfg \in Config
      BY <1>0, <2>3, FlashSelects
    <3>2. sysCfg # NoHolder
      BY <3>1, ConfigAssumption
    <3>3. Holding'
      BY <1>0, <2>1, <3>1, <3>2 DEF Holding
    <3>4. Agreeing'
      BY <1>0, <2>1, <3>1 DEF Agreeing, Alike
    <3>5. Kept'
      BY <1>0, <2>1, <3>1, <3>2 DEF Kept
    <3>6. OffIsOff'
      BY <3>1 DEF OffIsOff
    <3> QED BY <1>q, <2>p, <3>3, <3>4, <3>5, <3>6
  <2> QED BY <1>9, <2>2, <2>3 DEF Flash
<1>10. CASE PowerFails
  <2>1. Selected' \in {Selected, sysCfg} /\ sysCfg \in Config /\ pc # "off" /\ pc' = "off"
    BY <1>0, <1>10, PowerSelects DEF PowerFails, PowerLoss
  <2>2. client' = NoClient /\ peer' = NoPeer /\ UNCHANGED promised
    BY <1>10 DEF PowerFails
  <2>3. Kept'
    BY <1>0, <2>1, <2>2, ConfigAssumption DEF Kept
  <2>4. OffIsOff' /\ Holding' /\ Agreeing' /\ Peering'
    BY <1>0, <2>1, <2>2 DEF OffIsOff, Holding, Agreeing, Peering
  <2> QED BY <1>q, <2>3, <2>4
<1>11. CASE UNCHANGED settingsVars
  <2>1. Selected' = Selected /\ UNCHANGED <<sysCfg, pc, client, peer, handler, promised>>
    BY <1>11 DEF settingsVars, vars, Selected
  <2>2. OffIsOff' /\ Holding' /\ Agreeing' /\ Kept' /\ Peering'
    BY <1>0, <2>1 DEF OffIsOff, Holding, Agreeing, Alike, Kept, Peering
  <2> QED BY <1>q, <2>2
<1> QED
  BY <1>1, <1>2, <1>3, <1>6, <1>7, <1>8, <1>9, <1>10, <1>11 DEF SettingsNext

LEMMA SettingsInvariant == SettingsSpec => []SettingsIInv
BY SettingsInitInvariant, SettingsInvariantStep, PTL DEF SettingsSpec

\* The client never works with settings that a restart would change, whatever
\* requests, networks and power failures come in which order, except for a text that
\* goes beyond its array (user_webserver.c:291-297 and 425-433, user_main.c:219-222).
THEOREM ClientStaysInStep == SettingsSpec => []ClientAgrees
<1>1. SettingsIInv => ClientAgrees
  <2> SUFFICES ASSUME SettingsIInv, client # NoClient, handler.after # "client"
               PROVE  /\ \A f \in DOMAIN client :
                           (f \in Texts => Whole(Selected, f)) => client[f] = Copies(Selected)[f]
                      /\ peer # NoPeer => peer = UTILS_StrToIP(Text(Selected, "host"))
    BY DEF ClientAgrees
  <2>0. IInv /\ Holding /\ Agreeing /\ Peering
    BY DEF SettingsIInv
  <2>1. DOMAIN client = MqttFields \cup {"mac"} /\ Alike(Selected)
    BY <2>0 DEF Agreeing, Peering
  <2>2. Selected \in Config
    BY <2>0 DEF IInv, TypeOK, Copy, SelectedIntact, Selected, Holding
  <2>3. Held(Selected) /\ Selected \in Memory
    BY <2>0, <2>2, MadeConfig DEF Holding
  <2>4. client["host"] = Text(Selected, "host")
    <3>1. "host" \in MqttFields \cup {"mac"} /\ Whole(Selected, "host")
      BY <2>3, HostWhole DEF MqttFields
    <3>2. Copies(Selected)["host"] = Text(Selected, "host")
      BY <2>3, CopiesHost
    <3> QED BY <2>1, <3>1, <3>2 DEF Alike
  <2> QED BY <2>0, <2>1, <2>4 DEF Alike, Peering
<1>2. QED
  BY <1>1, SettingsInvariant, PTL

\* No answered setting is lost until one of its bytes is put anew
\* (user_webserver.c:1239-1266, config.c:43-81).
THEOREM AnswersSurvive == SettingsSpec => []Survives
<1>1. SettingsIInv => Survives
  BY DEF SettingsIInv, Kept, Survives
<1>2. QED
  BY <1>1, SettingsInvariant, PTL

-----------------------------------------------------------------------------
\* What an answer shows, sent back.

\* Bytes that are put into a setting's array are its own.
LEMMA OwnPut ==
  ASSUME NEW cfg \in Memory, NEW f \in Field, NEW b, Len(b) = Size[f]
  PROVE  LET new == Written(cfg, <<Put(f, b)>>) IN
         /\ Touches(Put(f, b)) = Cells(f)
         /\ \A i \in 1 .. Size[f] : new[At[f] + i - 1] = b[i] /\ Own(new, f)[i] = b[i]
<1> DEFINE new == Written(cfg, <<Put(f, b)>>)
<1>0. At[f] \in Nat /\ Size[f] \in Nat \ {0} /\ Cells(f) \subseteq 0 .. End - 1 /\ End \in Nat
  BY LayoutIs
<1>1. /\ Put(f, b).at = At[f] /\ Put(f, b).bytes = b
      /\ Touches(Put(f, b)) = At[f] .. At[f] + Len(b) - 1
  BY <1>0, PutReaches
<1>2. Touches(Put(f, b)) = Cells(f)
  BY <1>1 DEF Cells
<1>3. ASSUME NEW i \in 1 .. Size[f] PROVE new[At[f] + i - 1] = b[i]
  <2> DEFINE x == At[f] + i - 1
  <2>1. x \in Cells(f) /\ x \in DOMAIN cfg /\ x - At[f] + 1 = i
    BY <1>0 DEF Cells, Memory
  <2> HIDE DEF x
  <2>2. new[x] = Put(f, b).bytes[x - Put(f, b).at + 1]
    BY <1>2, <2>1, OnePut
  <2> QED BY <1>1, <2>1, <2>2 DEF x
<1> HIDE DEF new
<1>4. \A i \in 1 .. Size[f] : Own(new, f)[i] = new[At[f] + i - 1]
  BY DEF Own
<1> QED BY <1>2, <1>3, <1>4 DEF new

\* One text is one put.
LEMMA OneText ==
  ASSUME NEW f, NEW t
  PROVE  json_parse(<<[field |-> f, text |-> t]>>) = <<Put(f, Stored(f, t))>>
<1> DEFINE r == <<[field |-> f, text |-> t]>>
<1>1. DOMAIN r = 1 .. 1 /\ r[1].field = f /\ r[1].text = t
  OBVIOUS
<1> HIDE DEF r
<1>2. json_parse(r) = [i \in 1 .. 1 |-> Put(r[i].field, Stored(r[i].field, r[i].text))]
  BY <1>1 DEF json_parse
<1>3. \A i \in 1 .. 1 : r[i].field = f /\ r[i].text = t
  BY <1>1
<1>4. json_parse(r) = [i \in 1 .. 1 |-> Put(f, Stored(f, t))]
  BY <1>2, <1>3
<1>5. [i \in 1 .. 1 |-> Put(f, Stored(f, t))] = <<Put(f, Stored(f, t))>>
  OBVIOUS
<1> QED BY <1>4, <1>5, Zenon DEF r

\* A text that fits an array is read from it.
LEMMA TextBack ==
  ASSUME NEW cfg \in Memory, NEW f \in Field, NEW t \in Seq(Char), Len(t) < Size[f]
  PROVE  /\ Touches(Put(f, Zeroed(f, t))) = Cells(f)
         /\ Text(Written(cfg, <<Put(f, Zeroed(f, t))>>), f) = t
<1> DEFINE b == Zeroed(f, t)
           new == Written(cfg, <<Put(f, b)>>)
           n == Len(t)
<1>0. At[f] \in Nat /\ Size[f] \in Nat \ {0} /\ Cells(f) \subseteq 0 .. End - 1 /\ End \in Nat
  BY LayoutIs
<1>1. t \in Seq(Int) /\ n \in Nat /\ n < Size[f] /\ t \in [1 .. n -> Char]
  BY TextIs, LenProperties
<1>2. Len(b) = Size[f] /\ (\A i \in 1 .. n : b[i] = t[i]) /\ \A i \in n + 1 .. Size[f] : b[i] = 0
  BY <1>1, ZeroedIs
<1> HIDE DEF b, n
<1>3. /\ Touches(Put(f, b)) = Cells(f)
      /\ \A i \in 1 .. Size[f] : new[At[f] + i - 1] = b[i]
  BY <1>2, OwnPut
<1> HIDE DEF new
<1>4. \A i \in 1 .. n : new[At[f] + i - 1] = t[i]
  <2>1. ASSUME NEW i \in 1 .. n PROVE new[At[f] + i - 1] = t[i]
    <3>1. i \in 1 .. Size[f]
      BY <1>0, <1>1
    <3> QED BY <1>2, <1>3, <3>1, Zenon
  <2> QED BY <2>1
<1>5. Ends(new, f, n)
  <2>1. new[At[f] + n] = 0
    <3>1. n + 1 \in 1 .. Size[f] /\ n + 1 \in n + 1 .. Size[f] /\ At[f] + (n + 1) - 1 = At[f] + n
      BY <1>0, <1>1
    <3>2. new[At[f] + (n + 1) - 1] = 0
      BY <1>2, <1>3, <3>1
    <3> QED BY <3>1, <3>2
  <2>2. ASSUME NEW i \in 0 .. n - 1 PROVE new[At[f] + i] # 0
    <3>1. i + 1 \in 1 .. n /\ At[f] + (i + 1) - 1 = At[f] + i
      BY <1>0, <1>1
    <3>2. new[At[f] + (i + 1) - 1] = t[i + 1] /\ t[i + 1] \in Char
      BY <1>1, <1>4, <3>1
    <3>3. \A c \in Char : c # 0
      BY DEF Char
    <3> QED BY <3>1, <3>2, <3>3, Zenon
  <2> QED BY <2>1, <2>2 DEF Ends
<1>6. Text(new, f) = t
  <2> DEFINE c == CHOOSE m \in 0 .. End - At[f] : Ends(new, f, m)
  <2>1. n \in 0 .. End - At[f]
    <3>1. At[f] + Size[f] - 1 \in Cells(f)
      BY <1>0 DEF Cells
    <3>2. At[f] + Size[f] - 1 \in 0 .. End - 1
      BY <1>0, <3>1
    <3> QED BY <1>0, <1>1, <3>2
  <2>2. c \in 0 .. End - At[f] /\ Ends(new, f, c)
    BY <1>5, <2>1, Zenon
  <2>3. Text(new, f) = [i \in 1 .. c |-> new[At[f] + i - 1]]
    BY Zenon DEF Text
  <2> HIDE DEF c
  <2>4. c = n
    <3>1. c \in Nat
      BY <1>0, <2>2
    <3> QED BY <1>1, <1>5, <2>2, <3>1, EndsOnce
  <2>5. [i \in 1 .. n |-> new[At[f] + i - 1]] = [i \in 1 .. n |-> t[i]]
    BY <1>4, Zenon
  <2>6. [i \in 1 .. n |-> t[i]] = t
    BY <1>1
  <2> QED BY <2>3, <2>4, <2>5, <2>6, Zenon
<1> QED BY <1>3, <1>6 DEF new, b

\* The text of each answer sets what is shown again, and no byte of another setting.
LEMMA HeldReads ==
  ASSUME NEW cfg \in Memory, Held(cfg), Proper(cfg), NEW f \in Web \ {"meshSSID"}
  PROVE  /\ Get(Set(cfg, f, Get(cfg, f)), f) = Get(cfg, f)
         /\ Touched(json_parse(<<[field |-> f, text |-> Get(cfg, f)]>>)) \subseteq Cells(f)
<1> DEFINE t == Get(cfg, f)
           b == Stored(f, t)
           new == Written(cfg, <<Put(f, b)>>)
<1>0. f \in Field /\ At[f] \in Nat /\ Size[f] \in Nat \ {0} /\ Cells(f) \subseteq 0 .. End - 1 /\ End \in Nat
  BY LayoutIs
<1>1. json_parse(<<[field |-> f, text |-> t]>>) = <<Put(f, b)>>
  BY OneText, Zenon
<1>2. Set(cfg, f, t) = new
  BY <1>1, Zenon DEF Set
<1>3. ASSUME NEW p PROVE Touched(<<p>>) = Touches(p)
  <2> DEFINE puts == <<p>>
  <2>1. DOMAIN puts = 1 .. 1 /\ puts[1] = p
    OBVIOUS
  <2> HIDE DEF puts
  <2>2. Touched(puts) = Touches(p)
    BY <2>1 DEF Touched
  <2> QED BY <2>2 DEF puts
<1>q. ASSUME Get(new, f) = t, Touches(Put(f, b)) \subseteq Cells(f)
      PROVE  /\ Get(Set(cfg, f, Get(cfg, f)), f) = Get(cfg, f)
             /\ Touched(json_parse(<<[field |-> f, text |-> Get(cfg, f)]>>)) \subseteq Cells(f)
  BY <1>1, <1>2, <1>3, <1>q, Zenon
<1> HIDE DEF t, b, new
<1>o. \A i \in 1 .. Size[f] : Own(cfg, f)[i] = cfg[At[f] + i - 1] /\ Own(cfg, f)[i] \in 0 .. 255
  <2>1. ASSUME NEW i \in 1 .. Size[f]
        PROVE  Own(cfg, f)[i] = cfg[At[f] + i - 1] /\ Own(cfg, f)[i] \in 0 .. 255
    <3>1. At[f] + i - 1 \in Cells(f) /\ At[f] + i - 1 \in 0 .. End
      BY <1>0 DEF Cells
    <3> QED BY <3>1 DEF Own, Memory
  <2> QED BY <2>1
<1>4. CASE f \in Texts
  <2>1. Whole(cfg, f)
    BY <1>4 DEF Proper
  <2>2. \A c : Get(c, f) = Text(c, f)
    <3>1. f # "port" /\ f # "security" /\ f # "meshId" /\ f # "enable" /\ f # "server_port"
      BY <1>4 DEF Texts, DeviceFields
    <3> QED BY <3>1, Zenon DEF Get, mqtt_info_get, device_cfg_get, mesh_config_get
  <2>3. t \in Seq(Char) /\ Len(t) < Size[f]
    BY <1>0, <2>1, <2>2, TextTyped, Zenon DEF t
  <2>4. b = Zeroed(f, t)
    <3>1. f # "meshSSID" /\ f # "port" /\ f # "security" /\ f # "meshId" /\ f # "enable" /\ f # "server_port"
      BY <1>4 DEF Texts, DeviceFields
    <3>2. Taken(f, t)
      BY <2>3 DEF Taken
    <3> QED BY <3>1, <3>2, Zenon DEF b, Stored, mqtt_info_set, device_cfg_set, mesh_config_set
  <2>5. Touches(Put(f, b)) = Cells(f) /\ Text(new, f) = t
    BY <1>0, <2>3, <2>4, TextBack DEF new
  <2> QED BY <1>q, <2>2, <2>5
<1>5. CASE f \in Ports
  <2> DEFINE w == Word(Own(cfg, f))
  <2>1. Size[f] = 4 /\ f \notin DeviceFields /\ (f = "port" <=> f \in MqttFields)
        /\ (f # "port" => f = "server_port")
    BY <1>5, LayoutAssumption DEF Ports, DeviceFields, MqttFields
  <2>2. w \in -1 .. MaxInt
    <3>1. Own(cfg, f) \in [1 .. 4 -> 0 .. 255]
      BY <1>o, <2>1 DEF Own
    <3>2. w \in Int /\ w <= MaxInt
      BY <3>1, WordBelow
    <3>3. w >= -1
      BY <1>5, Zenon DEF Held
    <3> QED BY <3>2, <3>3, MaxIntTyped
  <2>3. \A c : Get(c, f) = Decimal[Word(Own(c, f))]
    BY <1>5, <2>1, Zenon DEF Get, mqtt_info_get, mesh_config_get
  <2>4. b = Bytes(Atoi(t)) /\ t = Decimal[w]
    <3>1. b = Bytes(Atoi(t))
      <4>1. f = "port" => b = Bytes(Atoi(t))
        BY <2>1, Zenon DEF b, Stored, mqtt_info_set
      <4>2. f = "server_port" => b = Bytes(Atoi(t))
        <5>1. f = "server_port" => f \notin MqttFields /\ f \notin DeviceFields /\ f # "meshId" /\ f # "meshSSID" /\ f # "enable"
          BY DEF MqttFields, DeviceFields
        <5> QED BY <5>1, Zenon DEF b, Stored, mesh_config_set
      <4> QED BY <2>1, <4>1, <4>2, Zenon
    <3> QED BY <2>3, <3>1, Zenon DEF t
  <2> HIDE DEF w
  <2>5. w \in Nat \cup {-1}
    BY <2>2, MaxIntTyped
  <2>6. b = Bytes(w) /\ Len(b) = 4
    <3>1. b = Bytes(w)
      BY <2>4, <2>5, DecimalRead, Zenon
    <3> QED BY <3>1 DEF Bytes
  <2>7. Touches(Put(f, b)) = Cells(f) /\ \A i \in 1 .. 4 : Own(new, f)[i] = b[i]
    <3>1. Len(b) = Size[f]
      BY <2>1, <2>6, Zenon
    <3>2. Touches(Put(f, b)) = Cells(f) /\ \A i \in 1 .. Size[f] : Own(new, f)[i] = b[i]
      BY <1>0, <3>1, OwnPut DEF new
    <3> QED BY <2>1, <3>2, Zenon
  <2>8. Word(Own(new, f)) = w
    BY <2>2, <2>6, <2>7, WordSame
  <2> QED BY <1>q, <2>3, <2>4, <2>7, <2>8
<1>6. CASE f \in {"security", "enable"}
  <2> DEFINE s == cfg[At[f]]
  <2>1. Size[f] = 1
    BY <1>6, LayoutAssumption
  <2>2. s \in 0 .. 255
    <3>1. At[f] \in Cells(f)
      BY <1>0 DEF Cells
    <3> QED BY <1>0, <3>1 DEF Memory
  <2>3. ASSUME NEW z, b = <<z>> PROVE Touches(Put(f, b)) = Cells(f) /\ new[At[f]] = z
    <3>1. Len(b) = Size[f] /\ b[1] = z
      BY <2>1, <2>3
    <3>2. Touches(Put(f, b)) = Cells(f) /\ \A i \in 1 .. Size[f] : new[At[f] + i - 1] = b[i]
      BY <1>0, <3>1, OwnPut DEF new
    <3>3. 1 \in 1 .. Size[f] /\ At[f] + 1 - 1 = At[f]
      BY <1>0, <2>1
    <3> QED BY <3>1, <3>2, <3>3
  <2> HIDE DEF s
  <2>4. CASE f = "security"
    <3>1. \A c : Get(c, f) = Decimal[c[At[f]]]
      BY <2>4 DEF Get, mqtt_info_get, MqttFields
    <3>2. b = <<Atoi(t) % 256>> /\ t = Decimal[s]
      BY <2>4, <3>1 DEF b, Stored, mqtt_info_set, MqttFields, t, s
    <3>3. Atoi(t) = s
      BY <2>2, <3>2, DecimalRead
    <3>4. b = <<s>>
      BY <2>2, <3>2, <3>3
    <3> QED BY <1>q, <2>3, <3>1, <3>2, <3>4
  <2>5. CASE f = "enable"
    <3>1. \A c : Get(c, f) = <<IF c[At[f]] # 0 THEN Zero + 1 ELSE Zero>>
      BY <2>5 DEF Get, mesh_config_get, MqttFields, DeviceFields
    <3>2. b = <<IF t # <<>> /\ t[1] = Zero + 1 THEN 1 ELSE 0>>
      BY <2>5 DEF b, Stored, mesh_config_set, MqttFields, DeviceFields
    <3>3. t = <<IF s # 0 THEN Zero + 1 ELSE Zero>>
      BY <3>1, Zenon DEF t, s
    <3>4. CASE s # 0
      <4>1. t = <<Zero + 1>>
        BY <3>3, <3>4
      <4>2. b = <<1>>
        BY <3>2, <4>1 DEF Zero
      <4>3. new[At[f]] = 1
        BY <2>3, <4>2
      <4> QED BY <1>q, <2>3, <3>1, <4>1, <4>2, <4>3
    <3>5. CASE s = 0
      <4>1. t = <<Zero>>
        BY <3>3, <3>5
      <4>2. b = <<0>>
        BY <3>2, <4>1 DEF Zero
      <4>3. new[At[f]] = 0
        BY <2>3, <4>2
      <4> QED BY <1>q, <2>3, <3>1, <4>1, <4>2, <4>3
    <3> QED BY <3>4, <3>5
  <2> QED BY <1>6, <2>4, <2>5
<1>7. CASE f = "meshId"
  <2>1. Size[f] = 6
    BY <1>7, LayoutAssumption
  <2>2. Own(cfg, f) \in [1 .. 6 -> 0 .. 255]
    BY <1>o, <2>1 DEF Own
  <2>3. \A c : Get(c, f) = ID6TOSTR(Own(c, f))
    BY <1>7 DEF Get, mesh_config_get, MqttFields, DeviceFields
  <2>4. t = ID6TOSTR(Own(cfg, f))
    BY <2>3, Zenon DEF t
  <2>5. b = IF Len(t) = MacText THEN str_mac_to_byte_mac(t) ELSE <<>>
    BY <1>7 DEF b, Stored, mesh_config_set, MqttFields, DeviceFields
  <2>6. b = Own(cfg, f)
    BY <2>2, <2>4, <2>5, MacRead, Zenon
  <2>7. Len(b) = 6
    BY <2>2, <2>6, IsSequence
  <2>8. Touches(Put(f, b)) = Cells(f) /\ \A i \in 1 .. 6 : Own(new, f)[i] = b[i]
    <3>1. Len(b) = Size[f]
      BY <2>1, <2>7, Zenon
    <3>2. Touches(Put(f, b)) = Cells(f) /\ \A i \in 1 .. Size[f] : Own(new, f)[i] = b[i]
      BY <1>0, <3>1, OwnPut DEF new
    <3> QED BY <2>1, <3>2, Zenon
  <2>9. Own(new, f) = Own(cfg, f)
    <3>1. \A c : Own(c, f) = [i \in 1 .. 6 |-> c[At[f] + i - 1]]
      BY <2>1 DEF Own
    <3>2. \A c : \A i \in 1 .. 6 : Own(c, f)[i] = c[At[f] + i - 1]
      BY <3>1
    <3>3. \A i \in 1 .. 6 : new[At[f] + i - 1] = cfg[At[f] + i - 1]
      BY <2>6, <2>8, <3>2, Zenon
    <3> QED BY <3>1, <3>3, Zenon
  <2> QED BY <1>q, <2>3, <2>4, <2>8, <2>9, Zenon
<1> QED BY <1>4, <1>5, <1>6, <1>7 DEF Web, Texts, Ports, MqttFields, DeviceFields, MeshFields

\* The page of the settings, sent back unchanged, shows itself again, whatever requests
\* set them, as long as its texts end in their arrays and the answer shows them whole;
\* the MeshSSID alone is not of it.  And the client connects to the address that its
\* host spells, if it spells one, and else to a name (user_webserver.c:74-98, 107-166,
\* 182-216, 225-300, 344-375 and 384-424, config.c:199-289, utils.c:91-127).
THEOREM SettingsReadBack == SettingsSpec => []ReadsBack
<1>1. SettingsIInv => ReadsBack
  <2> SUFFICES ASSUME SettingsIInv PROVE ReadsBack
    OBVIOUS
  <2>0. IInv /\ Holding /\ Peering
    BY DEF SettingsIInv
  <2>1. ASSUME Free, Proper(sysCfg), NEW f \in Web \ {"meshSSID"}
        PROVE  /\ Get(Set(sysCfg, f, Get(sysCfg, f)), f) = Get(sysCfg, f)
               /\ Touched(json_parse(<<[field |-> f, text |-> Get(sysCfg, f)]>>)) \subseteq Cells(f)
    <3>1. pc = "idle"
      BY <2>1 DEF Free
    <3>2. sysCfg \in Memory /\ Held(sysCfg)
      BY <2>0, <3>1, IdleConfig DEF Holding
    <3> QED BY <2>1, <3>2, HeldReads, Zenon
  <2>2. ASSUME peer # NoPeer PROVE {peer} \ {<<>>} = Spelt(client["host"])
    BY <2>0, <2>2, AddressRead, Zenon DEF Peering
  <2> QED BY <2>1, <2>2, Zenon DEF ReadsBack
<1>2. QED
  BY <1>1, SettingsInvariant, PTL
=============================================================================
