-------------------------- MODULE ByteParserProofs ----------------------------
(***************************************************************************)
(* Proofs about ByteParser, for every set of inputs.                       *)
(*                                                                         *)
(* The inductive invariant says how the commands lie in the input (they    *)
(* abut, in order, each as long as its header says) and that the loop has  *)
(* no choice: every way to cut the input has a cut at offset.              *)
(* With it, every step of the loop is a step of ByteTarget or none.        *)
(***************************************************************************)
EXTENDS ByteParser, TLAPS

\* Where the commands start, and where the next one does.
CutPoints == {commands[i][1] : i \in 1..Len(commands)} \cup {offset}

\* The commands lie next to each other, from the first byte of the input on.
CommandsAbut ==
  \A i \in 1..Len(commands) :
    commands[i][1] = IF i = 1 THEN 0 ELSE commands[i - 1][2]

\* At most one command per kHeaderLen bytes.
LoopBounded == kHeaderLen * Len(commands) <= offset

\* Each command starts with a header that states its length, ends by offset,
\* and ends before the later ones start.
CommandsInOrder ==
  \A i \in 1..Len(commands) :
    /\ Starts(data, commands[i][1])
    /\ commands[i][2] = commands[i][1] + Length(data, commands[i][1])
    /\ commands[i][2] <= offset
    /\ \A j \in (i + 1)..Len(commands) : commands[i][2] <= commands[j][1]

OffsetIsLastEnd ==
  offset = IF commands = << >> THEN 0 ELSE commands[Len(commands)][2]

\* Every way to cut the input has a cut at offset.
CutIsForced ==
  \A C \in SUBSET Places(data) : Splits(data, C) => offset \in C

PhaseOK ==
  /\ sent > 0 => pc = "send"
  /\ pc = "send" => offset = size
  /\ pc = "rejected" => offset < size /\ BadHeader(data, offset)

IInv ==
  /\ TypeOK
  /\ CommandsInOrder
  /\ CommandsAbut
  /\ OffsetIsLastEnd
  /\ LoopBounded
  /\ CutIsForced
  /\ PhaseOK

-----------------------------------------------------------------------------

LEMMA ConstantsAre ==
  kHeaderLen = 10 /\ kHeaderTagLen = 2
BY DEF kHeaderLen, kHeaderTagLen, kHeaderCommandSizeLen, kHeaderCommandCodeLen

\* Two bytes of the input are a natural number.
LEMMA Read16Type ==
  ASSUME NEW d \in Seq(Byte), NEW i \in Nat, i >= 1, i + 1 <= Len(d)
  PROVE  Read16(d, i) \in Nat
<1>1. d[i] \in Nat /\ d[i + 1] \in Nat
  BY DEF Byte
<1> QED
  BY <1>1 DEF Read16

\* A size field read inside the input is a natural number.
LEMMA LengthType ==
  ASSUME NEW d \in Seq(Byte), NEW o \in Nat, o + kHeaderLen <= Len(d)
  PROVE  Length(d, o) \in Nat
<1>1. Read16(d, o + kHeaderTagLen + 1) \in Nat
  BY ConstantsAre, Read16Type
<1>2. Read16(d, o + kHeaderTagLen + 3) \in Nat
  BY ConstantsAre, Read16Type
<1> QED
  BY <1>1, <1>2 DEF Length

\* A header the loop does not return at is one where a command may start.
LEMMA GoodHeaderStarts ==
  ASSUME NEW d \in Seq(Byte), NEW o \in 0..Len(d)
  PROVE  Starts(d, o) <=> ~ BadHeader(d, o)
<1>1. CASE o + kHeaderLen <= Len(d)
  <2>1. Length(d, o) \in Nat
    BY <1>1, LengthType
  <2> QED
    BY <1>1, <2>1, ConstantsAre DEF Starts, BadHeader
<1>2. CASE ~ (o + kHeaderLen <= Len(d))
  BY <1>2 DEF Starts, BadHeader
<1> QED
  BY <1>1, <1>2

\* Before the first command is cut.
NothingCut ==
  /\ data \in Seq(Byte)
  /\ offset = 0 /\ commands = << >> /\ sent = 0
  /\ pc \in {"idle", "parse"}

\* Then the invariant holds.
LEMMA NothingCutIsFine == NothingCut => IInv
<1> SUFFICES ASSUME NothingCut
             PROVE  IInv
  OBVIOUS
<1> USE DEF NothingCut
<1>1. TypeOK
  BY DEF TypeOK, size
<1>2. CommandsInOrder /\ CommandsAbut /\ OffsetIsLastEnd
  BY DEF CommandsInOrder, CommandsAbut, OffsetIsLastEnd
<1>3. LoopBounded
  BY ConstantsAre DEF LoopBounded
<1>4. CutIsForced
  BY DEF CutIsForced, Splits
<1>5. PhaseOK
  BY DEF PhaseOK
<1> QED
  BY <1>1, <1>2, <1>3, <1>4, <1>5 DEF IInv

\* Cutting one more command keeps the invariant.
LEMMA CutKeepsInvariant ==
  ASSUME IInv, Cut
  PROVE  IInv'
<1> DEFINE L == Length(data, offset)
<1> DEFINE c == <<offset, offset + L>>
<1> DEFINE n == Len(commands)
<1>1. /\ data \in Seq(Byte) /\ offset \in 0..size /\ Len(data) \in Nat
      /\ offset \in Nat
      /\ commands \in Seq((0..size) \X (0..size)) /\ n \in Nat
      /\ sent \in 0..n
  BY DEF IInv, TypeOK, size
<1>2. Starts(data, offset)
  BY <1>1, GoodHeaderStarts DEF Cut, size
<1>3. L \in Nat /\ L >= 10 /\ offset + L <= Len(data)
  BY <1>1, <1>2, LengthType, ConstantsAre DEF Starts
<1>4. /\ pc = "parse" /\ pc' = pc /\ data' = data /\ sent' = sent
      /\ size' = size /\ offset' = offset + L
      /\ commands' = Append(commands, c)
  BY DEF Cut, size
<1>5. c \in (0..size) \X (0..size)
  BY <1>1, <1>3 DEF size
<1> HIDE DEF L
<1>6. /\ commands' \in Seq((0..size) \X (0..size))
      /\ Len(commands') = n + 1
      /\ \A i \in 1..n : commands'[i] = commands[i]
      /\ commands'[n + 1] = c
  BY <1>1, <1>4, <1>5
<1>7. c[1] = offset /\ c[2] = offset + L
  OBVIOUS
<1> HIDE DEF c
<1>8. \A i \in 1..n : commands[i][1] \in Nat /\ commands[i][2] \in Nat
  BY <1>1 DEF size
<1>9. TypeOK'
  BY <1>1, <1>3, <1>4, <1>6 DEF TypeOK, size
<1>10. CommandsInOrder'
  <2> SUFFICES ASSUME NEW i \in 1..(n + 1)
               PROVE  /\ Starts(data, commands'[i][1])
                      /\ commands'[i][2] =
                           commands'[i][1] + Length(data, commands'[i][1])
                      /\ commands'[i][2] <= offset'
                      /\ \A j \in (i + 1)..(n + 1) :
                           commands'[i][2] <= commands'[j][1]
    BY <1>4, <1>6 DEF CommandsInOrder
  <2>1. CASE i = n + 1
    <3>1. \A j \in (i + 1)..(n + 1) : FALSE
      BY <2>1, <1>1
    <3>2. commands'[i][2] = commands'[i][1] + Length(data, commands'[i][1])
      BY <2>1, <1>6, <1>7 DEF L
    <3>3. Starts(data, commands'[i][1]) /\ commands'[i][2] <= offset'
      BY <2>1, <1>1, <1>2, <1>3, <1>4, <1>6, <1>7
    <3> QED
      BY <3>1, <3>2, <3>3
  <2>2. CASE i \in 1..n
    <3>1. /\ Starts(data, commands[i][1])
          /\ commands[i][2] = commands[i][1] + Length(data, commands[i][1])
          /\ commands[i][2] <= offset
          /\ \A j \in (i + 1)..n : commands[i][2] <= commands[j][1]
      BY <2>2 DEF IInv, CommandsInOrder
    <3>2. commands[i][2] <= offset + L
      BY <3>1, <2>2, <1>1, <1>3, <1>8
    <3>3. ASSUME NEW j \in (i + 1)..(n + 1)
          PROVE  commands[i][2] <= commands'[j][1]
      <4>1. CASE j = n + 1
        BY <4>1, <3>1, <1>6, <1>7
      <4>2. CASE j # n + 1
        <5>1. n \in Nat /\ i \in Nat /\ j \in Nat
          BY <2>2, <1>1
        <5>2. j <= n /\ i < j
          BY <5>1, <4>2, <2>2
        <5>3. j \in (i + 1)..n /\ j \in 1..n
          BY <5>1, <5>2, <2>2
        <5> QED
          BY <5>3, <3>1, <1>6
      <4> QED
        BY <4>1, <4>2
    <3> QED
      BY <2>2, <3>1, <3>2, <3>3, <1>4, <1>6
  <2> QED
    BY <1>1, <2>1, <2>2
<1>11. CommandsAbut'
  <2>1. ASSUME NEW i \in 1..(n + 1)
        PROVE  commands'[i][1] = IF i = 1 THEN 0 ELSE commands'[i - 1][2]
    <3>1. CASE i \in 1..n
      <4>1. commands[i][1] = IF i = 1 THEN 0 ELSE commands[i - 1][2]
        BY <3>1 DEF IInv, CommandsAbut
      <4>2. i # 1 => i - 1 \in 1..n
        BY <3>1, <1>1
      <4> QED
        BY <3>1, <4>1, <4>2, <1>6
    <3>2. CASE i = n + 1
      <4>1. offset = IF commands = << >> THEN 0 ELSE commands[n][2]
        BY DEF IInv, OffsetIsLastEnd
      <4>2. (commands = << >>) <=> (i = 1)
        BY <3>2, <1>1
      <4>3. i # 1 => i - 1 = n /\ n \in 1..n
        BY <3>2, <1>1
      <4> QED
        BY <3>2, <4>1, <4>2, <4>3, <1>6, <1>7
    <3> QED
      BY <3>1, <3>2, <1>1
  <2> QED
    BY <2>1, <1>6 DEF CommandsAbut
<1>12. OffsetIsLastEnd'
  <2>1. commands' # << >>
    BY <1>1, <1>6
  <2> QED
    BY <2>1, <1>4, <1>6, <1>7 DEF OffsetIsLastEnd
<1>13. LoopBounded'
  <2>1. 10 * n <= offset
    BY ConstantsAre DEF IInv, LoopBounded
  <2> QED
    BY <2>1, <1>1, <1>3, <1>4, <1>6, ConstantsAre DEF LoopBounded
<1>14. CutIsForced'
  <2> SUFFICES ASSUME NEW C \in SUBSET Places(data), Splits(data, C)
               PROVE  offset + L \in C
    BY <1>4 DEF CutIsForced, Places, Splits, Starts, Length
  <2>1. offset \in C
    BY DEF IInv, CutIsForced
  <2>2. offset # Len(data)
    BY <1>1, <1>3
  <2> QED
    BY <2>1, <2>2 DEF Splits, L
<1>15. PhaseOK'
  BY <1>1, <1>4 DEF IInv, PhaseOK
<1> QED
  BY <1>9, <1>10, <1>11, <1>12, <1>13, <1>14, <1>15 DEF IInv

\* The actions that leave the input and its commands alone.
LEMMA RestKeepsInvariant ==
  ASSUME IInv, UNCHANGED <<data, offset, commands>>,
         sent' \in 0..Len(commands), pc' \in {"idle", "parse", "rejected", "send"},
         PhaseOK'
  PROVE  IInv'
<1>1. TypeOK'
  BY DEF IInv, TypeOK, size
<1>2. CommandsInOrder' /\ CommandsAbut' /\ OffsetIsLastEnd'
  BY DEF IInv, CommandsInOrder, CommandsAbut, OffsetIsLastEnd, Starts, Length
<1>3. LoopBounded' /\ CutIsForced'
  BY DEF IInv, LoopBounded, CutIsForced, Places, Splits, Starts, Length
<1> QED
  BY <1>1, <1>2, <1>3 DEF IInv

\* Every step keeps the invariant.
LEMMA NextKeepsInvariant ==
  ASSUME IInv, [Next]_vars
  PROVE  IInv'
<1> USE DEF IInv, TypeOK, PhaseOK
<1>1. CASE Begin
  <2>1. data' \in Seq(Byte)
    BY <1>1, InputAssumption DEF Begin
  <2>2. NothingCut'
    BY <1>1, <2>1 DEF Begin, NothingCut
  <2>3. NothingCut' => IInv'
    BY NothingCutIsFine, PTL
  <2> QED
    BY <2>2, <2>3
<1>2. CASE Reject
  BY <1>2, RestKeepsInvariant DEF Reject, BadHeader, Length, size
<1>3. CASE Cut
  BY <1>3, CutKeepsInvariant
<1>4. CASE Accept
  BY <1>4, RestKeepsInvariant DEF Accept, size
<1>5. CASE Send
  BY <1>5, RestKeepsInvariant DEF Send, size
<1>6. CASE Finish
  <2>1. NothingCut'
    BY <1>6 DEF Finish, NothingCut
  <2>2. NothingCut' => IInv'
    BY NothingCutIsFine, PTL
  <2> QED
    BY <2>1, <2>2
<1>7. CASE UNCHANGED vars
  BY <1>7, RestKeepsInvariant DEF vars, BadHeader, Length, size
<1> QED
  BY <1>1, <1>2, <1>3, <1>4, <1>5, <1>6, <1>7 DEF Next, Target

\* The invariant holds of every behaviour.
THEOREM Invariance == Spec => []IInv
<1>1. Init => IInv
  <2>1. Init => NothingCut
    BY DEF Init, NothingCut
  <2> QED
    BY <2>1, NothingCutIsFine
<1>2. IInv /\ [Next]_vars => IInv'
  BY NextKeepsInvariant
<1> QED
  BY <1>1, <1>2, PTL DEF Spec

-----------------------------------------------------------------------------

\* The offset never leaves the input, whatever its size fields say
\* (byte_parser.cc:18-34).
THEOREM TypeCorrectness == Spec => []TypeOK
<1>1. IInv => TypeOK
  BY DEF IInv
<1> QED
  BY <1>1, Invariance, PTL

\* The loop cuts at most size / kHeaderLen commands, so it ends
\* (byte_parser.cc:17-39).
THEOREM LoopEnds == Spec => []LoopBounded
<1>1. IInv => LoopBounded
  BY DEF IInv
<1> QED
  BY <1>1, Invariance, PTL

\* The commands cut, with the offset, are a way to cut the input once the
\* offset has reached its end.
LEMMA CutsAreASplit ==
  ASSUME IInv, offset = size
  PROVE  CutPoints \subseteq Places(data) /\ Splits(data, CutPoints)
<1> DEFINE n == Len(commands)
<1>1. /\ data \in Seq(Byte) /\ Len(data) \in Nat /\ n \in Nat
      /\ commands \in Seq((0..size) \X (0..size)) /\ offset = Len(data)
  BY DEF IInv, TypeOK, size
<1>2. \A i \in 1..n : /\ commands[i][1] \in 0..Len(data)
                      /\ commands[i][2] \in 0..Len(data)
  BY <1>1 DEF size
<1>3. \A i \in 1..n :
        /\ Starts(data, commands[i][1])
        /\ commands[i][2] = commands[i][1] + Length(data, commands[i][1])
        /\ \A j \in (i + 1)..n : commands[i][2] <= commands[j][1]
  BY DEF IInv, CommandsInOrder
<1>4. \A i \in 1..n : commands[i][1] < commands[i][2]
  <2> SUFFICES ASSUME NEW i \in 1..n
               PROVE  commands[i][1] < commands[i][2]
    OBVIOUS
  <2>1. Length(data, commands[i][1]) \in Nat
    BY <1>1, <1>2, <1>3, LengthType DEF Starts
  <2>2. Length(data, commands[i][1]) >= 10
    BY <1>3, ConstantsAre DEF Starts
  <2> QED
    BY <2>1, <2>2, <1>2, <1>3
<1>5. CutPoints \subseteq Places(data)
  BY <1>1, <1>2, <1>3 DEF CutPoints, Places
<1>6. {0, Len(data)} \subseteq CutPoints
  <2>1. Len(data) \in CutPoints
    BY <1>1 DEF CutPoints
  <2>2. CASE commands = << >>
    BY <2>1, <2>2, <1>1 DEF IInv, OffsetIsLastEnd
  <2>3. CASE commands # << >>
    <3>1. 1 \in 1..n
      BY <2>3, <1>1
    <3> QED
      BY <2>1, <3>1 DEF IInv, CommandsAbut, CutPoints
  <2> QED
    BY <2>1, <2>2, <2>3
<1>7. ASSUME NEW o \in CutPoints \ {Len(data)}
      PROVE  /\ o + Length(data, o) \in CutPoints
             /\ \A p \in CutPoints : p <= o \/ o + Length(data, o) <= p
  <2>1. PICK i \in 1..n : o = commands[i][1]
    BY <1>1 DEF CutPoints
  <2>2. o + Length(data, o) = commands[i][2]
    BY <2>1, <1>3
  <2>3. commands[i][2] \in CutPoints
    <3>1. CASE i = n
      <4>1. commands # << >>
        BY <2>1, <1>1
      <4> QED
        BY <3>1, <4>1 DEF IInv, OffsetIsLastEnd, CutPoints
    <3>2. CASE i # n
      <4>1. i + 1 \in 1..n /\ i + 1 # 1 /\ (i + 1) - 1 = i
        BY <3>2, <2>1, <1>1
      <4>2. commands[i + 1][1] = commands[i][2]
        BY <4>1 DEF IInv, CommandsAbut
      <4> QED
        BY <4>1, <4>2 DEF CutPoints
    <3> QED
      BY <3>1, <3>2
  <2>4. ASSUME NEW p \in CutPoints
        PROVE  p <= o \/ commands[i][2] <= p
    <3>1. CASE p = offset
      BY <3>1, <1>1, <1>2, <2>1
    <3>2. CASE p # offset
      <4>1. PICK j \in 1..n : p = commands[j][1]
        BY <3>2 DEF CutPoints
      <4>2. CASE j = i
        BY <4>1, <4>2, <2>1, <1>2
      <4>3. CASE j < i
        <5>1. i \in (j + 1)..n
          BY <4>3, <4>1, <2>1, <1>1
        <5>2. commands[j][2] <= commands[i][1]
          BY <5>1, <4>1, <1>3
        <5> QED
          BY <5>2, <4>1, <2>1, <1>2, <1>4
      <4>4. CASE i < j
        <5>1. j \in (i + 1)..n
          BY <4>4, <4>1, <2>1, <1>1
        <5> QED
          BY <5>1, <4>1, <2>1, <1>3
      <4> QED
        BY <4>2, <4>3, <4>4, <4>1, <2>1, <1>1
    <3> QED
      BY <3>1, <3>2
  <2> QED
    BY <2>2, <2>3, <2>4
<1> QED
  BY <1>5, <1>6, <1>7 DEF Splits

-----------------------------------------------------------------------------
(* The refinement.                                                         *)

\* ByteTarget reads headers as ByteParser does.
LEMMA SameHeaders ==
  /\ \A d, o : Abstract!Length(d, o) = Length(d, o)
  /\ \A d, o : Abstract!Starts(d, o) <=> Starts(d, o)
BY DEF Abstract!Length, Abstract!Read16, Abstract!kHeaderTagLen, Abstract!kHeaderLen,
       Abstract!kHeaderCommandSizeLen, Abstract!kHeaderCommandCodeLen, Abstract!Starts,
       Length, Read16, kHeaderTagLen, kHeaderLen, kHeaderCommandSizeLen,
       kHeaderCommandCodeLen, Starts

\* And so cuts an input in the same ways.
LEMMA SameCuts ==
  /\ \A d : Abstract!Places(d) = Places(d)
  /\ \A d, C : Abstract!Splits(d, C) <=> Splits(d, C)
<1>1. \A d : Abstract!Places(d) = Places(d)
  BY SameHeaders DEF Abstract!Places, Places
<1>2. \A d, C : Abstract!Splits(d, C) <=> Splits(d, C)
  BY SameHeaders DEF Abstract!Splits, Splits
<1> QED
  BY <1>1, <1>2

\* An input whose next header is bad cannot be cut into commands in any way.
LEMMA BadHeaderHasNoCut ==
  ASSUME IInv, offset < size, BadHeader(data, offset)
  PROVE  ~ Abstract!IsString(data)
<1> SUFFICES ASSUME NEW C \in SUBSET Places(data), Splits(data, C)
             PROVE  FALSE
  BY SameCuts DEF Abstract!IsString
<1>1. data \in Seq(Byte) /\ offset \in 0..Len(data) /\ offset # Len(data)
  BY DEF IInv, TypeOK, size
<1>2. offset \in C
  BY DEF IInv, CutIsForced
<1>3. Starts(data, offset)
  BY <1>1, <1>2 DEF Places
<1> QED
  BY <1>1, <1>3, GoodHeaderStarts

\* The commands that are complete are the ones their start points cut the input
\* into.
LEMMA CommandsAreThoseOfTheCut ==
  ASSUME IInv, offset = size
  PROVE  Abstract!AreCommands(commands, data, CutPoints)
<1>1. {commands[i][1] : i \in 1..Len(commands)} \cup {Len(data)} = CutPoints
  BY DEF CutPoints, size
<1>2. \A i \in 1..Len(commands) :
        /\ commands[i][2] = commands[i][1] + Length(data, commands[i][1])
        /\ \A j \in (i + 1)..Len(commands) : commands[i][2] <= commands[j][1]
  BY DEF IInv, CommandsInOrder
<1> QED
  BY <1>1, <1>2, SameHeaders DEF Abstract!AreCommands

\* Every step is one of ByteTarget, or leaves what it sees alone.
LEMMA StepRefines ==
  ASSUME IInv, [Next]_vars
  PROVE  [Abstract!Next]_(Abstract!vars)
<1> USE DEF Abstract!vars
<1>1. CASE Begin
  BY <1>1 DEF Begin, Abstract!Next, Abstract!Begin
<1>2. CASE Reject
  <2>1. ~ Abstract!IsString(data)
    BY <1>2, BadHeaderHasNoCut DEF Reject
  <2> QED
    BY <1>2, <2>1 DEF Reject, Abstract!Next, Abstract!Reject
<1>3. CASE Cut
  BY <1>3 DEF Cut
<1>4. CASE Accept
  <2>1. offset = size
    BY <1>4 DEF Accept, IInv, TypeOK, size
  <2>2. CutPoints \in SUBSET Places(data) /\ Splits(data, CutPoints)
    BY <2>1, CutsAreASplit
  <2>3. Abstract!AreCommands(commands, data, CutPoints)
    BY <2>1, CommandsAreThoseOfTheCut
  <2>4. pc = "parse" /\ pc' = "send" /\ UNCHANGED <<data, commands, sent>>
    BY <1>4 DEF Accept
  <2> QED
    BY <2>2, <2>3, <2>4, SameCuts DEF Abstract!Next, Abstract!Accept
<1>5. CASE Send
  BY <1>5 DEF Send, Abstract!Next, Abstract!Send
<1>6. CASE Finish
  BY <1>6 DEF Finish, Abstract!Next, Abstract!Finish
<1>7. CASE UNCHANGED vars
  BY <1>7 DEF vars
<1> QED
  BY <1>1, <1>2, <1>3, <1>4, <1>5, <1>6, <1>7 DEF Next, Target

\* An input is rejected exactly if it cannot be cut into commands, and what is
\* sent is that cut (byte_parser.cc:17-41, fuzzer.cc:23-42).
THEOREM Refinement == Spec => ImplementsByteTarget
<1>1. Init => Abstract!Init
  BY DEF Init, Abstract!Init
<1>2. IInv /\ [Next]_vars => [Abstract!Next]_(Abstract!vars)
  BY StepRefines
<1> QED
  BY <1>1, <1>2, Invariance, PTL DEF Spec, ImplementsByteTarget, Abstract!Spec
==============================================================================
