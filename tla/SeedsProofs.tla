------------------------------ MODULE SeedsProofs ------------------------------
(***************************************************************************)
(* Proofs about Seeds: whatever sequences of commands the seeds are made   *)
(* of, the byte fuzzer's parser cuts a file where its commands end, and    *)
(* the structure-aware fuzzer is given the messages of its commands.       *)
(*                                                                         *)
(* The bytes of a seed are joined by FlattenSeq, which goes along the      *)
(* sequence; what is said of every seed is said of each of its first       *)
(* commands, and a first command of which it were false leads to one       *)
(* before it (LeastNumber).                                                *)
(***************************************************************************)
EXTENDS Seeds, MarshalProofs
LOCAL INSTANCE SequencesExt

-----------------------------------------------------------------------------
(* FlattenSeq.                                                             *)

\* The function that FlattenSeq chooses: what is joined so far.
IsFlat(f, t, n) ==
  f = [i \in 1..n |-> IF i = 1 THEN t[i] ELSE f[i - 1] \o t[i]]

\* What such a function has at one place.
JoinsAt(f, t, i) == f[i] = IF i = 1 THEN t[i] ELSE f[i - 1] \o t[i]

\* The function that FlattenSeq chooses joins at every place.
LEMMA IsFlatAt ==
  ASSUME NEW f, NEW t, NEW n, IsFlat(f, t, n), NEW i \in 1..n
  PROVE  JoinsAt(f, t, i)
<1> DEFINE h == [j \in 1..n |-> IF j = 1 THEN t[j] ELSE f[j - 1] \o t[j]]
<1>1. f = h
  BY DEF IsFlat
<1>2. h[i] = IF i = 1 THEN t[i] ELSE f[i - 1] \o t[i]
  OBVIOUS
<1> HIDE DEF h
<1> QED
  BY <1>1, <1>2 DEF JoinsAt

\* There is such a function for the first elements of every sequence, however many.
LEMMA FlatExists ==
  ASSUME NEW S, NEW t \in Seq(Seq(S)), NEW n \in 0..Len(t)
  PROVE  \E f \in [1..n -> Seq(S)] : IsFlat(f, t, n)
<1> DEFINE Bad == {k \in 0..Len(t) : ~ \E f \in [1..k -> Seq(S)] : IsFlat(f, t, k)}
<1>1. SUFFICES ASSUME Bad # {} PROVE FALSE
  OBVIOUS
<1>2. PICK k \in Bad : \A j \in Bad : k <= j
  <2>1. Bad \subseteq Nat
    OBVIOUS
  <2> HIDE DEF Bad
  <2> QED
    BY <1>1, <2>1, LeastNumber
<1>3. k # 0
  <2>1. SUFFICES ASSUME k = 0 PROVE FALSE
    OBVIOUS
  <2>2. [i \in 1..0 |-> << >>] \in [1..k -> Seq(S)]
    BY <2>1
  <2>3. IsFlat([i \in 1..0 |-> << >>], t, k)
    BY <2>1 DEF IsFlat
  <2> QED
    BY <2>2, <2>3
<1>4. k - 1 \in 0..Len(t) /\ k - 1 \notin Bad
  <2>1. k \in 0..Len(t) /\ Len(t) \in Nat
    OBVIOUS
  <2>2. k - 1 \in 0..Len(t) /\ k - 1 < k
    BY <1>3, <2>1
  <2> HIDE DEF Bad
  <2> QED
    BY <1>2, <2>1, <2>2
<1>5. PICK f \in [1..(k - 1) -> Seq(S)] : IsFlat(f, t, k - 1)
  BY <1>4
<1> DEFINE g == [i \in 1..k |-> IF i < k THEN f[i] ELSE IF k = 1 THEN t[1] ELSE f[k - 1] \o t[k]]
<1>6. t[k] \in Seq(S) /\ k \in Nat /\ k >= 1
  BY <1>2, <1>3
<1>7. g \in [1..k -> Seq(S)]
  <2>1. k # 1 => f[k - 1] \in Seq(S) /\ f[k - 1] \o t[k] \in Seq(S)
    BY <1>6, <1>5
  <2>2. ASSUME NEW i \in 1..k PROVE g[i] \in Seq(S)
    BY <1>5, <1>6, <2>1
  <2> QED
    BY <2>2
<1>8. \A i \in 1..(k - 1) : f[i] = IF i = 1 THEN t[i] ELSE f[i - 1] \o t[i]
  <2> HIDE DEF Bad
  <2>1. IsFlat(f, t, k - 1)
    BY <1>5
  <2>2. \A i \in 1..(k - 1) : JoinsAt(f, t, i)
    BY <2>1, IsFlatAt
  <2> QED
    BY <2>2 DEF JoinsAt
<1>9. \A i \in 1..k : g[i] = IF i = 1 THEN t[i] ELSE g[i - 1] \o t[i]
  <2>1. ASSUME NEW i \in 1..k PROVE g[i] = IF i = 1 THEN t[i] ELSE g[i - 1] \o t[i]
    <3>1. CASE i < k
      <4>1. i \in 1..(k - 1) /\ i \in 1..k /\ (i # 1 => i - 1 \in 1..k /\ i - 1 < k)
        BY <1>6, <3>1
      <4>2. g[i] = f[i] /\ (i # 1 => g[i - 1] = f[i - 1])
        BY <3>1, <4>1
      <4> HIDE DEF g
      <4> QED
        BY <1>8, <4>1, <4>2
    <3>2. CASE i = k /\ k = 1
      BY <1>6, <3>2
    <3>3. CASE i = k /\ k # 1
      <4>1. k \in 1..k /\ k - 1 \in 1..k /\ k - 1 < k
        BY <1>6, <3>3
      <4>2. ~ (k < k) /\ k # 1
        BY <1>6, <3>3
      <4>3. g[k] = f[k - 1] \o t[k]
        BY <4>1, <4>2
      <4>4. g[k - 1] = f[k - 1]
        BY <4>1
      <4> HIDE DEF g
      <4> QED
        BY <4>3, <4>4, <3>3
    <3> QED
      BY <1>6, <3>1, <3>2, <3>3
  <2> HIDE DEF g
  <2> QED
    BY <2>1
<1>10. IsFlat(g, t, k)
  <2> HIDE DEF g
  <2> QED
    BY <1>7, <1>9 DEF IsFlat
<1> QED
  BY <1>2, <1>7, <1>10

\* What FlattenSeq returns is the last value of such a function.
LEMMA FlattenIs ==
  ASSUME NEW t, Len(t) # 0
  PROVE  FlattenSeq(t) = (CHOOSE f : IsFlat(f, t, Len(t)))[Len(t)]
  BY Zenon DEF FlattenSeq, IsFlat

\* Two sequences have the same first elements.
Agree(f, g, m) == \A i \in 1..m : f[i] = g[i]

\* Two such functions agree where what they join does.
LEMMA FlatUnique ==
  ASSUME NEW f, NEW g, NEW t, NEW u, NEW m \in Nat, NEW n \in Nat, m <= n,
         IsFlat(f, t, n), IsFlat(g, u, m), Agree(t, u, m)
  PROVE  Agree(f, g, m)
<1> DEFINE Bad == {i \in 1..m : f[i] # g[i]}
<1>1. SUFFICES ASSUME Bad # {} PROVE FALSE
  BY DEF Agree
<1>2. PICK k \in Bad : \A j \in Bad : k <= j
  <2>1. Bad \subseteq Nat
    OBVIOUS
  <2> HIDE DEF Bad
  <2> QED
    BY <1>1, <2>1, LeastNumber
<1>3. k \in 1..m /\ f[k] # g[k]
  OBVIOUS
<1>4. /\ f[k] = IF k = 1 THEN t[k] ELSE f[k - 1] \o t[k]
      /\ g[k] = IF k = 1 THEN u[k] ELSE g[k - 1] \o u[k]
  <2>1. k \in 1..n
    BY <1>3
  <2>2. JoinsAt(f, t, k) /\ JoinsAt(g, u, k)
    BY <1>3, <2>1, IsFlatAt
  <2> QED
    BY <2>2 DEF JoinsAt
<1>5. t[k] = u[k] /\ k # 1
  BY <1>3, <1>4 DEF Agree
<1>6. k - 1 \in 1..m /\ k - 1 < k
  BY <1>3, <1>5
<1>7. k - 1 \notin Bad
  <2>1. \A j \in Bad : k <= j /\ j \in Nat /\ k \in Nat
    BY <1>2
  <2> HIDE DEF Bad
  <2> QED
    BY <1>6, <2>1
<1>8. f[k - 1] = g[k - 1]
  BY <1>6, <1>7
<1> QED
  BY <1>3, <1>4, <1>5, <1>8

\* What FlattenSeq makes of the first elements of a sequence.
LEMMA Flattened ==
  ASSUME NEW S, NEW t \in Seq(Seq(S))
  PROVE  LET Upto(k) == FlattenSeq([i \in 1..k |-> t[i]]) IN
         /\ Upto(0) = << >>
         /\ \A k \in 1..Len(t) :
              Upto(k) \in Seq(S) /\ Upto(k) = Upto(k - 1) \o t[k]
<1> DEFINE Part(k) == [i \in 1..k |-> t[i]]
           Upto(k) == FlattenSeq(Part(k))
<1>0. Len(t) \in Nat /\ DOMAIN t = 1..Len(t) /\ \A k \in 1..Len(t) : t[k] \in Seq(S)
  OBVIOUS
<1>1. \A k \in 0..Len(t) : Part(k) \in Seq(Seq(S)) /\ Len(Part(k)) = k
  BY <1>0
<1>2. Upto(0) = << >>
  <2>1. Part(0) = << >> /\ Len(Part(0)) = 0
    BY <1>1
  <2> HIDE DEF Part
  <2> QED
    BY <2>1 DEF FlattenSeq
<1>3. PICK f \in [1..Len(t) -> Seq(S)] : IsFlat(f, t, Len(t))
  BY FlatExists
<1>4. ASSUME NEW k \in 1..Len(t) PROVE Upto(k) = f[k]
  <2> DEFINE g == CHOOSE h : IsFlat(h, Part(k), k)
  <2>1. k \in 0..Len(t) /\ k # 0 /\ k \in Nat /\ k <= Len(t) /\ k \in 1..k
    BY <1>0
  <2>2. Part(k) \in Seq(Seq(S)) /\ Len(Part(k)) = k
    BY <1>1, <2>1
  <2>3. \A i \in 1..k : Part(k)[i] = t[i]
    OBVIOUS
  <2> HIDE DEF Part
  <2>4. k \in 0..Len(Part(k))
    BY <2>1, <2>2
  <2>5. \E h : IsFlat(h, Part(k), k)
    BY <2>2, <2>4, FlatExists
  <2>6. IsFlat(g, Part(k), k)
    BY <2>5, Zenon
  <2>7. Upto(k) = g[k]
    BY <2>1, <2>2, FlattenIs
  <2> HIDE DEF g
  <2>8. Agree(f, g, k)
    <3>1. Agree(t, Part(k), k)
      BY <2>3 DEF Agree
    <3>2. IsFlat(f, t, Len(t)) /\ Len(t) \in Nat
      BY <1>0, <1>3
    <3> QED
      BY <2>1, <2>6, <3>1, <3>2, FlatUnique
  <2> QED
    BY <2>1, <2>7, <2>8 DEF Agree
<1>5. ASSUME NEW k \in 1..Len(t)
      PROVE  Upto(k) \in Seq(S) /\ Upto(k) = Upto(k - 1) \o t[k]
  <2> HIDE DEF Part, Upto
  <2>1. Upto(k) = f[k] /\ f[k] \in Seq(S)
    BY <1>3, <1>4
  <2>2. f[k] = IF k = 1 THEN t[k] ELSE f[k - 1] \o t[k]
    <3>1. IsFlat(f, t, Len(t))
      BY <1>3
    <3>2. JoinsAt(f, t, k)
      BY <3>1, IsFlatAt
    <3> QED
      BY <3>2 DEF JoinsAt
  <2>3. CASE k = 1
    <3>1. t[k] \in Seq(S)
      BY <1>0
    <3>2. << >> \o t[k] = t[k]
      BY <3>1
    <3> QED
      BY <1>2, <2>1, <2>2, <2>3, <3>2
  <2>4. CASE k # 1
    <3>1. k - 1 \in 1..Len(t)
      BY <1>0, <2>4
    <3> QED
      BY <1>4, <2>1, <2>2, <2>4, <3>1
  <2> QED
    BY <2>3, <2>4
<1> QED
  BY <1>2, <1>5

Octets == 0..255

-----------------------------------------------------------------------------
(* The bytes of a command.                                                 *)

\* A number is written in bytes, whatever it is.
LEMMA BeIs ==
  ASSUME NEW n \in Int, NEW width \in 1..4
  PROVE  Be(width, n) \in Seq(Octets) /\ Len(Be(width, n)) = width
<1>1. \A i \in 1..4 : Weights[i] \in Nat \ {0}
  BY SMT DEF Weights
<1>2. \A i \in 1..width : 4 - width + i \in 1..4
  OBVIOUS
<1>3. ASSUME NEW i \in 1..width
      PROVE  (n \div Weights[4 - width + i]) % 256 \in Octets
  <2> DEFINE w == Weights[4 - width + i]
  <2>1. w \in Nat \ {0}
    BY <1>1, <1>2
  <2> HIDE DEF w
  <2> DEFINE q == n \div w
  <2>2. q \in Int
    BY <2>1
  <2> HIDE DEF q
  <2>3. q % 256 \in Octets
    BY <2>2 DEF Octets
  <2> QED
    BY <2>3 DEF q, w
<1> QED
  BY <1>3 DEF Be

\* The size field is read back as the size that was written: there is room for
\* it in four bytes.
LEMMA SizeReadsBack ==
  ASSUME NEW n \in Nat, n \div 16777216 < 256
  PROVE  65536 * (256 * Be(4, n)[1] + Be(4, n)[2]) + (256 * Be(4, n)[3] + Be(4, n)[4]) = n
<1> DEFINE b == Be(4, n)
<1>1. /\ b[1] = (n \div 16777216) % 256
      /\ b[2] = (n \div 65536) % 256
      /\ b[3] = (n \div 256) % 256
      /\ b[4] = (n \div 1) % 256
  BY SMT DEF Be, Weights
<1>2. 65536 * (256 * ((n \div 16777216) % 256) + ((n \div 65536) % 256))
        + (256 * ((n \div 256) % 256) + ((n \div 1) % 256)) = n
  BY SMT
<1> HIDE DEF b
<1>3. 65536 * (256 * b[1] + b[2]) + (256 * b[3] + b[4]) = n
  BY <1>1, <1>2, SMT
<1> QED
  BY <1>3, SMT DEF b

\* Every command has a code, and every code is a number.
LEMMA CodesAreNumbers ==
  ASSUME NEW x \in DOMAIN CommandCodes
  PROVE  CommandCodes[x] \in Int
  BY SMT DEF CommandCodes

\* A command is its header and its parameters, and its size is in the header.
LEMMA CommandIs ==
  ASSUME NEW c, IsPackable(c)
  PROVE  LET b == CommandBytes(c) IN
         /\ b \in Seq(Octets)
         /\ Len(b) = CommandSize(c)
         /\ CommandSize(c) \in Nat /\ CommandSize(c) >= 10
         /\ 65536 * (256 * b[3] + b[4]) + (256 * b[5] + b[6]) = CommandSize(c)
<1> DEFINE tag == Spell(2, Tag(c))
           size == Be(4, CommandSize(c))
           code == Spell(4, c.class)
           params == Params(c)
<1>1. params \in Seq(Octets)
  BY SMT DEF IsPackable, Octets
<1>2. CommandSize(c) = 10 + Len(params) /\ Len(params) \in Nat
  BY <1>1 DEF CommandSize
<1>3. tag \in Seq(Octets) /\ Len(tag) = 2
  <2>1. Tag(c) \in {"SESSIONS", "NO_SESSIONS"}
    BY SMT DEF IsPackable
  <2>2. Algorithms["SESSIONS"] \in Int /\ Algorithms["NO_SESSIONS"] \in Int
    BY DEF Algorithms
  <2>3. tag = Be(2, Algorithms[Tag(c)])
    BY DEF Spell
  <2>4. Algorithms[Tag(c)] \in Int
    BY <2>1, <2>2
  <2> QED
    BY <2>3, <2>4, BeIs
<1>4. size \in Seq(Octets) /\ Len(size) = 4
  BY <1>2, BeIs
<1>5. code \in Seq(Octets) /\ Len(code) = 4
  <2>1. c.class \in DOMAIN CommandCodes
    BY SMT DEF IsPackable
  <2>2. code = Be(4, CommandCodes[c.class])
    BY <2>1 DEF Spell
  <2> QED
    BY <2>1, <2>2, CodesAreNumbers, BeIs
<1>6. 65536 * (256 * size[1] + size[2]) + (256 * size[3] + size[4]) = CommandSize(c)
  <2>1. CommandSize(c) \div 16777216 < 256
    BY SMT DEF IsPackable
  <2> QED
    BY <1>2, <2>1, SizeReadsBack, SMT
<1>7. CommandBytes(c) = tag \o size \o code \o params
  BY DEF CommandBytes
<1> HIDE DEF tag, size, code, params
<1> DEFINE head == tag \o size
<1>8. tag \in Seq(Octets) /\ size \in Seq(Octets) /\ code \in Seq(Octets)
  BY <1>3, <1>4, <1>5
<1>9. /\ head \in Seq(Octets) /\ Len(head) = Len(tag) + Len(size)
      /\ \A i \in 1..Len(size) : head[Len(tag) + i] = size[i]
  BY <1>8
<1> HIDE DEF head
<1> DEFINE front == head \o code
<1>10. /\ front \in Seq(Octets) /\ Len(front) = Len(head) + Len(code)
       /\ \A i \in 1..Len(head) : front[i] = head[i]
  <2>1. head \in Seq(Octets)
    BY <1>9
  <2> QED
    BY <1>8, <2>1
<1> HIDE DEF front
<1> DEFINE b == front \o params
<1>11. /\ b \in Seq(Octets) /\ Len(b) = Len(front) + Len(params)
       /\ \A i \in 1..Len(front) : b[i] = front[i]
  <2>1. front \in Seq(Octets)
    BY <1>10
  <2> QED
    BY <1>1, <2>1
<1>12. CommandBytes(c) = b
  BY <1>7 DEF head, front
<1> HIDE DEF b
<1>13. Len(head) = 6 /\ Len(front) = 10 /\ Len(b) = 10 + Len(params)
  BY <1>3, <1>4, <1>5, <1>9, <1>10, <1>11
<1>14. b[3] = size[1] /\ b[4] = size[2] /\ b[5] = size[3] /\ b[6] = size[4]
  <2>1. \A i \in 1..4 : head[2 + i] = size[i]
    BY <1>3, <1>4, <1>9
  <2>2. \A i \in 1..6 : b[i] = head[i]
    BY <1>10, <1>11, <1>13
  <2> QED
    BY <2>1, <2>2
<1> QED
  BY <1>2, <1>6, <1>11, <1>12, <1>13, <1>14

-----------------------------------------------------------------------------
(* The bytes of a seed.                                                    *)

\* The bytes of the first commands of a seed.
Joined(s, k) == _serialize_sequence(SubSeq(s, 1, k))

\* A seed's bytes are the bytes of its commands, joined.
LEMMA SerializedIs ==
  ASSUME NEW s
  PROVE  _serialize_sequence(s) = FlattenSeq([i \in DOMAIN s |-> CommandBytes(s[i])])
  BY Zenon DEF _serialize_sequence

\* What a seed is known to be.
LEMMA SeedIs ==
  ASSUME NEW s \in SeedSequences
  PROVE  /\ Len(s) \in Nat /\ DOMAIN s = 1..Len(s)
         /\ s = [i \in 1..Len(s) |-> s[i]]
         /\ SubSeq(s, 1, Len(s)) = s
         /\ \A i \in 1..Len(s) : IsPackable(s[i])
<1>1. s \in Seq({s[i] : i \in DOMAIN s}) /\ \A i \in DOMAIN s : IsPackable(s[i])
  BY SeedAssumption
<1> DEFINE C == {s[i] : i \in DOMAIN s}
<1>2. s \in Seq(C)
  BY <1>1
<1> HIDE DEF C
<1>3. Len(s) \in Nat /\ DOMAIN s = 1..Len(s)
  BY <1>2
<1>4. s = [i \in 1..Len(s) |-> s[i]]
  BY <1>2
<1>5. SubSeq(s, 1, Len(s)) = s
  BY <1>2
<1> QED
  BY <1>1, <1>3, <1>4, <1>5

\* Command by command, the bytes of a seed are added at the end.
LEMMA JoinedIs ==
  ASSUME NEW s \in SeedSequences
  PROVE  /\ Joined(s, 0) = << >>
         /\ \A k \in 1..Len(s) :
              /\ Joined(s, k) \in Seq(Octets)
              /\ Joined(s, k) = Joined(s, k - 1) \o CommandBytes(s[k])
<1> DEFINE t == [i \in 1..Len(s) |-> CommandBytes(s[i])]
           Upto(k) == FlattenSeq([i \in 1..k |-> t[i]])
<1>1. Len(s) \in Nat /\ DOMAIN s = 1..Len(s)
      /\ \A i \in 1..Len(s) : CommandBytes(s[i]) \in Seq(Octets)
  BY SeedIs, CommandIs
<1>2. t \in Seq(Seq(Octets)) /\ Len(t) = Len(s)
  BY <1>1
<1>3. ASSUME NEW k \in 0..Len(s) PROVE Joined(s, k) = Upto(k)
  <2>1. SubSeq(s, 1, k) = [i \in 1..k |-> s[i]]
    BY <1>1
  <2> DEFINE p == [i \in 1..k |-> s[i]]
  <2>2. DOMAIN p = 1..k /\ \A i \in 1..k : p[i] = s[i] /\ t[i] = CommandBytes(s[i])
    BY <1>1
  <2>3. Joined(s, k) = FlattenSeq([i \in DOMAIN p |-> CommandBytes(p[i])])
    BY <2>1, SerializedIs DEF Joined
  <2> HIDE DEF p, t
  <2>4. [i \in DOMAIN p |-> CommandBytes(p[i])] = [i \in 1..k |-> t[i]]
    BY <2>2
  <2> QED
    BY <2>3, <2>4
<1>4. /\ Upto(0) = << >>
      /\ \A k \in 1..Len(t) : Upto(k) \in Seq(Octets) /\ Upto(k) = Upto(k - 1) \o t[k]
  <2> HIDE DEF t
  <2> QED
    BY <1>2, Flattened
<1>5. \A k \in 1..Len(s) : t[k] = CommandBytes(s[k])
  OBVIOUS
<1> HIDE DEF t, Upto
<1>6. Joined(s, 0) = << >>
  BY <1>1, <1>3, <1>4
<1>7. ASSUME NEW k \in 1..Len(s)
      PROVE  Joined(s, k) \in Seq(Octets) /\ Joined(s, k) = Joined(s, k - 1) \o CommandBytes(s[k])
  <2>1. k \in 0..Len(s) /\ k - 1 \in 0..Len(s) /\ k \in 1..Len(t)
    BY <1>1, <1>2
  <2> QED
    BY <1>3, <1>4, <1>5, <2>1
<1> QED
  BY <1>6, <1>7

\* One sequence of bytes starts with another.
IsPrefixAt(a, b) == Len(a) <= Len(b) /\ \A p \in 1..Len(a) : b[p] = a[p]

\* The bytes of the first commands are where they are in any longer part of the
\* seed.
LEMMA JoinedIsPrefix ==
  ASSUME NEW s \in SeedSequences, NEW k \in 1..Len(s), NEW n \in k..Len(s)
  PROVE  IsPrefixAt(Joined(s, k), Joined(s, n))
<1> DEFINE Bad == {m \in k..Len(s) : ~ IsPrefixAt(Joined(s, k), Joined(s, m))}
<1>0. Len(s) \in Nat
  BY SeedIs
<1>1. SUFFICES ASSUME Bad # {} PROVE FALSE
  OBVIOUS
<1>2. PICK m \in Bad : \A j \in Bad : m <= j
  <2>1. Bad \subseteq Nat
    BY <1>0
  <2> HIDE DEF Bad
  <2> QED
    BY <1>1, <2>1, LeastNumber
<1>3. m \in k..Len(s) /\ ~ IsPrefixAt(Joined(s, k), Joined(s, m))
  OBVIOUS
<1>4. m # k
  BY <1>3 DEF IsPrefixAt
<1>5. m - 1 \in k..Len(s) /\ m \in 1..Len(s) /\ m - 1 \in 1..Len(s) /\ m - 1 < m
  BY <1>0, <1>3, <1>4
<1>6. IsPrefixAt(Joined(s, k), Joined(s, m - 1))
  <2>1. m - 1 \notin Bad
    <3>1. \A j \in Bad : m <= j
      BY <1>2
    <3> HIDE DEF Bad
    <3> QED
      BY <1>0, <1>5, <3>1
  <2> QED
    BY <1>5, <2>1
<1> DEFINE a == Joined(s, k)
           b == Joined(s, m - 1)
           c == CommandBytes(s[m])
<1>7. a \in Seq(Octets) /\ b \in Seq(Octets) /\ Joined(s, m) = b \o c
  BY <1>5, JoinedIs
<1>8. c \in Seq(Octets)
  BY <1>5, SeedIs, CommandIs
<1> HIDE DEF a, b, c
<1>9. IsPrefixAt(a, b \o c)
  <2>1. Len(a) \in Nat /\ Len(b) \in Nat /\ Len(a) <= Len(b) /\ \A p \in 1..Len(a) : b[p] = a[p]
    BY <1>6, <1>7 DEF IsPrefixAt, a, b
  <2>2. Len(b \o c) = Len(b) + Len(c) /\ Len(c) \in Nat
    BY <1>7, <1>8
  <2>3. \A p \in 1..Len(b) : (b \o c)[p] = b[p]
    BY <1>7, <1>8
  <2> QED
    BY <2>1, <2>2, <2>3 DEF IsPrefixAt
<1> QED
  BY <1>3, <1>7, <1>9 DEF a

\* In the bytes of a seed every command starts where the one before it ends, and
\* its header says where it ends itself.
LEMMA CommandsCut ==
  ASSUME NEW s \in SeedSequences, NEW k \in 1..Len(s)
  PROVE  LET d == _serialize_sequence(s)
             from == Len(Joined(s, k - 1))
             to == Len(Joined(s, k))
         IN ~ BadHeader(d, from) /\ Length(d, from) = to - from
<1> DEFINE d == _serialize_sequence(s)
           a == Joined(s, k - 1)
           b == Joined(s, k)
           c == CommandBytes(s[k])
<1>0. Len(s) \in Nat /\ k - 1 \in 0..Len(s) /\ Len(s) \in k..Len(s) /\ Len(s) \in 1..Len(s)
  BY SeedIs
<1>1. d = Joined(s, Len(s)) /\ d \in Seq(Octets)
  <2>1. d = Joined(s, Len(s))
    BY SeedIs DEF Joined
  <2> QED
    BY <1>0, <2>1, JoinedIs
<1>2. IsPrefixAt(b, d)
  BY <1>0, <1>1, JoinedIsPrefix
<1>3. b \in Seq(Octets) /\ b = a \o c
  BY JoinedIs
<1>4. a \in Seq(Octets)
  <2>1. CASE k = 1
    <3>1. a = << >>
      BY <2>1, JoinedIs
    <3> HIDE DEF a
    <3> QED
      BY <3>1
  <2>2. CASE k # 1
    <3>1. k - 1 \in 1..Len(s)
      BY <1>0, <2>2
    <3> QED
      BY <3>1, JoinedIs
  <2> QED
    BY <2>1, <2>2
<1>5. /\ c \in Seq(Octets) /\ Len(c) \in Nat /\ Len(c) >= 10
      /\ 65536 * (256 * c[3] + c[4]) + (256 * c[5] + c[6]) = Len(c)
  <2>1. IsPackable(s[k])
    BY SeedIs
  <2> QED
    BY <2>1, CommandIs
<1> DEFINE from == Len(a)
           to == Len(b)
<1> HIDE DEF a, b, c, d
<1>6. from \in Nat /\ to = from + Len(c) /\ Len(d) \in Nat /\ to <= Len(d)
  BY <1>1, <1>2, <1>3, <1>4, <1>5 DEF IsPrefixAt
<1>7. ASSUME NEW j \in 1..Len(c) PROVE d[from + j] = c[j]
  <2>1. b[from + j] = c[j]
    BY <1>3, <1>4, <1>5
  <2>2. from + j \in 1..Len(b)
    BY <1>6
  <2> QED
    BY <1>2, <2>1, <2>2 DEF IsPrefixAt
<1> HIDE DEF from, to
<1>8. d[from + 3] = c[3] /\ d[from + 4] = c[4] /\ d[from + 5] = c[5] /\ d[from + 6] = c[6]
  <2>1. 3 \in 1..Len(c) /\ 4 \in 1..Len(c) /\ 5 \in 1..Len(c) /\ 6 \in 1..Len(c)
    BY <1>5
  <2> QED
    BY <1>7, <2>1
<1>9. Length(d, from) = Len(c)
  <2>1. /\ from + kHeaderTagLen + 1 = from + 3 /\ from + kHeaderTagLen + 1 + 1 = from + 4
        /\ from + kHeaderTagLen + 3 = from + 5 /\ from + kHeaderTagLen + 3 + 1 = from + 6
    BY <1>6 DEF kHeaderTagLen
  <2>2. Length(d, from)
          = 65536 * (256 * d[from + 3] + d[from + 4]) + (256 * d[from + 5] + d[from + 6])
    BY <2>1 DEF Length, Read16
  <2> QED
    BY <1>5, <1>8, <2>2
<1>10. ~ BadHeader(d, from)
  BY <1>5, <1>6, <1>9
    DEF BadHeader, kHeaderLen, kHeaderTagLen, kHeaderCommandSizeLen, kHeaderCommandCodeLen
<1> QED
  BY <1>6, <1>9, <1>10 DEF from, to, a, b, d

-----------------------------------------------------------------------------
(* The inductive invariant of the seeds.                                   *)

\* What is written is the seed's.
SeedWritten ==
  phase = "converting" => content = _serialize_sequence(sequence)

\* The commands of the seed are converted one after another, and replayed one
\* after another once they all are, or none.
SeedProgress ==
  /\ phase \in {"idle", "converting", "generated"}
  /\ phase = "idle" => sequence = << >>
  /\ phase # "idle" => sequence \in SeedSequences
  /\ next \in 0..Len(sequence)
  /\ Len(proto) \in 0..Len(sequence)
  /\ proto = [i \in 1..Len(proto) |-> ToProto(sequence[i])]
  /\ \A i \in 1..Len(proto) : sequence[i].class \in ProtoClasses
  /\ phase = "converting" => Len(proto) = next
  /\ phase = "generated" => Len(proto) \in {0, Len(sequence)} /\ next <= Len(proto)

\* The marshaller works on the message that is replayed.
SeedReplayed ==
  pc # "idle" =>
    /\ phase = "generated"
    /\ next \in 1..Len(proto)
    /\ msg.command = sequence[next].class

SeedInv == IInv /\ SeedWritten /\ SeedProgress /\ SeedReplayed

\* The message of a command is one of the schema, for that command.
LEMMA ToProtoIs ==
  ASSUME NEW c, IsPackable(c), c.class \in ProtoClasses
  PROVE  IsMessage(ToProto(c)) /\ ToProto(c).command = c.class
<1>1. IsMessage(ToProto(c))
  BY SMT DEF IsPackable
<1>2. ToProto(c).command = c.class
  BY DEF ToProto
<1> QED
  BY <1>1, <1>2

\* Before the first seed nothing is written and nothing is replayed.
LEMMA SeedInitInv == SeedInit => SeedInv
<1> SUFFICES ASSUME SeedInit PROVE SeedInv
  OBVIOUS
<1>1. IInv
  BY InitInv DEF SeedInit
<1>2. pc = "idle" /\ phase = "idle" /\ sequence = << >> /\ proto = << >> /\ next = 0
  BY DEF SeedInit, Init
<1>3. SeedProgress
  BY <1>2 DEF SeedProgress
<1> QED
  BY <1>1, <1>2, <1>3 DEF SeedInv, SeedWritten, SeedReplayed

\* The seed generator leaves the marshaller alone.
LEMMA RunCommandsInv == SeedInv /\ RunCommands => SeedInv'
<1> SUFFICES ASSUME SeedInv, RunCommands PROVE SeedInv'
  OBVIOUS
<1>1. /\ phase = "idle" /\ phase' = "converting" /\ sequence' \in SeedSequences
      /\ content' = _serialize_sequence(sequence') /\ proto' = << >> /\ next' = 0
      /\ UNCHANGED vars
  BY DEF RunCommands
<1>2. IInv'
  BY <1>1, StutterInv DEF SeedInv
<1>3. pc' = "idle"
  BY <1>1 DEF SeedInv, SeedReplayed, vars
<1>4. Len(sequence') \in Nat
  BY <1>1, SeedIs
<1>5. SeedProgress'
  BY <1>1, <1>4 DEF SeedProgress
<1> QED
  BY <1>1, <1>2, <1>3, <1>5 DEF SeedInv, SeedWritten, SeedReplayed

\* One more message is added, for the next command of the seed.
LEMMA ConvertCommandInv == SeedInv /\ ConvertCommand => SeedInv'
<1> SUFFICES ASSUME SeedInv, ConvertCommand PROVE SeedInv'
  OBVIOUS
<1>1. /\ phase = "converting" /\ next < Len(sequence)
      /\ sequence[next + 1].class \in ProtoClasses
      /\ proto' = Append(proto, ToProto(sequence[next + 1])) /\ next' = next + 1
      /\ UNCHANGED <<phase, sequence, content>> /\ UNCHANGED vars
  BY DEF ConvertCommand
<1>2. IInv'
  BY <1>1, StutterInv DEF SeedInv
<1>3. pc' = "idle"
  BY <1>1 DEF SeedInv, SeedReplayed, vars
<1>4. /\ Len(sequence) \in Nat /\ next \in Nat /\ Len(proto) = next
      /\ proto = [i \in 1..next |-> ToProto(sequence[i])]
  BY <1>1, SeedIs DEF SeedInv, SeedProgress
<1>5. proto' = [i \in 1..next + 1 |-> ToProto(sequence[i])] /\ Len(proto') = next + 1
  <2> DEFINE p == [i \in 1..next |-> ToProto(sequence[i])]
             x == ToProto(sequence[next + 1])
  <2>1. Append(p, x) = [i \in 1..next + 1 |-> IF i <= next THEN p[i] ELSE x]
    BY <1>4
  <2>2. \A i \in 1..next + 1 : (IF i <= next THEN p[i] ELSE x) = ToProto(sequence[i])
    BY <1>4
  <2>3. proto' = Append(p, x)
    BY <1>1, <1>4
  <2> HIDE DEF p, x
  <2>4. proto' = [i \in 1..next + 1 |-> ToProto(sequence[i])]
    BY <2>1, <2>2, <2>3
  <2> QED
    BY <1>4, <2>4
<1>6. SeedProgress'
  BY <1>1, <1>4, <1>5 DEF SeedInv, SeedProgress
<1>7. SeedWritten'
  BY <1>1 DEF SeedInv, SeedWritten
<1> QED
  BY <1>2, <1>3, <1>6, <1>7 DEF SeedInv, SeedReplayed

\* A command without a message leaves the seed without a second file.
LEMMA NoProtoSeedInv == SeedInv /\ NoProtoSeed => SeedInv'
<1> SUFFICES ASSUME SeedInv, NoProtoSeed PROVE SeedInv'
  OBVIOUS
<1>1. /\ phase = "converting" /\ proto' = << >> /\ next' = 0 /\ phase' = "generated"
      /\ UNCHANGED <<sequence, content>> /\ UNCHANGED vars
  BY DEF NoProtoSeed
<1>2. IInv'
  BY <1>1, StutterInv DEF SeedInv
<1>3. pc' = "idle"
  BY <1>1 DEF SeedInv, SeedReplayed, vars
<1>4. Len(sequence) \in Nat /\ sequence \in SeedSequences
  BY <1>1, SeedIs DEF SeedInv, SeedProgress
<1>5. SeedProgress'
  BY <1>1, <1>4 DEF SeedProgress
<1> QED
  BY <1>1, <1>2, <1>3, <1>5 DEF SeedInv, SeedWritten, SeedReplayed

\* A second file is written when every command has a message.
LEMMA ProtoSeedInv == SeedInv /\ ProtoSeed => SeedInv'
<1> SUFFICES ASSUME SeedInv, ProtoSeed PROVE SeedInv'
  OBVIOUS
<1>1. /\ phase = "converting" /\ next = Len(sequence) /\ next' = 0
      /\ phase' = "generated" /\ UNCHANGED <<sequence, content, proto>> /\ UNCHANGED vars
  BY DEF ProtoSeed
<1>2. IInv'
  BY <1>1, StutterInv DEF SeedInv
<1>3. pc' = "idle"
  BY <1>1 DEF SeedInv, SeedReplayed, vars
<1>4. Len(sequence) \in Nat /\ sequence \in SeedSequences /\ Len(proto) = Len(sequence)
  BY <1>1, SeedIs DEF SeedInv, SeedProgress
<1>5. SeedProgress'
  BY <1>1, <1>4 DEF SeedInv, SeedProgress
<1> QED
  BY <1>1, <1>2, <1>3, <1>5 DEF SeedInv, SeedWritten, SeedReplayed

\* The next seed starts with no sequence, no message and an idle marshaller.
LEMMA NextSeedInv == SeedInv /\ NextSeed => SeedInv'
<1> SUFFICES ASSUME SeedInv, NextSeed PROVE SeedInv'
  OBVIOUS
<1>1. /\ pc = "idle" /\ phase' = "idle" /\ sequence' = << >> /\ proto' = << >>
      /\ next' = 0 /\ UNCHANGED vars
  BY DEF NextSeed
<1>2. IInv'
  BY <1>1, StutterInv DEF SeedInv
<1>3. pc' = "idle"
  BY <1>1 DEF vars
<1>4. SeedProgress'
  BY <1>1 DEF SeedProgress
<1> QED
  BY <1>1, <1>2, <1>3, <1>4 DEF SeedInv, SeedWritten, SeedReplayed

\* The fuzzer is given the next message of the seed.
LEMMA ReplayMessageInv == SeedInv /\ ReplayMessage => SeedInv'
<1> SUFFICES ASSUME SeedInv, ReplayMessage PROVE SeedInv'
  OBVIOUS
<1>1. /\ phase = "generated" /\ pc = "idle" /\ next < Len(proto) /\ next' = next + 1
      /\ msg' = proto[next + 1] /\ pending' = PostProcessors(msg'.command)
      /\ pc' = "mutated"
      /\ UNCHANGED <<field, entry, todo, offset, wire, auth_size_pos, starts>>
      /\ UNCHANGED <<phase, sequence, content, proto>>
  BY DEF ReplayMessage
<1>2. /\ sequence \in SeedSequences /\ Len(sequence) \in Nat /\ next \in Nat
      /\ Len(proto) \in Nat /\ Len(proto) <= Len(sequence)
      /\ proto = [i \in 1..Len(proto) |-> ToProto(sequence[i])]
      /\ next + 1 \in 1..Len(proto) /\ next + 1 \in 1..Len(sequence)
  BY <1>1, SeedIs DEF SeedInv, SeedProgress
<1>3. msg' = ToProto(sequence[next + 1]) /\ sequence[next + 1].class \in ProtoClasses
  <2>1. \A i \in 1..Len(proto) : sequence[i].class \in ProtoClasses
    BY DEF SeedInv, SeedProgress
  <2>2. proto[next + 1] = ToProto(sequence[next + 1])
    BY <1>2
  <2> QED
    BY <1>1, <1>2, <2>1, <2>2
<1>4. IsMessage(msg') /\ msg'.command = sequence[next + 1].class
  BY <1>2, <1>3, SeedIs, ToProtoIs
<1>5. IInv'
  BY <1>1, <1>4, NewMessageInv DEF SeedInv
<1>6. SeedProgress'
  BY <1>1, <1>2 DEF SeedInv, SeedProgress
<1>7. SeedReplayed'
  BY <1>1, <1>2, <1>4 DEF SeedReplayed
<1>8. SeedWritten'
  BY <1>1 DEF SeedWritten
<1> QED
  BY <1>5, <1>6, <1>7, <1>8 DEF SeedInv

\* No step of the marshaller makes it another command's.
LEMMA MarshalStepIs ==
  ASSUME IInv, MarshalStep
  PROVE  IInv' /\ msg'.command = msg.command /\ pc # "idle"
<1>1. IInv'
  BY RunPostProcessorInv, MarshalCommandInv, MarshalCommandFieldInv,
     RejectFieldInv, MarshalRepeatedFieldInv, MarshalTPMSessionInv,
     PatchAuthorizationSizeInv, WriteItemInv, BufferFullInv, PatchCommandSizeInv,
     ReturnInv
  DEF MarshalStep
<1>2. CASE RunPostProcessor
  <2>1. PICK p \in pending : msg' = PostProcess(p, msg)
    BY <1>2 DEF RunPostProcessor
  <2>2. IsMessage(msg) /\ p \in PostProcessors(msg.command)
    BY DEF IInv, MessageOK
  <2>3. Normalizes(p, msg, msg')
    BY <2>1, <2>2, PostProcessed
  <2>4. pc = "mutated"
    BY <1>2 DEF RunPostProcessor
  <2> QED
    BY <1>1, <2>3, <2>4 DEF Normalizes, Alike
<1>3. CASE ~ RunPostProcessor
  BY <1>1, <1>3 DEF MarshalStep, MarshalCommand, MarshalCommandField, RejectField,
    MarshalRepeatedField, MarshalTPMSession, PatchAuthorizationSize, WriteItem,
    BufferFull, PatchCommandSize, Return
<1> QED
  BY <1>2, <1>3

\* The marshaller's own steps keep its invariant, and leave the seed alone.
LEMMA SeedMarshalInv == SeedInv /\ MarshalStep /\ UNCHANGED seedVars => SeedInv'
<1> SUFFICES ASSUME SeedInv, MarshalStep, UNCHANGED seedVars PROVE SeedInv'
  OBVIOUS
<1>1. IInv' /\ msg'.command = msg.command /\ pc # "idle"
  BY MarshalStepIs DEF SeedInv
<1>2. UNCHANGED <<phase, sequence, content, proto, next>>
  BY DEF seedVars
<1> QED
  BY <1>1, <1>2 DEF SeedInv, SeedWritten, SeedProgress, SeedReplayed

\* Nothing changes when nothing does.
LEMMA SeedStutterInv == SeedInv /\ UNCHANGED <<vars, seedVars>> => SeedInv'
<1> SUFFICES ASSUME SeedInv, UNCHANGED <<vars, seedVars>> PROVE SeedInv'
  OBVIOUS
<1>1. IInv'
  BY StutterInv DEF SeedInv
<1>2. UNCHANGED <<phase, sequence, content, proto, next>> /\ UNCHANGED <<pc, msg>>
  BY DEF seedVars, vars
<1> QED
  BY <1>1, <1>2 DEF SeedInv, SeedWritten, SeedProgress, SeedReplayed

\* Every step of the generator and of the replay keeps the invariant.
LEMMA SeedStepInv == SeedInv /\ [SeedNext]_<<vars, seedVars>> => SeedInv'
<1>1. ASSUME SeedInv, SeedNext PROVE SeedInv'
  BY <1>1, RunCommandsInv, ConvertCommandInv, NoProtoSeedInv, ProtoSeedInv,
     ReplayMessageInv, SeedMarshalInv, NextSeedInv
  DEF SeedNext
<1> QED
  BY <1>1, SeedStutterInv

\* Whatever sequences the seeds are made of, the files hold their commands, and
\* the marshaller is given the messages of the seed one after another
\* (_run_commands and _serialize_proto_sequence of main.py).
THEOREM SeedInvariance == SeedSpec => []SeedInv
  BY SeedInitInv, SeedStepInv, PTL DEF SeedSpec

-----------------------------------------------------------------------------
(* What follows from it.                                                   *)

\* The messages in the second file of a seed are messages of the schema, for its
\* commands and in their order, and it has all of them or none
\* (_serialize_proto_sequence).
THEOREM SeedTypeCorrectness == SeedSpec => []SeedTypeOK
<1>1. SeedInv => SeedTypeOK
  <2> SUFFICES ASSUME SeedInv PROVE SeedTypeOK
    OBVIOUS
  <2>1. TypeOK
    BY DEF SeedInv, IInv, CountersOK, BufferOK, MessageOK, TypeOK
  <2>2. /\ sequence \in SeedSequences \cup {<< >>} /\ Len(sequence) \in Nat
        /\ (phase # "idle" => sequence \in SeedSequences)
    BY SeedIs DEF SeedInv, SeedProgress
  <2>3. ASSUME NEW i \in DOMAIN proto
        PROVE  IsMessage(proto[i]) /\ proto[i].command = sequence[i].class
    <3>1. /\ proto = [j \in 1..Len(proto) |-> ToProto(sequence[j])]
          /\ Len(proto) \in 0..Len(sequence)
          /\ \A j \in 1..Len(proto) : sequence[j].class \in ProtoClasses
      BY DEF SeedInv, SeedProgress
    <3>2. i \in 1..Len(proto)
      BY <3>1
    <3>3. i \in 1..Len(sequence) /\ phase # "idle"
      <4>1. i \in 1..Len(sequence)
        BY <2>2, <3>1, <3>2
      <4>2. sequence # << >>
        BY <4>1
      <4> QED
        BY <4>1, <4>2 DEF SeedInv, SeedProgress
    <3>4. proto[i] = ToProto(sequence[i]) /\ sequence[i].class \in ProtoClasses
      BY <3>1, <3>2
    <3>5. IsPackable(sequence[i])
      BY <2>2, <3>3, SeedIs
    <3> QED
      BY <3>4, <3>5, ToProtoIs
  <2> QED
    BY <2>1, <2>2, <2>3 DEF SeedTypeOK, SeedInv, SeedProgress
<1> QED
  BY <1>1, SeedInvariance, PTL

\* Whatever commands a seed is made of, the byte fuzzer's parser cuts its file
\* where one command ends and the next one begins: no command is lost, cut short
\* or joined with another one (parseCommands on what _serialize_sequence wrote).
THEOREM SeedsParse == SeedSpec => []ByteSeedParses
<1>1. SeedInv => ByteSeedParses
  <2> SUFFICES ASSUME SeedInv, phase = "converting", NEW i \in DOMAIN sequence
               PROVE  LET from == Len(_serialize_sequence(SubSeq(sequence, 1, i - 1)))
                          to == Len(_serialize_sequence(SubSeq(sequence, 1, i)))
                      IN ~ BadHeader(content, from) /\ Length(content, from) = to - from
    BY DEF ByteSeedParses
  <2>1. sequence \in SeedSequences /\ content = _serialize_sequence(sequence)
    BY DEF SeedInv, SeedProgress, SeedWritten
  <2>2. i \in 1..Len(sequence)
    BY <2>1, SeedIs
  <2> QED
    BY <2>1, <2>2, CommandsCut DEF Joined
<1> QED
  BY <1>1, SeedInvariance, PTL

\* Every message of a seed that the marshaller accepts reads back as the session
\* layer and the TPM read it (proto_conversion.cc, MarshalCommand).
THEOREM SeedsReadBack == SeedSpec => []CommandReadsBack
<1>1. SeedInv => CommandReadsBack
  BY HeaderReadsBack, AreaIsFound, EntriesAreFilled DEF SeedInv, CommandReadsBack
<1> QED
  BY <1>1, SeedInvariance, PTL

-----------------------------------------------------------------------------
(* The sessions of a seed.                                                 *)

\* A post-processor adds a session where there is none, and leaves the sessions
\* of a message alone where there is one.
LEMMA SessionsStay ==
  ASSUME NEW m, IsMessage(m), "sessions" \in DOMAIN m, m.sessions # << >>,
         NEW p \in PostProcessors(m.command)
  PROVE  PostProcess(p, m).sessions = m.sessions
<1> DEFINE S(r) == "sessions" \in DOMAIN r /\ r.sessions = m.sessions
<1>1. ASSUME NEW tag PROVE S(WithHeader(m, tag))
  BY DEF WithHeader
<1>2. ASSUME NEW r, S(r) PROVE WithSession(r).sessions = m.sessions
  BY <1>2 DEF WithSession
<1>3. CASE p = "Clear"
  BY <1>1, <1>2, <1>3 DEF PostProcess, NormalizeClear
<1>4. CASE p = "Load"
  BY <1>1, <1>2, <1>4 DEF PostProcess, NormalizeLoad
<1>5. CASE p = "InPublic"
  <2>1. PostProcess(p, m) = NormalizeInPublic(m)
    BY <1>5 DEF PostProcess, HeaderOnlySessions, HeaderOnlyNoSessions
  <2>2. NormalizeInPublic(m).sessions = m.sessions
    BY DEF NormalizeInPublic
  <2> QED
    BY <2>1, <2>2
<1>6. CASE p = "SetPrimaryPolicy"
  <2> DEFINE h == WithHeader(m, "SESSIONS")
             hash == IF m.hash_alg \in DOMAIN PolicySize THEN m.hash_alg ELSE "SHA256"
             r == [h EXCEPT !.auth_handle = Or(@, "OWNER"), !.hash_alg = hash,
                            !.auth_policy = PolicySize[hash]]
  <2>1. PostProcess(p, m) = WithSession(r)
    <3>1. PostProcess(p, m) = NormalizeSetPrimaryPolicy(m)
      BY <1>6 DEF PostProcess, HeaderOnlySessions, HeaderOnlyNoSessions
    <3>2. NormalizeSetPrimaryPolicy(m) = WithSession(r)
      BY Zenon DEF NormalizeSetPrimaryPolicy
    <3> QED
      BY <3>1, <3>2
  <2> HIDE DEF hash
  <2>2. S(h)
    BY <1>1
  <2> HIDE DEF h
  <2>3. S(r)
    BY <2>2
  <2> HIDE DEF r, S
  <2> QED
    BY <1>2, <2>1, <2>3
<1>7. CASE p = "GetRandom"
  BY <1>1, <1>7 DEF PostProcess, NormalizeGetRandom
<1>8. CASE p = "StartAuthSession"
  BY <1>1, <1>8 DEF PostProcess, NormalizeStartAuthSession
<1>9. CASE p = "CreatePrimary"
  BY <1>1, <1>9 DEF PostProcess, NormalizeCreatePrimary
<1>10. CASE p = "Create"
  BY <1>1, <1>10 DEF PostProcess, NormalizeCreate
<1>11. CASE p \in HeaderOnlySessions
  BY <1>1, <1>11 DEF PostProcess, HeaderOnlySessions
<1>12. CASE p \in HeaderOnlyNoSessions
  BY <1>1, <1>12 DEF PostProcess, HeaderOnlySessions, HeaderOnlyNoSessions
<1>13. m.command \in EmittedCommands
  BY MessageFits
<1> QED
  BY <1>3, <1>4, <1>5, <1>6, <1>7, <1>8, <1>9, <1>10, <1>11, <1>12, <1>13
     DEF PostProcessors, EmittedCommands, SessionCommands, PlainCommands,
         HeaderOnlySessions, HeaderOnlyNoSessions

\* A command that is authorized with the first HMAC session and is in the
\* attribute table.
IsHmacCommand(c) ==
  /\ c.class \in TrackedCommands \cap ProtoClasses
  /\ "session" \in DOMAIN c /\ c.session = "FirstHmacSession"

\* What a seed has to be to reach the HMAC path: a message that to_proto makes of
\* such a command has that session and no other, and follows one that starts a
\* session that arms the layer.
IsHmacSeed(s) ==
  \A i \in DOMAIN s : IsHmacCommand(s[i]) =>
    LET m == ToProto(s[i]) IN
    /\ s[i].class \in SessionCommands
    /\ Len(m.sessions) = 1 /\ m.sessions[1].session_handle = "FirstHmacSession"
    /\ \E j \in 1..i - 1 : Arms(ToProto(s[j]))

\* The session of the seed is still there when the message is marshalled.
SessionKept ==
  pc # "idle" /\ IsHmacCommand(sequence[next]) =>
    msg.sessions = ToProto(sequence[next]).sessions

\* What the fields of a command with a session are.
LEMMA HasSessions ==
  ASSUME NEW m, IsMessage(m), m.command \in SessionCommands
  PROVE  "sessions" \in DOMAIN m
  BY NormalisedFields

\* A message with one session is marshalled with that session: its post-processors
\* leave it alone, and no other step changes it.
LEMMA SessionKeptStep ==
  ASSUME \A s \in SeedSequences : IsHmacSeed(s),
         SeedInv, SeedInv', SessionKept, [SeedNext]_<<vars, seedVars>>
  PROVE  SessionKept'
<1>1. CASE RunCommands \/ ConvertCommand \/ NoProtoSeed \/ ProtoSeed \/ NextSeed
  <2>1. pc = "idle" /\ pc' = pc
    BY <1>1 DEF RunCommands, ConvertCommand, NoProtoSeed, ProtoSeed, NextSeed, vars,
       SeedInv, SeedProgress, SeedReplayed
  <2> QED
    BY <2>1 DEF SessionKept
<1>2. CASE ReplayMessage
  <2>1. msg' = proto[next'] /\ next' \in 1..Len(proto) /\ UNCHANGED <<sequence, proto>>
    BY <1>2 DEF ReplayMessage, SeedInv, SeedProgress
  <2>2. proto[next'] = ToProto(sequence[next'])
    BY <2>1 DEF SeedInv, SeedProgress
  <2> QED
    BY <2>1, <2>2 DEF SessionKept
<1>3. CASE MarshalStep /\ UNCHANGED seedVars
  <2>0. UNCHANGED <<phase, sequence, content, proto, next>>
    BY <1>3 DEF seedVars
  <2>1. pc # "idle"
    BY <1>3, MarshalStepIs DEF SeedInv
  <2>2. CASE RunPostProcessor
    <3>1. PICK p \in pending : msg' = PostProcess(p, msg)
      BY <2>2 DEF RunPostProcessor
    <3>2. IsMessage(msg) /\ p \in PostProcessors(msg.command)
      BY DEF SeedInv, IInv, MessageOK
    <3>3. SUFFICES ASSUME IsHmacCommand(sequence[next])
                   PROVE  msg'.sessions = ToProto(sequence[next]).sessions
      BY <2>0 DEF SessionKept
    <3>4. msg.sessions = ToProto(sequence[next]).sessions
      BY <2>1, <3>3 DEF SessionKept
    <3>5. /\ phase = "generated" /\ next \in 1..Len(proto)
          /\ msg.command = sequence[next].class
      BY <2>1 DEF SeedInv, SeedReplayed
    <3>6. sequence \in SeedSequences /\ next \in DOMAIN sequence
      BY <3>5, SeedIs DEF SeedInv, SeedProgress
    <3>7. /\ msg.command \in SessionCommands
          /\ Len(ToProto(sequence[next]).sessions) = 1
      BY <3>3, <3>5, <3>6 DEF IsHmacSeed
    <3>8. msg.sessions # << >>
      BY <3>4, <3>7
    <3>9. "sessions" \in DOMAIN msg
      BY <3>2, <3>7, HasSessions
    <3> QED
      BY <3>1, <3>2, <3>4, <3>8, <3>9, SessionsStay
  <2>3. CASE ~ RunPostProcessor
    <3>1. msg' = msg
      BY <1>3, <2>3 DEF MarshalStep, MarshalCommand, MarshalCommandField, RejectField,
        MarshalRepeatedField, MarshalTPMSession, PatchAuthorizationSize, WriteItem,
        BufferFull, PatchCommandSize, Return
    <3> QED
      BY <2>0, <2>1, <3>1 DEF SessionKept
  <2> QED
    BY <2>2, <2>3
<1>4. CASE UNCHANGED <<vars, seedVars>>
  BY <1>4 DEF SessionKept, vars, seedVars
<1> QED
  BY <1>1, <1>2, <1>3, <1>4 DEF SeedNext

\* The message that was replayed, marshalled: its one session is the first entry
\* of the area, and fills it.
LEMMA ReachesPatch ==
  ASSUME \A s \in SeedSequences : IsHmacSeed(s), SeedInv, SessionKept
  PROVE  HmacSeedsReachPatch
<1> DEFINE c == sequence[next]
<1>1. SUFFICES ASSUME phase = "generated", pc = "done", "session" \in DOMAIN c,
                      c.session = "FirstHmacSession", c.class \in TrackedCommands
               PROVE  /\ \E i \in 1..next - 1 : Arms(proto[i])
                      /\ ReadAt(wire, AuthSizeOff + 4, 4) = "FirstHmacSession"
                      /\ EntryEnd(wire, AuthSizeOff + 4)
                           = AuthSizeOff + 4 + ReadAt(wire, AuthSizeOff, 4)
  BY DEF HmacSeedsReachPatch, Replayed
<1>2. /\ next \in 1..Len(proto) /\ msg.command = c.class
      /\ Len(proto) \in 0..Len(sequence) /\ sequence \in SeedSequences
      /\ proto = [i \in 1..Len(proto) |-> ToProto(sequence[i])]
      /\ c.class \in ProtoClasses
  BY <1>1 DEF SeedInv, SeedProgress, SeedReplayed
<1>3. Len(sequence) \in Nat /\ DOMAIN sequence = 1..Len(sequence)
  BY <1>2, SeedIs
<1>4. next \in DOMAIN sequence
  BY <1>2, <1>3
<1>5. IsHmacCommand(c)
  BY <1>1, <1>2 DEF IsHmacCommand
<1> DEFINE m == ToProto(c)
<1>6. /\ c.class \in SessionCommands
      /\ Len(m.sessions) = 1 /\ m.sessions[1].session_handle = "FirstHmacSession"
      /\ \E j \in 1..next - 1 : Arms(ToProto(sequence[j]))
  BY <1>2, <1>4, <1>5 DEF IsHmacSeed
<1>7. msg.sessions = m.sessions
  BY <1>1, <1>5 DEF SessionKept
<1> HIDE DEF c, m
<1>8. \E i \in 1..next - 1 : Arms(proto[i])
  <2>1. PICK j \in 1..next - 1 : Arms(ToProto(sequence[j]))
    BY <1>6
  <2>2. j \in 1..Len(proto)
    BY <1>2, <1>3
  <2>3. proto[j] = ToProto(sequence[j])
    BY <1>2, <2>2
  <2> QED
    BY <2>1, <2>3
<1>9. CommandReadsBack
  BY HeaderReadsBack, AreaIsFound, EntriesAreFilled DEF SeedInv, CommandReadsBack
<1>10. AreaFound /\ EntriesFill
  BY <1>1, <1>2, <1>6, <1>9 DEF CommandReadsBack
<1>11. AuthSizeOff = auth_size_pos
  BY <1>1, <1>2, <1>10 DEF AreaFound
<1>12. Len(msg.sessions) = 1
  BY <1>6, <1>7
<1>13. /\ starts[1] = auth_size_pos + 4
       /\ ReadAt(wire, starts[1], 4) = msg.sessions[1].session_handle
       /\ EntryEnd(wire, starts[1]) = auth_size_pos + 4 + ReadAt(wire, auth_size_pos, 4)
  BY <1>10, <1>12 DEF EntriesFill
<1> QED
  BY <1>6, <1>7, <1>8, <1>11, <1>13

\* A seed whose messages name the session they were authorized with, behind one
\* that starts it, reaches the HMAC path on the fuzzer's side: no post-processor
\* replaces the session, FindAuthArea finds it as the first entry of the area, and
\* the entry fills the area (main.py:678-679; proto_postprocessors.cc,
\* proto_conversion.cc, session_auth.cc:507-530).
THEOREM HmacSeedsArePatched ==
  ASSUME \A s \in SeedSequences : IsHmacSeed(s)
  PROVE  SeedSpec => []HmacSeedsReachPatch
<1>1. SeedInit => SeedInv /\ SessionKept
  BY SeedInitInv DEF SeedInit, Init, SessionKept
<1>2. SeedInv /\ SessionKept /\ [SeedNext]_<<vars, seedVars>> => (SeedInv /\ SessionKept)'
  BY SeedStepInv, SessionKeptStep
<1>3. SeedInv /\ SessionKept => HmacSeedsReachPatch
  BY ReachesPatch
<1> QED
  BY <1>1, <1>2, <1>3, PTL DEF SeedSpec
==============================================================================
