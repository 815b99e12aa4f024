--------------------------- MODULE PatchLayoutProofs ---------------------------
(***************************************************************************)
(* Proofs about PatchLayout: for every set of inputs, every attribute      *)
(* table and every HMAC, the headroom of the driver suffices, the rewrite  *)
(* stays inside the buffer, and the padding loop writes nothing.           *)
(***************************************************************************)
EXTENDS PatchLayout, TLAPS

Patching == {"shift", "entry", "pad", "sizes", "patched"}

\* The local variables describe the command as it came, which was accepted.
FieldsDescribe ==
  pc \in Patching => Accepted(command, size) /\ field = FieldOf(command)

\* Until the first write the buffer is the command.
NothingWritten == pc \in {"parse", "shift"} => buf = command /\ reach = 0

IInv ==
  /\ TypeOK
  /\ FieldsDescribe
  /\ NothingWritten
  /\ HeadroomSuffices
  /\ WithinCapacity

-----------------------------------------------------------------------------
(* Reads and writes.                                                       *)

\* A 16 bit number.
Word == {v \in Nat : v <= 65535}

\* Two bytes read from inside a buffer are a 16 bit number.
LEMMA Read16Range ==
  ASSUME NEW n \in Nat, NEW b \in Buffers(n),
         NEW off \in Nat, off + 2 <= n
  PROVE  Read16(b, off) \in Word
<1>1. b[off] \in Byte /\ b[off + 1] \in Byte
  BY DEF Buffers, kHeadroom
<1> QED
  BY <1>1 DEF Read16, Byte, Word

\* Four bytes read from inside a buffer are a natural number.
LEMMA Read32Range ==
  ASSUME NEW n \in Nat, NEW b \in Buffers(n),
         NEW off \in Nat, off + 4 <= n
  PROVE  Read32(b, off) \in Nat
<1>1. Read16(b, off) \in Word
  <2>1. off + 2 <= n
    OBVIOUS
  <2> QED
    BY <2>1, Read16Range
<1>2. Read16(b, off + 2) \in Word
  <2>1. off + 2 \in Nat /\ (off + 2) + 2 <= n
    OBVIOUS
  <2> QED
    BY <2>1, Read16Range
<1> QED
  BY <1>1, <1>2 DEF Read32, Word

\* A write of bytes keeps the buffer a buffer.
LEMMA WriteType ==
  ASSUME NEW n \in Nat, NEW b \in Buffers(n), NEW off \in Int,
         NEW s, \A i \in DOMAIN s : s[i] \in Byte
  PROVE  Write(b, off, s) \in Buffers(n)
  BY DEF Write, Buffers

\* The two big-endian encodings are strings of bytes.
LEMMA BytesType ==
  ASSUME NEW v \in Int
  PROVE  /\ Bytes16(v) \in [0..1 -> Byte]
         /\ Bytes32(v) \in [0..3 -> Byte]
<1>1. \A w \in Int : Bytes16(w) \in [0..1 -> Byte]
  BY DEF Bytes16, Byte
<1>2. v \div 65536 \in Int
  OBVIOUS
<1>3. Bytes16(v \div 65536) \in [0..1 -> Byte] /\ Bytes16(v) \in [0..1 -> Byte]
  BY <1>1, <1>2
<1> QED
  BY <1>3 DEF Bytes32

-----------------------------------------------------------------------------
(* The geometry of an accepted command.                                    *)

\* The fields of an accepted command lie in order inside it, and the rewritten
\* entry ends exactly where the moved parameters begin.
LEMMA Geometry ==
  ASSUME NEW n \in Nat, NEW b \in Buffers(n), Accepted(b, n)
  PROVE  /\ FieldOf(b) \in [nonce_off : Nat, attrs : Byte, auth_size_off : Nat,
                             auth_size : Nat, cp_off : Nat, delta : Int]
         /\ n >= 10
         /\ AuthSizeOff(b) >= 10
         /\ NonceOff(b) = AuthSizeOff(b) + 8
         /\ AttrsOff(b) \in Nat
         /\ NonceOff(b) + 2 <= AttrsOff(b)
         /\ AttrsOff(b) + 3 <= AuthEnd(b)
         /\ AuthEnd(b) = AuthSizeOff(b) + 4 + AuthSize(b)
         /\ AuthEnd(b) <= n
         /\ Delta(b) <= kHeadroom
         /\ NonceOff(b) + 53 = AuthEnd(b) + Delta(b)
<1>1. n >= 10 /\ Read32(b, 6) \in DOMAIN HandleCount
  BY DEF Accepted, HeaderAccepted, kHeaderSize
<1>2. PICK aso \in Nat : aso = AuthSizeOff(b) /\ aso >= 10
  <2>1. PICK c \in Nat : c = HandleCount[Read32(b, 6)]
    BY <1>1, LayoutAssumption
  <2>2. 10 + 4 * c \in Nat /\ 10 + 4 * c >= 10
    OBVIOUS
  <2> QED
    BY <2>1, <2>2 DEF AuthSizeOff, kHeaderSize
<1>3. aso + 4 <= n /\ AuthEnd(b) <= n
  BY <1>2 DEF Accepted, FindAuthArea
<1>5. PICK asz \in Nat : asz = AuthSize(b)
  BY <1>2, <1>3, Read32Range DEF AuthSize
<1>6. PICK end \in Nat : end = AuthEnd(b) /\ end = aso + 4 + asz /\ end <= n
  BY <1>2, <1>3, <1>5 DEF AuthOff, AuthEnd
<1>7. PICK no \in Nat : no = NonceOff(b) /\ no = aso + 8
  BY <1>2 DEF AuthOff, NonceOff
<1>8. /\ no + 2 <= end
      /\ AttrsOff(b) + 1 <= end
      /\ HmacOff(b) + 2 <= end
      /\ HmacOff(b) + 2 + HmacSize(b) = end
  BY <1>6, <1>7 DEF Accepted, EntryParses
<1>9. PICK ns \in Word : ns = NonceSize(b)
  <2>1. no + 2 <= n
    BY <1>6, <1>8
  <2> QED
    BY <1>7, <2>1, Read16Range DEF NonceSize
<1>10. PICK ao \in Nat : ao = AttrsOff(b) /\ ao = no + 2 + ns
  BY <1>7, <1>9 DEF AttrsOff, Word
<1>11. PICK ho \in Nat : ho = HmacOff(b) /\ ho = ao + 1
  BY <1>10 DEF HmacOff
<1>12. ho + 2 <= end /\ ho + 2 + HmacSize(b) = end
  BY <1>8, <1>11
<1>13. PICK hs \in Word : hs = HmacSize(b)
  <2>1. ho + 2 <= n
    BY <1>6, <1>12
  <2> QED
    BY <1>11, <2>1, Read16Range DEF HmacSize
<1>14. PICK d \in Int : d = Delta(b) /\ d = 48 - ns - hs
  BY <1>9, <1>13 DEF Delta, kNonceCallerSize, kHmacSize, Word
<1>15. b[ao] \in Byte
  BY <1>6, <1>11, <1>12 DEF Buffers, kHeadroom
<1>16. no + 2 <= ao /\ ao + 3 <= end /\ d <= 64 /\ no + 53 = end + d
  BY <1>7, <1>9, <1>10, <1>11, <1>12, <1>13, <1>14 DEF Word
<1>17. FieldOf(b) = [nonce_off |-> no, attrs |-> b[ao], auth_size_off |-> aso,
                     auth_size |-> asz, cp_off |-> end, delta |-> d]
  BY <1>2, <1>5, <1>6, <1>7, <1>10, <1>14 DEF FieldOf
<1>18. FieldOf(b) \in [nonce_off : Nat, attrs : Byte, auth_size_off : Nat,
                       auth_size : Nat, cp_off : Nat, delta : Int]
  BY <1>15, <1>17
<1> QED
  BY <1>1, <1>2, <1>5, <1>6, <1>7, <1>10, <1>14, <1>16, <1>18 DEF kHeadroom

\* What the local variables say once they describe an accepted command.
LEMMA FieldFacts ==
  ASSUME IInv, pc \in Patching
  PROVE  /\ size \in Nat
         /\ command \in Buffers(size)
         /\ buf \in Buffers(size)
         /\ field.nonce_off \in Nat /\ field.auth_size_off \in Nat
         /\ field.cp_off \in Nat /\ field.delta \in Int
         /\ field.auth_size \in Nat /\ field.attrs \in Byte
         /\ field.nonce_off = field.auth_size_off + 8
         /\ field.auth_size_off >= 10
         /\ field.cp_off = field.auth_size_off + 4 + field.auth_size
         /\ field.cp_off <= size
         /\ field.delta <= kHeadroom
         /\ EntryEnd = NewCpOff
         /\ EntryEnd = field.nonce_off + 53
<1>1. Accepted(command, size) /\ field = FieldOf(command)
  BY DEF IInv, FieldsDescribe
<1>2. size \in Nat /\ command \in Buffers(size) /\ buf \in Buffers(size)
  <2>1. pc # "idle"
    BY DEF Patching
  <2> QED
    BY <2>1 DEF IInv, TypeOK
<1>3. EntryEnd = field.nonce_off + 53
  <2>1. field.nonce_off \in Nat
    BY DEF IInv, TypeOK
  <2> QED
    BY <2>1 DEF EntryEnd, kNonceCallerSize, kHmacSize
<1>4. /\ field.nonce_off = NonceOff(command)
      /\ field.auth_size_off = AuthSizeOff(command)
      /\ field.auth_size = AuthSize(command)
      /\ field.cp_off = AuthEnd(command)
      /\ field.delta = Delta(command)
  BY <1>1 DEF FieldOf
<1>5. /\ field.nonce_off \in Nat /\ field.auth_size_off \in Nat
      /\ field.cp_off \in Nat /\ field.delta \in Int
      /\ field.auth_size \in Nat /\ field.attrs \in Byte
  BY DEF IInv, TypeOK
<1> QED
  BY <1>1, <1>2, <1>3, <1>4, <1>5, Geometry DEF NewCpOff

\* The entry begins inside the command.
LEMMA FieldInside ==
  ASSUME IInv, pc \in Patching
  PROVE  field.nonce_off + 5 <= field.cp_off
<1>1. Accepted(command, size) /\ field = FieldOf(command)
  BY DEF IInv, FieldsDescribe
<1>2. size \in Nat /\ command \in Buffers(size)
  BY FieldFacts
<1>3. field.nonce_off = NonceOff(command) /\ field.cp_off = AuthEnd(command)
  BY <1>1 DEF FieldOf
<1> QED
  BY <1>1, <1>2, <1>3, Geometry

\* The patched command fits.
LEMMA FitFacts ==
  ASSUME IInv, pc \in Patching
  PROVE  NewSize \in Nat /\ NewSize <= capacity
  BY FieldFacts DEF NewSize, NewCpOff, capacity, kHeadroom

\* The fields of the rewritten entry, from the size of its nonce on.
LEMMA EntryFields ==
  ASSUME IInv, pc \in Patching
  PROVE  /\ DOMAIN NewEntry = 0..52
         /\ NewEntry[0] = 0 /\ NewEntry[1] = 16
         /\ \A i \in Nat : 2 <= i /\ i < 18 => NewEntry[i] = 170
         /\ NewEntry[18] = field.attrs
         /\ NewEntry[19] = 0 /\ NewEntry[20] = 32
         /\ \A i \in Nat : 21 <= i /\ i < 53 => NewEntry[i] = Hmac[i - 21]
<1>1. EntryEnd = field.nonce_off + 53 /\ field.nonce_off \in Nat
  BY FieldFacts
<1>2. EntryEnd - field.nonce_off - 1 = 52
  BY <1>1
<1>3. /\ Bytes16(kNonceCallerSize)[0] = 0 /\ Bytes16(kNonceCallerSize)[1] = 16
      /\ Bytes16(kHmacSize)[0] = 0 /\ Bytes16(kHmacSize)[1] = 32
  BY DEF Bytes16, kNonceCallerSize, kHmacSize
<1>4. \A i \in Nat : i < 16 => NonceCaller[i] = 170
  BY DEF NonceCaller, kNonceCallerSize, kNonceCallerFill
<1> DEFINE last == EntryEnd - field.nonce_off - 1
<1>5. NewEntry =
        [i \in 0..last |->
           IF i < 2 THEN Bytes16(kNonceCallerSize)[i]
           ELSE IF i < 18 THEN NonceCaller[i - 2]
           ELSE IF i = 18 THEN field.attrs
           ELSE IF i < 21 THEN Bytes16(kHmacSize)[i - 19]
           ELSE Hmac[i - 21]]
  BY DEF NewEntry
<1> HIDE DEF last
<1>6. last = 52
  BY <1>2 DEF last
<1> QED
  BY <1>3, <1>4, <1>5, <1>6

\* The rewritten entry is a string of bytes.
LEMMA EntryType ==
  ASSUME IInv, pc \in Patching
  PROVE  \A i \in DOMAIN NewEntry : NewEntry[i] \in Byte
<1>1. field.attrs \in Byte
  BY FieldFacts
<1>2. \A i \in Nat : i < 32 => Hmac[i] \in Byte
  <2>1. kHmacSize \in Nat /\ kHmacSize = 32
    BY DEF kHmacSize
  <2>2. Hmac \in [0..kHmacSize - 1 -> Byte]
    BY LayoutAssumption
  <2>3. \A i \in 0..kHmacSize - 1 : Hmac[i] \in Byte
    BY <2>2
  <2>4. \A i \in Nat : i < kHmacSize => i \in 0..kHmacSize - 1
    BY <2>1
  <2> QED
    BY <2>1, <2>3, <2>4
<1>3. \A i \in DOMAIN NewEntry : i \in Nat /\ i < 53
  BY EntryFields
<1> SUFFICES ASSUME NEW i \in Nat, i < 53 PROVE NewEntry[i] \in Byte
  BY <1>3
<1>4. CASE i = 0 \/ i = 1 \/ i = 18 \/ i = 19 \/ i = 20
  BY <1>1, <1>4, EntryFields DEF Byte
<1>5. CASE 2 <= i /\ i < 18
  BY <1>5, EntryFields DEF Byte
<1>6. CASE 21 <= i
  BY <1>2, <1>6, EntryFields
<1> QED
  BY <1>4, <1>5, <1>6

\* A shift keeps the buffer a buffer.
LEMMA ShiftType ==
  ASSUME IInv, ShiftParameters
  PROVE  buf' \in Buffers(size)
<1>1. pc \in Patching
  BY DEF ShiftParameters, Patching
<1>2. /\ size \in Nat /\ buf \in Buffers(size)
      /\ field.cp_off \in Nat /\ field.cp_off <= size /\ field.delta \in Int
  BY <1>1, FieldFacts
<1> DEFINE n == size - field.cp_off
           s == Slice(buf, field.cp_off, n)
<1>3. \A i \in DOMAIN s : s[i] \in Byte
  BY <1>2 DEF Slice, Buffers, kHeadroom
<1> HIDE DEF s
<1>4. Write(buf, NewCpOff, s) \in Buffers(size)
  BY <1>2, <1>3, WriteType DEF NewCpOff
<1>5. buf' = buf \/ buf' = Write(buf, NewCpOff, s)
  BY DEF ShiftParameters, Memmove, s
<1> QED
  BY <1>2, <1>4, <1>5

\* A shift writes up to the end of the patched command, which fits.
LEMMA ShiftReach ==
  ASSUME IInv, ShiftParameters
  PROVE  reach' \in Nat /\ reach' <= NewSize /\ NewSize <= capacity
<1>1. pc \in Patching /\ pc = "shift"
  BY DEF ShiftParameters, Patching
<1>2. reach = 0
  BY <1>1 DEF IInv, NothingWritten
<1>3. NewSize \in Nat /\ NewSize <= capacity
  BY <1>1, FitFacts
<1>4. NewCpOff + (size - field.cp_off) = NewSize
  BY <1>1, FieldFacts DEF NewSize, NewCpOff
<1> QED
  BY <1>2, <1>3, <1>4 DEF ShiftParameters, MaxOf

\* There is nothing between the rewritten entry and the moved parameters.
LEMMA NothingToPad ==
  ASSUME IInv, PadZero
  PROVE  buf' = buf
<1>1. pc \in Patching
  BY DEF PadZero, Patching
<1>2. EntryEnd = NewCpOff /\ EntryEnd \in Int /\ buf \in Buffers(size)
  BY <1>1, FieldFacts
<1>3. EntryEnd..NewCpOff - 1 = {}
  BY <1>2
<1>4. buf' = [i \in DOMAIN buf |-> buf[i]]
  BY <1>3 DEF PadZero
<1> QED
  BY <1>2, <1>4 DEF Buffers

-----------------------------------------------------------------------------
(* The inductive invariant.                                                *)

LEMMA InitIInv == Init => IInv
  BY DEF Init, IInv, TypeOK, FieldsDescribe, NothingWritten, HeadroomSuffices,
         WithinCapacity, Patching, NoField, Byte

LEMMA StepIInv == IInv /\ [Next]_vars => IInv'
<1> SUFFICES ASSUME IInv, [Next]_vars PROVE IInv'
  OBVIOUS
<1> USE DEF kHeadroom
<1>1. CASE Call
  <2>1. PICK w \in Inputs :
          /\ size' = Len(w)
          /\ buf' = [i \in 0..Len(w) + kHeadroom - 1 |->
                       IF i < Len(w) THEN w[i + 1] ELSE 0]
    BY <1>1 DEF Call
  <2>2. w \in Seq(Byte)
    BY LayoutAssumption
  <2>3. buf' \in Buffers(size')
    <3>1. PICK n \in Nat : n = Len(w) /\ w \in [1..n -> Byte]
      BY <2>2
    <3>2. size' = n
      BY <2>1, <3>1
    <3>3. ASSUME NEW i \in 0..n + kHeadroom - 1
          PROVE  (IF i < n THEN w[i + 1] ELSE 0) \in Byte
      BY <3>1 DEF Byte
    <3>4. buf' = [i \in 0..n + kHeadroom - 1 |-> IF i < n THEN w[i + 1] ELSE 0]
      BY <2>1, <3>1
    <3> QED
      BY <3>2, <3>3, <3>4 DEF Buffers
  <2>4. TypeOK'
    BY <1>1, <2>1, <2>2, <2>3 DEF Call, TypeOK, NoField, Byte
  <2> QED
    BY <1>1, <2>1, <2>2, <2>4
    DEF Call, IInv, FieldsDescribe, NothingWritten, HeadroomSuffices,
        WithinCapacity, Patching, capacity
<1>2. CASE ReturnUnpatched
  <2>1. size \in Nat /\ buf \in Buffers(size) /\ buf = command
    BY <1>2 DEF ReturnUnpatched, IInv, TypeOK, NothingWritten, capacity
  <2>2. pc' = "return"
    <3>1. Accepted(buf, size) => FitsBuffer
      BY <2>1, Geometry DEF FitsBuffer, capacity, FieldOf
    <3> QED
      BY <1>2, <3>1 DEF ReturnUnpatched
  <2> QED
    BY <1>2, <2>1, <2>2
    DEF ReturnUnpatched, IInv, TypeOK, FieldsDescribe, NothingWritten,
        HeadroomSuffices, WithinCapacity, Patching, capacity
<1>3. CASE BeginPatch
  <2>1. size \in Nat /\ buf \in Buffers(size) /\ buf = command
    BY <1>3 DEF BeginPatch, IInv, TypeOK, NothingWritten, capacity
  <2>2. field' \in [nonce_off : Nat, attrs : Byte, auth_size_off : Nat,
                    auth_size : Nat, cp_off : Nat, delta : Int]
    BY <1>3, <2>1, Geometry DEF BeginPatch
  <2>3. TypeOK'
    BY <1>3, <2>2 DEF BeginPatch, IInv, TypeOK, capacity
  <2> QED
    BY <1>3, <2>1, <2>3
    DEF BeginPatch, IInv, FieldsDescribe, NothingWritten, HeadroomSuffices,
        WithinCapacity, Patching, capacity
<1>4. CASE ShiftParameters
  <2>0. pc = "shift" /\ pc' = "entry" /\ pc \in Patching
    BY <1>4 DEF ShiftParameters, Patching
  <2>1. UNCHANGED <<size, field, command>>
    BY <1>4 DEF ShiftParameters
  <2>2. buf' \in Buffers(size)
    BY <1>4, <2>0, FieldFacts, ShiftType DEF ShiftParameters
  <2>3. reach' \in Nat /\ reach' <= NewSize /\ NewSize <= capacity
    BY <1>4, <2>0, FieldFacts, ShiftReach
  <2>4. TypeOK'
    BY <2>0, <2>1, <2>2, <2>3 DEF IInv, TypeOK, capacity
  <2>5. NewSize \in Int /\ NewSize' = NewSize /\ capacity \in Int
        /\ capacity' = capacity /\ NewSize <= capacity
    BY <2>0, <2>1, FieldFacts, FitFacts DEF NewSize, capacity
  <2>6. WithinCapacity'
    BY <2>0, <2>3, <2>5 DEF WithinCapacity
  <2>7. FieldsDescribe'
    BY <2>0, <2>1 DEF IInv, FieldsDescribe
  <2> QED
    BY <2>0, <2>4, <2>6, <2>7 DEF IInv, NothingWritten, HeadroomSuffices
<1>5. CASE WriteEntry
  <2>0. pc = "entry" /\ pc' = "pad" /\ pc \in Patching
    BY <1>5 DEF WriteEntry, Patching
  <2>1. UNCHANGED <<size, field, command>>
    BY <1>5 DEF WriteEntry
  <2>2. buf' \in Buffers(size)
    <3>1. size \in Nat /\ buf \in Buffers(size) /\ field.nonce_off \in Int
      BY <2>0, FieldFacts
    <3>2. \A i \in DOMAIN NewEntry : NewEntry[i] \in Byte
      BY <2>0, EntryType
    <3>3. Write(buf, field.nonce_off, NewEntry) \in Buffers(size)
      BY <3>1, <3>2, WriteType
    <3> QED
      BY <1>5, <3>3 DEF WriteEntry
  <2>3. reach' \in Nat /\ reach' <= NewSize
    BY <1>5, <2>0, FieldFacts
    DEF WriteEntry, MaxOf, NewSize, NewCpOff, IInv, TypeOK, WithinCapacity
  <2>4. TypeOK'
    BY <2>0, <2>1, <2>2, <2>3 DEF IInv, TypeOK, capacity
  <2>5. NewSize \in Int /\ NewSize' = NewSize /\ capacity \in Int
        /\ capacity' = capacity /\ NewSize <= capacity
    BY <2>0, <2>1, FieldFacts, FitFacts DEF NewSize, capacity
  <2>6. WithinCapacity'
    BY <2>0, <2>3, <2>5 DEF WithinCapacity
  <2>7. FieldsDescribe'
    BY <2>0, <2>1 DEF IInv, FieldsDescribe
  <2> QED
    BY <2>0, <2>4, <2>6, <2>7 DEF IInv, NothingWritten, HeadroomSuffices
<1>6. CASE PadZero
  <2>0. pc = "pad" /\ pc' = "sizes" /\ pc \in Patching
    BY <1>6 DEF PadZero, Patching
  <2>1. UNCHANGED <<size, field, command>> /\ buf' = buf
    BY <1>6, NothingToPad DEF PadZero
  <2>3. reach' \in Nat /\ reach' <= NewSize
    BY <1>6, <2>0, FieldFacts
    DEF PadZero, MaxOf, NewSize, NewCpOff, IInv, TypeOK, WithinCapacity
  <2>4. TypeOK'
    BY <2>0, <2>1, <2>3 DEF IInv, TypeOK, capacity
  <2>5. NewSize \in Int /\ NewSize' = NewSize /\ capacity \in Int
        /\ capacity' = capacity /\ NewSize <= capacity
    BY <2>0, <2>1, FieldFacts, FitFacts DEF NewSize, capacity
  <2>6. WithinCapacity'
    BY <2>0, <2>3, <2>5 DEF WithinCapacity
  <2>7. FieldsDescribe'
    BY <2>0, <2>1 DEF IInv, FieldsDescribe
  <2> QED
    BY <2>0, <2>4, <2>6, <2>7 DEF IInv, NothingWritten, HeadroomSuffices
<1>7. CASE WriteSizes
  <2>0. pc = "sizes" /\ pc' = "patched" /\ pc \in Patching
    BY <1>7 DEF WriteSizes, Patching
  <2>1. UNCHANGED <<size, field, command>>
    BY <1>7 DEF WriteSizes
  <2>2. buf' \in Buffers(size)
    <3>1. /\ size \in Nat /\ buf \in Buffers(size) /\ field.auth_size_off \in Int
          /\ field.auth_size + field.delta \in Int /\ size + field.delta \in Int
      BY <2>0, FieldFacts
    <3> DEFINE v == Bytes32(field.auth_size + field.delta)
               w == Bytes32(size + field.delta)
    <3>2. v \in [0..3 -> Byte] /\ w \in [0..3 -> Byte]
      BY <3>1, BytesType
    <3> HIDE DEF v, w
    <3>3. Write(buf, field.auth_size_off, v) \in Buffers(size)
      BY <3>1, <3>2, WriteType
    <3>4. Write(Write(buf, field.auth_size_off, v), 2, w) \in Buffers(size)
      BY <3>1, <3>2, <3>3, WriteType
    <3> QED
      BY <1>7, <3>4 DEF WriteSizes, v, w
  <2>3. reach' \in Nat /\ reach' <= NewSize
    BY <1>7, <2>0, FieldFacts
    DEF WriteSizes, MaxOf, NewSize, NewCpOff, IInv, TypeOK, WithinCapacity
  <2>4. TypeOK'
    BY <2>0, <2>1, <2>2, <2>3 DEF IInv, TypeOK, capacity
  <2>5. NewSize \in Int /\ NewSize' = NewSize /\ capacity \in Int
        /\ capacity' = capacity /\ NewSize <= capacity
    BY <2>0, <2>1, FieldFacts, FitFacts DEF NewSize, capacity
  <2>6. WithinCapacity'
    BY <2>0, <2>3, <2>5 DEF WithinCapacity
  <2>7. FieldsDescribe'
    BY <2>0, <2>1 DEF IInv, FieldsDescribe
  <2> QED
    BY <2>0, <2>4, <2>6, <2>7 DEF IInv, NothingWritten, HeadroomSuffices
<1>8. CASE Return
  BY <1>8
  DEF Return, IInv, TypeOK, FieldsDescribe, NothingWritten, HeadroomSuffices,
      WithinCapacity, Patching, NoField, Byte
<1>9. CASE UNCHANGED vars
  BY <1>9
  DEF vars, IInv, TypeOK, FieldsDescribe, NothingWritten, HeadroomSuffices,
      WithinCapacity, Patching, capacity, NewSize
<1> QED
  BY <1>1, <1>2, <1>3, <1>4, <1>5, <1>6, <1>7, <1>8, <1>9 DEF Next

\* The inductive invariant holds in every reachable state.
THEOREM Invariance == Spec => []IInv
  BY InitIInv, StepIInv, PTL DEF Spec

-----------------------------------------------------------------------------
(* The contents of the buffer while it is rewritten.                       *)

HeadKept == \A i \in Nat : i < field.nonce_off => buf[i] = command[i]

ParametersMoved ==
  \A i \in Nat : field.cp_off <= i /\ i < size =>
    buf[i + field.delta] = command[i]

EntryWritten == \A i \in Nat : i < 53 => buf[field.nonce_off + i] = NewEntry[i]

\* The head of the patched command: the seed's, but for its two size fields.
HeadPatched ==
  \A i \in Nat : i < field.nonce_off =>
    buf[i] = IF i \in {2, 3, 4, 5} THEN Bytes32(size + field.delta)[i - 2]
             ELSE IF field.auth_size_off <= i /\ i < field.auth_size_off + 4
               THEN Bytes32(field.auth_size + field.delta)[i - field.auth_size_off]
             ELSE command[i]

Contents ==
  /\ pc # "idle" => size <= kMaxBuffer
  /\ pc \in {"entry", "pad", "sizes"} => HeadKept
  /\ pc \in {"entry", "pad", "sizes", "patched"} => ParametersMoved
  /\ pc \in {"pad", "sizes", "patched"} => EntryWritten
  /\ pc = "patched" => HeadPatched

\* The buffer c is b with the k bytes of s in place from off on.
Placed(c, n, b, off, k, s) ==
  /\ \A i \in Nat : i < off => c[i] = b[i]
  /\ \A i \in Nat : off + k <= i /\ i < n + kHeadroom => c[i] = b[i]
  /\ \A i \in Nat : i < k => c[off + i] = s[i]

\* What a write leaves and what it puts in place.
LEMMA WriteAt ==
  ASSUME NEW n \in Nat, NEW b \in Buffers(n), NEW off \in Nat, NEW k \in Nat,
         NEW s, DOMAIN s = 0..k - 1, off + k <= n + kHeadroom
  PROVE  Placed(Write(b, off, s), n, b, off, k, s)
<1> DEFINE last == n + kHeadroom - 1
<1>1. kHeadroom = 64
  BY DEF kHeadroom
<1>2. DOMAIN b = 0..last
  BY DEF Buffers
<1>3. Write(b, off, s) =
        [i \in 0..last |-> IF i - off \in 0..k - 1 THEN s[i - off] ELSE b[i]]
  BY <1>2 DEF Write
<1> HIDE DEF last
<1>4. last = n + 63 /\ last \in Int
  BY <1>1 DEF last
<1>5. ASSUME NEW i \in Nat, i < off
      PROVE  Write(b, off, s)[i] = b[i]
  BY <1>1, <1>3, <1>4, <1>5
<1>6. ASSUME NEW i \in Nat, off + k <= i, i < n + kHeadroom
      PROVE  Write(b, off, s)[i] = b[i]
  BY <1>1, <1>3, <1>4, <1>6
<1>7. ASSUME NEW i \in Nat, i < k
      PROVE  Write(b, off, s)[off + i] = s[i]
  <2>1. off + i \in 0..last /\ (off + i) - off = i /\ i \in 0..k - 1
    BY <1>1, <1>4, <1>7
  <2> QED
    BY <1>3, <2>1
<1> QED
  BY <1>5, <1>6, <1>7 DEF Placed

\* Four bytes hold every size that the marshaller's buffer admits.
LEMMA Bytes32RoundTrip ==
  ASSUME NEW v \in Nat, v \div 65536 <= 255
  PROVE  /\ DOMAIN Bytes32(v) = 0..3
         /\ 65536 * (256 * Bytes32(v)[0] + Bytes32(v)[1])
              + (256 * Bytes32(v)[2] + Bytes32(v)[3]) = v
<1> DEFINE q == v \div 65536
<1>1. q \in Nat /\ q <= 255
  BY SMT
<1>2. /\ Bytes32(v)[0] = (q \div 256) % 256
      /\ Bytes32(v)[1] = q % 256
      /\ Bytes32(v)[2] = (v \div 256) % 256
      /\ Bytes32(v)[3] = v % 256
  BY SMT DEF Bytes32, Bytes16
<1>3. (65536 * q) + (256 * ((v \div 256) % 256)) + (v % 256) = v
  BY SMT
<1> HIDE DEF q
<1>4. (q \div 256) % 256 = 0 /\ q % 256 = q
  BY <1>1, SMT
<1>5. DOMAIN Bytes32(v) = 0..3
  BY DEF Bytes32
<1> DEFINE c == (v \div 256) % 256
           d == v % 256
<1>6. c \in Nat /\ d \in Nat
  BY SMT
<1>7. /\ Bytes32(v)[0] = 0 /\ Bytes32(v)[1] = q
      /\ Bytes32(v)[2] = c /\ Bytes32(v)[3] = d
      /\ (65536 * q) + (256 * c) + d = v
  BY <1>2, <1>3, <1>4
<1> HIDE DEF c, d
<1>8. 65536 * (256 * 0 + q) + (256 * c + d) = v
  BY <1>1, <1>6, <1>7, SMT
<1> QED
  BY <1>5, <1>7, <1>8

\* What ShiftParameters puts in place, whether it has anything to move or not.
LEMMA ShiftContents ==
  ASSUME IInv, ShiftParameters
  PROVE  HeadKept' /\ ParametersMoved'
<1>1. pc \in Patching /\ pc = "shift" /\ buf = command
  BY DEF ShiftParameters, Patching, IInv, NothingWritten
<1>2. UNCHANGED <<size, field, command>>
  BY DEF ShiftParameters
<1>3. /\ size \in Nat /\ buf \in Buffers(size)
      /\ field.nonce_off \in Nat /\ field.cp_off \in Nat /\ field.delta \in Int
      /\ field.cp_off <= size /\ field.delta <= kHeadroom
      /\ NewCpOff = field.nonce_off + 53
  BY <1>1, FieldFacts
<1> DEFINE n == size - field.cp_off
           s == Slice(buf, field.cp_off, n)
<1>4. CASE n > 0 /\ field.delta # 0
  <2>1. buf' = Write(buf, NewCpOff, s)
    BY <1>4 DEF ShiftParameters, Memmove
  <2>2. n \in Nat /\ DOMAIN s = 0..n - 1
    BY <1>3 DEF Slice
  <2>3. \A j \in Nat : j < n => s[j] = buf[field.cp_off + j]
    BY <2>2 DEF Slice
  <2>4. NewCpOff \in Nat /\ NewCpOff + n <= size + kHeadroom
        /\ NewCpOff = field.cp_off + field.delta
    BY <1>3 DEF NewCpOff, kHeadroom
  <2> HIDE DEF s, n
  <2>5. Placed(buf', size, buf, NewCpOff, n, s)
    BY <1>3, <2>1, <2>2, <2>4, WriteAt
  <2>6. \A i \in Nat : i < field.nonce_off => buf'[i] = buf[i]
    BY <1>3, <2>4, <2>5 DEF Placed
  <2>7. ASSUME NEW i \in Nat, field.cp_off <= i, i < size
        PROVE  buf'[i + field.delta] = buf[i]
    <3>1. i - field.cp_off \in Nat /\ i - field.cp_off < n
      BY <1>3, <2>7 DEF n
    <3>2. NewCpOff + (i - field.cp_off) = i + field.delta
          /\ field.cp_off + (i - field.cp_off) = i
      BY <1>3, <2>4
    <3> QED
      BY <2>3, <2>5, <3>1, <3>2 DEF Placed
  <2> QED
    BY <1>1, <1>2, <2>6, <2>7 DEF HeadKept, ParametersMoved
<1>5. CASE ~ (n > 0 /\ field.delta # 0)
  <2>1. buf' = buf
    BY <1>5 DEF ShiftParameters
  <2>2. ASSUME NEW i \in Nat, field.cp_off <= i, i < size
        PROVE  i + field.delta = i
    BY <1>3, <1>5, <2>2
  <2> QED
    BY <1>1, <1>2, <2>1, <2>2 DEF HeadKept, ParametersMoved
<1> QED
  BY <1>4, <1>5

\* WriteEntry puts the entry in place between the head and the parameters.
LEMMA EntryContents ==
  ASSUME IInv, Contents, WriteEntry
  PROVE  HeadKept' /\ ParametersMoved' /\ EntryWritten'
<1>1. pc \in Patching /\ HeadKept /\ ParametersMoved
  BY DEF WriteEntry, Patching, Contents
<1>2. UNCHANGED <<size, field, command>>
  BY DEF WriteEntry
<1>3. /\ size \in Nat /\ buf \in Buffers(size)
      /\ field.nonce_off \in Nat /\ field.cp_off \in Nat /\ field.delta \in Int
      /\ field.cp_off <= size /\ field.delta <= kHeadroom
      /\ field.cp_off + field.delta = field.nonce_off + 53
  BY <1>1, FieldFacts DEF NewCpOff
<1>4. DOMAIN NewEntry = 0..53 - 1
  BY <1>1, EntryFields
<1>5. field.nonce_off + 53 <= size + kHeadroom
  BY <1>3 DEF kHeadroom
<1>6. buf' = Write(buf, field.nonce_off, NewEntry)
  BY DEF WriteEntry
<1>7. Placed(buf', size, buf, field.nonce_off, 53, NewEntry)
  BY <1>3, <1>4, <1>5, <1>6, WriteAt
<1>8. NewEntry' = NewEntry
  BY <1>2 DEF NewEntry, EntryEnd
<1>9. ASSUME NEW i \in Nat, field.cp_off <= i, i < size
      PROVE  buf'[i + field.delta] = command[i]
  <2>1. i + field.delta \in Nat /\ field.nonce_off + 53 <= i + field.delta
        /\ i + field.delta < size + kHeadroom
    BY <1>3, <1>9 DEF kHeadroom
  <2> QED
    BY <1>1, <1>7, <1>9, <2>1 DEF ParametersMoved, Placed
<1> QED
  BY <1>1, <1>2, <1>7, <1>8, <1>9
  DEF HeadKept, ParametersMoved, EntryWritten, Placed

\* WriteSizes changes the two size fields of the head and nothing behind it.
LEMMA SizesContents ==
  ASSUME IInv, Contents, WriteSizes
  PROVE  HeadPatched' /\ ParametersMoved' /\ EntryWritten'
<1>1. pc \in Patching /\ HeadKept /\ ParametersMoved /\ EntryWritten
  BY DEF WriteSizes, Patching, Contents
<1>2. UNCHANGED <<size, field, command>>
  BY DEF WriteSizes
<1>3. /\ size \in Nat /\ buf \in Buffers(size)
      /\ field.nonce_off \in Nat /\ field.cp_off \in Nat /\ field.delta \in Int
      /\ field.cp_off <= size /\ field.delta <= kHeadroom
      /\ field.cp_off + field.delta = field.nonce_off + 53
      /\ field.auth_size_off \in Nat /\ field.auth_size_off >= 10
      /\ field.nonce_off = field.auth_size_off + 8 /\ field.nonce_off < size
      /\ field.auth_size + field.delta \in Int /\ size + field.delta \in Int
  BY <1>1, FieldFacts, FieldInside DEF NewCpOff
<1> DEFINE v == Bytes32(field.auth_size + field.delta)
           w == Bytes32(size + field.delta)
           mid == Write(buf, field.auth_size_off, v)
<1>4. v \in [0..3 -> Byte] /\ w \in [0..3 -> Byte]
  BY <1>3, BytesType
<1>5. buf' = Write(mid, 2, w)
  BY DEF WriteSizes
<1> HIDE DEF v, w
<1>6. mid \in Buffers(size)
  BY <1>3, <1>4, WriteType
<1>7. DOMAIN v = 0..4 - 1 /\ DOMAIN w = 0..4 - 1
  BY <1>4
<1>8. field.auth_size_off + 4 <= size + kHeadroom /\ 2 + 4 <= size + kHeadroom
  BY <1>3 DEF kHeadroom
<1>9. Placed(mid, size, buf, field.auth_size_off, 4, v)
  BY <1>3, <1>7, <1>8, WriteAt
<1> HIDE DEF mid
<1>10. Placed(buf', size, mid, 2, 4, w)
  BY <1>3, <1>5, <1>6, <1>7, <1>8, WriteAt
<1>11. ASSUME NEW i \in Nat, field.nonce_off <= i, i < size + kHeadroom
       PROVE  buf'[i] = buf[i]
  BY <1>3, <1>9, <1>10, <1>11 DEF Placed
<1>12. ParametersMoved'
  <2> SUFFICES ASSUME NEW i \in Nat, field.cp_off <= i, i < size
               PROVE  buf'[i + field.delta] = command[i]
    BY <1>2 DEF ParametersMoved
  <2>1. i + field.delta \in Nat /\ field.nonce_off <= i + field.delta
        /\ i + field.delta < size + kHeadroom
    BY <1>3 DEF kHeadroom
  <2> QED
    BY <1>1, <1>11, <2>1 DEF ParametersMoved
<1>13. EntryWritten'
  <2>1. NewEntry' = NewEntry
    BY <1>2 DEF NewEntry, EntryEnd
  <2> SUFFICES ASSUME NEW i \in Nat, i < 53
               PROVE  buf'[field.nonce_off + i] = NewEntry[i]
    BY <1>2, <2>1 DEF EntryWritten
  <2>2. field.nonce_off + i \in Nat /\ field.nonce_off <= field.nonce_off + i
        /\ field.nonce_off + i < size + kHeadroom
    BY <1>3 DEF kHeadroom
  <2> QED
    BY <1>1, <1>11, <2>2 DEF EntryWritten
<1>14. HeadPatched'
  <2> SUFFICES ASSUME NEW i \in Nat, i < field.nonce_off
               PROVE  buf'[i] =
                        IF i \in {2, 3, 4, 5} THEN w[i - 2]
                        ELSE IF field.auth_size_off <= i
                                  /\ i < field.auth_size_off + 4
                          THEN v[i - field.auth_size_off]
                        ELSE command[i]
    BY <1>2 DEF HeadPatched, v, w
  <2>1. i < size + kHeadroom /\ buf[i] = command[i]
    BY <1>1, <1>3 DEF HeadKept, kHeadroom
  <2>2. CASE i \in {2, 3, 4, 5}
    <3>1. i - 2 \in Nat /\ i - 2 < 4 /\ 2 + (i - 2) = i
      BY <2>2
    <3> QED
      BY <1>10, <2>2, <3>1 DEF Placed
  <2>3. CASE field.auth_size_off <= i /\ i < field.auth_size_off + 4
    <3>1. /\ i - field.auth_size_off \in Nat /\ i - field.auth_size_off < 4
          /\ field.auth_size_off + (i - field.auth_size_off) = i
          /\ 2 + 4 <= i /\ i \notin {2, 3, 4, 5}
      BY <1>3, <2>3
    <3> QED
      BY <1>9, <1>10, <2>1, <2>3, <3>1 DEF Placed
  <2>4. CASE /\ i \notin {2, 3, 4, 5}
             /\ ~ (field.auth_size_off <= i /\ i < field.auth_size_off + 4)
    <3>1. i < 2 \/ 2 + 4 <= i
      BY <2>4
    <3>2. i < field.auth_size_off \/ field.auth_size_off + 4 <= i
      BY <1>3, <2>4
    <3> QED
      BY <1>9, <1>10, <2>1, <2>4, <3>1, <3>2 DEF Placed
  <2> QED
    BY <2>2, <2>3, <2>4
<1> QED
  BY <1>12, <1>13, <1>14

LEMMA InitContents == Init => Contents
  BY DEF Init, Contents

LEMMA StepContents == IInv /\ Contents /\ [Next]_vars => Contents'
<1> SUFFICES ASSUME IInv, Contents, [Next]_vars PROVE Contents'
  OBVIOUS
<1>1. CASE Call
  <2>1. PICK w \in Inputs : size' = Len(w)
    BY <1>1 DEF Call
  <2>2. size' <= kMaxBuffer
    BY <2>1, LayoutAssumption
  <2> QED
    BY <1>1, <2>2 DEF Call, Contents
<1>2. CASE ReturnUnpatched
  BY <1>2 DEF ReturnUnpatched, Contents
<1>3. CASE BeginPatch
  BY <1>3 DEF BeginPatch, Contents
<1>4. CASE ShiftParameters
  BY <1>4, ShiftContents DEF ShiftParameters, Contents
<1>5. CASE WriteEntry
  BY <1>5, EntryContents DEF WriteEntry, Contents
<1>6. CASE PadZero
  <2>1. UNCHANGED <<buf, size, field, command>>
    BY <1>6, NothingToPad DEF PadZero
  <2>2. NewEntry' = NewEntry
    BY <2>1 DEF NewEntry, EntryEnd
  <2> QED
    BY <1>6, <2>1, <2>2
    DEF PadZero, Contents, HeadKept, ParametersMoved, EntryWritten
<1>7. CASE WriteSizes
  BY <1>7, SizesContents DEF WriteSizes, Contents
<1>8. CASE Return
  BY <1>8 DEF Return, Contents
<1>9. CASE UNCHANGED vars
  <2>1. NewEntry' = NewEntry
    BY <1>9 DEF vars, NewEntry, EntryEnd
  <2> QED
    BY <1>9, <2>1
    DEF vars, Contents, HeadKept, ParametersMoved, EntryWritten, HeadPatched
<1> QED
  BY <1>1, <1>2, <1>3, <1>4, <1>5, <1>6, <1>7, <1>8, <1>9 DEF Next

-----------------------------------------------------------------------------
(* The patched command parses again.                                       *)

\* The head of a patched command: the header, the handles and the two sizes.
LEMMA PatchedHead ==
  ASSUME IInv, Contents, pc = "patched"
  PROVE  /\ HeaderAccepted(buf, NewSize)
         /\ AuthSizeOff(buf) = field.auth_size_off
         /\ AuthSizeOff(command) = field.auth_size_off
         /\ AuthSize(buf) = 57
         /\ Read32(buf, AuthOff(buf)) = ArmedHandle
         /\ \A i \in Nat : 6 <= i /\ i < field.auth_size_off =>
              buf[i] = command[i]
<1> DEFINE aso == field.auth_size_off
<1>1. pc \in Patching /\ HeadPatched /\ size <= kMaxBuffer
  BY DEF Contents, Patching
<1>2. Accepted(command, size) /\ field = FieldOf(command)
  BY <1>1 DEF IInv, FieldsDescribe
<1>3. /\ size \in Nat /\ aso \in Nat /\ aso >= 10
      /\ field.nonce_off = aso + 8
      /\ field.auth_size \in Nat /\ field.delta \in Int
      /\ field.cp_off = aso + 4 + field.auth_size
      /\ field.cp_off + field.delta = field.nonce_off + 53
      /\ field.delta <= kHeadroom /\ field.cp_off <= size
  BY <1>1, FieldFacts DEF NewCpOff
<1>4. AuthSizeOff(command) = aso
  BY <1>2 DEF FieldOf
<1>5. field.auth_size + field.delta = 57 /\ NewSize >= 10
  BY <1>3 DEF NewSize
<1> HIDE DEF aso
<1>6. \A i \in Nat : i < aso + 8 =>
        buf[i] = IF i \in {2, 3, 4, 5} THEN Bytes32(NewSize)[i - 2]
                 ELSE IF aso <= i /\ i < aso + 4 THEN Bytes32(57)[i - aso]
                 ELSE command[i]
  BY <1>1, <1>3, <1>5 DEF HeadPatched, NewSize, aso
<1>7. \A i \in Nat : 6 <= i /\ i < aso => buf[i] = command[i]
  BY <1>3, <1>6
<1>8. Read16(buf, 0) = Read16(command, 0)
  BY <1>3, <1>6 DEF Read16
<1>9. Read32(buf, 6) = Read32(command, 6)
  BY <1>3, <1>7 DEF Read32, Read16
<1>10. Read32(buf, 2) = NewSize
  <2>1. NewSize \in Nat /\ NewSize \div 65536 <= 255
    <3>1. NewSize \in Nat /\ NewSize <= size + 64
      BY <1>1, <1>3, FitFacts DEF NewSize, kHeadroom
    <3>2. \A n \in Nat : n <= size + 64 => n \div 65536 <= 255
      BY <1>1, <1>3, SMT DEF kMaxBuffer
    <3> QED
      BY <3>1, <3>2
  <2>2. /\ buf[2] = Bytes32(NewSize)[0] /\ buf[2 + 1] = Bytes32(NewSize)[1]
        /\ buf[2 + 2] = Bytes32(NewSize)[2] /\ buf[2 + 2 + 1] = Bytes32(NewSize)[3]
    BY <1>3, <1>6
  <2> QED
    BY <2>1, <2>2, Bytes32RoundTrip DEF Read32, Read16
<1>11. Read32(buf, aso) = 57
  <2>1. 57 \in Nat /\ 57 \div 65536 <= 255
    BY SMT
  <2>2. /\ buf[aso] = Bytes32(57)[0] /\ buf[aso + 1] = Bytes32(57)[1]
        /\ buf[aso + 2] = Bytes32(57)[2] /\ buf[aso + 2 + 1] = Bytes32(57)[3]
    BY <1>3, <1>6
  <2> QED
    BY <2>1, <2>2, Bytes32RoundTrip DEF Read32, Read16
<1>12. Read32(buf, aso + 4) = Read32(command, aso + 4)
  <2>1. \A j \in {0, 1, 2, 3} : buf[aso + 4 + j] = command[aso + 4 + j]
    BY <1>3, <1>6
  <2> QED
    BY <1>3, <2>1 DEF Read32, Read16
<1>13. HeaderAccepted(buf, NewSize) /\ AuthSizeOff(buf) = aso
  <2>1. HeaderAccepted(command, size)
    BY <1>2 DEF Accepted
  <2>2. AuthSizeOff(buf) = AuthSizeOff(command)
    BY <1>9 DEF AuthSizeOff
  <2> QED
    BY <1>4, <1>5, <1>8, <1>9, <1>10, <2>1, <2>2 DEF HeaderAccepted, kHeaderSize
<1>14. AuthSize(buf) = 57
  BY <1>11, <1>13 DEF AuthSize
<1>15. Read32(command, aso + 4) = ArmedHandle
  BY <1>2, <1>4 DEF Accepted, EntryParses, AuthOff
<1>16. Read32(buf, AuthOff(buf)) = ArmedHandle
  BY <1>12, <1>13, <1>15 DEF AuthOff
<1> QED
  BY <1>4, <1>7, <1>13, <1>14, <1>16 DEF aso

LEMMA ContentsReparse == IInv /\ Contents => PatchedReparses
<1> SUFFICES ASSUME IInv, Contents, pc = "patched"
             PROVE  /\ Accepted(buf, NewSize)
                    /\ NonceSize(buf) = 16
                    /\ Slice(buf, NonceOff(buf) + 2, 16) = NonceCaller
                    /\ buf[AttrsOff(buf)] = command[AttrsOff(command)]
                    /\ HmacSize(buf) = 32
                    /\ Slice(buf, HmacOff(buf) + 2, 32) = Hmac
                    /\ Slice(buf, 6, AuthSizeOff(buf) - 6)
                         = Slice(command, 6, AuthSizeOff(command) - 6)
                    /\ Slice(buf, AuthEnd(buf), NewSize - AuthEnd(buf))
                         = Slice(command, AuthEnd(command),
                                 size - AuthEnd(command))
  BY DEF PatchedReparses, kNonceCallerSize, kHmacSize
<1> DEFINE aso == field.auth_size_off
           no == field.nonce_off
<1>1. pc \in Patching /\ ParametersMoved /\ EntryWritten
  BY DEF Contents, Patching
<1>2. Accepted(command, size) /\ field = FieldOf(command)
  BY <1>1 DEF IInv, FieldsDescribe
<1>3. /\ size \in Nat /\ aso \in Nat /\ aso >= 10 /\ no = aso + 8 /\ no \in Nat
      /\ field.cp_off \in Nat /\ field.delta \in Int /\ field.cp_off <= size
      /\ field.cp_off + field.delta = no + 53
  BY <1>1, FieldFacts DEF NewCpOff
<1>4. AuthEnd(command) = field.cp_off /\ command[AttrsOff(command)] = field.attrs
  BY <1>2 DEF FieldOf
<1>5. /\ HeaderAccepted(buf, NewSize)
      /\ AuthSizeOff(buf) = aso /\ AuthSizeOff(command) = aso
      /\ AuthSize(buf) = 57
      /\ Read32(buf, AuthOff(buf)) = ArmedHandle
      /\ \A i \in Nat : 6 <= i /\ i < aso => buf[i] = command[i]
  BY PatchedHead
<1>6. /\ \A i \in Nat : i < 53 => buf[no + i] = NewEntry[i]
      /\ \A i \in Nat : field.cp_off <= i /\ i < size =>
           buf[i + field.delta] = command[i]
  BY <1>1 DEF EntryWritten, ParametersMoved
<1>7. NewSize = size + field.delta
  BY DEF NewSize
<1> HIDE DEF aso, no
<1>8. AuthOff(buf) = aso + 4 /\ AuthEnd(buf) = no + 53 /\ NonceOff(buf) = no
  BY <1>3, <1>5 DEF AuthOff, AuthEnd, NonceOff
<1>9. /\ NewEntry[0] = 0 /\ NewEntry[1] = 16
      /\ \A i \in Nat : 2 <= i /\ i < 18 => NewEntry[i] = 170
      /\ NewEntry[18] = field.attrs
      /\ NewEntry[19] = 0 /\ NewEntry[20] = 32
      /\ \A i \in Nat : 21 <= i /\ i < 53 => NewEntry[i] = Hmac[i - 21]
  BY <1>1, EntryFields
<1>10. NonceSize(buf) = 16
  <2>1. buf[no + 0] = 0 /\ buf[no + 1] = 16
    BY <1>6, <1>9
  <2> QED
    BY <1>3, <1>8, <2>1 DEF NonceSize, Read16
<1>11. AttrsOff(buf) = no + 18 /\ HmacOff(buf) = no + 19
  BY <1>3, <1>8, <1>10 DEF AttrsOff, HmacOff
<1>12. HmacSize(buf) = 32
  <2>1. buf[no + 19] = 0 /\ buf[no + 20] = 32
    BY <1>6, <1>9
  <2>2. no + 19 + 1 = no + 20
    BY <1>3
  <2> QED
    BY <1>11, <2>1, <2>2 DEF HmacSize, Read16
<1>13. Accepted(buf, NewSize)
  <2>1. FindAuthArea(buf, NewSize)
    BY <1>3, <1>5, <1>7, <1>8 DEF FindAuthArea
  <2>2. EntryParses(buf)
    BY <1>3, <1>5, <1>8, <1>11, <1>12 DEF EntryParses
  <2> QED
    BY <1>5, <2>1, <2>2 DEF Accepted
<1>14. Slice(buf, NonceOff(buf) + 2, 16) = NonceCaller
  <2>1. \A i \in Nat : i < 16 => buf[no + 2 + i] = 170
    <3> SUFFICES ASSUME NEW i \in Nat, i < 16 PROVE buf[no + 2 + i] = 170
      OBVIOUS
    <3>1. 2 + i \in Nat /\ 2 <= 2 + i /\ 2 + i < 18 /\ no + 2 + i = no + (2 + i)
      BY <1>3
    <3> QED
      BY <1>6, <1>9, <3>1
  <2> QED
    BY <1>8, <2>1 DEF Slice, NonceCaller, kNonceCallerSize, kNonceCallerFill
<1>15. Slice(buf, HmacOff(buf) + 2, 32) = Hmac
  <2>1. \A i \in Nat : i < 32 => buf[no + 21 + i] = Hmac[i]
    <3> SUFFICES ASSUME NEW i \in Nat, i < 32 PROVE buf[no + 21 + i] = Hmac[i]
      OBVIOUS
    <3>1. 21 + i \in Nat /\ 21 <= 21 + i /\ 21 + i < 53
          /\ no + 21 + i = no + (21 + i) /\ (21 + i) - 21 = i
      BY <1>3
    <3> QED
      BY <1>6, <1>9, <3>1
  <2>2. HmacOff(buf) + 2 = no + 21
    BY <1>3, <1>11
  <2>3. kHmacSize = 32
    BY DEF kHmacSize
  <2>4. Hmac = [i \in 0..kHmacSize - 1 |-> Hmac[i]]
    BY LayoutAssumption
  <2>5. \A i \in 0..kHmacSize - 1 : buf[no + 21 + i] = Hmac[i]
    <3>1. \A i \in 0..kHmacSize - 1 : i \in Nat /\ i < 32
      BY <2>3, SMT
    <3> QED
      BY <2>1, <3>1
  <2>6. Slice(buf, no + 21, kHmacSize) = [i \in 0..kHmacSize - 1 |-> Hmac[i]]
    BY <2>5 DEF Slice
  <2>7. Slice(buf, no + 21, kHmacSize) = Hmac
    BY <2>4, <2>6
  <2> QED
    BY <2>2, <2>3, <2>7
<1>16. buf[AttrsOff(buf)] = command[AttrsOff(command)]
  BY <1>4, <1>6, <1>9, <1>11
<1>17. Slice(buf, 6, AuthSizeOff(buf) - 6) = Slice(command, 6, AuthSizeOff(command) - 6)
  <2>1. \A i \in 0..aso - 6 - 1 : buf[6 + i] = command[6 + i]
    BY <1>3, <1>5
  <2> QED
    BY <1>5, <2>1 DEF Slice
<1>18. Slice(buf, AuthEnd(buf), NewSize - AuthEnd(buf))
         = Slice(command, AuthEnd(command), size - AuthEnd(command))
  <2> DEFINE n == size - field.cp_off
  <2>1. NewSize - AuthEnd(buf) = n
    BY <1>3, <1>7, <1>8
  <2>2. ASSUME NEW i \in 0..n - 1
        PROVE  buf[no + 53 + i] = command[field.cp_off + i]
    <3>1. /\ field.cp_off + i \in Nat /\ field.cp_off <= field.cp_off + i
          /\ field.cp_off + i < size
          /\ field.cp_off + i + field.delta = no + 53 + i
      BY <1>3
    <3> QED
      BY <1>6, <3>1
  <2> HIDE DEF n
  <2>3. size - AuthEnd(command) = n
    BY <1>4 DEF n
  <2> QED
    BY <1>4, <1>8, <2>1, <2>2, <2>3 DEF Slice
<1> QED
  BY <1>5, <1>10, <1>12, <1>13, <1>14, <1>15, <1>16, <1>17, <1>18

-----------------------------------------------------------------------------
(* What follows from it.                                                   *)

\* Every variable keeps its type: the patching never changes the size of the
\* buffer or stores what is not a byte (PatchAuthArea).
THEOREM TypeCorrectness == Spec => []TypeOK
<1>1. IInv => TypeOK
  BY DEF IInv
<1> QED
  BY <1>1, Invariance, PTL

\* The 64 bytes that proto-fuzzer.cc leaves behind a command are enough for any
\* command that PatchAuthArea is called on.
THEOREM HeadroomAlwaysSuffices == Spec => []HeadroomSuffices
<1>1. IInv => HeadroomSuffices
  BY DEF IInv
<1> QED
  BY <1>1, Invariance, PTL

\* Every write of PatchAuthArea lies inside the buffer, and inside the command
\* that is sent.
THEOREM WritesStayInside == Spec => []WithinCapacity
<1>1. IInv => WithinCapacity
  BY DEF IInv
<1> QED
  BY <1>1, Invariance, PTL

\* Every command that PatchAuthArea is called on is rewritten, and only in the
\* buffer that proto-fuzzer.cc leaves for it.
THEOREM PatchAlwaysFits == Spec => []PatchFitsRoom
  BY HeadroomAlwaysSuffices, WritesStayInside, PTL DEF PatchFitsRoom

\* The padding loop of PatchAuthArea never has a byte to zero.
THEOREM PaddingIsDead == Spec => PaddingNeverWrites
<1>1. IInv /\ [Next]_vars => [PadZero => buf' = buf]_vars
  BY NothingToPad
<1> QED
  BY <1>1, Invariance, PTL DEF Spec, PaddingNeverWrites

\* Whatever the sizes of the seed's nonce and HMAC, the patched command parses
\* again: the armed session's entry holds the layer's nonce and HMAC, both size
\* fields agree, and the rest is the seed's (session_auth.cc:393-422).
THEOREM PatchIsWellFormed == Spec => []PatchedReparses
<1>1. Spec => [](IInv /\ Contents)
  <2>1. Init => IInv /\ Contents
    BY InitIInv, InitContents
  <2>2. (IInv /\ Contents) /\ [Next]_vars => (IInv /\ Contents)'
    BY StepIInv, StepContents
  <2> QED
    BY <2>1, <2>2, PTL DEF Spec
<1> QED
  BY <1>1, ContentsReparse, PTL
==============================================================================
