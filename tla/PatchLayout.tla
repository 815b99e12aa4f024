----------------------------- MODULE PatchLayout -----------------------------
(***************************************************************************)
(* The byte layout of a command under SessionAuthPatchCommand              *)
(* (src/harness/session_auth.cc): where the authorization area is found,   *)
(* and how PatchAuthArea makes room for a 16 byte nonceCaller and a 32     *)
(* byte HMAC in place, one memory operation after another.                 *)
(*                                                                         *)
(* The input is any string of bytes.  What SessionAuth models of the call  *)
(* is left open here: whether the Names of the handles are known is a      *)
(* choice, and the HMAC is any 32 bytes.                                   *)
(*                                                                         *)
(* The buffer is a function from its addresses, from 0 as in the code, to  *)
(* bytes.                                                                  *)
(***************************************************************************)
EXTENDS Integers, Sequences

CONSTANTS
  Inputs,        \* the commands of MarshalCommand
  HandleCount,   \* LookupCommandAttr: from command codes to handle counts
  ArmedHandle,   \* g_session.handle
  Hmac           \* what ComputeHmac returns

Byte == {v \in Nat : v <= 255}

kHeaderSize == 10
kNonceCallerSize == 16
kNonceCallerFill == 170
kHmacSize == 32
TPM2_ST_SESSIONS == 32770

\* What the driver adds to the command before the call.
kHeadroom == 64

\* The size of the marshaller's buffer (proto_conversion.cc:15).
kMaxBuffer == 1048576

ASSUME LayoutAssumption ==
  /\ \A w \in Inputs : w \in Seq(Byte) /\ Len(w) <= kMaxBuffer
  /\ \A cc \in DOMAIN HandleCount : HandleCount[cc] \in Nat
  /\ Hmac \in [0..kHmacSize - 1 -> Byte]

VARIABLES
  pc,
  buf,       \* the command buffer
  size,      \* command_size, and what the call returns
  field,     \* the local variables of the call
  command,   \* the bytes of the command as it came (history)
  reach      \* one past the highest address written (history)

vars == <<pc, buf, size, field, command, reach>>

-----------------------------------------------------------------------------
(* Memory.                                                                 *)

capacity == size + kHeadroom

\* The buffers that the driver hands over with a command of n bytes.
Buffers(n) == [0..n + kHeadroom - 1 -> Byte]

Read16(b, off) == 256 * b[off] + b[off + 1]
Read32(b, off) == 65536 * Read16(b, off) + Read16(b, off + 2)

\* The bytes of the string s, from address off on.
Write(b, off, s) ==
  [i \in DOMAIN b |-> IF i - off \in DOMAIN s THEN s[i - off] ELSE b[i]]

Bytes16(v) == [i \in 0..1 |-> IF i = 0 THEN (v \div 256) % 256 ELSE v % 256]
Bytes32(v) ==
  [i \in 0..3 |-> IF i < 2 THEN Bytes16(v \div 65536)[i] ELSE Bytes16(v)[i - 2]]

Slice(b, off, n) == [i \in 0..n - 1 |-> b[off + i]]

\* Variant: a copy in ascending order, which reads what it has overwritten.
MemcpyAscending(b, dst, src, n) ==
  [i \in DOMAIN b |->
     IF i - dst \in 0..n - 1
       THEN IF dst > src THEN b[src + ((i - dst) % (dst - src))]
                         ELSE b[i - dst + src]
       ELSE b[i]]

Memmove(b, dst, src, n) == Write(b, dst, Slice(b, src, n))

NonceCaller == [i \in 0..kNonceCallerSize - 1 |-> kNonceCallerFill]

-----------------------------------------------------------------------------
(* SessionAuthPatchCommand up to the call of PatchAuthArea.                *)

\* The guards on the header, StartAuthSession aside: it is not authorized, and
\* so not in the domain of HandleCount.
HeaderAccepted(b, n) ==
  /\ n >= kHeaderSize
  /\ Read32(b, 2) = n
  /\ Read16(b, 0) = TPM2_ST_SESSIONS
  /\ Read32(b, 6) \in DOMAIN HandleCount

AuthSizeOff(b) == kHeaderSize + 4 * HandleCount[Read32(b, 6)]
AuthOff(b) == AuthSizeOff(b) + 4
AuthSize(b) == Read32(b, AuthSizeOff(b))
AuthEnd(b) == AuthOff(b) + AuthSize(b)

FindAuthArea(b, n) ==
  /\ AuthSizeOff(b) + 4 <= n
  /\ AuthEnd(b) <= n

NonceOff(b) == AuthOff(b) + 4
NonceSize(b) == Read16(b, NonceOff(b))
AttrsOff(b) == NonceOff(b) + 2 + NonceSize(b)
HmacOff(b) == AttrsOff(b) + 1
HmacSize(b) == Read16(b, HmacOff(b))

\* Variant: an area with entries after the first one is patched too.
EntryParsesAnyEnd(b) ==
  /\ AuthOff(b) + 4 <= AuthEnd(b)
  /\ Read32(b, AuthOff(b)) = ArmedHandle
  /\ NonceOff(b) + 2 <= AuthEnd(b)
  /\ AttrsOff(b) + 1 <= AuthEnd(b)
  /\ HmacOff(b) + 2 <= AuthEnd(b)

\* Each field is read only once its end is known to lie in the area, and the
\* entry must fill the area.
EntryParses(b) ==
  /\ AuthOff(b) + 4 <= AuthEnd(b)
  /\ Read32(b, AuthOff(b)) = ArmedHandle
  /\ NonceOff(b) + 2 <= AuthEnd(b)
  /\ AttrsOff(b) + 1 <= AuthEnd(b)
  /\ HmacOff(b) + 2 <= AuthEnd(b)
  /\ HmacOff(b) + 2 + HmacSize(b) = AuthEnd(b)

Accepted(b, n) ==
  HeaderAccepted(b, n) /\ FindAuthArea(b, n) /\ EntryParses(b)

-----------------------------------------------------------------------------
(* PatchAuthArea.                                                          *)

\* Variant: the size prefix of the new HMAC is forgotten.
DeltaWithoutHmacPrefix(b) ==
  (2 + kNonceCallerSize + kHmacSize) - (2 + NonceSize(b) + 2 + HmacSize(b))

Delta(b) ==
  (2 + kNonceCallerSize + 2 + kHmacSize) - (2 + NonceSize(b) + 2 + HmacSize(b))

NoField ==
  [nonce_off |-> 0, attrs |-> 0, auth_size_off |-> 0, auth_size |-> 0,
   cp_off |-> 0, delta |-> 0]

\* Variant: the session attributes are read as two bytes.
FieldOfWideAttrs(b) ==
  [nonce_off |-> NonceOff(b), attrs |-> Read16(b, AttrsOff(b)),
   auth_size_off |-> AuthSizeOff(b), auth_size |-> AuthSize(b),
   cp_off |-> AuthEnd(b), delta |-> Delta(b)]

FieldOf(b) ==
  [nonce_off |-> NonceOff(b), attrs |-> b[AttrsOff(b)],
   auth_size_off |-> AuthSizeOff(b), auth_size |-> AuthSize(b),
   cp_off |-> AuthEnd(b), delta |-> Delta(b)]

Init ==
  /\ pc = "idle"
  /\ buf = << >>
  /\ size = 0
  /\ field = NoField
  /\ command = << >>
  /\ reach = 0

\* The driver marshals a command and leaves room behind it.
Call ==
  /\ pc = "idle"
  /\ \E w \in Inputs :
       /\ size' = Len(w)
       /\ buf' = [i \in 0..Len(w) + kHeadroom - 1 |->
                    IF i < Len(w) THEN w[i + 1] ELSE 0]
  /\ command' = buf'
  /\ field' = NoField
  /\ reach' = 0
  /\ pc' = "parse"

FitsBuffer == size + Delta(buf) <= capacity

\* The call gives the command back as it came: a guard fails or a handle has no
\* known Name ("return"), or the patched command would not fit ("full").
ReturnUnpatched ==
  /\ pc = "parse"
  /\ \E known \in BOOLEAN :
       /\ ~ (Accepted(buf, size) /\ known /\ FitsBuffer)
       /\ pc' = IF Accepted(buf, size) /\ known THEN "full" ELSE "return"
  /\ UNCHANGED <<buf, size, field, command, reach>>

BeginPatch ==
  /\ pc = "parse"
  /\ Accepted(buf, size)
  /\ FitsBuffer
  /\ field' = FieldOf(buf)
  /\ pc' = "shift"
  /\ UNCHANGED <<buf, size, command, reach>>

MaxOf(a, b) == IF a >= b THEN a ELSE b

NewCpOff == field.cp_off + field.delta

ShiftParameters ==
  /\ pc = "shift"
  /\ LET cp_size == size - field.cp_off IN
       IF cp_size > 0 /\ field.delta # 0
         THEN /\ buf' = Memmove(buf, NewCpOff, field.cp_off, cp_size)
              /\ reach' = MaxOf(reach, NewCpOff + cp_size)
         ELSE UNCHANGED <<buf, reach>>
  /\ pc' = "entry"
  /\ UNCHANGED <<size, field, command>>

\* Where the rewritten entry ends.
EntryEnd == field.nonce_off + 2 + kNonceCallerSize + 1 + 2 + kHmacSize

NewEntry ==
  [i \in 0..EntryEnd - field.nonce_off - 1 |->
     IF i < 2 THEN Bytes16(kNonceCallerSize)[i]
     ELSE IF i < 18 THEN NonceCaller[i - 2]
     ELSE IF i = 18 THEN field.attrs
     ELSE IF i < 21 THEN Bytes16(kHmacSize)[i - 19]
     ELSE Hmac[i - 21]]

WriteEntry ==
  /\ pc = "entry"
  /\ buf' = Write(buf, field.nonce_off, NewEntry)
  /\ reach' = MaxOf(reach, EntryEnd)
  /\ pc' = "pad"
  /\ UNCHANGED <<size, field, command>>

\* The loop that zeroes what lies between the entry and the parameters.
PadZero ==
  /\ pc = "pad"
  /\ buf' = [i \in DOMAIN buf |-> IF i \in EntryEnd..NewCpOff - 1 THEN 0 ELSE buf[i]]
  /\ reach' = MaxOf(reach, NewCpOff)
  /\ pc' = "sizes"
  /\ UNCHANGED <<size, field, command>>

WriteSizes ==
  /\ pc = "sizes"
  /\ buf' = Write(Write(buf, field.auth_size_off, Bytes32(field.auth_size + field.delta)),
                  2, Bytes32(size + field.delta))
  /\ reach' = MaxOf(reach, field.auth_size_off + 4)
  /\ pc' = "patched"
  /\ UNCHANGED <<size, field, command>>

\* The driver takes the new command size.
Return ==
  /\ pc \in {"return", "full", "patched"}
  /\ pc' = "idle"
  /\ size' = 0
  /\ buf' = << >>
  /\ command' = << >>
  /\ field' = NoField
  /\ reach' = 0

Next ==
  \/ Call
  \/ ReturnUnpatched
  \/ BeginPatch
  \/ ShiftParameters
  \/ WriteEntry
  \/ PadZero
  \/ WriteSizes
  \/ Return

Spec == Init /\ [][Next]_vars

-----------------------------------------------------------------------------
(* Properties.                                                             *)

\* The command size that PatchAuthArea computes and returns.
NewSize == size + field.delta

\* Type invariant: the buffer keeps its capacity and holds bytes only.
TypeOK ==
  /\ pc \in {"idle", "parse", "return", "full", "shift", "entry", "pad", "sizes",
             "patched"}
  /\ size \in Nat
  /\ reach \in Nat
  /\ field \in [nonce_off : Nat, attrs : Byte, auth_size_off : Nat,
                auth_size : Nat, cp_off : Nat, delta : Int]
  /\ pc # "idle" => buf \in Buffers(size) /\ command \in Buffers(size)

\* The room the driver leaves (proto-fuzzer.cc:50-52) is enough for every
\* command: PatchAuthArea never takes its early return at session_auth.cc:391,
\* which would send the seed's own HMAC.
HeadroomSuffices == pc # "full"

\* What is written stays inside the buffer (session_auth.cc:391 guards every
\* write after it), and inside the command that is then sent.
WithinCapacity ==
  /\ pc # "idle" => reach <= capacity
  /\ pc \in {"entry", "pad", "sizes", "patched"} =>
       reach <= NewSize /\ NewSize <= capacity

\* A command that PatchAuthArea is called on is rewritten, and nowhere but in the
\* room it has.
PatchFitsRoom == HeadroomSuffices /\ WithinCapacity

\* The in-place rewrite of session_auth.cc:393-422 yields a command that parses
\* again: both size fields agree with the size returned, the entry of the armed
\* session fills the area and holds the layer's nonce and HMAC and the seed's
\* attributes, and the command code, handles and parameters are the seed's.
PatchedReparses ==
  pc = "patched" =>
    /\ Accepted(buf, NewSize)
    /\ NonceSize(buf) = kNonceCallerSize
    /\ Slice(buf, NonceOff(buf) + 2, kNonceCallerSize) = NonceCaller
    /\ buf[AttrsOff(buf)] = command[AttrsOff(command)]
    /\ HmacSize(buf) = kHmacSize
    /\ Slice(buf, HmacOff(buf) + 2, kHmacSize) = Hmac
    /\ Slice(buf, 6, AuthSizeOff(buf) - 6)
         = Slice(command, 6, AuthSizeOff(command) - 6)
    /\ Slice(buf, AuthEnd(buf), NewSize - AuthEnd(buf))
         = Slice(command, AuthEnd(command), size - AuthEnd(command))

\* The loop at session_auth.cc:411-414 is "defensive only": it has nothing to
\* zero, whatever the sizes of the seed's nonce and HMAC.
PaddingNeverWrites == [][PadZero => buf' = buf]_vars
==============================================================================
