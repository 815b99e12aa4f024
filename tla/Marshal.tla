------------------------------- MODULE Marshal -------------------------------
(***************************************************************************)
(* From a mutated protobuf command to the bytes of a TPM command: the      *)
(* post-processors, then MarshalCommand (src/harness/proto_conversion.cc,  *)
(* include/harness/proto_conversion.h), one write after another.           *)
(*                                                                         *)
(* The buffer is abstracted to the values written in it: wire maps the     *)
(* offset of each to its width and itself.  Reading back takes the offset  *)
(* and the width, so a reader that is off by a byte reads Garbage.         *)
(***************************************************************************)
EXTENDS ProtoMessages

CONSTANTS
  Messages,     \* the messages the mutator comes up with
  kMaxBuffer,   \* the size of the buffer
  Garbage       \* what is read where no value was written

ASSUME MarshalAssumption ==
  /\ kMaxBuffer \in Nat /\ kMaxBuffer >= 10
  /\ Garbage \notin Nat
  /\ \A m \in Messages : IsMessage(m)

VARIABLES
  pc,
  msg,            \* the message being marshalled
  pending,        \* its post-processors that have not run
  field,          \* MarshalTPMCommand's loop variable
  entry,          \* MarshalRepeatedField's loop variable
  todo,           \* what the present field still has to write
  offset,
  wire,
  auth_size_pos,
  starts          \* where each authorization entry begins (history)

vars == <<pc, msg, pending, field, entry, todo, offset, wire, auth_size_pos, starts>>

-----------------------------------------------------------------------------
(* What the fields write.                                                  *)

Item(width, value) == [width |-> width, value |-> value]

Clamp(n, most) == IF n <= most THEN n ELSE most

\* A TPM2B that is filled by FillTpm2b and holds at most most bytes.
Tpm2b(n, most) ==
  <<Item(2, Clamp(n, most)), Item(Clamp(n, most), "bytes")>>

\* sizeof the buffers of tss2_tpm2_types.h.
kData == 66
kDigest == 64
kPrivate == 1416
kEvent == 1024
kRsaKey == 512
kSensitiveData == 256
kMaxBanks == 16
kMaxSelect == 4

HeaderItems(h) ==
  <<Item(2, h.tag), Item(4, h.command_size), Item(4, h.command_code)>>

\* The selectors that TPMU_PUBLIC_PARMS and TPMU_PUBLIC_ID are written by: they
\* follow the parameters, not the message's type field.
MarshalledType(p) ==
  IF p.has # "area" THEN "NULL"
  ELSE [none |-> "NULL", rsa |-> "RSA", keyedhash |-> "KEYEDHASH"][p.parms.kind]

ParmsWidth(p) ==
  CASE MarshalledType(p) = "NULL" -> 0
    [] MarshalledType(p) = "RSA" ->
         10 + (IF p.parms.symmetric = "AES" THEN 4 ELSE 0)
            + (IF p.parms.scheme = "RSASSA" THEN 2 ELSE 0)
    [] MarshalledType(p) = "KEYEDHASH" ->
         2 + (IF p.parms.scheme = "HMAC" THEN 2 ELSE 0)

\* The unique field is written empty when its kind is not the parameters'.
UniqueWidth(p) ==
  CASE MarshalledType(p) = "NULL" -> 0
    [] MarshalledType(p) = "RSA" ->
         2 + (IF p.unique.kind = "rsa" THEN Clamp(p.unique.size, kRsaKey) ELSE 0)
    [] MarshalledType(p) = "KEYEDHASH" ->
         2 + (IF p.unique.kind = "keyedhash" THEN Clamp(p.unique.size, kDigest)
              ELSE 0)

PolicyLength(p) == IF p.has = "area" THEN Clamp(p.auth_policy, kDigest) ELSE 0

PublicItems(p) ==
  LET content == 2 + 8 + PolicyLength(p) + ParmsWidth(p) + UniqueWidth(p) IN
  <<Item(2, content), Item(2, MarshalledType(p)),
    Item(8 + PolicyLength(p), "attributes"), Item(ParmsWidth(p), "parameters"),
    Item(UniqueWidth(p), "unique")>>

SensitiveItems(s) ==
  LET content == 4 + Clamp(s.user_auth, kDigest) + Clamp(s.data, kSensitiveData)
  IN <<Item(2, content), Item(content, "sensitive")>>

\* Each selection is a hash, a size and a bitmap.
SelectionItems(sizes) ==
  LET count == Clamp(Len(sizes), kMaxBanks) IN
  <<Item(4, count)>> \o
    [i \in 1..count |-> Item(3 + Clamp(sizes[i], kMaxSelect), "selection")]

SymDefItems(s) ==
  IF s.algorithm = "AES" THEN <<Item(2, "AES"), Item(4, "keyBits")>>
  ELSE <<Item(2, "NULL")>>

SchemeItems(s) ==
  IF s.scheme = "OAEP" THEN <<Item(2, "OAEP"), Item(2, s.hash_alg)>>
  ELSE <<Item(2, s.scheme)>>

NvPublicItems(v) ==
  LET content == 14 + Clamp(v.auth_policy, kDigest)
  IN <<Item(2, content), Item(content, "nvPublic")>>

\* The sizes are cast to 16 bits, and that many bytes are copied.
SessionItems(s) ==
  <<Item(4, s.session_handle),
    Item(2, s.nonce % 65536), Item(s.nonce % 65536, "nonce"),
    Item(1, s.session_attributes % 256),
    Item(2, s.hmac % 65536), Item(s.hmac % 65536, "hmac")>>

\* Variant: a session type is written like the other enums.
EnumWidthOfAlgOnly(type) == IF type = "TPMALG" THEN 2 ELSE 4

EnumWidth(type) == CASE type = "TPMSE" -> 1 [] type = "TPMALG" -> 2 [] OTHER -> 4

Items(type, v) ==
  CASE type = "TPMHeader" -> HeaderItems(v)
    [] type = "uint32" -> <<Item(4, v)>>
    [] type = "bytes_requested" -> <<Item(2, v)>>
    [] type \in {"TPMRH", "TPMALG", "TPMSE"} -> <<Item(EnumWidth(type), v)>>
    [] type = "TPM2BDigest" -> Tpm2b(v, 65535)
    [] type = "TPM2BData" -> Tpm2b(v, kData)
    [] type = "TPM2BPrivate" -> Tpm2b(v, kPrivate)
    [] type = "TPM2BPublicKeyRSA" -> Tpm2b(v, kRsaKey)
    [] type = "TPM2BEvent" -> Tpm2b(v, kEvent)
    [] type = "TPM2BSensitiveCreate" -> SensitiveItems(v)
    [] type = "TPM2BPublic" -> PublicItems(v)
    [] type = "TPMLPCRSelection" -> SelectionItems(v)
    [] type = "TPMTSymDef" -> SymDefItems(v)
    [] type = "TPMTRSADecrypt" -> SchemeItems(v)
    [] type = "TPMNvPublic" -> NvPublicItems(v)

\* Variant: a message type that MarshalMessageField does not know.
DispatchedTypesWithoutEvent ==
  {"TPMHeader", "TPM2BData", "TPM2BDigest", "TPM2BPrivate", "TPMTSymDef",
   "TPM2BSensitiveCreate", "TPM2BPublic", "TPMLPCRSelection",
   "TPM2BPublicKeyRSA", "TPMTRSADecrypt", "TPMNvPublic"}

\* The message types of MarshalMessageField and the scalar types of
\* MarshalCommandField.
DispatchedTypes ==
  {"TPMHeader", "TPM2BData", "TPM2BDigest", "TPM2BPrivate", "TPMTSymDef",
   "TPM2BSensitiveCreate", "TPM2BPublic", "TPMLPCRSelection",
   "TPM2BPublicKeyRSA", "TPMTRSADecrypt", "TPM2BEvent", "TPMNvPublic"}
ScalarTypes == {"uint32", "bytes_requested", "TPMRH", "TPMALG", "TPMSE"}

Oversized(type, v) == type \in {"bytes_requested", "TPM2BDigest"} /\ v > 65535

Marshals(type, v) ==
  /\ type \in DispatchedTypes \cup ScalarTypes
  /\ ~ Oversized(type, v)

-----------------------------------------------------------------------------
(* The buffer.                                                             *)

Put(w, at, item) ==
  IF item.width = 0 THEN w
  ELSE [o \in DOMAIN w \cup {at} |-> IF o = at THEN item ELSE w[o]]

ReadAt(w, at, width) ==
  IF at \in DOMAIN w /\ w[at].width = width THEN w[at].value ELSE Garbage

NoWire == [o \in {} |-> Garbage]

-----------------------------------------------------------------------------
Fields == Schema[msg.command]
Here == Fields[field]

Init ==
  /\ pc = "idle"
  /\ msg \in Messages
  /\ pending = {}
  /\ field = 1
  /\ entry = 1
  /\ todo = << >>
  /\ offset = 0
  /\ wire = NoWire
  /\ auth_size_pos = 0
  /\ starts = << >>

Mutate ==
  /\ pc = "idle"
  /\ msg' \in Messages
  /\ pending' = PostProcessors(msg'.command)
  /\ pc' = "mutated"
  /\ UNCHANGED <<field, entry, todo, offset, wire, auth_size_pos, starts>>

RunPostProcessor ==
  /\ pc = "mutated"
  /\ \E p \in pending :
       /\ msg' = PostProcess(p, msg)
       /\ pending' = pending \ {p}
  /\ UNCHANGED <<pc, field, entry, todo, offset, wire, auth_size_pos, starts>>

\* MarshalCommand up to the loop of MarshalTPMCommand.
MarshalCommand ==
  /\ pc = "mutated"
  /\ pending = {}
  /\ pc' = "fields"
  /\ UNCHANGED <<msg, pending, field, entry, todo, offset, wire, auth_size_pos, starts>>

MarshalCommandField ==
  /\ pc = "fields"
  /\ todo = << >>
  /\ field <= Len(Fields)
  /\ Here.type # "TPMSession"
  /\ Marshals(Here.type, msg[Here.name])
  /\ todo' = Items(Here.type, msg[Here.name])
  /\ field' = field + 1
  /\ UNCHANGED <<pc, msg, pending, entry, offset, wire, auth_size_pos, starts>>

\* A field that MarshalCommandField gives up on.
RejectField ==
  /\ pc = "fields"
  /\ todo = << >>
  /\ field <= Len(Fields)
  /\ Here.type # "TPMSession"
  /\ ~ Marshals(Here.type, msg[Here.name])
  /\ pc' = "failed"
  /\ UNCHANGED <<msg, pending, field, entry, todo, offset, wire, auth_size_pos, starts>>

\* MarshalRepeatedField: the placeholder of authorizationSize.
MarshalRepeatedField ==
  /\ pc = "fields"
  /\ todo = << >>
  /\ field <= Len(Fields)
  /\ Here.type = "TPMSession"
  /\ todo' = <<Item(4, 0)>>
  /\ auth_size_pos' = offset
  /\ entry' = 1
  /\ pc' = "sessions"
  /\ UNCHANGED <<msg, pending, field, offset, wire, starts>>

MarshalTPMSession ==
  /\ pc = "sessions"
  /\ todo = << >>
  /\ entry <= Len(msg.sessions)
  /\ todo' = SessionItems(msg.sessions[entry])
  /\ starts' = Append(starts, offset)
  /\ entry' = entry + 1
  /\ UNCHANGED <<pc, msg, pending, field, offset, wire, auth_size_pos>>

AuthAreaSize == offset - (auth_size_pos + 4)

PatchAuthorizationSize ==
  /\ pc = "sessions"
  /\ todo = << >>
  /\ entry > Len(msg.sessions)
  /\ wire' = Put(wire, auth_size_pos, Item(4, AuthAreaSize))
  /\ field' = field + 1
  /\ pc' = "fields"
  /\ UNCHANGED <<msg, pending, entry, todo, offset, auth_size_pos, starts>>

\* Variant: a write that does not look at the size of the buffer.
WriteItemUnchecked ==
  /\ pc \in {"fields", "sessions"}
  /\ todo # << >>
  /\ wire' = Put(wire, offset, Head(todo))
  /\ offset' = offset + Head(todo).width
  /\ todo' = Tail(todo)
  /\ UNCHANGED <<pc, msg, pending, field, entry, auth_size_pos, starts>>

\* One value written, by Tss2_MU_*_Marshal or by memcpy.
WriteItem ==
  /\ pc \in {"fields", "sessions"}
  /\ todo # << >>
  /\ offset + Head(todo).width <= kMaxBuffer
  /\ wire' = Put(wire, offset, Head(todo))
  /\ offset' = offset + Head(todo).width
  /\ todo' = Tail(todo)
  /\ UNCHANGED <<pc, msg, pending, field, entry, auth_size_pos, starts>>

\* The value does not fit; what was written before it stays in the buffer.
BufferFull ==
  /\ pc \in {"fields", "sessions"}
  /\ todo # << >>
  /\ offset + Head(todo).width > kMaxBuffer
  /\ pc' = "failed"
  /\ UNCHANGED <<msg, pending, field, entry, todo, offset, wire, auth_size_pos, starts>>

PatchCommandSize ==
  /\ pc = "fields"
  /\ todo = << >>
  /\ field > Len(Fields)
  /\ wire' = Put(wire, 2, Item(4, offset))
  /\ pc' = "done"
  /\ UNCHANGED <<msg, pending, field, entry, todo, offset, auth_size_pos, starts>>

\* The fuzz target sends the buffer, or skips the command; the next call starts
\* over.
Return ==
  /\ pc \in {"done", "failed"}
  /\ pc' = "idle"
  /\ field' = 1
  /\ entry' = 1
  /\ todo' = << >>
  /\ offset' = 0
  /\ wire' = NoWire
  /\ auth_size_pos' = 0
  /\ starts' = << >>
  /\ UNCHANGED <<msg, pending>>

MarshalStep ==
  \/ RunPostProcessor
  \/ MarshalCommand
  \/ MarshalCommandField
  \/ RejectField
  \/ MarshalRepeatedField
  \/ MarshalTPMSession
  \/ PatchAuthorizationSize
  \/ WriteItem
  \/ BufferFull
  \/ PatchCommandSize
  \/ Return

Next == Mutate \/ MarshalStep

Spec == Init /\ [][Next]_vars

-----------------------------------------------------------------------------
(* How the session layer reads the buffer (session_auth.cc:251-311, 507-527).  *)

\* SkipTPM2B returns 0 where there is no size to read.
SkipTPM2B(w, at) ==
  IF ReadAt(w, at, 2) \in Nat THEN at + 2 + ReadAt(w, at, 2) ELSE 0

\* Where an authorization entry that begins at the offset ends.
EntryEnd(w, at) ==
  LET attrs == SkipTPM2B(w, at + 4) IN SkipTPM2B(w, attrs + 1)

AuthSizeOff == 10 + 4 * HandleCount[msg.command]

-----------------------------------------------------------------------------
(* Properties.                                                             *)

\* Type invariant: the offset stays within the buffer and behind every value
\* in it.
TypeOK ==
  /\ pc \in {"idle", "mutated", "fields", "sessions", "done", "failed"}
  /\ IsMessage(msg)
  /\ pending \subseteq PostProcessors(msg.command)
  /\ field \in 1..Len(Fields) + 1
  /\ entry \in Nat \ {0}
  /\ offset \in 0..kMaxBuffer
  /\ \A at \in DOMAIN wire : at \in Nat /\ at + wire[at].width <= offset
  /\ auth_size_pos \in Nat

\* The header agrees with the buffer and with the shape of the command: its size
\* is the number of bytes, whatever the mutated header said, and the tag
\* announces an authorization area exactly when one was written.
HeaderAgrees ==
  /\ ReadAt(wire, 2, 4) = offset
  /\ ReadAt(wire, 6, 4) = msg.command
  /\ ReadAt(wire, 0, 2) = IF msg.command \in SessionCommands
                            THEN "SESSIONS" ELSE "NO_SESSIONS"

\* FindAuthArea (session_auth.cc:296) finds the area of every tracked command:
\* the handle count in command_attributes.h agrees with the proto schema.
AreaFound ==
  msg.command \in TrackedCommands =>
    /\ AuthSizeOff = auth_size_pos
    /\ ReadAt(wire, AuthSizeOff, 4) \in Nat
    /\ AuthSizeOff + 4 + ReadAt(wire, AuthSizeOff, 4) <= offset

\* The entries of the area are read back one after another, and the last one
\* ends where authorizationSize says, even if a nonce or an HMAC is longer than
\* its 16 bit size can say.
EntriesFill ==
  LET n == Len(msg.sessions)
      end == auth_size_pos + 4 + ReadAt(wire, auth_size_pos, 4)
  IN /\ Len(starts) = n
     /\ n > 0 => starts[1] = auth_size_pos + 4
     /\ n = 0 => end = auth_size_pos + 4
     /\ \A k \in 1..n :
          /\ ReadAt(wire, starts[k], 4) = msg.sessions[k].session_handle
          /\ EntryEnd(wire, starts[k]) = IF k < n THEN starts[k + 1] ELSE end

\* A command that leaves the marshaller (PatchCommandSize) reads back as
\* SessionAuthPatchCommand (session_auth.cc:482-527) and the TPM read it.
CommandReadsBack ==
  pc = "done" =>
    /\ HeaderAgrees
    /\ msg.command \in SessionCommands => AreaFound /\ EntriesFill

\* CaptureStartAuthSessionCommand (session_auth.cc:260) reads the parameters of
\* the message back: it skips the two TPM2Bs and takes the hash from the tail,
\* whatever the symmetric definition is.
StartParametersCaptured ==
  pc = "done" /\ msg.command = "StartAuthSession" =>
    LET salt == SkipTPM2B(wire, 18)
        type == SkipTPM2B(wire, salt)
    IN /\ ReadAt(wire, 10, 4) = msg.tpm_key
       /\ ReadAt(wire, 14, 4) = msg.bind
       /\ ReadAt(wire, salt, 2) = Clamp(msg.encrypted_salt, kData)
       /\ ReadAt(wire, type, 1) = msg.session_type
       /\ ReadAt(wire, offset - 2, 2) = msg.auth_hash

\* A command is skipped for its size only, never because one of its fields has
\* a type that the conversion does not know: the "silently skipped" command of
\* the comment at proto_conversion.cc:3-5.
SkippedForSizeOnly ==
  pc = "failed" =>
    \/ todo # << >> /\ offset + Head(todo).width > kMaxBuffer
    \/ Oversized(Here.type, msg[Here.name])

\* The post-processors leave nothing to each other or to themselves: run again,
\* as they are when a saved input is replayed, they change nothing.  The order
\* of the two of Load is the mutator's.
PostProcessedIsFixpoint ==
  pc \in {"fields", "sessions", "done", "failed"} =>
    \A p \in PostProcessors(msg.command) : PostProcess(p, msg) = msg

\* The union selector that MarshalTPM2BPublic derives from the parameters is the
\* type that NormalizeRsaOrKeyedHashPublic stored in the message.
PublicTypeAgrees ==
  "in_public" \in DOMAIN msg =>
    msg.in_public.has = "absent" \/ MarshalledType(msg.in_public) = msg.in_public.type

\* The policy that SetPrimaryPolicy puts on the wire has the size of the hash
\* behind it.
PolicyFitsHash ==
  msg.command = "SetPrimaryPolicy" =>
    LET policy == auth_size_pos + 4 + ReadAt(wire, auth_size_pos, 4)
        hash == ReadAt(wire, SkipTPM2B(wire, policy), 2)
    IN /\ hash \in DOMAIN PolicySize
       /\ ReadAt(wire, policy, 2) = PolicySize[hash]

\* What the marshaller derives from a message again is what the normalisers made
\* its other fields agree with (proto_normalization.cc:51-62, :155-157).
NormalisedFitsWire == pc = "done" => PublicTypeAgrees /\ PolicyFitsHash
==============================================================================
