----------------------------- MODULE MarshalProofs -----------------------------
(***************************************************************************)
(* Proofs about Marshal: for every set of messages and every size of the   *)
(* buffer, the post-processors leave a normal message, and what the        *)
(* marshaller wrote of it reads back.                                      *)
(*                                                                         *)
(* The invariant says where the marshaller stands in the list of values it *)
(* is writing, and that what it wrote before is still in the buffer.       *)
(***************************************************************************)
EXTENDS Marshal, WellFoundedInduction, TLAPS

-----------------------------------------------------------------------------
(* Numbers.                                                                *)

\* A set of numbers has a least one: what is false of some number is false of a
\* first one, which is how the proofs about sequences go through their lengths.
LEMMA LeastNumber ==
  ASSUME NEW T, T \subseteq Nat, T # {}
  PROVE  \E x \in T : \A y \in T : x <= y
<1> DEFINE R == {ss \in Nat \X Nat : ss[1] < ss[2]}
<1>1. IsWellFoundedOn(R, Nat)
  BY NatLessThanWellFounded DEF OpToRel
<1>2. PICK x \in T : \A y \in T : ~ (<<y, x>> \in R)
  <2> HIDE DEF R
  <2> QED
    BY <1>1, WFMin
<1>3. \A y \in T : <<y, x>> \in R <=> y < x
  OBVIOUS
<1>4. \A y \in T : x \in Nat /\ y \in Nat
  OBVIOUS
<1> HIDE DEF R
<1>5. ASSUME NEW y \in T PROVE x <= y
  <2>1. ~ (y < x)
    BY <1>2, <1>3
  <2> QED
    BY <1>4, <2>1
<1> QED
  BY <1>5

-----------------------------------------------------------------------------
(* What is in the buffer.                                                  *)

\* The values of the buffer.
Texts ==
  {"bytes", "nonce", "hmac", "selection", "parameters", "unique", "nvPublic",
   "sensitive", "attributes", "keyBits"}
ItemRecords == [width : Nat, value : Names \cup Nat \cup Texts]
ItemLists == Seq(ItemRecords)

-----------------------------------------------------------------------------
(* What each post-processor leaves behind.                                 *)

ParmsNormal(s) ==
  /\ s.kind \in {"rsa", "keyedhash"}
  /\ s.scheme # Unset
  /\ s.kind = "rsa" =>
       s.symmetric # Unset /\ s.symmetric_key_bits # 0 /\ s.key_bits # 0

PublicNormal(p) ==
  /\ p.has = "area"
  /\ p.type = NormalizedType(p.parms)
  /\ ParmsNormal(p.parms)
  /\ p.name_alg # Unset
  /\ p.object_attributes # Unset

HeaderNormal(m, tag) == m.header.tag = tag /\ m.header.command_code = m.command

Normal(p, m) ==
  /\ p = "InPublic" =>
       m.in_public.has = "absent" \/ PublicNormal(m.in_public)
  /\ p \in SessionCommands => HeaderNormal(m, "SESSIONS")
  /\ p \in PlainCommands => HeaderNormal(m, "NO_SESSIONS")
  /\ p \in {"Clear", "SetPrimaryPolicy"} => m.auth_handle # Unset
  /\ p \in {"Clear", "SetPrimaryPolicy", "Load"} => m.sessions # << >>
  /\ p \in {"Load", "Create"} => m.parent_handle # Unset
  /\ p = "CreatePrimary" => m.hierarchy # Unset
  /\ p \in {"Create", "CreatePrimary"} => PublicNormal(m.in_public)
  /\ p = "SetPrimaryPolicy" =>
       /\ m.hash_alg \in DOMAIN PolicySize
       /\ m.auth_policy = PolicySize[m.hash_alg]
  /\ p = "GetRandom" => m.header.command_size = 12 /\ m.bytes_requested # 0
  /\ p = "StartAuthSession" =>
       /\ m.tpm_key # Unset /\ m.bind # Unset /\ m.auth_hash # Unset
       /\ m.symmetric.algorithm # Unset /\ m.nonce # 0

-----------------------------------------------------------------------------
(* Where the marshaller stands.                                            *)

Holds(w, at, item) == at \in DOMAIN w /\ w[at] = item

Before(list, k) ==
  CASE k = 0 -> 0
    [] k = 1 -> list[1].width
    [] k = 2 -> list[1].width + list[2].width
    [] k = 3 -> list[1].width + list[2].width + list[3].width
    [] k = 4 -> list[1].width + list[2].width + list[3].width + list[4].width
    [] k = 5 -> list[1].width + list[2].width + list[3].width + list[4].width
                  + list[5].width
    [] k = 6 -> list[1].width + list[2].width + list[3].width + list[4].width
                  + list[5].width + list[6].width

\* The first n values of the list are in the buffer w, from base on.
WrittenIn(w, list, n, base) ==
  \A i \in 1..n :
    list[i].width > 0 => Holds(w, base + Before(list, i - 1), list[i])
Written(list, n, base) == WrittenIn(wire, list, n, base)

\* What is left to write is the rest of the list, and what was in front of it
\* is written.
ProgressIn(left, at, w, list, base) ==
  /\ Len(left) <= Len(list)
  /\ \A i \in 1..Len(left) : left[i] = list[Len(list) - Len(left) + i]
  /\ at = base + Before(list, Len(list) - Len(left))
  /\ WrittenIn(w, list, Len(list) - Len(left), base)
Progress(list, base) == ProgressIn(todo, offset, wire, list, base)

FieldItems(i) == Items(Fields[i].type, msg[Fields[i].name])
EntryItems(k) == SessionItems(msg.sessions[k])

\* The entries 1 to n begin where the one before them ends.
EndOf(k) == starts[k] + Before(EntryItems(k), 6)
Chained(n) ==
  \A k \in 1..n :
    /\ starts[k] >= 18
    /\ k = 1 => starts[k] = 18
    /\ k > 1 => starts[k] = EndOf(k - 1)
EntriesEnd == IF starts = << >> THEN 18 ELSE EndOf(Len(starts))

\* Where the fields of TPM2_StartAuthSession begin.
NonceWidth == 2 + Clamp(msg.nonce, kData)
SaltWidth == 2 + Clamp(msg.encrypted_salt, kData)
SymmetricWidth == IF msg.symmetric.algorithm = "AES" THEN 6 ELSE 2
StartBase(i) ==
  CASE i = 2 -> 10
    [] i = 3 -> 14
    [] i = 4 -> 18
    [] i = 5 -> 18 + NonceWidth
    [] i = 6 -> 18 + NonceWidth + SaltWidth
    [] i = 7 -> 18 + NonceWidth + SaltWidth + 1
    [] i = 8 -> 18 + NonceWidth + SaltWidth + 1 + SymmetricWidth

Marshalling == {"fields", "sessions", "done"}

-----------------------------------------------------------------------------
(* The inductive invariant.                                                *)

\* The variables have their types, and the loops are where pc says.
CountersOK ==
  /\ pc \in {"idle", "mutated", "fields", "sessions", "done", "failed"}
  /\ field \in 1..Len(Fields) + 1
  /\ entry \in Nat \ {0}
  /\ auth_size_pos \in Nat
  /\ starts \in Seq(Nat)
  /\ todo \in ItemLists
  /\ field < 3 => starts = << >>
  /\ pc = "done" => field = Len(Fields) + 1 /\ todo = << >>
  /\ pc \in {"idle", "mutated"} => field = 1 /\ todo = << >> /\ offset = 0

\* The buffer holds values that end before the offset, inside the buffer.
BufferOK ==
  /\ offset \in 0..kMaxBuffer
  /\ \A at \in DOMAIN wire :
       /\ at \in Nat
       /\ wire[at] \in ItemRecords
       /\ wire[at].width > 0
       /\ at + wire[at].width <= offset

\* The message is one of the schema, and the post-processors that have run have
\* left their mark.
MessageOK ==
  /\ IsMessage(msg)
  /\ pending \subseteq PostProcessors(msg.command)
  /\ pc # "idle" =>
       \A p \in PostProcessors(msg.command) \ pending : Normal(p, msg)
  /\ pc \notin {"idle", "mutated"} => pending = {}

\* The header comes first.
HeaderLayout ==
  pc \in Marshalling =>
    /\ field = 1 => todo = << >> /\ offset = 0 /\ pc = "fields"
    /\ field = 2 => Progress(HeaderItems(msg.header), 0) /\ pc = "fields"
    /\ field > 2 =>
         /\ offset >= 10
         /\ Holds(wire, 0, Item(2, msg.header.tag))
         /\ Holds(wire, 6, Item(4, msg.header.command_code))
         /\ pc = "done" => Holds(wire, 2, Item(4, offset))

\* One handle and the authorization area come next, entry by entry.
AreaLayout ==
  pc \in Marshalling /\ msg.command \in SessionCommands /\ field > 2 =>
    /\ field = 3 /\ pc = "fields" => Progress(FieldItems(2), 10) /\ starts = << >>
    /\ pc = "sessions" =>
         /\ auth_size_pos = 14
         /\ Len(starts) = entry - 1
         /\ Len(starts) <= Len(msg.sessions)
         /\ Chained(Len(starts))
         /\ \A k \in 1..Len(starts) - 1 : Written(EntryItems(k), 6, starts[k])
         /\ entry = 1 => Progress(<<Item(4, 0)>>, 14)
         /\ entry > 1 => Progress(EntryItems(entry - 1), starts[entry - 1])
    /\ field > 3 =>
         /\ auth_size_pos = 14
         /\ Len(starts) = Len(msg.sessions)
         /\ Chained(Len(starts))
         /\ \A k \in 1..Len(starts) : Written(EntryItems(k), 6, starts[k])
         /\ Holds(wire, 14, Item(4, EntriesEnd - 18))
         /\ EntriesEnd <= offset
SessionsAreAreas ==
  pc = "sessions" => msg.command \in SessionCommands /\ field = 3

\* The two parameters of TPM2_SetPrimaryPolicy.
PolicyLayout ==
  pc \in Marshalling /\ msg.command = "SetPrimaryPolicy" =>
    /\ field = 4 => todo = << >> /\ offset = EntriesEnd
    /\ field = 5 => Progress(FieldItems(4), EntriesEnd)
    /\ field = 6 =>
         /\ Written(FieldItems(4), 2, EntriesEnd)
         /\ Progress(FieldItems(5), EntriesEnd + 2 + msg.auth_policy)

\* The handles and parameters of TPM2_StartAuthSession.
StartLayout ==
  pc \in Marshalling /\ msg.command = "StartAuthSession" /\ field > 2 =>
    /\ Progress(FieldItems(field - 1), StartBase(field - 1))
    /\ \A i \in 2..field - 2 : Written(FieldItems(i), Len(FieldItems(i)), StartBase(i))

IInv ==
  /\ CountersOK
  /\ BufferOK
  /\ MessageOK
  /\ SkippedForSizeOnly
  /\ HeaderLayout
  /\ SessionsAreAreas
  /\ AreaLayout
  /\ PolicyLayout
  /\ StartLayout

-----------------------------------------------------------------------------
(* The schema.                                                             *)

\* The fields of each command, one by one.
LEMMA SchemaTable ==
  /\ Len(Schema["GetRandom"]) = 2
  /\ Schema["GetRandom"][1] = Field("header", "TPMHeader")
  /\ Schema["GetRandom"][2] = Field("bytes_requested", "bytes_requested")
  /\ Len(Schema["Clear"]) = 3
  /\ Schema["Clear"][1] = Field("header", "TPMHeader")
  /\ Schema["Clear"][2] = Field("auth_handle", "uint32")
  /\ Schema["Clear"][3] = Field("sessions", "TPMSession")
  /\ Len(Schema["Create"]) = 7
  /\ Schema["Create"][1] = Field("header", "TPMHeader")
  /\ Schema["Create"][2] = Field("parent_handle", "uint32")
  /\ Schema["Create"][3] = Field("sessions", "TPMSession")
  /\ Schema["Create"][4] = Field("in_sensitive", "TPM2BSensitiveCreate")
  /\ Schema["Create"][5] = Field("in_public", "TPM2BPublic")
  /\ Schema["Create"][6] = Field("outside_info", "TPM2BData")
  /\ Schema["Create"][7] = Field("creation_pcr", "TPMLPCRSelection")
  /\ Len(Schema["CreatePrimary"]) = 7
  /\ Schema["CreatePrimary"][1] = Field("header", "TPMHeader")
  /\ Schema["CreatePrimary"][2] = Field("hierarchy", "TPMRH")
  /\ Schema["CreatePrimary"][3] = Field("sessions", "TPMSession")
  /\ Schema["CreatePrimary"][4] = Field("in_sensitive", "TPM2BSensitiveCreate")
  /\ Schema["CreatePrimary"][5] = Field("in_public", "TPM2BPublic")
  /\ Schema["CreatePrimary"][6] = Field("outside_info", "TPM2BData")
  /\ Schema["CreatePrimary"][7] = Field("creation_pcr", "TPMLPCRSelection")
  /\ Len(Schema["Load"]) = 5
  /\ Schema["Load"][1] = Field("header", "TPMHeader")
  /\ Schema["Load"][2] = Field("parent_handle", "uint32")
  /\ Schema["Load"][3] = Field("sessions", "TPMSession")
  /\ Schema["Load"][4] = Field("in_private", "TPM2BPrivate")
  /\ Schema["Load"][5] = Field("in_public", "TPM2BPublic")
  /\ Len(Schema["MakeCredential"]) = 4
  /\ Schema["MakeCredential"][1] = Field("header", "TPMHeader")
  /\ Schema["MakeCredential"][2] = Field("handle", "uint32")
  /\ Schema["MakeCredential"][3] = Field("credential", "TPM2BData")
  /\ Schema["MakeCredential"][4] = Field("object_name", "TPM2BData")
  /\ Len(Schema["NV_DefineSpace"]) = 5
  /\ Schema["NV_DefineSpace"][1] = Field("header", "TPMHeader")
  /\ Schema["NV_DefineSpace"][2] = Field("auth_handle", "uint32")
  /\ Schema["NV_DefineSpace"][3] = Field("sessions", "TPMSession")
  /\ Schema["NV_DefineSpace"][4] = Field("auth", "TPM2BData")
  /\ Schema["NV_DefineSpace"][5] = Field("nv_public", "TPMNvPublic")
  /\ Len(Schema["PCR_Allocate"]) = 4
  /\ Schema["PCR_Allocate"][1] = Field("header", "TPMHeader")
  /\ Schema["PCR_Allocate"][2] = Field("auth_handle", "TPMRH")
  /\ Schema["PCR_Allocate"][3] = Field("sessions", "TPMSession")
  /\ Schema["PCR_Allocate"][4] = Field("pcr_allocation", "TPMLPCRSelection")
  /\ Len(Schema["PCR_Event"]) = 4
  /\ Schema["PCR_Event"][1] = Field("header", "TPMHeader")
  /\ Schema["PCR_Event"][2] = Field("pcr_handle", "uint32")
  /\ Schema["PCR_Event"][3] = Field("sessions", "TPMSession")
  /\ Schema["PCR_Event"][4] = Field("eventData", "TPM2BEvent")
  /\ Len(Schema["PCR_Read"]) = 2
  /\ Schema["PCR_Read"][1] = Field("header", "TPMHeader")
  /\ Schema["PCR_Read"][2] = Field("pcrSelection", "TPMLPCRSelection")
  /\ Len(Schema["PCR_SetAuthPolicy"]) = 6
  /\ Schema["PCR_SetAuthPolicy"][1] = Field("header", "TPMHeader")
  /\ Schema["PCR_SetAuthPolicy"][2] = Field("auth_handle", "uint32")
  /\ Schema["PCR_SetAuthPolicy"][3] = Field("sessions", "TPMSession")
  /\ Schema["PCR_SetAuthPolicy"][4] = Field("authPolicy", "TPM2BDigest")
  /\ Schema["PCR_SetAuthPolicy"][5] = Field("hashAlg", "TPMALG")
  /\ Schema["PCR_SetAuthPolicy"][6] = Field("pcrNum", "uint32")
  /\ Len(Schema["RSA_Decrypt"]) = 6
  /\ Schema["RSA_Decrypt"][1] = Field("header", "TPMHeader")
  /\ Schema["RSA_Decrypt"][2] = Field("key_handle", "uint32")
  /\ Schema["RSA_Decrypt"][3] = Field("sessions", "TPMSession")
  /\ Schema["RSA_Decrypt"][4] = Field("cipher_text", "TPM2BPublicKeyRSA")
  /\ Schema["RSA_Decrypt"][5] = Field("in_scheme", "TPMTRSADecrypt")
  /\ Schema["RSA_Decrypt"][6] = Field("label", "TPM2BData")
  /\ Len(Schema["RSA_Encrypt"]) = 5
  /\ Schema["RSA_Encrypt"][1] = Field("header", "TPMHeader")
  /\ Schema["RSA_Encrypt"][2] = Field("key_handle", "uint32")
  /\ Schema["RSA_Encrypt"][3] = Field("message", "TPM2BPublicKeyRSA")
  /\ Schema["RSA_Encrypt"][4] = Field("in_scheme", "TPMTRSADecrypt")
  /\ Schema["RSA_Encrypt"][5] = Field("label", "TPM2BData")
  /\ Len(Schema["SetPrimaryPolicy"]) = 5
  /\ Schema["SetPrimaryPolicy"][1] = Field("header", "TPMHeader")
  /\ Schema["SetPrimaryPolicy"][2] = Field("auth_handle", "TPMRH")
  /\ Schema["SetPrimaryPolicy"][3] = Field("sessions", "TPMSession")
  /\ Schema["SetPrimaryPolicy"][4] = Field("auth_policy", "TPM2BDigest")
  /\ Schema["SetPrimaryPolicy"][5] = Field("hash_alg", "TPMALG")
  /\ Len(Schema["StartAuthSession"]) = 8
  /\ Schema["StartAuthSession"][1] = Field("header", "TPMHeader")
  /\ Schema["StartAuthSession"][2] = Field("tpm_key", "TPMRH")
  /\ Schema["StartAuthSession"][3] = Field("bind", "TPMRH")
  /\ Schema["StartAuthSession"][4] = Field("nonce", "TPM2BData")
  /\ Schema["StartAuthSession"][5] = Field("encrypted_salt", "TPM2BData")
  /\ Schema["StartAuthSession"][6] = Field("session_type", "TPMSE")
  /\ Schema["StartAuthSession"][7] = Field("symmetric", "TPMTSymDef")
  /\ Schema["StartAuthSession"][8] = Field("auth_hash", "TPMALG")
<1>1. /\ Len(Schema["GetRandom"]) = 2
      /\ Schema["GetRandom"][1] = Field("header", "TPMHeader")
      /\ Schema["GetRandom"][2] = Field("bytes_requested", "bytes_requested")
  BY DEF Schema, Plain, Field
<1>2. /\ Len(Schema["Clear"]) = 3
      /\ Schema["Clear"][1] = Field("header", "TPMHeader")
      /\ Schema["Clear"][2] = Field("auth_handle", "uint32")
      /\ Schema["Clear"][3] = Field("sessions", "TPMSession")
  BY DEF Schema, Authorized, Plain, Field
<1>3. /\ Len(Schema["Create"]) = 7
      /\ Schema["Create"][1] = Field("header", "TPMHeader")
      /\ Schema["Create"][2] = Field("parent_handle", "uint32")
      /\ Schema["Create"][3] = Field("sessions", "TPMSession")
      /\ Schema["Create"][4] = Field("in_sensitive", "TPM2BSensitiveCreate")
      /\ Schema["Create"][5] = Field("in_public", "TPM2BPublic")
      /\ Schema["Create"][6] = Field("outside_info", "TPM2BData")
      /\ Schema["Create"][7] = Field("creation_pcr", "TPMLPCRSelection")
  BY DEF Schema, Authorized, Plain, Field, CreationFields
<1>4. /\ Len(Schema["CreatePrimary"]) = 7
      /\ Schema["CreatePrimary"][1] = Field("header", "TPMHeader")
      /\ Schema["CreatePrimary"][2] = Field("hierarchy", "TPMRH")
      /\ Schema["CreatePrimary"][3] = Field("sessions", "TPMSession")
      /\ Schema["CreatePrimary"][4] = Field("in_sensitive", "TPM2BSensitiveCreate")
      /\ Schema["CreatePrimary"][5] = Field("in_public", "TPM2BPublic")
      /\ Schema["CreatePrimary"][6] = Field("outside_info", "TPM2BData")
      /\ Schema["CreatePrimary"][7] = Field("creation_pcr", "TPMLPCRSelection")
  BY DEF Schema, Authorized, Plain, Field, CreationFields
<1>5. /\ Len(Schema["Load"]) = 5
      /\ Schema["Load"][1] = Field("header", "TPMHeader")
      /\ Schema["Load"][2] = Field("parent_handle", "uint32")
      /\ Schema["Load"][3] = Field("sessions", "TPMSession")
      /\ Schema["Load"][4] = Field("in_private", "TPM2BPrivate")
      /\ Schema["Load"][5] = Field("in_public", "TPM2BPublic")
  BY DEF Schema, Authorized, Plain, Field
<1>6. /\ Len(Schema["MakeCredential"]) = 4
      /\ Schema["MakeCredential"][1] = Field("header", "TPMHeader")
      /\ Schema["MakeCredential"][2] = Field("handle", "uint32")
      /\ Schema["MakeCredential"][3] = Field("credential", "TPM2BData")
      /\ Schema["MakeCredential"][4] = Field("object_name", "TPM2BData")
  BY DEF Schema, Plain, Field
<1>7. /\ Len(Schema["NV_DefineSpace"]) = 5
      /\ Schema["NV_DefineSpace"][1] = Field("header", "TPMHeader")
      /\ Schema["NV_DefineSpace"][2] = Field("auth_handle", "uint32")
      /\ Schema["NV_DefineSpace"][3] = Field("sessions", "TPMSession")
      /\ Schema["NV_DefineSpace"][4] = Field("auth", "TPM2BData")
      /\ Schema["NV_DefineSpace"][5] = Field("nv_public", "TPMNvPublic")
  BY DEF Schema, Authorized, Plain, Field
<1>8. /\ Len(Schema["PCR_Allocate"]) = 4
      /\ Schema["PCR_Allocate"][1] = Field("header", "TPMHeader")
      /\ Schema["PCR_Allocate"][2] = Field("auth_handle", "TPMRH")
      /\ Schema["PCR_Allocate"][3] = Field("sessions", "TPMSession")
      /\ Schema["PCR_Allocate"][4] = Field("pcr_allocation", "TPMLPCRSelection")
  BY DEF Schema, Authorized, Plain, Field
<1>9. /\ Len(Schema["PCR_Event"]) = 4
      /\ Schema["PCR_Event"][1] = Field("header", "TPMHeader")
      /\ Schema["PCR_Event"][2] = Field("pcr_handle", "uint32")
      /\ Schema["PCR_Event"][3] = Field("sessions", "TPMSession")
      /\ Schema["PCR_Event"][4] = Field("eventData", "TPM2BEvent")
  BY DEF Schema, Authorized, Plain, Field
<1>10. /\ Len(Schema["PCR_Read"]) = 2
      /\ Schema["PCR_Read"][1] = Field("header", "TPMHeader")
      /\ Schema["PCR_Read"][2] = Field("pcrSelection", "TPMLPCRSelection")
  BY DEF Schema, Plain, Field
<1>11. /\ Len(Schema["PCR_SetAuthPolicy"]) = 6
      /\ Schema["PCR_SetAuthPolicy"][1] = Field("header", "TPMHeader")
      /\ Schema["PCR_SetAuthPolicy"][2] = Field("auth_handle", "uint32")
      /\ Schema["PCR_SetAuthPolicy"][3] = Field("sessions", "TPMSession")
      /\ Schema["PCR_SetAuthPolicy"][4] = Field("authPolicy", "TPM2BDigest")
      /\ Schema["PCR_SetAuthPolicy"][5] = Field("hashAlg", "TPMALG")
      /\ Schema["PCR_SetAuthPolicy"][6] = Field("pcrNum", "uint32")
  BY DEF Schema, Authorized, Plain, Field
<1>12. /\ Len(Schema["RSA_Decrypt"]) = 6
      /\ Schema["RSA_Decrypt"][1] = Field("header", "TPMHeader")
      /\ Schema["RSA_Decrypt"][2] = Field("key_handle", "uint32")
      /\ Schema["RSA_Decrypt"][3] = Field("sessions", "TPMSession")
      /\ Schema["RSA_Decrypt"][4] = Field("cipher_text", "TPM2BPublicKeyRSA")
      /\ Schema["RSA_Decrypt"][5] = Field("in_scheme", "TPMTRSADecrypt")
      /\ Schema["RSA_Decrypt"][6] = Field("label", "TPM2BData")
  BY DEF Schema, Authorized, Plain, Field, RsaFields
<1>13. /\ Len(Schema["RSA_Encrypt"]) = 5
      /\ Schema["RSA_Encrypt"][1] = Field("header", "TPMHeader")
      /\ Schema["RSA_Encrypt"][2] = Field("key_handle", "uint32")
      /\ Schema["RSA_Encrypt"][3] = Field("message", "TPM2BPublicKeyRSA")
      /\ Schema["RSA_Encrypt"][4] = Field("in_scheme", "TPMTRSADecrypt")
      /\ Schema["RSA_Encrypt"][5] = Field("label", "TPM2BData")
  BY DEF Schema, Plain, Field, RsaFields
<1>14. /\ Len(Schema["SetPrimaryPolicy"]) = 5
      /\ Schema["SetPrimaryPolicy"][1] = Field("header", "TPMHeader")
      /\ Schema["SetPrimaryPolicy"][2] = Field("auth_handle", "TPMRH")
      /\ Schema["SetPrimaryPolicy"][3] = Field("sessions", "TPMSession")
      /\ Schema["SetPrimaryPolicy"][4] = Field("auth_policy", "TPM2BDigest")
      /\ Schema["SetPrimaryPolicy"][5] = Field("hash_alg", "TPMALG")
  BY DEF Schema, Authorized, Plain, Field
<1>15. /\ Len(Schema["StartAuthSession"]) = 8
      /\ Schema["StartAuthSession"][1] = Field("header", "TPMHeader")
      /\ Schema["StartAuthSession"][2] = Field("tpm_key", "TPMRH")
      /\ Schema["StartAuthSession"][3] = Field("bind", "TPMRH")
      /\ Schema["StartAuthSession"][4] = Field("nonce", "TPM2BData")
      /\ Schema["StartAuthSession"][5] = Field("encrypted_salt", "TPM2BData")
      /\ Schema["StartAuthSession"][6] = Field("session_type", "TPMSE")
      /\ Schema["StartAuthSession"][7] = Field("symmetric", "TPMTSymDef")
      /\ Schema["StartAuthSession"][8] = Field("auth_hash", "TPMALG")
  BY DEF Schema, Plain, Field
<1> QED
  BY <1>1, <1>2, <1>3, <1>4, <1>5, <1>6, <1>7, <1>8, <1>9, <1>10, <1>11, <1>12, <1>13, <1>14, <1>15

\* The values of a field, which depend on its name alone.
FieldValues ==
  [header |-> Headers, sessions |-> Seq(Sessions), bytes_requested |-> Nat,
   auth_handle |-> Names, parent_handle |-> Names, hierarchy |-> Names,
   in_sensitive |-> [user_auth : Nat, data : Nat], in_public |-> Publics,
   outside_info |-> Nat, creation_pcr |-> Seq(Nat), in_private |-> Nat,
   handle |-> Names, credential |-> Nat, object_name |-> Nat, auth |-> Nat,
   nv_public |-> [auth_policy : Nat], pcr_allocation |-> Seq(Nat),
   pcr_handle |-> Names, eventData |-> Nat, pcrSelection |-> Seq(Nat),
   authPolicy |-> Nat, hashAlg |-> Names, pcrNum |-> Names,
   key_handle |-> Names, cipher_text |-> Nat,
   in_scheme |-> [scheme : Names, hash_alg : Names], label |-> Nat,
   message |-> Nat, auth_policy |-> Nat, hash_alg |-> Names,
   tpm_key |-> Names, bind |-> Names, nonce |-> Nat, encrypted_salt |-> Nat,
   session_type |-> Names, symmetric |-> [algorithm : Names],
   auth_hash |-> Names]

\* A field of the schema has the values of its name.
Fits(f) ==
  /\ f.name \in DOMAIN FieldValues
  /\ f.type \in DOMAIN FieldType
  /\ FieldType[f.type] = FieldValues[f.name]

LEMMA FieldsFit ==
  /\ Fits(Field("header", "TPMHeader"))
  /\ Fits(Field("bytes_requested", "bytes_requested"))
  /\ Fits(Field("auth_handle", "uint32"))
  /\ Fits(Field("sessions", "TPMSession"))
  /\ Fits(Field("parent_handle", "uint32"))
  /\ Fits(Field("in_sensitive", "TPM2BSensitiveCreate"))
  /\ Fits(Field("in_public", "TPM2BPublic"))
  /\ Fits(Field("outside_info", "TPM2BData"))
  /\ Fits(Field("creation_pcr", "TPMLPCRSelection"))
  /\ Fits(Field("hierarchy", "TPMRH"))
  /\ Fits(Field("in_private", "TPM2BPrivate"))
  /\ Fits(Field("handle", "uint32"))
  /\ Fits(Field("credential", "TPM2BData"))
  /\ Fits(Field("object_name", "TPM2BData"))
  /\ Fits(Field("auth", "TPM2BData"))
  /\ Fits(Field("nv_public", "TPMNvPublic"))
  /\ Fits(Field("auth_handle", "TPMRH"))
  /\ Fits(Field("pcr_allocation", "TPMLPCRSelection"))
  /\ Fits(Field("pcr_handle", "uint32"))
  /\ Fits(Field("eventData", "TPM2BEvent"))
  /\ Fits(Field("pcrSelection", "TPMLPCRSelection"))
  /\ Fits(Field("authPolicy", "TPM2BDigest"))
  /\ Fits(Field("hashAlg", "TPMALG"))
  /\ Fits(Field("pcrNum", "uint32"))
  /\ Fits(Field("key_handle", "uint32"))
  /\ Fits(Field("cipher_text", "TPM2BPublicKeyRSA"))
  /\ Fits(Field("in_scheme", "TPMTRSADecrypt"))
  /\ Fits(Field("label", "TPM2BData"))
  /\ Fits(Field("message", "TPM2BPublicKeyRSA"))
  /\ Fits(Field("auth_policy", "TPM2BDigest"))
  /\ Fits(Field("hash_alg", "TPMALG"))
  /\ Fits(Field("tpm_key", "TPMRH"))
  /\ Fits(Field("bind", "TPMRH"))
  /\ Fits(Field("nonce", "TPM2BData"))
  /\ Fits(Field("encrypted_salt", "TPM2BData"))
  /\ Fits(Field("session_type", "TPMSE"))
  /\ Fits(Field("symmetric", "TPMTSymDef"))
  /\ Fits(Field("auth_hash", "TPMALG"))
<1>1. /\ Fits(Field("header", "TPMHeader"))
      /\ Fits(Field("bytes_requested", "bytes_requested"))
      /\ Fits(Field("auth_handle", "uint32"))
      /\ Fits(Field("sessions", "TPMSession"))
      /\ Fits(Field("parent_handle", "uint32"))
      /\ Fits(Field("in_sensitive", "TPM2BSensitiveCreate"))
      /\ Fits(Field("in_public", "TPM2BPublic"))
      /\ Fits(Field("outside_info", "TPM2BData"))
  BY DEF Fits, Field, FieldType, FieldValues
<1>2. /\ Fits(Field("creation_pcr", "TPMLPCRSelection"))
      /\ Fits(Field("hierarchy", "TPMRH"))
      /\ Fits(Field("in_private", "TPM2BPrivate"))
      /\ Fits(Field("handle", "uint32"))
      /\ Fits(Field("credential", "TPM2BData"))
      /\ Fits(Field("object_name", "TPM2BData"))
      /\ Fits(Field("auth", "TPM2BData"))
      /\ Fits(Field("nv_public", "TPMNvPublic"))
  BY DEF Fits, Field, FieldType, FieldValues
<1>3. /\ Fits(Field("auth_handle", "TPMRH"))
      /\ Fits(Field("pcr_allocation", "TPMLPCRSelection"))
      /\ Fits(Field("pcr_handle", "uint32"))
      /\ Fits(Field("eventData", "TPM2BEvent"))
      /\ Fits(Field("pcrSelection", "TPMLPCRSelection"))
      /\ Fits(Field("authPolicy", "TPM2BDigest"))
      /\ Fits(Field("hashAlg", "TPMALG"))
      /\ Fits(Field("pcrNum", "uint32"))
  BY DEF Fits, Field, FieldType, FieldValues
<1>4. /\ Fits(Field("key_handle", "uint32"))
      /\ Fits(Field("cipher_text", "TPM2BPublicKeyRSA"))
      /\ Fits(Field("in_scheme", "TPMTRSADecrypt"))
      /\ Fits(Field("label", "TPM2BData"))
      /\ Fits(Field("message", "TPM2BPublicKeyRSA"))
      /\ Fits(Field("auth_policy", "TPM2BDigest"))
      /\ Fits(Field("hash_alg", "TPMALG"))
      /\ Fits(Field("tpm_key", "TPMRH"))
  BY DEF Fits, Field, FieldType, FieldValues
<1>5. /\ Fits(Field("bind", "TPMRH"))
      /\ Fits(Field("nonce", "TPM2BData"))
      /\ Fits(Field("encrypted_salt", "TPM2BData"))
      /\ Fits(Field("session_type", "TPMSE"))
      /\ Fits(Field("symmetric", "TPMTSymDef"))
      /\ Fits(Field("auth_hash", "TPMALG"))
  BY DEF Fits, Field, FieldType, FieldValues
<1> QED
  BY <1>1, <1>2, <1>3, <1>4, <1>5

\* Every command has a list of fields with names and values of its own.
LEMMA SchemaFits ==
  ASSUME NEW cc \in EmittedCommands
  PROVE  /\ DOMAIN Schema[cc] = 1..Len(Schema[cc])
         /\ Len(Schema[cc]) \in Nat
         /\ \A i \in 1..Len(Schema[cc]) : Fits(Schema[cc][i])
<1>1. CASE cc = "GetRandom"
  <2>1. DOMAIN Schema["GetRandom"] = 1..2
    BY DEF Schema, Plain, Field
  <2>2. \A i \in 1..2 : i = 1 \/ i = 2
    OBVIOUS
  <2> QED
    BY <1>1, <2>1, <2>2, SchemaTable, FieldsFit
<1>2. CASE cc = "Clear"
  <2>1. DOMAIN Schema["Clear"] = 1..3
    BY DEF Schema, Authorized, Plain, Field
  <2>2. \A i \in 1..3 : i = 1 \/ i = 2 \/ i = 3
    OBVIOUS
  <2> QED
    BY <1>2, <2>1, <2>2, SchemaTable, FieldsFit
<1>3. CASE cc = "Create"
  <2>1. DOMAIN Schema["Create"] = 1..7
    BY DEF Schema, Authorized, Plain, Field, CreationFields
  <2>2. \A i \in 1..7 : i = 1 \/ i = 2 \/ i = 3 \/ i = 4 \/ i = 5 \/ i = 6 \/ i = 7
    OBVIOUS
  <2> QED
    BY <1>3, <2>1, <2>2, SchemaTable, FieldsFit
<1>4. CASE cc = "CreatePrimary"
  <2>1. DOMAIN Schema["CreatePrimary"] = 1..7
    BY DEF Schema, Authorized, Plain, Field, CreationFields
  <2>2. \A i \in 1..7 : i = 1 \/ i = 2 \/ i = 3 \/ i = 4 \/ i = 5 \/ i = 6 \/ i = 7
    OBVIOUS
  <2> QED
    BY <1>4, <2>1, <2>2, SchemaTable, FieldsFit
<1>5. CASE cc = "Load"
  <2>1. DOMAIN Schema["Load"] = 1..5
    BY DEF Schema, Authorized, Plain, Field
  <2>2. \A i \in 1..5 : i = 1 \/ i = 2 \/ i = 3 \/ i = 4 \/ i = 5
    OBVIOUS
  <2> QED
    BY <1>5, <2>1, <2>2, SchemaTable, FieldsFit
<1>6. CASE cc = "MakeCredential"
  <2>1. DOMAIN Schema["MakeCredential"] = 1..4
    BY DEF Schema, Plain, Field
  <2>2. \A i \in 1..4 : i = 1 \/ i = 2 \/ i = 3 \/ i = 4
    OBVIOUS
  <2> QED
    BY <1>6, <2>1, <2>2, SchemaTable, FieldsFit
<1>7. CASE cc = "NV_DefineSpace"
  <2>1. DOMAIN Schema["NV_DefineSpace"] = 1..5
    BY DEF Schema, Authorized, Plain, Field
  <2>2. \A i \in 1..5 : i = 1 \/ i = 2 \/ i = 3 \/ i = 4 \/ i = 5
    OBVIOUS
  <2> QED
    BY <1>7, <2>1, <2>2, SchemaTable, FieldsFit
<1>8. CASE cc = "PCR_Allocate"
  <2>1. DOMAIN Schema["PCR_Allocate"] = 1..4
    BY DEF Schema, Authorized, Plain, Field
  <2>2. \A i \in 1..4 : i = 1 \/ i = 2 \/ i = 3 \/ i = 4
    OBVIOUS
  <2> QED
    BY <1>8, <2>1, <2>2, SchemaTable, FieldsFit
<1>9. CASE cc = "PCR_Event"
  <2>1. DOMAIN Schema["PCR_Event"] = 1..4
    BY DEF Schema, Authorized, Plain, Field
  <2>2. \A i \in 1..4 : i = 1 \/ i = 2 \/ i = 3 \/ i = 4
    OBVIOUS
  <2> QED
    BY <1>9, <2>1, <2>2, SchemaTable, FieldsFit
<1>10. CASE cc = "PCR_Read"
  <2>1. DOMAIN Schema["PCR_Read"] = 1..2
    BY DEF Schema, Plain, Field
  <2>2. \A i \in 1..2 : i = 1 \/ i = 2
    OBVIOUS
  <2> QED
    BY <1>10, <2>1, <2>2, SchemaTable, FieldsFit
<1>11. CASE cc = "PCR_SetAuthPolicy"
  <2>1. DOMAIN Schema["PCR_SetAuthPolicy"] = 1..6
    BY DEF Schema, Authorized, Plain, Field
  <2>2. \A i \in 1..6 : i = 1 \/ i = 2 \/ i = 3 \/ i = 4 \/ i = 5 \/ i = 6
    OBVIOUS
  <2> QED
    BY <1>11, <2>1, <2>2, SchemaTable, FieldsFit
<1>12. CASE cc = "RSA_Decrypt"
  <2>1. DOMAIN Schema["RSA_Decrypt"] = 1..6
    BY DEF Schema, Authorized, Plain, Field, RsaFields
  <2>2. \A i \in 1..6 : i = 1 \/ i = 2 \/ i = 3 \/ i = 4 \/ i = 5 \/ i = 6
    OBVIOUS
  <2> QED
    BY <1>12, <2>1, <2>2, SchemaTable, FieldsFit
<1>13. CASE cc = "RSA_Encrypt"
  <2>1. DOMAIN Schema["RSA_Encrypt"] = 1..5
    BY DEF Schema, Plain, Field, RsaFields
  <2>2. \A i \in 1..5 : i = 1 \/ i = 2 \/ i = 3 \/ i = 4 \/ i = 5
    OBVIOUS
  <2> QED
    BY <1>13, <2>1, <2>2, SchemaTable, FieldsFit
<1>14. CASE cc = "SetPrimaryPolicy"
  <2>1. DOMAIN Schema["SetPrimaryPolicy"] = 1..5
    BY DEF Schema, Authorized, Plain, Field
  <2>2. \A i \in 1..5 : i = 1 \/ i = 2 \/ i = 3 \/ i = 4 \/ i = 5
    OBVIOUS
  <2> QED
    BY <1>14, <2>1, <2>2, SchemaTable, FieldsFit
<1>15. CASE cc = "StartAuthSession"
  <2>1. DOMAIN Schema["StartAuthSession"] = 1..8
    BY DEF Schema, Plain, Field
  <2>2. \A i \in 1..8 : i = 1 \/ i = 2 \/ i = 3 \/ i = 4 \/ i = 5 \/ i = 6 \/ i = 7 \/ i = 8
    OBVIOUS
  <2> QED
    BY <1>15, <2>1, <2>2, SchemaTable, FieldsFit
<1> QED
  BY <1>1, <1>2, <1>3, <1>4, <1>5, <1>6, <1>7, <1>8, <1>9, <1>10, <1>11, <1>12, <1>13, <1>14, <1>15
     DEF EmittedCommands, SessionCommands, PlainCommands

\* The fields of a message have the values of their names.
LEMMA MessageFits ==
  ASSUME NEW m, IsMessage(m)
  PROVE  /\ m.command \in EmittedCommands
         /\ m = [x \in DOMAIN m |-> m[x]]
         /\ "command" \in DOMAIN m
         /\ DOMAIN Schema[m.command] = 1..Len(Schema[m.command])
         /\ Len(Schema[m.command]) \in Nat
         /\ \A i \in 1..Len(Schema[m.command]) :
              /\ Schema[m.command][i].name \in DOMAIN m
              /\ m[Schema[m.command][i].name] \in FieldType[Schema[m.command][i].type]
         /\ \A x \in DOMAIN m : x # "command" =>
              x \in DOMAIN FieldValues /\ m[x] \in FieldValues[x]
<1>1. /\ m.command \in EmittedCommands
      /\ m = [x \in DOMAIN m |-> m[x]]
      /\ DOMAIN m = SchemaNames(m.command) \cup {"command"}
      /\ \A i \in DOMAIN Schema[m.command] :
           m[Schema[m.command][i].name] \in FieldType[Schema[m.command][i].type]
  BY DEF IsMessage
<1>2. /\ DOMAIN Schema[m.command] = 1..Len(Schema[m.command])
      /\ Len(Schema[m.command]) \in Nat
      /\ \A i \in 1..Len(Schema[m.command]) : Fits(Schema[m.command][i])
  BY <1>1, SchemaFits
<1>3. ASSUME NEW x \in DOMAIN m, x # "command"
      PROVE  x \in DOMAIN FieldValues /\ m[x] \in FieldValues[x]
  <2>1. PICK i \in DOMAIN Schema[m.command] : x = Schema[m.command][i].name
    BY <1>1, <1>3 DEF SchemaNames
  <2> QED
    BY <1>1, <1>2, <2>1 DEF Fits
<1> QED
  BY <1>1, <1>2, <1>3 DEF SchemaNames

\* A function on the fields of a message with values of theirs is a message.
LEMMA FitsMessage ==
  ASSUME NEW m, IsMessage(m), NEW r, r = [x \in DOMAIN m |-> r[x]],
         r["command"] = m["command"],
         \A x \in DOMAIN m : x # "command" => r[x] \in FieldValues[x]
  PROVE  IsMessage(r) /\ DOMAIN r = DOMAIN m /\ r.command = m.command
<1>1. /\ m.command \in EmittedCommands
      /\ DOMAIN m = SchemaNames(m.command) \cup {"command"}
  BY DEF IsMessage
<1>2. DOMAIN r = DOMAIN m /\ r.command = m.command
  OBVIOUS
<1>3. ASSUME NEW i \in DOMAIN Schema[m.command]
      PROVE  r[Schema[m.command][i].name] \in FieldType[Schema[m.command][i].type]
  <2>1. Fits(Schema[m.command][i])
    BY <1>1, SchemaFits
  <2>2. Schema[m.command][i].name \in DOMAIN m /\ "command" \notin DOMAIN FieldValues
    BY <1>1 DEF SchemaNames, FieldValues
  <2> QED
    BY <2>1, <2>2 DEF Fits
<1> QED
  BY <1>1, <1>2, <1>3 DEF IsMessage

\* One field that is given a value of its own.
With(m, x, v) == [m EXCEPT ![x] = v]
SameBut(r, m, x) == \A y \in DOMAIN m : y # x => r[y] = m[y]

LEMMA FieldSet ==
  ASSUME NEW m, IsMessage(m), NEW x \in DOMAIN m, x # "command",
         NEW v \in FieldValues[x], NEW r, r = With(m, x, v)
  PROVE  /\ IsMessage(r) /\ DOMAIN r = DOMAIN m /\ r.command = m.command
         /\ r[x] = v
         /\ SameBut(r, m, x)
         /\ v = m[x] => r = m
<1>1. /\ m = [y \in DOMAIN m |-> m[y]]
      /\ \A y \in DOMAIN m : y # "command" => m[y] \in FieldValues[y]
      /\ "command" \in DOMAIN m
  BY MessageFits
<1>2. /\ r = [y \in DOMAIN m |-> r[y]] /\ r[x] = v
      /\ \A y \in DOMAIN m : y # x => r[y] = m[y]
  BY DEF With
<1>3. r["command"] = m["command"]
  BY <1>1, <1>2
<1>4. \A y \in DOMAIN m : y # "command" => r[y] \in FieldValues[y]
  BY <1>1, <1>2
<1>5. IsMessage(r) /\ DOMAIN r = DOMAIN m /\ r.command = m.command
  BY <1>2, <1>3, <1>4, FitsMessage
<1>6. v = m[x] => r = m
  BY <1>1 DEF With
<1> QED
  BY <1>2, <1>5, <1>6 DEF SameBut

\* A message has the fields of its command.
LEMMA FieldAt ==
  ASSUME NEW m, IsMessage(m), NEW i \in 1..Len(Schema[m.command]),
         NEW n, NEW t, Schema[m.command][i] = Field(n, t)
  PROVE  /\ n \in DOMAIN m /\ n # "command"
         /\ m[n] \in FieldType[t] /\ m[n] \in FieldValues[n]
<1>1. m.command \in EmittedCommands
  BY MessageFits
<1>2. Fits(Field(n, t))
  BY <1>1, SchemaFits
<1>3. n \in DOMAIN FieldValues /\ n # "command"
  BY <1>2 DEF Fits, Field, FieldValues
<1>4. n \in DOMAIN m /\ m[n] \in FieldType[t]
  BY MessageFits DEF Field
<1> QED
  BY <1>3, <1>4, MessageFits

\* The header is the first field, and there are others.
LEMMA HeaderFirst ==
  ASSUME NEW cc \in EmittedCommands
  PROVE  /\ Schema[cc][1] = Field("header", "TPMHeader")
         /\ Len(Schema[cc]) \in Nat /\ Len(Schema[cc]) >= 2 /\ 1 \in 1..Len(Schema[cc])
<1>1. Len(Schema[cc]) \in Nat
  BY SchemaFits
<1>2. Schema[cc][1] = Field("header", "TPMHeader") /\ Len(Schema[cc]) >= 2
  BY SchemaTable DEF EmittedCommands, SessionCommands, PlainCommands
<1> QED
  BY <1>1, <1>2

\* An authorized command has one handle, and then the sessions.
LEMMA SessionsThird ==
  ASSUME NEW cc \in SessionCommands
  PROVE  /\ cc \in EmittedCommands
         /\ Len(Schema[cc]) \in Nat /\ Len(Schema[cc]) >= 3 /\ 3 \in 1..Len(Schema[cc])
         /\ Schema[cc][2].type \in {"uint32", "TPMRH"}
         /\ Schema[cc][3] = Field("sessions", "TPMSession")
         /\ \A i \in 1..Len(Schema[cc]) : Schema[cc][i].type = "TPMSession" => i = 3
<1>1. cc \in EmittedCommands
  BY DEF EmittedCommands
<1>2. Len(Schema[cc]) \in Nat /\ DOMAIN Schema[cc] = 1..Len(Schema[cc])
  BY <1>1, SchemaFits
<1>3. Schema[cc][2].type \in {"uint32", "TPMRH"} /\ Len(Schema[cc]) >= 3
  BY SchemaTable DEF SessionCommands, Field
<1>4. Schema[cc][3] = Field("sessions", "TPMSession")
  BY SchemaTable DEF SessionCommands
<1>5. ASSUME NEW i \in 1..Len(Schema[cc]), i # 3
      PROVE  Schema[cc][i].type # "TPMSession"
  <2>1. CASE cc = "Clear"
    <3>1. Len(Schema["Clear"]) = 3
      BY SchemaTable
    <3>2. i = 1 \/ i = 2
      BY <1>5, <2>1, <3>1
    <3> QED
      BY <2>1, <3>2, SchemaTable DEF Field
  <2>2. CASE cc = "Load"
    <3>1. Len(Schema["Load"]) = 5
      BY SchemaTable
    <3>2. i = 1 \/ i = 2 \/ i = 4 \/ i = 5
      BY <1>5, <2>2, <3>1
    <3> QED
      BY <2>2, <3>2, SchemaTable DEF Field
  <2>3. CASE cc = "CreatePrimary"
    <3>1. Len(Schema["CreatePrimary"]) = 7
      BY SchemaTable
    <3>2. i = 1 \/ i = 2 \/ i = 4 \/ i = 5 \/ i = 6 \/ i = 7
      BY <1>5, <2>3, <3>1
    <3> QED
      BY <2>3, <3>2, SchemaTable DEF Field
  <2>4. CASE cc = "Create"
    <3>1. Len(Schema["Create"]) = 7
      BY SchemaTable
    <3>2. i = 1 \/ i = 2 \/ i = 4 \/ i = 5 \/ i = 6 \/ i = 7
      BY <1>5, <2>4, <3>1
    <3> QED
      BY <2>4, <3>2, SchemaTable DEF Field
  <2>5. CASE cc = "RSA_Decrypt"
    <3>1. Len(Schema["RSA_Decrypt"]) = 6
      BY SchemaTable
    <3>2. i = 1 \/ i = 2 \/ i = 4 \/ i = 5 \/ i = 6
      BY <1>5, <2>5, <3>1
    <3> QED
      BY <2>5, <3>2, SchemaTable DEF Field
  <2>6. CASE cc = "NV_DefineSpace"
    <3>1. Len(Schema["NV_DefineSpace"]) = 5
      BY SchemaTable
    <3>2. i = 1 \/ i = 2 \/ i = 4 \/ i = 5
      BY <1>5, <2>6, <3>1
    <3> QED
      BY <2>6, <3>2, SchemaTable DEF Field
  <2>7. CASE cc = "SetPrimaryPolicy"
    <3>1. Len(Schema["SetPrimaryPolicy"]) = 5
      BY SchemaTable
    <3>2. i = 1 \/ i = 2 \/ i = 4 \/ i = 5
      BY <1>5, <2>7, <3>1
    <3> QED
      BY <2>7, <3>2, SchemaTable DEF Field
  <2>8. CASE cc = "PCR_Allocate"
    <3>1. Len(Schema["PCR_Allocate"]) = 4
      BY SchemaTable
    <3>2. i = 1 \/ i = 2 \/ i = 4
      BY <1>5, <2>8, <3>1
    <3> QED
      BY <2>8, <3>2, SchemaTable DEF Field
  <2>9. CASE cc = "PCR_Event"
    <3>1. Len(Schema["PCR_Event"]) = 4
      BY SchemaTable
    <3>2. i = 1 \/ i = 2 \/ i = 4
      BY <1>5, <2>9, <3>1
    <3> QED
      BY <2>9, <3>2, SchemaTable DEF Field
  <2>10. CASE cc = "PCR_SetAuthPolicy"
    <3>1. Len(Schema["PCR_SetAuthPolicy"]) = 6
      BY SchemaTable
    <3>2. i = 1 \/ i = 2 \/ i = 4 \/ i = 5 \/ i = 6
      BY <1>5, <2>10, <3>1
    <3> QED
      BY <2>10, <3>2, SchemaTable DEF Field
  <2> QED
    BY <2>1, <2>2, <2>3, <2>4, <2>5, <2>6, <2>7, <2>8, <2>9, <2>10
       DEF SessionCommands
<1> QED
  BY <1>1, <1>2, <1>3, <1>4, <1>5

\* The others have no sessions.
LEMMA NoSessions ==
  ASSUME NEW cc \in PlainCommands, NEW i \in 1..Len(Schema[cc])
  PROVE  Schema[cc][i].type # "TPMSession"
<1>1. cc \in EmittedCommands /\ cc \notin SessionCommands
  BY DEF EmittedCommands, PlainCommands, SessionCommands
<1> QED
  BY <1>1, SchemaFits, SchemaAssumption

\* The fields that a post-processor looks at are there.
LEMMA NormalisedFields ==
  ASSUME NEW m, IsMessage(m)
  PROVE  /\ m.command \in SessionCommands => "sessions" \in DOMAIN m
         /\ m.command = "Clear" =>
              {"auth_handle"} \subseteq DOMAIN m
         /\ m.command = "SetPrimaryPolicy" =>
              {"auth_handle", "auth_policy", "hash_alg"} \subseteq DOMAIN m
         /\ m.command = "Load" =>
              {"parent_handle", "in_public"} \subseteq DOMAIN m
         /\ m.command = "Create" =>
              {"parent_handle", "in_public"} \subseteq DOMAIN m
         /\ m.command = "CreatePrimary" =>
              {"hierarchy", "in_public"} \subseteq DOMAIN m
         /\ m.command = "StartAuthSession" =>
              {"tpm_key", "bind", "nonce", "symmetric", "auth_hash"} \subseteq DOMAIN m
<1>1. ASSUME m.command \in SessionCommands PROVE "sessions" \in DOMAIN m
  BY <1>1, SessionsThird, FieldAt
<1>2. ASSUME m.command = "Clear"
      PROVE  {"auth_handle"} \subseteq DOMAIN m
  <2>1. 2 \in 1..Len(Schema[m.command]) /\ Schema[m.command][2] = Field("auth_handle", "uint32")
    BY <1>2, SchemaTable
  <2> QED
    BY <2>1, FieldAt
<1>3. ASSUME m.command = "SetPrimaryPolicy"
      PROVE  {"auth_handle", "auth_policy", "hash_alg"} \subseteq DOMAIN m
  <2>1. 2 \in 1..Len(Schema[m.command]) /\ Schema[m.command][2] = Field("auth_handle", "TPMRH")
    BY <1>3, SchemaTable
  <2>2. 4 \in 1..Len(Schema[m.command]) /\ Schema[m.command][4] = Field("auth_policy", "TPM2BDigest")
    BY <1>3, SchemaTable
  <2>3. 5 \in 1..Len(Schema[m.command]) /\ Schema[m.command][5] = Field("hash_alg", "TPMALG")
    BY <1>3, SchemaTable
  <2> QED
    BY <2>1, <2>2, <2>3, FieldAt
<1>4. ASSUME m.command = "Load"
      PROVE  {"parent_handle", "in_public"} \subseteq DOMAIN m
  <2>1. 2 \in 1..Len(Schema[m.command]) /\ Schema[m.command][2] = Field("parent_handle", "uint32")
    BY <1>4, SchemaTable
  <2>2. 5 \in 1..Len(Schema[m.command]) /\ Schema[m.command][5] = Field("in_public", "TPM2BPublic")
    BY <1>4, SchemaTable
  <2> QED
    BY <2>1, <2>2, FieldAt
<1>5. ASSUME m.command = "Create"
      PROVE  {"parent_handle", "in_public"} \subseteq DOMAIN m
  <2>1. 2 \in 1..Len(Schema[m.command]) /\ Schema[m.command][2] = Field("parent_handle", "uint32")
    BY <1>5, SchemaTable
  <2>2. 5 \in 1..Len(Schema[m.command]) /\ Schema[m.command][5] = Field("in_public", "TPM2BPublic")
    BY <1>5, SchemaTable
  <2> QED
    BY <2>1, <2>2, FieldAt
<1>6. ASSUME m.command = "CreatePrimary"
      PROVE  {"hierarchy", "in_public"} \subseteq DOMAIN m
  <2>1. 2 \in 1..Len(Schema[m.command]) /\ Schema[m.command][2] = Field("hierarchy", "TPMRH")
    BY <1>6, SchemaTable
  <2>2. 5 \in 1..Len(Schema[m.command]) /\ Schema[m.command][5] = Field("in_public", "TPM2BPublic")
    BY <1>6, SchemaTable
  <2> QED
    BY <2>1, <2>2, FieldAt
<1>7. ASSUME m.command = "StartAuthSession"
      PROVE  {"tpm_key", "bind", "nonce", "symmetric", "auth_hash"} \subseteq DOMAIN m
  <2>1. 2 \in 1..Len(Schema[m.command]) /\ Schema[m.command][2] = Field("tpm_key", "TPMRH")
    BY <1>7, SchemaTable
  <2>2. 3 \in 1..Len(Schema[m.command]) /\ Schema[m.command][3] = Field("bind", "TPMRH")
    BY <1>7, SchemaTable
  <2>3. 4 \in 1..Len(Schema[m.command]) /\ Schema[m.command][4] = Field("nonce", "TPM2BData")
    BY <1>7, SchemaTable
  <2>4. 7 \in 1..Len(Schema[m.command]) /\ Schema[m.command][7] = Field("symmetric", "TPMTSymDef")
    BY <1>7, SchemaTable
  <2>5. 8 \in 1..Len(Schema[m.command]) /\ Schema[m.command][8] = Field("auth_hash", "TPMALG")
    BY <1>7, SchemaTable
  <2> QED
    BY <2>1, <2>2, <2>3, <2>4, <2>5, FieldAt
<1> QED
  BY <1>1, <1>2, <1>3, <1>4, <1>5, <1>6, <1>7

-----------------------------------------------------------------------------
(* What the normalisers do to a value.                                     *)

\* The defaults are set.
LEMMA DefaultsAreNames ==
  /\ {"NULL", "AES", "RSA", "KEYEDHASH", "SHA256", "SHA1", "SHA384", "child",
      "storage", "PW", "OWNER", "LOCKOUT", "FirstTransient", "SESSIONS",
      "NO_SESSIONS"} \cup EmittedCommands \subseteq Names
  /\ Unset \in Names
  /\ Unset \notin {"NULL", "AES", "SHA256", "child", "storage", "OWNER", "LOCKOUT",
                   "FirstTransient"}
  BY NamesAssumption DEF Unset

\* The tags of the header.
LEMMA TagsAreNames == "SESSIONS" \in Names /\ "NO_SESSIONS" \in Names
  BY DefaultsAreNames

\* A value that is set is kept, and one that is not becomes the default.
LEMMA OrIs ==
  ASSUME NEW v \in Names, NEW d \in Names, d # Unset
  PROVE  Or(v, d) \in Names /\ Or(v, d) # Unset /\ (v # Unset => Or(v, d) = v)
  BY DEF Or

\* And so it is for a number, where zero stands for the unset value.
LEMMA OrNumberIs ==
  ASSUME NEW v \in Nat, NEW d \in Nat, d # 0
  PROVE  OrNumber(v, d) \in Nat /\ OrNumber(v, d) # 0 /\ (v # 0 => OrNumber(v, d) = v)
  BY DEF OrNumber

\* The normalised parameters are parameters with every value set, and parameters
\* that were normal are left as they are.
LEMMA ParmsNormalized ==
  ASSUME NEW s \in Parms, NEW r, r = NormalizedParms(s)
  PROVE  /\ r \in Parms /\ ParmsNormal(r) /\ (ParmsNormal(s) => r = s)
         /\ r.kind = "rsa" <=> s.kind = "rsa"
<1>1. PICK a : a = IF s.kind = "rsa" THEN "rsa" ELSE "keyedhash"
  OBVIOUS
<1>2. PICK b : b = Or(s.scheme, "NULL")
  OBVIOUS
<1>3. PICK c : c = IF s.kind = "rsa" THEN Or(s.symmetric, "AES") ELSE s.symmetric
  OBVIOUS
<1>4. PICK d : d = IF s.kind = "rsa" THEN OrNumber(s.symmetric_key_bits, 128)
                   ELSE s.symmetric_key_bits
  OBVIOUS
<1>5. PICK e : e = IF s.kind = "rsa" THEN OrNumber(s.key_bits, 2048) ELSE s.key_bits
  OBVIOUS
<1>6. r = [s EXCEPT !.kind = a, !.scheme = b, !.symmetric = c,
                    !.symmetric_key_bits = d, !.key_bits = e]
  BY <1>1, <1>2, <1>3, <1>4, <1>5 DEF NormalizedParms
<1>7. /\ s.kind \in Kinds /\ s.scheme \in Names /\ s.symmetric \in Names
      /\ s.symmetric_key_bits \in Nat /\ s.key_bits \in Nat
  BY DEF Parms
<1>8. /\ a \in {"rsa", "keyedhash"} /\ a \in Kinds /\ (a = "rsa" <=> s.kind = "rsa")
      /\ s.kind \in {"rsa", "keyedhash"} => a = s.kind
  BY <1>1 DEF Kinds
<1>9. b \in Names /\ b # Unset /\ (s.scheme # Unset => b = s.scheme)
  BY <1>2, <1>7, DefaultsAreNames, OrIs
<1>10. /\ c \in Names /\ (s.kind = "rsa" => c # Unset)
       /\ (s.kind = "rsa" => s.symmetric # Unset) => c = s.symmetric
  BY <1>3, <1>7, DefaultsAreNames, OrIs
<1>11. /\ d \in Nat /\ (s.kind = "rsa" => d # 0)
       /\ (s.kind = "rsa" => s.symmetric_key_bits # 0) => d = s.symmetric_key_bits
  BY <1>4, <1>7, OrNumberIs
<1>12. /\ e \in Nat /\ (s.kind = "rsa" => e # 0)
       /\ (s.kind = "rsa" => s.key_bits # 0) => e = s.key_bits
  BY <1>5, <1>7, OrNumberIs
<1>13. r = [kind |-> a, scheme |-> b, symmetric |-> c, symmetric_key_bits |-> d,
            key_bits |-> e]
  BY <1>6 DEF Parms
<1>14. r \in Parms
  BY <1>8, <1>9, <1>10, <1>11, <1>12, <1>13 DEF Parms
<1>15. ParmsNormal(r)
  BY <1>8, <1>9, <1>10, <1>11, <1>12, <1>13 DEF ParmsNormal
<1>16. ASSUME ParmsNormal(s) PROVE r = s
  <2>1. a = s.kind /\ b = s.scheme /\ c = s.symmetric
        /\ d = s.symmetric_key_bits /\ e = s.key_bits
    BY <1>16, <1>8, <1>9, <1>10, <1>11, <1>12 DEF ParmsNormal
  <2> QED
    BY <1>13, <2>1 DEF Parms
<1> QED
  BY <1>8, <1>13, <1>14, <1>15, <1>16

\* The same of a public area, which the post-processor gives the attributes.
LEMMA PublicNormalized ==
  ASSUME NEW p \in Publics, NEW attributes \in Names, attributes # Unset,
         NEW r, r = NormalizeRsaOrKeyedHashPublic(p, attributes)
  PROVE  r \in Publics /\ PublicNormal(r) /\ (PublicNormal(p) => r = p)
<1>1. /\ p.has \in {"absent", "empty", "area"} /\ p.type \in Names
      /\ p.name_alg \in Names /\ p.object_attributes \in Names
      /\ p.auth_policy \in Nat /\ p.parms \in Parms
      /\ p.unique \in [kind : Kinds, size : Nat]
  BY DEF Publics
<1>2. PICK t : t = NormalizedType(p.parms)
  OBVIOUS
<1>3. PICK s : s = NormalizedParms(p.parms)
  OBVIOUS
<1>4. PICK a : a = Or(p.name_alg, "SHA256")
  OBVIOUS
<1>5. PICK b : b = Or(p.object_attributes, attributes)
  OBVIOUS
<1>6. r = [has |-> "area", type |-> t, name_alg |-> a, object_attributes |-> b,
           auth_policy |-> p.auth_policy, parms |-> s, unique |-> p.unique]
  <2>1. r = [p EXCEPT !.has = "area", !.type = t, !.parms = s, !.name_alg = a,
                      !.object_attributes = b]
    BY <1>2, <1>3, <1>4, <1>5 DEF NormalizeRsaOrKeyedHashPublic
  <2> QED
    BY <2>1 DEF Publics
<1>7. /\ s \in Parms /\ ParmsNormal(s) /\ (ParmsNormal(p.parms) => s = p.parms)
      /\ s.kind = "rsa" <=> p.parms.kind = "rsa"
  BY <1>1, <1>3, ParmsNormalized
<1>8. t \in Names /\ t = NormalizedType(s)
  BY <1>2, <1>7, DefaultsAreNames DEF NormalizedType
<1>9. a \in Names /\ a # Unset /\ (p.name_alg # Unset => a = p.name_alg)
  BY <1>1, <1>4, DefaultsAreNames, OrIs
<1>10. /\ b \in Names /\ b # Unset
       /\ p.object_attributes # Unset => b = p.object_attributes
  BY <1>1, <1>5, OrIs
<1>11. r \in Publics
  BY <1>1, <1>6, <1>7, <1>8, <1>9, <1>10 DEF Publics
<1>12. PublicNormal(r)
  BY <1>6, <1>7, <1>8, <1>9, <1>10 DEF PublicNormal
<1>13. ASSUME PublicNormal(p) PROVE r = p
  <2>1. p.has = "area" /\ t = p.type /\ s = p.parms /\ a = p.name_alg
        /\ b = p.object_attributes
    BY <1>13, <1>2, <1>7, <1>9, <1>10 DEF PublicNormal
  <2> QED
    BY <1>6, <2>1 DEF Publics
<1> QED
  BY <1>11, <1>12, <1>13

-----------------------------------------------------------------------------
(* What the normalisers do to a message.                                   *)

\* A message for the same command with the same fields.
Alike(r, m) == IsMessage(r) /\ DOMAIN r = DOMAIN m /\ r.command = m.command

\* A post-processor makes a message normal, and leaves a normal one alone.
Normalizes(p, m, r) == Alike(r, m) /\ Normal(p, r) /\ (Normal(p, m) => r = m)

\* The header is set.
LEMMA HeaderSet ==
  ASSUME NEW m, IsMessage(m), NEW tag \in Names, NEW r, r = WithHeader(m, tag)
  PROVE  /\ Alike(r, m)
         /\ "header" \in DOMAIN m
         /\ m.header \in Headers
         /\ r.header = [tag |-> tag, command_size |-> m.header.command_size,
                        command_code |-> m.command]
         /\ HeaderNormal(r, tag)
         /\ SameBut(r, m, "header")
         /\ HeaderNormal(m, tag) => r = m
<1>1. m.command \in EmittedCommands /\ m.command \in Names
  BY MessageFits, DefaultsAreNames
<1>2. /\ "header" \in DOMAIN m /\ m["header"] \in FieldType["TPMHeader"]
      /\ m["header"] \in FieldValues["header"]
  BY <1>1, HeaderFirst, FieldAt
<1>3. m.header \in Headers
  BY <1>2 DEF FieldType
<1>4. PICK h : h = [tag |-> tag, command_size |-> m.header.command_size,
                    command_code |-> m.command]
  OBVIOUS
<1>5. h \in Headers
  BY <1>1, <1>3, <1>4 DEF Headers
<1>6. r = With(m, "header", h)
  <2>1. PICK g \in Headers : g = m.header
    BY <1>3
  <2>2. PICK c : c = m.command
    OBVIOUS
  <2>3. PICK k : k = [g EXCEPT !.tag = tag, !.command_code = c]
    OBVIOUS
  <2>4. k = h
    <3>1. k \in Headers
      BY <1>1, <2>2, <2>3 DEF Headers
    <3>2. k.tag = h.tag /\ k.command_size = h.command_size
          /\ k.command_code = h.command_code
      BY <1>4, <2>1, <2>2, <2>3 DEF Headers
    <3> QED
      BY <1>5, <3>1, <3>2 DEF Headers
  <2> QED
    BY <2>1, <2>2, <2>3, <2>4 DEF WithHeader, With
<1>7. h \in FieldValues["header"]
  BY <1>5 DEF FieldValues
<1>8. /\ IsMessage(r) /\ DOMAIN r = DOMAIN m /\ r.command = m.command
      /\ r["header"] = h
      /\ SameBut(r, m, "header")
      /\ h = m["header"] => r = m
  BY <1>2, <1>6, <1>7, FieldSet
<1>9. HeaderNormal(r, tag)
  BY <1>4, <1>8 DEF HeaderNormal
<1>10. ASSUME HeaderNormal(m, tag) PROVE r = m
  <2>1. h = m.header
    BY <1>3, <1>4, <1>10 DEF HeaderNormal, Headers
  <2> QED
    BY <1>8, <2>1
<1> QED
  BY <1>2, <1>3, <1>4, <1>8, <1>9, <1>10 DEF Alike

\* A message without sessions gets one.
LEMMA SessionSet ==
  ASSUME NEW m, IsMessage(m), "sessions" \in DOMAIN m, NEW r, r = WithSession(m)
  PROVE  /\ Alike(r, m)
         /\ r.sessions # << >>
         /\ SameBut(r, m, "sessions")
         /\ m.sessions # << >> => r = m
<1>1. CASE m.sessions = << >>
  <2>1. r = With(m, "sessions", <<SetPasswordSession>>)
    BY <1>1 DEF WithSession, With
  <2>2. <<SetPasswordSession>> \in FieldValues["sessions"]
    <3>1. SetPasswordSession \in Sessions
      BY NamesAssumption DEF SetPasswordSession, Sessions
    <3> QED
      BY <3>1 DEF FieldValues
  <2>3. /\ IsMessage(r) /\ DOMAIN r = DOMAIN m /\ r.command = m.command
        /\ r["sessions"] = <<SetPasswordSession>>
        /\ SameBut(r, m, "sessions")
    BY <2>1, <2>2, FieldSet
  <2>4. r.sessions # << >>
    <3>1. <<SetPasswordSession>> # << >>
      OBVIOUS
    <3>2. r.sessions = <<SetPasswordSession>>
      BY <2>3
    <3> QED
      BY <3>1, <3>2, Zenon
  <2>5. Alike(r, m)
    BY <2>3 DEF Alike
  <2> QED
    BY <1>1, <2>3, <2>4, <2>5
<1>2. CASE m.sessions # << >>
  BY <1>2 DEF WithSession, Alike, SameBut
<1> QED
  BY <1>1, <1>2

\* An enumerator or a handle gets its default.
LEMMA DefaultSet ==
  ASSUME NEW m, IsMessage(m), NEW x \in DOMAIN m, x # "command",
         FieldValues[x] = Names,
         NEW d \in Names, d # Unset, NEW r, r = With(m, x, Or(m[x], d))
  PROVE  /\ Alike(r, m)
         /\ r[x] # Unset
         /\ SameBut(r, m, x)
         /\ m[x] # Unset => r = m
<1>1. m[x] \in Names
  BY MessageFits
<1>2. PICK v : v = Or(m[x], d)
  OBVIOUS
<1>3. v \in Names /\ v # Unset /\ (m[x] # Unset => v = m[x])
  BY <1>1, <1>2, OrIs
<1>4. /\ IsMessage(r) /\ DOMAIN r = DOMAIN m /\ r.command = m.command
      /\ r[x] = v
      /\ SameBut(r, m, x)
      /\ v = m[x] => r = m
  BY <1>2, <1>3, FieldSet
<1> QED
  BY <1>3, <1>4 DEF Alike

\* A public area is normalised.
LEMMA PublicSet ==
  ASSUME NEW m, IsMessage(m), "in_public" \in DOMAIN m,
         NEW a \in Names, a # Unset,
         NEW r, r = With(m, "in_public",
                        NormalizeRsaOrKeyedHashPublic(m["in_public"], a))
  PROVE  /\ Alike(r, m)
         /\ m.in_public \in Publics
         /\ PublicNormal(r.in_public)
         /\ SameBut(r, m, "in_public")
         /\ PublicNormal(m.in_public) => r = m
<1>1. m["in_public"] \in Publics
  BY MessageFits DEF FieldValues
<1>2. PICK p : p = NormalizeRsaOrKeyedHashPublic(m["in_public"], a)
  OBVIOUS
<1>3. /\ p \in Publics /\ PublicNormal(p)
      /\ PublicNormal(m["in_public"]) => p = m["in_public"]
  BY <1>1, <1>2, PublicNormalized
<1>4. p \in FieldValues["in_public"]
  BY <1>3 DEF FieldValues
<1>5. /\ IsMessage(r) /\ DOMAIN r = DOMAIN m /\ r.command = m.command
      /\ r["in_public"] = p
      /\ SameBut(r, m, "in_public")
      /\ p = m["in_public"] => r = m
  BY <1>2, <1>4, FieldSet
<1> QED
  BY <1>1, <1>3, <1>5 DEF Alike

\* NormalizeGetRandom.
LEMMA GetRandomNormalized ==
  ASSUME NEW m, IsMessage(m), m.command = "GetRandom",
         NEW r, r = NormalizeGetRandom(m)
  PROVE  Normalizes("GetRandom", m, r)
<1>1. PICK h : h = WithHeader(m, "NO_SESSIONS")
  OBVIOUS
<1>2. /\ Alike(h, m) /\ "header" \in DOMAIN m /\ m.header \in Headers
      /\ h.header = [tag |-> "NO_SESSIONS", command_size |-> m.header.command_size,
                     command_code |-> m.command]
      /\ SameBut(h, m, "header")
      /\ HeaderNormal(m, "NO_SESSIONS") => h = m
  BY <1>1, HeaderSet, TagsAreNames
<1>3. "bytes_requested" \in DOMAIN m /\ m["bytes_requested"] \in Nat
  BY SchemaTable, FieldAt DEF FieldType
<1>4. PICK c : c = [tag |-> "NO_SESSIONS", command_size |-> 12,
                    command_code |-> m.command]
  OBVIOUS
<1>5. c \in FieldValues["header"]
  BY <1>4, MessageFits, DefaultsAreNames DEF FieldValues, Headers
<1>6. PICK g : g = With(h, "header", c)
  OBVIOUS
<1>7. /\ Alike(g, m) /\ g["header"] = c
      /\ SameBut(g, h, "header")
      /\ c = h["header"] => g = h
  BY <1>2, <1>5, <1>6, FieldSet DEF Alike
<1>8. PICK n : n = OrNumber(m["bytes_requested"], 1)
  OBVIOUS
<1>9. n \in Nat /\ n # 0 /\ (m["bytes_requested"] # 0 => n = m["bytes_requested"])
  BY <1>3, <1>8, OrNumberIs
<1>10. PICK q : q = With(g, "bytes_requested", n)
  OBVIOUS
<1>11. n \in FieldValues["bytes_requested"]
  BY <1>9 DEF FieldValues
<1>12. /\ Alike(q, m) /\ q["bytes_requested"] = n
       /\ SameBut(q, g, "bytes_requested")
       /\ n = g["bytes_requested"] => q = g
  BY <1>3, <1>7, <1>10, <1>11, FieldSet DEF Alike
<1>13. /\ g["bytes_requested"] = m["bytes_requested"]
       /\ q["header"] = c
  BY <1>2, <1>3, <1>7, <1>12 DEF SameBut, Alike
<1>14. r = q
  <2>1. c = [h.header EXCEPT !.command_size = 12]
    BY <1>2, <1>4
  <2>2. g = [h EXCEPT !.header.command_size = 12]
    BY <1>6, <2>1 DEF With
  <2>3. q = [g EXCEPT !.bytes_requested = OrNumber(@, 1)]
    BY <1>8, <1>10, <1>13 DEF With
  <2> QED
    BY <1>1, <2>2, <2>3 DEF NormalizeGetRandom
<1>15. Normal("GetRandom", r)
  <2>1. r.header = c /\ r.bytes_requested = n /\ r.command = m.command
    BY <1>12, <1>13, <1>14 DEF Alike
  <2> QED
    BY <1>4, <1>9, <2>1 DEF Normal, HeaderNormal, SessionCommands, PlainCommands
<1>16. ASSUME Normal("GetRandom", m) PROVE r = m
  <2>1. HeaderNormal(m, "NO_SESSIONS") /\ m.header.command_size = 12
        /\ m.bytes_requested # 0
    BY <1>16 DEF Normal, PlainCommands
  <2>2. h = m
    BY <1>2, <2>1
  <2>3. g = h
    BY <1>2, <1>4, <1>7, <2>1
  <2>4. q = g
    BY <1>9, <1>12, <1>13, <2>1
  <2> QED
    BY <1>14, <2>2, <2>3, <2>4
<1> QED
  BY <1>12, <1>14, <1>15, <1>16 DEF Normalizes

\* NormalizeClear.
LEMMA ClearNormalized ==
  ASSUME NEW m, IsMessage(m), m.command = "Clear", NEW r, r = NormalizeClear(m)
  PROVE  Normalizes("Clear", m, r)
<1>1. PICK h : h = WithHeader(m, "SESSIONS")
  OBVIOUS
<1>2. /\ Alike(h, m) /\ HeaderNormal(h, "SESSIONS") /\ "header" \in DOMAIN m
      /\ SameBut(h, m, "header")
      /\ HeaderNormal(m, "SESSIONS") => h = m
  BY <1>1, HeaderSet, TagsAreNames
<1>3. "auth_handle" \in DOMAIN m /\ "sessions" \in DOMAIN m
  BY NormalisedFields DEF SessionCommands
<1>4. PICK g : g = With(h, "auth_handle", Or(h["auth_handle"], "LOCKOUT"))
  OBVIOUS
<1>5. /\ Alike(g, m) /\ g["auth_handle"] # Unset
      /\ SameBut(g, h, "auth_handle")
      /\ h["auth_handle"] # Unset => g = h
  <2>1. FieldValues["auth_handle"] = Names /\ "LOCKOUT" \in Names /\ "LOCKOUT" # Unset
    BY DefaultsAreNames DEF FieldValues
  <2> QED
    BY <1>2, <1>3, <1>4, <2>1, DefaultSet DEF Alike
<1>6. r = WithSession(g)
  BY <1>1, <1>4 DEF NormalizeClear, With
<1>7. /\ Alike(r, m) /\ r.sessions # << >>
      /\ SameBut(r, g, "sessions")
      /\ g.sessions # << >> => r = g
  BY <1>3, <1>5, <1>6, SessionSet DEF Alike
<1>8. /\ r["header"] = h["header"] /\ r["auth_handle"] = g["auth_handle"]
      /\ r["command"] = h["command"]
  BY <1>2, <1>3, <1>5, <1>7 DEF SameBut, Alike
<1>9. Normal("Clear", r)
  BY <1>2, <1>5, <1>7, <1>8 DEF Normal, HeaderNormal, PlainCommands
<1>10. ASSUME Normal("Clear", m) PROVE r = m
  <2>1. HeaderNormal(m, "SESSIONS") /\ m.auth_handle # Unset /\ m.sessions # << >>
    BY <1>10 DEF Normal, SessionCommands
  <2> QED
    BY <1>2, <1>5, <1>7, <2>1
<1> QED
  BY <1>7, <1>9, <1>10 DEF Normalizes

\* NormalizeLoad, which does not look at the public area.
LEMMA LoadNormalized ==
  ASSUME NEW m, IsMessage(m), m.command = "Load", NEW r, r = NormalizeLoad(m)
  PROVE  Normalizes("Load", m, r) /\ r["in_public"] = m["in_public"]
<1>1. PICK h : h = WithHeader(m, "SESSIONS")
  OBVIOUS
<1>2. /\ Alike(h, m) /\ HeaderNormal(h, "SESSIONS") /\ "header" \in DOMAIN m
      /\ SameBut(h, m, "header")
      /\ HeaderNormal(m, "SESSIONS") => h = m
  BY <1>1, HeaderSet, TagsAreNames
<1>3. "parent_handle" \in DOMAIN m /\ "in_public" \in DOMAIN m /\ "sessions" \in DOMAIN m
  BY NormalisedFields DEF SessionCommands
<1>4. PICK g : g = With(h, "parent_handle", Or(h["parent_handle"], "FirstTransient"))
  OBVIOUS
<1>5. /\ Alike(g, m) /\ g["parent_handle"] # Unset
      /\ SameBut(g, h, "parent_handle")
      /\ h["parent_handle"] # Unset => g = h
  <2>1. FieldValues["parent_handle"] = Names
        /\ "FirstTransient" \in Names /\ "FirstTransient" # Unset
    BY DefaultsAreNames DEF FieldValues
  <2> QED
    BY <1>2, <1>3, <1>4, <2>1, DefaultSet DEF Alike
<1>6. r = WithSession(g)
  BY <1>1, <1>4 DEF NormalizeLoad, With
<1>7. /\ Alike(r, m) /\ r.sessions # << >>
      /\ SameBut(r, g, "sessions")
      /\ g.sessions # << >> => r = g
  BY <1>3, <1>5, <1>6, SessionSet DEF Alike
<1>8. /\ r["header"] = h["header"] /\ r["parent_handle"] = g["parent_handle"]
      /\ r["command"] = h["command"] /\ r["in_public"] = m["in_public"]
  BY <1>2, <1>3, <1>5, <1>7 DEF SameBut, Alike
<1>9. Normal("Load", r)
  BY <1>2, <1>5, <1>7, <1>8 DEF Normal, HeaderNormal, PlainCommands
<1>10. ASSUME Normal("Load", m) PROVE r = m
  <2>1. HeaderNormal(m, "SESSIONS") /\ m.parent_handle # Unset /\ m.sessions # << >>
    BY <1>10 DEF Normal, SessionCommands
  <2> QED
    BY <1>2, <1>5, <1>7, <2>1
<1> QED
  BY <1>7, <1>8, <1>9, <1>10 DEF Normalizes

\* NormalizeInPublic, which looks at the public area of a load only.
LEMMA InPublicNormalized ==
  ASSUME NEW m, IsMessage(m), m.command = "Load", NEW r, r = NormalizeInPublic(m)
  PROVE  Normalizes("InPublic", m, r) /\ (Normal("Load", m) => Normal("Load", r))
<1>1. "in_public" \in DOMAIN m /\ {"header", "parent_handle", "sessions"} \subseteq DOMAIN m
  BY NormalisedFields, HeaderFirst, FieldAt, MessageFits DEF SessionCommands
<1>2. CASE m.in_public.has = "absent"
  BY <1>2 DEF NormalizeInPublic, Normalizes, Alike, Normal, SessionCommands, PlainCommands
<1>3. CASE m.in_public.has # "absent"
  <2>1. r = With(m, "in_public", NormalizeRsaOrKeyedHashPublic(m["in_public"], "child"))
    BY <1>3 DEF NormalizeInPublic, With
  <2>2. "child" \in Names /\ "child" # Unset
    BY DefaultsAreNames
  <2>3. /\ Alike(r, m) /\ PublicNormal(r.in_public) /\ SameBut(r, m, "in_public")
        /\ PublicNormal(m.in_public) => r = m
    BY <1>1, <2>1, <2>2, PublicSet
  <2>4. Normal("InPublic", r) /\ (Normal("InPublic", m) => r = m)
    BY <1>3, <2>3 DEF Normal, SessionCommands, PlainCommands
  <2>5. /\ r["header"] = m["header"] /\ r["parent_handle"] = m["parent_handle"]
        /\ r["sessions"] = m["sessions"] /\ r["command"] = m["command"]
    BY <1>1, <2>3 DEF SameBut, Alike
  <2>6. Normal("Load", m) => Normal("Load", r)
    BY <2>5 DEF Normal, HeaderNormal, SessionCommands, PlainCommands
  <2> QED
    BY <2>3, <2>4, <2>6 DEF Normalizes
<1> QED
  BY <1>2, <1>3

\* NormalizeCreate.
LEMMA CreateNormalized ==
  ASSUME NEW m, IsMessage(m), m.command = "Create", NEW r, r = NormalizeCreate(m)
  PROVE  Normalizes("Create", m, r)
<1>1. PICK h : h = WithHeader(m, "SESSIONS")
  OBVIOUS
<1>2. /\ Alike(h, m) /\ HeaderNormal(h, "SESSIONS") /\ "header" \in DOMAIN m
      /\ SameBut(h, m, "header")
      /\ HeaderNormal(m, "SESSIONS") => h = m
  BY <1>1, HeaderSet, TagsAreNames
<1>3. "parent_handle" \in DOMAIN m /\ "in_public" \in DOMAIN m
  BY NormalisedFields
<1>4. PICK g : g = With(h, "parent_handle", Or(h["parent_handle"], "FirstTransient"))
  OBVIOUS
<1>5. /\ Alike(g, m) /\ g["parent_handle"] # Unset
      /\ SameBut(g, h, "parent_handle")
      /\ h["parent_handle"] # Unset => g = h
  <2>1. FieldValues["parent_handle"] = Names
        /\ "FirstTransient" \in Names /\ "FirstTransient" # Unset
    BY DefaultsAreNames DEF FieldValues
  <2> QED
    BY <1>2, <1>3, <1>4, <2>1, DefaultSet DEF Alike
<1>6. r = With(g, "in_public", NormalizeRsaOrKeyedHashPublic(g["in_public"], "child"))
  BY <1>1, <1>4 DEF NormalizeCreate, With
<1>7. /\ Alike(r, m) /\ PublicNormal(r.in_public)
      /\ SameBut(r, g, "in_public")
      /\ PublicNormal(g.in_public) => r = g
  <2>1. "child" \in Names /\ "child" # Unset
    BY DefaultsAreNames
  <2> QED
    BY <1>3, <1>5, <1>6, <2>1, PublicSet DEF Alike
<1>8. /\ r["header"] = h["header"] /\ r["parent_handle"] = g["parent_handle"]
      /\ r["command"] = h["command"]
  BY <1>2, <1>3, <1>5, <1>7 DEF SameBut, Alike
<1>9. Normal("Create", r)
  BY <1>2, <1>5, <1>7, <1>8 DEF Normal, HeaderNormal, PlainCommands
<1>10. ASSUME Normal("Create", m) PROVE r = m
  <2>1. /\ HeaderNormal(m, "SESSIONS") /\ m.parent_handle # Unset
        /\ PublicNormal(m.in_public)
    BY <1>10 DEF Normal, SessionCommands
  <2> QED
    BY <1>2, <1>5, <1>7, <2>1
<1> QED
  BY <1>7, <1>9, <1>10 DEF Normalizes

\* NormalizeCreatePrimary.
LEMMA CreatePrimaryNormalized ==
  ASSUME NEW m, IsMessage(m), m.command = "CreatePrimary",
         NEW r, r = NormalizeCreatePrimary(m)
  PROVE  Normalizes("CreatePrimary", m, r)
<1>1. PICK h : h = WithHeader(m, "SESSIONS")
  OBVIOUS
<1>2. /\ Alike(h, m) /\ HeaderNormal(h, "SESSIONS") /\ "header" \in DOMAIN m
      /\ SameBut(h, m, "header")
      /\ HeaderNormal(m, "SESSIONS") => h = m
  BY <1>1, HeaderSet, TagsAreNames
<1>3. "hierarchy" \in DOMAIN m /\ "in_public" \in DOMAIN m
  BY NormalisedFields
<1>4. PICK g : g = With(h, "hierarchy", Or(h["hierarchy"], "OWNER"))
  OBVIOUS
<1>5. /\ Alike(g, m) /\ g["hierarchy"] # Unset
      /\ SameBut(g, h, "hierarchy")
      /\ h["hierarchy"] # Unset => g = h
  <2>1. FieldValues["hierarchy"] = Names /\ "OWNER" \in Names /\ "OWNER" # Unset
    BY DefaultsAreNames DEF FieldValues
  <2> QED
    BY <1>2, <1>3, <1>4, <2>1, DefaultSet DEF Alike
<1>6. r = With(g, "in_public", NormalizeRsaOrKeyedHashPublic(g["in_public"], "storage"))
  BY <1>1, <1>4 DEF NormalizeCreatePrimary, With
<1>7. /\ Alike(r, m) /\ PublicNormal(r.in_public)
      /\ SameBut(r, g, "in_public")
      /\ PublicNormal(g.in_public) => r = g
  <2>1. "storage" \in Names /\ "storage" # Unset
    BY DefaultsAreNames
  <2> QED
    BY <1>3, <1>5, <1>6, <2>1, PublicSet DEF Alike
<1>8. /\ r["header"] = h["header"] /\ r["hierarchy"] = g["hierarchy"]
      /\ r["command"] = h["command"]
  BY <1>2, <1>3, <1>5, <1>7 DEF SameBut, Alike
<1>9. Normal("CreatePrimary", r)
  BY <1>2, <1>5, <1>7, <1>8 DEF Normal, HeaderNormal, PlainCommands
<1>10. ASSUME Normal("CreatePrimary", m) PROVE r = m
  <2>1. /\ HeaderNormal(m, "SESSIONS") /\ m.hierarchy # Unset
        /\ PublicNormal(m.in_public)
    BY <1>10 DEF Normal, SessionCommands
  <2> QED
    BY <1>2, <1>5, <1>7, <2>1
<1> QED
  BY <1>7, <1>9, <1>10 DEF Normalizes

\* NormalizeSetPrimaryPolicy.
LEMMA SetPrimaryPolicyNormalized ==
  ASSUME NEW m, IsMessage(m), m.command = "SetPrimaryPolicy",
         NEW r, r = NormalizeSetPrimaryPolicy(m)
  PROVE  Normalizes("SetPrimaryPolicy", m, r)
<1>1. PICK h : h = WithHeader(m, "SESSIONS")
  OBVIOUS
<1>2. /\ Alike(h, m) /\ HeaderNormal(h, "SESSIONS") /\ "header" \in DOMAIN m
      /\ SameBut(h, m, "header")
      /\ HeaderNormal(m, "SESSIONS") => h = m
  BY <1>1, HeaderSet, TagsAreNames
<1>3. /\ "auth_handle" \in DOMAIN m /\ "sessions" \in DOMAIN m
      /\ "auth_policy" \in DOMAIN m /\ "hash_alg" \in DOMAIN m
  BY NormalisedFields DEF SessionCommands
<1>4. PICK g : g = With(h, "auth_handle", Or(h["auth_handle"], "OWNER"))
  OBVIOUS
<1>5. /\ Alike(g, m) /\ g["auth_handle"] # Unset
      /\ SameBut(g, h, "auth_handle")
      /\ h["auth_handle"] # Unset => g = h
  <2>1. FieldValues["auth_handle"] = Names /\ "OWNER" \in Names /\ "OWNER" # Unset
    BY DefaultsAreNames DEF FieldValues
  <2> QED
    BY <1>2, <1>3, <1>4, <2>1, DefaultSet DEF Alike
<1>6. PICK a : a = IF m.hash_alg \in DOMAIN PolicySize THEN m.hash_alg ELSE "SHA256"
  OBVIOUS
<1>7. /\ a \in {"SHA1", "SHA256", "SHA384", "NULL"} /\ a \in DOMAIN PolicySize
      /\ m.hash_alg \in DOMAIN PolicySize => a = m.hash_alg
  BY <1>6 DEF PolicySize
<1>8. PICK k : k = With(g, "hash_alg", a)
  OBVIOUS
<1>9. a \in FieldValues["hash_alg"]
  <2>1. a \in Names
    BY <1>7, DefaultsAreNames
  <2> QED
    BY <2>1 DEF FieldValues
<1>10. /\ Alike(k, m) /\ k["hash_alg"] = a
       /\ SameBut(k, g, "hash_alg")
       /\ a = g["hash_alg"] => k = g
  BY <1>3, <1>5, <1>8, <1>9, FieldSet DEF Alike
<1>11. PICK n : n = PolicySize[a]
  OBVIOUS
<1>12. n \in FieldValues["auth_policy"]
  <2>1. n \in Nat
    BY <1>7, <1>11 DEF PolicySize
  <2> QED
    BY <2>1 DEF FieldValues
<1>13. PICK q : q = With(k, "auth_policy", n)
  OBVIOUS
<1>14. /\ Alike(q, m) /\ q["auth_policy"] = n
       /\ SameBut(q, k, "auth_policy")
       /\ n = k["auth_policy"] => q = k
  BY <1>3, <1>10, <1>12, <1>13, FieldSet DEF Alike
<1>15. r = WithSession(q)
  <2>1. q = [WithHeader(m, "SESSIONS") EXCEPT
               !.auth_handle = Or(@, "OWNER"), !.hash_alg = a, !.auth_policy = n]
    BY <1>1, <1>4, <1>8, <1>13 DEF With
  <2> QED
    BY <1>6, <1>11, <2>1 DEF NormalizeSetPrimaryPolicy
<1>16. /\ Alike(r, m) /\ r.sessions # << >>
       /\ SameBut(r, q, "sessions")
       /\ q.sessions # << >> => r = q
  BY <1>3, <1>14, <1>15, SessionSet DEF Alike
<1>17. /\ q["header"] = h["header"] /\ q["auth_handle"] = g["auth_handle"]
       /\ q["hash_alg"] = a /\ q["command"] = h["command"]
  BY <1>2, <1>3, <1>5, <1>10, <1>14 DEF SameBut, Alike
<1>18. /\ r["header"] = q["header"] /\ r["auth_handle"] = q["auth_handle"]
       /\ r["hash_alg"] = a /\ r["auth_policy"] = n /\ r["command"] = q["command"]
  BY <1>3, <1>2, <1>14, <1>16, <1>17 DEF SameBut, Alike
<1>19. Normal("SetPrimaryPolicy", r)
  <2>1. HeaderNormal(r, "SESSIONS") /\ r.auth_handle # Unset
    BY <1>2, <1>5, <1>17, <1>18 DEF HeaderNormal
  <2>2. r.hash_alg \in DOMAIN PolicySize /\ r.auth_policy = PolicySize[r.hash_alg]
    BY <1>7, <1>11, <1>18
  <2> QED
    BY <1>16, <2>1, <2>2 DEF Normal, PlainCommands
<1>20. ASSUME Normal("SetPrimaryPolicy", m) PROVE r = m
  <2>1. /\ HeaderNormal(m, "SESSIONS") /\ m["auth_handle"] # Unset
        /\ m["sessions"] # << >>
        /\ m["hash_alg"] = a /\ m["auth_policy"] = n
    <3>1. /\ HeaderNormal(m, "SESSIONS") /\ m.auth_handle # Unset
          /\ m.sessions # << >>
          /\ m.hash_alg \in DOMAIN PolicySize
          /\ m.auth_policy = PolicySize[m.hash_alg]
      BY <1>20 DEF Normal, SessionCommands
    <3> QED
      BY <1>7, <1>11, <3>1
  <2>2. h = m
    BY <1>2, <2>1
  <2>3. g = m
    BY <1>5, <2>1, <2>2
  <2>4. k = m
    BY <1>10, <2>1, <2>3
  <2>5. q = m
    BY <1>14, <2>1, <2>4
  <2> QED
    BY <1>16, <2>1, <2>5
<1> QED
  BY <1>16, <1>19, <1>20 DEF Normalizes

\* NormalizeStartAuthSession.
LEMMA StartAuthSessionNormalized ==
  ASSUME NEW m, IsMessage(m), m.command = "StartAuthSession",
         NEW r, r = NormalizeStartAuthSession(m)
  PROVE  Normalizes("StartAuthSession", m, r)
<1>1. PICK h : h = WithHeader(m, "NO_SESSIONS")
  OBVIOUS
<1>2. /\ Alike(h, m) /\ HeaderNormal(h, "NO_SESSIONS") /\ "header" \in DOMAIN m
      /\ SameBut(h, m, "header")
      /\ HeaderNormal(m, "NO_SESSIONS") => h = m
  BY <1>1, HeaderSet, TagsAreNames
<1>3. /\ "tpm_key" \in DOMAIN m /\ "bind" \in DOMAIN m /\ "nonce" \in DOMAIN m
      /\ "symmetric" \in DOMAIN m /\ "auth_hash" \in DOMAIN m
  BY NormalisedFields
<1>4. /\ FieldValues["tpm_key"] = Names /\ FieldValues["bind"] = Names
      /\ FieldValues["auth_hash"] = Names /\ FieldValues["nonce"] = Nat
      /\ FieldValues["symmetric"] = [algorithm : Names]
  BY DEF FieldValues
<1>5. "NULL" \in Names /\ "NULL" # Unset /\ "SHA256" \in Names /\ "SHA256" # Unset
  BY DefaultsAreNames
<1>6. PICK g : g = With(h, "tpm_key", Or(h["tpm_key"], "NULL"))
  OBVIOUS
<1>7. /\ Alike(g, m) /\ g["tpm_key"] # Unset /\ SameBut(g, h, "tpm_key")
      /\ h["tpm_key"] # Unset => g = h
  BY <1>2, <1>3, <1>4, <1>5, <1>6, DefaultSet DEF Alike
<1>8. PICK k : k = With(g, "bind", Or(g["bind"], "NULL"))
  OBVIOUS
<1>9. /\ Alike(k, m) /\ k["bind"] # Unset /\ SameBut(k, g, "bind")
      /\ g["bind"] # Unset => k = g
  BY <1>3, <1>4, <1>5, <1>7, <1>8, DefaultSet DEF Alike
<1>10. PICK l : l = With(k, "auth_hash", Or(k["auth_hash"], "SHA256"))
  OBVIOUS
<1>11. /\ Alike(l, m) /\ l["auth_hash"] # Unset /\ SameBut(l, k, "auth_hash")
       /\ k["auth_hash"] # Unset => l = k
  BY <1>3, <1>4, <1>5, <1>9, <1>10, DefaultSet DEF Alike
<1>12. PICK s : s = [algorithm |-> Or(l["symmetric"].algorithm, "NULL")]
  OBVIOUS
<1>13. l["symmetric"] \in [algorithm : Names]
  <2>1. IsMessage(l) /\ "symmetric" \in DOMAIN l
    BY <1>3, <1>11 DEF Alike
  <2> QED
    BY <1>4, <2>1, MessageFits
<1>14. /\ s \in FieldValues["symmetric"] /\ s.algorithm # Unset
       /\ l["symmetric"].algorithm # Unset => s = l["symmetric"]
  <2>1. l["symmetric"].algorithm \in Names
    BY <1>13
  <2>2. /\ s.algorithm \in Names /\ s.algorithm # Unset
        /\ l["symmetric"].algorithm # Unset => s.algorithm = l["symmetric"].algorithm
    BY <1>5, <1>12, <2>1, OrIs
  <2>3. s \in [algorithm : Names]
    BY <1>12, <2>2
  <2> QED
    BY <1>4, <1>13, <2>2, <2>3
<1>15. PICK o : o = With(l, "symmetric", s)
  OBVIOUS
<1>16. /\ Alike(o, m) /\ o["symmetric"] = s /\ SameBut(o, l, "symmetric")
       /\ s = l["symmetric"] => o = l
  BY <1>3, <1>11, <1>14, <1>15, FieldSet DEF Alike
<1>17. o["nonce"] \in Nat /\ "nonce" \in DOMAIN o
  <2>1. IsMessage(o) /\ "nonce" \in DOMAIN o
    BY <1>3, <1>16 DEF Alike
  <2> QED
    BY <1>4, <2>1, MessageFits
<1>18. PICK n : n = OrNumber(o["nonce"], 16)
  OBVIOUS
<1>19. n \in FieldValues["nonce"] /\ n # 0 /\ (o["nonce"] # 0 => n = o["nonce"])
  BY <1>4, <1>17, <1>18, OrNumberIs
<1>20. PICK q : q = With(o, "nonce", n)
  OBVIOUS
<1>21. /\ Alike(q, m) /\ q["nonce"] = n /\ SameBut(q, o, "nonce")
       /\ n = o["nonce"] => q = o
  BY <1>16, <1>17, <1>19, <1>20, FieldSet DEF Alike
<1>22. r = q
  <2>1. s = [l["symmetric"] EXCEPT !.algorithm = Or(@, "NULL")]
    BY <1>12, <1>13
  <2>2. o = [l EXCEPT !.symmetric.algorithm = Or(@, "NULL")]
    BY <1>15, <2>1 DEF With
  <2>3. q = [o EXCEPT !.nonce = OrNumber(@, 16)]
    BY <1>18, <1>20 DEF With
  <2>4. l = [k EXCEPT !.auth_hash = Or(@, "SHA256")]
    BY <1>10 DEF With
  <2>5. k = [g EXCEPT !.bind = Or(@, "NULL")]
    BY <1>8 DEF With
  <2>6. g = [WithHeader(m, "NO_SESSIONS") EXCEPT !.tpm_key = Or(@, "NULL")]
    BY <1>1, <1>6 DEF With
  <2> QED
    BY <2>2, <2>3, <2>4, <2>5, <2>6 DEF NormalizeStartAuthSession
<1>23. /\ l["header"] = h["header"] /\ l["tpm_key"] = g["tpm_key"]
       /\ l["bind"] = k["bind"] /\ l["command"] = h["command"]
  BY <1>2, <1>3, <1>7, <1>9, <1>11 DEF SameBut, Alike
<1>24. /\ q["header"] = l["header"] /\ q["tpm_key"] = l["tpm_key"]
       /\ q["bind"] = l["bind"] /\ q["command"] = l["command"]
       /\ q["auth_hash"] = l["auth_hash"] /\ q["symmetric"] = s
  BY <1>2, <1>3, <1>11, <1>16, <1>21 DEF SameBut, Alike
<1>25. Normal("StartAuthSession", r)
  BY <1>2, <1>7, <1>9, <1>11, <1>14, <1>19, <1>21, <1>22, <1>23, <1>24
     DEF Normal, HeaderNormal, SessionCommands
<1>26. ASSUME Normal("StartAuthSession", m) PROVE r = m
  <2>1. /\ HeaderNormal(m, "NO_SESSIONS") /\ m["tpm_key"] # Unset
        /\ m["bind"] # Unset /\ m["auth_hash"] # Unset
        /\ m["symmetric"].algorithm # Unset /\ m["nonce"] # 0
    BY <1>26 DEF Normal, PlainCommands
  <2>2. h = m
    BY <1>2, <2>1
  <2>3. g = m
    BY <1>7, <2>1, <2>2
  <2>4. k = m
    BY <1>9, <2>1, <2>3
  <2>5. l = m
    BY <1>11, <2>1, <2>4
  <2>6. o = m
    BY <1>14, <1>16, <2>1, <2>5
  <2> QED
    BY <1>19, <1>21, <1>22, <2>1, <2>6
<1> QED
  BY <1>21, <1>22, <1>25, <1>26 DEF Normalizes

\* Whatever post-processor runs, in whatever order: the message of a command
\* stays one, becomes normal for it, stays normal for the other one, and does
\* not change if it was normal.
LEMMA PostProcessed ==
  ASSUME NEW m, IsMessage(m), NEW p \in PostProcessors(m.command),
         NEW r, r = PostProcess(p, m)
  PROVE  /\ Normalizes(p, m, r)
         /\ \A x \in PostProcessors(m.command) : Normal(x, m) => Normal(x, r)
<1>1. CASE p = "InPublic"
  <2>1. m.command = "Load" /\ r = NormalizeInPublic(m)
    BY <1>1, MessageFits
       DEF PostProcessors, PostProcess, EmittedCommands, SessionCommands, PlainCommands,
           HeaderOnlySessions, HeaderOnlyNoSessions
  <2>2. Normalizes("InPublic", m, r) /\ (Normal("Load", m) => Normal("Load", r))
    BY <2>1, InPublicNormalized
  <2> QED
    BY <1>1, <2>1, <2>2 DEF PostProcessors, Normalizes
<1>2. CASE p = "Load"
  <2>1. m.command = "Load" /\ r = NormalizeLoad(m)
    BY <1>2 DEF PostProcessors, PostProcess, HeaderOnlySessions, HeaderOnlyNoSessions
  <2>2. Normalizes("Load", m, r) /\ r["in_public"] = m["in_public"]
    BY <2>1, LoadNormalized
  <2>3. Normal("InPublic", m) => Normal("InPublic", r)
    BY <2>2 DEF Normal, SessionCommands, PlainCommands
  <2> QED
    BY <1>2, <2>1, <2>2, <2>3 DEF PostProcessors, Normalizes
<1>3. CASE p \notin {"InPublic", "Load"}
  <2>1. p = m.command /\ p \in EmittedCommands /\ PostProcessors(m.command) = {p}
    BY <1>3, MessageFits DEF PostProcessors
  <2>2. Normalizes(p, m, r)
    <3>1. CASE p = "Clear"
      BY <2>1, <3>1, ClearNormalized
         DEF PostProcess, HeaderOnlySessions, HeaderOnlyNoSessions
    <3>2. CASE p = "SetPrimaryPolicy"
      BY <2>1, <3>2, SetPrimaryPolicyNormalized
         DEF PostProcess, HeaderOnlySessions, HeaderOnlyNoSessions
    <3>3. CASE p = "GetRandom"
      BY <2>1, <3>3, GetRandomNormalized
         DEF PostProcess, HeaderOnlySessions, HeaderOnlyNoSessions
    <3>4. CASE p = "StartAuthSession"
      BY <2>1, <3>4, StartAuthSessionNormalized
         DEF PostProcess, HeaderOnlySessions, HeaderOnlyNoSessions
    <3>5. CASE p = "CreatePrimary"
      BY <2>1, <3>5, CreatePrimaryNormalized
         DEF PostProcess, HeaderOnlySessions, HeaderOnlyNoSessions
    <3>6. CASE p = "Create"
      BY <2>1, <3>6, CreateNormalized
         DEF PostProcess, HeaderOnlySessions, HeaderOnlyNoSessions
    <3>7. CASE p \in HeaderOnlySessions
      <4>1. r = WithHeader(m, "SESSIONS")
        BY <3>7 DEF PostProcess, HeaderOnlySessions, HeaderOnlyNoSessions
      <4>2. Alike(r, m) /\ HeaderNormal(r, "SESSIONS")
            /\ (HeaderNormal(m, "SESSIONS") => r = m)
        BY <4>1, HeaderSet, TagsAreNames
      <4> QED
        BY <3>7, <4>2 DEF Normalizes, Normal, HeaderOnlySessions, SessionCommands,
                          PlainCommands
    <3>8. CASE p \in HeaderOnlyNoSessions
      <4>1. r = WithHeader(m, "NO_SESSIONS")
        BY <3>8 DEF PostProcess, HeaderOnlySessions, HeaderOnlyNoSessions
      <4>2. Alike(r, m) /\ HeaderNormal(r, "NO_SESSIONS")
            /\ (HeaderNormal(m, "NO_SESSIONS") => r = m)
        BY <4>1, HeaderSet, TagsAreNames
      <4> QED
        BY <3>8, <4>2 DEF Normalizes, Normal, HeaderOnlyNoSessions, SessionCommands,
                          PlainCommands
    <3> QED
      BY <1>3, <2>1, <3>1, <3>2, <3>3, <3>4, <3>5, <3>6, <3>7, <3>8
         DEF EmittedCommands, SessionCommands, PlainCommands, HeaderOnlySessions,
             HeaderOnlyNoSessions
  <2> QED
    BY <2>1, <2>2 DEF Normalizes
<1> QED
  BY <1>1, <1>2, <1>3

-----------------------------------------------------------------------------
(* What the fields write.                                                  *)

\* A value and its width.
LEMMA ItemIs ==
  ASSUME NEW width, NEW value
  PROVE  Item(width, value).width = width /\ Item(width, value).value = value
  BY DEF Item

LEMMA ItemTyped ==
  ASSUME NEW width \in Nat, NEW value, value \in Names \/ value \in Nat \/ value \in Texts
  PROVE  Item(width, value) \in ItemRecords
  BY DEF Item, ItemRecords

\* What is written of a value with a size.
LEMMA ClampIs ==
  ASSUME NEW n \in Nat, NEW most \in Nat
  PROVE  /\ Clamp(n, most) \in Nat /\ Clamp(n, most) <= most /\ Clamp(n, most) <= n
         /\ n <= most => Clamp(n, most) = n
  BY DEF Clamp

LEMMA SizesAreNat ==
  /\ kData \in Nat /\ kDigest \in Nat /\ kPrivate \in Nat /\ kEvent \in Nat
  /\ kRsaKey \in Nat /\ kSensitiveData \in Nat /\ kMaxBanks \in Nat /\ kMaxSelect \in Nat
  BY DEF kData, kDigest, kPrivate, kEvent, kRsaKey, kSensitiveData, kMaxBanks, kMaxSelect

\* A list of one value, or of two.
LEMMA OneListed ==
  ASSUME NEW a \in ItemRecords, NEW l, l = <<a>>
  PROVE  /\ l \in ItemLists /\ Len(l) = 1 /\ l[1] = a
         /\ Before(l, 0) = 0 /\ Before(l, 1) = a.width
  BY DEF ItemLists, Before

LEMMA TwoListed ==
  ASSUME NEW a \in ItemRecords, NEW b \in ItemRecords, NEW l, l = <<a, b>>
  PROVE  /\ l \in ItemLists /\ Len(l) = 2 /\ l[1] = a /\ l[2] = b
         /\ Before(l, 0) = 0 /\ Before(l, 1) = a.width
         /\ Before(l, 2) = a.width + b.width
  BY DEF ItemLists, Before

\* A TPM2B is its size and its bytes.
LEMMA Tpm2bListed ==
  ASSUME NEW n \in Nat, NEW most \in Nat, NEW l, l = Tpm2b(n, most)
  PROVE  /\ l \in ItemLists /\ Len(l) = 2
         /\ l[1] = Item(2, Clamp(n, most))
         /\ Before(l, 0) = 0 /\ Before(l, 2) = 2 + Clamp(n, most)
<1>1. PICK c \in Nat : c = Clamp(n, most)
  BY ClampIs
<1>2. Item(2, c) \in ItemRecords /\ Item(c, "bytes") \in ItemRecords
  BY ItemTyped DEF Texts
<1>3. l = <<Item(2, c), Item(c, "bytes")>>
  BY <1>1 DEF Tpm2b
<1>4. Item(2, c).width = 2 /\ Item(c, "bytes").width = c
  BY ItemIs
<1> QED
  BY <1>1, <1>2, <1>3, <1>4, TwoListed

\* The header is three values.
LEMMA HeaderListed ==
  ASSUME NEW h \in Headers, NEW l, l = HeaderItems(h)
  PROVE  /\ l \in ItemLists /\ Len(l) = 3
         /\ l[1] = Item(2, h.tag) /\ l[2].width = 4 /\ l[3] = Item(4, h.command_code)
         /\ Before(l, 0) = 0 /\ Before(l, 1) = 2 /\ Before(l, 2) = 6 /\ Before(l, 3) = 10
<1>1. h.tag \in Names /\ h.command_size \in Nat /\ h.command_code \in Names
  BY DEF Headers
<1>2. PICK a, b, c : a = Item(2, h.tag) /\ b = Item(4, h.command_size)
                     /\ c = Item(4, h.command_code)
  OBVIOUS
<1>3. /\ a \in ItemRecords /\ a.width = 2 /\ b \in ItemRecords /\ b.width = 4
      /\ c \in ItemRecords /\ c.width = 4
  BY <1>1, <1>2, ItemTyped, ItemIs
<1>4. l = <<a, b, c>>
  BY <1>2 DEF HeaderItems
<1> QED
  BY <1>2, <1>3, <1>4 DEF ItemLists, Before

\* A session is six values.
LEMMA SessionListed ==
  ASSUME NEW s \in Sessions, NEW l, l = SessionItems(s)
  PROVE  \E n \in Nat, k \in Nat :
           /\ l \in ItemLists /\ Len(l) = 6
           /\ l[1] = Item(4, s.session_handle)
           /\ l[2] = Item(2, n) /\ l[3].width = n /\ l[4].width = 1
           /\ l[5] = Item(2, k) /\ l[6].width = k
           /\ Before(l, 0) = 0 /\ Before(l, 1) = 4 /\ Before(l, 2) = 6
           /\ Before(l, 3) = 6 + n /\ Before(l, 4) = 7 + n /\ Before(l, 5) = 9 + n
           /\ Before(l, 6) = 9 + n + k
<1>1. /\ s.session_handle \in Names /\ s.nonce \in Nat /\ s.session_attributes \in Nat
      /\ s.hmac \in Nat
  BY DEF Sessions
<1>2. PICK n \in Nat : n = s.nonce % 65536
  BY <1>1
<1>3. PICK k \in Nat : k = s.hmac % 65536
  BY <1>1
<1>4. PICK f \in Nat : f = s.session_attributes % 256
  BY <1>1
<1>5. PICK a, b, c, d, e, g :
        /\ a = Item(4, s.session_handle) /\ b = Item(2, n) /\ c = Item(n, "nonce")
        /\ d = Item(1, f) /\ e = Item(2, k) /\ g = Item(k, "hmac")
  OBVIOUS
<1>6. /\ a \in ItemRecords /\ b \in ItemRecords /\ d \in ItemRecords /\ e \in ItemRecords
      /\ c \in ItemRecords /\ g \in ItemRecords
  BY <1>1, <1>5, ItemTyped DEF Texts
<1>7. a.width = 4 /\ b.width = 2 /\ c.width = n /\ d.width = 1 /\ e.width = 2 /\ g.width = k
  BY <1>5, ItemIs
<1>8. l = <<a, b, c, d, e, g>>
  BY <1>2, <1>3, <1>4, <1>5 DEF SessionItems
<1>9. /\ l \in ItemLists /\ Len(l) = 6 /\ l[1] = a /\ l[2] = b /\ l[3] = c /\ l[4] = d
      /\ l[5] = e /\ l[6] = g
  BY <1>6, <1>8 DEF ItemLists
<1>10. /\ Before(l, 0) = 0 /\ Before(l, 1) = 4 /\ Before(l, 2) = 6
       /\ Before(l, 3) = 6 + n /\ Before(l, 4) = 7 + n /\ Before(l, 5) = 9 + n
       /\ Before(l, 6) = 9 + n + k
  BY <1>7, <1>9 DEF Before
<1> QED
  BY <1>5, <1>7, <1>9, <1>10

\* The area of a public area is written in widths.
LEMMA PublicListed ==
  ASSUME NEW p \in Publics
  PROVE  PublicItems(p) \in ItemLists
<1>1. /\ p.auth_policy \in Nat /\ p.parms \in Parms
      /\ p.unique \in [kind : Kinds, size : Nat]
  BY DEF Publics
<1>2. p.parms.kind \in Kinds
  BY <1>1 DEF Parms
<1>3. MarshalledType(p) \in {"NULL", "RSA", "KEYEDHASH"}
  BY <1>2 DEF MarshalledType, Kinds
<1>4. ParmsWidth(p) \in Nat
  BY <1>3 DEF ParmsWidth
<1>5. Clamp(p.unique.size, kRsaKey) \in Nat /\ Clamp(p.unique.size, kDigest) \in Nat
      /\ Clamp(p.auth_policy, kDigest) \in Nat
  BY <1>1, SizesAreNat, ClampIs
<1>6. UniqueWidth(p) \in Nat
  BY <1>3, <1>5 DEF UniqueWidth
<1>7. PolicyLength(p) \in Nat
  BY <1>5 DEF PolicyLength
<1>8. PICK c \in Nat : c = 2 + 8 + PolicyLength(p) + ParmsWidth(p) + UniqueWidth(p)
  BY <1>4, <1>6, <1>7
<1>9. /\ Item(2, c) \in ItemRecords /\ Item(2, MarshalledType(p)) \in ItemRecords
      /\ Item(8 + PolicyLength(p), "attributes") \in ItemRecords
      /\ Item(ParmsWidth(p), "parameters") \in ItemRecords
      /\ Item(UniqueWidth(p), "unique") \in ItemRecords
  <2>1. MarshalledType(p) \in Names
    BY <1>3, DefaultsAreNames
  <2>2. 8 + PolicyLength(p) \in Nat
    BY <1>7
  <2> QED
    BY <1>4, <1>6, <2>1, <2>2, ItemTyped DEF Texts
<1> QED
  BY <1>8, <1>9 DEF PublicItems, ItemLists

\* A selection list is its count and that many selections.
LEMMA SelectionListed ==
  ASSUME NEW sizes \in Seq(Nat)
  PROVE  SelectionItems(sizes) \in ItemLists
<1>1. PICK count \in Nat : count = Clamp(Len(sizes), kMaxBanks)
  BY SizesAreNat, ClampIs
<1>2. count <= Len(sizes)
  BY <1>1, SizesAreNat, ClampIs
<1>3. PICK banks : banks = [i \in 1..count |->
                              Item(3 + Clamp(sizes[i], kMaxSelect), "selection")]
  OBVIOUS
<1>4. ASSUME NEW i \in 1..count
      PROVE  Item(3 + Clamp(sizes[i], kMaxSelect), "selection") \in ItemRecords
  <2>1. Clamp(sizes[i], kMaxSelect) \in Nat
    <3>1. i \in 1..Len(sizes)
      BY <1>2
    <3>2. sizes[i] \in Nat
      BY <3>1
    <3> QED
      BY <3>2, SizesAreNat, ClampIs
  <2>2. 3 + Clamp(sizes[i], kMaxSelect) \in Nat
    BY <2>1
  <2> QED
    BY <2>2, ItemTyped DEF Texts
<1>5. banks \in Seq(ItemRecords)
  BY <1>3, <1>4
<1>6. <<Item(4, count)>> \in Seq(ItemRecords)
  BY ItemTyped
<1>7. SelectionItems(sizes) = <<Item(4, count)>> \o banks
  BY <1>1, <1>3 DEF SelectionItems
<1> QED
  BY <1>5, <1>6, <1>7 DEF ItemLists

\* Every field but the sessions writes a list of values.
LEMMA ItemsTyped ==
  ASSUME NEW type \in DOMAIN FieldType, type # "TPMSession", NEW v \in FieldType[type]
  PROVE  Items(type, v) \in ItemLists
<1>1. CASE type = "TPMHeader"
  <2>1. v \in Headers
    BY <1>1 DEF FieldType
  <2> QED
    BY <1>1, <2>1, HeaderListed DEF Items, ItemLists
<1>2. CASE type \in {"uint32", "TPMRH", "TPMALG", "TPMSE"}
  <2>1. v \in Names
    BY <1>2 DEF FieldType
  <2>2. Item(4, v) \in ItemRecords /\ Item(2, v) \in ItemRecords /\ Item(1, v) \in ItemRecords
    BY <2>1, ItemTyped
  <2>3. PICK a \in ItemRecords : Items(type, v) = <<a>>
    BY <1>2, <2>2 DEF Items, EnumWidth
  <2> QED
    BY <2>3 DEF ItemLists
<1>3. CASE type = "bytes_requested"
  <2>1. Item(2, v) \in ItemRecords
    BY <1>3, ItemTyped DEF FieldType
  <2> QED
    BY <1>3, <2>1 DEF Items, ItemLists
<1>4. CASE type \in {"TPM2BDigest", "TPM2BData", "TPM2BPrivate", "TPM2BPublicKeyRSA",
                     "TPM2BEvent"}
  <2>1. v \in Nat
    BY <1>4 DEF FieldType
  <2>2. PICK most \in Nat : Items(type, v) = Tpm2b(v, most)
    BY <1>4, SizesAreNat DEF Items
  <2> QED
    BY <2>1, <2>2, Tpm2bListed
<1>5. CASE type = "TPM2BSensitiveCreate"
  <2>1. v.user_auth \in Nat /\ v.data \in Nat
    BY <1>5 DEF FieldType
  <2>2. Clamp(v.user_auth, kDigest) \in Nat /\ Clamp(v.data, kSensitiveData) \in Nat
    BY <2>1, SizesAreNat, ClampIs
  <2>3. PICK c \in Nat :
          c = 4 + Clamp(v.user_auth, kDigest) + Clamp(v.data, kSensitiveData)
    BY <2>2
  <2>4. Item(2, c) \in ItemRecords /\ Item(c, "sensitive") \in ItemRecords
    BY ItemTyped DEF Texts
  <2> QED
    BY <1>5, <2>3, <2>4 DEF Items, SensitiveItems, ItemLists
<1>6. CASE type = "TPM2BPublic"
  <2>1. v \in Publics
    BY <1>6 DEF FieldType
  <2> QED
    BY <1>6, <2>1, PublicListed DEF Items, ItemLists
<1>7. CASE type = "TPMLPCRSelection"
  <2>1. v \in Seq(Nat)
    BY <1>7 DEF FieldType
  <2> QED
    BY <1>7, <2>1, SelectionListed DEF Items, ItemLists
<1>8. CASE type = "TPMTSymDef"
  <2>1. /\ Item(2, "AES") \in ItemRecords /\ Item(2, "NULL") \in ItemRecords
        /\ Item(4, "keyBits") \in ItemRecords
    BY ItemTyped, DefaultsAreNames DEF Texts
  <2> QED
    BY <1>8, <2>1 DEF Items, SymDefItems, ItemLists
<1>9. CASE type = "TPMTRSADecrypt"
  <2>1. v.scheme \in Names /\ v.hash_alg \in Names
    BY <1>9 DEF FieldType
  <2>2. v.scheme = "OAEP" => "OAEP" \in Names
    BY <2>1
  <2>3. /\ Item(2, v.scheme) \in ItemRecords /\ Item(2, v.hash_alg) \in ItemRecords
    BY <2>1, ItemTyped
  <2> QED
    BY <1>9, <2>3 DEF Items, SchemeItems, ItemLists
<1>10. CASE type = "TPMNvPublic"
  <2>1. v.auth_policy \in Nat
    BY <1>10 DEF FieldType
  <2>2. PICK c \in Nat : c = 14 + Clamp(v.auth_policy, kDigest)
    BY <2>1, SizesAreNat, ClampIs
  <2>3. Item(2, c) \in ItemRecords /\ Item(c, "nvPublic") \in ItemRecords
    BY ItemTyped DEF Texts
  <2> QED
    BY <1>10, <2>2, <2>3 DEF Items, NvPublicItems, ItemLists
<1> QED
  BY <1>1, <1>2, <1>3, <1>4, <1>5, <1>6, <1>7, <1>8, <1>9, <1>10 DEF FieldType

-----------------------------------------------------------------------------
(* How a list of values is written.                                        *)

\* The values of a list, and how far they reach.
LEMMA BeforeIs ==
  ASSUME NEW list \in ItemLists, Len(list) <= 6, NEW k \in 0..Len(list)
  PROVE  /\ Before(list, k) \in Nat
         /\ Before(list, 0) = 0
         /\ k > 0 => /\ list[k] \in ItemRecords /\ list[k].width \in Nat
                     /\ Before(list, k) = Before(list, k - 1) + list[k].width
<1>1. \A i \in 1..Len(list) : list[i] \in ItemRecords
  BY DEF ItemLists
<1>2. \A i \in 1..Len(list) : list[i].width \in Nat
  BY <1>1 DEF ItemRecords
<1>3. Len(list) \in Nat
  BY DEF ItemLists
<1>4. Before(list, 0) = 0
  BY DEF Before
<1>5. CASE k = 0
  BY <1>4, <1>5
<1>6. CASE k = 1
  <2>1. list[1].width \in Nat
    BY <1>2, <1>3, <1>6
  <2>2. PICK a \in Nat :
          a = list[1].width
    BY <2>1
  <2>3. Before(list, 1) = a
    BY <2>2 DEF Before
  <2>4. k - 1 = 0 /\ list[k] \in ItemRecords /\ list[k].width = a
    BY <1>1, <1>3, <1>6, <2>2
  <2> QED
    BY <1>4, <1>6, <2>2, <2>3, <2>4
<1>7. CASE k = 2
  <2>1. /\ list[1].width \in Nat
        /\ list[2].width \in Nat
    BY <1>2, <1>3, <1>7
  <2>2. PICK a \in Nat, b \in Nat :
          /\ a = list[1].width
          /\ b = list[2].width
    BY <2>1
  <2>3. /\ Before(list, 2) = list[1].width + list[2].width
        /\ Before(list, 1) = list[1].width
    BY DEF Before
  <2>4. Before(list, 2) = a + b /\ Before(list, 1) = a
    BY <2>2, <2>3, Zenon
  <2>5. k - 1 = 1 /\ list[k] \in ItemRecords /\ list[k].width = b
    BY <1>1, <1>3, <1>7, <2>2
  <2>6. a \in Nat /\ a + b \in Nat
    OBVIOUS
  <2>7. /\ Before(list, k) = Before(list, k - 1) + list[k].width
        /\ Before(list, k) \in Nat /\ list[k].width \in Nat
    BY <1>7, <2>4, <2>5, <2>6, Zenon
  <2> QED
    BY <1>4, <2>5, <2>7, Zenon
<1>8. CASE k = 3
  <2>1. /\ list[1].width \in Nat
        /\ list[2].width \in Nat
        /\ list[3].width \in Nat
    BY <1>2, <1>3, <1>8
  <2>2. PICK a \in Nat, b \in Nat, c \in Nat :
          /\ a = list[1].width
          /\ b = list[2].width
          /\ c = list[3].width
    BY <2>1
  <2>3. /\ Before(list, 3) = list[1].width + list[2].width + list[3].width
        /\ Before(list, 2) = list[1].width + list[2].width
    BY DEF Before
  <2>4. Before(list, 3) = a + b + c /\ Before(list, 2) = a + b
    BY <2>2, <2>3, Zenon
  <2>5. k - 1 = 2 /\ list[k] \in ItemRecords /\ list[k].width = c
    BY <1>1, <1>3, <1>8, <2>2
  <2>6. a + b \in Nat /\ a + b + c \in Nat
    OBVIOUS
  <2>7. /\ Before(list, k) = Before(list, k - 1) + list[k].width
        /\ Before(list, k) \in Nat /\ list[k].width \in Nat
    BY <1>8, <2>4, <2>5, <2>6, Zenon
  <2> QED
    BY <1>4, <2>5, <2>7, Zenon
<1>9. CASE k = 4
  <2>1. /\ list[1].width \in Nat
        /\ list[2].width \in Nat
        /\ list[3].width \in Nat
        /\ list[4].width \in Nat
    BY <1>2, <1>3, <1>9
  <2>2. PICK a \in Nat, b \in Nat, c \in Nat, d \in Nat :
          /\ a = list[1].width
          /\ b = list[2].width
          /\ c = list[3].width
          /\ d = list[4].width
    BY <2>1
  <2>3. /\ Before(list, 4) = list[1].width + list[2].width + list[3].width
                              + list[4].width
        /\ Before(list, 3) = list[1].width + list[2].width + list[3].width
    BY DEF Before
  <2>4. Before(list, 4) = a + b + c + d /\ Before(list, 3) = a + b + c
    BY <2>2, <2>3, Zenon
  <2>5. k - 1 = 3 /\ list[k] \in ItemRecords /\ list[k].width = d
    BY <1>1, <1>3, <1>9, <2>2
  <2>6. a + b + c \in Nat /\ a + b + c + d \in Nat
    OBVIOUS
  <2>7. /\ Before(list, k) = Before(list, k - 1) + list[k].width
        /\ Before(list, k) \in Nat /\ list[k].width \in Nat
    BY <1>9, <2>4, <2>5, <2>6, Zenon
  <2> QED
    BY <1>4, <2>5, <2>7, Zenon
<1>10. CASE k = 5
  <2>1. /\ list[1].width \in Nat
        /\ list[2].width \in Nat
        /\ list[3].width \in Nat
        /\ list[4].width \in Nat
        /\ list[5].width \in Nat
    BY <1>2, <1>3, <1>10
  <2>2. PICK a \in Nat, b \in Nat, c \in Nat, d \in Nat, e \in Nat :
          /\ a = list[1].width
          /\ b = list[2].width
          /\ c = list[3].width
          /\ d = list[4].width
          /\ e = list[5].width
    BY <2>1
  <2>3. /\ Before(list, 5) = list[1].width + list[2].width + list[3].width
                              + list[4].width + list[5].width
        /\ Before(list, 4) = list[1].width + list[2].width + list[3].width
                              + list[4].width
    BY DEF Before
  <2>4. Before(list, 5) = a + b + c + d + e /\ Before(list, 4) = a + b + c + d
    BY <2>2, <2>3, Zenon
  <2>5. k - 1 = 4 /\ list[k] \in ItemRecords /\ list[k].width = e
    BY <1>1, <1>3, <1>10, <2>2
  <2>6. a + b + c + d \in Nat /\ a + b + c + d + e \in Nat
    OBVIOUS
  <2>7. /\ Before(list, k) = Before(list, k - 1) + list[k].width
        /\ Before(list, k) \in Nat /\ list[k].width \in Nat
    BY <1>10, <2>4, <2>5, <2>6, Zenon
  <2> QED
    BY <1>4, <2>5, <2>7, Zenon
<1>11. CASE k = 6
  <2>1. /\ list[1].width \in Nat
        /\ list[2].width \in Nat
        /\ list[3].width \in Nat
        /\ list[4].width \in Nat
        /\ list[5].width \in Nat
        /\ list[6].width \in Nat
    BY <1>2, <1>3, <1>11
  <2>2. PICK a \in Nat, b \in Nat, c \in Nat, d \in Nat, e \in Nat, f \in Nat :
          /\ a = list[1].width
          /\ b = list[2].width
          /\ c = list[3].width
          /\ d = list[4].width
          /\ e = list[5].width
          /\ f = list[6].width
    BY <2>1
  <2>3. /\ Before(list, 6) = list[1].width + list[2].width + list[3].width
                              + list[4].width + list[5].width + list[6].width
        /\ Before(list, 5) = list[1].width + list[2].width + list[3].width
                              + list[4].width + list[5].width
    BY DEF Before
  <2>4. Before(list, 6) = a + b + c + d + e + f /\ Before(list, 5) = a + b + c + d + e
    BY <2>2, <2>3, Zenon
  <2>5. k - 1 = 5 /\ list[k] \in ItemRecords /\ list[k].width = f
    BY <1>1, <1>3, <1>11, <2>2
  <2>6. a + b + c + d + e \in Nat /\ a + b + c + d + e + f \in Nat
    OBVIOUS
  <2>7. /\ Before(list, k) = Before(list, k - 1) + list[k].width
        /\ Before(list, k) \in Nat /\ list[k].width \in Nat
    BY <1>11, <2>4, <2>5, <2>6, Zenon
  <2> QED
    BY <1>4, <2>5, <2>7, Zenon
<1>12. k = 0 \/ k = 1 \/ k = 2 \/ k = 3 \/ k = 4 \/ k = 5 \/ k = 6
  BY <1>3
<1> QED
  BY <1>5, <1>6, <1>7, <1>8, <1>9, <1>10, <1>11, <1>12

\* A value that is put in the buffer is held, unless it is empty.
LEMMA PutHolds ==
  ASSUME NEW w, NEW at, NEW item, item.width # 0
  PROVE  Holds(Put(w, at, item), at, item)
  BY DEF Holds, Put

\* The others are still held.
LEMMA PutKeeps ==
  ASSUME NEW w, NEW at, NEW item, NEW o, NEW x, Holds(w, o, x), o # at
  PROVE  Holds(Put(w, at, item), o, x)
  BY DEF Holds, Put

\* Nothing is overwritten where nothing was written.
LEMMA PutKeepsAll ==
  ASSUME NEW w, NEW at, at \notin DOMAIN w, NEW item, NEW o, NEW x, Holds(w, o, x)
  PROVE  Holds(Put(w, at, item), o, x)
<1>1. o # at
  BY DEF Holds
<1> QED
  BY <1>1, PutKeeps

LEMMA WrittenKept ==
  ASSUME NEW w, NEW at, at \notin DOMAIN w, NEW item,
         NEW list, NEW n, NEW base, WrittenIn(w, list, n, base)
  PROVE  WrittenIn(Put(w, at, item), list, n, base)
<1>1. ASSUME NEW i \in 1..n, list[i].width > 0
      PROVE  Holds(Put(w, at, item), base + Before(list, i - 1), list[i])
  <2>1. Holds(w, base + Before(list, i - 1), list[i])
    BY <1>1 DEF WrittenIn
  <2> QED
    BY <2>1, PutKeepsAll
<1> QED
  BY <1>1 DEF WrittenIn

\* A size that is patched in front of a list leaves the list alone.
LEMMA WrittenBehind ==
  ASSUME NEW w, NEW at \in Nat, NEW item, NEW list \in ItemLists, Len(list) <= 6,
         NEW n \in 0..Len(list), NEW base \in Nat, at < base, WrittenIn(w, list, n, base)
  PROVE  WrittenIn(Put(w, at, item), list, n, base)
<1>1. ASSUME NEW i \in 1..n, list[i].width > 0
      PROVE  Holds(Put(w, at, item), base + Before(list, i - 1), list[i])
  <2>1. Holds(w, base + Before(list, i - 1), list[i])
    BY <1>1 DEF WrittenIn
  <2>2. Len(list) \in Nat
    BY DEF ItemLists
  <2>3. i - 1 \in 0..Len(list)
    BY <2>2
  <2>4. Before(list, i - 1) \in Nat
    BY <2>3, BeforeIs
  <2>5. base + Before(list, i - 1) # at
    BY <2>4
  <2> QED
    BY <2>1, <2>5, PutKeeps
<1> QED
  BY <1>1 DEF WrittenIn

\* Nothing of a list is written before the first write, and all of it after the
\* last one.
LEMMA ProgressStarts ==
  ASSUME NEW list \in ItemLists, NEW base \in Nat, NEW w
  PROVE  ProgressIn(list, base, w, list, base)
<1>1. Len(list) \in Nat /\ Len(list) - Len(list) = 0
  BY DEF ItemLists
<1>2. \A i \in 1..Len(list) : list[i] = list[Len(list) - Len(list) + i]
  BY <1>1
<1>3. base = base + Before(list, 0)
  BY DEF Before
<1>4. WrittenIn(w, list, 0, base)
  BY DEF WrittenIn
<1> QED
  BY <1>1, <1>2, <1>3, <1>4 DEF ProgressIn

LEMMA ProgressEnds ==
  ASSUME NEW list \in ItemLists, NEW base, NEW w, NEW at,
         ProgressIn(<< >>, at, w, list, base)
  PROVE  WrittenIn(w, list, Len(list), base) /\ at = base + Before(list, Len(list))
<1>1. Len(list) \in Nat /\ Len(list) - Len(<< >>) = Len(list)
  BY DEF ItemLists
<1> QED
  BY <1>1 DEF ProgressIn

\* A write is a step along the list.
LEMMA ProgressStep ==
  ASSUME NEW list \in ItemLists, Len(list) <= 6, NEW base \in Nat,
         NEW left \in ItemLists, left # << >>, NEW at, NEW w, at \notin DOMAIN w,
         ProgressIn(left, at, w, list, base)
  PROVE  ProgressIn(Tail(left), at + Head(left).width, Put(w, at, Head(left)), list, base)
<1>1. /\ Len(list) \in Nat /\ Len(left) \in Nat /\ Len(left) >= 1
      /\ Head(left) = left[1] /\ Len(Tail(left)) = Len(left) - 1
      /\ \A i \in 1..Len(left) - 1 : Tail(left)[i] = left[i + 1]
  BY DEF ItemLists
<1>2. /\ Len(left) <= Len(list)
      /\ \A i \in 1..Len(left) : left[i] = list[Len(list) - Len(left) + i]
      /\ at = base + Before(list, Len(list) - Len(left))
      /\ WrittenIn(w, list, Len(list) - Len(left), base)
  BY DEF ProgressIn
<1>3. PICK n \in 1..Len(list) : n = Len(list) - Len(left) + 1
  BY <1>1, <1>2
<1>4. /\ Head(left) = list[n] /\ Len(list) - Len(left) = n - 1
      /\ Len(list) - Len(Tail(left)) = n
  BY <1>1, <1>2, <1>3
<1>5. Before(list, n) = Before(list, n - 1) + list[n].width
      /\ Before(list, n - 1) \in Nat /\ list[n].width \in Nat
  <2>1. n \in 0..Len(list) /\ n - 1 \in 0..Len(list)
    BY <1>1, <1>3
  <2> QED
    BY <1>3, <2>1, BeforeIs
<1>6. Len(Tail(left)) <= Len(list)
  BY <1>1, <1>2
<1>7. \A i \in 1..Len(Tail(left)) :
        Tail(left)[i] = list[Len(list) - Len(Tail(left)) + i]
  BY <1>1, <1>2
<1>8. at = base + Before(list, n - 1)
      /\ at + Head(left).width = base + Before(list, n)
  <2>1. at = base + Before(list, n - 1)
    BY <1>2, <1>4
  <2>2. PICK b \in Nat : b = Before(list, n - 1)
    BY <1>5
  <2>3. PICK d \in Nat : d = list[n].width
    BY <1>5
  <2>4. Before(list, n) = b + d
    BY <1>5, <2>2, <2>3
  <2>5. at = base + b /\ Head(left).width = d
    BY <1>4, <2>1, <2>2, <2>3
  <2> QED
    BY <2>1, <2>4, <2>5
<1>9. WrittenIn(w, list, n - 1, base)
  BY <1>2, <1>4
<1>10. ASSUME NEW i \in 1..n, list[i].width > 0
       PROVE  Holds(Put(w, at, list[n]), base + Before(list, i - 1), list[i])
  <2>1. CASE i = n
    <3>1. list[n].width # 0
      BY <1>5, <1>10, <2>1
    <3> QED
      BY <1>8, <2>1, <3>1, PutHolds
  <2>2. CASE i # n
    <3>1. i \in 1..n - 1
      BY <2>2
    <3>2. Holds(w, base + Before(list, i - 1), list[i])
      BY <1>9, <1>10, <3>1 DEF WrittenIn
    <3> QED
      BY <3>2, PutKeepsAll
  <2> QED
    BY <2>1, <2>2
<1>11. WrittenIn(Put(w, at, Head(left)), list, n, base)
  BY <1>4, <1>10 DEF WrittenIn
<1> QED
  BY <1>4, <1>6, <1>7, <1>8, <1>11 DEF ProgressIn

-----------------------------------------------------------------------------
(* The lists that the layout is made of.                                   *)

\* Every field but the sessions is a list of values.
LEMMA FieldListed ==
  ASSUME IsMessage(msg), NEW i \in 1..Len(Fields), Fields[i].type # "TPMSession"
  PROVE  FieldItems(i) \in ItemLists
<1>1. /\ msg.command \in EmittedCommands
      /\ msg[Fields[i].name] \in FieldType[Fields[i].type]
  BY MessageFits DEF Fields
<1>2. Fits(Fields[i])
  BY <1>1, SchemaFits DEF Fields
<1>3. Fields[i].type \in DOMAIN FieldType
  BY <1>2 DEF Fits
<1> QED
  BY <1>1, <1>3, ItemsTyped DEF FieldItems

\* The header of the message.
LEMMA HeaderIs ==
  ASSUME IsMessage(msg)
  PROVE  /\ msg.header \in Headers
         /\ Len(Fields) \in Nat /\ Len(Fields) >= 2 /\ 1 \in 1..Len(Fields)
         /\ Fields[1].type = "TPMHeader" /\ Fields[1].name = "header"
         /\ FieldItems(1) = HeaderItems(msg.header)
<1>1. msg.command \in EmittedCommands
  BY MessageFits
<1>2. /\ Fields[1] = Field("header", "TPMHeader") /\ 1 \in 1..Len(Fields)
      /\ Len(Fields) \in Nat /\ Len(Fields) >= 2
  BY <1>1, HeaderFirst DEF Fields
<1>3. msg["header"] \in FieldType["TPMHeader"]
  BY <1>2, FieldAt DEF Fields
<1>4. Fields[1].type = "TPMHeader" /\ Fields[1].name = "header"
  BY <1>2 DEF Field
<1> QED
  BY <1>2, <1>3, <1>4 DEF FieldType, FieldItems, Items

\* One handle, and the sessions.
LEMMA AreaIs ==
  ASSUME IsMessage(msg), msg.command \in SessionCommands
  PROVE  /\ msg.sessions \in Seq(Sessions)
         /\ Len(Fields) \in Nat /\ Len(Fields) >= 3
         /\ Fields[3].type = "TPMSession"
         /\ \A i \in 1..Len(Fields) : Fields[i].type = "TPMSession" => i = 3
         /\ FieldItems(2) \in ItemLists /\ Len(FieldItems(2)) = 1
         /\ Before(FieldItems(2), 1) = 4
         /\ Len(msg.sessions) \in Nat
         /\ \A k \in 1..Len(msg.sessions) :
              /\ EntryItems(k) \in ItemLists /\ Len(EntryItems(k)) = 6
              /\ Before(EntryItems(k), 6) \in Nat
<1>1. /\ msg.command \in EmittedCommands /\ Len(Fields) \in Nat /\ Len(Fields) >= 3
      /\ 3 \in 1..Len(Fields) /\ 2 \in 1..Len(Fields)
      /\ Fields[2].type \in {"uint32", "TPMRH"}
      /\ Fields[3] = Field("sessions", "TPMSession")
      /\ \A i \in 1..Len(Fields) : Fields[i].type = "TPMSession" => i = 3
  BY SessionsThird DEF Fields
<1>2. msg["sessions"] \in FieldType["TPMSession"]
  BY <1>1, FieldAt DEF Fields
<1>3. msg.sessions \in Seq(Sessions)
  BY <1>2 DEF FieldType
<1>4. Fits(Fields[2]) /\ msg[Fields[2].name] \in FieldType[Fields[2].type]
  BY <1>1, SchemaFits, MessageFits DEF Fields
<1>5. PICK v : v = msg[Fields[2].name]
  OBVIOUS
<1>6. v \in Names
  BY <1>1, <1>4, <1>5 DEF FieldType
<1>7. FieldItems(2) = <<Item(4, v)>>
  <2>1. Items("uint32", v) = <<Item(4, v)>>
    BY DEF Items
  <2>2. Items("TPMRH", v) = <<Item(4, v)>>
    <3>1. EnumWidth("TPMRH") = 4
      BY DEF EnumWidth
    <3> QED
      BY <3>1 DEF Items
  <2>3. FieldItems(2) = Items(Fields[2].type, v)
    BY <1>5 DEF FieldItems
  <2>4. Fields[2].type = "uint32" \/ Fields[2].type = "TPMRH"
    BY <1>1
  <2> QED
    BY <2>1, <2>2, <2>3, <2>4, Zenon
<1>8. Item(4, v) \in ItemRecords /\ Item(4, v).width = 4
  BY <1>6, ItemTyped, ItemIs
<1>9. ASSUME NEW k \in 1..Len(msg.sessions)
      PROVE  /\ EntryItems(k) \in ItemLists /\ Len(EntryItems(k)) = 6
             /\ Before(EntryItems(k), 6) \in Nat
  <2>1. msg.sessions[k] \in Sessions
    BY <1>3
  <2>2. PICK l : l = EntryItems(k)
    OBVIOUS
  <2>3. l \in ItemLists /\ Len(l) = 6
    BY <2>1, <2>2, SessionListed DEF EntryItems
  <2>4. Len(l) <= 6 /\ 6 \in 0..Len(l)
    BY <2>3
  <2>5. Before(l, 6) \in Nat
    BY <2>3, <2>4, BeforeIs
  <2> QED
    BY <2>2, <2>3, <2>5
<1>10. Fields[3].type = "TPMSession"
  BY <1>1 DEF Field
<1>11. FieldItems(2) \in ItemLists /\ Len(FieldItems(2)) = 1
       /\ Before(FieldItems(2), 1) = 4
  BY <1>7, <1>8, OneListed
<1> QED
  BY <1>1, <1>3, <1>9, <1>10, <1>11

\* The area ends behind its size.
LEMMA AreaEndIs ==
  ASSUME IsMessage(msg), msg.command \in SessionCommands, starts \in Seq(Nat),
         Len(starts) <= Len(msg.sessions), Chained(Len(starts))
  PROVE  /\ \A k \in 1..Len(starts) :
              starts[k] \in Nat /\ starts[k] >= 18 /\ EndOf(k) \in Nat /\ EndOf(k) >= 18
         /\ EntriesEnd \in Nat /\ EntriesEnd >= 18
         /\ Len(starts) \in Nat
<1>1. Len(starts) \in Nat /\ \A k \in 1..Len(starts) : starts[k] \in Nat
  OBVIOUS
<1>2. ASSUME NEW k \in 1..Len(starts)
      PROVE  starts[k] >= 18 /\ EndOf(k) \in Nat /\ EndOf(k) >= 18
  <2>1. starts[k] \in Nat /\ starts[k] >= 18
    BY <1>1 DEF Chained
  <2>2. k \in 1..Len(msg.sessions)
    BY <1>1, AreaIs
  <2>3. Before(EntryItems(k), 6) \in Nat
    BY <2>2, AreaIs
  <2> QED
    BY <2>1, <2>3 DEF EndOf
<1>3. EntriesEnd \in Nat /\ EntriesEnd >= 18
  <2>1. CASE starts = << >>
    BY <2>1 DEF EntriesEnd
  <2>2. CASE starts # << >>
    <3>1. Len(starts) \in 1..Len(starts)
      BY <1>1, <2>2
    <3> QED
      BY <1>2, <2>2, <3>1 DEF EntriesEnd
  <2> QED
    BY <2>1, <2>2
<1> QED
  BY <1>1, <1>2, <1>3

\* A policy as wide as its hash, and the hash.
LEMMA PolicyIs ==
  ASSUME IsMessage(msg), msg.command = "SetPrimaryPolicy", Normal("SetPrimaryPolicy", msg)
  PROVE  /\ Len(Fields) = 5
         /\ msg.hash_alg \in DOMAIN PolicySize
         /\ msg.auth_policy = PolicySize[msg.hash_alg] /\ msg.auth_policy \in Nat
         /\ FieldItems(4) \in ItemLists /\ Len(FieldItems(4)) = 2
         /\ FieldItems(4)[1] = Item(2, msg.auth_policy)
         /\ Before(FieldItems(4), 2) = 2 + msg.auth_policy
         /\ FieldItems(5) \in ItemLists /\ Len(FieldItems(5)) = 1
         /\ FieldItems(5)[1] = Item(2, msg.hash_alg)
<1>1. msg.hash_alg \in DOMAIN PolicySize /\ msg.auth_policy = PolicySize[msg.hash_alg]
  BY DEF Normal
<1>2. msg.auth_policy \in 0..48
  BY <1>1 DEF PolicySize
<1>3. /\ Len(Fields) = 5
      /\ Fields[4] = Field("auth_policy", "TPM2BDigest")
      /\ Fields[5] = Field("hash_alg", "TPMALG")
  BY SchemaTable DEF Fields
<1>4. msg["hash_alg"] \in Names
  <2>1. 5 \in 1..Len(Schema[msg.command])
        /\ Schema[msg.command][5] = Field("hash_alg", "TPMALG")
    BY <1>3 DEF Fields
  <2>2. msg["hash_alg"] \in FieldType["TPMALG"]
    BY <2>1, FieldAt
  <2> QED
    BY <2>2 DEF FieldType
<1>5. PICK n \in Nat : n = msg.auth_policy /\ n <= 65535
  BY <1>2
<1>6. Clamp(n, 65535) = n
  BY <1>5 DEF Clamp
<1>7. FieldItems(4) = Tpm2b(n, 65535)
  BY <1>3, <1>5 DEF FieldItems, Items, Field
<1>8. /\ FieldItems(4) \in ItemLists /\ Len(FieldItems(4)) = 2
      /\ FieldItems(4)[1] = Item(2, n) /\ Before(FieldItems(4), 2) = 2 + n
  <2>1. PICK most \in Nat : most = 65535
    OBVIOUS
  <2> QED
    BY <1>6, <1>7, <2>1, Tpm2bListed
<1>9. FieldItems(5) = <<Item(2, msg.hash_alg)>>
  BY <1>3 DEF FieldItems, Items, EnumWidth, Field
<1>10. Item(2, msg.hash_alg) \in ItemRecords
  BY <1>4, ItemTyped
<1>11. /\ FieldItems(5) \in ItemLists /\ Len(FieldItems(5)) = 1
       /\ FieldItems(5)[1] = Item(2, msg.hash_alg)
  BY <1>9, <1>10, OneListed
<1> QED
  BY <1>1, <1>3, <1>5, <1>8, <1>11

\* The handles and parameters of TPM2_StartAuthSession, one behind the other.
LEMMA StartIs ==
  ASSUME IsMessage(msg), msg.command = "StartAuthSession"
  PROVE  /\ Len(Fields) = 8
         /\ Clamp(msg.nonce, kData) \in Nat /\ Clamp(msg.encrypted_salt, kData) \in Nat
         /\ \A i \in 2..8 :
              /\ FieldItems(i) \in ItemLists
              /\ Len(FieldItems(i)) \in 1..2
              /\ StartBase(i) \in Nat /\ StartBase(i) >= 10
         /\ \A i \in 2..7 :
              StartBase(i) + Before(FieldItems(i), Len(FieldItems(i))) = StartBase(i + 1)
         /\ FieldItems(2)[1] = Item(4, msg.tpm_key)
         /\ FieldItems(3)[1] = Item(4, msg.bind)
         /\ FieldItems(4)[1] = Item(2, Clamp(msg.nonce, kData))
         /\ FieldItems(5)[1] = Item(2, Clamp(msg.encrypted_salt, kData))
         /\ FieldItems(6)[1] = Item(1, msg.session_type)
         /\ FieldItems(8)[1] = Item(2, msg.auth_hash)
         /\ Before(FieldItems(8), Len(FieldItems(8))) = 2
<1>1. /\ Len(Fields) = 8
      /\ Fields[2] = Field("tpm_key", "TPMRH")
      /\ Fields[3] = Field("bind", "TPMRH")
      /\ Fields[4] = Field("nonce", "TPM2BData")
      /\ Fields[5] = Field("encrypted_salt", "TPM2BData")
      /\ Fields[6] = Field("session_type", "TPMSE")
      /\ Fields[7] = Field("symmetric", "TPMTSymDef")
      /\ Fields[8] = Field("auth_hash", "TPMALG")
  BY SchemaTable DEF Fields
<1>2. /\ msg["tpm_key"] \in FieldType["TPMRH"] /\ msg["bind"] \in FieldType["TPMRH"]
      /\ msg["nonce"] \in FieldType["TPM2BData"]
      /\ msg["encrypted_salt"] \in FieldType["TPM2BData"]
      /\ msg["session_type"] \in FieldType["TPMSE"]
      /\ msg["auth_hash"] \in FieldType["TPMALG"]
  <2>1. /\ 2 \in 1..Len(Fields) /\ 3 \in 1..Len(Fields) /\ 4 \in 1..Len(Fields)
        /\ 5 \in 1..Len(Fields) /\ 6 \in 1..Len(Fields) /\ 8 \in 1..Len(Fields)
    BY <1>1
  <2> QED
    BY <1>1, <2>1, FieldAt DEF Fields
<1>3. /\ msg["tpm_key"] \in Names /\ msg["bind"] \in Names /\ msg["nonce"] \in Nat
      /\ msg["encrypted_salt"] \in Nat /\ msg["session_type"] \in Names
      /\ msg["auth_hash"] \in Names
  BY <1>2 DEF FieldType
<1>4. Clamp(msg.nonce, kData) \in Nat /\ Clamp(msg.encrypted_salt, kData) \in Nat
  BY <1>3, SizesAreNat, ClampIs
<1>5. PICK a, b, c, d, e, s, h :
        /\ a = FieldItems(2) /\ b = FieldItems(3) /\ c = FieldItems(4)
        /\ d = FieldItems(5) /\ e = FieldItems(6) /\ s = FieldItems(7)
        /\ h = FieldItems(8)
  OBVIOUS
<1>6. /\ a = <<Item(4, msg["tpm_key"])>> /\ b = <<Item(4, msg["bind"])>>
      /\ c = Tpm2b(msg["nonce"], kData) /\ d = Tpm2b(msg["encrypted_salt"], kData)
      /\ e = <<Item(1, msg["session_type"])>>
      /\ s = SymDefItems(msg["symmetric"]) /\ h = <<Item(2, msg["auth_hash"])>>
  BY <1>1, <1>5 DEF FieldItems, Items, Field, EnumWidth
<1>7. /\ Item(4, msg["tpm_key"]) \in ItemRecords /\ Item(4, msg["bind"]) \in ItemRecords
      /\ Item(1, msg["session_type"]) \in ItemRecords
      /\ Item(2, msg["auth_hash"]) \in ItemRecords
  BY <1>3, ItemTyped
<1>8. /\ Item(4, msg["tpm_key"]).width = 4 /\ Item(4, msg["bind"]).width = 4
      /\ Item(1, msg["session_type"]).width = 1 /\ Item(2, msg["auth_hash"]).width = 2
  BY ItemIs
<1>9. /\ a \in ItemLists /\ Len(a) = 1 /\ Before(a, 1) = 4 /\ a[1] = Item(4, msg.tpm_key)
      /\ b \in ItemLists /\ Len(b) = 1 /\ Before(b, 1) = 4 /\ b[1] = Item(4, msg.bind)
      /\ e \in ItemLists /\ Len(e) = 1 /\ Before(e, 1) = 1
      /\ e[1] = Item(1, msg.session_type)
      /\ h \in ItemLists /\ Len(h) = 1 /\ Before(h, 1) = 2
      /\ h[1] = Item(2, msg.auth_hash)
  BY <1>6, <1>7, <1>8, OneListed
<1>10. /\ c \in ItemLists /\ Len(c) = 2 /\ Before(c, 2) = NonceWidth
       /\ c[1] = Item(2, Clamp(msg.nonce, kData))
  <2>1. msg["nonce"] \in Nat /\ kData \in Nat
    BY <1>3, SizesAreNat
  <2> QED
    BY <1>6, <2>1, Tpm2bListed DEF NonceWidth
<1>11. /\ d \in ItemLists /\ Len(d) = 2 /\ Before(d, 2) = SaltWidth
       /\ d[1] = Item(2, Clamp(msg.encrypted_salt, kData))
  <2>1. msg["encrypted_salt"] \in Nat /\ kData \in Nat
    BY <1>3, SizesAreNat
  <2> QED
    BY <1>6, <2>1, Tpm2bListed DEF SaltWidth
<1>12. s \in ItemLists /\ Len(s) \in 1..2 /\ Before(s, Len(s)) = SymmetricWidth
  <2>1. "AES" \in Names /\ "NULL" \in Names
    BY DefaultsAreNames
  <2>2. /\ Item(2, "AES") \in ItemRecords /\ Item(2, "AES").width = 2
        /\ Item(2, "NULL") \in ItemRecords /\ Item(2, "NULL").width = 2
        /\ Item(4, "keyBits") \in ItemRecords /\ Item(4, "keyBits").width = 4
    BY <2>1, ItemTyped, ItemIs DEF Texts
  <2>3. CASE msg.symmetric.algorithm = "AES"
    <3>1. s = <<Item(2, "AES"), Item(4, "keyBits")>>
      BY <1>6, <2>3 DEF SymDefItems
    <3>2. s \in ItemLists /\ Len(s) = 2 /\ Before(s, 2) = 6
      BY <2>2, <3>1, TwoListed
    <3> QED
      BY <2>3, <3>2 DEF SymmetricWidth
  <2>4. CASE msg.symmetric.algorithm # "AES"
    <3>1. s = <<Item(2, "NULL")>>
      BY <1>6, <2>4 DEF SymDefItems
    <3>2. s \in ItemLists /\ Len(s) = 1 /\ Before(s, 1) = 2
      BY <2>2, <3>1, OneListed
    <3> QED
      BY <2>4, <3>2 DEF SymmetricWidth
  <2> QED
    BY <2>3, <2>4
<1>13. PICK n \in Nat, t \in Nat, m \in Nat :
         n = NonceWidth /\ t = SaltWidth /\ m = SymmetricWidth
  BY <1>4 DEF NonceWidth, SaltWidth, SymmetricWidth
<1>14. /\ StartBase(2) = 10 /\ StartBase(3) = 14 /\ StartBase(4) = 18
       /\ StartBase(5) = 18 + n /\ StartBase(6) = 18 + n + t
       /\ StartBase(7) = 18 + n + t + 1 /\ StartBase(8) = 18 + n + t + 1 + m
  BY <1>13 DEF StartBase
<1>15. ASSUME NEW i \in 2..8
       PROVE  /\ FieldItems(i) \in ItemLists
              /\ Len(FieldItems(i)) \in 1..2
              /\ StartBase(i) \in Nat /\ StartBase(i) >= 10
  <2>1. StartBase(i) \in Nat /\ StartBase(i) >= 10
    <3>1. i = 2 \/ i = 3 \/ i = 4 \/ i = 5 \/ i = 6 \/ i = 7 \/ i = 8
      OBVIOUS
    <3> QED
      BY <1>14, <3>1
  <2>2. FieldItems(i) \in {a, b, c, d, e, s, h}
    BY <1>5
  <2>3. \A x \in {a, b, c, d, e, s, h} : x \in ItemLists /\ Len(x) \in 1..2
    BY <1>9, <1>10, <1>11, <1>12
  <2> QED
    BY <2>1, <2>2, <2>3
<1>16. ASSUME NEW i \in 2..7
       PROVE  StartBase(i) + Before(FieldItems(i), Len(FieldItems(i))) = StartBase(i + 1)
  <2>0. i = 2 \/ i = 3 \/ i = 4 \/ i = 5 \/ i = 6 \/ i = 7
    OBVIOUS
  <2>1. CASE i = 2
    <3>1. /\ FieldItems(2) = a /\ Len(FieldItems(2)) = 1
          /\ Before(FieldItems(2), Len(FieldItems(2))) = 4
      BY <1>5, <1>9
    <3>2. StartBase(2) + 4 = StartBase(3)
      BY <1>13, <1>14
    <3>3. i + 1 = 3
      BY <2>1
    <3>4. StartBase(i + 1) = StartBase(3)
      BY <3>3, Zenon
    <3> QED
      BY <2>1, <3>1, <3>2, <3>4, Zenon
  <2>2. CASE i = 3
    <3>1. /\ FieldItems(3) = b /\ Len(FieldItems(3)) = 1
          /\ Before(FieldItems(3), Len(FieldItems(3))) = 4
      BY <1>5, <1>9
    <3>2. StartBase(3) + 4 = StartBase(4)
      BY <1>13, <1>14
    <3>3. i + 1 = 4
      BY <2>2
    <3>4. StartBase(i + 1) = StartBase(4)
      BY <3>3, Zenon
    <3> QED
      BY <2>2, <3>1, <3>2, <3>4, Zenon
  <2>3. CASE i = 4
    <3>1. /\ FieldItems(4) = c /\ Len(FieldItems(4)) = 2
          /\ Before(FieldItems(4), Len(FieldItems(4))) = n
      BY <1>5, <1>10, <1>13
    <3>2. StartBase(4) + n = StartBase(5)
      BY <1>13, <1>14
    <3>3. i + 1 = 5
      BY <2>3
    <3>4. StartBase(i + 1) = StartBase(5)
      BY <3>3, Zenon
    <3> QED
      BY <2>3, <3>1, <3>2, <3>4, Zenon
  <2>4. CASE i = 5
    <3>1. /\ FieldItems(5) = d /\ Len(FieldItems(5)) = 2
          /\ Before(FieldItems(5), Len(FieldItems(5))) = t
      BY <1>5, <1>11, <1>13
    <3>2. StartBase(5) + t = StartBase(6)
      BY <1>13, <1>14
    <3>3. i + 1 = 6
      BY <2>4
    <3>4. StartBase(i + 1) = StartBase(6)
      BY <3>3, Zenon
    <3> QED
      BY <2>4, <3>1, <3>2, <3>4, Zenon
  <2>5. CASE i = 6
    <3>1. /\ FieldItems(6) = e /\ Len(FieldItems(6)) = 1
          /\ Before(FieldItems(6), Len(FieldItems(6))) = 1
      BY <1>5, <1>9
    <3>2. StartBase(6) + 1 = StartBase(7)
      BY <1>13, <1>14
    <3>3. i + 1 = 7
      BY <2>5
    <3>4. StartBase(i + 1) = StartBase(7)
      BY <3>3, Zenon
    <3> QED
      BY <2>5, <3>1, <3>2, <3>4, Zenon
  <2>6. CASE i = 7
    <3>1. /\ FieldItems(7) = s /\ Len(FieldItems(7)) \in 1..2
          /\ Before(FieldItems(7), Len(FieldItems(7))) = m
      BY <1>5, <1>12, <1>13
    <3>2. StartBase(7) + m = StartBase(8)
      BY <1>13, <1>14
    <3>3. i + 1 = 8
      BY <2>6
    <3>4. StartBase(i + 1) = StartBase(8)
      BY <3>3, Zenon
    <3> QED
      BY <2>6, <3>1, <3>2, <3>4, Zenon
  <2> QED
    BY <2>0, <2>1, <2>2, <2>3, <2>4, <2>5, <2>6
<1>17. Before(FieldItems(8), Len(FieldItems(8))) = 2
  BY <1>5, <1>9
<1>18. /\ FieldItems(2)[1] = Item(4, msg.tpm_key)
       /\ FieldItems(3)[1] = Item(4, msg.bind)
       /\ FieldItems(4)[1] = Item(2, Clamp(msg.nonce, kData))
       /\ FieldItems(5)[1] = Item(2, Clamp(msg.encrypted_salt, kData))
       /\ FieldItems(6)[1] = Item(1, msg.session_type)
       /\ FieldItems(8)[1] = Item(2, msg.auth_hash)
  BY <1>5, <1>9, <1>10, <1>11
<1> QED
  BY <1>1, <1>4, <1>15, <1>16, <1>17, <1>18

-----------------------------------------------------------------------------
(* Each action keeps the invariant.                                        *)

\* What depends on the message only.
LEMMA SameMessage ==
  ASSUME msg' = msg
  PROVE  /\ Fields' = Fields
         /\ \A i : FieldItems(i)' = FieldItems(i)
         /\ \A k : EntryItems(k)' = EntryItems(k)
         /\ \A i : StartBase(i)' = StartBase(i)
  BY DEF Fields, FieldItems, EntryItems, StartBase, NonceWidth, SaltWidth, SymmetricWidth

\* Nothing is said of the buffer outside the marshaller.
LEMMA Outside ==
  ASSUME pc' \notin Marshalling
  PROVE  HeaderLayout' /\ SessionsAreAreas' /\ AreaLayout' /\ PolicyLayout' /\ StartLayout'
<1>1. pc' # "sessions"
  BY DEF Marshalling
<1> QED
  BY <1>1 DEF HeaderLayout, SessionsAreAreas, AreaLayout, PolicyLayout, StartLayout,
     Marshalling

\* The number of fields of a message.
LEMMA FieldsCounted ==
  ASSUME NEW m, IsMessage(m)
  PROVE  /\ m.command \in EmittedCommands
         /\ Len(Schema[m.command]) \in Nat /\ Len(Schema[m.command]) >= 2
<1>1. m.command \in EmittedCommands
  BY MessageFits
<1> QED
  BY <1>1, HeaderFirst

LEMMA InitInv == Init => IInv
<1> SUFFICES ASSUME Init PROVE IInv
  OBVIOUS
<1>1. /\ pc = "idle" /\ pending = {} /\ field = 1 /\ entry = 1 /\ todo = << >>
      /\ offset = 0 /\ wire = NoWire /\ auth_size_pos = 0 /\ starts = << >>
  BY DEF Init
<1>2. IsMessage(msg)
  BY MarshalAssumption DEF Init
<1>3. CountersOK
  <2>1. Len(Fields) \in Nat
    BY <1>2, FieldsCounted DEF Fields
  <2> QED
    BY <1>1, <2>1 DEF CountersOK, ItemLists
<1>4. BufferOK
  BY <1>1, MarshalAssumption DEF BufferOK, NoWire
<1>5. MessageOK
  BY <1>1, <1>2 DEF MessageOK
<1>6. pc \notin Marshalling /\ pc # "sessions"
  BY <1>1 DEF Marshalling
<1>7. SkippedForSizeOnly
  BY <1>1 DEF SkippedForSizeOnly
<1> QED
  BY <1>3, <1>4, <1>5, <1>6, <1>7
  DEF IInv, HeaderLayout, SessionsAreAreas, AreaLayout, PolicyLayout, StartLayout

\* The marshaller is given another message of the schema.
LEMMA NewMessageInv ==
  ASSUME IInv, pc = "idle", pc' = "mutated", IsMessage(msg'),
         pending' = PostProcessors(msg'.command),
         UNCHANGED <<field, entry, todo, offset, wire, auth_size_pos, starts>>
  PROVE  IInv'
<1>1. CountersOK'
  <2>1. Len(Fields') \in Nat
    BY FieldsCounted DEF Fields
  <2> QED
    BY <2>1 DEF CountersOK, IInv
<1>2. BufferOK'
  BY DEF BufferOK, IInv
<1>3. MessageOK'
  BY DEF MessageOK
<1>4. SkippedForSizeOnly'
  BY DEF SkippedForSizeOnly
<1>5. pc' \notin Marshalling
  BY DEF Marshalling
<1> QED
  BY <1>1, <1>2, <1>3, <1>4, <1>5, Outside DEF IInv

LEMMA MutateInv == IInv /\ Mutate => IInv'
<1> SUFFICES ASSUME IInv, Mutate PROVE IInv'
  OBVIOUS
<1>1. IsMessage(msg')
  BY MarshalAssumption DEF Mutate
<1> QED
  BY <1>1, NewMessageInv DEF Mutate

LEMMA RunPostProcessorInv == IInv /\ RunPostProcessor => IInv'
<1> SUFFICES ASSUME IInv, RunPostProcessor PROVE IInv'
  OBVIOUS
<1>1. /\ pc = "mutated" /\ pc' = "mutated"
      /\ UNCHANGED <<field, entry, todo, offset, wire, auth_size_pos, starts>>
  BY DEF RunPostProcessor
<1>2. PICK p \in pending : msg' = PostProcess(p, msg) /\ pending' = pending \ {p}
  BY DEF RunPostProcessor
<1>3. /\ IsMessage(msg) /\ pending \subseteq PostProcessors(msg.command)
      /\ \A x \in PostProcessors(msg.command) \ pending : Normal(x, msg)
  BY <1>1 DEF IInv, MessageOK
<1>4. /\ Normalizes(p, msg, msg')
      /\ \A x \in PostProcessors(msg.command) : Normal(x, msg) => Normal(x, msg')
  BY <1>2, <1>3, PostProcessed
<1>5. IsMessage(msg') /\ msg'.command = msg.command /\ Normal(p, msg')
  BY <1>4 DEF Normalizes, Alike
<1>6. CountersOK'
  <2>1. Fields' = Fields
    BY <1>5 DEF Fields
  <2> QED
    BY <1>1, <2>1 DEF CountersOK, IInv
<1>7. BufferOK'
  BY <1>1 DEF BufferOK, IInv
<1>8. MessageOK'
  <2>1. pending' \subseteq PostProcessors(msg'.command)
    BY <1>2, <1>3, <1>5
  <2>2. ASSUME NEW x \in PostProcessors(msg'.command) \ pending'
        PROVE  Normal(x, msg')
    <3>1. x \in PostProcessors(msg.command) /\ (x = p \/ x \notin pending)
      BY <1>2, <1>5, <2>2
    <3> QED
      BY <1>3, <1>4, <1>5, <3>1
  <2> QED
    BY <1>1, <1>5, <2>1, <2>2 DEF MessageOK
<1>9. SkippedForSizeOnly'
  BY <1>1 DEF SkippedForSizeOnly
<1>10. pc' \notin Marshalling
  BY <1>1 DEF Marshalling
<1> QED
  BY <1>6, <1>7, <1>8, <1>9, <1>10, Outside DEF IInv

LEMMA MarshalCommandInv == IInv /\ MarshalCommand => IInv'
<1> SUFFICES ASSUME IInv, MarshalCommand PROVE IInv'
  OBVIOUS
<1>1. /\ pc = "mutated" /\ pc' = "fields" /\ pending = {}
      /\ UNCHANGED <<msg, pending, field, entry, todo, offset, wire, auth_size_pos, starts>>
  BY DEF MarshalCommand
<1>2. field = 1 /\ todo = << >> /\ offset = 0
  BY <1>1 DEF IInv, CountersOK
<1>3. CountersOK'
  BY <1>1, SameMessage DEF CountersOK, IInv
<1>4. BufferOK'
  BY <1>1 DEF BufferOK, IInv
<1>5. MessageOK'
  BY <1>1 DEF MessageOK, IInv
<1>6. HeaderLayout' /\ SessionsAreAreas' /\ SkippedForSizeOnly'
  BY <1>1, <1>2 DEF HeaderLayout, SessionsAreAreas, SkippedForSizeOnly
<1>7. AreaLayout' /\ PolicyLayout' /\ StartLayout'
  BY <1>1, <1>2 DEF AreaLayout, PolicyLayout, StartLayout
<1> QED
  BY <1>3, <1>4, <1>5, <1>6, <1>7 DEF IInv

\* What a failure leaves.
LEMMA BufferFullInv == IInv /\ BufferFull => IInv'
<1> SUFFICES ASSUME IInv, BufferFull PROVE IInv'
  OBVIOUS
<1>1. /\ pc \in {"fields", "sessions"} /\ pc' = "failed" /\ todo # << >>
      /\ offset + Head(todo).width > kMaxBuffer
      /\ UNCHANGED <<msg, pending, field, entry, todo, offset, wire, auth_size_pos, starts>>
  BY DEF BufferFull
<1>2. CountersOK'
  BY <1>1, SameMessage DEF CountersOK, IInv
<1>3. BufferOK'
  BY <1>1 DEF BufferOK, IInv
<1>4. MessageOK'
  BY <1>1 DEF MessageOK, IInv
<1>5. SkippedForSizeOnly'
  BY <1>1 DEF SkippedForSizeOnly
<1>6. pc' \notin Marshalling
  BY <1>1 DEF Marshalling
<1> QED
  BY <1>2, <1>3, <1>4, <1>5, <1>6, Outside DEF IInv

LEMMA RejectFieldInv == IInv /\ RejectField => IInv'
<1> SUFFICES ASSUME IInv, RejectField PROVE IInv'
  OBVIOUS
<1>1. /\ pc = "fields" /\ pc' = "failed" /\ field <= Len(Fields)
      /\ Here.type # "TPMSession" /\ ~ Marshals(Here.type, msg[Here.name])
      /\ UNCHANGED <<msg, pending, field, entry, todo, offset, wire, auth_size_pos, starts>>
  BY DEF RejectField
<1>2. CountersOK'
  BY <1>1, SameMessage DEF CountersOK, IInv
<1>3. BufferOK'
  BY <1>1 DEF BufferOK, IInv
<1>4. MessageOK'
  BY <1>1 DEF MessageOK, IInv
<1>5. SkippedForSizeOnly'
  <2>1. IsMessage(msg) /\ field \in 1..Len(Fields) + 1
    BY DEF IInv, MessageOK, CountersOK
  <2>2. field \in 1..Len(Fields) /\ msg.command \in EmittedCommands
    BY <1>1, <2>1, FieldsCounted DEF Fields
  <2>3. Fits(Here)
    BY <2>2, SchemaFits DEF Fields, Here
  <2>4. Here.type \in DispatchedTypes \cup ScalarTypes
    BY <1>1, <2>3 DEF Fits, FieldType, DispatchedTypes, ScalarTypes
  <2>5. Oversized(Here.type, msg[Here.name])
    BY <1>1, <2>4 DEF Marshals
  <2>6. Here' = Here
    BY <1>1 DEF Here, Fields
  <2> QED
    BY <1>1, <2>5, <2>6 DEF SkippedForSizeOnly
<1>6. pc' \notin Marshalling
  BY <1>1 DEF Marshalling
<1> QED
  BY <1>2, <1>3, <1>4, <1>5, <1>6, Outside DEF IInv

LEMMA ReturnInv == IInv /\ Return => IInv'
<1> SUFFICES ASSUME IInv, Return PROVE IInv'
  OBVIOUS
<1>1. /\ pc' = "idle" /\ field' = 1 /\ entry' = 1 /\ todo' = << >> /\ offset' = 0
      /\ wire' = NoWire /\ auth_size_pos' = 0 /\ starts' = << >>
      /\ UNCHANGED <<msg, pending>>
  BY DEF Return
<1>2. IsMessage(msg) /\ pending \subseteq PostProcessors(msg.command)
  BY DEF IInv, MessageOK
<1>3. CountersOK'
  <2>1. Len(Fields') \in Nat
    BY <1>1, <1>2, FieldsCounted DEF Fields
  <2> QED
    BY <1>1, <2>1 DEF CountersOK, ItemLists
<1>4. BufferOK'
  BY <1>1, MarshalAssumption DEF BufferOK, NoWire
<1>5. MessageOK'
  BY <1>1, <1>2 DEF MessageOK
<1>6. SkippedForSizeOnly'
  BY <1>1 DEF SkippedForSizeOnly
<1>7. pc' \notin Marshalling
  BY <1>1 DEF Marshalling
<1> QED
  BY <1>3, <1>4, <1>5, <1>6, <1>7, Outside DEF IInv

-----------------------------------------------------------------------------
(* A new field.                                                            *)

\* The header that was written is held.
LEMMA HeaderHeld ==
  ASSUME IsMessage(msg), Progress(HeaderItems(msg.header), 0), todo = << >>
  PROVE  /\ offset = 10
         /\ Holds(wire, 0, Item(2, msg.header.tag))
         /\ Holds(wire, 6, Item(4, msg.header.command_code))
<1>1. PICK l : l = HeaderItems(msg.header)
  OBVIOUS
<1>2. msg.header \in Headers
  BY HeaderIs
<1>3. /\ l \in ItemLists /\ Len(l) = 3
      /\ l[1] = Item(2, msg.header.tag) /\ l[3] = Item(4, msg.header.command_code)
      /\ Before(l, 0) = 0 /\ Before(l, 2) = 6 /\ Before(l, 3) = 10
  BY <1>1, <1>2, HeaderListed
<1>4. ProgressIn(<< >>, offset, wire, l, 0)
  BY <1>1 DEF Progress
<1>5. WrittenIn(wire, l, 3, 0) /\ offset = 0 + Before(l, 3)
  <2>1. 0 \in Nat
    OBVIOUS
  <2> QED
    BY <1>3, <1>4, <2>1, ProgressEnds
<1>6. l[1].width > 0 /\ l[3].width > 0
  BY <1>3, ItemIs
<1>7. /\ 1 \in 1..3 /\ 3 \in 1..3
      /\ 0 + Before(l, 1 - 1) = 0 /\ 0 + Before(l, 3 - 1) = 6
  BY <1>3
<1>8. Holds(wire, 0, l[1])
  BY <1>5, <1>6, <1>7 DEF WrittenIn
<1>9. Holds(wire, 6, l[3])
  BY <1>5, <1>6, <1>7 DEF WrittenIn
<1> QED
  BY <1>3, <1>5, <1>8, <1>9

\* Behind the header, the marshaller is at the third field or later.
LEMMA FieldInv ==
  ASSUME IInv, MarshalCommandField
  PROVE  /\ CountersOK' /\ BufferOK' /\ MessageOK' /\ SkippedForSizeOnly'
         /\ HeaderLayout' /\ SessionsAreAreas'
<1>1. /\ pc = "fields" /\ pc' = "fields" /\ todo = << >> /\ field <= Len(Fields)
      /\ Here.type # "TPMSession" /\ todo' = FieldItems(field) /\ field' = field + 1
      /\ UNCHANGED <<msg, pending, entry, offset, wire, auth_size_pos, starts>>
  BY DEF MarshalCommandField, Here, FieldItems
<1>2. IsMessage(msg) /\ field \in 1..Len(Fields) + 1
  BY DEF IInv, MessageOK, CountersOK
<1>3. Len(Fields) \in Nat /\ field \in 1..Len(Fields)
  BY <1>1, <1>2, FieldsCounted DEF Fields
<1>4. FieldItems(field) \in ItemLists
  BY <1>1, <1>2, <1>3, FieldListed DEF Here
<1>5. CountersOK'
  BY <1>1, <1>3, <1>4, SameMessage DEF IInv, CountersOK
<1>6. BufferOK' /\ MessageOK'
  BY <1>1 DEF IInv, BufferOK, MessageOK
<1>7. SkippedForSizeOnly' /\ SessionsAreAreas'
  BY <1>1 DEF SkippedForSizeOnly, SessionsAreAreas
<1>8. HeaderLayout'
  <2>1. pc \in Marshalling
    BY <1>1 DEF Marshalling
  <2>2. CASE field = 1
    <3>1. offset = 0 /\ FieldItems(1) = HeaderItems(msg.header)
      BY <1>2, <2>1, <2>2, HeaderIs DEF IInv, HeaderLayout
    <3>2. FieldItems(1) \in ItemLists
      BY <1>4, <2>2
    <3>3. ProgressIn(FieldItems(1), 0, wire, FieldItems(1), 0)
      BY <3>2, ProgressStarts
    <3>4. Progress(HeaderItems(msg.header), 0)'
      BY <1>1, <2>2, <3>1, <3>3 DEF Progress
    <3> QED
      BY <1>1, <2>2, <3>4 DEF HeaderLayout
  <2>3. CASE field = 2
    <3>1. Progress(HeaderItems(msg.header), 0)
      BY <2>1, <2>3 DEF IInv, HeaderLayout
    <3>2. /\ offset = 10
          /\ Holds(wire, 0, Item(2, msg.header.tag))
          /\ Holds(wire, 6, Item(4, msg.header.command_code))
      BY <1>1, <1>2, <3>1, HeaderHeld
    <3>3. field' = 3
      BY <1>1, <2>3
    <3> QED
      BY <1>1, <3>2, <3>3 DEF HeaderLayout
  <2>4. CASE field > 2
    BY <1>1, <1>3, <2>1, <2>4 DEF IInv, HeaderLayout
  <2> QED
    BY <1>3, <2>2, <2>3, <2>4
<1> QED
  BY <1>5, <1>6, <1>7, <1>8

\* The header is written when the second field begins.
LEMMA SecondField ==
  ASSUME IInv, pc = "fields", todo = << >>, field = 2
  PROVE  offset = 10
<1>1. Progress(HeaderItems(msg.header), 0) /\ IsMessage(msg)
  BY DEF IInv, HeaderLayout, Marshalling, MessageOK
<1> QED
  BY <1>1, HeaderHeld

LEMMA FieldAreaInv ==
  ASSUME IInv, MarshalCommandField
  PROVE  AreaLayout'
<1>1. /\ pc = "fields" /\ pc' = "fields" /\ todo = << >> /\ field <= Len(Fields)
      /\ Here.type # "TPMSession" /\ todo' = FieldItems(field) /\ field' = field + 1
      /\ UNCHANGED <<msg, pending, entry, offset, wire, auth_size_pos, starts>>
  BY DEF MarshalCommandField, Here, FieldItems
<1>2. IsMessage(msg) /\ field \in 1..Len(Fields) + 1
  BY DEF IInv, MessageOK, CountersOK
<1>3. Len(Fields) \in Nat /\ field \in 1..Len(Fields)
  BY <1>1, <1>2, FieldsCounted DEF Fields
<1>4. SUFFICES ASSUME msg.command \in SessionCommands, field >= 2
               PROVE  AreaLayout'
  BY <1>1, <1>3 DEF AreaLayout
<1>5. CASE field = 2
  <2>1. offset = 10 /\ starts = << >>
    BY <1>1, <1>5, SecondField DEF IInv, CountersOK
  <2>2. FieldItems(2) \in ItemLists
    BY <1>2, <1>4, AreaIs
  <2>3. ProgressIn(FieldItems(2), 10, wire, FieldItems(2), 10)
    BY <2>2, ProgressStarts
  <2>4. FieldItems(2)' = FieldItems(2)
    BY <1>1, SameMessage
  <2>5. Progress(FieldItems(2), 10)'
    BY <1>1, <1>5, <2>1, <2>3, <2>4 DEF Progress
  <2>6. field' = 3
    BY <1>1, <1>5
  <2> QED
    BY <1>1, <2>1, <2>5, <2>6 DEF AreaLayout
<1>6. CASE field > 2
  <2>1. field # 3
    BY <1>1, <1>2, <1>4, AreaIs DEF Here
  <2>2. field > 3 /\ field' > 3
    BY <1>1, <1>3, <1>6, <2>1
  <2>3. /\ auth_size_pos = 14
        /\ Len(starts) = Len(msg.sessions)
        /\ Chained(Len(starts))
        /\ \A k \in 1..Len(starts) : Written(EntryItems(k), 6, starts[k])
        /\ Holds(wire, 14, Item(4, EntriesEnd - 18))
        /\ EntriesEnd <= offset
    <3>1. pc \in Marshalling /\ field > 2
      BY <1>1, <1>6 DEF Marshalling
    <3>2. AreaLayout
      BY DEF IInv
    <3> QED
      BY <1>4, <2>2, <3>1, <3>2 DEF AreaLayout
  <2>4. /\ Chained(Len(starts))' /\ EntriesEnd' = EntriesEnd
    BY <1>1, <2>3 DEF Chained, EntriesEnd, EndOf, EntryItems
  <2>5. \A k \in 1..Len(starts) : Written(EntryItems(k), 6, starts[k])'
    BY <1>1, <2>3 DEF Written, EntryItems
  <2> QED
    BY <1>1, <2>2, <2>3, <2>4, <2>5 DEF AreaLayout
<1> QED
  BY <1>3, <1>4, <1>5, <1>6

LEMMA FieldPolicyInv ==
  ASSUME IInv, MarshalCommandField
  PROVE  PolicyLayout'
<1>1. /\ pc = "fields" /\ pc' = "fields" /\ todo = << >> /\ field <= Len(Fields)
      /\ Here.type # "TPMSession" /\ todo' = FieldItems(field) /\ field' = field + 1
      /\ UNCHANGED <<msg, pending, entry, offset, wire, auth_size_pos, starts>>
  BY DEF MarshalCommandField, Here, FieldItems
<1>2. IsMessage(msg) /\ field \in 1..Len(Fields) + 1 /\ pending = {}
  BY <1>1 DEF IInv, MessageOK, CountersOK
<1>3. Len(Fields) \in Nat /\ field \in 1..Len(Fields)
  BY <1>1, <1>2, FieldsCounted DEF Fields
<1>4. SUFFICES ASSUME msg.command = "SetPrimaryPolicy"
               PROVE  PolicyLayout'
  BY <1>1 DEF PolicyLayout
<1>5. msg.command \in SessionCommands /\ Normal("SetPrimaryPolicy", msg)
  <2>1. PostProcessors(msg.command) = {"SetPrimaryPolicy"}
    BY <1>4 DEF PostProcessors
  <2> QED
    BY <1>1, <1>2, <1>4, <2>1 DEF IInv, MessageOK, SessionCommands
<1>6. /\ FieldItems(4) \in ItemLists /\ Len(FieldItems(4)) = 2
      /\ Before(FieldItems(4), 2) = 2 + msg.auth_policy
      /\ FieldItems(5) \in ItemLists /\ msg.auth_policy \in Nat
  BY <1>2, <1>4, <1>5, PolicyIs
<1>7. field # 3
  BY <1>1, <1>2, <1>5, AreaIs DEF Here
<1>8. EntriesEnd' = EntriesEnd /\ FieldItems(4)' = FieldItems(4) /\ FieldItems(5)' = FieldItems(5)
  BY <1>1, SameMessage DEF EntriesEnd, EndOf, EntryItems
<1>9. ASSUME field > 3 PROVE EntriesEnd \in Nat
  <2>1. Len(starts) = Len(msg.sessions) /\ Chained(Len(starts)) /\ starts \in Seq(Nat)
    BY <1>1, <1>3, <1>5, <1>9 DEF IInv, AreaLayout, Marshalling, CountersOK
  <2>2. Len(starts) <= Len(msg.sessions)
    BY <1>2, <1>5, <2>1, AreaIs
  <2> QED
    BY <1>2, <1>5, <2>1, <2>2, AreaEndIs
<1>10. CASE field = 4
  <2>1. offset = EntriesEnd
    BY <1>1, <1>4, <1>10 DEF IInv, PolicyLayout, Marshalling
  <2>2. EntriesEnd \in Nat
    BY <1>9, <1>10
  <2>3. ProgressIn(FieldItems(4), EntriesEnd, wire, FieldItems(4), EntriesEnd)
    BY <1>6, <2>2, ProgressStarts
  <2>4. Progress(FieldItems(4), EntriesEnd)'
    BY <1>1, <1>8, <1>10, <2>1, <2>3 DEF Progress
  <2>5. field' = 5
    BY <1>1, <1>10
  <2> QED
    BY <2>4, <2>5 DEF PolicyLayout
<1>11. CASE field = 5
  <2>1. ProgressIn(<< >>, offset, wire, FieldItems(4), EntriesEnd)
    BY <1>1, <1>4, <1>11 DEF IInv, PolicyLayout, Marshalling, Progress
  <2>2. /\ WrittenIn(wire, FieldItems(4), 2, EntriesEnd)
        /\ offset = EntriesEnd + (2 + msg.auth_policy)
    BY <1>6, <2>1, ProgressEnds
  <2>3. EntriesEnd \in Nat
    BY <1>9, <1>11
  <2>4. PICK base \in Nat : base = EntriesEnd + 2 + msg.auth_policy
    BY <1>6, <2>3
  <2>5. offset = base
    BY <1>6, <2>2, <2>3, <2>4
  <2>6. ProgressIn(FieldItems(5), base, wire, FieldItems(5), base)
    BY <1>6, ProgressStarts
  <2>7. ProgressIn(todo', offset', wire', FieldItems(5), EntriesEnd + 2 + msg.auth_policy)
    BY <1>1, <1>11, <2>4, <2>5, <2>6, Zenon
  <2>8. Progress(FieldItems(5), EntriesEnd + 2 + msg.auth_policy)'
    BY <1>1, <1>8, <2>7 DEF Progress
  <2>9. Written(FieldItems(4), 2, EntriesEnd)'
    BY <1>1, <1>8, <2>2 DEF Written
  <2>10. field' = 6
    BY <1>1, <1>11
  <2> QED
    BY <2>8, <2>9, <2>10 DEF PolicyLayout
<1>12. CASE field \notin {3, 4, 5}
  <2>1. field' \notin {4, 5, 6}
    BY <1>1, <1>3, <1>12
  <2> QED
    BY <2>1 DEF PolicyLayout
<1> QED
  BY <1>7, <1>10, <1>11, <1>12

LEMMA FieldStartInv ==
  ASSUME IInv, MarshalCommandField
  PROVE  StartLayout'
<1>1. /\ pc = "fields" /\ pc' = "fields" /\ todo = << >> /\ field <= Len(Fields)
      /\ todo' = FieldItems(field) /\ field' = field + 1
      /\ UNCHANGED <<msg, pending, entry, offset, wire, auth_size_pos, starts>>
  BY DEF MarshalCommandField, Here, FieldItems
<1>2. IsMessage(msg) /\ field \in 1..Len(Fields) + 1
  BY <1>1 DEF IInv, MessageOK, CountersOK
<1>3. SUFFICES ASSUME msg.command = "StartAuthSession", field' > 2
               PROVE  StartLayout'
  BY <1>1 DEF StartLayout
<1>4. Len(Fields) = 8
  BY <1>2, <1>3, StartIs
<1>5. field \in 2..8
  BY <1>1, <1>2, <1>3, <1>4
<1>6. FieldItems(field) \in ItemLists /\ StartBase(field) \in Nat
  BY <1>2, <1>3, <1>5, StartIs
<1>7. offset = StartBase(field)
      /\ \A i \in 2..field - 1 :
           WrittenIn(wire, FieldItems(i), Len(FieldItems(i)), StartBase(i))
  <2>1. CASE field = 2
    <3>1. offset = 10
      BY <1>1, <2>1, SecondField
    <3>2. StartBase(2) = 10
      BY DEF StartBase
    <3>3. 2..field - 1 = {}
      BY <2>1
    <3> QED
      BY <2>1, <3>1, <3>2, <3>3
  <2>2. CASE field > 2
    <3>1. PICK j \in 2..7 : j = field - 1 /\ field = j + 1
      BY <1>5, <2>2
    <3>2. FieldItems(j) \in ItemLists
      <4>1. j \in 2..8
        OBVIOUS
      <4> QED
        BY <1>2, <1>3, <4>1, StartIs
    <3>3. /\ ProgressIn(<< >>, offset, wire, FieldItems(j), StartBase(j))
          /\ \A i \in 2..field - 2 :
               WrittenIn(wire, FieldItems(i), Len(FieldItems(i)), StartBase(i))
      BY <1>1, <1>3, <2>2, <3>1 DEF IInv, StartLayout, Marshalling, Progress, Written
    <3>4. /\ WrittenIn(wire, FieldItems(j), Len(FieldItems(j)), StartBase(j))
          /\ offset = StartBase(j) + Before(FieldItems(j), Len(FieldItems(j)))
      BY <3>2, <3>3, ProgressEnds
    <3>5. StartBase(j) + Before(FieldItems(j), Len(FieldItems(j))) = StartBase(j + 1)
      BY <1>2, <1>3, StartIs
    <3>6. offset = StartBase(field)
      BY <3>1, <3>4, <3>5, Zenon
    <3>7. ASSUME NEW i \in 2..field - 1
          PROVE  WrittenIn(wire, FieldItems(i), Len(FieldItems(i)), StartBase(i))
      <4>1. i = j \/ i \in 2..field - 2
        BY <1>5, <3>1
      <4> QED
        BY <3>3, <3>4, <4>1
    <3> QED
      BY <3>6, <3>7
  <2> QED
    BY <1>5, <2>1, <2>2
<1>8. ProgressIn(todo', offset', wire', FieldItems(field), StartBase(field))
  BY <1>1, <1>6, <1>7, ProgressStarts
<1>9. /\ \A i : FieldItems(i)' = FieldItems(i)
      /\ \A i : StartBase(i)' = StartBase(i)
  BY <1>1, SameMessage
<1>10. field' - 1 = field /\ field' - 2 = field - 1
  BY <1>1, <1>5
<1>11. Progress(FieldItems(field - 1), StartBase(field - 1))'
  BY <1>8, <1>9, <1>10 DEF Progress
<1>12. \A i \in 2..field' - 2 :
         WrittenIn(wire', FieldItems(i), Len(FieldItems(i)), StartBase(i))
  BY <1>1, <1>7, <1>10
<1>13. \A i \in 2..field' - 2 : Written(FieldItems(i), Len(FieldItems(i)), StartBase(i))'
  BY <1>9, <1>12 DEF Written
<1> QED
  BY <1>11, <1>13 DEF StartLayout

LEMMA MarshalCommandFieldInv == IInv /\ MarshalCommandField => IInv'
  BY FieldInv, FieldAreaInv, FieldPolicyInv, FieldStartInv DEF IInv

-----------------------------------------------------------------------------
(* A value is written.                                                     *)

\* Nothing was written at the offset.
LEMMA OffsetFree == ASSUME BufferOK PROVE offset \notin DOMAIN wire
<1>1. SUFFICES ASSUME offset \in DOMAIN wire PROVE FALSE
  OBVIOUS
<1>2. /\ wire[offset] \in ItemRecords /\ wire[offset].width > 0
      /\ offset + wire[offset].width <= offset
  BY <1>1 DEF BufferOK
<1>3. wire[offset].width \in Nat /\ offset \in Nat
  BY <1>2 DEF BufferOK, ItemRecords
<1> QED
  BY <1>2, <1>3

\* What WriteItem does to the buffer, at a place where nothing was written.
Writes ==
  /\ pc \in Marshalling
  /\ UNCHANGED <<pc, msg, pending, field, entry, auth_size_pos, starts>>
  /\ todo \in ItemLists
  /\ todo # << >>
  /\ offset \notin DOMAIN wire
  /\ wire' = Put(wire, offset, Head(todo))
  /\ offset' = offset + Head(todo).width
  /\ todo' = Tail(todo)
  /\ Head(todo).width \in Nat
  /\ offset \in Nat

\* The lists are short enough for Before.
LEMMA Short ==
  ASSUME NEW l, Len(l) = 1 \/ Len(l) = 2 \/ Len(l) = 6 \/ Len(l) \in 1..2
  PROVE  Len(l) <= 6
<1>1. PICK n : n = Len(l)
  OBVIOUS
<1>2. n = 1 \/ n = 2 \/ n = 6 \/ n \in 1..2
  BY <1>1
<1>3. n <= 6
  BY <1>2
<1> QED
  BY <1>1, <1>3, Zenon

\* A step along a list of values, whatever is behind it is kept.
LEMMA WritesStep ==
  ASSUME Writes, NEW list \in ItemLists, Len(list) <= 6, NEW base \in Nat,
         ProgressIn(todo, offset, wire, list, base)
  PROVE  ProgressIn(todo', offset', wire', list, base)
  BY ProgressStep DEF Writes

LEMMA WritesKept ==
  ASSUME Writes, NEW list, NEW n, NEW base, WrittenIn(wire, list, n, base)
  PROVE  WrittenIn(wire', list, n, base)
  BY WrittenKept DEF Writes

LEMMA WritesHeld ==
  ASSUME Writes, NEW at, NEW item, Holds(wire, at, item)
  PROVE  Holds(wire', at, item)
  BY PutKeepsAll DEF Writes

LEMMA WriteInv ==
  ASSUME IInv, WriteItem
  PROVE  /\ Writes
         /\ CountersOK' /\ BufferOK' /\ MessageOK' /\ SkippedForSizeOnly'
         /\ SessionsAreAreas'
<1>1. /\ pc \in {"fields", "sessions"} /\ todo # << >>
      /\ offset + Head(todo).width <= kMaxBuffer
      /\ wire' = Put(wire, offset, Head(todo))
      /\ offset' = offset + Head(todo).width
      /\ todo' = Tail(todo)
      /\ UNCHANGED <<pc, msg, pending, field, entry, auth_size_pos, starts>>
  BY DEF WriteItem
<1>2. /\ todo \in ItemLists /\ Head(todo) \in ItemRecords /\ Tail(todo) \in ItemLists
  BY <1>1 DEF IInv, CountersOK, ItemLists
<1>3. PICK item \in ItemRecords : item = Head(todo)
  BY <1>2
<1>4. item.width \in Nat /\ offset \in Nat /\ kMaxBuffer \in Nat
  BY <1>3, MarshalAssumption DEF ItemRecords, IInv, BufferOK
<1>5. Writes
  <2>1. offset \notin DOMAIN wire
    BY OffsetFree DEF IInv
  <2> QED
    BY <1>1, <1>2, <1>3, <1>4, <2>1 DEF Writes, Marshalling
<1>6. CountersOK'
  BY <1>1, <1>2, SameMessage DEF IInv, CountersOK
<1>7. BufferOK'
  <2>1. offset' \in 0..kMaxBuffer
    BY <1>1, <1>3, <1>4
  <2>2. ASSUME NEW at \in DOMAIN wire'
        PROVE  /\ at \in Nat /\ wire'[at] \in ItemRecords /\ wire'[at].width > 0
               /\ at + wire'[at].width <= offset'
    <3>1. CASE item.width = 0
      <4>1. wire' = wire /\ offset' = offset
        BY <1>1, <1>3, <1>4, <3>1 DEF Put
      <4> QED
        BY <4>1 DEF IInv, BufferOK
    <3>2. CASE item.width # 0
      <4>1. wire' = [o \in DOMAIN wire \cup {offset} |->
                       IF o = offset THEN item ELSE wire[o]]
        BY <1>1, <1>3, <3>2 DEF Put
      <4>2. CASE at = offset
        <5>1. wire'[at] = item
          BY <4>1, <4>2
        <5> QED
          BY <1>1, <1>3, <1>4, <3>2, <4>2, <5>1
      <4>3. CASE at # offset
        <5>1. at \in DOMAIN wire /\ wire'[at] = wire[at]
          BY <4>1, <4>3
        <5>2. /\ at \in Nat /\ wire[at] \in ItemRecords /\ wire[at].width > 0
              /\ at + wire[at].width <= offset
          BY <5>1 DEF IInv, BufferOK
        <5>3. wire[at].width \in Nat
          BY <5>2 DEF ItemRecords
        <5> QED
          BY <1>1, <1>3, <1>4, <5>1, <5>2, <5>3
      <4> QED
        BY <4>2, <4>3
    <3> QED
      BY <3>1, <3>2
  <2> QED
    BY <2>1, <2>2 DEF BufferOK
<1>8. MessageOK' /\ SkippedForSizeOnly' /\ SessionsAreAreas'
  BY <1>1 DEF IInv, MessageOK, SkippedForSizeOnly, SessionsAreAreas
<1> QED
  BY <1>5, <1>6, <1>7, <1>8

LEMMA WriteHeaderInv ==
  ASSUME IInv, Writes
  PROVE  HeaderLayout'
<1>1. pc \in Marshalling /\ pc' = pc /\ msg' = msg /\ field' = field /\ todo # << >>
  BY DEF Writes
<1>2. field \in Nat /\ field > 1 /\ IsMessage(msg) /\ pc # "done"
  BY <1>1, FieldsCounted DEF IInv, CountersOK, HeaderLayout, MessageOK, Fields
<1>3. CASE field = 2
  <2>1. ProgressIn(todo, offset, wire, HeaderItems(msg.header), 0) /\ pc = "fields"
    BY <1>1, <1>3 DEF IInv, HeaderLayout, Progress
  <2>2. PICK l : l = HeaderItems(msg.header)
    OBVIOUS
  <2>3. l \in ItemLists /\ Len(l) = 3
    BY <1>2, <2>2, HeaderIs, HeaderListed
  <2>4. ProgressIn(todo', offset', wire', l, 0)
    <3>1. Len(l) <= 6 /\ 0 \in Nat
      BY <2>3
    <3> QED
      BY <2>1, <2>2, <2>3, <3>1, WritesStep
  <2> QED
    BY <1>1, <1>3, <2>1, <2>2, <2>4 DEF HeaderLayout, Progress
<1>4. CASE field > 2
  <2>1. /\ offset >= 10
        /\ Holds(wire, 0, Item(2, msg.header.tag))
        /\ Holds(wire, 6, Item(4, msg.header.command_code))
    BY <1>1, <1>4 DEF IInv, HeaderLayout
  <2>2. offset' >= 10
    BY <2>1 DEF Writes
  <2>3. /\ Holds(wire', 0, Item(2, msg.header.tag))
        /\ Holds(wire', 6, Item(4, msg.header.command_code))
    BY <2>1, WritesHeld
  <2> QED
    BY <1>1, <1>2, <1>4, <2>2, <2>3 DEF HeaderLayout
<1> QED
  BY <1>2, <1>3, <1>4

LEMMA WriteAreaInv ==
  ASSUME IInv, Writes
  PROVE  AreaLayout'
<1>1. /\ pc \in Marshalling /\ todo # << >> /\ offset \in Nat /\ offset' \in Nat
      /\ offset' >= offset
      /\ UNCHANGED <<pc, msg, field, entry, auth_size_pos, starts>>
  BY DEF Writes
<1>2. IsMessage(msg)
  BY DEF IInv, MessageOK
<1>3. SUFFICES ASSUME msg.command \in SessionCommands, field > 2
               PROVE  AreaLayout'
  BY <1>1 DEF AreaLayout
<1>4. AreaLayout
  BY DEF IInv
<1>5. /\ EntriesEnd' = EntriesEnd
      /\ \A n : Chained(n)' <=> Chained(n)
      /\ \A k : EntryItems(k)' = EntryItems(k)
  BY <1>1 DEF EntriesEnd, EndOf, EntryItems, Chained
<1>6. ASSUME field = 3, pc = "fields"
      PROVE  Progress(FieldItems(2), 10)' /\ starts = << >>
  <2>1. ProgressIn(todo, offset, wire, FieldItems(2), 10) /\ starts = << >>
    BY <1>1, <1>3, <1>4, <1>6 DEF AreaLayout, Progress
  <2>2. FieldItems(2) \in ItemLists /\ Len(FieldItems(2)) <= 6
    BY <1>2, <1>3, AreaIs, Short
  <2>3. ProgressIn(todo', offset', wire', FieldItems(2), 10)
    BY <2>1, <2>2, WritesStep
  <2> QED
    BY <1>1, <2>1, <2>3, SameMessage DEF Progress
<1>7. ASSUME pc = "sessions"
      PROVE  /\ auth_size_pos = 14
             /\ Len(starts) = entry - 1
             /\ Len(starts) <= Len(msg.sessions)
             /\ Chained(Len(starts))'
             /\ \A k \in 1..Len(starts) - 1 : Written(EntryItems(k), 6, starts[k])'
             /\ entry = 1 => Progress(<<Item(4, 0)>>, 14)'
             /\ entry > 1 => Progress(EntryItems(entry - 1), starts[entry - 1])'
  <2>1. /\ auth_size_pos = 14
        /\ Len(starts) = entry - 1
        /\ Len(starts) <= Len(msg.sessions)
        /\ Chained(Len(starts))
        /\ \A k \in 1..Len(starts) - 1 : Written(EntryItems(k), 6, starts[k])
        /\ entry = 1 => Progress(<<Item(4, 0)>>, 14)
        /\ entry > 1 => Progress(EntryItems(entry - 1), starts[entry - 1])
    BY <1>1, <1>3, <1>4, <1>7 DEF AreaLayout
  <2>2. entry \in Nat \ {0} /\ starts \in Seq(Nat)
    BY DEF IInv, CountersOK
  <2>3. ASSUME NEW k \in 1..Len(starts) - 1
        PROVE  Written(EntryItems(k), 6, starts[k])'
    <3>1. WrittenIn(wire, EntryItems(k), 6, starts[k])
      BY <2>1, <2>3 DEF Written
    <3>2. WrittenIn(wire', EntryItems(k), 6, starts[k])
      BY <3>1, WritesKept
    <3> QED
      BY <1>1, <1>5, <3>2 DEF Written
  <2>4. ASSUME entry = 1
        PROVE  Progress(<<Item(4, 0)>>, 14)'
    <3>1. PICK l : l = <<Item(4, 0)>>
      OBVIOUS
    <3>2. Item(4, 0) \in ItemRecords
      BY ItemTyped
    <3>3. l \in ItemLists /\ Len(l) <= 6
      BY <3>1, <3>2, OneListed
    <3>4. ProgressIn(todo, offset, wire, l, 14)
      BY <2>1, <2>4, <3>1 DEF Progress
    <3>5. ProgressIn(todo', offset', wire', l, 14)
      BY <3>3, <3>4, WritesStep
    <3> QED
      BY <3>1, <3>5 DEF Progress
  <2>5. ASSUME entry > 1
        PROVE  Progress(EntryItems(entry - 1), starts[entry - 1])'
    <3>1. PICK k \in 1..Len(starts) : k = entry - 1
      BY <2>1, <2>2, <2>5
    <3>2. starts[k] \in Nat /\ k \in 1..Len(msg.sessions)
      <4>1. starts[k] \in Nat
        BY <2>2
      <4>2. Len(msg.sessions) \in Nat
        BY <1>2, <1>3, AreaIs
      <4> QED
        BY <2>1, <2>2, <4>1, <4>2
    <3>3. EntryItems(k) \in ItemLists /\ Len(EntryItems(k)) <= 6
      BY <1>2, <1>3, <3>2, AreaIs, Short
    <3>4. ProgressIn(todo, offset, wire, EntryItems(k), starts[k])
      BY <2>1, <2>5, <3>1 DEF Progress
    <3>5. ProgressIn(todo', offset', wire', EntryItems(k), starts[k])
      BY <3>2, <3>3, <3>4, WritesStep
    <3>6. entry' - 1 = k
      BY <1>1, <3>1
    <3> QED
      BY <1>1, <1>5, <3>5, <3>6 DEF Progress
  <2> QED
    BY <1>5, <2>1, <2>3, <2>4, <2>5, <1>1
<1>8. ASSUME field > 3
      PROVE  /\ auth_size_pos = 14
             /\ Len(starts) = Len(msg.sessions)
             /\ Chained(Len(starts))'
             /\ \A k \in 1..Len(starts) : Written(EntryItems(k), 6, starts[k])'
             /\ Holds(wire', 14, Item(4, EntriesEnd - 18))
             /\ EntriesEnd <= offset'
  <2>1. /\ auth_size_pos = 14
        /\ Len(starts) = Len(msg.sessions)
        /\ Chained(Len(starts))
        /\ \A k \in 1..Len(starts) : Written(EntryItems(k), 6, starts[k])
        /\ Holds(wire, 14, Item(4, EntriesEnd - 18))
        /\ EntriesEnd <= offset
    BY <1>1, <1>3, <1>4, <1>8 DEF AreaLayout
  <2>2. ASSUME NEW k \in 1..Len(starts)
        PROVE  Written(EntryItems(k), 6, starts[k])'
    <3>1. WrittenIn(wire, EntryItems(k), 6, starts[k])
      BY <2>1, <2>2 DEF Written
    <3>2. WrittenIn(wire', EntryItems(k), 6, starts[k])
      BY <3>1, WritesKept
    <3> QED
      BY <1>1, <1>5, <3>2 DEF Written
  <2>3. starts \in Seq(Nat) /\ Len(starts) <= Len(msg.sessions)
    BY <1>2, <1>3, <2>1, AreaIs DEF IInv, CountersOK
  <2>4. EntriesEnd \in Nat
    BY <1>2, <1>3, <2>1, <2>3, AreaEndIs
  <2>5. EntriesEnd <= offset'
    BY <1>1, <2>1, <2>4
  <2>6. Holds(wire', 14, Item(4, EntriesEnd - 18))
    BY <2>1, WritesHeld
  <2>7. Chained(Len(starts))'
    BY <1>1, <1>5, <2>1
  <2> QED
    BY <2>1, <2>2, <2>5, <2>6, <2>7
<1> QED
  BY <1>1, <1>5, <1>6, <1>7, <1>8 DEF AreaLayout

LEMMA WritePolicyInv ==
  ASSUME IInv, Writes
  PROVE  PolicyLayout'
<1>1. /\ pc \in Marshalling /\ todo # << >>
      /\ UNCHANGED <<pc, msg, field, entry, auth_size_pos, starts>>
  BY DEF Writes
<1>2. SUFFICES ASSUME msg.command = "SetPrimaryPolicy"
               PROVE  PolicyLayout'
  BY <1>1 DEF PolicyLayout
<1>3. IsMessage(msg) /\ msg.command \in SessionCommands /\ Normal("SetPrimaryPolicy", msg)
  <2>1. PostProcessors(msg.command) = {"SetPrimaryPolicy"}
    BY <1>2 DEF PostProcessors
  <2>2. pc # "idle" /\ pc \notin {"idle", "mutated"}
    BY <1>1 DEF Marshalling
  <2> QED
    BY <1>2, <2>1, <2>2 DEF IInv, MessageOK, SessionCommands
<1>4. /\ FieldItems(4) \in ItemLists /\ Len(FieldItems(4)) = 2
      /\ FieldItems(5) \in ItemLists /\ Len(FieldItems(5)) = 1
      /\ msg.auth_policy \in Nat
  BY <1>2, <1>3, PolicyIs
<1>5. /\ EntriesEnd' = EntriesEnd
      /\ \A i : FieldItems(i)' = FieldItems(i)
  BY <1>1, SameMessage DEF EntriesEnd, EndOf, EntryItems
<1>6. PolicyLayout
  BY DEF IInv
<1>7. ASSUME field \in {5, 6} PROVE EntriesEnd \in Nat
  <2>1. field > 2 /\ field > 3
    BY <1>7
  <2>2. /\ Len(starts) = Len(msg.sessions) /\ Chained(Len(starts))
        /\ starts \in Seq(Nat)
    BY <1>1, <1>3, <2>1 DEF IInv, AreaLayout, CountersOK
  <2>3. Len(starts) <= Len(msg.sessions)
    BY <1>3, <2>2, AreaIs
  <2> QED
    BY <1>3, <2>2, <2>3, AreaEndIs
<1>8. field # 4
  BY <1>1, <1>2, <1>6 DEF PolicyLayout
<1>9. ASSUME field = 5 PROVE Progress(FieldItems(4), EntriesEnd)'
  <2>1. ProgressIn(todo, offset, wire, FieldItems(4), EntriesEnd)
    BY <1>1, <1>2, <1>6, <1>9 DEF PolicyLayout, Progress
  <2>2. Len(FieldItems(4)) <= 6 /\ EntriesEnd \in Nat
    BY <1>4, <1>7, <1>9, Short
  <2>3. ProgressIn(todo', offset', wire', FieldItems(4), EntriesEnd)
    BY <1>4, <2>1, <2>2, WritesStep
  <2> QED
    BY <1>5, <2>3 DEF Progress
<1>10. ASSUME field = 6
       PROVE  /\ Written(FieldItems(4), 2, EntriesEnd)'
              /\ Progress(FieldItems(5), EntriesEnd + 2 + msg.auth_policy)'
  <2>1. /\ WrittenIn(wire, FieldItems(4), 2, EntriesEnd)
        /\ ProgressIn(todo, offset, wire, FieldItems(5), EntriesEnd + 2 + msg.auth_policy)
    BY <1>1, <1>2, <1>6, <1>10 DEF PolicyLayout, Progress, Written
  <2>2. PICK base \in Nat : base = EntriesEnd + 2 + msg.auth_policy
    BY <1>4, <1>7, <1>10
  <2>3. Len(FieldItems(5)) <= 6
    BY <1>4, Short
  <2>4. ProgressIn(todo, offset, wire, FieldItems(5), base)
    BY <2>1, <2>2, Zenon
  <2>5. ProgressIn(todo', offset', wire', FieldItems(5), base)
    BY <1>4, <2>3, <2>4, WritesStep
  <2>6. WrittenIn(wire', FieldItems(4), 2, EntriesEnd)
    BY <2>1, WritesKept
  <2> QED
    BY <1>1, <1>5, <2>2, <2>5, <2>6 DEF Progress, Written
<1> QED
  BY <1>1, <1>8, <1>9, <1>10 DEF PolicyLayout

LEMMA WriteStartInv ==
  ASSUME IInv, Writes
  PROVE  StartLayout'
<1>1. pc \in Marshalling /\ UNCHANGED <<pc, msg, field>>
  BY DEF Writes
<1>2. SUFFICES ASSUME msg.command = "StartAuthSession", field > 2
               PROVE  StartLayout'
  BY <1>1 DEF StartLayout
<1>3. IsMessage(msg) /\ field \in 1..Len(Fields) + 1
  BY DEF IInv, MessageOK, CountersOK
<1>4. Len(Fields) = 8
  BY <1>2, <1>3, StartIs
<1>5. PICK j \in 2..8 : j = field - 1
  BY <1>2, <1>3, <1>4
<1>6. FieldItems(j) \in ItemLists /\ Len(FieldItems(j)) \in 1..2 /\ StartBase(j) \in Nat
  BY <1>2, <1>3, StartIs
<1>7. /\ ProgressIn(todo, offset, wire, FieldItems(j), StartBase(j))
      /\ \A i \in 2..field - 2 :
           WrittenIn(wire, FieldItems(i), Len(FieldItems(i)), StartBase(i))
  BY <1>1, <1>2, <1>5 DEF IInv, StartLayout, Progress, Written
<1>8. Len(FieldItems(j)) <= 6
  BY <1>6, Short
<1>9. ProgressIn(todo', offset', wire', FieldItems(j), StartBase(j))
  BY <1>6, <1>7, <1>8, WritesStep
<1>10. /\ \A i : FieldItems(i)' = FieldItems(i)
       /\ \A i : StartBase(i)' = StartBase(i)
  BY <1>1, SameMessage
<1>11. field' - 1 = j /\ field' - 2 = field - 2
  BY <1>1, <1>5
<1>12. Progress(FieldItems(field - 1), StartBase(field - 1))'
  BY <1>9, <1>10, <1>11 DEF Progress
<1>13. \A i \in 2..field' - 2 :
         WrittenIn(wire', FieldItems(i), Len(FieldItems(i)), StartBase(i))
  BY <1>7, <1>11, WritesKept
<1>14. \A i \in 2..field' - 2 : Written(FieldItems(i), Len(FieldItems(i)), StartBase(i))'
  BY <1>10, <1>13 DEF Written
<1> QED
  BY <1>12, <1>14 DEF StartLayout

LEMMA WriteItemInv == IInv /\ WriteItem => IInv'
  BY WriteInv, WriteHeaderInv, WriteAreaInv, WritePolicyInv, WriteStartInv DEF IInv

-----------------------------------------------------------------------------
(* The authorization area.                                                 *)

LEMMA MarshalRepeatedFieldInv == IInv /\ MarshalRepeatedField => IInv'
<1> SUFFICES ASSUME IInv, MarshalRepeatedField PROVE IInv'
  OBVIOUS
<1>1. /\ pc = "fields" /\ pc' = "sessions" /\ todo = << >> /\ field <= Len(Fields)
      /\ Here.type = "TPMSession" /\ todo' = <<Item(4, 0)>> /\ auth_size_pos' = offset
      /\ entry' = 1
      /\ UNCHANGED <<msg, pending, field, offset, wire, starts>>
  BY DEF MarshalRepeatedField
<1>2. IsMessage(msg) /\ field \in 1..Len(Fields) + 1
  BY DEF IInv, MessageOK, CountersOK
<1>3. msg.command \in EmittedCommands /\ Len(Fields) \in Nat /\ field \in 1..Len(Fields)
  BY <1>1, <1>2, FieldsCounted DEF Fields
<1>4. msg.command \in SessionCommands
  <2>1. msg.command \notin PlainCommands
    BY <1>1, <1>3, NoSessions DEF Fields, Here
  <2> QED
    BY <1>3, <2>1 DEF EmittedCommands
<1>5. field = 3
  BY <1>1, <1>2, <1>3, <1>4, AreaIs DEF Here
<1>6. offset = 14 /\ starts = << >>
  <2>1. AreaLayout /\ pc \in Marshalling /\ field > 2
    BY <1>1, <1>5 DEF IInv, Marshalling
  <2>2. ProgressIn(<< >>, offset, wire, FieldItems(2), 10) /\ starts = << >>
    BY <1>1, <1>4, <1>5, <2>1 DEF AreaLayout, Progress
  <2>3. FieldItems(2) \in ItemLists /\ Len(FieldItems(2)) = 1
        /\ Before(FieldItems(2), 1) = 4
    BY <1>2, <1>4, AreaIs
  <2>4. offset = 10 + Before(FieldItems(2), Len(FieldItems(2)))
    <3>1. 10 \in Nat
      OBVIOUS
    <3> QED
      BY <2>2, <2>3, <3>1, ProgressEnds
  <2>5. Before(FieldItems(2), Len(FieldItems(2))) = 4
    BY <2>3, Zenon
  <2>6. offset = 10 + 4
    BY <2>4, <2>5, Zenon
  <2> QED
    BY <2>2, <2>6
<1>7. PICK l : l = <<Item(4, 0)>>
  OBVIOUS
<1>8. l \in ItemLists
  <2>1. Item(4, 0) \in ItemRecords
    BY ItemTyped
  <2> QED
    BY <1>7, <2>1, OneListed
<1>9. CountersOK'
  BY <1>1, <1>5, <1>6, <1>7, <1>8, SameMessage DEF IInv, CountersOK
<1>10. BufferOK' /\ MessageOK'
  BY <1>1 DEF IInv, BufferOK, MessageOK
<1>11. SkippedForSizeOnly' /\ SessionsAreAreas'
  BY <1>1, <1>4, <1>5 DEF SkippedForSizeOnly, SessionsAreAreas
<1>12. HeaderLayout'
  <2>1. HeaderLayout /\ pc \in Marshalling
    BY <1>1 DEF IInv, Marshalling
  <2> QED
    BY <1>1, <1>5, <2>1 DEF HeaderLayout
<1>13. AreaLayout'
  <2>1. ProgressIn(l, 14, wire, l, 14)
    BY <1>8, ProgressStarts
  <2>2. Progress(<<Item(4, 0)>>, 14)'
    BY <1>1, <1>6, <1>7, <2>1 DEF Progress
  <2>3. Len(starts) = 0 /\ 1..0 = {} /\ 1..0 - 1 = {} /\ Len(msg.sessions) \in Nat
    BY <1>2, <1>4, <1>6, AreaIs
  <2>4. Chained(Len(starts))'
    BY <1>1, <2>3 DEF Chained
  <2>5. /\ auth_size_pos' = 14 /\ entry' = 1 /\ Len(starts') = entry' - 1
        /\ Len(starts') <= Len(msg'.sessions) /\ field' = 3 /\ pc' = "sessions"
        /\ 1..Len(starts') - 1 = {}
    BY <1>1, <1>5, <1>6, <2>3
  <2> QED
    BY <2>2, <2>4, <2>5 DEF AreaLayout
<1>14. PolicyLayout'
  BY <1>1, <1>5 DEF PolicyLayout
<1>15. StartLayout'
  <2>1. msg'.command # "StartAuthSession"
    BY <1>1, <1>4 DEF SessionCommands
  <2> QED
    BY <2>1 DEF StartLayout
<1> QED
  BY <1>9, <1>10, <1>11, <1>12, <1>13, <1>14, <1>15 DEF IInv

\* Between two entries: the one before is written, and the next begins behind it.
LEMMA EntryEnds ==
  ASSUME IInv, pc = "sessions", todo = << >>
  PROVE  /\ IsMessage(msg) /\ msg.command \in SessionCommands /\ field = 3
         /\ auth_size_pos = 14
         /\ entry \in Nat \ {0} /\ Len(starts) = entry - 1
         /\ Len(starts) <= Len(msg.sessions)
         /\ Chained(Len(starts))
         /\ \A k \in 1..Len(starts) : WrittenIn(wire, EntryItems(k), 6, starts[k])
         /\ offset = EntriesEnd /\ offset >= 18 /\ offset \in Nat
<1>1. IsMessage(msg) /\ msg.command \in SessionCommands /\ field = 3
  BY DEF IInv, MessageOK, SessionsAreAreas
<1>2. /\ auth_size_pos = 14
      /\ Len(starts) = entry - 1
      /\ Len(starts) <= Len(msg.sessions)
      /\ Chained(Len(starts))
      /\ \A k \in 1..Len(starts) - 1 : WrittenIn(wire, EntryItems(k), 6, starts[k])
      /\ entry = 1 => ProgressIn(<< >>, offset, wire, <<Item(4, 0)>>, 14)
      /\ entry > 1 =>
           ProgressIn(<< >>, offset, wire, EntryItems(entry - 1), starts[entry - 1])
  <2>1. AreaLayout /\ pc \in Marshalling /\ field > 2
    BY <1>1 DEF IInv, Marshalling
  <2> QED
    BY <1>1, <2>1 DEF AreaLayout, Progress, Written
<1>3. entry \in Nat \ {0} /\ starts \in Seq(Nat)
  BY DEF IInv, CountersOK
<1>4. EntriesEnd \in Nat /\ EntriesEnd >= 18
  BY <1>1, <1>2, <1>3, AreaEndIs
<1>5. CASE entry = 1
  <2>1. PICK l : l = <<Item(4, 0)>>
    OBVIOUS
  <2>2. l \in ItemLists /\ Len(l) = 1 /\ Before(l, 1) = 4
    <3>1. Item(4, 0) \in ItemRecords /\ Item(4, 0).width = 4
      BY ItemTyped, ItemIs
    <3> QED
      BY <2>1, <3>1, OneListed
  <2>3. ProgressIn(<< >>, offset, wire, l, 14)
    BY <1>2, <1>5, <2>1
  <2>4. offset = 14 + Before(l, 1)
    BY <2>2, <2>3, ProgressEnds
  <2>5. starts = << >> /\ Len(starts) = 0 /\ 1..Len(starts) = {}
    BY <1>2, <1>3, <1>5
  <2>6. EntriesEnd = 18 /\ offset = 18
    BY <2>2, <2>4, <2>5 DEF EntriesEnd
  <2> QED
    BY <1>1, <1>2, <1>3, <2>5, <2>6
<1>6. CASE entry > 1
  <2>1. PICK k \in 1..Len(starts) : k = entry - 1 /\ k = Len(starts)
    BY <1>2, <1>3, <1>6
  <2>2. k \in 1..Len(msg.sessions)
    BY <1>1, <1>2, <1>3, <2>1, AreaIs
  <2>3. EntryItems(k) \in ItemLists /\ Len(EntryItems(k)) = 6
    BY <1>1, <2>2, AreaIs
  <2>4. ProgressIn(<< >>, offset, wire, EntryItems(k), starts[k])
    BY <1>2, <1>6, <2>1
  <2>5. /\ WrittenIn(wire, EntryItems(k), 6, starts[k])
        /\ offset = starts[k] + Before(EntryItems(k), 6)
    BY <2>3, <2>4, ProgressEnds
  <2>6. starts # << >>
    BY <1>3, <2>1
  <2>7. offset = EntriesEnd
    BY <2>1, <2>5, <2>6 DEF EntriesEnd, EndOf
  <2>8. ASSUME NEW i \in 1..Len(starts)
        PROVE  WrittenIn(wire, EntryItems(i), 6, starts[i])
    <3>1. i = k \/ i \in 1..Len(starts) - 1
      BY <1>3, <2>1
    <3> QED
      BY <1>2, <2>5, <3>1
  <2> QED
    BY <1>1, <1>2, <1>3, <1>4, <2>7, <2>8
<1> QED
  BY <1>3, <1>5, <1>6

LEMMA MarshalTPMSessionInv == IInv /\ MarshalTPMSession => IInv'
<1> SUFFICES ASSUME IInv, MarshalTPMSession PROVE IInv'
  OBVIOUS
<1>1. /\ pc = "sessions" /\ pc' = "sessions" /\ todo = << >>
      /\ entry <= Len(msg.sessions)
      /\ todo' = EntryItems(entry) /\ starts' = Append(starts, offset)
      /\ entry' = entry + 1
      /\ UNCHANGED <<msg, pending, field, offset, wire, auth_size_pos>>
  BY DEF MarshalTPMSession, EntryItems
<1>2. /\ IsMessage(msg) /\ msg.command \in SessionCommands /\ field = 3
      /\ auth_size_pos = 14
      /\ entry \in Nat \ {0} /\ Len(starts) = entry - 1
      /\ Chained(Len(starts))
      /\ \A k \in 1..Len(starts) : WrittenIn(wire, EntryItems(k), 6, starts[k])
      /\ offset = EntriesEnd /\ offset >= 18 /\ offset \in Nat
  BY <1>1, EntryEnds
<1>3. starts \in Seq(Nat) /\ Len(msg.sessions) \in Nat
  BY <1>2, AreaIs DEF IInv, CountersOK
<1>4. entry \in 1..Len(msg.sessions) /\ EntryItems(entry) \in ItemLists
  BY <1>1, <1>2, <1>3, AreaIs
<1>5. /\ starts' \in Seq(Nat) /\ Len(starts') = entry /\ starts'[entry] = offset
      /\ \A k \in 1..entry - 1 : starts'[k] = starts[k]
  BY <1>1, <1>2, <1>3
<1>6. CountersOK'
  BY <1>1, <1>2, <1>4, <1>5, SameMessage DEF IInv, CountersOK
<1>7. BufferOK' /\ MessageOK'
  BY <1>1 DEF IInv, BufferOK, MessageOK
<1>8. SkippedForSizeOnly' /\ SessionsAreAreas'
  BY <1>1, <1>2 DEF SkippedForSizeOnly, SessionsAreAreas
<1>9. HeaderLayout'
  <2>1. HeaderLayout /\ pc \in Marshalling
    BY <1>1 DEF IInv, Marshalling
  <2> QED
    BY <1>1, <1>2, <2>1 DEF HeaderLayout
<1>10. \A k : EntryItems(k)' = EntryItems(k)
  BY <1>1, SameMessage
<1>11. Chained(Len(starts))'
  <2>1. ASSUME NEW k \in 1..entry
        PROVE  /\ starts'[k] >= 18
               /\ k = 1 => starts'[k] = 18
               /\ k > 1 => starts'[k] = EndOf(k - 1)'
    <3>1. CASE k = entry
      <4>1. CASE entry = 1
        <5>1. starts = << >>
          BY <1>2, <1>3, <4>1
        <5> QED
          BY <1>2, <1>5, <3>1, <4>1, <5>1 DEF EntriesEnd
      <4>2. CASE entry > 1
        <5>1. starts # << >> /\ entry - 1 \in 1..entry - 1
          BY <1>2, <1>3, <4>2
        <5>2. offset = starts[entry - 1] + Before(EntryItems(entry - 1), 6)
          BY <1>2, <5>1 DEF EntriesEnd, EndOf
        <5>3. offset = starts'[k - 1] + Before(EntryItems(k - 1), 6)
          BY <1>5, <3>1, <5>1, <5>2
        <5> QED
          BY <1>2, <1>5, <1>10, <3>1, <4>2, <5>3 DEF EndOf
      <4> QED
        BY <1>2, <4>1, <4>2
    <3>2. CASE k # entry
      <4>1. k \in 1..Len(starts) /\ k \in 1..entry - 1
        BY <1>2, <3>2
      <4>2. /\ starts[k] >= 18
            /\ k = 1 => starts[k] = 18
            /\ k > 1 => starts[k] = EndOf(k - 1)
        BY <1>2, <4>1 DEF Chained
      <4>3. ASSUME k > 1 PROVE EndOf(k - 1)' = EndOf(k - 1)
        <5>1. k - 1 \in 1..entry - 1
          BY <1>2, <4>1, <4>3
        <5>2. starts'[k - 1] = starts[k - 1]
          BY <1>5, <5>1
        <5> QED
          BY <1>10, <5>2 DEF EndOf
      <4> QED
        BY <1>5, <4>1, <4>2, <4>3
    <3> QED
      BY <3>1, <3>2
  <2> QED
    BY <1>5, <2>1 DEF Chained
<1>12. AreaLayout'
  <2>1. ASSUME NEW k \in 1..Len(starts') - 1
        PROVE  Written(EntryItems(k), 6, starts[k])'
    <3>1. k \in 1..Len(starts) /\ starts'[k] = starts[k]
      BY <1>2, <1>5
    <3>2. WrittenIn(wire, EntryItems(k), 6, starts[k])
      BY <1>2, <3>1
    <3> QED
      BY <1>1, <1>10, <3>1, <3>2 DEF Written
  <2>2. ProgressIn(EntryItems(entry), offset, wire, EntryItems(entry), offset)
    BY <1>2, <1>4, ProgressStarts
  <2>3. entry' - 1 = entry /\ entry' > 1 /\ entry' # 1
    BY <1>1, <1>2
  <2>4. Progress(EntryItems(entry - 1), starts[entry - 1])'
    BY <1>1, <1>5, <1>10, <2>2, <2>3 DEF Progress
  <2>5. /\ auth_size_pos' = 14 /\ Len(starts') = entry' - 1 /\ field' = 3
        /\ Len(starts') <= Len(msg'.sessions) /\ pc' = "sessions"
    BY <1>1, <1>2, <1>5, <2>3
  <2> QED
    BY <1>11, <2>1, <2>3, <2>4, <2>5 DEF AreaLayout
<1>13. PolicyLayout'
  BY <1>1, <1>2 DEF PolicyLayout
<1>14. StartLayout'
  <2>1. msg'.command # "StartAuthSession"
    BY <1>1, <1>2 DEF SessionCommands
  <2> QED
    BY <2>1 DEF StartLayout
<1> QED
  BY <1>6, <1>7, <1>8, <1>9, <1>12, <1>13, <1>14 DEF IInv

-----------------------------------------------------------------------------
(* The two sizes that are patched.                                         *)

\* A size is patched inside what is written.
LEMMA PatchBuffer ==
  ASSUME BufferOK, NEW at \in Nat, NEW n \in Nat, at + 4 <= offset,
         wire' = Put(wire, at, Item(4, n)), offset' = offset
  PROVE  BufferOK'
<1>1. PICK item \in ItemRecords : item = Item(4, n) /\ item.width = 4
  BY ItemTyped, ItemIs
<1>2. wire' = [o \in DOMAIN wire \cup {at} |-> IF o = at THEN item ELSE wire[o]]
  BY <1>1 DEF Put
<1>3. ASSUME NEW o \in DOMAIN wire'
      PROVE  /\ o \in Nat /\ wire'[o] \in ItemRecords /\ wire'[o].width > 0
             /\ o + wire'[o].width <= offset
  <2>1. CASE o = at
    <3>1. wire'[o] = item
      BY <1>2, <2>1
    <3> QED
      BY <1>1, <2>1, <3>1
  <2>2. CASE o # at
    <3>1. o \in DOMAIN wire /\ wire'[o] = wire[o]
      BY <1>2, <2>2
    <3> QED
      BY <3>1 DEF BufferOK
  <2> QED
    BY <2>1, <2>2
<1> QED
  BY <1>3 DEF BufferOK

LEMMA PatchAuthorizationSizeInv == IInv /\ PatchAuthorizationSize => IInv'
<1> SUFFICES ASSUME IInv, PatchAuthorizationSize PROVE IInv'
  OBVIOUS
<1>1. /\ pc = "sessions" /\ pc' = "fields" /\ todo = << >>
      /\ entry > Len(msg.sessions)
      /\ wire' = Put(wire, auth_size_pos, Item(4, AuthAreaSize))
      /\ field' = field + 1
      /\ UNCHANGED <<msg, pending, entry, todo, offset, auth_size_pos, starts>>
  BY DEF PatchAuthorizationSize
<1>2. /\ IsMessage(msg) /\ msg.command \in SessionCommands /\ field = 3
      /\ auth_size_pos = 14
      /\ entry \in Nat \ {0} /\ Len(starts) = entry - 1
      /\ Len(starts) <= Len(msg.sessions)
      /\ Chained(Len(starts))
      /\ \A k \in 1..Len(starts) : WrittenIn(wire, EntryItems(k), 6, starts[k])
      /\ offset = EntriesEnd /\ offset >= 18 /\ offset \in Nat
  BY <1>1, EntryEnds
<1>3. /\ starts \in Seq(Nat) /\ Len(msg.sessions) \in Nat
      /\ Len(Fields) \in Nat /\ Len(Fields) >= 3
      /\ Len(starts) = Len(msg.sessions)
  BY <1>1, <1>2, AreaIs DEF IInv, CountersOK
<1>4. PICK size \in Nat : size = AuthAreaSize /\ size = EntriesEnd - 18
  BY <1>2 DEF AuthAreaSize
<1>5. field' = 4 /\ wire' = Put(wire, 14, Item(4, size))
  BY <1>1, <1>2, <1>4
<1>6. CountersOK'
  BY <1>1, <1>3, <1>5, SameMessage DEF IInv, CountersOK
<1>7. BufferOK'
  <2>1. 14 \in Nat /\ 14 + 4 <= offset /\ offset' = offset /\ BufferOK
    BY <1>1, <1>2 DEF IInv
  <2> QED
    BY <1>5, <2>1, PatchBuffer
<1>8. MessageOK'
  BY <1>1 DEF IInv, MessageOK
<1>9. SkippedForSizeOnly' /\ SessionsAreAreas'
  BY <1>1 DEF SkippedForSizeOnly, SessionsAreAreas
<1>10. HeaderLayout'
  <2>1. /\ offset >= 10
        /\ Holds(wire, 0, Item(2, msg.header.tag))
        /\ Holds(wire, 6, Item(4, msg.header.command_code))
    BY <1>1, <1>2 DEF IInv, HeaderLayout, Marshalling
  <2>2. /\ Holds(wire', 0, Item(2, msg.header.tag))
        /\ Holds(wire', 6, Item(4, msg.header.command_code))
    BY <1>5, <2>1, PutKeeps
  <2> QED
    BY <1>1, <1>5, <2>1, <2>2 DEF HeaderLayout
<1>11. AreaLayout'
  <2>1. \A k : EntryItems(k)' = EntryItems(k)
    BY <1>1, SameMessage
  <2>2. EntriesEnd' = EntriesEnd /\ Chained(Len(starts))'
    BY <1>1, <1>2, <2>1 DEF EntriesEnd, EndOf, Chained
  <2>3. ASSUME NEW k \in 1..Len(starts)
        PROVE  Written(EntryItems(k), 6, starts[k])'
    <3>1. k \in 1..Len(msg.sessions) /\ starts[k] \in Nat /\ starts[k] >= 18
      BY <1>2, <1>3 DEF Chained
    <3>2. EntryItems(k) \in ItemLists /\ Len(EntryItems(k)) = 6
      BY <1>2, <3>1, AreaIs
    <3>3. PICK base \in Nat : base = starts[k]
      BY <3>1
    <3>4. Len(EntryItems(k)) <= 6 /\ 6 \in 0..Len(EntryItems(k)) /\ 14 < base
      BY <3>1, <3>2, <3>3, Short
    <3>5. WrittenIn(wire, EntryItems(k), 6, base)
      BY <1>2, <3>3
    <3>6. WrittenIn(wire', EntryItems(k), 6, base)
      BY <1>5, <3>2, <3>4, <3>5, WrittenBehind
    <3> QED
      BY <1>1, <2>1, <3>3, <3>6 DEF Written
  <2>4. Holds(wire', 14, Item(4, size))
    <3>1. Item(4, size).width # 0
      BY ItemIs
    <3> QED
      BY <1>5, <3>1, PutHolds
  <2>5. Holds(wire, 14, Item(4, EntriesEnd - 18))'
    BY <1>4, <2>2, <2>4
  <2>6. EntriesEnd' <= offset' /\ auth_size_pos' = 14 /\ starts' = starts
        /\ Len(starts') = Len(msg'.sessions) /\ field' > 3 /\ field' # 3 /\ pc' = "fields"
    BY <1>1, <1>2, <1>3, <1>5, <2>2
  <2> QED
    BY <2>2, <2>3, <2>5, <2>6 DEF AreaLayout
<1>12. PolicyLayout'
  <2>1. EntriesEnd' = EntriesEnd
    BY <1>1 DEF EntriesEnd, EndOf, EntryItems
  <2> QED
    BY <1>1, <1>2, <1>5, <2>1 DEF PolicyLayout
<1>13. StartLayout'
  <2>1. msg'.command # "StartAuthSession"
    BY <1>1, <1>2 DEF SessionCommands
  <2> QED
    BY <2>1 DEF StartLayout
<1> QED
  BY <1>6, <1>7, <1>8, <1>9, <1>10, <1>11, <1>12, <1>13 DEF IInv

\* The end of the loop: everything is written.
LEMMA Finished ==
  ASSUME IInv, pc \in {"fields", "done"}, todo = << >>, field > Len(Fields)
  PROVE  /\ IsMessage(msg) /\ field = Len(Fields) + 1 /\ field >= 3
         /\ offset \in Nat /\ offset >= 10
         /\ Holds(wire, 0, Item(2, msg.header.tag))
         /\ Holds(wire, 6, Item(4, msg.header.command_code))
         /\ msg.command \in SessionCommands =>
              /\ field > 3
              /\ auth_size_pos = 14
              /\ Len(starts) = Len(msg.sessions)
              /\ Chained(Len(starts))
              /\ \A k \in 1..Len(starts) : WrittenIn(wire, EntryItems(k), 6, starts[k])
              /\ Holds(wire, 14, Item(4, EntriesEnd - 18))
              /\ EntriesEnd <= offset /\ EntriesEnd \in Nat /\ EntriesEnd >= 18
              /\ \A k \in 1..Len(starts) : starts[k] \in Nat /\ starts[k] >= 18
         /\ msg.command = "SetPrimaryPolicy" =>
              /\ field = 6 /\ Normal("SetPrimaryPolicy", msg)
              /\ WrittenIn(wire, FieldItems(4), 2, EntriesEnd)
              /\ WrittenIn(wire, FieldItems(5), 1, EntriesEnd + 2 + msg.auth_policy)
         /\ msg.command = "StartAuthSession" =>
              /\ field = 9
              /\ \A i \in 2..8 :
                   WrittenIn(wire, FieldItems(i), Len(FieldItems(i)), StartBase(i))
              /\ offset = StartBase(8) + 2
<1>1. IsMessage(msg) /\ field \in 1..Len(Fields) + 1 /\ offset \in Nat
  BY DEF IInv, MessageOK, CountersOK, BufferOK
<1>2. Len(Fields) \in Nat /\ field = Len(Fields) + 1 /\ field >= 3
  BY <1>1, FieldsCounted DEF Fields
<1>3. pc \in Marshalling /\ field > 2
  BY <1>2 DEF Marshalling
<1>4. /\ offset >= 10
      /\ Holds(wire, 0, Item(2, msg.header.tag))
      /\ Holds(wire, 6, Item(4, msg.header.command_code))
  BY <1>3 DEF IInv, HeaderLayout
<1>5. ASSUME msg.command \in SessionCommands
      PROVE  /\ field > 3
             /\ auth_size_pos = 14
             /\ Len(starts) = Len(msg.sessions)
             /\ Chained(Len(starts))
             /\ \A k \in 1..Len(starts) : WrittenIn(wire, EntryItems(k), 6, starts[k])
             /\ Holds(wire, 14, Item(4, EntriesEnd - 18))
             /\ EntriesEnd <= offset /\ EntriesEnd \in Nat /\ EntriesEnd >= 18
             /\ \A k \in 1..Len(starts) : starts[k] \in Nat /\ starts[k] >= 18
  <2>1. field > 3 /\ Len(msg.sessions) \in Nat
    BY <1>1, <1>2, <1>5, AreaIs
  <2>2. /\ auth_size_pos = 14
        /\ Len(starts) = Len(msg.sessions)
        /\ Chained(Len(starts))
        /\ \A k \in 1..Len(starts) : WrittenIn(wire, EntryItems(k), 6, starts[k])
        /\ Holds(wire, 14, Item(4, EntriesEnd - 18))
        /\ EntriesEnd <= offset
    BY <1>3, <1>5, <2>1 DEF IInv, AreaLayout, Written
  <2>3. starts \in Seq(Nat) /\ Len(starts) <= Len(msg.sessions)
    BY <2>1, <2>2 DEF IInv, CountersOK
  <2>4. /\ EntriesEnd \in Nat /\ EntriesEnd >= 18
        /\ \A k \in 1..Len(starts) : starts[k] \in Nat /\ starts[k] >= 18
    BY <1>1, <1>5, <2>2, <2>3, AreaEndIs
  <2> QED
    BY <2>1, <2>2, <2>4
<1>6. ASSUME msg.command = "SetPrimaryPolicy"
      PROVE  /\ field = 6 /\ Normal("SetPrimaryPolicy", msg)
             /\ WrittenIn(wire, FieldItems(4), 2, EntriesEnd)
             /\ WrittenIn(wire, FieldItems(5), 1, EntriesEnd + 2 + msg.auth_policy)
  <2>1. PostProcessors(msg.command) = {"SetPrimaryPolicy"}
    BY <1>6 DEF PostProcessors
  <2>2. Normal("SetPrimaryPolicy", msg)
    BY <1>6, <2>1 DEF IInv, MessageOK
  <2>3. Len(Fields) = 5 /\ FieldItems(5) \in ItemLists /\ Len(FieldItems(5)) = 1
    BY <1>1, <1>6, <2>2, PolicyIs
  <2>4. field = 6
    BY <1>2, <2>3
  <2>5. /\ WrittenIn(wire, FieldItems(4), 2, EntriesEnd)
        /\ ProgressIn(<< >>, offset, wire, FieldItems(5), EntriesEnd + 2 + msg.auth_policy)
    BY <1>3, <1>6, <2>4 DEF IInv, PolicyLayout, Written, Progress
  <2> QED
    BY <2>2, <2>3, <2>4, <2>5, ProgressEnds
<1>7. ASSUME msg.command = "StartAuthSession"
      PROVE  /\ field = 9
             /\ \A i \in 2..8 :
                  WrittenIn(wire, FieldItems(i), Len(FieldItems(i)), StartBase(i))
             /\ offset = StartBase(8) + 2
  <2>1. Len(Fields) = 8
    BY <1>1, <1>7, StartIs
  <2>2. field = 9 /\ field - 1 = 8 /\ field - 2 = 7
    BY <1>2, <2>1
  <2>3. /\ ProgressIn(<< >>, offset, wire, FieldItems(8), StartBase(8))
        /\ \A i \in 2..7 :
             WrittenIn(wire, FieldItems(i), Len(FieldItems(i)), StartBase(i))
    BY <1>3, <1>7, <2>2 DEF IInv, StartLayout, Written, Progress
  <2>4. FieldItems(8) \in ItemLists /\ Before(FieldItems(8), Len(FieldItems(8))) = 2
    <3>1. 8 \in 2..8
      OBVIOUS
    <3> QED
      BY <1>1, <1>7, <3>1, StartIs
  <2>5. /\ WrittenIn(wire, FieldItems(8), Len(FieldItems(8)), StartBase(8))
        /\ offset = StartBase(8) + Before(FieldItems(8), Len(FieldItems(8)))
    BY <2>3, <2>4, ProgressEnds
  <2>6. ASSUME NEW i \in 2..8
        PROVE  WrittenIn(wire, FieldItems(i), Len(FieldItems(i)), StartBase(i))
    <3>1. i = 8 \/ i \in 2..7
      OBVIOUS
    <3> QED
      BY <2>3, <2>5, <3>1
  <2>7. offset = StartBase(8) + 2
    BY <2>4, <2>5, Zenon
  <2> QED
    BY <2>2, <2>6, <2>7
<1> QED
  BY <1>1, <1>2, <1>4, <1>5, <1>6, <1>7

\* A size that is patched in front of a list leaves the place in it alone.
LEMMA ProgressBehind ==
  ASSUME NEW w, NEW at \in Nat, NEW item, NEW list \in ItemLists, Len(list) <= 6,
         NEW base \in Nat, at < base,
         NEW left, Len(left) = 0, NEW end, ProgressIn(left, end, w, list, base)
  PROVE  ProgressIn(left, end, Put(w, at, item), list, base)
<1>1. Len(list) \in Nat /\ Len(list) - Len(left) = Len(list)
  BY DEF ItemLists
<1>2. PICK n \in 0..Len(list) : n = Len(list) - Len(left)
  <2>1. Len(list) \in 0..Len(list)
    BY <1>1
  <2> QED
    BY <1>1, <2>1, Zenon
<1>3. WrittenIn(w, list, n, base)
  BY <1>2 DEF ProgressIn
<1>4. WrittenIn(Put(w, at, item), list, n, base)
  BY <1>3, WrittenBehind
<1> QED
  BY <1>2, <1>4 DEF ProgressIn

LEMMA PatchCommandSizeInv == IInv /\ PatchCommandSize => IInv'
<1> SUFFICES ASSUME IInv, PatchCommandSize PROVE IInv'
  OBVIOUS
<1>1. /\ pc = "fields" /\ pc' = "done" /\ todo = << >> /\ field > Len(Fields)
      /\ wire' = Put(wire, 2, Item(4, offset))
      /\ UNCHANGED <<msg, pending, field, entry, todo, offset, auth_size_pos, starts>>
  BY DEF PatchCommandSize
<1>2. /\ IsMessage(msg) /\ field = Len(Fields) + 1 /\ field >= 3
      /\ offset \in Nat /\ offset >= 10
      /\ Holds(wire, 0, Item(2, msg.header.tag))
      /\ Holds(wire, 6, Item(4, msg.header.command_code))
  BY <1>1, Finished
<1>3. CountersOK'
  BY <1>1, <1>2, SameMessage DEF IInv, CountersOK
<1>4. BufferOK'
  <2>1. 2 \in Nat /\ 2 + 4 <= offset /\ offset' = offset /\ BufferOK
    BY <1>1, <1>2 DEF IInv
  <2> QED
    BY <1>1, <1>2, <2>1, PatchBuffer
<1>5. MessageOK'
  BY <1>1 DEF IInv, MessageOK
<1>6. SkippedForSizeOnly' /\ SessionsAreAreas'
  BY <1>1 DEF SkippedForSizeOnly, SessionsAreAreas
<1>7. HeaderLayout'
  <2>1. /\ Holds(wire', 0, Item(2, msg.header.tag))
        /\ Holds(wire', 6, Item(4, msg.header.command_code))
    BY <1>1, <1>2, PutKeeps
  <2>2. Holds(wire', 2, Item(4, offset))
    <3>1. Item(4, offset).width # 0
      BY ItemIs
    <3> QED
      BY <1>1, <3>1, PutHolds
  <2>3. field' > 2 /\ field' # 1 /\ field' # 2 /\ offset' = offset /\ msg' = msg
    BY <1>1, <1>2
  <2> QED
    BY <1>2, <2>1, <2>2, <2>3 DEF HeaderLayout
<1>8. /\ EntriesEnd' = EntriesEnd
      /\ \A n : Chained(n)' <=> Chained(n)
      /\ \A k : EntryItems(k)' = EntryItems(k)
      /\ \A i : FieldItems(i)' = FieldItems(i)
      /\ \A i : StartBase(i)' = StartBase(i)
  <2>1. /\ \A k : EntryItems(k)' = EntryItems(k)
        /\ \A i : FieldItems(i)' = FieldItems(i)
        /\ \A i : StartBase(i)' = StartBase(i)
    BY <1>1, SameMessage
  <2> QED
    BY <1>1, <2>1 DEF EntriesEnd, EndOf, Chained
<1>9. AreaLayout'
  <2>1. SUFFICES ASSUME msg.command \in SessionCommands PROVE AreaLayout'
    BY <1>1 DEF AreaLayout
  <2>2. /\ field > 3
        /\ auth_size_pos = 14
        /\ Len(starts) = Len(msg.sessions)
        /\ Chained(Len(starts))
        /\ \A k \in 1..Len(starts) : WrittenIn(wire, EntryItems(k), 6, starts[k])
        /\ Holds(wire, 14, Item(4, EntriesEnd - 18))
        /\ EntriesEnd <= offset
        /\ \A k \in 1..Len(starts) : starts[k] \in Nat /\ starts[k] >= 18
    BY <1>1, <2>1, Finished
  <2>3. ASSUME NEW k \in 1..Len(starts)
        PROVE  Written(EntryItems(k), 6, starts[k])'
    <3>1. PICK base \in Nat : base = starts[k] /\ 2 < base
      BY <2>2
    <3>2. EntryItems(k) \in ItemLists /\ Len(EntryItems(k)) = 6
      BY <1>2, <2>1, <2>2, AreaIs
    <3>3. Len(EntryItems(k)) <= 6 /\ 6 \in 0..Len(EntryItems(k)) /\ 2 \in Nat
      BY <3>2, Short
    <3>4. WrittenIn(wire, EntryItems(k), 6, base)
      BY <2>2, <3>1
    <3>5. WrittenIn(wire', EntryItems(k), 6, base)
      BY <1>1, <3>1, <3>2, <3>3, <3>4, WrittenBehind
    <3> QED
      BY <1>1, <1>8, <3>1, <3>5 DEF Written
  <2>4. Holds(wire', 14, Item(4, EntriesEnd - 18))
    BY <1>1, <2>2, PutKeeps
  <2>5. /\ field' > 3 /\ field' # 3 /\ pc' = "done" /\ auth_size_pos' = 14
        /\ Len(starts') = Len(msg'.sessions) /\ starts' = starts
        /\ Chained(Len(starts))' /\ EntriesEnd' <= offset'
    BY <1>1, <1>8, <2>2
  <2>6. Holds(wire, 14, Item(4, EntriesEnd - 18))'
    BY <1>8, <2>4
  <2> QED
    BY <2>3, <2>5, <2>6 DEF AreaLayout
<1>10. PolicyLayout'
  <2>1. SUFFICES ASSUME msg.command = "SetPrimaryPolicy" PROVE PolicyLayout'
    BY <1>1 DEF PolicyLayout
  <2>2. /\ field = 6 /\ Normal("SetPrimaryPolicy", msg)
        /\ WrittenIn(wire, FieldItems(4), 2, EntriesEnd)
    BY <1>1, <2>1, Finished
  <2>3. EntriesEnd \in Nat /\ EntriesEnd >= 18
    <3>1. msg.command \in SessionCommands
      BY <2>1 DEF SessionCommands
    <3> QED
      BY <1>1, <3>1, Finished
  <2>4. /\ FieldItems(4) \in ItemLists /\ Len(FieldItems(4)) = 2
        /\ FieldItems(5) \in ItemLists /\ Len(FieldItems(5)) = 1
        /\ msg.auth_policy \in Nat
    BY <1>2, <2>1, <2>2, PolicyIs
  <2>5. WrittenIn(wire', FieldItems(4), 2, EntriesEnd)
    <3>1. Len(FieldItems(4)) <= 6
      BY <2>4, Short
    <3>2. 2 \in 0..2 /\ 2 \in Nat
      OBVIOUS
    <3>3. 2 \in 0..Len(FieldItems(4))
      BY <2>4, <3>2, Zenon
    <3>4. 2 < EntriesEnd
      BY <2>3
    <3> QED
      BY <1>1, <2>2, <2>3, <2>4, <3>1, <3>2, <3>3, <3>4, WrittenBehind
  <2>6. PICK base \in Nat : base = EntriesEnd + 2 + msg.auth_policy /\ 2 < base
    BY <2>3, <2>4
  <2>7. ProgressIn(todo, offset, wire, FieldItems(5), base)
    <3>1. pc \in Marshalling
      BY <1>1 DEF Marshalling
    <3> QED
      BY <2>1, <2>2, <2>6, <3>1 DEF IInv, PolicyLayout, Progress
  <2>8. ProgressIn(todo, offset, wire', FieldItems(5), base)
    <3>1. Len(FieldItems(5)) <= 6 /\ Len(todo) = 0 /\ 2 \in Nat
      BY <1>1, <2>4, Short
    <3> QED
      BY <1>1, <2>4, <2>6, <2>7, <3>1, ProgressBehind
  <2>9. Written(FieldItems(4), 2, EntriesEnd)'
    BY <1>8, <2>5 DEF Written
  <2>10. Progress(FieldItems(5), EntriesEnd + 2 + msg.auth_policy)'
    BY <1>1, <1>8, <2>6, <2>8 DEF Progress
  <2>11. field' = 6
    BY <1>1, <2>2
  <2> QED
    BY <2>9, <2>10, <2>11 DEF PolicyLayout
<1>11. StartLayout'
  <2>1. SUFFICES ASSUME msg.command = "StartAuthSession" PROVE StartLayout'
    BY <1>1 DEF StartLayout
  <2>2. /\ field = 9
        /\ \A i \in 2..8 :
             WrittenIn(wire, FieldItems(i), Len(FieldItems(i)), StartBase(i))
    BY <1>1, <2>1, Finished
  <2>3. ASSUME NEW i \in 2..8
        PROVE  /\ FieldItems(i) \in ItemLists /\ Len(FieldItems(i)) \in Nat
               /\ Len(FieldItems(i)) <= 6
               /\ StartBase(i) \in Nat /\ 2 < StartBase(i)
    <3>1. FieldItems(i) \in ItemLists /\ Len(FieldItems(i)) \in 1..2
          /\ StartBase(i) \in Nat /\ StartBase(i) >= 10
      BY <1>2, <2>1, StartIs
    <3> QED
      BY <3>1, Short
  <2>4. ASSUME NEW i \in 2..8
        PROVE  WrittenIn(wire', FieldItems(i), Len(FieldItems(i)), StartBase(i))
    <3>1. Len(FieldItems(i)) \in 0..Len(FieldItems(i)) /\ 2 \in Nat
      BY <2>3
    <3> QED
      BY <1>1, <2>2, <2>3, <3>1, WrittenBehind
  <2>5. ProgressIn(todo, offset, wire, FieldItems(8), StartBase(8))
    <3>1. pc \in Marshalling /\ field - 1 = 8 /\ field > 2
      BY <1>1, <2>2 DEF Marshalling
    <3> QED
      BY <2>1, <3>1 DEF IInv, StartLayout, Progress
  <2>6. ProgressIn(todo, offset, wire', FieldItems(8), StartBase(8))
    <3>1. 8 \in 2..8 /\ Len(todo) = 0 /\ 2 \in Nat
      BY <1>1
    <3> QED
      BY <1>1, <2>3, <2>5, <3>1, ProgressBehind
  <2>7. field' - 1 = 8 /\ field' - 2 = 7
    BY <1>1, <2>2
  <2>8. Progress(FieldItems(field - 1), StartBase(field - 1))'
    BY <1>1, <1>8, <2>6, <2>7 DEF Progress
  <2>9. \A i \in 2..field' - 2 : Written(FieldItems(i), Len(FieldItems(i)), StartBase(i))'
    BY <1>8, <2>4, <2>7 DEF Written
  <2> QED
    BY <2>8, <2>9 DEF StartLayout
<1> QED
  BY <1>3, <1>4, <1>5, <1>6, <1>7, <1>9, <1>10, <1>11 DEF IInv

LEMMA StutterInv == IInv /\ UNCHANGED vars => IInv'
<1> SUFFICES ASSUME IInv, UNCHANGED vars PROVE IInv'
  OBVIOUS
<1>1. UNCHANGED <<pc, msg, pending, field, entry, todo, offset, wire, auth_size_pos, starts>>
  BY DEF vars
<1>2. CountersOK' /\ BufferOK' /\ MessageOK' /\ SessionsAreAreas'
  BY <1>1, SameMessage DEF IInv, CountersOK, BufferOK, MessageOK, SessionsAreAreas
<1>3. SkippedForSizeOnly'
  BY <1>1 DEF IInv, SkippedForSizeOnly, Here, Fields
<1>4. /\ EntriesEnd' = EntriesEnd
      /\ \A n : Chained(n)' <=> Chained(n)
      /\ \A k : EntryItems(k)' = EntryItems(k)
      /\ \A i : FieldItems(i)' = FieldItems(i)
      /\ \A i : StartBase(i)' = StartBase(i)
  BY <1>1, SameMessage DEF EntriesEnd, EndOf, EntryItems, Chained
<1>5. HeaderLayout'
  BY <1>1 DEF IInv, HeaderLayout, Progress
<1>6. AreaLayout'
  BY <1>1, <1>4 DEF IInv, AreaLayout, Progress, Written
<1>7. PolicyLayout'
  BY <1>1, <1>4 DEF IInv, PolicyLayout, Progress, Written
<1>8. StartLayout'
  BY <1>1, <1>4 DEF IInv, StartLayout, Progress, Written
<1> QED
  BY <1>2, <1>3, <1>5, <1>6, <1>7, <1>8 DEF IInv

\* The marshaller is at its place in the list of values in every state: for
\* every set of messages of the schema and every size of the buffer, what has
\* been written is where the values before it end, and the post-processors that
\* have run have left a normal message (proto_conversion.cc, MarshalTPMCommand
\* and what it calls; proto_postprocessors.cc).
THEOREM Invariance == Spec => []IInv
<1>1. Init => IInv
  BY InitInv
<1>2. IInv /\ [Next]_vars => IInv'
  <2>1. ASSUME IInv, Next PROVE IInv'
    BY <2>1, MutateInv, RunPostProcessorInv, MarshalCommandInv, MarshalCommandFieldInv,
       RejectFieldInv, MarshalRepeatedFieldInv, MarshalTPMSessionInv,
       PatchAuthorizationSizeInv, WriteItemInv, BufferFullInv, PatchCommandSizeInv,
       ReturnInv
    DEF Next, MarshalStep
  <2> QED
    BY <2>1, StutterInv
<1> QED
  BY <1>1, <1>2, PTL DEF Spec

-----------------------------------------------------------------------------
(* Reading back.                                                           *)

\* A value that is held is read, and a size is skipped with what it is of.
LEMMA HeldIsRead ==
  ASSUME NEW w, NEW at, NEW width, NEW value, Holds(w, at, Item(width, value))
  PROVE  ReadAt(w, at, width) = value
  BY DEF Holds, ReadAt, Item

LEMMA HeldIsSkipped ==
  ASSUME NEW w, NEW at, NEW n \in Nat, Holds(w, at, Item(2, n))
  PROVE  SkipTPM2B(w, at) = at + 2 + n
<1>1. ReadAt(w, at, 2) = n
  BY HeldIsRead
<1> QED
  BY <1>1 DEF SkipTPM2B

\* An entry reads back, and ends where its values do.
LEMMA EntryReadsBack ==
  ASSUME NEW s \in Sessions, NEW w, NEW at \in Nat, WrittenIn(w, SessionItems(s), 6, at)
  PROVE  /\ ReadAt(w, at, 4) = s.session_handle
         /\ EntryEnd(w, at) = at + Before(SessionItems(s), 6)
<1>1. PICK l : l = SessionItems(s)
  OBVIOUS
<1>2. PICK n \in Nat, k \in Nat :
        /\ l[1] = Item(4, s.session_handle) /\ l[2] = Item(2, n) /\ l[5] = Item(2, k)
        /\ Before(l, 0) = 0 /\ Before(l, 1) = 4 /\ Before(l, 4) = 7 + n
        /\ Before(l, 6) = 9 + n + k
  BY <1>1, SessionListed
<1>3. l[1].width > 0 /\ l[2].width > 0 /\ l[5].width > 0
  BY <1>2, ItemIs
<1>4. \A i \in 1..6 : l[i].width > 0 => Holds(w, at + Before(l, i - 1), l[i])
  BY <1>1 DEF WrittenIn
<1>5. /\ Holds(w, at + Before(l, 0), l[1])
      /\ Holds(w, at + Before(l, 1), l[2])
      /\ Holds(w, at + Before(l, 4), l[5])
  <2>1. 1 \in 1..6 /\ 2 \in 1..6 /\ 5 \in 1..6 /\ 1 - 1 = 0 /\ 2 - 1 = 1 /\ 5 - 1 = 4
    OBVIOUS
  <2> QED
    BY <1>3, <1>4, <2>1
<1>6. /\ at + Before(l, 0) = at /\ at + Before(l, 1) = at + 4
      /\ at + Before(l, 4) = (at + 4 + 2 + n) + 1
  BY <1>2
<1>7. /\ Holds(w, at, Item(4, s.session_handle))
      /\ Holds(w, at + 4, Item(2, n))
      /\ Holds(w, (at + 4 + 2 + n) + 1, Item(2, k))
  BY <1>2, <1>5, <1>6, Zenon
<1>8. SkipTPM2B(w, at + 4) = at + 4 + 2 + n
  BY <1>7, HeldIsSkipped
<1>9. SkipTPM2B(w, (at + 4 + 2 + n) + 1) = (at + 4 + 2 + n) + 1 + 2 + k
  BY <1>7, HeldIsSkipped
<1>10. EntryEnd(w, at) = (at + 4 + 2 + n) + 1 + 2 + k
  BY <1>8, <1>9, Zenon DEF EntryEnd
<1>11. at + Before(l, 6) = (at + 4 + 2 + n) + 1 + 2 + k
  BY <1>2
<1> QED
  BY <1>1, <1>7, <1>10, <1>11, HeldIsRead

\* What holds of a command that is done.
LEMMA Done ==
  ASSUME IInv, pc = "done"
  PROVE  /\ IsMessage(msg) /\ msg.command \in EmittedCommands
         /\ todo = << >> /\ field > Len(Fields) /\ pc \in {"fields", "done"}
         /\ field > 2 /\ Holds(wire, 2, Item(4, offset))
         /\ \A p \in PostProcessors(msg.command) : Normal(p, msg)
<1>1. IsMessage(msg) /\ field = Len(Fields) + 1 /\ todo = << >>
  BY DEF IInv, MessageOK, CountersOK
<1>2. msg.command \in EmittedCommands /\ Len(Fields) \in Nat /\ Len(Fields) >= 2
  BY <1>1, FieldsCounted DEF Fields
<1>3. \A p \in PostProcessors(msg.command) : Normal(p, msg)
  BY DEF IInv, MessageOK
<1>4. field > 2 /\ field > Len(Fields)
  BY <1>1, <1>2
<1>5. Holds(wire, 2, Item(4, offset))
  BY <1>4 DEF IInv, HeaderLayout, Marshalling
<1> QED
  BY <1>1, <1>2, <1>3, <1>4, <1>5

\* The tag and the code of the header are those of the command.
LEMMA TagIs ==
  ASSUME NEW m, IsMessage(m), \A p \in PostProcessors(m.command) : Normal(p, m)
  PROVE  /\ m.header.command_code = m.command
         /\ m.header.tag = IF m.command \in SessionCommands THEN "SESSIONS"
                           ELSE "NO_SESSIONS"
<1>1. m.command \in EmittedCommands
  BY MessageFits
<1>2. m.command \in PostProcessors(m.command)
  BY DEF PostProcessors
<1>3. Normal(m.command, m)
  BY <1>2
<1>4. CASE m.command \in SessionCommands
  BY <1>3, <1>4 DEF Normal, HeaderNormal
<1>5. CASE m.command \notin SessionCommands
  <2>1. m.command \in PlainCommands
    BY <1>1, <1>5 DEF EmittedCommands
  <2> QED
    BY <1>3, <1>5, <2>1 DEF Normal, HeaderNormal
<1> QED
  BY <1>4, <1>5

\* The size of the area reads back, and the area ends with its last entry.
LEMMA AreaReadsBack ==
  ASSUME IInv, pc = "done", msg.command \in SessionCommands
  PROVE  /\ auth_size_pos = 14
         /\ ReadAt(wire, 14, 4) = EntriesEnd - 18
         /\ EntriesEnd - 18 \in Nat /\ EntriesEnd \in Nat
         /\ EntriesEnd <= offset
         /\ offset \in Nat
         /\ Len(starts) = Len(msg.sessions) /\ Len(starts) \in Nat
         /\ \A k \in 1..Len(starts) :
              /\ starts[k] \in Nat
              /\ k = 1 => starts[k] = 18
              /\ k > 1 => starts[k] = EndOf(k - 1)
              /\ ReadAt(wire, starts[k], 4) = msg.sessions[k].session_handle
              /\ EntryEnd(wire, starts[k]) = EndOf(k)
<1>1. /\ IsMessage(msg) /\ todo = << >> /\ field > Len(Fields) /\ pc \in {"fields", "done"}
  BY Done
<1>2. /\ auth_size_pos = 14
      /\ Len(starts) = Len(msg.sessions)
      /\ Chained(Len(starts))
      /\ \A k \in 1..Len(starts) : WrittenIn(wire, EntryItems(k), 6, starts[k])
      /\ Holds(wire, 14, Item(4, EntriesEnd - 18))
      /\ EntriesEnd <= offset /\ EntriesEnd \in Nat /\ EntriesEnd >= 18
      /\ \A k \in 1..Len(starts) : starts[k] \in Nat
      /\ offset \in Nat
  BY <1>1, Finished
<1>3. msg.sessions \in Seq(Sessions) /\ Len(starts) \in Nat
  BY <1>1, <1>2, AreaIs
<1>4. ReadAt(wire, 14, 4) = EntriesEnd - 18 /\ EntriesEnd - 18 \in Nat
  BY <1>2, HeldIsRead
<1>5. ASSUME NEW k \in 1..Len(starts)
      PROVE  /\ starts[k] \in Nat
             /\ k = 1 => starts[k] = 18
             /\ k > 1 => starts[k] = EndOf(k - 1)
             /\ ReadAt(wire, starts[k], 4) = msg.sessions[k].session_handle
             /\ EntryEnd(wire, starts[k]) = EndOf(k)
  <2>1. PICK s \in Sessions : s = msg.sessions[k]
    BY <1>2, <1>3
  <2>2. PICK at \in Nat : at = starts[k]
    BY <1>2
  <2>3. WrittenIn(wire, SessionItems(s), 6, at)
    BY <1>2, <2>1, <2>2 DEF EntryItems
  <2>4. /\ ReadAt(wire, at, 4) = s.session_handle
        /\ EntryEnd(wire, at) = at + Before(SessionItems(s), 6)
    BY <2>3, EntryReadsBack
  <2>5. EndOf(k) = at + Before(SessionItems(s), 6)
    BY <2>1, <2>2 DEF EndOf, EntryItems
  <2>6. /\ k = 1 => starts[k] = 18
        /\ k > 1 => starts[k] = EndOf(k - 1)
    BY <1>2 DEF Chained
  <2> QED
    BY <2>1, <2>2, <2>4, <2>5, <2>6
<1> QED
  BY <1>2, <1>3, <1>4, <1>5

LEMMA HeaderReadsBack ==
  ASSUME IInv, pc = "done"
  PROVE  HeaderAgrees
<1>1. /\ IsMessage(msg) /\ todo = << >> /\ field > Len(Fields) /\ pc \in {"fields", "done"}
      /\ Holds(wire, 2, Item(4, offset))
      /\ \A p \in PostProcessors(msg.command) : Normal(p, msg)
  BY Done
<1>2. /\ Holds(wire, 0, Item(2, msg.header.tag))
      /\ Holds(wire, 6, Item(4, msg.header.command_code))
  BY <1>1, Finished
<1>3. /\ ReadAt(wire, 2, 4) = offset
      /\ ReadAt(wire, 0, 2) = msg.header.tag
      /\ ReadAt(wire, 6, 4) = msg.header.command_code
  BY <1>1, <1>2, HeldIsRead
<1>4. /\ msg.header.command_code = msg.command
      /\ msg.header.tag = IF msg.command \in SessionCommands THEN "SESSIONS"
                          ELSE "NO_SESSIONS"
  BY <1>1, TagIs
<1> QED
  BY <1>3, <1>4 DEF HeaderAgrees

LEMMA AreaIsFound ==
  ASSUME IInv, pc = "done", msg.command \in SessionCommands
  PROVE  AreaFound
<1>1. SUFFICES ASSUME msg.command \in TrackedCommands
               PROVE  /\ AuthSizeOff = auth_size_pos
                      /\ ReadAt(wire, AuthSizeOff, 4) \in Nat
                      /\ AuthSizeOff + 4 + ReadAt(wire, AuthSizeOff, 4) <= offset
  BY DEF AreaFound
<1>2. HandleCount[msg.command] = 1
  BY <1>1 DEF HandleCount, SessionCommands
<1>3. AuthSizeOff = 14
  BY <1>2 DEF AuthSizeOff
<1>4. /\ auth_size_pos = 14 /\ ReadAt(wire, 14, 4) = EntriesEnd - 18
      /\ EntriesEnd - 18 \in Nat /\ EntriesEnd \in Nat /\ EntriesEnd <= offset /\ offset \in Nat
  BY AreaReadsBack
<1> QED
  BY <1>3, <1>4

LEMMA EntriesAreFilled ==
  ASSUME IInv, pc = "done", msg.command \in SessionCommands
  PROVE  EntriesFill
<1>1. /\ auth_size_pos = 14 /\ ReadAt(wire, 14, 4) = EntriesEnd - 18
      /\ EntriesEnd - 18 \in Nat /\ EntriesEnd \in Nat
      /\ Len(starts) = Len(msg.sessions) /\ Len(starts) \in Nat
      /\ \A k \in 1..Len(starts) :
           /\ starts[k] \in Nat
           /\ k = 1 => starts[k] = 18
           /\ k > 1 => starts[k] = EndOf(k - 1)
           /\ ReadAt(wire, starts[k], 4) = msg.sessions[k].session_handle
           /\ EntryEnd(wire, starts[k]) = EndOf(k)
  BY AreaReadsBack
<1>2. PICK n \in Nat : n = Len(msg.sessions) /\ n = Len(starts)
  BY <1>1
<1>3. PICK end : end = auth_size_pos + 4 + ReadAt(wire, auth_size_pos, 4)
  OBVIOUS
<1>4. end = EntriesEnd
  BY <1>1, <1>3
<1>5. n > 0 => starts[1] = auth_size_pos + 4
  <2>1. SUFFICES ASSUME n > 0 PROVE starts[1] = 18
    BY <1>1
  <2>2. 1 \in 1..Len(starts)
    BY <1>2, <2>1
  <2> QED
    BY <1>1, <2>2
<1>6. n = 0 => end = auth_size_pos + 4
  <2>1. SUFFICES ASSUME n = 0 PROVE end = 18
    BY <1>1
  <2>2. starts \in Seq(Nat) /\ Len(starts) = 0
    BY <1>2, <2>1 DEF IInv, CountersOK
  <2>3. starts = << >>
    BY <2>2
  <2> QED
    BY <1>4, <2>3 DEF EntriesEnd
<1>7. ASSUME NEW k \in 1..n
      PROVE  /\ ReadAt(wire, starts[k], 4) = msg.sessions[k].session_handle
             /\ EntryEnd(wire, starts[k]) = IF k < n THEN starts[k + 1] ELSE end
  <2>1. k \in 1..Len(starts) /\ k \in Nat /\ k >= 1
    BY <1>2
  <2>2. /\ ReadAt(wire, starts[k], 4) = msg.sessions[k].session_handle
        /\ EntryEnd(wire, starts[k]) = EndOf(k)
    BY <1>1, <2>1
  <2>3. CASE k < n
    <3>1. PICK j \in 1..Len(starts) : j = k + 1 /\ j > 1 /\ j - 1 = k
      BY <1>2, <2>1, <2>3
    <3>2. starts[j] = EndOf(k)
      BY <1>1, <3>1
    <3> QED
      BY <2>2, <2>3, <3>1, <3>2
  <2>4. CASE ~ (k < n)
    <3>1. k = Len(starts) /\ starts # << >>
      BY <1>2, <2>1, <2>4
    <3>2. EntriesEnd = EndOf(k)
      BY <3>1 DEF EntriesEnd
    <3> QED
      BY <1>4, <2>2, <2>4, <3>2
  <2> QED
    BY <2>3, <2>4
<1> QED
  BY <1>2, <1>3, <1>5, <1>6, <1>7 DEF EntriesFill

-----------------------------------------------------------------------------
(* What follows from the invariant.                                        *)

\* The variables have their types, and every value in the buffer ends before the
\* offset, which never passes the size of the buffer (proto_conversion.cc, the
\* calls of Tss2_MU_*_Marshal and the memcpy behind a check of the room left).
THEOREM TypeCorrectness == Spec => []TypeOK
<1>1. IInv => TypeOK
  BY DEF IInv, CountersOK, BufferOK, MessageOK, TypeOK
<1> QED
  BY <1>1, Invariance, PTL

\* A command that leaves the marshaller reads back as the session layer and the
\* TPM read it: its header has the size of the buffer, the command's code and the
\* tag that says whether there is an authorization area; FindAuthArea finds the
\* area, and its entries, however many and however long, are one behind the other
\* up to the end that authorizationSize says.
THEOREM ReadsBack == Spec => []CommandReadsBack
<1>1. IInv => CommandReadsBack
  BY HeaderReadsBack, AreaIsFound, EntriesAreFilled DEF CommandReadsBack
<1> QED
  BY <1>1, Invariance, PTL

\* A command is skipped for its size only: every type that the schema uses is
\* known to MarshalMessageField or MarshalCommandField.
THEOREM SizeOnly == Spec => []SkippedForSizeOnly
<1>1. IInv => SkippedForSizeOnly
  BY DEF IInv
<1> QED
  BY <1>1, Invariance, PTL

\* Post-processing is done once and for all: whatever message the mutator comes
\* up with, and in whatever order the two post-processors of Load run, running one
\* of them again changes nothing (proto_postprocessors.cc).
THEOREM Fixpoint == Spec => []PostProcessedIsFixpoint
<1>1. IInv => PostProcessedIsFixpoint
  <2>1. SUFFICES ASSUME IInv, pc \in {"fields", "sessions", "done", "failed"},
                        NEW p \in PostProcessors(msg.command)
                 PROVE  PostProcess(p, msg) = msg
    BY DEF PostProcessedIsFixpoint
  <2>2. IsMessage(msg) /\ Normal(p, msg)
    BY <2>1 DEF IInv, MessageOK
  <2>3. Normalizes(p, msg, PostProcess(p, msg))
    BY <2>2, PostProcessed
  <2> QED
    BY <2>2, <2>3 DEF Normalizes
<1> QED
  BY <1>1, Invariance, PTL

-----------------------------------------------------------------------------
(* What the normalised fields read back as.                                *)

\* Three commands have a public area.
LEMMA PublicCommands ==
  ASSUME NEW m, IsMessage(m), "in_public" \in DOMAIN m
  PROVE  m.command \in {"Create", "CreatePrimary", "Load"}
<1>1. m.command \in EmittedCommands /\ DOMAIN Schema[m.command] = 1..Len(Schema[m.command])
  BY MessageFits
<1>2. "in_public" # "command" /\ DOMAIN m = SchemaNames(m.command) \cup {"command"}
  BY DEF IsMessage
<1>3. PICK i \in 1..Len(Schema[m.command]) : Schema[m.command][i].name = "in_public"
  BY <1>1, <1>2 DEF SchemaNames
<1>4. ASSUME m.command = "GetRandom" PROVE FALSE
  <2>1. Len(Schema["GetRandom"]) = 2
    BY SchemaTable
  <2>2. i = 1 \/ i = 2
    BY <1>4, <2>1
  <2> QED
    BY <1>3, <1>4, <2>2, SchemaTable DEF Field
<1>5. ASSUME m.command = "Clear" PROVE FALSE
  <2>1. Len(Schema["Clear"]) = 3
    BY SchemaTable
  <2>2. i = 1 \/ i = 2 \/ i = 3
    BY <1>5, <2>1
  <2> QED
    BY <1>3, <1>5, <2>2, SchemaTable DEF Field
<1>6. ASSUME m.command = "MakeCredential" PROVE FALSE
  <2>1. Len(Schema["MakeCredential"]) = 4
    BY SchemaTable
  <2>2. i = 1 \/ i = 2 \/ i = 3 \/ i = 4
    BY <1>6, <2>1
  <2> QED
    BY <1>3, <1>6, <2>2, SchemaTable DEF Field
<1>7. ASSUME m.command = "NV_DefineSpace" PROVE FALSE
  <2>1. Len(Schema["NV_DefineSpace"]) = 5
    BY SchemaTable
  <2>2. i = 1 \/ i = 2 \/ i = 3 \/ i = 4 \/ i = 5
    BY <1>7, <2>1
  <2> QED
    BY <1>3, <1>7, <2>2, SchemaTable DEF Field
<1>8. ASSUME m.command = "PCR_Allocate" PROVE FALSE
  <2>1. Len(Schema["PCR_Allocate"]) = 4
    BY SchemaTable
  <2>2. i = 1 \/ i = 2 \/ i = 3 \/ i = 4
    BY <1>8, <2>1
  <2> QED
    BY <1>3, <1>8, <2>2, SchemaTable DEF Field
<1>9. ASSUME m.command = "PCR_Event" PROVE FALSE
  <2>1. Len(Schema["PCR_Event"]) = 4
    BY SchemaTable
  <2>2. i = 1 \/ i = 2 \/ i = 3 \/ i = 4
    BY <1>9, <2>1
  <2> QED
    BY <1>3, <1>9, <2>2, SchemaTable DEF Field
<1>10. ASSUME m.command = "PCR_Read" PROVE FALSE
  <2>1. Len(Schema["PCR_Read"]) = 2
    BY SchemaTable
  <2>2. i = 1 \/ i = 2
    BY <1>10, <2>1
  <2> QED
    BY <1>3, <1>10, <2>2, SchemaTable DEF Field
<1>11. ASSUME m.command = "PCR_SetAuthPolicy" PROVE FALSE
  <2>1. Len(Schema["PCR_SetAuthPolicy"]) = 6
    BY SchemaTable
  <2>2. i = 1 \/ i = 2 \/ i = 3 \/ i = 4 \/ i = 5 \/ i = 6
    BY <1>11, <2>1
  <2> QED
    BY <1>3, <1>11, <2>2, SchemaTable DEF Field
<1>12. ASSUME m.command = "RSA_Decrypt" PROVE FALSE
  <2>1. Len(Schema["RSA_Decrypt"]) = 6
    BY SchemaTable
  <2>2. i = 1 \/ i = 2 \/ i = 3 \/ i = 4 \/ i = 5 \/ i = 6
    BY <1>12, <2>1
  <2> QED
    BY <1>3, <1>12, <2>2, SchemaTable DEF Field
<1>13. ASSUME m.command = "RSA_Encrypt" PROVE FALSE
  <2>1. Len(Schema["RSA_Encrypt"]) = 5
    BY SchemaTable
  <2>2. i = 1 \/ i = 2 \/ i = 3 \/ i = 4 \/ i = 5
    BY <1>13, <2>1
  <2> QED
    BY <1>3, <1>13, <2>2, SchemaTable DEF Field
<1>14. ASSUME m.command = "SetPrimaryPolicy" PROVE FALSE
  <2>1. Len(Schema["SetPrimaryPolicy"]) = 5
    BY SchemaTable
  <2>2. i = 1 \/ i = 2 \/ i = 3 \/ i = 4 \/ i = 5
    BY <1>14, <2>1
  <2> QED
    BY <1>3, <1>14, <2>2, SchemaTable DEF Field
<1>15. ASSUME m.command = "StartAuthSession" PROVE FALSE
  <2>1. Len(Schema["StartAuthSession"]) = 8
    BY SchemaTable
  <2>2. i = 1 \/ i = 2 \/ i = 3 \/ i = 4 \/ i = 5 \/ i = 6 \/ i = 7 \/ i = 8
    BY <1>15, <2>1
  <2> QED
    BY <1>3, <1>15, <2>2, SchemaTable DEF Field
<1> QED
  BY <1>1, <1>4, <1>5, <1>6, <1>7, <1>8, <1>9, <1>10, <1>11, <1>12, <1>13, <1>14, <1>15
  DEF EmittedCommands, SessionCommands, PlainCommands

\* A public area that is normal has the type that its parameters say.
LEMMA PublicAgrees ==
  ASSUME NEW p, PublicNormal(p)
  PROVE  MarshalledType(p) = p.type
<1>1. /\ p.has = "area" /\ p.type = NormalizedType(p.parms)
      /\ p.parms.kind = "rsa" \/ p.parms.kind = "keyedhash"
  BY DEF PublicNormal, ParmsNormal
<1>2. CASE p.parms.kind = "rsa"
  BY <1>1, <1>2 DEF MarshalledType, NormalizedType
<1>3. CASE p.parms.kind = "keyedhash"
  BY <1>1, <1>3 DEF MarshalledType, NormalizedType
<1> QED
  BY <1>1, <1>2, <1>3

LEMMA PublicTypesAgree ==
  ASSUME IInv, pc = "done"
  PROVE  PublicTypeAgrees
<1>1. IsMessage(msg) /\ \A p \in PostProcessors(msg.command) : Normal(p, msg)
  BY Done
<1>2. SUFFICES ASSUME "in_public" \in DOMAIN msg
               PROVE  \/ msg.in_public.has = "absent"
                      \/ MarshalledType(msg.in_public) = msg.in_public.type
  BY DEF PublicTypeAgrees
<1>3. msg.command \in {"Create", "CreatePrimary", "Load"}
  BY <1>1, <1>2, PublicCommands
<1>4. CASE msg.command \in {"Create", "CreatePrimary"}
  <2>1. msg.command \in PostProcessors(msg.command)
    BY DEF PostProcessors
  <2>2. Normal(msg.command, msg)
    BY <1>1, <2>1
  <2>3. PublicNormal(msg.in_public)
    BY <1>4, <2>2 DEF Normal
  <2> QED
    BY <2>3, PublicAgrees
<1>5. CASE msg.command = "Load"
  <2>1. "InPublic" \in PostProcessors(msg.command)
    BY <1>5 DEF PostProcessors
  <2>2. Normal("InPublic", msg)
    BY <1>1, <2>1
  <2>3. msg.in_public.has = "absent" \/ PublicNormal(msg.in_public)
    BY <2>2 DEF Normal
  <2> QED
    BY <2>3, PublicAgrees
<1> QED
  BY <1>3, <1>4, <1>5

\* The first value of a list is where the list begins.
LEMMA FirstHeld ==
  ASSUME NEW list, NEW w, NEW n \in Nat, n >= 1, NEW base \in Nat, list[1].width > 0,
         WrittenIn(w, list, n, base)
  PROVE  Holds(w, base, list[1])
<1>1. 1 \in 1..n /\ 1 - 1 = 0
  OBVIOUS
<1>2. Holds(w, base + Before(list, 1 - 1), list[1])
  BY <1>1 DEF WrittenIn
<1>3. base + Before(list, 1 - 1) = base
  <2>1. Before(list, 0) = 0
    BY DEF Before
  <2>2. base + 0 = base
    OBVIOUS
  <2> QED
    BY <1>1, <2>1, <2>2
<1> QED
  BY <1>2, <1>3, Zenon

LEMMA PolicyReadsBack ==
  ASSUME IInv, pc = "done"
  PROVE  PolicyFitsHash
<1>1. SUFFICES ASSUME msg.command = "SetPrimaryPolicy"
               PROVE  PolicyFitsHash
  BY DEF PolicyFitsHash
<1>2. IsMessage(msg) /\ todo = << >> /\ field > Len(Fields) /\ pc \in {"fields", "done"}
  BY Done
<1>3. msg.command \in SessionCommands
  BY <1>1 DEF SessionCommands
<1>4. PICK policy \in Nat : policy = auth_size_pos + 4 + ReadAt(wire, auth_size_pos, 4)
                            /\ policy = EntriesEnd
  <2>1. /\ auth_size_pos = 14 /\ ReadAt(wire, 14, 4) = EntriesEnd - 18 /\ EntriesEnd \in Nat
    BY <1>3, AreaReadsBack
  <2>2. auth_size_pos + 4 + ReadAt(wire, auth_size_pos, 4) = EntriesEnd
    BY <2>1
  <2> QED
    BY <2>1, <2>2
<1>5. /\ Normal("SetPrimaryPolicy", msg)
      /\ WrittenIn(wire, FieldItems(4), 2, policy)
      /\ WrittenIn(wire, FieldItems(5), 1, policy + 2 + msg.auth_policy)
  BY <1>1, <1>2, <1>4, Finished
<1>6. /\ msg.hash_alg \in DOMAIN PolicySize
      /\ msg.auth_policy = PolicySize[msg.hash_alg] /\ msg.auth_policy \in Nat
      /\ FieldItems(4)[1] = Item(2, msg.auth_policy)
      /\ FieldItems(5)[1] = Item(2, msg.hash_alg)
  BY <1>1, <1>2, <1>5, PolicyIs
<1>7. Holds(wire, policy, Item(2, msg.auth_policy))
  <2>1. FieldItems(4)[1].width > 0
    BY <1>6, ItemIs
  <2> QED
    BY <1>5, <1>6, <2>1, FirstHeld
<1>8. PICK hash \in Nat : hash = policy + 2 + msg.auth_policy
  BY <1>6
<1>9. Holds(wire, hash, Item(2, msg.hash_alg))
  <2>1. FieldItems(5)[1].width > 0
    BY <1>6, ItemIs
  <2>2. WrittenIn(wire, FieldItems(5), 1, hash)
    BY <1>5, <1>8, Zenon
  <2> QED
    BY <1>6, <2>1, <2>2, FirstHeld
<1>10. SkipTPM2B(wire, policy) = hash
  BY <1>6, <1>7, <1>8, HeldIsSkipped
<1>11. ReadAt(wire, policy, 2) = msg.auth_policy /\ ReadAt(wire, hash, 2) = msg.hash_alg
  BY <1>7, <1>9, HeldIsRead
<1> QED
  BY <1>4, <1>6, <1>10, <1>11, Zenon DEF PolicyFitsHash

\* What MarshalTPM2BPublic derives from the parameters is the type that
\* NormalizeRsaOrKeyedHashPublic stored (proto_normalization.cc:51-62), and the
\* policy of SetPrimaryPolicy has the size of the hash that follows it on the wire.
THEOREM NormalisedFits == Spec => []NormalisedFitsWire
<1>1. IInv => NormalisedFitsWire
  BY PublicTypesAgree, PolicyReadsBack DEF NormalisedFitsWire
<1> QED
  BY <1>1, Invariance, PTL

LEMMA StartReadsBack ==
  ASSUME IInv, pc = "done", msg.command = "StartAuthSession"
  PROVE  LET salt == SkipTPM2B(wire, 18)
             type == SkipTPM2B(wire, salt)
         IN /\ ReadAt(wire, 10, 4) = msg.tpm_key
            /\ ReadAt(wire, 14, 4) = msg.bind
            /\ ReadAt(wire, salt, 2) = Clamp(msg.encrypted_salt, kData)
            /\ ReadAt(wire, type, 1) = msg.session_type
            /\ ReadAt(wire, offset - 2, 2) = msg.auth_hash
<1>1. IsMessage(msg) /\ todo = << >> /\ field > Len(Fields) /\ pc \in {"fields", "done"}
  BY Done
<1>2. /\ \A i \in 2..8 :
           WrittenIn(wire, FieldItems(i), Len(FieldItems(i)), StartBase(i))
      /\ offset = StartBase(8) + 2
  BY <1>1, Finished
<1>3. PICK n \in Nat, t \in Nat :
        n = Clamp(msg.nonce, kData) /\ t = Clamp(msg.encrypted_salt, kData)
  BY <1>1, StartIs
<1>4. /\ FieldItems(2)[1] = Item(4, msg.tpm_key)
      /\ FieldItems(3)[1] = Item(4, msg.bind)
      /\ FieldItems(4)[1] = Item(2, n)
      /\ FieldItems(5)[1] = Item(2, t)
      /\ FieldItems(6)[1] = Item(1, msg.session_type)
      /\ FieldItems(8)[1] = Item(2, msg.auth_hash)
  BY <1>1, <1>3, StartIs
<1>5. ASSUME NEW i \in 2..8, FieldItems(i)[1].width > 0
      PROVE  Holds(wire, StartBase(i), FieldItems(i)[1])
  <2>1. Len(FieldItems(i)) \in 1..2 /\ StartBase(i) \in Nat
    BY <1>1, StartIs
  <2>2. PICK k \in 1..2 : k = Len(FieldItems(i))
    BY <2>1
  <2>3. k \in Nat /\ k >= 1 /\ WrittenIn(wire, FieldItems(i), k, StartBase(i))
    BY <1>2, <2>2
  <2> QED
    BY <1>5, <2>1, <2>3, FirstHeld
<1>6. /\ FieldItems(2)[1].width > 0 /\ FieldItems(3)[1].width > 0
      /\ FieldItems(4)[1].width > 0 /\ FieldItems(5)[1].width > 0
      /\ FieldItems(6)[1].width > 0 /\ FieldItems(8)[1].width > 0
  BY <1>4, ItemIs
<1>7. 2 \in 2..8 /\ 3 \in 2..8 /\ 4 \in 2..8 /\ 5 \in 2..8 /\ 6 \in 2..8 /\ 8 \in 2..8
  OBVIOUS
<1>8. /\ Holds(wire, StartBase(2), Item(4, msg.tpm_key))
      /\ Holds(wire, StartBase(3), Item(4, msg.bind))
      /\ Holds(wire, StartBase(4), Item(2, n))
      /\ Holds(wire, StartBase(5), Item(2, t))
      /\ Holds(wire, StartBase(6), Item(1, msg.session_type))
      /\ Holds(wire, StartBase(8), Item(2, msg.auth_hash))
  BY <1>4, <1>5, <1>6, <1>7
<1>9. /\ StartBase(2) = 10 /\ StartBase(3) = 14 /\ StartBase(4) = 18
      /\ StartBase(5) = 18 + 2 + n /\ StartBase(6) = 18 + 2 + n + 2 + t
      /\ offset - 2 = StartBase(8) /\ StartBase(8) \in Nat
  <2>1. NonceWidth = 2 + n /\ SaltWidth = 2 + t
    BY <1>3 DEF NonceWidth, SaltWidth
  <2>2. StartBase(8) \in Nat
    BY <1>1, <1>7, StartIs
  <2>3. /\ StartBase(2) = 10 /\ StartBase(3) = 14 /\ StartBase(4) = 18
        /\ StartBase(5) = 18 + NonceWidth /\ StartBase(6) = 18 + NonceWidth + SaltWidth
    BY DEF StartBase
  <2>4. PICK m \in Nat, s \in Nat : m = NonceWidth /\ s = SaltWidth
    BY <2>1
  <2>5. m = 2 + n /\ s = 2 + t /\ StartBase(5) = 18 + m /\ StartBase(6) = 18 + m + s
    BY <2>1, <2>3, <2>4
  <2>6. offset - 2 = StartBase(8)
    BY <1>2, <2>2
  <2> QED
    BY <2>2, <2>3, <2>5, <2>6
<1>10. PICK salt \in Nat, type \in Nat, hash \in Nat :
         /\ salt = 18 + 2 + n /\ type = salt + 2 + t /\ hash = offset - 2
         /\ salt = StartBase(5) /\ type = StartBase(6) /\ hash = StartBase(8)
  BY <1>9
<1>11. /\ Holds(wire, 10, Item(4, msg.tpm_key))
       /\ Holds(wire, 14, Item(4, msg.bind))
       /\ Holds(wire, 18, Item(2, n))
       /\ Holds(wire, salt, Item(2, t))
       /\ Holds(wire, type, Item(1, msg.session_type))
       /\ Holds(wire, hash, Item(2, msg.auth_hash))
  BY <1>8, <1>9, <1>10, Zenon
<1>12. SkipTPM2B(wire, 18) = salt /\ SkipTPM2B(wire, salt) = type
  BY <1>10, <1>11, HeldIsSkipped
<1>13. /\ ReadAt(wire, 10, 4) = msg.tpm_key
       /\ ReadAt(wire, 14, 4) = msg.bind
       /\ ReadAt(wire, salt, 2) = t
       /\ ReadAt(wire, type, 1) = msg.session_type
       /\ ReadAt(wire, hash, 2) = msg.auth_hash
  BY <1>11, HeldIsRead
<1> QED
  BY <1>3, <1>10, <1>12, <1>13, Zenon

\* CaptureStartAuthSessionCommand (session_auth.cc:260) finds every parameter of a
\* TPM2_StartAuthSession where the marshaller wrote it: the handles, the salt
\* behind the nonce, the session type behind the salt, and the hash in the last two
\* bytes, with a symmetric algorithm or without.
THEOREM StartCaptured == Spec => []StartParametersCaptured
<1>1. IInv => StartParametersCaptured
  BY StartReadsBack DEF StartParametersCaptured
<1> QED
  BY <1>1, Invariance, PTL

==============================================================================
