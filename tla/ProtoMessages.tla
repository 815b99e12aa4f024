---------------------------- MODULE ProtoMessages ----------------------------
(***************************************************************************)
(* The protobuf messages of the structure-aware fuzzer                     *)
(* (include/proto) and the post-processors that libprotobuf-mutator runs   *)
(* on them (src/harness/proto_postprocessors.cc, proto_normalization.cc).  *)
(*                                                                         *)
(* A message is a record with one component for each field of its schema   *)
(* that is read, and the command it is for.  A bytes field is its length,  *)
(* an enumerator its name, and the value 0 of an enum or handle is Unset.  *)
(* The size fields of the TPM2B messages are left out: nothing reads them. *)
(***************************************************************************)
EXTENDS Integers, Sequences, CommandAttributes

CONSTANT Names   \* the enumerators, and the handles

ASSUME NamesAssumption ==
  EmittedCommands \cup
    {"UNSPECIFIED", "SESSIONS", "NO_SESSIONS", "PW", "OWNER", "LOCKOUT",
     "FirstTransient", "NULL", "RSA", "KEYEDHASH", "AES", "SHA1", "SHA256",
     "SHA384", "child", "storage"} \subseteq Names

Unset == "UNSPECIFIED"

\* The types of include/proto/tpm_types; an area that is "absent" or "empty" has
\* no public_area.
Headers == [tag : Names, command_size : Nat, command_code : Names]
Sessions ==
  [session_handle : Names, nonce : Nat, session_attributes : Nat, hmac : Nat]
Kinds == {"none", "rsa", "keyedhash"}
Parms ==
  [kind : Kinds, scheme : Names, symmetric : Names, symmetric_key_bits : Nat,
   key_bits : Nat]
Publics ==
  [has : {"absent", "empty", "area"}, type : Names, name_alg : Names,
   object_attributes : Names, auth_policy : Nat, parms : Parms,
   unique : [kind : Kinds, size : Nat]]

FieldType ==
  [TPMHeader |-> Headers, TPMSession |-> Seq(Sessions),
   uint32 |-> Names, TPMRH |-> Names, TPMALG |-> Names, TPMSE |-> Names,
   bytes_requested |-> Nat,
   TPM2BData |-> Nat, TPM2BDigest |-> Nat, TPM2BPrivate |-> Nat,
   TPM2BPublicKeyRSA |-> Nat, TPM2BEvent |-> Nat,
   TPM2BSensitiveCreate |-> [user_auth : Nat, data : Nat],
   TPM2BPublic |-> Publics,
   TPMLPCRSelection |-> Seq(Nat),
   TPMTSymDef |-> [algorithm : Names],
   TPMTRSADecrypt |-> [scheme : Names, hash_alg : Names],
   TPMNvPublic |-> [auth_policy : Nat]]

Field(n, t) == [name |-> n, type |-> t]

Plain(handle, type) == <<Field("header", "TPMHeader"), Field(handle, type)>>

Authorized(handle, type) ==
  Append(Plain(handle, type), Field("sessions", "TPMSession"))

CreationFields ==
  <<Field("in_sensitive", "TPM2BSensitiveCreate"),
    Field("in_public", "TPM2BPublic"),
    Field("outside_info", "TPM2BData"),
    Field("creation_pcr", "TPMLPCRSelection")>>

RsaFields ==
  <<Field("in_scheme", "TPMTRSADecrypt"), Field("label", "TPM2BData")>>

\* The fields of each command in descriptor order.
Schema ==
  [GetRandom |-> Plain("bytes_requested", "bytes_requested"),
   Clear |-> Authorized("auth_handle", "uint32"),
   Create |-> Authorized("parent_handle", "uint32") \o CreationFields,
   CreatePrimary |-> Authorized("hierarchy", "TPMRH") \o CreationFields,
   Load |-> Authorized("parent_handle", "uint32")
              \o <<Field("in_private", "TPM2BPrivate"),
                   Field("in_public", "TPM2BPublic")>>,
   MakeCredential |-> Plain("handle", "uint32")
                        \o <<Field("credential", "TPM2BData"),
                             Field("object_name", "TPM2BData")>>,
   NV_DefineSpace |-> Authorized("auth_handle", "uint32")
                        \o <<Field("auth", "TPM2BData"),
                             Field("nv_public", "TPMNvPublic")>>,
   PCR_Allocate |-> Append(Authorized("auth_handle", "TPMRH"),
                           Field("pcr_allocation", "TPMLPCRSelection")),
   PCR_Event |-> Append(Authorized("pcr_handle", "uint32"),
                        Field("eventData", "TPM2BEvent")),
   PCR_Read |-> Plain("pcrSelection", "TPMLPCRSelection"),
   PCR_SetAuthPolicy |-> Authorized("auth_handle", "uint32")
                           \o <<Field("authPolicy", "TPM2BDigest"),
                                Field("hashAlg", "TPMALG"),
                                Field("pcrNum", "uint32")>>,
   RSA_Decrypt |-> Append(Authorized("key_handle", "uint32"),
                          Field("cipher_text", "TPM2BPublicKeyRSA"))
                     \o RsaFields,
   RSA_Encrypt |-> Append(Plain("key_handle", "uint32"),
                          Field("message", "TPM2BPublicKeyRSA"))
                     \o RsaFields,
   SetPrimaryPolicy |-> Authorized("auth_handle", "TPMRH")
                          \o <<Field("auth_policy", "TPM2BDigest"),
                               Field("hash_alg", "TPMALG")>>,
   StartAuthSession |-> Plain("tpm_key", "TPMRH")
                          \o <<Field("bind", "TPMRH"),
                               Field("nonce", "TPM2BData"),
                               Field("encrypted_salt", "TPM2BData"),
                               Field("session_type", "TPMSE"),
                               Field("symmetric", "TPMTSymDef"),
                               Field("auth_hash", "TPMALG")>>]

\* The emitted commands are those of the schema, and the authorized ones those
\* with a sessions field.
ASSUME SchemaAssumption ==
  /\ DOMAIN Schema = EmittedCommands
  /\ \A cc \in EmittedCommands :
       cc \in SessionCommands <=>
         \E i \in DOMAIN Schema[cc] : Schema[cc][i].type = "TPMSession"

SchemaNames(cc) == {Schema[cc][i].name : i \in DOMAIN Schema[cc]}

\* A message is a function on the names of its fields.
IsMessage(m) ==
  /\ m = [n \in DOMAIN m |-> m[n]]
  /\ m.command \in EmittedCommands
  /\ DOMAIN m = SchemaNames(m.command) \cup {"command"}
  /\ \A i \in DOMAIN Schema[m.command] :
       LET f == Schema[m.command][i] IN m[f.name] \in FieldType[f.type]

-----------------------------------------------------------------------------
(* Normalisation.                                                          *)

Or(value, default) == IF value = Unset THEN default ELSE value
OrNumber(value, default) == IF value = 0 THEN default ELSE value

WithHeader(m, tag) ==
  [m EXCEPT !.header.tag = tag, !.header.command_code = m.command]

SetPasswordSession ==
  [session_handle |-> "PW", nonce |-> 0, session_attributes |-> 0, hmac |-> 0]

\* Variant: the sessions are not looked at before one is added.
WithOneMoreSession(m) ==
  [m EXCEPT !.sessions = Append(m.sessions, SetPasswordSession)]

WithSession(m) ==
  IF m.sessions = << >> THEN [m EXCEPT !.sessions = <<SetPasswordSession>>]
  ELSE m

\* Variant: the type is RSA unless the message has keyed hash parameters.
NormalizedTypeDefaultsToRsa(parms) ==
  IF parms.kind = "keyedhash" THEN "KEYEDHASH" ELSE "RSA"

NormalizedType(parms) == IF parms.kind = "rsa" THEN "RSA" ELSE "KEYEDHASH"

\* The parameters are a keyed hash's unless they are RSA's.
NormalizedParms(parms) ==
  LET rsa == parms.kind = "rsa" IN
  [parms EXCEPT
     !.kind = IF rsa THEN "rsa" ELSE "keyedhash",
     !.scheme = Or(@, "NULL"),
     !.symmetric = IF rsa THEN Or(@, "AES") ELSE @,
     !.symmetric_key_bits = IF rsa THEN OrNumber(@, 128) ELSE @,
     !.key_bits = IF rsa THEN OrNumber(@, 2048) ELSE @]

NormalizeRsaOrKeyedHashPublic(p, attributes) ==
  [p EXCEPT
     !.has = "area",
     !.type = NormalizedType(p.parms),
     !.parms = NormalizedParms(@),
     !.name_alg = Or(@, "SHA256"),
     !.object_attributes = Or(@, attributes)]

NormalizeInPublic(m) ==
  IF m.in_public.has = "absent" THEN m
  ELSE [m EXCEPT !.in_public = NormalizeRsaOrKeyedHashPublic(@, "child")]

NormalizeLoad(m) ==
  WithSession([WithHeader(m, "SESSIONS") EXCEPT
                 !.parent_handle = Or(@, "FirstTransient")])

NormalizeCreatePrimary(m) ==
  [WithHeader(m, "SESSIONS") EXCEPT
     !.hierarchy = Or(@, "OWNER"),
     !.in_public = NormalizeRsaOrKeyedHashPublic(@, "storage")]

NormalizeCreate(m) ==
  [WithHeader(m, "SESSIONS") EXCEPT
     !.parent_handle = Or(@, "FirstTransient"),
     !.in_public = NormalizeRsaOrKeyedHashPublic(@, "child")]

NormalizeClear(m) ==
  WithSession([WithHeader(m, "SESSIONS") EXCEPT !.auth_handle = Or(@, "LOCKOUT")])

\* The digest sizes of the hash algorithms with a case of their own.
PolicySize == [SHA1 |-> 20, SHA256 |-> 32, SHA384 |-> 48, NULL |-> 0]

NormalizeSetPrimaryPolicy(m) ==
  LET hash == IF m.hash_alg \in DOMAIN PolicySize THEN m.hash_alg ELSE "SHA256"
  IN WithSession([WithHeader(m, "SESSIONS") EXCEPT
       !.auth_handle = Or(@, "OWNER"),
       !.hash_alg = hash,
       !.auth_policy = PolicySize[hash]])

NormalizeStartAuthSession(m) ==
  [WithHeader(m, "NO_SESSIONS") EXCEPT
     !.tpm_key = Or(@, "NULL"),
     !.bind = Or(@, "NULL"),
     !.auth_hash = Or(@, "SHA256"),
     !.symmetric.algorithm = Or(@, "NULL"),
     !.nonce = OrNumber(@, 16)]

NormalizeGetRandom(m) ==
  [WithHeader(m, "NO_SESSIONS") EXCEPT
     !.header.command_size = 12,
     !.bytes_requested = OrNumber(@, 1)]

\* Commands whose post-processor sets the header only.
HeaderOnlySessions ==
  {"PCR_Allocate", "PCR_Event", "NV_DefineSpace", "PCR_SetAuthPolicy",
   "RSA_Decrypt"}
HeaderOnlyNoSessions == {"RSA_Encrypt", "MakeCredential", "PCR_Read"}

\* The post-processors registered for a command; the order is the mutator's.
PostProcessors(cc) ==
  IF cc = "Load" THEN {"Load", "InPublic"} ELSE {cc}

PostProcess(p, m) ==
  CASE p = "Clear" -> NormalizeClear(m)
    [] p = "Load" -> NormalizeLoad(m)
    [] p = "InPublic" -> NormalizeInPublic(m)
    [] p = "SetPrimaryPolicy" -> NormalizeSetPrimaryPolicy(m)
    [] p = "GetRandom" -> NormalizeGetRandom(m)
    [] p = "StartAuthSession" -> NormalizeStartAuthSession(m)
    [] p = "CreatePrimary" -> NormalizeCreatePrimary(m)
    [] p = "Create" -> NormalizeCreate(m)
    [] p \in HeaderOnlySessions -> WithHeader(m, "SESSIONS")
    [] p \in HeaderOnlyNoSessions -> WithHeader(m, "NO_SESSIONS")
==============================================================================
