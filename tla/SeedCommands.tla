---------------------------- MODULE SeedCommands ----------------------------
(***************************************************************************)
(* The commands of the seed generator (tools/seed-generation): the bytes   *)
(* of each (tpm2_types.py, tpm2_commands.py), and the protobuf message     *)
(* that its to_proto makes, often by parsing those bytes again.            *)
(*                                                                         *)
(* A command is a record of its constructor's arguments.  Bytes are        *)
(* numbers; a handle, an algorithm or another enumerator is its name.      *)
(***************************************************************************)
EXTENDS ProtoMessages, TLC
LOCAL INSTANCE SequencesExt

\* The weights of the four bytes of a big-endian number.
Weights == <<16777216, 65536, 256, 1>>

Be(width, n) == [i \in 1..width |-> (n \div Weights[4 - width + i]) % 256]
Number(b) == FoldLeft(LAMBDA n, v : 256 * n + v, 0, b)
Slice(b, from, to) == SubSeq(b, from + 1, IF to < Len(b) THEN to ELSE Len(b))
Filled(n, v) == [i \in 1..n |-> v]

CommandCodes ==
  [NV_UndefineSpace |-> 290, Clear |-> 294, NV_DefineSpace |-> 298,
   PCR_Allocate |-> 299, PCR_SetAuthPolicy |-> 300,
   SetPrimaryPolicy |-> 302, CreatePrimary |-> 305, NV_SetBits |-> 309,
   NV_Extend |-> 310, NV_Write |-> 311, NV_WriteLock |-> 312,
   PCR_Event |-> 316, PCR_Reset |-> 317, IncrementalSelfTest |-> 322,
   SelfTest |-> 323, StirRandom |-> 326, NV_Read |-> 334,
   NV_ReadLock |-> 335, Create |-> 339, Load |-> 343,
   RSA_Decrypt |-> 345, Sign |-> 349, Unseal |-> 350,
   LoadExternal |-> 359, MakeCredential |-> 360, RSA_Encrypt |-> 372,
   StartAuthSession |-> 374, ECC_Parameters |-> 376,
   GetCapability |-> 378, GetRandom |-> 379, GetTestResult |-> 380,
   Hash |-> 381, PCR_Read |-> 382, ReadClock |-> 385,
   PCR_Extend |-> 386, TestParms |-> 394, Vendor_TCG_Test |-> 536870912]

\* The two bytes of a tag or an algorithm.
Algorithms ==
  [UNSPECIFIED |-> 0, NO_SESSIONS |-> 32769, SESSIONS |-> 32770,
   HASHCHECK |-> 32804, RSA |-> 1, SHA1 |-> 4, HMAC |-> 5, AES |-> 6,
   KEYEDHASH |-> 8, SHA256 |-> 11, SHA384 |-> 12, NULL |-> 16,
   RSASSA |-> 20, RSAES |-> 21, OAEP |-> 23, CFB |-> 67]

\* The four bytes of a handle, a PCR or a set of object attributes; the first
\* byte is apart because these do not fit into a signed number.
Handles ==
  [UNSPECIFIED |-> <<0, 0>>, PCR1 |-> <<0, 1>>, PCR11 |-> <<0, 11>>,
   PCR16 |-> <<0, 16>>, NV0 |-> <<1, 0>>, NV1 |-> <<1, 1>>, NV2 |-> <<1, 2>>,
   NV3 |-> <<1, 3>>, NV4 |-> <<1, 4>>, NV5 |-> <<1, 5>>,
   FirstHmacSession |-> <<2, 0>>, OWNER |-> <<64, 1>>, NULL |-> <<64, 7>>,
   PW |-> <<64, 9>>, LOCKOUT |-> <<64, 10>>, ENDORSEMENT |-> <<64, 11>>,
   PLATFORM |-> <<64, 12>>, FirstTransient |-> <<128, 0>>,
   SecondTransient |-> <<128, 1>>, storage |-> <<0, 197746>>,
   signing |-> <<0, 263282>>, x509signing |-> <<0, 787570>>,
   decrypting |-> <<0, 132210>>, encrypting |-> <<0, 131186>>,
   sealed |-> <<0, 1106>>, hmac_key |-> <<0, 328818>>, external |-> <<0, 66>>]

SessionTypes == [HMAC |-> 0, POLICY |-> 1, TRIAL |-> 3]

Spellable ==
  [w \in {1, 2, 4} |->
     CASE w = 1 -> DOMAIN SessionTypes
       [] w = 2 -> DOMAIN Algorithms
       [] w = 4 -> DOMAIN CommandCodes \cup DOMAIN Handles]

Spell(width, name) ==
  CASE width = 1 -> Be(1, SessionTypes[name])
    [] width = 2 -> Be(2, Algorithms[name])
    [] width = 4 /\ name \in DOMAIN CommandCodes -> Be(4, CommandCodes[name])
    [] OTHER -> Be(1, Handles[name][1]) \o Be(3, Handles[name][2])

NameOf(b) == CHOOSE x \in Spellable[Len(b)] : Spell(Len(b), x) = b

-----------------------------------------------------------------------------
(* tpm2_types.py.                                                          *)

Sized(b) == Be(2, Len(b)) \o b
Listed(items) == Be(4, Len(items)) \o FlattenSeq(items)

SymDefObject(s) ==
  IF s = "NULL" THEN Spell(2, "NULL")
  ELSE Spell(2, s) \o Be(2, 128) \o Spell(2, "CFB")

WithHash(scheme, hash, hashed) ==
  Spell(2, scheme) \o IF hashed /\ hash # Unset THEN Spell(2, hash) ELSE << >>

RsaParms(p) ==
  SymDefObject(p.symmetric)
    \o WithHash(p.scheme, p.scheme_hash, p.scheme # "NULL")
    \o Be(2, p.key_bits) \o Be(4, 0)
KeyedHashParms(p) == WithHash(p.scheme, p.scheme_hash, p.scheme = "HMAC")

PublicArea(p) ==
  Spell(2, p.type) \o Spell(2, p.name_alg) \o Spell(4, p.attributes)
    \o Sized(<< >>)
    \o (IF p.type = "RSA" THEN RsaParms(p) ELSE KeyedHashParms(p))
    \o Sized(p.unique)
Public(p) == Sized(PublicArea(p))

AuthCommand(session) ==
  Spell(4, session) \o Sized(<< >>) \o <<0>> \o Sized(<< >>)

AuthArea(session) == Be(4, Len(AuthCommand(session))) \o AuthCommand(session)

SensitiveCreate(data) == Sized(Sized(<< >>) \o Sized(data))
PcrSelection(list) ==
  Listed([i \in DOMAIN list |->
            Spell(2, list[i].hash) \o <<Len(list[i].select)>> \o list[i].select])
SigScheme(s) == WithHash(s.scheme, s.hash_alg, s.scheme # "NULL")
RsaDecrypt(s) == WithHash(s.scheme, s.hash_alg, s.scheme = "OAEP")
HashCheck(hierarchy, digest) ==
  Spell(2, "HASHCHECK") \o Spell(4, hierarchy) \o Sized(digest)
Sensitive(key) ==
  Sized(Spell(2, "RSA") \o Sized(<< >>) \o Sized(<< >>) \o Sized(key))
DigestValues(list) ==
  Listed([i \in DOMAIN list |-> Spell(2, list[i].hash) \o list[i].digest])
NvPublic(index, attributes, size) ==
  Sized(Spell(4, index) \o Spell(2, "SHA256") \o attributes \o Sized(<< >>)
          \o Be(2, size))

-----------------------------------------------------------------------------
(* The constructors of tpm2_commands.py: what follows the header.          *)

Authorize(c) == Spell(4, c.handle) \o AuthArea(c.session)

NvAuthorize(c) ==
  Spell(4, c.handle) \o Spell(4, c.index) \o AuthArea(c.session)

SetPrimaryPolicyParams(c) ==
  Authorize(c) \o Sized(c.policy) \o Spell(2, c.hash_alg)
IncrementalSelfTestParams(c) ==
  Listed([i \in DOMAIN c.algorithms |-> Spell(2, c.algorithms[i])])
CreationParams(c) ==
  Authorize(c) \o SensitiveCreate(c.data) \o Public(c.public) \o Sized(<< >>)
    \o PcrSelection(<< >>)
StartAuthSessionParams(c) ==
  Spell(4, c.tpm_key) \o Spell(4, c.bind) \o Sized(c.nonce) \o Sized(<< >>)
    \o Spell(1, c.session_type) \o SymDefObject("NULL") \o Spell(2, c.auth_hash)
GetCapabilityParams(c) == Be(4, c.capability) \o c.property \o Be(4, c.count)
HashParams(c) == Sized(c.data) \o Spell(2, c.hash_alg) \o Spell(4, c.handle)
LoadExternalParams(c) ==
  (IF c.private = << >> THEN Sized(<< >>) ELSE Sensitive(c.private))
    \o Public(c.public) \o Spell(4, c.handle)
SignParams(c) ==
  Authorize(c) \o Sized(c.data) \o SigScheme(c.scheme)
    \o HashCheck("NULL", c.ticket)
RsaDecryptParams(c) ==
  Authorize(c) \o Sized(c.data) \o RsaDecrypt(c.scheme) \o Sized(<< >>)
PcrAllocateParams(c) == Authorize(c) \o PcrSelection(c.selection)
PcrExtendParams(c) == Authorize(c) \o DigestValues(c.digests)
TestParmsParams(c) == Spell(2, "RSA") \o RsaParms(c.public)
NvDefineSpaceParams(c) ==
  Authorize(c) \o Sized(<< >>) \o NvPublic(c.index, c.attributes, c.size)
NvWriteParams(c) == NvAuthorize(c) \o Sized(c.data) \o Be(2, c.offset)
NvReadParams(c) == NvAuthorize(c) \o Be(2, c.size) \o Be(2, c.offset)
NvExtendParams(c) == NvAuthorize(c) \o Sized(c.data)
NvSetBitsParams(c) == NvAuthorize(c) \o Be(4, 0) \o Be(4, c.bits)
LoadParams(c) == Authorize(c) \o Sized(c.private) \o Public(c.public)
RsaEncryptParams(c) ==
  Spell(4, c.handle) \o Sized(c.data) \o RsaDecrypt(c.scheme) \o Sized(<< >>)
MakeCredentialParams(c) ==
  Spell(4, c.handle) \o Sized(c.data) \o Sized(c.object_name)
PcrEventParams(c) == Authorize(c) \o Sized(c.data)
PcrSetAuthPolicyParams(c) ==
  Authorize(c) \o Sized(c.policy) \o Spell(2, c.hash_alg) \o Spell(4, c.pcr)

Params(c) ==
  CASE c.class \in {"Clear", "PCR_Reset", "Unseal"} -> Authorize(c)
    [] c.class \in {"NV_UndefineSpace", "NV_WriteLock", "NV_ReadLock"} -> NvAuthorize(c)
    [] c.class \in {"ReadClock", "GetTestResult"} -> << >>
    [] c.class \in {"StirRandom", "Vendor_TCG_Test"} -> Sized(c.data)
    [] c.class \in {"Create", "CreatePrimary"} -> CreationParams(c)
    [] c.class = "GetRandom" -> Be(2, c.requested)
    [] c.class = "SelfTest" -> Be(1, c.full)
    [] c.class = "ECC_Parameters" -> Be(2, c.curve)
    [] c.class = "PCR_Read" -> PcrSelection(c.selection)
    [] c.class = "SetPrimaryPolicy" -> SetPrimaryPolicyParams(c)
    [] c.class = "IncrementalSelfTest" -> IncrementalSelfTestParams(c)
    [] c.class = "StartAuthSession" -> StartAuthSessionParams(c)
    [] c.class = "GetCapability" -> GetCapabilityParams(c)
    [] c.class = "Hash" -> HashParams(c)
    [] c.class = "LoadExternal" -> LoadExternalParams(c)
    [] c.class = "Sign" -> SignParams(c)
    [] c.class = "RSA_Decrypt" -> RsaDecryptParams(c)
    [] c.class = "PCR_Allocate" -> PcrAllocateParams(c)
    [] c.class = "PCR_Extend" -> PcrExtendParams(c)
    [] c.class = "TestParms" -> TestParmsParams(c)
    [] c.class = "NV_DefineSpace" -> NvDefineSpaceParams(c)
    [] c.class = "NV_Write" -> NvWriteParams(c)
    [] c.class = "NV_Read" -> NvReadParams(c)
    [] c.class = "NV_Extend" -> NvExtendParams(c)
    [] c.class = "NV_SetBits" -> NvSetBitsParams(c)
    [] c.class = "Load" -> LoadParams(c)
    [] c.class = "RSA_Encrypt" -> RsaEncryptParams(c)
    [] c.class = "MakeCredential" -> MakeCredentialParams(c)
    [] c.class = "PCR_Event" -> PcrEventParams(c)
    [] c.class = "PCR_SetAuthPolicy" -> PcrSetAuthPolicyParams(c)

Tag(c) ==
  IF c.class = "GetRandom" THEN c.st
  ELSE IF "session" \in DOMAIN c THEN "SESSIONS" ELSE "NO_SESSIONS"

\* Variant: the size does not count the command code.
CommandSizeOfBody(c) == 6 + Len(Params(c))

CommandSize(c) == 10 + Len(Params(c))

CommandBytes(c) ==
  Spell(2, Tag(c)) \o Be(4, CommandSize(c)) \o Spell(4, c.class) \o Params(c)

-----------------------------------------------------------------------------
(* to_proto: the parsers of TPMCommand.                                    *)

Number16(b, at) == Number(Slice(b, at, at + 2))
NameAt(b, at, width) == NameOf(Slice(b, at, at + width))
Tpm2bEnd(b, at) == at + 2 + Number16(b, at)
Tpm2bAt(b, at) == Slice(b, at + 2, Tpm2bEnd(b, at))

ProtoSensitive(inner) ==
  [user_auth |-> Len(Tpm2bAt(inner, 0)),
   data |-> Len(Tpm2bAt(inner, Tpm2bEnd(inner, 0)))]

RsaPublic(public, at) ==
  LET scheme == at + IF NameAt(public, at, 2) = "NULL" THEN 2 ELSE 6 IN
  [parms |-> [kind |-> "rsa", symmetric |-> NameAt(public, at, 2),
              symmetric_key_bits |-> 0, scheme |-> NameAt(public, scheme, 2),
              key_bits |-> Number16(public, scheme + 2)],
   unique |-> [kind |-> "rsa", size |-> Len(Tpm2bAt(public, scheme + 8))]]

\* The hash of the scheme, if there is one, is taken for the size of unique.
KeyedHashPublic(public, at) ==
  [parms |-> [kind |-> "keyedhash", symmetric |-> Unset,
              symmetric_key_bits |-> 0, scheme |-> NameAt(public, at, 2),
              key_bits |-> 0],
   unique |-> [kind |-> "keyedhash", size |-> Len(Tpm2bAt(public, at + 2))]]

ProtoPublic(public) ==
  LET parms == Tpm2bEnd(public, 8) IN
  [has |-> "area", type |-> NameAt(public, 0, 2), name_alg |-> NameAt(public, 2, 2),
   object_attributes |-> NameAt(public, 4, 4),
   auth_policy |-> Len(Tpm2bAt(public, 8))]
    @@ (IF NameAt(public, 0, 2) = "RSA" THEN RsaPublic(public, parms)
        ELSE KeyedHashPublic(public, parms))

ProtoSelections(b) ==
  LET sizes[i \in 0..Number(Slice(b, 0, 4)), at \in 4..Len(b)] ==
        IF i = 0 THEN << >>
        ELSE <<b[at + 3]>> \o sizes[i - 1, at + 3 + b[at + 3]]
  IN sizes[Number(Slice(b, 0, 4)), 4]

ProtoSessions(auth) ==
  LET entries[at \in 4..Len(auth)] ==
        IF at = Len(auth) THEN << >>
        ELSE LET attrs == Tpm2bEnd(auth, at + 4) IN
             <<[session_handle |-> NameAt(auth, at, 4),
                nonce |-> Len(Tpm2bAt(auth, at + 4)),
                session_attributes |-> auth[attrs + 1],
                hmac |-> Len(Tpm2bAt(auth, attrs + 1))]>>
               \o entries[Tpm2bEnd(auth, attrs + 1)]
  IN entries[4]

-----------------------------------------------------------------------------
(* to_proto: the messages.  The handle, the area and the parameters behind *)
(* it are cut out of the bytes by three of the classes; the others keep    *)
(* the arguments of their constructor.                                     *)

ParsedHandle(params) == NameAt(params, 0, 4)
AreaEnd(params) == 8 + Number(Slice(params, 4, 8))

\* Variant: the session is the default one, whatever the constructor was given.
ParsedSessionsArePassword(params) ==
  <<[session_handle |-> "PW", nonce |-> 0, session_attributes |-> 0, hmac |-> 0]>>

ParsedSessions(params) == ProtoSessions(Slice(params, 4, AreaEnd(params)))

CreationParsed(b) ==
  LET public == Tpm2bEnd(b, AreaEnd(b))
      info == Tpm2bEnd(b, public)
  IN [in_sensitive |-> ProtoSensitive(Tpm2bAt(b, AreaEnd(b))),
      in_public |-> ProtoPublic(Tpm2bAt(b, public)),
      outside_info |-> Len(Tpm2bAt(b, info)),
      creation_pcr |-> ProtoSelections(Slice(b, Tpm2bEnd(b, info), Len(b)))]

\* The area is skipped, and there is no session in the message.
CreateFields(params) ==
  [parent_handle |-> ParsedHandle(params), sessions |-> << >>]
    @@ CreationParsed(params)

CreatePrimaryFields(params) ==
  [hierarchy |-> ParsedHandle(params), sessions |-> ParsedSessions(params)]
    @@ CreationParsed(params)

NvDefineSpaceFields(b) ==
  LET nv == Tpm2bAt(b, Tpm2bEnd(b, AreaEnd(b))) IN
  [auth_handle |-> ParsedHandle(b), sessions |-> ParsedSessions(b),
   auth |-> Len(Tpm2bAt(b, AreaEnd(b))),
   nv_public |-> [auth_policy |-> Len(Tpm2bAt(nv, 10))]]

GetRandomFields(params) ==
  [bytes_requested |-> Number16(params, Len(params) - 2)]

StartAuthSessionFields(b) ==
  LET salt == Tpm2bEnd(b, 8)
      type == Tpm2bEnd(b, salt)
      symmetric == NameAt(b, type + 1, 2)
  IN [tpm_key |-> NameAt(b, 0, 4), bind |-> NameAt(b, 4, 4),
      nonce |-> Len(Tpm2bAt(b, 8)), encrypted_salt |-> Len(Tpm2bAt(b, salt)),
      session_type |-> NameAt(b, type, 1),
      symmetric |-> [algorithm |-> symmetric],
      auth_hash |-> NameAt(b, type + IF symmetric = "NULL" THEN 3 ELSE 7, 2)]

\* Variant: the session is the default one, whatever the constructor was given.
StoredSessionIsPassword(c) ==
  <<[session_handle |-> "PW", nonce |-> 0, session_attributes |-> 0, hmac |-> 0]>>

StoredSession(c) ==
  <<[session_handle |-> c.session, nonce |-> 0, session_attributes |-> 0, hmac |-> 0]>>

RsaDecryptFields(c) ==
  [key_handle |-> c.handle, sessions |-> StoredSession(c),
   cipher_text |-> Len(c.data), in_scheme |-> c.scheme, label |-> 0]
RsaEncryptFields(c) ==
  [key_handle |-> c.handle, message |-> Len(c.data), in_scheme |-> c.scheme,
   label |-> 0]
LoadFields(c) ==
  [parent_handle |-> c.handle, sessions |-> StoredSession(c),
   in_private |-> Len(c.private), in_public |-> ProtoPublic(PublicArea(c.public))]
SetPrimaryPolicyFields(c) ==
  [auth_handle |-> c.handle, sessions |-> StoredSession(c),
   auth_policy |-> Len(c.policy), hash_alg |-> c.hash_alg]
PcrSetAuthPolicyFields(c) ==
  [auth_handle |-> c.handle, sessions |-> StoredSession(c),
   authPolicy |-> Len(c.policy), hashAlg |-> c.hash_alg, pcrNum |-> c.pcr]

ProtoFields(c, params) ==
  CASE c.class = "Create" -> CreateFields(params)
    [] c.class = "CreatePrimary" -> CreatePrimaryFields(params)
    [] c.class = "NV_DefineSpace" -> NvDefineSpaceFields(params)
    [] c.class = "GetRandom" -> GetRandomFields(params)
    [] c.class = "StartAuthSession" -> StartAuthSessionFields(params)
    [] c.class = "RSA_Decrypt" -> RsaDecryptFields(c)
    [] c.class = "RSA_Encrypt" -> RsaEncryptFields(c)
    [] c.class = "Load" -> LoadFields(c)
    [] c.class = "SetPrimaryPolicy" -> SetPrimaryPolicyFields(c)
    [] c.class = "PCR_SetAuthPolicy" -> PcrSetAuthPolicyFields(c)
    [] c.class = "Clear" ->
         [auth_handle |-> c.handle, sessions |-> StoredSession(c)]
    [] c.class = "PCR_Event" ->
         [pcr_handle |-> c.handle, sessions |-> StoredSession(c),
          eventData |-> Len(c.data)]
    [] c.class = "PCR_Allocate" ->
         [auth_handle |-> c.handle, sessions |-> StoredSession(c),
          pcr_allocation |-> ProtoSelections(PcrSelection(c.selection))]
    [] c.class = "PCR_Read" ->
         [pcrSelection |-> [i \in DOMAIN c.selection |-> Len(c.selection[i].select)]]
    [] c.class = "MakeCredential" ->
         [handle |-> c.handle, credential |-> Len(c.data),
          object_name |-> Len(c.object_name)]

\* The classes whose to_proto does not return None.
ProtoClasses ==
  {"Clear", "SetPrimaryPolicy", "Create", "CreatePrimary", "GetRandom",
   "StartAuthSession", "RSA_Decrypt", "PCR_Read", "PCR_Allocate",
   "NV_DefineSpace", "Load", "RSA_Encrypt", "MakeCredential", "PCR_Event",
   "PCR_SetAuthPolicy"}

ToProto(c) ==
  LET fields == ProtoFields(c, Params(c)) IN
  [n \in {"command", "header"} \cup DOMAIN fields |->
     CASE n = "command" -> c.class
       [] n = "header" -> [tag |-> Tag(c), command_size |-> CommandSize(c),
                           command_code |-> c.class]
       [] OTHER -> fields[n]]
==============================================================================
