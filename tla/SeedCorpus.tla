------------------------------ MODULE SeedCorpus ------------------------------
(***************************************************************************)
(* The test cases of the seed generator (TEST_CASES in                     *)
(* tools/seed-generation/main.py): for each name the sequences of commands *)
(* of its variants.  The bytes of digests, keys and blobs are abstracted   *)
(* to their number.                                                        *)
(***************************************************************************)
EXTENDS SeedCommands

Bytes(n) == Filled(n, 0)

\* A command that is authorized with the password session.
WithPassword(class, handle) == [class |-> class, handle |-> handle, session |-> "PW"]

RsaKey(attributes, symmetric, bits) ==
  [type |-> "RSA", name_alg |-> "SHA256", attributes |-> attributes,
   symmetric |-> symmetric, scheme |-> "NULL", scheme_hash |-> Unset,
   key_bits |-> bits, unique |-> << >>]
StorageKey == RsaKey("storage", "AES", 2048)
SigningKey == RsaKey("signing", "NULL", 2048)
KeyedHashKey(attributes, scheme, hash, unique) ==
  [type |-> "KEYEDHASH", name_alg |-> "SHA256", attributes |-> attributes,
   scheme |-> scheme, scheme_hash |-> hash, unique |-> unique]

CreatePrimaryWith(session, public) ==
  [class |-> "CreatePrimary", handle |-> "OWNER", session |-> session,
   data |-> << >>, public |-> public]
CreatePrimary == CreatePrimaryWith("PW", StorageKey)

Create(public, data) ==
  WithPassword("Create", "FirstTransient") @@ [public |-> public, data |-> data]
CreateRsa(hash, bits) ==
  Create([StorageKey EXCEPT !.name_alg = hash, !.key_bits = bits], << >>)

\* The blobs of _UNSEAL_*: their unique fields are digests.
CreateSealed == Create(KeyedHashKey("sealed", "NULL", Unset, << >>), Bytes(12))
CreateHmacKey == Create(KeyedHashKey("hmac_key", "HMAC", "SHA256", << >>), << >>)
Load(private, public) ==
  WithPassword("Load", "FirstTransient") @@ [private |-> private, public |-> public]
LoadSealed(private) ==
  Load(private, KeyedHashKey("sealed", "NULL", Unset, Bytes(32)))
LoadHmacKey ==
  Load(Bytes(158), KeyedHashKey("hmac_key", "HMAC", "SHA256", Bytes(32)))
Unseal(handle) == WithPassword("Unseal", handle)

tpm_load_seeds ==
  <<<<CreatePrimary, CreateSealed, LoadSealed(Bytes(138))>>,
    <<CreatePrimary, CreateHmacKey, LoadHmacKey>>,
    <<CreatePrimary, LoadSealed(<< >>)>>,
    <<CreatePrimary, LoadSealed(Filled(138, 255))>>>>

tpm_unseal_seeds ==
  <<<<CreatePrimary, CreateSealed, LoadSealed(Bytes(138)), Unseal("SecondTransient")>>,
    <<CreatePrimary, Unseal("FirstTransient")>>,
    <<CreatePrimary, CreateHmacKey, LoadHmacKey, Unseal("SecondTransient")>>>>

tpm_create_seeds ==
  <<<<CreatePrimary, CreateRsa("SHA256", 2048)>>,
    <<CreatePrimary, CreateRsa("SHA256", 1024)>>,
    <<CreatePrimary, CreateRsa("SHA1", 2048)>>,
    <<CreatePrimary, CreateRsa("SHA1", 1024)>>,
    <<CreatePrimary, CreateRsa("SHA384", 2048)>>,
    <<CreatePrimary, CreateRsa("SHA384", 1024)>>>>

GetRandom(requested, st) ==
  [class |-> "GetRandom", requested |-> requested, st |-> st]

tpm_get_rand_seeds ==
  LET sizes == <<16, 32, 64, 0, 48>> IN
  [i \in 1..10 |->
     <<GetRandom(sizes[((i - 1) % 5) + 1], IF i <= 5 THEN "NO_SESSIONS" ELSE "SESSIONS")>>]

tpm_create_primary_seeds ==
  <<<<CreatePrimary, GetRandom(16, "NO_SESSIONS")>>,
    <<GetRandom(32, "NO_SESSIONS"), CreatePrimary>>,
    <<CreatePrimary, CreatePrimary>>>>

StartAuthSession ==
  [class |-> "StartAuthSession", tpm_key |-> "NULL", bind |-> "NULL",
   nonce |-> Bytes(16), session_type |-> "HMAC", auth_hash |-> "SHA256"]

tpm_start_auth_session_seeds ==
  <<<<StartAuthSession>>,
    <<StartAuthSession, CreatePrimaryWith("FirstHmacSession", StorageKey)>>>>

RsaScheme(scheme, hash) == [scheme |-> scheme, hash_alg |-> hash]
RsaSchemes ==
  <<RsaScheme("RSAES", Unset), RsaScheme("OAEP", "SHA256"), RsaScheme("NULL", Unset)>>

tpm_rsa_decrypt_seeds ==
  [i \in 1..3 |->
     <<CreatePrimaryWith("PW", RsaKey("decrypting", "NULL", 2048)),
       WithPassword("RSA_Decrypt", "FirstTransient")
         @@ [data |-> Bytes(256), scheme |-> RsaSchemes[i]]>>]

RSA_Encrypt(message, scheme) ==
  <<CreatePrimaryWith("PW", RsaKey("encrypting", "NULL", 2048)),
    [class |-> "RSA_Encrypt", handle |-> "FirstTransient", data |-> message,
     scheme |-> scheme]>>

tpm_rsa_encrypt_seeds ==
  Append([i \in 1..3 |-> RSA_Encrypt(Bytes(64), RsaSchemes[i])],
         RSA_Encrypt(<< >>, RsaSchemes[2]))

MakeCredential(credential) ==
  [class |-> "MakeCredential", handle |-> "FirstTransient", data |-> credential,
   object_name |-> Bytes(34)]

tpm_make_credential_seeds ==
  <<<<CreatePrimary, MakeCredential(Bytes(16))>>,
    <<CreatePrimaryWith("PW", SigningKey), MakeCredential(Bytes(16))>>,
    <<CreatePrimary, MakeCredential(<< >>)>>>>

Sign(public, digest, hash, ticket) ==
  <<CreatePrimaryWith("PW", public),
    WithPassword("Sign", "FirstTransient")
      @@ [data |-> Bytes(digest), scheme |-> RsaScheme("RSASSA", hash),
          ticket |-> ticket]>>

tpm_sign_seeds ==
  <<Sign(SigningKey, 32, "SHA256", << >>),
    Sign(StorageKey, 32, "SHA256", << >>),
    Sign(SigningKey, 16, "SHA256", << >>),
    Sign(SigningKey, 32, "SHA256", Bytes(32)),
    Sign([SigningKey EXCEPT !.scheme = "RSASSA", !.scheme_hash = "SHA256"],
         48, "SHA384", << >>),
    Sign([SigningKey EXCEPT !.attributes = "x509signing"], 32, "SHA256", << >>)>>

LoadExternal(private) ==
  [class |-> "LoadExternal", handle |-> "NULL", private |-> private,
   public |-> [RsaKey("external", "NULL", 2048) EXCEPT !.unique = Bytes(256)]]

-----------------------------------------------------------------------------
Bank(hash, select) == [hash |-> hash, select |-> select]
PCR_Read(bank) == [class |-> "PCR_Read", selection |-> <<bank>>]
PCR_Allocate(banks) ==
  <<WithPassword("PCR_Allocate", "PLATFORM") @@ [selection |-> banks]>>
HcrtmOnly == Bank("SHA256", <<1, 0, 0>>)
HcrtmAndDrtm == Bank("SHA256", <<1, 0, 2>>)
PCR_Extend(handle, digests) ==
  <<WithPassword("PCR_Extend", handle) @@ [digests |-> digests]>>
Digest(hash, n) == [hash |-> hash, digest |-> Bytes(n)]

tpm_pcr_read_seeds ==
  <<<<PCR_Read(HcrtmOnly)>>, <<PCR_Read(Bank("SHA1", <<255, 255, 255>>))>>>>
tpm_pcr_allocate_seeds ==
  <<PCR_Allocate(<<HcrtmAndDrtm>>), PCR_Allocate(<<HcrtmOnly, HcrtmAndDrtm>>),
    PCR_Allocate(<<HcrtmOnly>>)>>
tpm_pcr_extend_seeds ==
  <<PCR_Extend("UNSPECIFIED", <<Digest("SHA256", 32)>>),
    PCR_Extend("NULL", <<Digest("SHA256", 32)>>),
    PCR_Extend("UNSPECIFIED", <<Digest("SHA1", 20), Digest("SHA256", 32)>>)>>
tpm_pcr_reset_seeds ==
  <<<<WithPassword("PCR_Reset", "UNSPECIFIED")>>, <<WithPassword("PCR_Reset", "PCR16")>>>>

PCR_SetAuthPolicy(handle, policy, hash, pcr, session) ==
  [class |-> "PCR_SetAuthPolicy", handle |-> handle, session |-> session,
   policy |-> Bytes(policy), hash_alg |-> hash, pcr |-> pcr]

tpm_pcr_setauthpolicy_seeds ==
  LET hmac == PCR_SetAuthPolicy("PLATFORM", 32, "SHA256", "PCR1", "FirstHmacSession")
  IN <<<<PCR_SetAuthPolicy("PLATFORM", 0, "SHA256", "UNSPECIFIED", "PW")>>,
       <<PCR_SetAuthPolicy("PLATFORM", 32, "SHA256", "PCR11", "PW")>>,
       <<PCR_SetAuthPolicy("PLATFORM", 20, "SHA1", "PCR16", "PW")>>,
       <<PCR_SetAuthPolicy("OWNER", 32, "SHA256", "UNSPECIFIED", "PW")>>,
       <<StartAuthSession, hmac>>,
       <<PCR_SetAuthPolicy("PLATFORM", 32, "SHA256", "UNSPECIFIED", "PW"),
         PCR_Read(HcrtmOnly)>>,
       <<StartAuthSession, hmac, PCR_Read(Bank("SHA256", <<2, 0, 0>>))>>>>

PCR_Event(handle, data) == <<WithPassword("PCR_Event", handle) @@ [data |-> data]>>

tpm_pcr_event_seeds ==
  <<PCR_Event("PCR1", << >>), PCR_Event("PCR1", Bytes(1024)),
    PCR_Event("NULL", Bytes(1024)), PCR_Event("NULL", << >>)>>

SetPrimaryPolicy(handle, policy, hash) ==
  <<WithPassword("SetPrimaryPolicy", handle)
      @@ [policy |-> Bytes(policy), hash_alg |-> hash]>>

tpm_set_primary_policy_seeds ==
  <<SetPrimaryPolicy("OWNER", 0, "NULL"), SetPrimaryPolicy("OWNER", 32, "SHA256"),
    SetPrimaryPolicy("ENDORSEMENT", 32, "SHA256"),
    SetPrimaryPolicy("PLATFORM", 32, "SHA256"),
    SetPrimaryPolicy("LOCKOUT", 20, "SHA1"), SetPrimaryPolicy("OWNER", 0, "SHA256")>>

-----------------------------------------------------------------------------
\* The bits of TPMA_NV that the test cases combine.
OwnerAccess == <<0, 2, 0, 2>>
AuthAccess == <<0, 4, 0, 4>>
PlatformAccess == <<64, 1, 0, 1>>

NV_DefineSpaceWith(hierarchy, session, index, attributes, size) ==
  [class |-> "NV_DefineSpace", handle |-> hierarchy, session |-> session,
   index |-> index, attributes |-> attributes, size |-> size]
NV_DefineSpace(index, attributes) ==
  NV_DefineSpaceWith("OWNER", "PW", index, attributes, 32)
OnIndex(class, handle, index) == WithPassword(class, handle) @@ [index |-> index]
NV_Write(index) ==
  OnIndex("NV_Write", "OWNER", index) @@ [data |-> Filled(32, 170), offset |-> 0]
NV_Read(index, size) ==
  OnIndex("NV_Read", "OWNER", index) @@ [size |-> size, offset |-> 0]
NV_Extend(handle) == OnIndex("NV_Extend", handle, "NV0") @@ [data |-> Bytes(16)]
NV_SetBits(index, bits) == OnIndex("NV_SetBits", "OWNER", index) @@ [bits |-> bits]
NV_ReadLock(index) == OnIndex("NV_ReadLock", "OWNER", index)

tpm_nv_definespace_seeds ==
  <<<<NV_DefineSpace("NV0", AuthAccess)>>,
    <<StartAuthSession,
      NV_DefineSpaceWith("OWNER", "FirstHmacSession", "NV0", <<2, 2, 0, 2>>, 32)>>>>

tpm_nv_setbits_seeds ==
  LET define(index) == NV_DefineSpaceWith("OWNER", "PW", index, <<0, 2, 0, 34>>, 8)
  IN <<<<define("NV3"), NV_SetBits("NV3", 1)>>,
       <<define("NV4"), NV_SetBits("NV4", 1), NV_SetBits("NV4", 165)>>>>

tpm_nv_extend_seeds ==
  LET extend == NV_DefineSpace("NV0", <<2, 4, 0, 68>>)
      ordinary == NV_DefineSpace("NV0", <<2, 4, 0, 4>>)
      lockable == NV_DefineSpace("NV0", <<2, 4, 32, 68>>)
  IN <<<<extend, NV_Extend("NV0")>>,
       <<extend, NV_Extend("NV0"), NV_Extend("NV0")>>,
       <<ordinary, NV_Extend("NV0")>>,
       <<lockable, OnIndex("NV_WriteLock", "NV0", "NV0"), NV_Extend("NV0")>>,
       <<extend, NV_Extend("OWNER")>>>>

tpm_nv_write_lock_seeds ==
  LET define == NV_DefineSpace("NV0", <<0, 2, 32, 2>>)
      lock == OnIndex("NV_WriteLock", "OWNER", "NV0")
  IN <<<<define, lock>>, <<define, lock, lock>>,
       <<NV_DefineSpace("NV0", OwnerAccess), lock>>>>

tpm_nv_write_seeds == <<<<NV_DefineSpace("NV0", OwnerAccess), NV_Write("NV0")>>>>

tpm_nv_read_lock_seeds ==
  LET clearable == <<128, 2, 0, 2>> IN
  <<<<NV_DefineSpace("NV3", clearable), NV_Write("NV4"), NV_ReadLock("NV3")>>,
    <<NV_DefineSpace("NV4", clearable), NV_Write("NV5"), NV_ReadLock("NV4"),
      NV_ReadLock("NV4")>>,
    <<NV_DefineSpace("NV5", OwnerAccess), NV_Write("NV5"), NV_ReadLock("NV5")>>>>

tpm_nv_read_seeds ==
  <<<<NV_DefineSpace("NV1", OwnerAccess), NV_Write("NV1"), NV_Read("NV1", 2)>>,
    <<NV_DefineSpace("NV1", <<16, 2, 0, 2>>), NV_Write("NV1"), NV_Read("NV1", 2)>>,
    <<NV_DefineSpace("NV1", OwnerAccess), NV_Read("NV1", 0)>>>>

tpm_nv_undefine_space_seeds ==
  LET define(index, attributes) ==
        NV_DefineSpaceWith("PLATFORM", "PW", index, attributes, 32)
      undefine(index) == OnIndex("NV_UndefineSpace", "OWNER", index)
  IN <<<<NV_DefineSpace("NV0", OwnerAccess), undefine("NV0")>>,
       <<define("NV1", <<64, 1, 4, 1>>), undefine("NV1")>>,
       <<define("NV2", PlatformAccess), undefine("NV2")>>>>

-----------------------------------------------------------------------------
Hash(data, hash, hierarchy) ==
  <<[class |-> "Hash", handle |-> hierarchy, data |-> Bytes(data), hash_alg |-> hash]>>

tpm_hash_seeds ==
  <<Hash(14, "SHA1", "OWNER"), Hash(12, "SHA256", "PLATFORM"), Hash(12, "SHA384", "NULL")>>

IncrementalSelfTest(algorithms) ==
  <<[class |-> "IncrementalSelfTest", algorithms |-> algorithms]>>
tpm_incremental_self_test_seeds ==
  <<IncrementalSelfTest(<< >>), IncrementalSelfTest(<<"SHA256">>),
    IncrementalSelfTest(<<"SHA1", "SHA256">>)>>

GetCapability(capability, property, count) ==
  <<[class |-> "GetCapability", capability |-> capability, property |-> property,
     count |-> count]>>

\* HANDLES over the seven handle types, then one of each other capability.
tpm_get_capability_seeds ==
  [i \in 1..7 |->
     GetCapability(1, <<<<128, 129, 1, 2, 3, 0, 64>>[i], 0, 0, 0>>, 10)]
  \o <<GetCapability(0, <<0, 0, 0, 1>>, 10), GetCapability(2, <<0, 0, 1, 122>>, 10),
       GetCapability(5, <<0, 0, 0, 0>>, 16), GetCapability(6, <<0, 0, 1, 0>>, 64),
       GetCapability(8, <<0, 0, 0, 0>>, 10), GetCapability(9, <<64, 0, 0, 1>>, 10),
       GetCapability(11, <<0, 0, 0, 0>>, 1), GetCapability(10, <<0, 0, 0, 0>>, 1)>>

Single(command) == <<<<command>>>>

TEST_CASES ==
  [TPMGetRandom |-> tpm_get_rand_seeds,
   TPMStirRandom |-> Single([class |-> "StirRandom", data |-> << >>]),
   TPMHash |-> tpm_hash_seeds,
   TPMGetTestResult |-> Single([class |-> "GetTestResult"]),
   TPMSelfTest |-> <<<<[class |-> "SelfTest", full |-> 0]>>,
                     <<[class |-> "SelfTest", full |-> 1]>>>>,
   TPMReadClock |-> Single([class |-> "ReadClock"]),
   TPMVendorTCGTest |-> Single([class |-> "Vendor_TCG_Test", data |-> << >>]),
   TPMUnseal |-> tpm_unseal_seeds,
   TPMLoad |-> tpm_load_seeds,
   TPMCreate |-> tpm_create_seeds,
   TPMCreatePrimary |-> tpm_create_primary_seeds,
   TPMStartAuthSessionHMAC |-> tpm_start_auth_session_seeds,
   TPMRSADecrypt |-> tpm_rsa_decrypt_seeds,
   TPMRSAEncrypt |-> tpm_rsa_encrypt_seeds,
   TPMMakeCredential |-> tpm_make_credential_seeds,
   TPMIncrementalSelfTest |-> tpm_incremental_self_test_seeds,
   TPMGetCapability |-> tpm_get_capability_seeds,
   TPMECCParameters |-> Single([class |-> "ECC_Parameters", curve |-> 1]),
   TPMLoadExternal |-> <<<<LoadExternal(<< >>)>>, <<LoadExternal(Bytes(128))>>>>,
   TPMSign |-> tpm_sign_seeds,
   TPMPCRAllocate |-> tpm_pcr_allocate_seeds,
   TPMPCRRead |-> tpm_pcr_read_seeds,
   TPMPCRExtend |-> tpm_pcr_extend_seeds,
   TPMPCRReset |-> tpm_pcr_reset_seeds,
   TPMPCRSetAuthPolicy |-> tpm_pcr_setauthpolicy_seeds,
   TPMTestParms |-> Single([class |-> "TestParms", public |-> StorageKey]),
   TPMNVDefineSpace |-> tpm_nv_definespace_seeds,
   TPMNVSetBits |-> tpm_nv_setbits_seeds,
   TPMClear |-> <<<<WithPassword("Clear", "LOCKOUT")>>,
                  <<WithPassword("Clear", "PLATFORM")>>>>,
   TPMSetPrimaryPolicy |-> tpm_set_primary_policy_seeds,
   TPMNVWriteLock |-> tpm_nv_write_lock_seeds,
   TPMNVWrite |-> tpm_nv_write_seeds,
   TPMNVReadLock |-> tpm_nv_read_lock_seeds,
   TPMNVRead |-> tpm_nv_read_seeds,
   TPMNVExtend |-> tpm_nv_extend_seeds,
   TPMNVUndefineSpace |-> tpm_nv_undefine_space_seeds,
   TPMPCREvent |-> tpm_pcr_event_seeds]
==============================================================================
