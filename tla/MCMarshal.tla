----------------------------- MODULE MCMarshal -----------------------------
(***************************************************************************)
(* Messages of every command for TLC: fields that are set and unset, at    *)
(* the limits of their sizes, and past them.                               *)
(***************************************************************************)
EXTENDS Marshal

MCNames ==
  EmittedCommands \cup
    {"UNSPECIFIED", "SESSIONS", "NO_SESSIONS", "PW", "OWNER", "LOCKOUT",
     "FirstTransient", "NULL", "RSA", "KEYEDHASH", "AES", "SHA1", "SHA256",
     "SHA384", "child", "storage", "h1", "t1", "PLATFORM", "PCR0", "PCR20",
     "OAEP", "HMAC", "POLICY", "RSASSA", "CFB"}

\* A header as a mutation may leave it.
AnyHeader == [tag |-> Unset, command_size |-> 7, command_code |-> Unset]

Session(h, n, k) ==
  [session_handle |-> h, nonce |-> n, session_attributes |-> 257, hmac |-> k]

\* No entry, one, two, one whose sizes wrap around, and more than fit.
SessionLists ==
  {<< >>, <<Session("h1", 0, 0)>>, <<Session("h1", 16, 32), Session("PW", 0, 3)>>,
   <<Session("h1", 65536 + 5, 65535)>>,
   [i \in 1..9 |-> Session("h1", 65535, 65535)]}
SomeSessions == {<< >>, <<Session("h1", 16, 32)>>}

Authorizing(cc, lists, fields) ==
  {[name \in DOMAIN f \cup {"command", "header", "sessions"} |->
      CASE name = "command" -> cc
        [] name = "header" -> AnyHeader
        [] name = "sessions" -> s
        [] OTHER -> f[name]] : s \in lists, f \in fields}

Unauthorized(cc, fields) ==
  {[name \in DOMAIN f \cup {"command", "header"} |->
      CASE name = "command" -> cc
        [] name = "header" -> AnyHeader
        [] OTHER -> f[name]] : f \in fields}

NoParms ==
  [kind |-> "none", scheme |-> Unset, symmetric |-> Unset,
   symmetric_key_bits |-> 0, key_bits |-> 0]
Rsa(alg, scheme) ==
  [kind |-> "rsa", scheme |-> scheme, symmetric |-> alg,
   symmetric_key_bits |-> 128, key_bits |-> 0]
KeyedHash(scheme) == [NoParms EXCEPT !.kind = "keyedhash", !.scheme = scheme]

Public(has, parms, unique, size) ==
  [has |-> has, type |-> Unset, name_alg |-> Unset, object_attributes |-> Unset,
   auth_policy |-> size, parms |-> parms,
   unique |-> [kind |-> unique, size |-> size]]

SomePublics ==
  {Public("absent", NoParms, "none", 0), Public("empty", NoParms, "none", 0),
   Public("area", NoParms, "keyedhash", 65),
   Public("area", Rsa(Unset, Unset), "rsa", 513),
   Public("area", Rsa("CFB", "RSASSA"), "keyedhash", 8),
   Public("area", KeyedHash("HMAC"), "rsa", 64)}

Selections == {<< >>, <<3, 5>>}

Creating(cc, handle) ==
  Authorizing(cc, SomeSessions,
    {[name \in {handle, "in_sensitive", "in_public", "outside_info", "creation_pcr"} |->
        CASE name = handle -> h
          [] name = "in_sensitive" -> [user_auth |-> 65, data |-> 3]
          [] name = "in_public" -> p
          [] name = "outside_info" -> 67
          [] name = "creation_pcr" -> <<3, 5>>] :
       h \in {Unset, "OWNER"}, p \in SomePublics})

MCMessages ==
  Authorizing("Clear", SessionLists, {[auth_handle |-> h] : h \in {Unset, "OWNER"}})
  \cup Creating("Create", "parent_handle")
  \cup Creating("CreatePrimary", "hierarchy")
  \cup Authorizing("Load", SomeSessions,
         {[parent_handle |-> h, in_private |-> n, in_public |-> p] :
            h \in {Unset, "t1"}, n \in {1417}, p \in SomePublics})
  \cup Authorizing("NV_DefineSpace", SessionLists,
         {[auth_handle |-> "OWNER", auth |-> 4, nv_public |-> [auth_policy |-> 65]]})
  \cup Authorizing("PCR_Allocate", SomeSessions,
         {[auth_handle |-> "PLATFORM", pcr_allocation |-> s] : s \in Selections})
  \cup Authorizing("PCR_Event", SomeSessions,
         {[pcr_handle |-> "PCR0", eventData |-> 1025]})
  \cup Authorizing("PCR_SetAuthPolicy", SomeSessions,
         {[auth_handle |-> "PLATFORM", authPolicy |-> n, hashAlg |-> "SHA1",
           pcrNum |-> "PCR20"] : n \in {0, 65535, 65536}})
  \cup Authorizing("RSA_Decrypt", SomeSessions,
         {[key_handle |-> "t1", cipher_text |-> 513,
           in_scheme |-> [scheme |-> s, hash_alg |-> "SHA256"], label |-> 0] :
            s \in {Unset, "OAEP"}})
  \cup Authorizing("SetPrimaryPolicy", SomeSessions,
         {[auth_handle |-> Unset, auth_policy |-> n, hash_alg |-> a] :
            n \in {0, 32, 48}, a \in {Unset, "SHA1", "SHA256", "SHA384", "NULL", "AES"}})
  \cup Unauthorized("GetRandom", {[bytes_requested |-> n] : n \in {0, 65535, 65536}})
  \cup Unauthorized("MakeCredential",
         {[handle |-> "t1", credential |-> 16, object_name |-> 0]})
  \cup Unauthorized("PCR_Read", {[pcrSelection |-> s] : s \in Selections})
  \cup Unauthorized("RSA_Encrypt",
         {[key_handle |-> "t1", message |-> 0,
           in_scheme |-> [scheme |-> "OAEP", hash_alg |-> Unset], label |-> 67]})
  \cup Unauthorized("StartAuthSession",
         {[tpm_key |-> k, bind |-> b, nonce |-> n, encrypted_salt |-> s,
           session_type |-> t, symmetric |-> [algorithm |-> a], auth_hash |-> h] :
            k \in {Unset, "t1"}, b \in {Unset}, n \in {0, 67}, s \in {0, 5},
            t \in {"HMAC", "POLICY"}, a \in {Unset, "AES"}, h \in {Unset, "SHA1"}})
============================================================================
