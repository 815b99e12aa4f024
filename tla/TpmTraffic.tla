----------------------------- MODULE TpmTraffic -----------------------------
(***************************************************************************)
(* Commands and responses as the session layer and the TPM see them.       *)
(*                                                                         *)
(* A command is abstracted to what the layer reads of it:                  *)
(*   cc       the command code                                             *)
(*   tag      "SESSIONS" or "NO_SESSIONS"                                  *)
(*   handles  the handle area                                              *)
(*   auth     the entries of the authorization area                        *)
(*   start    the StartAuthSession parameters (unused by other commands)   *)
(* and a response to its tag, whether it succeeded, its output handle, the *)
(* Name among its parameters, and the first nonceTPM it carries (0 stands  *)
(* for an empty nonce).  The byte layout of both is the subject of the     *)
(* module PatchLayout.                                                     *)
(*                                                                         *)
(* The hash functions are taken as injective: an HMAC is the record of     *)
(* everything it digests that the two ends hold separately.                *)
(***************************************************************************)
EXTENDS Integers, FiniteSets, Sequences, CommandAttributes

CONSTANTS
  TransientHandles,   \* 0x80xxxxxx
  PersistentHandles,  \* 0x81xxxxxx
  HmacHandles,        \* 0x02xxxxxx, HMAC sessions
  PolicyHandles,      \* 0x03xxxxxx, policy and trial sessions
  FixedHandles,       \* 0x40xxxxxx permanent and 0x00xxxxxx PCR
  OtherHandles,       \* every other handle type, such as 0x01xxxxxx NV indices
  Password,           \* TPM_RS_PW
  NullHandle,         \* TPM_RH_NULL
  NoHandle,           \* the zero a cleared handle field holds
  ObjectNames,        \* Names the TPM gives to objects
  NoName,             \* a failed Name lookup
  MaxNames            \* kMaxNames

SessionHandles == HmacHandles \cup PolicyHandles

\* Handles whose Name is the handle itself (HandleName's raw 4 byte cases).
RawHandles == FixedHandles \cup SessionHandles

Handles == TransientHandles \cup PersistentHandles \cup RawHandles
             \cup OtherHandles

\* The handle classes are told apart by their top byte.
ASSUME HandleAssumption ==
  /\ TransientHandles \cap (PersistentHandles \cup RawHandles) = {}
  /\ PersistentHandles \cap RawHandles = {}
  /\ OtherHandles \cap (TransientHandles \cup PersistentHandles \cup RawHandles)
       = {}
  /\ FixedHandles \cap SessionHandles = {}
  /\ HmacHandles \cap PolicyHandles = {}
  /\ {Password, NullHandle} \subseteq FixedHandles
  /\ Password # NullHandle
  /\ NoHandle \notin Handles

ASSUME NameAssumption ==
  /\ NoName \notin ObjectNames \cup RawHandles
  /\ IsFiniteSet(TransientHandles)
  /\ MaxNames \in Nat \ {0}

-----------------------------------------------------------------------------
(* Commands and responses on the wire.                                     *)

HashAlgs == {"NONE", "SHA256", "OTHER"}
StartParams ==
  [salt : {"EMPTY", "SALTED"}, type : {"HMAC", "POLICY", "TRIAL"},
   hash : HashAlgs]
NoStart == [salt |-> "EMPTY", type |-> "TRIAL", hash |-> "NONE"]

\* What an HMAC digests: the command code and handle Names (cpHash) and the
\* nonceTPM.  The seed's own bytes are an HMAC over nothing, nonce -1.
HmacValues ==
  [cc : TrackedCommands, names : Seq(ObjectNames \cup RawHandles), nonce : Nat]
SeedHmac == [cc |-> "Seed", names |-> << >>, nonce |-> -1]

AuthEntries ==
  [handle : Handles, continue : BOOLEAN, hmac : HmacValues \cup {SeedHmac}]

Commands ==
  [cc : EmittedCommands, tag : {"SESSIONS", "NO_SESSIONS"},
   handles : Seq(Handles), auth : Seq(AuthEntries), start : StartParams]

Responses ==
  [tag : {"SESSIONS", "NO_SESSIONS"}, ok : BOOLEAN,
   handle : Handles \cup {NoHandle}, name : ObjectNames \cup {NoName},
   nonce : Nat]

\* An empty command buffer.
NoCommand ==
  [cc |-> "GetRandom", tag |-> "NO_SESSIONS", handles |-> << >>,
   auth |-> << >>, start |-> NoStart]
==============================================================================
