----------------------------- MODULE SessionAuth -----------------------------
(***************************************************************************)
(* The reactive HMAC session layer of the harness                          *)
(* (src/harness/session_auth.cc, include/harness/command_attributes.h).    *)
(*                                                                         *)
(* The layer keeps one global, g_session, and is called around every       *)
(* command: SessionAuthPatchCommand before it is sent, and                 *)
(* SessionAuthProcessResponse on what the TPM answers.  It learns of a     *)
(* session from the StartAuthSession traffic itself, then fills in the     *)
(* nonce and HMAC of later commands authorized by that session.            *)
(***************************************************************************)
EXTENDS TpmTraffic

\* Variant: the Load entry is missing from the dispatch table.
NameExtractorsWithoutLoad == {"CreatePrimary"}

\* kNameExtractors: the commands whose response Name is recorded.
NameExtractors == {"CreatePrimary", "Load"}

-----------------------------------------------------------------------------
VARIABLE g_session

\* names is the NameTable: the handles of its entries, each with its Name.
SessionStates ==
  [initialized : BOOLEAN,
   handle : Handles \cup {NoHandle},
   digest_size : {0, 32},
   nonce_tpm : Nat,
   last_command_code : EmittedCommands \cup {"NONE"},
   names : UNION {[S -> ObjectNames] : S \in SUBSET TransientHandles},
   pending : BOOLEAN,
   compatible : BOOLEAN,
   auth_hash : HashAlgs]

NoEntries == [h \in {} |-> NoName]

\* The all-zero structure: static initialization, and every memset.
ZeroSession ==
  [initialized |-> FALSE, handle |-> NoHandle, digest_size |-> 0,
   nonce_tpm |-> 0, last_command_code |-> "NONE", names |-> NoEntries,
   pending |-> FALSE, compatible |-> FALSE, auth_hash |-> "NONE"]

SessionAuthTypeOK ==
  /\ g_session \in SessionStates
  /\ Cardinality(DOMAIN g_session.names) <= MaxNames

DigestSizeFor(alg) == IF alg = "SHA256" THEN 32 ELSE 0

-----------------------------------------------------------------------------
(* NameTable.                                                              *)

\* Variants: the capacity test is missing; a known handle is not updated.
NameTableAddUnbounded(names, h, name) ==
  [k \in DOMAIN names \cup {h} |-> IF k = h THEN name ELSE names[k]]
NameTableAddKeepsOld(names, h, name) ==
  IF h \notin DOMAIN names /\ Cardinality(DOMAIN names) < MaxNames
    THEN [k \in DOMAIN names \cup {h} |-> IF k = h THEN name ELSE names[k]]
    ELSE names

\* A new handle is dropped when the table is full; a known one is updated.
NameTableAdd(names, h, name) ==
  IF h \in DOMAIN names \/ Cardinality(DOMAIN names) < MaxNames
    THEN [k \in DOMAIN names \cup {h} |-> IF k = h THEN name ELSE names[k]]
    ELSE names

NameTableLookup(names, h) == IF h \in DOMAIN names THEN names[h] ELSE NoName

\* Variant: a persistent handle is looked up, a transient one is taken raw.
HandleNameRawTransient(names, h) ==
  IF h \in PersistentHandles
    THEN NameTableLookup(names, h)
    ELSE IF h \in RawHandles \cup TransientHandles THEN h ELSE NoName

HandleName(names, h) ==
  IF h \in TransientHandles \cup PersistentHandles
    THEN NameTableLookup(names, h)
    ELSE IF h \in RawHandles THEN h ELSE NoName

-----------------------------------------------------------------------------
(* SessionAuthPatchCommand.                                                *)

\* The StartAuthSession parameters under which the session key is empty and
\* the hash is one the layer can compute.
CompatibleStart(cmd) ==
  /\ cmd.handles[1] = NullHandle
  /\ cmd.handles[2] = NullHandle
  /\ cmd.start.salt = "EMPTY"
  /\ cmd.start.type = "HMAC"
  /\ DigestSizeFor(cmd.start.hash) # 0

CaptureStartAuthSessionCommand(cmd) ==
  g_session' = [g_session EXCEPT !.last_command_code = cmd.cc,
                                 !.pending = TRUE,
                                 !.compatible = CompatibleStart(cmd),
                                 !.auth_hash = cmd.start.hash]

CommandNames(cmd) ==
  [i \in 1..HandleCount[cmd.cc] |-> HandleName(g_session.names, cmd.handles[i])]

\* The conditions on the way to PatchAuthArea.  The authorization area must
\* hold one entry, and that entry must be for the armed session.
Patchable(cmd) ==
  /\ cmd.cc # "StartAuthSession"
  /\ g_session.initialized
  /\ g_session.digest_size # 0
  /\ cmd.tag = "SESSIONS"
  /\ cmd.cc \in TrackedCommands
  /\ Len(cmd.auth) = 1
  /\ cmd.auth[1].handle = g_session.handle
  /\ \A i \in 1..HandleCount[cmd.cc] : CommandNames(cmd)[i] # NoName

ComputeHmac(cmd) ==
  [cc |-> cmd.cc, names |-> CommandNames(cmd), nonce |-> g_session.nonce_tpm]

PatchAuthArea(cmd) ==
  [cmd EXCEPT !.auth = <<[cmd.auth[1] EXCEPT !.hmac = ComputeHmac(cmd)]>>]

PatchedCommand(cmd) == IF Patchable(cmd) THEN PatchAuthArea(cmd) ELSE cmd

\* What the call does to the layer; what it returns is PatchedCommand(cmd).
SessionAuthPatchCommand(cmd) ==
  IF cmd.cc = "StartAuthSession"
    THEN CaptureStartAuthSessionCommand(cmd)
    ELSE g_session' = [g_session EXCEPT !.last_command_code = cmd.cc]

-----------------------------------------------------------------------------
(* SessionAuthProcessResponse.                                             *)

\* Everything else is cleared, the Name table included.
SessionAuthInit(h, nonce, alg) ==
  g_session' = [ZeroSession EXCEPT !.initialized = TRUE,
                                   !.handle = h,
                                   !.digest_size = DigestSizeFor(alg),
                                   !.nonce_tpm = nonce]

\* Variant: only the StartAuthSession bookkeeping is cleared.
SessionAuthResetPartly ==
  g_session' = [g_session EXCEPT !.pending = FALSE, !.compatible = FALSE]

SessionAuthReset == g_session' = ZeroSession

Arms(r) ==
  /\ g_session.pending
  /\ r.tag = "NO_SESSIONS"
  /\ r.ok
  /\ g_session.compatible

\* The response to a compatible StartAuthSession arms the layer.
ArmSession(r) ==
  /\ Arms(r)
  /\ SessionAuthInit(r.handle, r.nonce, g_session.auth_hash)

\* Variant: a failed StartAuthSession is still waited for.
DropStartStaysPending(r) ==
  /\ g_session.pending
  /\ ~ Arms(r)
  /\ UNCHANGED g_session

\* Any other response to a StartAuthSession only ends the wait for it.
DropStart(r) ==
  /\ g_session.pending
  /\ ~ Arms(r)
  /\ g_session' = [g_session EXCEPT !.pending = FALSE, !.compatible = FALSE]

Refreshes(r) ==
  /\ ~ g_session.pending
  /\ g_session.initialized
  /\ r.tag = "SESSIONS"
  /\ r.ok
  /\ g_session.last_command_code \in TrackedCommands

\* Variant: the nonce_size > 0 test is missing.
RefreshedNonceEvenEmpty(r) == r.nonce

\* An empty nonceTPM, which answers a password, is not stored.
RefreshedNonce(r) == IF r.nonce > 0 THEN r.nonce ELSE g_session.nonce_tpm

\* OutHandleCount is nonzero for every name extractor.
PopulateNameFromResponse(r) ==
  IF /\ OutHandleCount[g_session.last_command_code] > 0
     /\ g_session.last_command_code \in NameExtractors
    THEN NameTableAdd(g_session.names, r.handle, r.name)
    ELSE g_session.names

RefreshSession(r) ==
  /\ Refreshes(r)
  /\ g_session' = [g_session EXCEPT !.nonce_tpm = RefreshedNonce(r),
                                    !.names = PopulateNameFromResponse(r)]

IgnoreResponse(r) ==
  /\ ~ g_session.pending
  /\ ~ Refreshes(r)
  /\ UNCHANGED g_session

SessionAuthProcessResponse(r) ==
  \/ ArmSession(r)
  \/ DropStart(r)
  \/ RefreshSession(r)
  \/ IgnoreResponse(r)

SessionAuthGetSessionHandle ==
  IF g_session.initialized THEN g_session.handle ELSE NoHandle
==============================================================================
