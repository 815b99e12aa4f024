----------------------------- MODULE ProtoFuzzer -----------------------------
(***************************************************************************)
(* The structure-aware fuzz target (src/proto-fuzzer.cc): the session      *)
(* layer and the TPM, driven through one fuzz iteration after another.     *)
(*                                                                         *)
(* An iteration powers the TPM on, resets the layer, and then for each     *)
(* command of the input marshals it, lets the layer patch it, sends it and *)
(* hands the response to the layer.  A command that does not marshal is    *)
(* skipped.  The input is arbitrary: any of Requests may come next, and    *)
(* the input may end after any command.                                    *)
(*                                                                         *)
(* Bounds: MaxCommands commands in an iteration, MaxIterations iterations. *)
(***************************************************************************)
EXTENDS Tpm, SessionAuth

CONSTANTS
  Requests,      \* what MarshalCommand can produce
  MaxCommands,
  MaxIterations

\* A request is a well-formed command that carries the seed's own HMACs.  Its
\* handle area is as long as the attribute table says, and it is tagged by its
\* command code (proto_normalization.cc, proto_postprocessors.cc).
ASSUME RequestAssumption ==
  \A r \in Requests :
    /\ r \in Commands
    /\ \A i \in 1..Len(r.auth) : r.auth[i].hmac = SeedHmac
    /\ r.cc \in TrackedCommands => Len(r.handles) = HandleCount[r.cc]
    /\ r.tag = "SESSIONS" <=> r.cc \in SessionCommands
    /\ r.tag = "NO_SESSIONS" => r.auth = << >>

ASSUME BoundAssumption ==
  /\ MaxCommands \in Nat
  /\ MaxIterations \in Nat

VARIABLES
  pc,        \* where DEFINE_PROTO_FUZZER is
  wire,      \* the command buffer, after patching
  sent,      \* commands of this iteration so far
  iteration,
  \* History variables, read by the properties alone.
  epoch,     \* the clock when the iteration began
  armedAt,   \* the clock when the layer was last armed
  desynced   \* since then, a command the layer cannot follow has succeeded

driverVars == <<pc, wire, sent, iteration>>
historyVars == <<epoch, armedAt, desynced>>
vars == <<g_session, tpmVars, driverVars, historyVars>>

Init ==
  /\ g_session = ZeroSession
  /\ sessions = Nothing
  /\ objects = Nothing
  /\ clock = 0
  /\ response = NoResponse
  /\ pc = "idle"
  /\ wire = NoCommand
  /\ sent = 0
  /\ iteration = 0
  /\ epoch = 0
  /\ armedAt = 0
  /\ desynced = FALSE

\* TPMManufactureIfNeeded, TPMStartup, SendTPM2StartupCommand and
\* SessionAuthReset.  The NV of the last iteration is gone, so the TPM is new.
BeginIteration ==
  /\ pc = "idle"
  /\ iteration < MaxIterations
  /\ SessionAuthReset
  /\ TpmOff
  /\ pc' = "loop"
  /\ sent' = 0
  /\ iteration' = iteration + 1
  /\ epoch' = clock
  /\ armedAt' = clock
  /\ desynced' = FALSE
  /\ UNCHANGED <<clock, response, wire>>

\* MarshalCommand fails: the loop goes on with the next command.
SkipCommand ==
  /\ pc = "loop"
  /\ sent < MaxCommands
  /\ sent' = sent + 1
  /\ UNCHANGED <<g_session, tpmVars, pc, wire, iteration, historyVars>>

MarshalAndPatch ==
  /\ pc = "loop"
  /\ sent < MaxCommands
  /\ \E r \in Requests :
       /\ wire' = PatchedCommand(r)
       /\ SessionAuthPatchCommand(r)
  /\ pc' = "send"
  /\ sent' = sent + 1
  /\ UNCHANGED <<tpmVars, iteration, historyVars>>

\* The three kinds of successful command after which the layer's nonceTPM is
\* no longer that of the armed session: one authorized by the armed session
\* that the layer does not recognize as such (its code is not in the table,
\* or another entry comes first), one authorized by another session, and a
\* session the layer does not arm that takes over the armed handle.
LosesNonce(cmd, r) ==
  /\ g_session.initialized
  /\ r.ok
  /\ \/ /\ cmd.tag = "SESSIONS"
        /\ Uses(cmd, g_session.handle)
        /\ \/ cmd.cc \notin TrackedCommands
           \/ cmd.auth[1].handle # g_session.handle
     \/ /\ cmd.tag = "SESSIONS"
        /\ cmd.cc \in TrackedCommands
        /\ cmd.auth[1].handle \notin {Password, g_session.handle}
     \/ /\ cmd.cc = "StartAuthSession"
        /\ ~ CompatibleStart(cmd)
        /\ r.handle = g_session.handle

SendCommand ==
  /\ pc = "send"
  /\ TpmExecute(wire)
  /\ pc' = "process"
  /\ desynced' = (desynced \/ LosesNonce(wire, response'))
  /\ UNCHANGED <<g_session, wire, sent, iteration, epoch, armedAt>>

ProcessResponse ==
  /\ pc = "process"
  /\ SessionAuthProcessResponse(response)
  /\ armedAt' = IF Arms(response) THEN clock ELSE armedAt
  /\ desynced' = (desynced /\ ~ Arms(response))
  /\ pc' = "loop"
  /\ wire' = NoCommand
  /\ response' = NoResponse
  /\ UNCHANGED <<sessions, objects, clock, sent, iteration, epoch>>

\* SendTPM2ShutdownCommand and TPMShutdown, which deletes the NV.
EndIteration ==
  /\ pc = "loop"
  /\ TpmOff
  /\ pc' = "idle"
  /\ UNCHANGED <<g_session, clock, response, wire, sent, iteration, historyVars>>

Next ==
  \/ BeginIteration
  \/ SkipCommand
  \/ MarshalAndPatch
  \/ SendCommand
  \/ ProcessResponse
  \/ EndIteration

Spec == Init /\ [][Next]_vars

-----------------------------------------------------------------------------
(* Properties.                                                             *)

\* The variables hold what the code can store in them; in particular the Name
\* table never outgrows its array (NameTable::Add).
TypeOK ==
  /\ SessionAuthTypeOK
  /\ TpmTypeOK
  /\ pc \in {"idle", "loop", "send", "process"}
  /\ wire \in Commands
  /\ sent \in Nat
  /\ iteration \in Nat
  /\ epoch \in Nat
  /\ armedAt \in Nat
  /\ desynced \in BOOLEAN

\* The layer waits for a StartAuthSession response exactly while one is on its
\* way, and last_command_code names the command in flight: a response is never
\* taken for the answer to another command.
ResponseMatchesCommand ==
  /\ g_session.pending <=>
       pc \in {"send", "process"} /\ wire.cc = "StartAuthSession"
  /\ pc \in {"send", "process"} => g_session.last_command_code = wire.cc

\* The layer holds the TPM's nonce for the session it has armed, for as long as
\* that session lives, and the session is one it can compute HMACs for.
InSync ==
  g_session.initialized /\ g_session.handle \in DOMAIN sessions =>
    /\ sessions[g_session.handle].keyless
    /\ sessions[g_session.handle].nonce = g_session.nonce_tpm

\* Between commands the layer is in sync unless one of the three kinds of
\* command in LosesNonce has succeeded since it was armed: nothing else, no
\* failure, password, skipped command or unarmed session, can lose the nonce.
SyncUnlessDesynced == pc # "process" /\ ~ desynced => InSync

\* A recorded Name is the Name of the object now behind that handle, although
\* objects are flushed unseen and handles are used again.
RecordedNamesAreCurrent ==
  pc # "process" =>
    \A h \in DOMAIN g_session.names \cap DOMAIN objects :
      g_session.names[h] = objects[h].name

\* Every object created since the layer was armed is in the table, unless the
\* table is full: no response that returns an object escapes the layer.
ObjectsSinceArmingRecorded ==
  pc # "process" /\ g_session.initialized =>
    \A h \in DOMAIN objects :
      objects[h].born > armedAt =>
        \/ h \in DOMAIN g_session.names
        \/ Cardinality(DOMAIN g_session.names) = MaxNames

IsPatched(cmd) == cmd.auth # << >> /\ cmd.auth[1].hmac # SeedHmac

\* A computed HMAC is the one the TPM expects, if the layer is not desynced and
\* the session and every entity of the command exist.
PatchedHmacAccepted ==
  ( /\ pc = "send"
    /\ ~ desynced
    /\ IsPatched(wire)
    /\ wire.auth[1].handle \in DOMAIN sessions
    /\ EntitiesExist(wire) )
  => AcceptsEntry(wire, wire.auth[1])

\* What an armed layer holds was learned in this iteration: nothing of an
\* earlier input survives SessionAuthReset.
LearnedThisIteration ==
  g_session.initialized =>
    /\ epoch < armedAt
    /\ epoch < g_session.nonce_tpm
    /\ g_session.handle \in HmacHandles

\* The layer's own records, seen from outside: the session it is armed for and the
\* objects of its Name table.
Promise ==
  INSTANCE SessionPromise
    WITH armed <- SessionAuthGetSessionHandle, known <- DOMAIN g_session.names,
         lost <- desynced

\* A layer that sees the traffic alone does what one could do that looks into the
\* TPM: it arms for the sessions that are keyless there, fills in the same
\* commands, and each HMAC is made of the TPM's own nonce and Names
\* (session_auth.cc:461-625).
KeepsPromise == Promise!Spec

-----------------------------------------------------------------------------
(* What comments and headers of the repository say of the layer, and what  *)
(* the code does not do.                                                   *)

\* The first entry of a command with several is filled in when it is for the
\* armed session and the other entries are passwords (session_auth.cc:507-509).
FirstOfSeveralEntriesFilled ==
  ( /\ pc = "send"
    /\ g_session.initialized
    /\ wire.cc \in TrackedCommands
    /\ wire.auth # << >>
    /\ wire.auth[1].handle = g_session.handle
    /\ \A i \in 2..Len(wire.auth) : wire.auth[i].handle = Password
    /\ \A i \in 1..Len(wire.handles) : wire.handles[i] \in RawHandles )
  => IsPatched(wire)

\* The nonce is refreshed for the next command's HMAC (session_auth.cc:614),
\* on every command the fuzzer emits (command_attributes.h:12-13).
NonceIsCurrent == pc # "process" => InSync
==============================================================================
