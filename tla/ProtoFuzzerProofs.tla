-------------------------- MODULE ProtoFuzzerProofs --------------------------
(***************************************************************************)
(* Theorems about the fuzz target, for every set of handles, Names,        *)
(* requests and every bound.                                               *)
(***************************************************************************)
EXTENDS ProtoFuzzer, FiniteSetTheorems, SequenceTheorems, TLAPS

-----------------------------------------------------------------------------
(* The operators of the layer.                                             *)

\* Storing a Name keeps the table a map from transient handles to Names, and
\* within its capacity.
LEMMA NameTableAddType ==
  ASSUME NEW names, IsMap(names, TransientHandles, ObjectNames),
         Cardinality(DOMAIN names) <= MaxNames,
         NEW h \in TransientHandles, NEW name \in ObjectNames
  PROVE  /\ IsMap(NameTableAdd(names, h, name), TransientHandles, ObjectNames)
         /\ Cardinality(DOMAIN NameTableAdd(names, h, name)) <= MaxNames
<1> DEFINE added == [k \in DOMAIN names \cup {h} |->
                       IF k = h THEN name ELSE names[k]]
<1>1. CASE h \in DOMAIN names
  <2>1. DOMAIN added = DOMAIN names
    BY <1>1
  <2>2. added \in [DOMAIN added -> ObjectNames]
    BY DEF IsMap
  <2>. QED
    BY <1>1, <2>1, <2>2 DEF NameTableAdd, IsMap
<1>2. CASE h \notin DOMAIN names /\ Cardinality(DOMAIN names) < MaxNames
  <2>1. IsFiniteSet(DOMAIN names)
    BY FS_Subset, NameAssumption DEF IsMap
  <2>2. Cardinality(DOMAIN names \cup {h}) = Cardinality(DOMAIN names) + 1
    BY <2>1, <1>2, FS_AddElement
  <2>3. Cardinality(DOMAIN names) \in Nat
    BY <2>1, FS_CardinalityType
  <2>4. added \in [DOMAIN added -> ObjectNames] /\ DOMAIN added = DOMAIN names \cup {h}
    BY DEF IsMap
  <2>5. Cardinality(DOMAIN added) <= MaxNames
    BY <2>2, <2>3, <2>4, <1>2, NameAssumption
  <2>6. NameTableAdd(names, h, name) = added
    BY <1>2 DEF NameTableAdd
  <2>. QED
    BY <2>4, <2>5, <2>6 DEF IsMap
<1>3. CASE h \notin DOMAIN names /\ ~ (Cardinality(DOMAIN names) < MaxNames)
  BY <1>3 DEF NameTableAdd
<1>. QED
  BY <1>1, <1>2, <1>3

\* The two ways of saying that a value is a partial function.
LEMMA MapsAreMaps ==
  ASSUME NEW f, NEW D, NEW R
  PROVE  IsMap(f, D, R) <=> f \in UNION {[S -> R] : S \in SUBSET D}
BY DEF IsMap

-----------------------------------------------------------------------------
(* Type correctness.                                                       *)

\* What the initial state and every reset store.
LEMMA ZeroSessionType ==
  /\ ZeroSession \in SessionStates
  /\ Cardinality(DOMAIN ZeroSession.names) <= MaxNames
<1>1. NoEntries \in [{} -> ObjectNames]
  BY DEF NoEntries
<1>2. ZeroSession \in SessionStates
  BY <1>1 DEF ZeroSession, SessionStates, HashAlgs
<1>3. DOMAIN ZeroSession.names = {}
  BY DEF ZeroSession, NoEntries
<1>. QED
  BY <1>2, <1>3, FS_EmptySet, NameAssumption

LEMMA NothingIsMap == \A D, R : IsMap(Nothing, D, R)
BY DEF Nothing, IsMap

LEMMA InitType == Init => TypeOK
<1>. SUFFICES ASSUME Init PROVE TypeOK
  OBVIOUS
<1>1. SessionAuthTypeOK
  BY ZeroSessionType DEF Init, SessionAuthTypeOK
<1>2. TpmTypeOK
  BY NothingIsMap, HandleAssumption
  DEF Init, TpmTypeOK, NoResponse, Responses
<1>3. wire \in Commands
  BY DEF Init, NoCommand, Commands, EmittedCommands, PlainCommands, NoStart,
         StartParams, HashAlgs
<1>. QED
  BY <1>1, <1>2, <1>3 DEF Init, TypeOK

\* A patchable command has one entry, and its HMAC is well formed.
LEMMA HmacType ==
  ASSUME SessionAuthTypeOK, NEW cmd \in Commands, Patchable(cmd)
  PROVE  cmd.auth[1] \in AuthEntries /\ ComputeHmac(cmd) \in HmacValues
<1>1. cmd.cc \in TrackedCommands /\ Len(cmd.auth) = 1
  BY DEF Patchable
<1>2. cmd.auth[1] \in AuthEntries
  BY <1>1 DEF Commands
<1>3. HandleCount[cmd.cc] \in Nat
  BY <1>1 DEF HandleCount
<1>4. ASSUME NEW i \in 1..HandleCount[cmd.cc]
      PROVE  CommandNames(cmd)[i] \in ObjectNames \cup RawHandles
  <2>1. CommandNames(cmd)[i] = HandleName(g_session.names, cmd.handles[i])
    BY DEF CommandNames
  <2>2. CommandNames(cmd)[i] # NoName
    BY DEF Patchable
  <2>3. g_session.names \in [DOMAIN g_session.names -> ObjectNames]
    BY DEF SessionAuthTypeOK, SessionStates
  <2>. QED
    BY <2>1, <2>2, <2>3 DEF HandleName, NameTableLookup
<1>5. CommandNames(cmd)
        \in [1..HandleCount[cmd.cc] -> ObjectNames \cup RawHandles]
  BY <1>4 DEF CommandNames
<1>6. CommandNames(cmd) \in Seq(ObjectNames \cup RawHandles)
  BY <1>3, <1>5, SeqDef
<1>7. ComputeHmac(cmd) \in HmacValues
  BY <1>1, <1>6 DEF ComputeHmac, HmacValues, SessionAuthTypeOK, SessionStates
<1>. QED
  BY <1>2, <1>7

\* Patching gives a command again.
LEMMA PatchedType ==
  ASSUME SessionAuthTypeOK, NEW cmd \in Commands
  PROVE  PatchedCommand(cmd) \in Commands
<1>1. CASE ~ Patchable(cmd)
  BY <1>1 DEF PatchedCommand
<1>2. CASE Patchable(cmd)
  <2>1. <<[cmd.auth[1] EXCEPT !.hmac = ComputeHmac(cmd)]>> \in Seq(AuthEntries)
    BY <1>2, HmacType DEF AuthEntries
  <2>2. PatchAuthArea(cmd) \in Commands
    BY <2>1 DEF PatchAuthArea, Commands
  <2>. QED
    BY <1>2, <2>2 DEF PatchedCommand
<1>. QED
  BY <1>1, <1>2

\* The layer's own steps keep its type.
LEMMA PatchStepType ==
  ASSUME SessionAuthTypeOK, NEW cmd \in Commands, SessionAuthPatchCommand(cmd)
  PROVE  SessionAuthTypeOK'
<1>1. PICK c \in BOOLEAN : c = CompatibleStart(cmd)
  BY DEF CompatibleStart
<1>2. \/ g_session' = [g_session EXCEPT !.last_command_code = cmd.cc]
      \/ g_session' = [g_session EXCEPT !.last_command_code = cmd.cc,
                                        !.pending = TRUE,
                                        !.compatible = c,
                                        !.auth_hash = cmd.start.hash]
  BY <1>1 DEF SessionAuthPatchCommand, CaptureStartAuthSessionCommand
<1>3. cmd.cc \in EmittedCommands /\ cmd.start.hash \in HashAlgs
  BY DEF Commands, StartParams
<1>4. g_session' \in SessionStates /\ g_session'.names = g_session.names
  BY <1>2, <1>3 DEF SessionAuthTypeOK, SessionStates
<1>. QED
  BY <1>4 DEF SessionAuthTypeOK

LEMMA ResetStepType ==
  ASSUME SessionAuthReset
  PROVE  SessionAuthTypeOK'
BY ZeroSessionType DEF SessionAuthReset, SessionAuthTypeOK

\* Names are recorded from responses that carry a transient handle and a Name.
LEMMA ResponseStepType ==
  ASSUME SessionAuthTypeOK, NEW r \in Responses, SessionAuthProcessResponse(r),
         r.ok /\ r.tag = "SESSIONS"
           /\ g_session.last_command_code \in NameExtractors
         => r.handle \in TransientHandles /\ r.name \in ObjectNames
  PROVE  SessionAuthTypeOK'
<1>1. CASE ArmSession(r)
  <2>1. DigestSizeFor(g_session.auth_hash) \in {0, 32}
    BY DEF DigestSizeFor
  <2>2. g_session' \in SessionStates /\ g_session'.names = ZeroSession.names
    BY <1>1, <2>1, ZeroSessionType
    DEF ArmSession, SessionAuthInit, SessionStates, Responses
  <2>. QED
    BY <2>2, ZeroSessionType DEF SessionAuthTypeOK
<1>2. CASE DropStart(r)
  <2>1. g_session' \in SessionStates /\ g_session'.names = g_session.names
    BY <1>2 DEF DropStart, SessionAuthTypeOK, SessionStates
  <2>. QED
    BY <2>1 DEF SessionAuthTypeOK
<1>3. CASE RefreshSession(r)
  <2>1. /\ IsMap(PopulateNameFromResponse(r), TransientHandles, ObjectNames)
        /\ Cardinality(DOMAIN PopulateNameFromResponse(r)) <= MaxNames
    <3>1. /\ IsMap(g_session.names, TransientHandles, ObjectNames)
          /\ Cardinality(DOMAIN g_session.names) <= MaxNames
      BY MapsAreMaps DEF SessionAuthTypeOK, SessionStates
    <3>2. CASE g_session.last_command_code \in NameExtractors
      <4>1. r.handle \in TransientHandles /\ r.name \in ObjectNames
        BY <1>3, <3>2 DEF RefreshSession, Refreshes
      <4>. QED
        BY <3>1, <4>1, NameTableAddType DEF PopulateNameFromResponse
    <3>3. CASE g_session.last_command_code \notin NameExtractors
      BY <3>1, <3>3 DEF PopulateNameFromResponse
    <3>. QED
      BY <3>2, <3>3
  <2>2. PopulateNameFromResponse(r)
          \in UNION {[S -> ObjectNames] : S \in SUBSET TransientHandles}
    BY <2>1, MapsAreMaps
  <2>3. RefreshedNonce(r) \in Nat
    BY DEF RefreshedNonce, Responses, SessionAuthTypeOK, SessionStates
  <2>4. /\ g_session' \in SessionStates
        /\ g_session'.names = PopulateNameFromResponse(r)
    BY <1>3, <2>2, <2>3 DEF RefreshSession, SessionAuthTypeOK, SessionStates
  <2>. QED
    BY <2>1, <2>4 DEF SessionAuthTypeOK
<1>4. CASE IgnoreResponse(r)
  BY <1>4 DEF IgnoreResponse, SessionAuthTypeOK
<1>. QED
  BY <1>1, <1>2, <1>3, <1>4 DEF SessionAuthProcessResponse

-----------------------------------------------------------------------------
(* The inductive invariant.                                                *)

\* The command buffer holds a request, patched or not; the HMAC of a patched
\* one was computed from what the layer still holds.
WireInv ==
  /\ wire.cc \in TrackedCommands => Len(wire.handles) = HandleCount[wire.cc]
  /\ wire.tag = "SESSIONS" <=> wire.cc \in SessionCommands
  /\ pc = "send" /\ IsPatched(wire) =>
       /\ g_session.initialized
       /\ wire.auth[1].handle = g_session.handle
       /\ wire.cc \in TrackedCommands
       /\ \A i \in 1..HandleCount[wire.cc] : CommandNames(wire)[i] # NoName
       /\ wire.auth[1].hmac = ComputeHmac(wire)

\* The StartAuthSession bookkeeping describes the command in flight.
StartInv ==
  /\ ResponseMatchesCommand
  /\ pc \in {"send", "process"} /\ wire.cc = "StartAuthSession" =>
       /\ g_session.compatible <=> CompatibleStart(wire)
       /\ g_session.auth_hash = wire.start.hash

UnarmedInv == ~ g_session.initialized => DOMAIN g_session.names = {}

\* The response buffer answers the command buffer.
AnswerInv ==
  pc = "process" /\ response.ok =>
    /\ response.tag = "SESSIONS" <=> wire.cc \in SessionCommands
    /\ response.nonce > 0 => response.nonce > epoch
    /\ wire.cc \in NameExtractors =>
         /\ response.handle \in DOMAIN objects
         /\ response.name = objects[response.handle].name
    /\ wire.cc = "StartAuthSession" =>
         /\ response.handle \in DOMAIN sessions
         /\ sessions[response.handle].nonce = response.nonce
         /\ sessions[response.handle].keyless <=> Keyless(wire)
         /\ response.nonce = clock
         /\ response.nonce > 0
         /\ wire.start.type = "HMAC" => response.handle \in HmacHandles

\* The nonce the layer will hold once it has seen the pending response.
NonceAfter ==
  IF pc = "process" /\ Refreshes(response)
    THEN RefreshedNonce(response) ELSE g_session.nonce_tpm

SyncInv ==
  ( /\ ~ desynced
    /\ g_session.initialized
    /\ g_session.handle \in DOMAIN sessions
    /\ ~ (pc = "process" /\ Arms(response)) )
  => /\ sessions[g_session.handle].keyless
     /\ sessions[g_session.handle].nonce = NonceAfter

\* The object the pending response announces.
Unseen(h) ==
  /\ pc = "process"
  /\ response.ok
  /\ wire.cc \in NameExtractors
  /\ h = response.handle

NamesInv ==
  \A h \in DOMAIN g_session.names \cap DOMAIN objects :
    g_session.names[h] = objects[h].name \/ Unseen(h)

BornInv ==
  /\ epoch <= armedAt /\ armedAt <= clock
  /\ \A h \in DOMAIN objects : objects[h].born <= clock
  /\ g_session.initialized =>
       \A h \in DOMAIN objects :
         objects[h].born > armedAt =>
           \/ h \in DOMAIN g_session.names
           \/ Cardinality(DOMAIN g_session.names) = MaxNames
           \/ Unseen(h)

IInv ==
  /\ TypeOK
  /\ WireInv
  /\ StartInv
  /\ UnarmedInv
  /\ AnswerInv
  /\ SyncInv
  /\ NamesInv
  /\ BornInv
  /\ LearnedThisIteration

LEMMA InitIInv == Init => IInv
<1>. SUFFICES ASSUME Init PROVE IInv
  OBVIOUS
<1>1. TypeOK
  BY InitType
<1>2. ~ g_session.initialized /\ DOMAIN g_session.names = {} /\ ~ g_session.pending
  BY DEF Init, ZeroSession, NoEntries
<1>3. DOMAIN objects = {} /\ pc = "idle" /\ ~ response.ok
  BY DEF Init, Nothing, NoResponse
<1>4. WireInv
  BY <1>3 DEF WireInv, Init, NoCommand, SessionCommands, HandleCount, TrackedCommands
<1>5. BornInv
  BY <1>2, <1>3 DEF BornInv, Init
<1>. QED
  BY <1>1, <1>2, <1>3, <1>4, <1>5
  DEF IInv, StartInv, ResponseMatchesCommand, UnarmedInv, AnswerInv, SyncInv,
      NamesInv, LearnedThisIteration

LEMMA BeginIInv == IInv /\ BeginIteration => IInv'
<1>. SUFFICES ASSUME IInv, BeginIteration PROVE IInv'
  OBVIOUS
<1>. USE DEF BeginIteration
<1>1. TypeOK'
  <2>1. SessionAuthTypeOK'
    BY ResetStepType
  <2>2. TpmTypeOK'
    BY NothingIsMap DEF TpmOff, TpmTypeOK, IInv, TypeOK
  <2>3. clock \in Nat /\ wire' \in Commands /\ iteration' \in Nat
    BY DEF IInv, TypeOK, TpmTypeOK
  <2>4. pc' \in {"idle", "loop", "send", "process"} /\ sent' \in Nat
    OBVIOUS
  <2>5. epoch' \in Nat /\ armedAt' \in Nat
    BY <2>3
  <2>6. desynced' \in BOOLEAN
    OBVIOUS
  <2>. QED
    BY <2>1, <2>2, <2>3, <2>4, <2>5, <2>6 DEF TypeOK
<1>2. /\ ~ g_session'.initialized
      /\ DOMAIN g_session'.names = {}
      /\ ~ g_session'.pending
  BY DEF SessionAuthReset, ZeroSession, NoEntries
<1>3. DOMAIN objects' = {} /\ pc' = "loop"
  BY DEF TpmOff, Nothing
<1>4. WireInv'
  BY <1>3 DEF IInv, WireInv
<1>5. BornInv'
  BY <1>2, <1>3 DEF BornInv, IInv, TypeOK, TpmTypeOK
<1>. QED
  BY <1>1, <1>2, <1>3, <1>4, <1>5
  DEF IInv, StartInv, ResponseMatchesCommand, UnarmedInv, AnswerInv, SyncInv,
      NamesInv, LearnedThisIteration

LEMMA SkipIInv == IInv /\ SkipCommand => IInv'
<1>. SUFFICES ASSUME IInv, SkipCommand PROVE IInv'
  OBVIOUS
<1>. USE DEF SkipCommand, tpmVars, historyVars
<1>1. TypeOK'
  BY DEF IInv, TypeOK, SessionAuthTypeOK, TpmTypeOK
<1>2. WireInv' /\ StartInv'
  BY DEF IInv, WireInv, StartInv, ResponseMatchesCommand
<1>3. UnarmedInv' /\ AnswerInv' /\ NamesInv'
  BY DEF IInv, UnarmedInv, AnswerInv, NamesInv, Unseen
<1>4. SyncInv'
  BY DEF IInv, SyncInv, NonceAfter
<1>5. BornInv' /\ LearnedThisIteration'
  BY DEF IInv, BornInv, Unseen, LearnedThisIteration
<1>. QED
  BY <1>1, <1>2, <1>3, <1>4, <1>5 DEF IInv

LEMMA EndIInv == IInv /\ EndIteration => IInv'
<1>. SUFFICES ASSUME IInv, EndIteration PROVE IInv'
  OBVIOUS
<1>. USE DEF EndIteration, historyVars
<1>0. DOMAIN objects' = {} /\ DOMAIN sessions' = {} /\ pc' = "idle"
  BY DEF TpmOff, Nothing
<1>1. TypeOK'
  BY NothingIsMap DEF IInv, TypeOK, SessionAuthTypeOK, TpmTypeOK, TpmOff
<1>2. WireInv' /\ StartInv'
  BY <1>0 DEF IInv, WireInv, StartInv, ResponseMatchesCommand
<1>3. UnarmedInv' /\ AnswerInv' /\ SyncInv' /\ NamesInv'
  BY <1>0 DEF IInv, UnarmedInv, AnswerInv, SyncInv, NamesInv
<1>4. BornInv' /\ LearnedThisIteration'
  BY <1>0 DEF IInv, BornInv, LearnedThisIteration
<1>. QED
  BY <1>1, <1>2, <1>3, <1>4 DEF IInv

LEMMA StutterIInv == IInv /\ UNCHANGED vars => IInv'
<1>. SUFFICES ASSUME IInv, UNCHANGED vars PROVE IInv'
  OBVIOUS
<1>. USE DEF vars, tpmVars, driverVars, historyVars
<1>1. TypeOK'
  BY DEF IInv, TypeOK, SessionAuthTypeOK, TpmTypeOK
<1>2. WireInv'
  BY DEF IInv, WireInv, CommandNames, ComputeHmac
<1>3. StartInv' /\ UnarmedInv' /\ AnswerInv'
  BY DEF IInv, StartInv, ResponseMatchesCommand, UnarmedInv, AnswerInv
<1>4. SyncInv'
  BY DEF IInv, SyncInv, NonceAfter, Arms, Refreshes, RefreshedNonce
<1>5. NamesInv' /\ BornInv' /\ LearnedThisIteration'
  BY DEF IInv, NamesInv, BornInv, Unseen, LearnedThisIteration
<1>. QED
  BY <1>1, <1>2, <1>3, <1>4, <1>5 DEF IInv

\* A request is carried through the patch step whole, except for its HMAC.
LEMMA PatchKeeps ==
  ASSUME NEW r \in Commands
  PROVE  /\ PatchedCommand(r).cc = r.cc
         /\ PatchedCommand(r).tag = r.tag
         /\ PatchedCommand(r).handles = r.handles
         /\ PatchedCommand(r).start = r.start
BY DEF PatchedCommand, PatchAuthArea, Commands

LEMMA PatchedHmac ==
  ASSUME NEW r \in Requests, IsPatched(PatchedCommand(r))
  PROVE  /\ Patchable(r)
         /\ PatchedCommand(r).auth[1].handle = g_session.handle
         /\ PatchedCommand(r).auth[1].hmac = ComputeHmac(r)
<1>1. r \in Commands /\ \A i \in 1..Len(r.auth) : r.auth[i].hmac = SeedHmac
  BY RequestAssumption
<1>2. CASE ~ Patchable(r)
  <2>1. r.auth # << >> /\ r.auth \in Seq(AuthEntries)
    BY <1>1, <1>2 DEF IsPatched, PatchedCommand, Commands
  <2>2. 1 \in 1..Len(r.auth)
    BY <2>1
  <2>. QED
    BY <1>1, <1>2, <2>2 DEF IsPatched, PatchedCommand
<1>3. CASE Patchable(r)
  <2>1. r.auth[1] \in AuthEntries
    BY <1>1, <1>3 DEF Patchable, Commands
  <2>2. PatchedCommand(r).auth = <<[r.auth[1] EXCEPT !.hmac = ComputeHmac(r)]>>
    BY <1>1, <1>3 DEF PatchedCommand, PatchAuthArea, Commands
  <2>. QED
    BY <1>3, <2>1, <2>2 DEF Patchable, AuthEntries
<1>. QED
  BY <1>2, <1>3

LEMMA MarshalIInv == IInv /\ MarshalAndPatch => IInv'
<1>. SUFFICES ASSUME IInv, MarshalAndPatch PROVE IInv'
  OBVIOUS
<1>1. PICK r \in Requests : wire' = PatchedCommand(r) /\ SessionAuthPatchCommand(r)
  BY DEF MarshalAndPatch
<1>2. /\ r \in Commands
      /\ r.cc \in TrackedCommands => Len(r.handles) = HandleCount[r.cc]
      /\ r.tag = "SESSIONS" <=> r.cc \in SessionCommands
  BY RequestAssumption
<1>3. /\ pc = "loop" /\ pc' = "send"
      /\ UNCHANGED <<sessions, objects, clock, response, epoch, armedAt, desynced>>
  BY DEF MarshalAndPatch, tpmVars, historyVars
<1>4. /\ SessionAuthTypeOK
      /\ TpmTypeOK
      /\ ~ g_session.pending
  BY <1>3 DEF IInv, TypeOK, StartInv, ResponseMatchesCommand
<1>5. PICK c \in BOOLEAN : c = CompatibleStart(r)
  BY DEF CompatibleStart
<1>6. /\ g_session'.initialized = g_session.initialized
      /\ g_session'.handle = g_session.handle
      /\ g_session'.nonce_tpm = g_session.nonce_tpm
      /\ g_session'.names = g_session.names
      /\ g_session'.last_command_code = r.cc
      /\ g_session'.pending = (r.cc = "StartAuthSession")
      /\ r.cc = "StartAuthSession" =>
           /\ g_session'.compatible = c
           /\ g_session'.auth_hash = r.start.hash
  BY <1>1, <1>4, <1>5
  DEF SessionAuthPatchCommand, CaptureStartAuthSessionCommand, SessionAuthTypeOK,
      SessionStates
<1>7. /\ wire'.cc = r.cc
      /\ wire'.tag = r.tag
      /\ wire'.handles = r.handles
      /\ wire'.start = r.start
  BY <1>1, <1>2, PatchKeeps
<1>8. TypeOK'
  <2>1. SessionAuthTypeOK'
    BY <1>1, <1>2, <1>4, PatchStepType
  <2>2. wire' \in Commands
    BY <1>1, <1>2, <1>4, PatchedType
  <2>3. TpmTypeOK'
    BY <1>3, <1>4 DEF TpmTypeOK
  <2>. QED
    BY <2>1, <2>2, <2>3 DEF IInv, TypeOK, MarshalAndPatch, historyVars
<1>9. WireInv'
  <2>1. (CommandNames(wire))' = CommandNames(r)
    BY <1>6, <1>7 DEF CommandNames
  <2>2. (ComputeHmac(wire))' = ComputeHmac(r)
    BY <1>6, <1>7, <2>1 DEF ComputeHmac
  <2>3. ASSUME IsPatched(wire)'
        PROVE  /\ g_session'.initialized
               /\ wire'.auth[1].handle = g_session'.handle
               /\ wire'.cc \in TrackedCommands
               /\ \A i \in 1..HandleCount[wire'.cc] : (CommandNames(wire))'[i] # NoName
               /\ wire'.auth[1].hmac = (ComputeHmac(wire))'
    <3>1. IsPatched(PatchedCommand(r))
      BY <1>1, <2>3 DEF IsPatched
    <3>2. /\ Patchable(r)
          /\ wire'.auth[1].handle = g_session.handle
          /\ wire'.auth[1].hmac = ComputeHmac(r)
      BY <1>1, <3>1, PatchedHmac
    <3>. QED
      BY <1>6, <1>7, <2>1, <2>2, <3>2 DEF Patchable
  <2>. QED
    BY <1>2, <1>7, <2>3 DEF WireInv
<1>10. StartInv'
  <2>1. CompatibleStart(wire)' <=> c
    BY <1>5, <1>7 DEF CompatibleStart
  <2>. QED
    BY <1>3, <1>6, <1>7, <2>1 DEF StartInv, ResponseMatchesCommand
<1>11. UnarmedInv' /\ LearnedThisIteration'
  BY <1>3, <1>6 DEF IInv, UnarmedInv, LearnedThisIteration
<1>12. AnswerInv'
  BY <1>3 DEF AnswerInv
<1>13. SyncInv'
  BY <1>3, <1>6 DEF IInv, SyncInv, NonceAfter
<1>14. NamesInv'
  BY <1>3, <1>6 DEF IInv, NamesInv, Unseen
<1>15. BornInv'
  BY <1>3, <1>6 DEF IInv, BornInv, Unseen
<1>. QED
  BY <1>8, <1>9, <1>10, <1>11, <1>12, <1>13, <1>14, <1>15 DEF IInv

\* Rolling keeps the sessions a map, and issues the nonces after the clock.
LEMMA RollType ==
  ASSUME TpmTypeOK, NEW cmd \in Commands, Authorized(cmd), RollSessions(cmd)
  PROVE  /\ IsMap(sessions', SessionHandles, Sessions)
         /\ clock' \in Nat
         /\ clock < clock'
         /\ FirstNonce(cmd) \in {0, clock + 1}
<1>1. /\ cmd.auth \in Seq(AuthEntries)
      /\ Len(cmd.auth) \in Nat
      /\ Len(cmd.auth) > 0
  BY DEF Commands, Authorized
<1>2. clock \in Nat
  BY DEF TpmTypeOK
<1>3. DOMAIN sessions' = {k \in DOMAIN sessions : Continues(cmd, k)}
  BY DEF RollSessions
<1>4. ASSUME NEW h \in DOMAIN sessions'
      PROVE  sessions'[h] \in Sessions
  <2>1. sessions[h] \in Sessions
    BY <1>3 DEF TpmTypeOK, IsMap
  <2>2. sessions'[h] = IF Uses(cmd, h)
                        THEN [sessions[h] EXCEPT !.nonce = clock + EntryOf(cmd, h)]
                        ELSE sessions[h]
    BY <1>3 DEF RollSessions
  <2>3. CASE Uses(cmd, h)
    <3>1. EntryOf(cmd, h) \in 1..Len(cmd.auth)
      BY <2>3 DEF EntryOf, Uses
    <3>2. clock + EntryOf(cmd, h) \in Nat
      BY <1>1, <1>2, <3>1
    <3>. QED
      BY <2>1, <2>2, <2>3, <3>2 DEF Sessions
  <2>4. CASE ~ Uses(cmd, h)
    BY <2>1, <2>2, <2>4
  <2>. QED
    BY <2>3, <2>4
<1>5. sessions' = [h \in DOMAIN sessions' |-> sessions'[h]]
  BY <1>3 DEF RollSessions
<1>6. sessions' \in [DOMAIN sessions' -> Sessions]
  BY <1>4, <1>5
<1>7. IsMap(sessions', SessionHandles, Sessions)
  BY <1>3, <1>6 DEF TpmTypeOK, IsMap
<1>. QED
  BY <1>1, <1>2, <1>7 DEF RollSessions, FirstNonce

\* What an armed session goes through when a command is authorized.
LEMMA RollArmed ==
  ASSUME TpmTypeOK, NEW cmd \in Commands, Authorized(cmd), RollSessions(cmd),
         NEW h \in HmacHandles, h \in DOMAIN sessions'
  PROVE  /\ h \in DOMAIN sessions
         /\ sessions'[h].keyless = sessions[h].keyless
         /\ Uses(cmd, h) /\ cmd.auth[1].handle = h =>
              sessions'[h].nonce = FirstNonce(cmd) /\ FirstNonce(cmd) > 0
         /\ ~ Uses(cmd, h) => sessions'[h].nonce = sessions[h].nonce
<1>1. h \in DOMAIN sessions /\ sessions[h] \in Sessions
  BY DEF RollSessions, TpmTypeOK, IsMap
<1>2. sessions'[h] = IF Uses(cmd, h)
                      THEN [sessions[h] EXCEPT !.nonce = clock + EntryOf(cmd, h)]
                      ELSE sessions[h]
  BY DEF RollSessions
<1>3. CASE Uses(cmd, h)
  <2>1. /\ sessions'[h].keyless = sessions[h].keyless
        /\ sessions'[h].nonce = clock + EntryOf(cmd, h)
    BY <1>1, <1>2, <1>3 DEF Sessions
  <2>2. ASSUME cmd.auth[1].handle = h
        PROVE  EntryOf(cmd, h) = 1 /\ FirstNonce(cmd) = clock + 1
    <3>1. h # Password
      BY HandleAssumption DEF SessionHandles
    <3>2. /\ EntryOf(cmd, h) \in 1..Len(cmd.auth)
          /\ cmd.auth[EntryOf(cmd, h)].handle = h
      BY <1>3 DEF EntryOf, Uses
    <3>3. 1 \in 1..Len(cmd.auth)
      BY DEF Authorized, Commands
    <3>4. EntryOf(cmd, h) = 1
      BY <2>2, <3>1, <3>2, <3>3 DEF Authorized
    <3>. QED
      BY <2>2, <3>1, <3>4 DEF FirstNonce
  <2>3. clock \in Nat
    BY DEF TpmTypeOK
  <2>. QED
    BY <1>1, <1>3, <2>1, <2>2, <2>3
<1>4. CASE ~ Uses(cmd, h)
  BY <1>1, <1>2, <1>4
<1>. QED
  BY <1>3, <1>4

\* An authorized command that succeeds.
AuthorizedStep(cmd) ==
  /\ cmd.cc \in SessionCommands
  /\ Authorized(cmd)
  /\ RollSessions(cmd)
  /\ response'.tag = "SESSIONS"
  /\ response'.ok
  /\ response'.nonce = FirstNonce(cmd)

LEMMA AuthorizedSteps ==
  ASSUME NEW cmd,
         TpmCreateObject(cmd) \/ TpmClear(cmd) \/ TpmAuthorizedCommand(cmd)
  PROVE  AuthorizedStep(cmd)
<1>1. CASE TpmCreateObject(cmd)
  BY <1>1 DEF TpmCreateObject, AuthorizedStep, SessionCommands
<1>2. CASE TpmClear(cmd)
  BY <1>2 DEF TpmClear, AuthorizedStep, SessionCommands
<1>3. CASE TpmAuthorizedCommand(cmd)
  BY <1>3 DEF TpmAuthorizedCommand, AuthorizedStep
<1>. QED
  BY <1>1, <1>2, <1>3

\* The TPM keeps its type, and its clock never goes back.
LEMMA ExecuteType ==
  ASSUME TpmTypeOK, NEW cmd \in Commands, TpmExecute(cmd)
  PROVE  TpmTypeOK' /\ clock' \in Nat /\ clock <= clock'
<1>1. clock \in Nat /\ NoHandle \in Handles \cup {NoHandle}
  BY DEF TpmTypeOK
<1>2. CASE TpmFail(cmd)
  <2>1. response' \in Responses
    BY <1>2 DEF TpmFail, NoResponse, Responses
  <2>. QED
    BY <1>1, <1>2, <2>1 DEF TpmFail, TpmTypeOK
<1>3. CASE TpmPlainCommand(cmd)
  <2>1. response' \in Responses
    BY <1>3 DEF TpmPlainCommand, Responses
  <2>. QED
    BY <1>1, <1>3, <2>1 DEF TpmPlainCommand, TpmTypeOK
<1>4. CASE TpmStartAuthSession(cmd)
  <2>1. PICK h \in SessionHandles :
          /\ sessions' = [k \in DOMAIN sessions \cup {h} |->
                            IF k = h
                              THEN [nonce |-> clock + 1, keyless |-> Keyless(cmd)]
                              ELSE sessions[k]]
          /\ response' = [tag |-> "NO_SESSIONS", ok |-> TRUE, handle |-> h,
                          name |-> NoName, nonce |-> clock + 1]
    BY <1>4 DEF TpmStartAuthSession, SessionHandles
  <2>2. response' \in Responses
    BY <1>1, <2>1 DEF Responses, Handles, RawHandles
  <2>3. [nonce |-> clock + 1, keyless |-> Keyless(cmd)] \in Sessions
    BY <1>1 DEF Keyless, Sessions
  <2>4. IsMap(sessions', SessionHandles, Sessions)
    BY <2>1, <2>3 DEF TpmTypeOK, IsMap
  <2>. QED
    BY <1>1, <1>4, <2>2, <2>4 DEF TpmStartAuthSession, TpmTypeOK
<1>5. CASE TpmCreateObject(cmd)
  <2>1. /\ IsMap(sessions', SessionHandles, Sessions)
        /\ clock' \in Nat /\ clock < clock'
        /\ FirstNonce(cmd) \in Nat
    BY <1>1, <1>5, RollType DEF TpmCreateObject
  <2>2. PICK h \in TransientHandles, n \in ObjectNames :
          /\ objects' = [k \in DOMAIN objects \cup {h} |->
                            IF k = h THEN [name |-> n, born |-> clock']
                                     ELSE objects[k]]
          /\ response' = [tag |-> "SESSIONS", ok |-> TRUE, handle |-> h,
                           name |-> n, nonce |-> FirstNonce(cmd)]
    BY <1>5 DEF TpmCreateObject
  <2>3. response' \in Responses
    BY <2>1, <2>2 DEF Responses, Handles
  <2>4. IsMap(objects', TransientHandles, Objects)
    BY <2>1, <2>2 DEF TpmTypeOK, IsMap, Objects
  <2>. QED
    BY <1>1, <2>1, <2>3, <2>4 DEF TpmTypeOK
<1>6. CASE TpmClear(cmd)
  <2>1. /\ IsMap(sessions', SessionHandles, Sessions)
        /\ clock' \in Nat /\ clock < clock'
        /\ FirstNonce(cmd) \in Nat
    BY <1>1, <1>6, RollType DEF TpmClear
  <2>2. PICK kept \in SUBSET DOMAIN objects : objects' = [h \in kept |-> objects[h]]
    BY <1>6 DEF TpmClear
  <2>3. response' \in Responses
    BY <1>6, <2>1 DEF TpmClear, Responses
  <2>4. IsMap(objects', TransientHandles, Objects)
    BY <2>2 DEF TpmTypeOK, IsMap
  <2>. QED
    BY <1>1, <2>1, <2>3, <2>4 DEF TpmTypeOK
<1>7. CASE TpmAuthorizedCommand(cmd)
  <2>1. /\ IsMap(sessions', SessionHandles, Sessions)
        /\ clock' \in Nat /\ clock < clock'
        /\ FirstNonce(cmd) \in Nat
    BY <1>1, <1>7, RollType DEF TpmAuthorizedCommand
  <2>2. response' \in Responses
    BY <1>7, <2>1 DEF TpmAuthorizedCommand, Responses
  <2>. QED
    BY <1>1, <1>7, <2>1, <2>2 DEF TpmAuthorizedCommand, TpmTypeOK
<1>. QED
  BY <1>2, <1>3, <1>4, <1>5, <1>6, <1>7 DEF TpmExecute

\* Sending keeps the layer in sync, for the answer that is now pending.
LEMMA SendSync == IInv /\ SendCommand => SyncInv'
<1>. SUFFICES ASSUME IInv, SendCommand,
                     ~ desynced',
                     g_session'.initialized,
                     g_session'.handle \in DOMAIN sessions',
                     ~ (pc' = "process" /\ Arms(response)')
              PROVE  /\ sessions'[g_session'.handle].keyless
                     /\ sessions'[g_session'.handle].nonce = NonceAfter'
  BY DEF SyncInv
<1> DEFINE h == g_session.handle
<1>1. /\ pc = "send" /\ pc' = "process"
      /\ UNCHANGED <<g_session, wire, armedAt, epoch>>
      /\ TpmExecute(wire)
      /\ ~ desynced
      /\ ~ LosesNonce(wire, response')
      /\ g_session.initialized
      /\ h \in DOMAIN sessions'
      /\ h \in HmacHandles
  BY DEF SendCommand, IInv, LearnedThisIteration
<1>2. /\ TpmTypeOK
      /\ wire \in Commands
      /\ wire.tag = "SESSIONS" <=> wire.cc \in SessionCommands
      /\ g_session.pending <=> wire.cc = "StartAuthSession"
      /\ g_session.last_command_code = wire.cc
      /\ wire.cc = "StartAuthSession" =>
           (g_session.compatible <=> CompatibleStart(wire))
  BY <1>1 DEF IInv, TypeOK, WireInv, StartInv, ResponseMatchesCommand
<1>3. h \in DOMAIN sessions =>
        sessions[h].keyless /\ sessions[h].nonce = g_session.nonce_tpm
  BY <1>1 DEF IInv, SyncInv, NonceAfter
<1>4. ~ Refreshes(response)' => NonceAfter' = g_session.nonce_tpm
  BY <1>1 DEF NonceAfter
<1>5. Refreshes(response)' <=>
        /\ ~ g_session.pending
        /\ g_session.initialized
        /\ response'.tag = "SESSIONS"
        /\ response'.ok
        /\ g_session.last_command_code \in TrackedCommands
  BY <1>1 DEF Refreshes
<1>6. CASE TpmFail(wire) \/ TpmPlainCommand(wire)
  <2>1. sessions' = sessions /\ response'.tag = "NO_SESSIONS"
    BY <1>6 DEF TpmFail, TpmPlainCommand, NoResponse
  <2>. QED
    BY <1>1, <1>3, <1>4, <1>5, <2>1
<1>7. CASE TpmStartAuthSession(wire)
  <2>1. PICK k :
          /\ response'.handle = k /\ response'.tag = "NO_SESSIONS" /\ response'.ok
          /\ DOMAIN sessions' = DOMAIN sessions \cup {k}
          /\ \A j \in DOMAIN sessions' : j # k => sessions'[j] = sessions[j]
    BY <1>7 DEF TpmStartAuthSession
  <2>2. h # k
    <3>1. SUFFICES ASSUME h = k PROVE FALSE
      OBVIOUS
    <3>2. wire.cc = "StartAuthSession"
      BY <1>7 DEF TpmStartAuthSession
    <3>3. ~ g_session.compatible
      BY <1>1, <1>2, <2>1, <3>2 DEF Arms
    <3>. QED
      BY <1>1, <1>2, <2>1, <3>1, <3>2, <3>3 DEF LosesNonce
  <2>3. h \in DOMAIN sessions /\ sessions'[h] = sessions[h]
    BY <1>1, <2>1, <2>2
  <2>. QED
    BY <1>1, <1>3, <1>4, <1>5, <2>1, <2>3
<1>8. CASE TpmCreateObject(wire) \/ TpmClear(wire) \/ TpmAuthorizedCommand(wire)
  <2>1. AuthorizedStep(wire)
    BY <1>8, AuthorizedSteps
  <2>2. /\ h \in DOMAIN sessions
        /\ sessions'[h].keyless = sessions[h].keyless
        /\ Uses(wire, h) /\ wire.auth[1].handle = h =>
             sessions'[h].nonce = FirstNonce(wire) /\ FirstNonce(wire) > 0
        /\ ~ Uses(wire, h) => sessions'[h].nonce = sessions[h].nonce
    BY <1>1, <1>2, <2>1, RollArmed DEF AuthorizedStep
  <2>3. /\ wire.tag = "SESSIONS" /\ ~ g_session.pending
        /\ response'.tag = "SESSIONS" /\ response'.ok
        /\ response'.nonce = FirstNonce(wire)
    BY <1>2, <2>1 DEF AuthorizedStep, SessionCommands
  <2>4. RefreshedNonce(response)' =
          IF response'.nonce > 0 THEN response'.nonce ELSE g_session.nonce_tpm
    BY <1>1 DEF RefreshedNonce
  <2>5. CASE Uses(wire, h)
    <3>1. wire.cc \in TrackedCommands /\ wire.auth[1].handle = h
      BY <1>1, <2>3, <2>5 DEF LosesNonce
    <3>2. NonceAfter' = RefreshedNonce(response)'
      BY <1>1, <1>2, <1>5, <2>3, <3>1 DEF NonceAfter
    <3>. QED
      BY <1>1, <1>3, <2>2, <2>3, <2>4, <2>5, <3>1, <3>2
  <2>6. CASE ~ Uses(wire, h) /\ wire.cc \in TrackedCommands
    <3>1. wire.auth[1].handle \in {Password, h}
      BY <1>1, <2>3, <2>6 DEF LosesNonce
    <3>2. 1 \in 1..Len(wire.auth)
      BY <1>2, <2>1 DEF AuthorizedStep, Authorized, Commands
    <3>3. wire.auth[1].handle = Password
      BY <2>6, <3>1, <3>2 DEF Uses
    <3>4. FirstNonce(wire) = 0
      BY <3>3 DEF FirstNonce
    <3>5. NonceAfter' = g_session.nonce_tpm
      BY <1>1, <2>3, <2>4, <3>4 DEF NonceAfter
    <3>. QED
      BY <1>1, <1>3, <2>2, <2>6, <3>5
  <2>7. CASE ~ Uses(wire, h) /\ wire.cc \notin TrackedCommands
    BY <1>1, <1>2, <1>3, <1>4, <1>5, <2>2, <2>7
  <2>. QED
    BY <2>5, <2>6, <2>7
<1>. QED
  BY <1>1, <1>6, <1>7, <1>8 DEF TpmExecute

\* The answer to a command describes what the TPM holds after it.
LEMMA SendAnswer == IInv /\ SendCommand => AnswerInv'
<1>. SUFFICES ASSUME IInv, SendCommand, response'.ok
              PROVE  /\ response'.tag = "SESSIONS" <=> wire'.cc \in SessionCommands
                     /\ response'.nonce > 0 => response'.nonce > epoch'
                     /\ wire'.cc \in NameExtractors =>
                          /\ response'.handle \in DOMAIN objects'
                          /\ response'.name = objects'[response'.handle].name
                     /\ wire'.cc = "StartAuthSession" =>
                          /\ response'.handle \in DOMAIN sessions'
                          /\ sessions'[response'.handle].nonce = response'.nonce
                          /\ sessions'[response'.handle].keyless <=> Keyless(wire)'
                          /\ response'.nonce = clock'
                          /\ response'.nonce > 0
                          /\ wire'.start.type = "HMAC" => response'.handle \in HmacHandles
  BY DEF AnswerInv
<1>1. /\ UNCHANGED <<wire, epoch>>
      /\ TpmExecute(wire)
      /\ TpmTypeOK
      /\ wire \in Commands
      /\ epoch \in Nat /\ clock \in Nat /\ epoch <= clock
  BY DEF SendCommand, IInv, TypeOK, TpmTypeOK, BornInv
<1>2. ~ TpmFail(wire)
  BY DEF TpmFail, NoResponse
<1>3. CASE TpmPlainCommand(wire)
  BY <1>1, <1>3
  DEF TpmPlainCommand, PlainCommands, SessionCommands, NameExtractors
<1>4. CASE TpmStartAuthSession(wire)
  <2>1. PICK h \in (IF wire.start.type = "HMAC" THEN HmacHandles ELSE PolicyHandles) :
          /\ sessions' = [k \in DOMAIN sessions \cup {h} |->
                            IF k = h
                              THEN [nonce |-> clock + 1, keyless |-> Keyless(wire)]
                              ELSE sessions[k]]
          /\ response' = [tag |-> "NO_SESSIONS", ok |-> TRUE, handle |-> h,
                          name |-> NoName, nonce |-> clock + 1]
    BY <1>4 DEF TpmStartAuthSession
  <2>2. wire.cc = "StartAuthSession" /\ clock' = clock + 1
    BY <1>4 DEF TpmStartAuthSession
  <2>3. sessions'[h] = [nonce |-> clock + 1, keyless |-> Keyless(wire)]
    BY <2>1
  <2>4. Keyless(wire)' <=> Keyless(wire)
    BY <1>1 DEF Keyless
  <2>. QED
    BY <1>1, <2>1, <2>2, <2>3, <2>4 DEF SessionCommands, NameExtractors
<1>5. CASE TpmCreateObject(wire) \/ TpmClear(wire) \/ TpmAuthorizedCommand(wire)
  <2>1. AuthorizedStep(wire)
    BY <1>5, AuthorizedSteps
  <2>2. FirstNonce(wire) \in {0, clock + 1}
    BY <1>1, <2>1, RollType DEF AuthorizedStep
  <2>3. /\ wire.cc \in SessionCommands
        /\ response'.tag = "SESSIONS"
        /\ response'.nonce = FirstNonce(wire)
    BY <2>1 DEF AuthorizedStep
  <2>4. ASSUME wire.cc \in NameExtractors
        PROVE  /\ response'.handle \in DOMAIN objects'
               /\ response'.name = objects'[response'.handle].name
    <3>1. TpmCreateObject(wire)
      BY <1>5, <2>4 DEF NameExtractors, TpmClear, TpmAuthorizedCommand
    <3>. QED
      BY <3>1 DEF TpmCreateObject
  <2>5. wire.cc # "StartAuthSession"
    BY <2>3 DEF SessionCommands
  <2>. QED
    BY <1>1, <2>2, <2>3, <2>4, <2>5
<1>. QED
  BY <1>1, <1>2, <1>3, <1>4, <1>5 DEF TpmExecute

\* No command renames a loaded object; a new one is announced in the answer.
LEMMA ExecuteObjects ==
  ASSUME NEW cmd, TpmExecute(cmd), NEW h \in DOMAIN objects'
  PROVE  \/ h \in DOMAIN objects /\ objects'[h] = objects[h]
         \/ /\ cmd.cc \in NameExtractors
            /\ response'.ok
            /\ h = response'.handle
            /\ objects'[h].born = clock'
            /\ h \notin DOMAIN objects
<1>1. CASE UNCHANGED objects
  BY <1>1
<1>2. CASE TpmCreateObject(cmd)
  BY <1>2 DEF TpmCreateObject, NameExtractors
<1>3. CASE TpmClear(cmd)
  BY <1>3 DEF TpmClear
<1>. QED
  BY <1>1, <1>2, <1>3
  DEF TpmExecute, TpmStartAuthSession, TpmAuthorizedCommand, TpmPlainCommand, TpmFail

LEMMA SendIInv == IInv /\ SendCommand => IInv'
<1>. SUFFICES ASSUME IInv, SendCommand PROVE IInv'
  OBVIOUS
<1>1. /\ pc = "send" /\ pc' = "process"
      /\ UNCHANGED <<g_session, wire, sent, iteration, armedAt, epoch>>
      /\ TpmExecute(wire)
      /\ TpmTypeOK /\ wire \in Commands
  BY DEF SendCommand, IInv, TypeOK
<1>2. TpmTypeOK' /\ clock' \in Nat /\ clock <= clock'
  BY <1>1, ExecuteType
<1>3. TypeOK'
  <2>1. SessionAuthTypeOK' /\ wire' \in Commands
    BY <1>1 DEF IInv, TypeOK, SessionAuthTypeOK
  <2>2. PICK d \in BOOLEAN : d = LosesNonce(wire, response')
    BY DEF LosesNonce
  <2>3. desynced' \in BOOLEAN
    BY <2>2 DEF SendCommand, IInv, TypeOK
  <2>4. sent' \in Nat /\ iteration' \in Nat /\ armedAt' \in Nat /\ epoch' \in Nat
    BY <1>1 DEF IInv, TypeOK
  <2>5. pc' \in {"idle", "loop", "send", "process"}
    BY <1>1
  <2>. QED
    BY <1>2, <2>1, <2>3, <2>4, <2>5 DEF TypeOK
<1>4. WireInv'
  BY <1>1 DEF IInv, WireInv
<1>5. StartInv'
  BY <1>1 DEF IInv, StartInv, ResponseMatchesCommand, CompatibleStart
<1>6. UnarmedInv' /\ LearnedThisIteration'
  BY <1>1 DEF IInv, UnarmedInv, LearnedThisIteration
<1>7. AnswerInv' /\ SyncInv'
  BY SendAnswer, SendSync
<1>8. NamesInv'
  <2>1. SUFFICES ASSUME NEW h \in DOMAIN g_session.names, h \in DOMAIN objects'
                 PROVE  g_session.names[h] = objects'[h].name \/ Unseen(h)'
    BY <1>1 DEF NamesInv
  <2>2. h \in DOMAIN objects => g_session.names[h] = objects[h].name
    BY <1>1, <2>1 DEF IInv, NamesInv, Unseen
  <2>. QED
    BY <1>1, <2>1, <2>2, ExecuteObjects DEF Unseen
<1>9. BornInv'
  <2>1. epoch <= armedAt /\ armedAt <= clock'
    <3>1. epoch \in Nat /\ armedAt \in Nat /\ clock \in Nat
      BY DEF IInv, TypeOK, TpmTypeOK
    <3>. QED
      BY <1>2, <3>1 DEF IInv, BornInv
  <2>2. ASSUME NEW h \in DOMAIN objects'
        PROVE  objects'[h].born <= clock'
    <3>1. CASE h \in DOMAIN objects /\ objects'[h] = objects[h]
      <4>1. objects[h].born \in Nat /\ clock \in Nat
        BY <1>1, <3>1 DEF TpmTypeOK, IsMap, Objects
      <4>2. objects[h].born <= clock
        BY <3>1 DEF IInv, BornInv
      <4>. QED
        BY <1>2, <3>1, <4>1, <4>2
    <3>2. CASE objects'[h].born = clock'
      BY <1>2, <3>2
    <3>. QED
      BY <1>1, <2>2, <3>1, <3>2, ExecuteObjects
  <2>3. ASSUME g_session.initialized, NEW h \in DOMAIN objects',
               objects'[h].born > armedAt
        PROVE  \/ h \in DOMAIN g_session.names
               \/ Cardinality(DOMAIN g_session.names) = MaxNames
               \/ Unseen(h)'
    <3>1. CASE h \in DOMAIN objects /\ objects'[h] = objects[h]
      BY <1>1, <2>3, <3>1 DEF IInv, BornInv, Unseen
    <3>2. CASE /\ wire.cc \in NameExtractors
               /\ response'.ok
               /\ h = response'.handle
      BY <1>1, <3>2 DEF Unseen
    <3>. QED
      BY <1>1, <2>3, <3>1, <3>2, ExecuteObjects
  <2>. QED
    BY <1>1, <2>1, <2>2, <2>3 DEF BornInv
<1>. QED
  BY <1>3, <1>4, <1>5, <1>6, <1>7, <1>8, <1>9 DEF IInv

\* What a table holds after a Name is stored.
LEMMA NameTableAddEffect ==
  ASSUME NEW names, NEW h, NEW name
  PROVE  LET added == NameTableAdd(names, h, name) IN
         /\ DOMAIN names \subseteq DOMAIN added
         /\ DOMAIN added \subseteq DOMAIN names \cup {h}
         /\ h \in DOMAIN added => added[h] = name
         /\ \A k \in DOMAIN names : k # h => added[k] = names[k]
         /\ h \notin DOMAIN added =>
              added = names /\ ~ (Cardinality(DOMAIN names) < MaxNames)
         /\ ~ (Cardinality(DOMAIN names) < MaxNames) => DOMAIN added = DOMAIN names
BY DEF NameTableAdd

\* What the table holds after a response that refreshes the session.
LEMMA RefreshNames ==
  ASSUME IInv, pc = "process", Refreshes(response)
  PROVE  LET names == PopulateNameFromResponse(response) IN
         /\ DOMAIN g_session.names \subseteq DOMAIN names
         /\ \A h \in DOMAIN names \cap DOMAIN objects : names[h] = objects[h].name
         /\ Cardinality(DOMAIN g_session.names) = MaxNames =>
              Cardinality(DOMAIN names) = MaxNames
         /\ \A h : Unseen(h) =>
              h \in DOMAIN names \/ Cardinality(DOMAIN names) = MaxNames
<1> DEFINE names == PopulateNameFromResponse(response)
<1> DEFINE old == g_session.names
<1>1. /\ wire.cc = g_session.last_command_code
      /\ response.ok
      /\ Cardinality(DOMAIN old) <= MaxNames
      /\ Cardinality(DOMAIN old) \in Nat
  <2>1. DOMAIN old \in SUBSET TransientHandles
    BY DEF IInv, TypeOK, SessionAuthTypeOK, SessionStates
  <2>2. Cardinality(DOMAIN old) \in Nat
    BY <2>1, NameAssumption, FS_Subset, FS_CardinalityType
  <2>. QED
    BY <2>2 DEF IInv, TypeOK, SessionAuthTypeOK, StartInv, ResponseMatchesCommand,
                Refreshes
<1>2. \A h \in DOMAIN old \cap DOMAIN objects :
        old[h] = objects[h].name \/ Unseen(h)
  BY DEF IInv, NamesInv
<1>3. CASE wire.cc \in NameExtractors
  <2>1. /\ response.handle \in DOMAIN objects
        /\ response.name = objects[response.handle].name
    BY <1>1, <1>3 DEF IInv, AnswerInv
  <2>2. names = NameTableAdd(old, response.handle, response.name)
    BY <1>1, <1>3
    DEF PopulateNameFromResponse, NameExtractors, OutHandleCount, TrackedCommands
  <2>3. \A h : Unseen(h) => h = response.handle
    BY DEF Unseen
  <2> HIDE DEF names, old
  <2>4. \A h \in DOMAIN names \cap DOMAIN objects : names[h] = objects[h].name
    <3>1. SUFFICES ASSUME NEW h \in DOMAIN names, h \in DOMAIN objects
                   PROVE  names[h] = objects[h].name
      OBVIOUS
    <3>2. CASE h = response.handle
      BY <2>1, <2>2, <3>1, <3>2, NameTableAddEffect
    <3>3. CASE h # response.handle
      <4>1. h \in DOMAIN old /\ names[h] = old[h]
        BY <2>2, <3>1, <3>3, NameTableAddEffect
      <4>. QED
        BY <1>2, <2>3, <3>1, <3>3, <4>1
    <3>. QED
      BY <3>2, <3>3
  <2>5. response.handle \in DOMAIN names \/ Cardinality(DOMAIN names) = MaxNames
    <3>1. CASE response.handle \notin DOMAIN names
      <4>1. names = old /\ ~ (Cardinality(DOMAIN old) < MaxNames)
        BY <2>2, <3>1, NameTableAddEffect
      <4>. QED
        BY <1>1, <4>1, NameAssumption
    <3>. QED
      BY <3>1
  <2>6. Cardinality(DOMAIN old) = MaxNames => Cardinality(DOMAIN names) = MaxNames
    <3>1. CASE Cardinality(DOMAIN old) = MaxNames
      <4>1. ~ (Cardinality(DOMAIN old) < MaxNames)
        BY <3>1, NameAssumption
      <4>2. DOMAIN names = DOMAIN old
        BY <2>2, <4>1, NameTableAddEffect
      <4>. QED
        BY <3>1, <4>2
    <3>. QED
      BY <3>1
  <2>7. DOMAIN old \subseteq DOMAIN names
    BY <2>2, NameTableAddEffect
  <2>. QED
    BY <2>3, <2>4, <2>5, <2>6, <2>7 DEF names, old
<1>4. CASE wire.cc \notin NameExtractors
  BY <1>1, <1>2, <1>4 DEF PopulateNameFromResponse, Unseen
<1>. QED
  BY <1>3, <1>4

LEMMA ProcessIInv == IInv /\ ProcessResponse => IInv'
<1>. SUFFICES ASSUME IInv, ProcessResponse PROVE IInv'
  OBVIOUS
<1>1. /\ pc = "process" /\ pc' = "loop"
      /\ SessionAuthProcessResponse(response)
      /\ wire' = NoCommand /\ response' = NoResponse
      /\ UNCHANGED <<sessions, objects, clock, sent, iteration, epoch>>
      /\ armedAt' = IF Arms(response) THEN clock ELSE armedAt
      /\ desynced' = (desynced /\ ~ Arms(response))
  BY DEF ProcessResponse
<1>2. /\ SessionAuthTypeOK /\ TpmTypeOK /\ response \in Responses
      /\ clock \in Nat /\ epoch \in Nat /\ armedAt \in Nat
      /\ epoch <= armedAt /\ armedAt <= clock
      /\ wire.cc = g_session.last_command_code
      /\ g_session.pending <=> wire.cc = "StartAuthSession"
  BY <1>1 DEF IInv, TypeOK, TpmTypeOK, BornInv, StartInv, ResponseMatchesCommand
<1>3. TypeOK'
  <2>1. response.ok /\ wire.cc \in NameExtractors
          => response.handle \in TransientHandles /\ response.name \in ObjectNames
    BY <1>1, <1>2 DEF IInv, AnswerInv, TpmTypeOK, IsMap, Objects
  <2>2. SessionAuthTypeOK'
    BY <1>1, <1>2, <2>1, ResponseStepType
  <2>3. NoResponse \in Responses
    BY DEF NoResponse, Responses
  <2>4. TpmTypeOK'
    BY <1>1, <1>2, <2>3 DEF TpmTypeOK
  <2>5. wire' \in Commands
    BY <1>1 DEF NoCommand, Commands, EmittedCommands, PlainCommands, NoStart,
                StartParams, HashAlgs
  <2>6. PICK a \in BOOLEAN : a = Arms(response)
    <3>1. g_session.compatible \in BOOLEAN /\ g_session.pending \in BOOLEAN
      BY <1>2 DEF SessionAuthTypeOK, SessionStates
    <3>. QED
      BY <3>1 DEF Arms
  <2>7. armedAt' \in Nat /\ epoch' \in Nat /\ sent' \in Nat /\ iteration' \in Nat
    BY <1>1, <1>2 DEF IInv, TypeOK
  <2>8. desynced' \in BOOLEAN
    BY <1>1, <2>6 DEF IInv, TypeOK
  <2>9. pc' \in {"idle", "loop", "send", "process"}
    BY <1>1
  <2>. QED
    BY <2>2, <2>4, <2>5, <2>7, <2>8, <2>9 DEF TypeOK
<1>4. WireInv' /\ AnswerInv'
  BY <1>1
  DEF WireInv, AnswerInv, NoCommand, SessionCommands, HandleCount, TrackedCommands
<1>5. CASE ArmSession(response)
  <2>1. /\ Arms(response)
        /\ wire.cc = "StartAuthSession"
        /\ response.ok
        /\ CompatibleStart(wire)
    BY <1>1, <1>2, <1>5 DEF ArmSession, Arms, IInv, StartInv
  <2>2. /\ response.handle \in DOMAIN sessions
        /\ sessions[response.handle].nonce = response.nonce
        /\ sessions[response.handle].keyless <=> Keyless(wire)
        /\ response.nonce = clock
        /\ response.nonce > epoch
        /\ wire.start.type = "HMAC" => response.handle \in HmacHandles
    BY <1>1, <2>1 DEF IInv, AnswerInv
  <2>3. /\ Keyless(wire)
        /\ wire.start.type = "HMAC"
    BY <2>1 DEF CompatibleStart, Keyless, DigestSizeFor
  <2>4. /\ g_session'.initialized
        /\ g_session'.handle = response.handle
        /\ g_session'.nonce_tpm = response.nonce
        /\ DOMAIN g_session'.names = {}
        /\ ~ g_session'.pending
    BY <1>5 DEF ArmSession, SessionAuthInit, ZeroSession, NoEntries
  <2>5. StartInv' /\ UnarmedInv' /\ NamesInv'
    BY <1>1, <2>4 DEF StartInv, ResponseMatchesCommand, UnarmedInv, NamesInv
  <2>6. SyncInv'
    BY <1>1, <2>2, <2>3, <2>4 DEF SyncInv, NonceAfter
  <2>7. BornInv'
    <3>1. armedAt' = clock
      BY <1>1, <2>1
    <3>2. \A h \in DOMAIN objects : objects[h].born <= clock /\ objects[h].born \in Nat
      BY <1>2 DEF IInv, BornInv, TpmTypeOK, IsMap, Objects
    <3>. QED
      BY <1>1, <1>2, <3>1, <3>2 DEF BornInv
  <2>8. LearnedThisIteration'
    BY <1>1, <1>2, <2>1, <2>2, <2>3, <2>4 DEF LearnedThisIteration
  <2>. QED
    BY <1>3, <1>4, <2>5, <2>6, <2>7, <2>8 DEF IInv
<1>6. CASE DropStart(response)
  <2>1. /\ ~ Arms(response)
        /\ wire.cc = "StartAuthSession"
        /\ g_session'.initialized = g_session.initialized
        /\ g_session'.handle = g_session.handle
        /\ g_session'.nonce_tpm = g_session.nonce_tpm
        /\ g_session'.names = g_session.names
        /\ ~ g_session'.pending
    BY <1>2, <1>6 DEF DropStart, SessionAuthTypeOK, SessionStates
  <2>2. armedAt' = armedAt /\ (desynced' <=> desynced)
    BY <1>1, <2>1
  <2>3. \A h : ~ Unseen(h)
    BY <2>1 DEF Unseen, NameExtractors
  <2>4. StartInv' /\ UnarmedInv' /\ NamesInv'
    BY <1>1, <2>1, <2>3
    DEF IInv, StartInv, ResponseMatchesCommand, UnarmedInv, NamesInv
  <2>5. SyncInv'
    BY <1>1, <1>2, <2>1, <2>2 DEF IInv, SyncInv, NonceAfter, Refreshes
  <2>6. BornInv' /\ LearnedThisIteration'
    BY <1>1, <2>1, <2>2, <2>3 DEF IInv, BornInv, LearnedThisIteration
  <2>. QED
    BY <1>3, <1>4, <2>4, <2>5, <2>6 DEF IInv
<1>7. CASE RefreshSession(response)
  <2>1. /\ ~ Arms(response)
        /\ Refreshes(response)
        /\ g_session'.initialized = g_session.initialized
        /\ g_session.initialized
        /\ g_session'.handle = g_session.handle
        /\ g_session'.nonce_tpm = RefreshedNonce(response)
        /\ g_session'.names = PopulateNameFromResponse(response)
        /\ ~ g_session'.pending
    BY <1>2, <1>7 DEF RefreshSession, Refreshes, Arms, SessionAuthTypeOK, SessionStates
  <2>2. armedAt' = armedAt /\ (desynced' <=> desynced)
    BY <1>1, <2>1
  <2>3. StartInv' /\ UnarmedInv'
    BY <1>1, <2>1 DEF StartInv, ResponseMatchesCommand, UnarmedInv
  <2>4. NamesInv'
    BY <1>1, <2>1, RefreshNames DEF NamesInv
  <2>5. SyncInv'
    BY <1>1, <2>1, <2>2 DEF IInv, SyncInv, NonceAfter
  <2>6. BornInv'
    BY <1>1, <2>1, <2>2, RefreshNames DEF IInv, BornInv
  <2>7. LearnedThisIteration'
    <3>1. response.ok /\ (response.nonce > 0 => response.nonce > epoch)
      BY <1>1, <2>1 DEF Refreshes, IInv, AnswerInv
    <3>. QED
      BY <1>1, <2>1, <2>2, <3>1 DEF IInv, LearnedThisIteration, RefreshedNonce
  <2>. QED
    BY <1>3, <1>4, <2>3, <2>4, <2>5, <2>6, <2>7 DEF IInv
<1>8. CASE IgnoreResponse(response)
  <2>1. UNCHANGED g_session /\ ~ g_session.pending /\ ~ Refreshes(response)
        /\ ~ Arms(response)
    BY <1>8 DEF IgnoreResponse, Arms
  <2>2. armedAt' = armedAt /\ (desynced' <=> desynced)
    BY <1>1, <2>1
  <2>3. \A h : Unseen(h) => ~ g_session.initialized /\ DOMAIN g_session.names = {}
    <3>1. SUFFICES ASSUME NEW h, Unseen(h) PROVE ~ g_session.initialized
      BY DEF IInv, UnarmedInv
    <3>2. response.ok /\ wire.cc \in NameExtractors
      BY <3>1 DEF Unseen
    <3>3. response.tag = "SESSIONS" /\ wire.cc \in TrackedCommands
      BY <1>1, <3>2 DEF IInv, AnswerInv, NameExtractors, SessionCommands, TrackedCommands
    <3>. QED
      BY <1>2, <2>1, <3>2, <3>3 DEF Refreshes
  <2>4. StartInv' /\ UnarmedInv'
    BY <1>1, <2>1 DEF IInv, StartInv, ResponseMatchesCommand, UnarmedInv
  <2>5. NamesInv'
    BY <1>1, <2>1, <2>3 DEF IInv, NamesInv
  <2>6. SyncInv'
    BY <1>1, <2>1, <2>2 DEF IInv, SyncInv, NonceAfter
  <2>7. BornInv' /\ LearnedThisIteration'
    BY <1>1, <2>1, <2>2, <2>3 DEF IInv, BornInv, LearnedThisIteration
  <2>. QED
    BY <1>3, <1>4, <2>4, <2>5, <2>6, <2>7 DEF IInv
<1>. QED
  BY <1>1, <1>5, <1>6, <1>7, <1>8 DEF SessionAuthProcessResponse

-----------------------------------------------------------------------------
(* The theorems.                                                           *)

\* The inductive invariant holds of every behaviour of the fuzz target.
THEOREM Invariance == Spec => []IInv
<1>1. IInv /\ [Next]_vars => IInv'
  BY BeginIInv, SkipIInv, MarshalIInv, SendIInv, ProcessIInv, EndIInv, StutterIInv
  DEF Next
<1>. QED
  BY InitIInv, <1>1, PTL DEF Spec

\* Every variable keeps its type; the Name table never outgrows its array,
\* whatever the number of handles, commands and iterations (NameTable::Add).
THEOREM TypeCorrectness == Spec => []TypeOK
<1>1. IInv => TypeOK
  BY DEF IInv
<1>. QED
  BY Invariance, <1>1, PTL

\* A response is never taken for the answer to another command
\* (g_session.pending and last_command_code in SessionAuthProcessResponse).
THEOREM ResponsesMatch == Spec => []ResponseMatchesCommand
<1>1. IInv => ResponseMatchesCommand
  BY DEF IInv, StartInv
<1>. QED
  BY Invariance, <1>1, PTL

\* Only the commands of LosesNonce cost the layer the nonce of its session
\* (the nonce refresh in SessionAuthProcessResponse).
THEOREM InSyncUnlessDesynced == Spec => []SyncUnlessDesynced
<1>1. IInv => SyncUnlessDesynced
  <2>1. SUFFICES ASSUME IInv, pc # "process", ~ desynced,
                        g_session.initialized, g_session.handle \in DOMAIN sessions
                 PROVE  /\ sessions[g_session.handle].keyless
                        /\ sessions[g_session.handle].nonce = g_session.nonce_tpm
    BY DEF SyncUnlessDesynced, InSync
  <2>. QED
    BY <2>1 DEF IInv, SyncInv, NonceAfter
<1>. QED
  BY Invariance, <1>1, PTL

\* The Name table never holds the Name of an object that is gone from behind
\* the handle (PopulateNameFromResponse overwrites a handle used again).
THEOREM NamesAreCurrent == Spec => []RecordedNamesAreCurrent
<1>1. IInv => RecordedNamesAreCurrent
  BY DEF IInv, NamesInv, Unseen, RecordedNamesAreCurrent
<1>. QED
  BY Invariance, <1>1, PTL

\* No object created since the layer was armed escapes a table with room
\* (PopulateNameFromResponse).
THEOREM ObjectsAreRecorded == Spec => []ObjectsSinceArmingRecorded
<1>1. IInv => ObjectsSinceArmingRecorded
  BY DEF IInv, BornInv, Unseen, ObjectsSinceArmingRecorded
<1>. QED
  BY Invariance, <1>1, PTL

\* SessionAuthReset leaves nothing of one input to the next.
THEOREM LearnedInThisIteration == Spec => []LearnedThisIteration
<1>1. IInv => LearnedThisIteration
  BY DEF IInv
<1>. QED
  BY Invariance, <1>1, PTL

\* The Names that the layer digests for a command are those the TPM digests, if
\* it has one for each handle and the TPM has what is behind the handles.
LEMMA NamesAgree ==
  ASSUME IInv, pc # "process", NEW cmd \in Commands,
         Len(cmd.handles) = HandleCount[cmd.cc],
         \A i \in 1..HandleCount[cmd.cc] : CommandNames(cmd)[i] # NoName,
         EntitiesExist(cmd)
  PROVE  CommandNames(cmd) =
           [i \in 1..Len(cmd.handles) |-> TpmName(cmd.handles[i])]
<1>1. ASSUME NEW i \in 1..Len(cmd.handles)
      PROVE  HandleName(g_session.names, cmd.handles[i]) = TpmName(cmd.handles[i])
  <2> DEFINE h == cmd.handles[i]
  <2>1. h \in Handles /\ Loaded(h)
    BY DEF EntitiesExist, Commands
  <2>2. HandleName(g_session.names, h) # NoName
    BY DEF CommandNames
  <2>3. CASE h \in TransientHandles
    <3>1. h \in DOMAIN objects /\ h \in DOMAIN g_session.names
      BY <2>1, <2>2, <2>3 DEF Loaded, HandleName, NameTableLookup
    <3>2. g_session.names[h] = objects[h].name
      BY <3>1 DEF IInv, NamesInv, Unseen
    <3>. QED
      BY <2>3, <3>1, <3>2 DEF HandleName, NameTableLookup, TpmName
  <2>4. CASE h \notin TransientHandles
    <3>1. h \in RawHandles
      BY <2>1, <2>4 DEF Loaded, Handles
    <3>. QED
      BY <2>4, <3>1, HandleAssumption DEF HandleName, TpmName
  <2>. QED
    BY <2>3, <2>4
<1>. QED
  BY <1>1 DEF CommandNames

\* So is the HMAC it computes, as long as it has not lost the nonce.
LEMMA HmacsAgree ==
  ASSUME IInv, pc # "process", NEW cmd \in Commands,
         Len(cmd.handles) = HandleCount[cmd.cc],
         \A i \in 1..HandleCount[cmd.cc] : CommandNames(cmd)[i] # NoName,
         EntitiesExist(cmd),
         ~ desynced, g_session.initialized, g_session.handle \in DOMAIN sessions
  PROVE  /\ sessions[g_session.handle].keyless
         /\ ComputeHmac(cmd) = ExpectedHmac(cmd, g_session.handle)
<1>1. /\ sessions[g_session.handle].keyless
      /\ sessions[g_session.handle].nonce = g_session.nonce_tpm
  BY DEF IInv, SyncInv, NonceAfter
<1>. QED
  BY <1>1, NamesAgree DEF ComputeHmac, ExpectedHmac

\* A filled-in HMAC is the one the TPM expects (ComputeHmac over the Names and
\* the nonce the layer has tracked), whatever came before in the input.
THEOREM PatchedHmacsAreAccepted == Spec => []PatchedHmacAccepted
<1>1. IInv => PatchedHmacAccepted
  <2>1. SUFFICES ASSUME IInv, pc = "send", ~ desynced, IsPatched(wire),
                        wire.auth[1].handle \in DOMAIN sessions, EntitiesExist(wire)
                 PROVE  AcceptsEntry(wire, wire.auth[1])
    BY DEF PatchedHmacAccepted
  <2>2. /\ g_session.initialized
        /\ wire.auth[1].handle = g_session.handle
        /\ wire.auth[1].hmac = ComputeHmac(wire)
        /\ wire \in Commands
        /\ Len(wire.handles) = HandleCount[wire.cc]
        /\ \A i \in 1..HandleCount[wire.cc] : CommandNames(wire)[i] # NoName
    BY <2>1 DEF IInv, WireInv, TypeOK
  <2>3. /\ sessions[g_session.handle].keyless
        /\ ComputeHmac(wire) = ExpectedHmac(wire, g_session.handle)
    BY <2>1, <2>2, HmacsAgree
  <2>. QED
    BY <2>1, <2>2, <2>3 DEF AcceptsEntry
<1>. QED
  BY Invariance, <1>1, PTL

-----------------------------------------------------------------------------
(* SessionPromise speaks of the same TPM.                                  *)

\* What the TPM expects of a command is the same.
LEMMA SameExpectations ==
  /\ \A cmd : Promise!EntitiesExist(cmd) <=> EntitiesExist(cmd)
  /\ \A cmd, h : Promise!ExpectedHmac(cmd, h) = ExpectedHmac(cmd, h)
  /\ \A cmd : Promise!Authorized(cmd) <=> Authorized(cmd)
<1>1. \A h : Promise!Loaded(h) <=> Loaded(h)
  BY DEF Promise!Loaded, Loaded
<1>2. \A h : Promise!TpmName(h) = TpmName(h)
  BY DEF Promise!TpmName, TpmName
<1>3. \A cmd : Promise!EntitiesExist(cmd) <=> EntitiesExist(cmd)
  BY <1>1 DEF Promise!EntitiesExist, EntitiesExist
<1>4. \A cmd, h : Promise!ExpectedHmac(cmd, h) = ExpectedHmac(cmd, h)
  BY <1>2 DEF Promise!ExpectedHmac, ExpectedHmac
<1>5. \A cmd, e : Promise!AcceptsEntry(cmd, e) <=> AcceptsEntry(cmd, e)
  BY <1>4 DEF Promise!AcceptsEntry, AcceptsEntry, Promise!SeedHmac, SeedHmac
<1>6. \A cmd : Promise!Authorized(cmd) <=> Authorized(cmd)
  BY <1>5 DEF Promise!Authorized, Authorized
<1> QED
  BY <1>3, <1>4, <1>6

\* Counting is the same on both sides.
LEMMA SameCardinality == \A S : Promise!Cardinality(S) = Cardinality(S)
BY DEF Promise!Cardinality, Cardinality

\* What it does to the sessions of a command is the same.
LEMMA SameRolls == \A cmd : Promise!RollSessions(cmd) <=> RollSessions(cmd)
<1>1. \A cmd, h : Promise!Continues(cmd, h) <=> Continues(cmd, h)
  BY DEF Promise!Continues, Continues
<1>2. \A cmd, h : Promise!Uses(cmd, h) <=> Uses(cmd, h)
  BY DEF Promise!Uses, Uses
<1>3. \A cmd, h : Promise!EntryOf(cmd, h) = EntryOf(cmd, h)
  BY DEF Promise!EntryOf, EntryOf
<1> QED
  BY <1>1, <1>2, <1>3 DEF Promise!RollSessions, RollSessions

\* What it answers is the same.
LEMMA SameTpm == \A cmd : Promise!TpmExecute(cmd) <=> TpmExecute(cmd)
<1> SUFFICES ASSUME NEW cmd PROVE Promise!TpmExecute(cmd) <=> TpmExecute(cmd)
  OBVIOUS
<1>1. /\ Promise!EntitiesExist(cmd) <=> EntitiesExist(cmd)
      /\ Promise!Authorized(cmd) <=> Authorized(cmd)
      /\ Promise!RollSessions(cmd) <=> RollSessions(cmd)
  BY SameExpectations, SameRolls
<1>2. Promise!FirstNonce(cmd) = FirstNonce(cmd) /\ Promise!Keyless(cmd) = Keyless(cmd)
  BY DEF Promise!FirstNonce, FirstNonce, Promise!Keyless, Keyless
<1>3. Promise!TpmStartAuthSession(cmd) <=> TpmStartAuthSession(cmd)
  BY <1>1, <1>2 DEF Promise!TpmStartAuthSession, TpmStartAuthSession
<1>4. Promise!TpmCreateObject(cmd) <=> TpmCreateObject(cmd)
  BY <1>1, <1>2 DEF Promise!TpmCreateObject, TpmCreateObject
<1>5. Promise!TpmClear(cmd) <=> TpmClear(cmd)
  BY <1>1, <1>2 DEF Promise!TpmClear, TpmClear
<1>6. Promise!TpmAuthorizedCommand(cmd) <=> TpmAuthorizedCommand(cmd)
  BY <1>1, <1>2
  DEF Promise!TpmAuthorizedCommand, TpmAuthorizedCommand, Promise!SessionCommands,
      SessionCommands
<1>7. Promise!TpmPlainCommand(cmd) <=> TpmPlainCommand(cmd)
  BY <1>1
  DEF Promise!TpmPlainCommand, TpmPlainCommand, Promise!PlainCommands, PlainCommands
<1>8. Promise!TpmFail(cmd) <=> TpmFail(cmd)
  BY DEF Promise!TpmFail, TpmFail, Promise!NoResponse, NoResponse
<1> QED
  BY <1>3, <1>4, <1>5, <1>6, <1>7, <1>8 DEF Promise!TpmExecute, TpmExecute

-----------------------------------------------------------------------------
(* What the refinement rests on beside IInv.                               *)

\* An armed layer has a digest size, and a StartAuthSession that succeeded without
\* a key for a salt had none.
PromiseInv ==
  /\ g_session.initialized => g_session.digest_size # 0
  /\ pc = "process" /\ response.ok /\ wire.cc = "StartAuthSession" =>
       wire.start.salt = "EMPTY" \/ wire.handles[1] # NullHandle

LEMMA InitPromiseInv == Init => PromiseInv
BY DEF Init, PromiseInv, ZeroSession

LEMMA SendPromiseInv == IInv /\ PromiseInv /\ SendCommand => PromiseInv'
<1>1. SUFFICES ASSUME IInv, PromiseInv, SendCommand, response'.ok,
                      wire.cc = "StartAuthSession"
               PROVE  wire.start.salt = "EMPTY" \/ wire.handles[1] # NullHandle
  BY DEF SendCommand, PromiseInv
<1>2. wire.start.salt \in {"EMPTY", "SALTED"}
  BY <1>1 DEF IInv, TypeOK, Commands, StartParams
<1>3. ~ TpmFail(wire)
  BY <1>1 DEF TpmFail, NoResponse
<1>4. wire.cc \notin SessionCommands
  BY <1>1 DEF SessionCommands, TrackedCommands, HandleCount
<1>5. TpmStartAuthSession(wire)
  BY <1>1, <1>3, <1>4
  DEF SendCommand, TpmExecute, TpmCreateObject, TpmClear, TpmAuthorizedCommand,
      TpmPlainCommand
<1>. QED
  BY <1>2, <1>5 DEF TpmStartAuthSession

LEMMA ProcessPromiseInv == IInv /\ PromiseInv /\ ProcessResponse => PromiseInv'
<1>. SUFFICES ASSUME IInv, PromiseInv, ProcessResponse,
                     g_session'.initialized
              PROVE  g_session'.digest_size # 0
  BY DEF ProcessResponse, PromiseInv
<1>1. pc = "process" /\ SessionAuthProcessResponse(response)
  BY DEF ProcessResponse
<1>2. SessionAuthTypeOK
  BY DEF IInv, TypeOK
<1>3. CASE ArmSession(response)
  <2>1. DigestSizeFor(g_session.auth_hash) # 0
    BY <1>1, <1>3
    DEF IInv, StartInv, ResponseMatchesCommand, ArmSession, Arms, CompatibleStart
  <2>. QED
    BY <1>3, <2>1 DEF ArmSession, SessionAuthInit, ZeroSession
<1>4. CASE DropStart(response)
  BY <1>2, <1>4 DEF DropStart, PromiseInv, SessionAuthTypeOK, SessionStates
<1>5. CASE RefreshSession(response)
  BY <1>2, <1>5 DEF RefreshSession, PromiseInv, SessionAuthTypeOK, SessionStates
<1>6. CASE IgnoreResponse(response)
  BY <1>6 DEF IgnoreResponse, PromiseInv
<1>. QED
  BY <1>1, <1>3, <1>4, <1>5, <1>6 DEF SessionAuthProcessResponse

LEMMA NextPromiseInv == IInv /\ PromiseInv /\ [Next]_vars => PromiseInv'
<1>. SUFFICES ASSUME IInv, PromiseInv, [Next]_vars PROVE PromiseInv'
  OBVIOUS
<1>0. g_session \in SessionStates
  BY DEF IInv, TypeOK, SessionAuthTypeOK
<1>1. CASE BeginIteration
  BY <1>1 DEF BeginIteration, SessionAuthReset, ZeroSession, PromiseInv
<1>2. CASE SkipCommand
  BY <1>2 DEF SkipCommand, PromiseInv, tpmVars
<1>3. CASE MarshalAndPatch
  <2>1. PICK r \in Requests : SessionAuthPatchCommand(r)
    BY <1>3 DEF MarshalAndPatch
  <2>2. /\ g_session'.initialized = g_session.initialized
        /\ g_session'.digest_size = g_session.digest_size
    BY <1>0, <2>1
    DEF SessionAuthPatchCommand, CaptureStartAuthSessionCommand, SessionStates
  <2>. QED
    BY <1>3, <2>2 DEF MarshalAndPatch, PromiseInv
<1>4. CASE EndIteration
  BY <1>4 DEF EndIteration, PromiseInv
<1>5. CASE UNCHANGED vars
  BY <1>5 DEF vars, tpmVars, driverVars, PromiseInv
<1>. QED
  BY <1>1, <1>2, <1>3, <1>4, <1>5, SendPromiseInv, ProcessPromiseInv DEF Next

LEMMA PromiseInvariance == Spec => [](IInv /\ PromiseInv)
<1>1. IInv /\ PromiseInv /\ [Next]_vars => PromiseInv'
  BY NextPromiseInv
<1>. QED
  BY InitPromiseInv, Invariance, <1>1, PTL DEF Spec

-----------------------------------------------------------------------------
(* The steps.                                                              *)

\* The handle the layer shows tells whether it is armed.
LEMMA ArmedHandle ==
  ASSUME IInv
  PROVE  /\ g_session.initialized <=> SessionAuthGetSessionHandle # NoHandle
         /\ g_session.initialized =>
              SessionAuthGetSessionHandle = g_session.handle
<1>1. g_session.initialized => g_session.handle # NoHandle
  BY HandleAssumption
  DEF IInv, LearnedThisIteration, Handles, RawHandles, SessionHandles
<1>. QED
  BY <1>1 DEF SessionAuthGetSessionHandle

\* The layer arms exactly for the sessions that have an empty key in the TPM.
LEMMA ArmsWhereKeyless ==
  ASSUME IInv, PromiseInv, pc = "process"
  PROVE  Arms(response) <=> Promise!StartsSession
<1>1. g_session.pending <=> wire.cc = "StartAuthSession"
  BY DEF IInv, StartInv, ResponseMatchesCommand
<1>2. SUFFICES ASSUME wire.cc = "StartAuthSession", response.ok
               PROVE  Arms(response) <=> sessions[response.handle].keyless
  BY <1>1 DEF Arms, Promise!StartsSession
<1>3. sessions[response.handle].keyless <=> Keyless(wire)
  BY <1>2 DEF IInv, AnswerInv
<1>4. response.tag = "NO_SESSIONS"
  <2>1. wire.cc \notin SessionCommands
    BY <1>2 DEF SessionCommands, TrackedCommands, HandleCount
  <2>. QED
    BY <1>2, <2>1 DEF IInv, AnswerInv, TypeOK, TpmTypeOK, Responses
<1>5. g_session.compatible <=> CompatibleStart(wire)
  BY <1>2 DEF IInv, StartInv
<1>6. CompatibleStart(wire) <=> Keyless(wire)
  BY <1>2 DEF CompatibleStart, Keyless, DigestSizeFor, PromiseInv
<1>. QED
  BY <1>1, <1>2, <1>3, <1>4, <1>5, <1>6 DEF Arms

\* The layer fills in the commands that one without its bookkeeping would.
LEMMA PatchableAgrees ==
  ASSUME IInv, PromiseInv, NEW r \in Requests
  PROVE  Patchable(r) <=> Promise!FillsIn(r)
<1>1. /\ r \in Commands
      /\ r.cc \in TrackedCommands => Len(r.handles) = HandleCount[r.cc]
      /\ r.tag = "SESSIONS" <=> r.cc \in SessionCommands
  BY RequestAssumption
<1>2. r.tag = "SESSIONS" => r.cc # "StartAuthSession"
  BY <1>1 DEF SessionCommands, TrackedCommands, HandleCount
<1>3. Len(r.auth) = 1 => r.auth[1].handle \in Handles
  <2>1. r.auth \in Seq(AuthEntries)
    BY <1>1 DEF Commands
  <2>2. Len(r.auth) = 1 => r.auth[1] \in AuthEntries
    BY <2>1
  <2>. QED
    BY <2>2 DEF AuthEntries
<1>4. Len(r.auth) = 1 =>
        ( r.auth[1].handle = SessionAuthGetSessionHandle
            <=> g_session.initialized /\ r.auth[1].handle = g_session.handle )
  BY <1>3, ArmedHandle, HandleAssumption DEF SessionAuthGetSessionHandle
<1>5. ASSUME NEW h \in Handles
      PROVE  HandleName(g_session.names, h) # NoName
               <=> h \in (DOMAIN g_session.names) \cup RawHandles
  <2>1. /\ DOMAIN g_session.names \subseteq TransientHandles
        /\ \A k \in DOMAIN g_session.names : g_session.names[k] \in ObjectNames
    BY DEF IInv, TypeOK, SessionAuthTypeOK, SessionStates
  <2>. QED
    BY <2>1, NameAssumption, HandleAssumption DEF HandleName, NameTableLookup
<1>6. ASSUME r.cc \in TrackedCommands
      PROVE  (\A i \in 1..HandleCount[r.cc] : CommandNames(r)[i] # NoName)
               <=> (\A i \in 1..Len(r.handles) :
                      r.handles[i] \in (DOMAIN g_session.names) \cup RawHandles)
  <2>1. \A i \in 1..Len(r.handles) : r.handles[i] \in Handles
    BY <1>1 DEF Commands
  <2>. QED
    BY <1>1, <1>5, <1>6, <2>1 DEF CommandNames
<1>7. g_session.initialized => g_session.digest_size # 0
  BY DEF PromiseInv
<1>8. Promise!TrackedCommands = TrackedCommands /\ Promise!RawHandles = RawHandles
  BY DEF Promise!TrackedCommands, TrackedCommands, Promise!RawHandles, RawHandles,
         Promise!SessionHandles, SessionHandles
<1>9. CASE r.tag = "SESSIONS" /\ r.cc \in TrackedCommands /\ Len(r.auth) = 1
  BY <1>2, <1>4, <1>6, <1>7, <1>8, <1>9 DEF Patchable, Promise!FillsIn
<1>10. CASE ~ (r.tag = "SESSIONS" /\ r.cc \in TrackedCommands /\ Len(r.auth) = 1)
  BY <1>8, <1>10 DEF Patchable, Promise!FillsIn
<1>. QED
  BY <1>9, <1>10

\* What the layer fills in is what the TPM expects, as far as it can be.
LEMMA PatchedIsFilledIn ==
  ASSUME IInv, pc = "loop", NEW r \in Requests, Patchable(r)
  PROVE  Promise!IsFilledIn(PatchedCommand(r), r)
<1> DEFINE cmd == PatchedCommand(r)
<1>1. /\ r \in Commands
      /\ r.cc \in TrackedCommands
      /\ Len(r.handles) = HandleCount[r.cc]
      /\ g_session.initialized
      /\ \A i \in 1..HandleCount[r.cc] : CommandNames(r)[i] # NoName
  BY RequestAssumption DEF Patchable
<1>2. r.auth[1] \in AuthEntries /\ ComputeHmac(r) \in HmacValues
  BY <1>1, HmacType DEF IInv, TypeOK
<1>3. cmd = [r EXCEPT !.auth = <<[r.auth[1] EXCEPT !.hmac = ComputeHmac(r)]>>]
  BY DEF PatchedCommand, PatchAuthArea
<1>4. Len(cmd.auth) = 1 /\ cmd.auth[1].hmac = ComputeHmac(r)
  BY <1>1, <1>2, <1>3 DEF Commands, AuthEntries
<1>5. ComputeHmac(r) \in Promise!HmacValues
  BY <1>2
  DEF HmacValues, Promise!HmacValues, TrackedCommands, Promise!TrackedCommands,
      RawHandles, Promise!RawHandles, SessionHandles, Promise!SessionHandles
<1>6. SessionAuthGetSessionHandle = g_session.handle
  BY <1>1 DEF SessionAuthGetSessionHandle
<1>7. ASSUME ~ desynced, g_session.handle \in DOMAIN sessions, EntitiesExist(r)
      PROVE  /\ sessions[g_session.handle].keyless
             /\ ComputeHmac(r) = ExpectedHmac(r, g_session.handle)
  BY <1>1, <1>7, HmacsAgree
<1>. QED
  BY <1>3, <1>4, <1>5, <1>6, <1>7, SameExpectations DEF Promise!IsFilledIn

LEMMA MarshalRefines ==
  ASSUME IInv, PromiseInv, MarshalAndPatch
  PROVE  Promise!Prepare
<1>1. PICK r \in Requests : /\ wire' = PatchedCommand(r)
                            /\ SessionAuthPatchCommand(r)
  BY DEF MarshalAndPatch
<1>2. /\ g_session'.initialized = g_session.initialized
      /\ g_session'.handle = g_session.handle
      /\ g_session'.names = g_session.names
  BY <1>1
  DEF SessionAuthPatchCommand, CaptureStartAuthSessionCommand, IInv, TypeOK,
      SessionAuthTypeOK, SessionStates
<1>3. \/ ~ Promise!FillsIn(r) /\ wire' = r
      \/ Promise!FillsIn(r) /\ Promise!IsFilledIn(wire', r)
  BY <1>1, PatchableAgrees, PatchedIsFilledIn DEF MarshalAndPatch, PatchedCommand
<1>4. /\ UNCHANGED SessionAuthGetSessionHandle
      /\ UNCHANGED DOMAIN g_session.names
  BY <1>2 DEF SessionAuthGetSessionHandle
<1>. QED
  BY <1>3, <1>4
  DEF MarshalAndPatch, Promise!Prepare, historyVars, tpmVars, Promise!tpmVars

LEMMA SendRefines ==
  ASSUME IInv, PromiseInv, PromiseInv', SendCommand
  PROVE  Promise!Execute
<1>1. Promise!TpmExecute(wire)
  BY SameTpm DEF SendCommand
<1>2. LosesNonce(wire, response') <=> Promise!TakesNonce(wire, response')
  <2>1. ASSUME response'.ok, wire.cc = "StartAuthSession"
        PROVE  Keyless(wire) <=> CompatibleStart(wire)
    BY <2>1 DEF SendCommand, PromiseInv, Keyless, CompatibleStart, DigestSizeFor
  <2>2. /\ Promise!TrackedCommands = TrackedCommands
        /\ Promise!Keyless(wire) = Keyless(wire)
        /\ \A cmd, h : Promise!Uses(cmd, h) <=> Uses(cmd, h)
    BY DEF Promise!TrackedCommands, TrackedCommands, Promise!Keyless, Keyless,
           Promise!Uses, Uses
  <2>. QED
    BY <2>1, <2>2, ArmedHandle DEF LosesNonce, Promise!TakesNonce
<1>3. UNCHANGED SessionAuthGetSessionHandle /\ UNCHANGED DOMAIN g_session.names
  BY DEF SendCommand, SessionAuthGetSessionHandle
<1>. QED
  BY <1>1, <1>2, <1>3 DEF SendCommand, Promise!Execute

LEMMA ProcessRefines ==
  ASSUME IInv, PromiseInv, ProcessResponse
  PROVE  Promise!Answer
<1> DEFINE known == DOMAIN g_session.names
           armed == SessionAuthGetSessionHandle
<1>1. /\ pc = "process"
      /\ SessionAuthProcessResponse(response)
      /\ Arms(response) <=> Promise!StartsSession
  BY ArmsWhereKeyless DEF ProcessResponse
<1>2. /\ g_session.last_command_code = wire.cc
      /\ g_session.pending <=> wire.cc = "StartAuthSession"
      /\ g_session \in SessionStates
  BY <1>1 DEF IInv, StartInv, ResponseMatchesCommand, TypeOK, SessionAuthTypeOK
<1>3. SUFFICES
        /\ armed' = IF Arms(response) THEN response.handle ELSE armed
        /\ known' = IF Arms(response) THEN {}
                    ELSE IF /\ Promise!BringsObject
                            /\ armed # NoHandle
                            /\ Cardinality(known) < MaxNames
                           THEN known \cup {response.handle}
                           ELSE known
  <2>1. /\ wire' = Promise!NoCommand
        /\ response' = Promise!NoResponse
    BY DEF ProcessResponse, Promise!NoCommand, NoCommand, Promise!NoResponse,
           NoResponse, Promise!NoStart, NoStart
  <2>2. /\ desynced' = (desynced /\ ~ Promise!StartsSession)
        /\ pc' = "loop"
        /\ UNCHANGED <<sessions, objects, clock>>
    BY <1>1, Zenon DEF ProcessResponse
  <2>. QED
    BY <1>1, <2>1, <2>2, SameCardinality DEF Promise!Answer
<1>4. CASE ArmSession(response)
  BY <1>4 DEF ArmSession, SessionAuthInit, ZeroSession, NoEntries,
              SessionAuthGetSessionHandle
<1>5. CASE DropStart(response)
  <2>1. ~ Arms(response) /\ ~ Promise!BringsObject
    BY <1>2, <1>5 DEF DropStart, Promise!BringsObject
  <2>2. /\ g_session'.initialized = g_session.initialized
        /\ g_session'.handle = g_session.handle
        /\ g_session'.names = g_session.names
    BY <1>2, <1>5 DEF DropStart, SessionStates
  <2>. QED
    BY <2>1, <2>2 DEF SessionAuthGetSessionHandle
<1>6. CASE RefreshSession(response)
  <2>1. ~ Arms(response) /\ g_session.initialized /\ response.ok
    BY <1>6 DEF RefreshSession, Refreshes, Arms
  <2>2. /\ g_session'.initialized = g_session.initialized
        /\ g_session'.handle = g_session.handle
        /\ g_session'.names = PopulateNameFromResponse(response)
    BY <1>2, <1>6 DEF RefreshSession, SessionStates
  <2>3. armed # NoHandle
    BY <2>1, ArmedHandle
  <2>4. Promise!BringsObject <=> wire.cc \in NameExtractors
    BY <2>1 DEF Promise!BringsObject, NameExtractors
  <2>5. wire.cc \in NameExtractors => OutHandleCount[wire.cc] > 0
    BY DEF NameExtractors, OutHandleCount, TrackedCommands
  <2>6. known' = IF wire.cc \in NameExtractors /\ Cardinality(known) < MaxNames
                   THEN known \cup {response.handle} ELSE known
    BY <1>2, <2>2, <2>5 DEF PopulateNameFromResponse, NameTableAdd
  <2>. QED
    BY <2>1, <2>2, <2>3, <2>4, <2>6 DEF SessionAuthGetSessionHandle
<1>7. CASE IgnoreResponse(response)
  <2>1. ~ Arms(response) /\ UNCHANGED g_session
    BY <1>7 DEF IgnoreResponse, Arms
  <2>2. Promise!BringsObject => ~ g_session.initialized
    <3>1. SUFFICES ASSUME Promise!BringsObject PROVE ~ g_session.initialized
      OBVIOUS
    <3>2. response.ok /\ wire.cc \in SessionCommands /\ wire.cc \in TrackedCommands
      BY <3>1 DEF Promise!BringsObject, SessionCommands, TrackedCommands
    <3>3. response.tag = "SESSIONS"
      BY <1>1, <3>2 DEF IInv, AnswerInv
    <3>. QED
      BY <1>2, <1>7, <3>2, <3>3 DEF IgnoreResponse, Refreshes
  <2>3. Promise!BringsObject => armed = NoHandle
    BY <2>2 DEF SessionAuthGetSessionHandle
  <2>. QED
    BY <2>1, <2>3 DEF SessionAuthGetSessionHandle
<1>. QED
  BY <1>1, <1>4, <1>5, <1>6, <1>7 DEF SessionAuthProcessResponse

LEMMA StepRefines ==
  IInv /\ PromiseInv /\ PromiseInv' /\ [Next]_vars
    => [Promise!Next]_(Promise!promiseVars)
<1>. SUFFICES ASSUME IInv, PromiseInv, PromiseInv', [Next]_vars
              PROVE  [Promise!Next]_(Promise!promiseVars)
  OBVIOUS
<1>1. CASE BeginIteration
  <2>1. /\ SessionAuthGetSessionHandle' = NoHandle
        /\ (DOMAIN g_session.names)' = {}
    BY <1>1 DEF BeginIteration, SessionAuthReset, ZeroSession, NoEntries,
                SessionAuthGetSessionHandle
  <2>. QED
    BY <1>1, <2>1
    DEF BeginIteration, Promise!Next, Promise!Begin, TpmOff, Promise!TpmOff,
        Nothing, Promise!Nothing
<1>2. CASE SkipCommand
  BY <1>2 DEF SkipCommand, historyVars, tpmVars, Promise!promiseVars,
              Promise!tpmVars, SessionAuthGetSessionHandle
<1>3. CASE MarshalAndPatch
  BY <1>3, MarshalRefines DEF Promise!Next
<1>4. CASE SendCommand
  BY <1>4, SendRefines DEF Promise!Next
<1>5. CASE ProcessResponse
  BY <1>5, ProcessRefines DEF Promise!Next
<1>6. CASE EndIteration
  BY <1>6
  DEF EndIteration, Promise!Next, Promise!End, historyVars, TpmOff, Promise!TpmOff,
      Nothing, Promise!Nothing, SessionAuthGetSessionHandle
<1>7. CASE UNCHANGED vars
  BY <1>7 DEF vars, driverVars, historyVars, tpmVars, Promise!promiseVars,
              Promise!tpmVars, SessionAuthGetSessionHandle
<1>. QED
  BY <1>1, <1>2, <1>3, <1>4, <1>5, <1>6, <1>7 DEF Next

\* The layer, which sees the traffic alone, does what SessionPromise asks of one
\* that looks into the TPM (session_auth.cc:461-625): it arms for the keyless
\* sessions, fills in the same commands, and with the TPM's own nonce and Names.
THEOREM Refinement == Spec => KeepsPromise
<1>1. Init => Promise!Init
  BY DEF Init, Promise!Init, ZeroSession, NoEntries, SessionAuthGetSessionHandle,
         Nothing, Promise!Nothing, NoResponse, Promise!NoResponse, NoCommand,
         Promise!NoCommand, NoStart, Promise!NoStart
<1>2. IInv /\ PromiseInv /\ PromiseInv' /\ [Next]_vars
        => [Promise!Next]_(Promise!promiseVars)
  BY StepRefines
<1>. QED
  BY <1>1, <1>2, PromiseInvariance, PTL DEF Spec, KeepsPromise, Promise!Spec
==============================================================================
