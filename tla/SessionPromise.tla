---------------------------- MODULE SessionPromise ----------------------------
(***************************************************************************)
(* What the session layer (src/harness/session_auth.cc) promises to the    *)
(* fuzz target (src/proto-fuzzer.cc): that it fills in the HMACs that the  *)
(* TPM expects, as a layer could that looks into the TPM.                  *)
(*                                                                         *)
(* Here the layer has no nonce, no Names and no bookkeeping of the traffic *)
(* of its own.  It only remembers which session it works for, which        *)
(* objects it knows, and whether it has lost track; the rest it takes from *)
(* the TPM.                                                                *)
(***************************************************************************)
EXTENDS Tpm

CONSTANT Requests   \* what MarshalCommand can produce

VARIABLES
  pc,
  wire,    \* the command buffer
  armed,   \* the session the layer works for, or NoHandle
  known,   \* the handles whose objects it knows
  lost     \* a command has taken the session's nonce past it

promiseVars == <<tpmVars, pc, wire, armed, known, lost>>

Init ==
  /\ sessions = Nothing
  /\ objects = Nothing
  /\ clock = 0
  /\ response = NoResponse
  /\ pc = "idle"
  /\ wire = NoCommand
  /\ armed = NoHandle
  /\ known = {}
  /\ lost = FALSE

Begin ==
  /\ pc = "idle"
  /\ TpmOff
  /\ pc' = "loop"
  /\ armed' = NoHandle
  /\ known' = {}
  /\ lost' = FALSE
  /\ UNCHANGED <<clock, response, wire>>

-----------------------------------------------------------------------------
(* Filling in.                                                             *)

\* The one entry of a tracked command, for the layer's session, where no handle
\* is of an object that the layer does not know.
FillsIn(cmd) ==
  /\ cmd.tag = "SESSIONS"
  /\ cmd.cc \in TrackedCommands
  /\ Len(cmd.auth) = 1
  /\ cmd.auth[1].handle = armed
  /\ \A i \in 1..Len(cmd.handles) : cmd.handles[i] \in known \cup RawHandles

\* The command cmd is the request r with an HMAC, which is the one that the TPM
\* expects unless the layer has lost track, or session or objects are gone.
IsFilledIn(cmd, r) ==
  /\ Len(cmd.auth) = 1
  /\ cmd.auth[1].hmac \in HmacValues
  /\ cmd = [r EXCEPT !.auth = <<[r.auth[1] EXCEPT !.hmac = cmd.auth[1].hmac]>>]
  /\ ~ lost /\ armed \in DOMAIN sessions /\ EntitiesExist(r) =>
       /\ sessions[armed].keyless
       /\ cmd.auth[1].hmac = ExpectedHmac(r, armed)

Prepare ==
  /\ pc = "loop"
  /\ \E r \in Requests :
       \/ ~ FillsIn(r) /\ wire' = r
       \/ FillsIn(r) /\ IsFilledIn(wire', r)
  /\ pc' = "send"
  /\ UNCHANGED <<tpmVars, armed, known, lost>>

-----------------------------------------------------------------------------
(* The TPM's turn.                                                         *)

\* Another session authorizes first, or the layer's own does and the layer does
\* not recognize it, or a new session that it cannot work for has its handle.
TakesNonce(cmd, r) ==
  /\ armed # NoHandle
  /\ r.ok
  /\ \/ /\ cmd.tag = "SESSIONS"
        /\ Uses(cmd, armed)
        /\ cmd.cc \in TrackedCommands => cmd.auth[1].handle # armed
     \/ /\ cmd.tag = "SESSIONS"
        /\ cmd.cc \in TrackedCommands
        /\ cmd.auth[1].handle \notin {Password, armed}
     \/ /\ cmd.cc = "StartAuthSession"
        /\ r.handle = armed
        /\ ~ Keyless(cmd)

Execute ==
  /\ pc = "send"
  /\ TpmExecute(wire)
  /\ pc' = "process"
  /\ lost' = (lost \/ TakesNonce(wire, response'))
  /\ UNCHANGED <<wire, armed, known>>

\* The pending response is of a session that the layer can work for, or of an
\* object.
StartsSession ==
  /\ wire.cc = "StartAuthSession"
  /\ response.ok
  /\ sessions[response.handle].keyless
BringsObject == wire.cc \in {"CreatePrimary", "Load"} /\ response.ok

Answer ==
  /\ pc = "process"
  /\ armed' = IF StartsSession THEN response.handle ELSE armed
  /\ known' = IF StartsSession THEN {}
              ELSE IF /\ BringsObject
                      /\ armed # NoHandle
                      /\ Cardinality(known) < MaxNames
                     THEN known \cup {response.handle}
                     ELSE known
  /\ lost' = (lost /\ ~ StartsSession)
  /\ pc' = "loop"
  /\ wire' = NoCommand
  /\ response' = NoResponse
  /\ UNCHANGED <<sessions, objects, clock>>

End ==
  /\ pc = "loop"
  /\ TpmOff
  /\ pc' = "idle"
  /\ UNCHANGED <<clock, response, wire, armed, known, lost>>

Next == Begin \/ Prepare \/ Execute \/ Answer \/ End

Spec == Init /\ [][Next]_promiseVars
==============================================================================
