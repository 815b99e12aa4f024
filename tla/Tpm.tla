--------------------------------- MODULE Tpm ---------------------------------
(***************************************************************************)
(* The TPM behind the harness: code that is not in this repository         *)
(* (vendor/TPM is a submodule), modelled from how src/ uses it and from    *)
(* what session_auth.cc says of it.                                        *)
(*                                                                         *)
(*  - A session has a rolling nonceTPM: every command that it authorizes   *)
(*    and that succeeds gives it a new one, returned in the response, and  *)
(*    ends the session unless its entry asks to continue it.               *)
(*  - A freed session slot is used again, with the same handle.            *)
(*  - An HMAC the layer computed is accepted exactly when it digests this  *)
(*    command, the current Names and the current nonceTPM, and the session *)
(*    has the empty session key and the hash the layer assumes.            *)
(*  - The seed's own HMAC bytes may be accepted (an empty HMAC is when the *)
(*    key is empty) or not, and any command may fail for other reasons.    *)
(*  - A failed command changes nothing and is answered without sessions.   *)
(*                                                                         *)
(* The clock numbers the nonces, so a nonce says when it was issued.       *)
(***************************************************************************)
EXTENDS TpmTraffic

VARIABLES
  sessions,  \* live session handles, each with its nonce and whether keyless
  objects,   \* loaded transient handles, each with its Name and its birth
  clock,     \* the last nonce issued
  response   \* the response buffer of the harness

tpmVars == <<sessions, objects, clock, response>>

Sessions == [nonce : Nat, keyless : BOOLEAN]
Objects == [name : ObjectNames, born : Nat]

NoResponse ==
  [tag |-> "NO_SESSIONS", ok |-> FALSE, handle |-> NoHandle, name |-> NoName,
   nonce |-> 0]

\* A partial function from D to R.
IsMap(f, D, R) == DOMAIN f \subseteq D /\ f \in [DOMAIN f -> R]

TpmTypeOK ==
  /\ IsMap(sessions, SessionHandles, Sessions)
  /\ IsMap(objects, TransientHandles, Objects)
  /\ clock \in Nat
  /\ response \in Responses

Nothing == [h \in {} |-> NoName]

TpmOff ==
  /\ sessions' = Nothing
  /\ objects' = Nothing

-----------------------------------------------------------------------------
(* Authorization.                                                          *)

Loaded(h) ==
  /\ h \notin PersistentHandles \cup OtherHandles
  /\ h \in TransientHandles => h \in DOMAIN objects

TpmName(h) == IF h \in TransientHandles THEN objects[h].name ELSE h

EntitiesExist(cmd) == \A i \in 1..Len(cmd.handles) : Loaded(cmd.handles[i])

ExpectedHmac(cmd, h) ==
  [cc |-> cmd.cc,
   names |-> [i \in 1..Len(cmd.handles) |-> TpmName(cmd.handles[i])],
   nonce |-> sessions[h].nonce]

AcceptsEntry(cmd, e) ==
  \/ e.handle = Password
  \/ /\ e.handle \in DOMAIN sessions
     /\ \/ e.hmac = SeedHmac
        \/ sessions[e.handle].keyless /\ e.hmac = ExpectedHmac(cmd, e.handle)

\* No session may authorize twice in one command.
Authorized(cmd) ==
  /\ cmd.auth # << >>
  /\ \A i \in 1..Len(cmd.auth) : AcceptsEntry(cmd, cmd.auth[i])
  /\ \A i, j \in 1..Len(cmd.auth) :
       cmd.auth[i].handle = cmd.auth[j].handle /\ i # j
         => cmd.auth[i].handle = Password

-----------------------------------------------------------------------------
(* Effects.                                                                *)

EntryOf(cmd, h) == CHOOSE i \in 1..Len(cmd.auth) : cmd.auth[i].handle = h

Uses(cmd, h) == \E i \in 1..Len(cmd.auth) : cmd.auth[i].handle = h

Continues(cmd, h) ==
  \A i \in 1..Len(cmd.auth) :
    cmd.auth[i].handle = h => cmd.auth[i].continue

\* Every session of the command gets a nonce of its own, or ends.
RollSessions(cmd) ==
  /\ sessions' = [h \in {k \in DOMAIN sessions : Continues(cmd, k)} |->
                    IF Uses(cmd, h)
                      THEN [sessions[h] EXCEPT !.nonce = clock + EntryOf(cmd, h)]
                      ELSE sessions[h]]
  /\ clock' = clock + Len(cmd.auth)

FirstNonce(cmd) == IF cmd.auth[1].handle = Password THEN 0 ELSE clock + 1

Keyless(cmd) ==
  /\ cmd.handles[1] = NullHandle
  /\ cmd.handles[2] = NullHandle
  /\ cmd.start.type = "HMAC"
  /\ cmd.start.hash = "SHA256"

\* A salt needs a key to decrypt it with, and a key needs a salt.
TpmStartAuthSession(cmd) ==
  /\ cmd.cc = "StartAuthSession"
  /\ EntitiesExist(cmd)
  /\ cmd.start.salt = "SALTED" <=> cmd.handles[1] # NullHandle
  /\ \E h \in (IF cmd.start.type = "HMAC" THEN HmacHandles ELSE PolicyHandles)
                \ DOMAIN sessions :
       /\ sessions' = [k \in DOMAIN sessions \cup {h} |->
                         IF k = h
                           THEN [nonce |-> clock + 1, keyless |-> Keyless(cmd)]
                           ELSE sessions[k]]
       /\ response' = [tag |-> "NO_SESSIONS", ok |-> TRUE, handle |-> h,
                       name |-> NoName, nonce |-> clock + 1]
  /\ clock' = clock + 1
  /\ UNCHANGED objects

\* CreatePrimary and Load return a new object and its Name.
TpmCreateObject(cmd) ==
  /\ cmd.cc \in {"CreatePrimary", "Load"}
  /\ EntitiesExist(cmd)
  /\ Authorized(cmd)
  /\ RollSessions(cmd)
  /\ \E h \in TransientHandles \ DOMAIN objects, n \in ObjectNames :
       /\ objects' = [k \in DOMAIN objects \cup {h} |->
                        IF k = h THEN [name |-> n, born |-> clock']
                                 ELSE objects[k]]
       /\ response' = [tag |-> "SESSIONS", ok |-> TRUE, handle |-> h,
                       name |-> n, nonce |-> FirstNonce(cmd)]

\* Clear flushes the objects of the storage and endorsement hierarchies, so
\* some of those loaded.
TpmClear(cmd) ==
  /\ cmd.cc = "Clear"
  /\ EntitiesExist(cmd)
  /\ Authorized(cmd)
  /\ RollSessions(cmd)
  /\ \E kept \in SUBSET DOMAIN objects :
       objects' = [h \in kept |-> objects[h]]
  /\ response' = [tag |-> "SESSIONS", ok |-> TRUE, handle |-> NoHandle,
                  name |-> NoName, nonce |-> FirstNonce(cmd)]

\* The other authorized commands return nothing the harness tracks.
TpmAuthorizedCommand(cmd) ==
  /\ cmd.cc \in SessionCommands \ {"CreatePrimary", "Load", "Clear"}
  /\ EntitiesExist(cmd)
  /\ Authorized(cmd)
  /\ RollSessions(cmd)
  /\ response' = [tag |-> "SESSIONS", ok |-> TRUE, handle |-> NoHandle,
                  name |-> NoName, nonce |-> FirstNonce(cmd)]
  /\ UNCHANGED objects

TpmPlainCommand(cmd) ==
  /\ cmd.cc \in PlainCommands \ {"StartAuthSession"}
  /\ EntitiesExist(cmd)
  /\ response' = [tag |-> "NO_SESSIONS", ok |-> TRUE, handle |-> NoHandle,
                  name |-> NoName, nonce |-> 0]
  /\ UNCHANGED <<sessions, objects, clock>>

TpmFail(cmd) ==
  /\ response' = NoResponse
  /\ UNCHANGED <<sessions, objects, clock>>

TpmExecute(cmd) ==
  \/ TpmStartAuthSession(cmd)
  \/ TpmCreateObject(cmd)
  \/ TpmClear(cmd)
  \/ TpmAuthorizedCommand(cmd)
  \/ TpmPlainCommand(cmd)
  \/ TpmFail(cmd)
==============================================================================
