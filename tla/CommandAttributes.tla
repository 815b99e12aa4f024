------------------------- MODULE CommandAttributes -------------------------
(***************************************************************************)
(* The command codes: those the harness has attributes for                 *)
(* (include/harness/command_attributes.h) and those the fuzz target emits. *)
(* A command code stands for its number.                                   *)
(***************************************************************************)
EXTENDS Integers

TrackedCommands ==
  {"Clear", "CreatePrimary", "ActivateCredential", "Create", "Load", "Quote",
   "RSA_Decrypt", "Sign", "Unseal", "ContextLoad", "ContextSave",
   "FlushContext", "MakeCredential", "StartAuthSession", "VerifySignature",
   "GetCapability", "GetRandom", "PCR_Extend", "NV_DefineSpace"}

\* Variant: the count of an object's command takes its output handle in.
HandleCountInAndOut ==
  [cc \in TrackedCommands |->
     CASE cc \in {"FlushContext", "GetCapability", "GetRandom"} -> 0
       [] cc \in {"ActivateCredential", "CreatePrimary", "Load"} -> 2
       [] cc = "StartAuthSession" -> 3
       [] OTHER -> 1]

HandleCount ==
  [cc \in TrackedCommands |->
     IF cc \in {"ContextLoad", "FlushContext", "GetCapability", "GetRandom"}
       THEN 0
       ELSE IF cc \in {"ActivateCredential", "StartAuthSession"} THEN 2 ELSE 1]

OutHandleCount ==
  [cc \in TrackedCommands |->
     IF cc \in {"CreatePrimary", "Load", "ContextLoad", "StartAuthSession"}
       THEN 1 ELSE 0]

\* The commands the proto schema can express.
SessionCommands ==
  {"Clear", "Load", "CreatePrimary", "Create", "RSA_Decrypt", "NV_DefineSpace",
   "SetPrimaryPolicy", "PCR_Allocate", "PCR_Event", "PCR_SetAuthPolicy"}
PlainCommands ==
  {"StartAuthSession", "GetRandom", "RSA_Encrypt", "MakeCredential", "PCR_Read"}
EmittedCommands == SessionCommands \cup PlainCommands
==============================================================================
