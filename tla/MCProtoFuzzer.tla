---------------------------- MODULE MCProtoFuzzer ----------------------------
(***************************************************************************)
(* Instances of ProtoFuzzer for TLC: the request sets that the runs feed   *)
(* to the fuzz target.                                                     *)
(***************************************************************************)
EXTENDS ProtoFuzzer

CONSTANTS h1, h2, p1, t1, t2, owner, n1, n2

Entry(h, c) == [handle |-> h, continue |-> c, hmac |-> SeedHmac]

Authorizing(cc, handles, auth) ==
  [cc |-> cc, tag |-> "SESSIONS", handles |-> handles, auth |-> auth,
   start |-> NoStart]

Starting(bind, type, hash) ==
  [cc |-> "StartAuthSession", tag |-> "NO_SESSIONS",
   handles |-> <<NullHandle, bind>>, auth |-> << >>,
   start |-> [salt |-> "EMPTY", type |-> type, hash |-> hash]]

CompatibleRequest == Starting(NullHandle, "HMAC", "SHA256")
OtherStarts ==
  {Starting(owner, "HMAC", "SHA256"), Starting(NullHandle, "HMAC", "OTHER"),
   Starting(NullHandle, "POLICY", "SHA256")}

\* Authorizations: none, a password, one session, and two entries.
Auths ==
  {<< >>, <<Entry(Password, FALSE)>>,
   <<Entry(h1, TRUE)>>, <<Entry(h1, FALSE)>>, <<Entry(h2, TRUE)>>,
   <<Entry(p1, TRUE)>>,
   <<Entry(h1, TRUE), Entry(Password, FALSE)>>,
   <<Entry(h2, TRUE), Entry(h1, TRUE)>>}

AnyRequests ==
  {CompatibleRequest} \cup OtherStarts \cup {NoCommand}
    \cup {Authorizing("CreatePrimary", <<owner>>, a) : a \in Auths}
    \cup {Authorizing("Load", <<t1>>, a) : a \in {<<Entry(h1, TRUE)>>}}
    \cup {Authorizing("Clear", <<owner>>, a) :
            a \in {<<Entry(Password, FALSE)>>, <<Entry(h1, TRUE)>>}}
    \cup {Authorizing("RSA_Decrypt", <<t2>>, a) :
            a \in {<<Entry(h1, TRUE)>>, <<Entry(h1, FALSE)>>}}
    \cup {Authorizing("PCR_Event", <<owner>>, a) :
            a \in {<<Entry(h1, TRUE)>>, <<Entry(h2, TRUE)>>}}

\* Inputs that start sessions one at a time and continue them, and authorize
\* with that session; one of their commands is not in the attribute table.
OneSessionRequests ==
  {CompatibleRequest}
    \cup {Authorizing(cc, <<owner>>, <<Entry(h1, TRUE)>>) :
            cc \in {"NV_DefineSpace", "PCR_Event"}}
==============================================================================
