---------------------------- MODULE MCPatchLayout ----------------------------
(***************************************************************************)
(* Instances of PatchLayout for TLC: NV_DefineSpace and Clear commands as  *)
(* the marshaller writes them, with the armed session's handle, a          *)
(* password, or both in the authorization area.                            *)
(***************************************************************************)
EXTENDS PatchLayout, SequencesExt

CC_Clear == 294
CC_NV_DefineSpace == 298
CC_Untracked == 316
Armed == 33554432     \* 0x02000000
Other == 33554433
Owner == 1073741825   \* TPM_RH_OWNER
Pw == 1073741833      \* TPM_RS_PW

\* The n low bytes of v, most significant first.
BigEndian(v, n) == [i \in 1..n |-> IF n = 2 THEN Bytes16(v)[i - 1] ELSE Bytes32(v)[i - 1]]
Fill(v, n) == [i \in 1..n |-> v]

Entry(h, nonce, hmac) ==
  BigEndian(h, 4) \o BigEndian(nonce, 2) \o Fill(17, nonce) \o <<1>>
    \o BigEndian(hmac, 2) \o Fill(34, hmac)

\* Parameters whose bytes differ, so that a byte out of place shows.
Parameters(n) == [i \in 1..n |-> (7 * i) % 256]

Command(cc, entries, params) ==
  LET area == FlattenSeq(entries)
      rest == BigEndian(cc, 4) \o BigEndian(Owner, 4)
                \o BigEndian(Len(area), 4) \o area \o Parameters(params)
  IN BigEndian(TPM2_ST_SESSIONS, 2) \o BigEndian(6 + Len(rest), 4) \o rest

PlainCommand ==
  BigEndian(32769, 2) \o BigEndian(12, 4) \o BigEndian(379, 4) \o BigEndian(8, 2)

ArmedEntries ==
  {Entry(Armed, n, h) : n \in {0, 15, 16, 17, 64}, h \in {0, 31, 32, 33, 64}}

MCInputs ==
  {Command(CC_NV_DefineSpace, <<e>>, n) : e \in ArmedEntries, n \in {0, 1, 70, 200}}
    \cup {Command(CC_Clear, es, 0) :
            es \in {<< >>, <<Entry(Pw, 0, 0)>>, <<Entry(Other, 16, 32)>>,
                    <<Entry(Armed, 0, 0), Entry(Pw, 0, 0)>>,
                    <<Entry(Pw, 0, 0), Entry(Armed, 0, 0)>>}}
    \cup {Command(CC_NV_DefineSpace, <<Entry(Armed, 0, 0), Entry(Pw, 0, 64)>>, 70)}
    \cup {Command(CC_Untracked, <<Entry(Armed, 0, 0)>>, 4), PlainCommand}

MCHandleCount == CC_Clear :> 1 @@ CC_NV_DefineSpace :> 1
MCHmac == [i \in 0..kHmacSize - 1 |-> 100 + i]
==============================================================================
