------------------------------ MODULE ByteTarget ------------------------------
(***************************************************************************)
(* What the byte array fuzz target (src/fuzzer.cc) promises for an input,  *)
(* with parseCommands as one step: the TPM gets all the commands of an     *)
(* input that is a string of commands, and nothing of any other.           *)
(***************************************************************************)
EXTENDS CommandHeaders

CONSTANT Inputs

VARIABLES
  pc,
  input,
  commands,   \* where each command begins and ends
  sent        \* how many of them the TPM got

vars == <<pc, input, commands, sent>>

Init ==
  /\ pc = "idle"
  /\ input = << >>
  /\ commands = << >>
  /\ sent = 0

Begin ==
  /\ pc = "idle"
  /\ pc' = "parse"
  /\ input' \in Inputs
  /\ commands' = << >>
  /\ sent' = 0

IsString(d) == \E C \in SUBSET Places(d) : Splits(d, C)

\* The commands cs, in the order of the input, are the ones C cuts it into.
AreCommands(cs, d, C) ==
  /\ {cs[i][1] : i \in 1..Len(cs)} \cup {Len(d)} = C
  /\ \A i \in 1..Len(cs) : cs[i][2] = cs[i][1] + Length(d, cs[i][1])
  /\ \A i \in 1..Len(cs) : \A j \in (i + 1)..Len(cs) : cs[i][2] <= cs[j][1]

Reject ==
  /\ pc = "parse"
  /\ ~ IsString(input)
  /\ pc' = "rejected"
  /\ UNCHANGED <<input, commands, sent>>

Accept ==
  /\ pc = "parse"
  /\ \E C \in SUBSET Places(input) :
       Splits(input, C) /\ AreCommands(commands', input, C)
  /\ pc' = "send"
  /\ UNCHANGED <<input, sent>>

Send ==
  /\ pc = "send"
  /\ sent < Len(commands)
  /\ sent' = sent + 1
  /\ UNCHANGED <<pc, input, commands>>

Finish ==
  /\ pc = "rejected" \/ (pc = "send" /\ sent = Len(commands))
  /\ pc' = "idle"
  /\ input' = << >>
  /\ commands' = << >>
  /\ sent' = 0

Next == Begin \/ Reject \/ Accept \/ Send \/ Finish

Spec == Init /\ [][Next]_vars
==============================================================================
