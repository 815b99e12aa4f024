------------------------------ MODULE ByteParser ------------------------------
(***************************************************************************)
(* parseCommands (src/parser/byte_parser.cc) and the loop of the byte      *)
(* array fuzz target around it (src/fuzzer.cc): an input is cut into TPM   *)
(* commands at the commandSize fields of their headers, and either all of  *)
(* the commands reach the TPM, in order, or none does.                     *)
(*                                                                         *)
(* A command is the pair of offsets between which its bytes lie.           *)
(***************************************************************************)
EXTENDS CommandHeaders

CONSTANT Inputs   \* what libFuzzer calls the target with

Byte == {v \in Nat : v <= 255}

ASSUME InputAssumption == \A w \in Inputs : w \in Seq(Byte)

VARIABLES
  pc,
  data,       \* the input
  offset,
  commands,   \* the commands cut so far
  sent        \* how many of them the target has sent to the TPM

vars == <<pc, data, offset, commands, sent>>

size == Len(data)

Init ==
  /\ pc = "idle"
  /\ data = << >>
  /\ offset = 0
  /\ commands = << >>
  /\ sent = 0

\* LLVMFuzzerTestOneInput calls parseCommands.
Begin ==
  /\ pc = "idle"
  /\ data' \in Inputs
  /\ offset' = 0
  /\ commands' = << >>
  /\ sent' = 0
  /\ pc' = "parse"

\* Variant: the loop goes on instead of returning.
RejectNever ==
  /\ pc = "parse"
  /\ offset < size
  /\ BadHeader(data, offset)
  /\ UNCHANGED vars

\* parseCommands returns false, and the target returns before it has touched
\* the TPM; the commands cut so far stay in the vector.
Reject ==
  /\ pc = "parse"
  /\ offset < size
  /\ BadHeader(data, offset)
  /\ pc' = "rejected"
  /\ UNCHANGED <<data, offset, commands, sent>>

Cut ==
  /\ pc = "parse"
  /\ offset < size
  /\ ~ BadHeader(data, offset)
  /\ commands' = Append(commands, <<offset, offset + Length(data, offset)>>)
  /\ offset' = offset + Length(data, offset)
  /\ UNCHANGED <<pc, data, sent>>

\* parseCommands returns true and the target powers the TPM on.
Accept ==
  /\ pc = "parse"
  /\ offset >= size
  /\ pc' = "send"
  /\ UNCHANGED <<data, offset, commands, sent>>

Send ==
  /\ pc = "send"
  /\ sent < Len(commands)
  /\ sent' = sent + 1
  /\ UNCHANGED <<pc, data, offset, commands>>

\* The target returns, and the vector goes out of scope.
Finish ==
  /\ pc = "rejected" \/ (pc = "send" /\ sent = Len(commands))
  /\ pc' = "idle"
  /\ data' = << >>
  /\ offset' = 0
  /\ commands' = << >>
  /\ sent' = 0

\* The target, once libFuzzer has called it.
Target == Reject \/ Cut \/ Accept \/ Send \/ Finish

Next == Begin \/ Target

\* libFuzzer may stop calling it; the target itself goes on.
Spec == Init /\ [][Next]_vars /\ WF_vars(Target)

-----------------------------------------------------------------------------
(* Properties.                                                             *)

\* Type invariant: the offset never leaves the input.
TypeOK ==
  /\ pc \in {"idle", "parse", "rejected", "send"}
  /\ data \in Seq(Byte)
  /\ offset \in 0..size
  /\ commands \in Seq((0..size) \X (0..size))
  /\ sent \in 0..Len(commands)

\* ByteTarget sees the commands when all of them are cut.
Abstract ==
  INSTANCE ByteTarget
    WITH input <- data, commands <- IF pc = "send" THEN commands ELSE << >>

\* The loop of parseCommands decides in one pass what ByteTarget asks of the
\* whole input: an input is rejected exactly if it cannot be cut into commands,
\* what is sent is that cut, in order, and nothing is sent before all of it is
\* known (byte_parser.cc:17-41, fuzzer.cc:23-42).
ImplementsByteTarget == Abstract!Spec

\* Every input is answered: parseCommands returns, and all the commands of an
\* input it accepts reach the TPM (byte_parser.cc:32-33 is what an input with a
\* size field of zero would otherwise spin on).
EveryInputAnswered ==
  pc = "parse" ~> pc = "rejected" \/ (pc = "send" /\ sent = Len(commands))
==============================================================================
