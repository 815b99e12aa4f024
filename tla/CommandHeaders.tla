---------------------------- MODULE CommandHeaders ----------------------------
(***************************************************************************)
(* The header of a TPM command as parseCommands reads it                   *)
(* (src/parser/byte_parser.cc).                                            *)
(***************************************************************************)
EXTENDS Integers, Sequences

kHeaderTagLen == 2
kHeaderCommandSizeLen == 4
kHeaderCommandCodeLen == 4
kHeaderLen == kHeaderTagLen + kHeaderCommandSizeLen + kHeaderCommandCodeLen

Read16(d, i) == 256 * d[i] + d[i + 1]

\* The commandSize of a header at offset o: ntohl of four bytes.
Length(d, o) ==
  65536 * Read16(d, o + kHeaderTagLen + 1) + Read16(d, o + kHeaderTagLen + 3)

\* Variant: the size field is only compared with the size of a header.
BadHeaderMayOverrun(d, o) ==
  o + kHeaderLen <= Len(d) => Length(d, o) < kHeaderLen

\* Variant: a command must end before the input does.
BadHeaderNeedsTail(d, o) ==
  o + kHeaderLen <= Len(d) => ~ (Length(d, o) \in kHeaderLen..(Len(d) - o - 1))

\* The early returns of the loop: no room for a header, a size below that of a
\* header, or one that runs past the input.
BadHeader(d, o) ==
  o + kHeaderLen <= Len(d) => ~ (Length(d, o) \in kHeaderLen..(Len(d) - o))

-----------------------------------------------------------------------------
(* What it means to cut an input into commands, without a loop: it is a    *)
(* string of commands, each as long as its header says.                    *)

\* A command may start at o.
Starts(d, o) ==
  /\ o + kHeaderLen <= Len(d)
  /\ Length(d, o) >= kHeaderLen
  /\ o + Length(d, o) <= Len(d)

\* The places where a command may start, and the end of the input.
Places(d) == {o \in 0..Len(d) : o = Len(d) \/ Starts(d, o)}

\* The set C cuts the input into commands: it holds the two ends, and the point
\* after each point o of C but the last is the end of the command at o.
Splits(d, C) ==
  /\ {0, Len(d)} \subseteq C
  /\ \A o \in C \ {Len(d)} :
       /\ o + Length(d, o) \in C
       /\ \A p \in C : p <= o \/ o + Length(d, o) <= p
==============================================================================
