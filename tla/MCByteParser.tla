----------------------------- MODULE MCByteParser -----------------------------
(***************************************************************************)
(* An instance of ByteParser for TLC: inputs of up to three headers, with  *)
(* every kind of size field, and every truncation of some of them.         *)
(***************************************************************************)
EXTENDS ByteParser

\* A header whose size field is n, and k bytes of parameters. The tag,
\* which parseCommands reads but never compares, is one whose bytes stay below
\* 128, so that a size read anywhere in an input fits an integer of TLC.
Header(n, k) ==
  <<64, 1, n \div 16777216, (n \div 65536) % 256, (n \div 256) % 256, n % 256,
    0, 0, 1, 123>> \o [i \in 1..k |-> 10 + i]

\* Sizes: none, one too small, right, within the tail, one over,
\* and far over (with a low byte that fits).
FirstSizes == {0, 9, 10, 12, 22, 16777226}

Tails == {<< >>, Header(10, 0), Header(12, 2), Header(9, 0), Header(13, 2),
          Header(10, 0) \o Header(11, 1), Header(10, 0) \o <<64, 1, 0>>}

Whole ==
  {Header(n, k) \o t : n \in FirstSizes, k \in {0, 2, 12}, t \in Tails}

MCInputs ==
  Whole \cup {<< >>}
    \cup {SubSeq(Header(12, 2) \o Header(10, 0), 1, n) : n \in 1..22}
==============================================================================
