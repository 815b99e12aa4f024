------------------------------- MODULE MCSeeds -------------------------------
(***************************************************************************)
(* All of the test cases of the seed generator for TLC.                    *)
(***************************************************************************)
EXTENDS Seeds

MCSeedSequences ==
  UNION {{TEST_CASES[name][v] : v \in DOMAIN TEST_CASES[name]} :
           name \in DOMAIN TEST_CASES}

MCNames ==
  EmittedCommands \cup DOMAIN Handles \cup DOMAIN Algorithms
    \cup DOMAIN SessionTypes \cup {"child"}

\* The message that the fuzzer holds before it reads a seed.
MCMessages == {ToProto(GetRandom(16, "NO_SESSIONS"))}
==============================================================================
