------------------------------ MODULE MCCampaign ------------------------------
(***************************************************************************)
(* An instance of Campaign for TLC: two runs after each other, and the     *)
(* seed scripts before, between and after them.                            *)
(***************************************************************************)
EXTENDS Campaign

CONSTANTS e1, e2
==============================================================================
