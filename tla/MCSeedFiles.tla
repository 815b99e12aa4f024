----------------------------- MODULE MCSeedFiles ------------------------------
(***************************************************************************)
(* An instance of SeedFiles for TLC: two variants, the number of one a     *)
(* prefix of the number of the other. The first changes between two        *)
(* sequences, the second has no protobuf form; both come and go.           *)
(***************************************************************************)
EXTENDS SeedFiles, TLC

CONSTANTS r1, r2, r3, c1, c2

MCSerialize == r1 :> c1 @@ r2 :> c2 @@ r3 :> c1
MCSerializeProto == r1 :> c1 @@ r2 :> c2 @@ r3 :> None

MCDefinitions == {1 :> r @@ 10 :> s : r \in {None, r1, r2}, s \in {None, r3}}
==============================================================================
