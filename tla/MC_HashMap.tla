----------------------------- MODULE MC_HashMap -----------------------------
(***************************************************************************)
(* A small table for HashMap: of three keys in two buckets, two have the   *)
(* same hash.                                                              *)
(***************************************************************************)
EXTENDS HashMap, TLC

CONSTANTS k1, k2, k3, d

MCKey == {k1, k2, k3}
MCData == {d, None}
MCHash == (k1 :> 1) @@ (k2 :> 1) @@ (k3 :> 2)

=============================================================================
