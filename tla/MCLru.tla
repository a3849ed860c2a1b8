------------------------------- MODULE MCLru -------------------------------
(***************************************************************************)
(* A bucket with four keys of length 1 and values of length 0, 1 and 2.    *)
(* The overhead is 1; the bucket is trimmed above 4.                       *)
(***************************************************************************)
EXTENDS LruBucket, TLC

CONSTANTS k1, k2, k3, k4, v1, v2

MCKeys == {k1, k2, k3, k4}
MCValues == {NoValue, v1, v2}
MCSize == [x \in MCKeys |-> 1] @@ (NoKey :> 0) @@ (NoValue :> 0)
            @@ (v1 :> 1) @@ (v2 :> 2)

KeySymmetry == Permutations(MCKeys)
=============================================================================
