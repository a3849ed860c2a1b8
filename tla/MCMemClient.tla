---------------------------- MODULE MCMemClient ----------------------------
(***************************************************************************)
(* Two threads on one or two keys.                                         *)
(***************************************************************************)
EXTENDS MemClient, TLC

CONSTANTS t1, t2, k1, k2

OneThread == {t1}
TwoThreads == {t1, t2}

GetOp(keys) == [type |-> "get", keys |-> keys]
StoreOp(type, keys, v, local) ==
  [type |-> type, keys |-> keys, val |-> v, no_propagate |-> local]
IncrOp(k, n) == [type |-> "incr", keys |-> <<k>>, offset |-> n]

\* Every operation, on a multi-get and a multi-set too.
AllOps ==
  { GetOp(<<k1>>), GetOp(<<k1, k2>>),
    StoreOp("set", <<k1>>, 1, FALSE), StoreOp("set", <<k1, k2>>, 2, FALSE),
    StoreOp("set", <<k1>>, Empty, FALSE), StoreOp("set", <<k1>>, 3, TRUE),
    StoreOp("add", <<k1>>, 4, FALSE), StoreOp("cas", <<k1>>, 5, FALSE),
    IncrOp(k1, 1), IncrOp(k1, -2) }

\* Those that test_cas makes.
CasOps ==
  { GetOp(<<k1>>), StoreOp("set", <<k1>>, 1, FALSE),
    StoreOp("cas", <<k1>>, 2, FALSE), StoreOp("cas", <<k1>>, 3, FALSE) }

ThreadSymmetry == Permutations(TwoThreads)
=============================================================================
