----------------------------- MODULE MCPCQueue -----------------------------
(***************************************************************************)
(* Two or three workers and three kinds of packets: a SET, a GET of one    *)
(* key and a GET of two keys, with room for two keys per batch.            *)
(***************************************************************************)
EXTENDS PCQueue, TLC

CONSTANTS t1, t2, set, get1, get2

MCThreads == {t1, t2}
MCPackets == {set, get1, get2}
MCNumKeys == (set :> 0) @@ (get1 :> 1) @@ (get2 :> 2)
=============================================================================
