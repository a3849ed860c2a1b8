------------------------------ MODULE MCRouter ------------------------------
(***************************************************************************)
(* Instances of MemcacheRouter.  Clients are numbered: 1 installs a list,  *)
(* writes and reads, 2 installs another one, 3 has the asynchronous SETs.  *)
(***************************************************************************)
EXTENDS MemcacheRouter, TLC

CONSTANTS w1, w2, a, b

OneWorker == {w1}
TwoWorkers == {w1, w2}

\* A request is a name; its attributes are looked up here.
Request(kind, client, keys, list) ==
  [kind |-> kind, client |-> client, keys |-> keys, list |-> list]

Catalogue ==
  [ list_a   |-> Request("SERVER_LIST", 1, 0, <<a>>),
    list_b   |-> Request("SERVER_LIST", 2, 0, <<b>>),
    list_a2  |-> Request("SERVER_LIST", 2, 0, <<a>>),
    list_b2  |-> Request("SERVER_LIST", 1, 0, <<b>>),
    list_ab  |-> Request("SERVER_LIST", 2, 0, <<a, b>>),
    get      |-> Request("GET", 1, 1, <<>>),
    get2     |-> Request("GET", 2, 1, <<>>),
    get3     |-> Request("GET", 3, 2, <<>>),
    set      |-> Request("SET", 1, 0, <<>>),
    set2     |-> Request("SET", 1, 0, <<>>),
    aset     |-> Request("SET", 3, 0, <<>>),
    aset2    |-> Request("SET", 3, 0, <<>>),
    incr     |-> Request("INCREMENT", 1, 0, <<>>),
    stats    |-> Request("STATS", 2, 0, <<>>),
    empty    |-> Request("UNKNOWN", 2, 0, <<>>) ]

MCKind == [r \in Requests |-> Catalogue[r].kind]
MCNumKeys == [r \in Requests |-> Catalogue[r].keys]
MCServerList == [r \in Requests |-> Catalogue[r].list]
MCClient == [r \in Requests |-> Catalogue[r].client]
MCAsync == Requests \cap {"aset", "aset2"}

WorkerSymmetry == Permutations(TwoWorkers)
=============================================================================
