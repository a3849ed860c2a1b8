----------------------------- MODULE MemClient -----------------------------
(***************************************************************************)
(* class MemClient of memclient.cpp: what the workers do with the keys of  *)
(* a packet, between the Cache they share and the memcached servers.       *)
(*                                                                         *)
(* A worker runs one operation at a time, key by key; other workers run in *)
(* between wherever it talks to the cache or to a server.  The servers are *)
(* one store that gives every write a new cas value; it may drop a key at  *)
(* any time, and so may the cache, whose eviction is LruBucket's matter.   *)
(* A client calls its next operation when the last one has been run (the   *)
(* repository's own test sleeps after a SET to that end), hence a worker   *)
(* and the client it serves are one thread here.                           *)
(***************************************************************************)
EXTENDS Integers, Sequences, Functions

CONSTANTS
  Threads,
  Keys,
  Ops,        \* what the clients may call, see IsOp
  Empty,      \* the empty value
  Absent,     \* what the cache or the store holds of a key it does not hold
  MaxOps,     \* bound: operations that are run
  MaxDrops    \* bound: keys that the store or the cache drops

NoOp == [type |-> "none", keys |-> <<>>]

IsOp(o) ==
  /\ o.type \in {"get", "set", "add", "cas", "incr"}
  /\ o.keys \in Seq(Keys) /\ o.keys # <<>>
  /\ o.type \in {"set", "add", "cas"} =>
       o.val \in Nat \cup {Empty} /\ o.no_propagate \in BOOLEAN
  /\ o.type = "cas" => Len(o.keys) = 1
  /\ o.type = "incr" => o.offset \in Int

ASSUME MemClientAssumption ==
  /\ \A o \in Ops : IsOp(o)
  /\ MaxOps \in Nat /\ MaxDrops \in Nat

VARIABLES
  cache_,      \* whether the router was started with a cache
  cache,       \* cache[k]: the value and the cas that the Cache holds
  store,       \* store[k]: the same for the memcached servers
  next_cas,    \* the cas of the next write to the store
  op,          \* op[t]: the operation t runs
  todo,        \* todo[t]: its keys that are still to be looked at
  step,        \* step[t]: "cache" or "store", the half of SetKeys t is in
  missing,     \* missing[t]: keys of the mget that no server looked at yet
  answers,     \* answers[t]: results on their way back
  seen,        \* seen[t][k]: what the client of t last got for k
  ops, drops,  \* operations run, keys dropped
  overlapped,  \* history: overlapped[t], another operation met that of t
  tainted      \* history: keys whose cached value may differ from the store's

sharedVars == <<cache_, cache, store, next_cas>>
threadVars == <<op, todo, step, missing, answers, seen>>
history    == <<overlapped, tainted>>
vars == <<sharedVars, threadVars, ops, drops, history>>

Init ==
  /\ cache_ \in BOOLEAN
  /\ cache = [k \in Keys |-> Absent]
  /\ store = [k \in Keys |-> Absent]
  /\ next_cas = 1
  /\ op = [t \in Threads |-> NoOp]
  /\ todo = [t \in Threads |-> <<>>]
  /\ step = [t \in Threads |-> "cache"]
  /\ missing = [t \in Threads |-> {}]
  /\ answers = [t \in Threads |-> <<>>]
  /\ seen = [t \in Threads |-> [k \in Keys |-> Absent]]
  /\ ops = 0
  /\ drops = 0
  /\ overlapped = [t \in Threads |-> FALSE]
  /\ tainted = {}

Running(t) == op[t] # NoOp

\* The cas field of the request: a client passes on what gets gave it.
Token(t) == IF op[t].type = "cas" THEN seen[t][op[t].keys[1]].cas ELSE 0
-----------------------------------------------------------------------------
(***************************************************************************)
(* The history of a key.  Two operations that meet on a key taint it, and  *)
(* so do the operations after which cache and store may differ at once; a  *)
(* plain SET that meets nobody cleans it.                                  *)
(***************************************************************************)
Rivals(t, o) ==
  {u \in Threads \ {t} :
     Running(u) /\ Range(op[u].keys) \cap Range(o.keys) # {}}

Begin(t, o) ==
  /\ ~Running(t)
  /\ ops < MaxOps
  /\ o.type = "cas" => seen[t][o.keys[1]] # Absent
  /\ op' = [op EXCEPT ![t] = o]
  /\ todo' = [todo EXCEPT ![t] = o.keys]
  /\ ops' = ops + 1
  /\ overlapped' = [u \in Threads |->
                      IF u = t THEN Rivals(t, o) # {}
                               ELSE overlapped[u] \/ u \in Rivals(t, o)]
  /\ tainted' = tainted \cup
       UNION {Range(op[u].keys) \cap Range(o.keys) : u \in Rivals(t, o)}
  /\ UNCHANGED <<sharedVars, step, missing, answers, seen, drops>>

Finish(t) ==
  /\ Running(t)
  /\ todo[t] = <<>> /\ missing[t] = {} /\ answers[t] = <<>>
  /\ op' = [op EXCEPT ![t] = NoOp]
  /\ UNCHANGED <<sharedVars, todo, step, missing, answers, seen, ops, drops,
                 history>>

\* The thread is done with the first of its keys.
Advance(t) == todo' = [todo EXCEPT ![t] = Tail(@)]

OnKey(t, types) == Running(t) /\ op[t].type \in types /\ todo[t] # <<>>
-----------------------------------------------------------------------------
(***************************************************************************)
(* GetKeys.                                                                *)
(***************************************************************************)

\* The loop over the keys: Cache::Get takes an empty value for a miss.
Lookup(t) ==
  /\ OnKey(t, {"get"})
  /\ LET k == Head(todo[t])
         hit == cache_ /\ cache[k] # Absent /\ cache[k].val # Empty
     IN  IF hit
           THEN /\ seen' = [seen EXCEPT ![t][k] = cache[k]]
                /\ UNCHANGED missing
           ELSE /\ missing' = [missing EXCEPT ![t] = @ \cup {k}]
                /\ seen' = [seen EXCEPT ![t][k] = Absent]
  /\ Advance(t)
  /\ UNCHANGED <<sharedVars, op, step, answers, ops, drops, history>>

\* A server comes to key k of the mget; a key it does not hold has no result.
Answer(t, k) ==
  /\ todo[t] = <<>> /\ k \in missing[t]
  /\ missing' = [missing EXCEPT ![t] = @ \ {k}]
  /\ answers' = IF store[k] = Absent THEN answers
                ELSE [answers EXCEPT
                        ![t] = Append(@, [key |-> k, entry |-> store[k]])]
  /\ UNCHANGED <<sharedVars, op, todo, step, seen, ops, drops, history>>

\* Bug pattern: the result is not put into the cache as a whole.
FetchWithoutCas(t) ==
  /\ answers[t] # <<>>
  /\ LET a == Head(answers[t])
     IN  /\ seen' = [seen EXCEPT ![t][a.key] = a.entry]
         /\ cache' = [cache EXCEPT ![a.key] = [val |-> a.entry.val, cas |-> -1]]
  /\ answers' = [answers EXCEPT ![t] = Tail(@)]
  /\ UNCHANGED <<cache_, store, next_cas, op, todo, step, missing, ops, drops,
                 history>>

\* One round of the memcached_fetch_result loop.
FetchResult(t) ==
  /\ answers[t] # <<>>
  /\ LET a == Head(answers[t])
     IN  /\ seen' = [seen EXCEPT ![t][a.key] = a.entry]
         /\ cache' = IF cache_ THEN [cache EXCEPT ![a.key] = a.entry] ELSE cache
  /\ answers' = [answers EXCEPT ![t] = Tail(@)]
  /\ UNCHANGED <<cache_, store, next_cas, op, todo, step, missing, ops, drops,
                 history>>
-----------------------------------------------------------------------------
(***************************************************************************)
(* SetKeys and IncrKeys.                                                   *)
(***************************************************************************)
Stores == {"set", "add", "cas"}

Write(k, v) ==
  /\ store' = [store EXCEPT ![k] = [val |-> v, cas |-> next_cas]]
  /\ next_cas' = next_cas + 1

\* Bug pattern: only what is propagated is put into the cache, later.
SkipCache(t) ==
  /\ OnKey(t, Stores)
  /\ step[t] = "cache"
  /\ step' = [step EXCEPT ![t] = "store"]
  /\ UNCHANGED <<sharedVars, op, todo, missing, answers, seen, ops, drops,
                 history>>

\* The cache gets the request's value and cas, whatever comes of the write.
PutCache(t) ==
  /\ OnKey(t, Stores)
  /\ step[t] = "cache"
  /\ LET k == Head(todo[t])
     IN  /\ cache' = IF cache_
                       THEN [cache EXCEPT ![k] = [val |-> op[t].val,
                                                  cas |-> Token(t)]]
                       ELSE cache
         /\ IF op[t].no_propagate
              THEN /\ Advance(t)
                   /\ tainted' = tainted \cup {k}
                   /\ UNCHANGED step
              ELSE /\ step' = [step EXCEPT ![t] = "store"]
                   /\ UNCHANGED <<todo, tainted>>
  /\ UNCHANGED <<cache_, store, next_cas, op, missing, answers, seen, ops, drops,
                 overlapped>>

\* Bug pattern: a cas that is sent as a plain set.
AcceptsAll(t, k) == TRUE

\* Whether the servers accept what SetKeys sends: memcached_cas for a request
\* with a cas, else memcached_add for one that may not replace, else
\* memcached_set.
Accepts(t, k) ==
  IF Token(t) > 0 THEN store[k] # Absent /\ store[k].cas = Token(t)
  ELSE op[t].type = "add" => store[k] = Absent

StoreKey(t) ==
  /\ OnKey(t, Stores)
  /\ step[t] = "store"
  /\ LET k == Head(todo[t])
         clean == op[t].type = "set" /\ ~overlapped[t]
     IN  IF Accepts(t, k)
           THEN /\ Write(k, op[t].val)
                /\ tainted' = IF clean THEN tainted \ {k} ELSE tainted
           ELSE /\ tainted' = tainted \cup {k}
                /\ UNCHANGED <<store, next_cas>>
  /\ step' = [step EXCEPT ![t] = "cache"]
  /\ Advance(t)
  /\ UNCHANGED <<cache_, cache, op, missing, answers, seen, ops, drops,
                 overlapped>>

\* The servers count, down to zero at most; the cache is not told.
IncrKey(t) ==
  /\ OnKey(t, {"incr"})
  /\ LET k == Head(todo[t])
         sum == store[k].val + op[t].offset
     IN  IF store[k] # Absent /\ store[k].val # Empty
           THEN /\ Write(k, IF sum < 0 THEN 0 ELSE sum)
                /\ tainted' = tainted \cup {k}
           ELSE UNCHANGED <<store, next_cas, tainted>>
  /\ Advance(t)
  /\ UNCHANGED <<cache_, cache, op, step, missing, answers, seen, ops, drops,
                 overlapped>>
-----------------------------------------------------------------------------
\* A server drops or expires a key; the cache evicts one.
DropStored(k) ==
  /\ store[k] # Absent /\ drops < MaxDrops
  /\ store' = [store EXCEPT ![k] = Absent]
  /\ drops' = drops + 1
  /\ UNCHANGED <<cache_, cache, next_cas, threadVars, ops, history>>

DropCached(k) ==
  /\ cache[k] # Absent /\ drops < MaxDrops
  /\ cache' = [cache EXCEPT ![k] = Absent]
  /\ drops' = drops + 1
  /\ UNCHANGED <<cache_, store, next_cas, threadVars, ops, history>>

ThreadStep(t) ==
  \/ \E o \in Ops : Begin(t, o)
  \/ Lookup(t)
  \/ \E k \in Keys : Answer(t, k)
  \/ FetchResult(t)
  \/ PutCache(t)
  \/ StoreKey(t)
  \/ IncrKey(t)
  \/ Finish(t)

Next ==
  \/ \E t \in Threads : ThreadStep(t)
  \/ \E k \in Keys : DropStored(k) \/ DropCached(k)

Spec == Init /\ [][Next]_vars
-----------------------------------------------------------------------------
Entries == [val : Nat \cup {Empty}, cas : Nat] \cup {Absent}

\* The type invariant; without a cache nothing is cached.
TypeOK ==
  /\ cache_ \in BOOLEAN
  /\ cache \in [Keys -> IF cache_ THEN Entries ELSE {Absent}]
  /\ store \in [Keys -> Entries]
  /\ next_cas \in Nat
  /\ op \in [Threads -> Ops \cup {NoOp}]
  /\ todo \in [Threads -> Seq(Keys)]
  /\ step \in [Threads -> {"cache", "store"}]
  /\ missing \in [Threads -> SUBSET Keys]
  /\ answers \in [Threads -> Seq([key : Keys, entry : Entries])]
  /\ seen \in [Threads -> [Keys -> Entries]]
  /\ overlapped \in [Threads -> BOOLEAN] /\ tainted \subseteq Keys

\* A thread is busy with keys of its operation only, with results only in
\* GetKeys, and between cache and store only in SetKeys.
RunFits(t) ==
  /\ Range(todo[t]) \subseteq Range(op[t].keys)
  /\ missing[t] \subseteq Range(op[t].keys)
  /\ \A i \in 1..Len(answers[t]) : answers[t][i].key \in Range(op[t].keys)
  /\ missing[t] # {} \/ answers[t] # <<>> => op[t].type = "get"
  /\ step[t] = "store" => op[t].type \in Stores /\ todo[t] # <<>>
  /\ op[t].type = "cas" => seen[t][op[t].keys[1]] # Absent

RunInv == \A t \in Threads : RunFits(t)

\* Operations that share a key know of each other, and the key is tainted.
MeetInv ==
  \A t \in Threads : \A u \in Threads \ {t} :
    \A k \in Range(op[t].keys) \cap Range(op[u].keys) :
      k \in tainted /\ overlapped[t]

SameValue(e, f) == e # Absent /\ f # Absent => e.val = f.val

\* A result on its way back is what the store holds, or the key is tainted.
AnswerInv ==
  \A t \in Threads : \A i \in 1..Len(answers[t]) :
    LET a == answers[t][i]
    IN  a.key \notin tainted => SameValue(a.entry, store[a.key])

\* t has put its value for k into the cache and not yet into the store.
Midway(t, k) == step[t] = "store" /\ Head(todo[t]) = k

\* Then the cache still holds that value, if it holds one, unless k is tainted
\* and t was not alone.
MidwayInv ==
  \A t \in Threads, k \in Keys :
    Midway(t, k) /\ (~overlapped[t] \/ k \notin tainted)
      => cache[k] = Absent \/ cache[k].val = op[t].val

\* Cache and store agree on every key that is neither tainted nor half set.
AgreeInv ==
  \A k \in Keys \ tainted :
    SameValue(cache[k], store[k]) \/ \E t \in Threads : Midway(t, k)

\* What the store holds of k, and what was read of it.
Copies(k) ==
  ({store[k]} \cup {seen[t][k] : t \in Threads}
    \cup UNION {{answers[t][i].entry : i \in {j \in 1..Len(answers[t]) :
                                              answers[t][j].key = k}}
                 : t \in Threads}) \ {Absent}

\* Without a cache, a cas stands for one value of a key.
CasInv ==
  /\ next_cas > 0
  /\ ~cache_ => \A k \in Keys : \A e, f \in Copies(k) :
       e.cas \in 1..(next_cas - 1) /\ (e.cas = f.cas => e.val = f.val)

\* The inductive invariant: what the workers that run GetKeys, SetKeys and
\* IncrKeys know of each other, of the cache and of the servers, step by step.
MemClientInv ==
  /\ TypeOK /\ RunInv /\ MeetInv /\ AnswerInv /\ MidwayInv /\ AgreeInv
  /\ CasInv

\* While no operation on a key is under way, the cache and the servers hold
\* the same value for it, if both hold one, unless one of these happened since
\* the last undisturbed SET: two operations met on the key, a server refused a
\* cas or an add, a counter was changed, or a SET was not to be propagated.
\* So these are the only ways in which SetKeys, which updates the cache first,
\* and GetKeys, which fills it last, leave a stale value behind.
StaleOnlyIfTainted ==
  \A k \in Keys \ tainted :
    /\ cache[k] # Absent /\ store[k] # Absent
    /\ \A t \in Threads : Running(t) => k \notin Range(op[t].keys)
    => cache[k].val = store[k].val

\* A cas takes effect only on the value that its client had read.
CasStep ==
  \A t \in Threads :
    op[t].type = "cas" /\ store' # store /\ step'[t] # step[t]
      => LET k == op[t].keys[1]
         IN  store[k] # Absent /\ store[k].val = seen[t][k].val

\* Without a cache, check-and-set loses no update, however the GETs and SETs of
\* the workers interleave: SetKeys sends the cas value that GetKeys delivered.
CasLosesNothing == [][~cache_ => CasStep]_vars

\* The same with a cache.  The repository's test_cas expects it ("assert
\* 'non_dict' == client.get('testmrjn_dict')" after a second cas).
CasLosesNothingCached == [][cache_ => CasStep]_vars
=============================================================================
