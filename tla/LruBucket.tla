----------------------------- MODULE LruBucket -----------------------------
(***************************************************************************)
(* One Bucket of the Cache of lru_cache.h and lru_cache.cpp.  A key always *)
(* falls into the same bucket, and every operation on a bucket runs under  *)
(* its mutex from beginning to end: each is one action.                    *)
(*                                                                         *)
(* A node of access_list, with the Data it points to, is identified with   *)
(* the key it was inserted for; there is at most one, since FindOrInsert   *)
(* inserts only what the map does not hold.  data[k].key is the key FIELD  *)
(* of that Data: it is empty until AddOrReplace fills it.  A key that is   *)
(* in the map and not in the list stands for an iterator into freed        *)
(* memory; following it is undefined behaviour, after which the model      *)
(* makes no step.  Keys are not empty (memcached has no empty key).        *)
(***************************************************************************)
EXTENDS Integers, Sequences, FiniteSets, SequencesExt

CONSTANTS
  Keys,
  Values,
  NoKey,         \* the empty key field of a Data that was never filled
  NoValue,       \* the empty value
  Size,          \* Size[x]: the length of a key or a value
  Overhead,      \* sizeof(uint32_t) + sizeof(uint64_t)
  threshold_,
  decrease_by_,
  Word,          \* uint64_t arithmetic is modulo Word
  MaxEvicted     \* bound: the evictions a behaviour may make

ASSUME LruAssumption ==
  /\ NoKey \notin Keys /\ NoValue \in Values
  /\ Size \in [Keys \cup Values \cup {NoKey} -> Nat]
  /\ Size[NoKey] = 0 /\ Size[NoValue] = 0
  /\ \A k \in Keys : Size[k] > 0
  /\ Overhead \in Nat /\ threshold_ \in Nat /\ MaxEvicted \in Nat
  /\ decrease_by_ \in 1..threshold_
  /\ Word \in Nat /\ Word > threshold_

VARIABLES
  access_list,   \* least recently used first
  key_to_litr,   \* the keys of the map
  data,          \* data[k]: the fields key and value of the Data of k
  memory,
  corrupted,     \* a dangling iterator was followed
  evicted,       \* history: how many Data DeleteStaleData deleted
  recency        \* history: the keys ever accessed, by their last access

vars == <<access_list, key_to_litr, data, memory, corrupted, evicted, recency>>

Fresh == [key |-> NoKey, value |-> NoValue]

Listed(list) == {list[i] : i \in 1..Len(list)}

Used(d) == Size[d.key] + Size[d.value] + Overhead

Init ==
  /\ access_list = <<>>
  /\ key_to_litr = {}
  /\ data = [k \in Keys |-> Fresh]
  /\ memory = 0
  /\ corrupted = FALSE
  /\ evicted = 0
  /\ recency = <<>>
-----------------------------------------------------------------------------
\* The bytes of the keys and values that d holds for a set of nodes: <<k, i>> is
\* byte i of the node of k.
Bytes(d, nodes) ==
  UNION {{k} \X (1..(Size[d[k].key] + Size[d[k].value])) : k \in nodes}

\* What DeleteStaleData subtracts in n rounds, and memory then.
Freed(n) ==
  Cardinality(Bytes(data, {access_list[i] : i \in 1..n})) + Overhead * n

MemoryAfter(n) == (memory - Freed(n)) % Word

\* DeleteStaleData makes n rounds: after them, and not before, memory is below
\* its target, or the list is empty.
StaleRounds(n) ==
  LET target == (memory - decrease_by_) % Word
  IN  /\ n = Len(access_list) \/ (n > 0 /\ MemoryAfter(n) < target)
      /\ \A m \in 1..(n - 1) : MemoryAfter(m) >= target

\* Bug pattern: the last round of the loop forgets the map.
UnmappedButOne(n) == {data[access_list[i]].key : i \in 1..(n - 1)}

\* The keys the map loses in n rounds: those that the Data name.
Unmapped(n) == {data[access_list[i]].key : i \in 1..n}

\* A list without the node of k.
Unlinked(list, k) ==
  LET i == CHOOSE h \in 1..Len(list) : list[h] = k
  IN  IF k \in Listed(list)
        THEN [j \in 1..(Len(list) - 1) |-> IF j < i THEN list[j] ELSE list[j + 1]]
        ELSE list

\* Bug patterns: the node is inserted at the wrong end, or is not unlinked.
MoveToFront(list, k) == <<k>> \o Unlinked(list, k)

InsertAgain(list, k) == Append(list, k)

\* FindOrInsertData in the list: k moves to, or is inserted at, the end.
MoveToBack(list, k) == Append(Unlinked(list, k), k)

\* FindOrInsertData follows the iterator of a node that is gone.
Dangling(list, map, k) == k \in map /\ k \notin Listed(list)

\* Bug pattern: the old value of an entry is not subtracted.
FoundNothing(list, k) == Fresh

\* The Data that FindOrInsertData returns for k.
Found(list, k) == IF k \in Listed(list) THEN data[k] ELSE Fresh
-----------------------------------------------------------------------------
Access(k) == recency' = Append(Unlinked(recency, k), k)

\* AddOrReplace with n rounds of DeleteStaleData before it.
Replace(k, v, n) ==
  LET list   == SubSeq(access_list, n + 1, Len(access_list))
      map    == key_to_litr \ Unmapped(n)
      kept   == [x \in Keys |-> IF x \in Listed(list) THEN data[x] ELSE Fresh]
      filled == [key |-> k, value |-> v]
  IN  /\ evicted' = evicted + n
      /\ corrupted' = Dangling(list, map, k)
      /\ IF Dangling(list, map, k)
           THEN /\ access_list' = list
                /\ key_to_litr' = map
                /\ data' = kept
                /\ memory' = MemoryAfter(n)
                /\ UNCHANGED recency
           ELSE /\ access_list' = MoveToBack(list, k)
                /\ key_to_litr' = map \cup {k}
                /\ data' = [kept EXCEPT ![k] = filled]
                /\ memory' = (MemoryAfter(n) - Used(Found(list, k))
                                + Used(filled)) % Word
                /\ Access(k)

AddOrReplace(k, v) ==
  /\ ~corrupted
  /\ \E n \in 0..Len(access_list) :
       /\ IF memory > threshold_ THEN StaleRounds(n) ELSE n = 0
       /\ evicted + n <= MaxEvicted
       /\ Replace(k, v, n)

Get(k) ==
  /\ ~corrupted
  /\ corrupted' = Dangling(access_list, key_to_litr, k)
  /\ IF Dangling(access_list, key_to_litr, k)
       THEN UNCHANGED <<access_list, key_to_litr, recency>>
       ELSE /\ access_list' = MoveToBack(access_list, k)
            /\ key_to_litr' = key_to_litr \cup {k}
            /\ Access(k)
  /\ UNCHANGED <<data, memory, evicted>>

Next == \E k \in Keys : Get(k) \/ \E v \in Values : AddOrReplace(k, v)

Spec == Init /\ [][Next]_vars
-----------------------------------------------------------------------------
\* What the entries of the bucket hold, without the Overhead.
Content == Cardinality(Bytes(data, Listed(access_list)))

\* x stands before y in a list.
Before(list, x, y) ==
  \E i, j \in 1..Len(list) : i < j /\ list[i] = x /\ list[j] = y

\* What list, map and data have in common: no key is in the list twice, the map
\* has every key of the list, only entries of the list hold something, and that
\* under their own key.  (A key of the map need not be in the list.)
NodesInv ==
  /\ access_list \in Seq(Keys) /\ IsInjective(access_list)
  /\ Listed(access_list) \subseteq key_to_litr /\ key_to_litr \subseteq Keys
  /\ data \in [Keys -> [key : Keys \cup {NoKey}, value : Values]]
  /\ \A k \in Keys : data[k] # Fresh => k \in Listed(access_list) /\ data[k].key = k
  /\ corrupted \in BOOLEAN
  /\ evicted \in 0..MaxEvicted

\* A list has elements of another one, in the same order.
Follows(list, other) ==
  /\ Listed(list) \subseteq Listed(other)
  /\ \A x, y \in Keys : Before(list, x, y) => Before(other, x, y)

\* The list is in the order of the last accesses.
OrderInv ==
  /\ recency \in Seq(Keys) /\ IsInjective(recency)
  /\ Follows(access_list, recency)

\* The inductive invariant of a bucket.  (The range of memory is part of
\* MemoryLaw.)
BucketInv == NodesInv /\ OrderInv

\* The map and the list fall apart in one way only: DeleteStaleData erases the
\* map entry of the key FIELD, which a Data that Get inserted and nobody
\* filled does not have.  An entry that was stored leaves both together.
StoredKeysLeaveTogether ==
  [][\A k \in Listed(access_list) \ Listed(access_list') :
       data[k].key = k => k \notin key_to_litr']_vars

\* The counter is, modulo its width, the content less Overhead for every entry
\* evicted: AddOrReplace adds no Overhead for a new entry, DeleteStaleData
\* subtracts it.  So the bucket outgrows threshold_ by Overhead per eviction,
\* and the counter wraps when stored values shrink by more than it holds.
MemoryLaw ==
  memory = (Content - Overhead * evicted) % Word

\* Eviction takes the least recently used first ("the front of this list always
\* has stale entries"): of two entries, if one is evicted and the other is
\* kept, the one that is kept was accessed later or is being accessed now.
EvictsStaleFirst ==
  [][\A i, j \in 1..Len(recency) :
       /\ i < j
       /\ {recency[i], recency[j]} \subseteq Listed(access_list)
       /\ recency[j] \notin Listed(access_list')
       /\ recency[i] \in Listed(access_list')
       => recency[i] = Last(recency')]_vars

\* "Map stores (key, List Iterator) pairs": what FindOrInsertData finds in the
\* map is an iterator into the list.
IteratorsValid == ~corrupted
=============================================================================
