----------------------------- MODULE LruProofs -----------------------------
(***************************************************************************)
(* Proofs about LruBucket: BucketInv is inductive, for any keys, values,   *)
(* sizes and thresholds; that stored keys leave list and map together and  *)
(* that eviction takes the least recently used first follow, and with it   *)
(* that the memory counter is what MemoryLaw says.  How many rounds        *)
(* DeleteStaleData makes does not matter for any of them.                  *)
(***************************************************************************)
EXTENDS LruBucket, FiniteSetTheorems, TLAPS

USE SMTT(30), SMTT(20), SMTT(10)

-----------------------------------------------------------------------------
(***************************************************************************)
(* Lists without duplicates.                                               *)
(***************************************************************************)

LEMMA Members ==
  ASSUME NEW S, NEW s \in Seq(S)
  PROVE  /\ Len(s) \in Nat
         /\ \A i \in 1..Len(s) : s[i] \in S /\ s[i] \in Listed(s)
         /\ \A x \in Listed(s) : x \in S /\ \E i \in 1..Len(s) : s[i] = x
         /\ DOMAIN s = 1..Len(s)
  BY DEF Listed

\* Two positions of an element are the same.
LEMMA OnePosition ==
  ASSUME NEW S, NEW s \in Seq(S), IsInjective(s), NEW i \in 1..Len(s), NEW j \in 1..Len(s),
         s[i] = s[j]
  PROVE  i = j
  BY Members DEF IsInjective

\* Unlinking a node leaves the others in their order.
LEMMA UnlinkedFacts ==
  ASSUME NEW S, NEW s \in Seq(S), IsInjective(s), NEW k
  PROVE  /\ Unlinked(s, k) \in Seq(S) /\ IsInjective(Unlinked(s, k))
         /\ Listed(Unlinked(s, k)) = Listed(s) \ {k}
         /\ \A x, y : Before(Unlinked(s, k), x, y) => Before(s, x, y)
         /\ \A x, y : x # k /\ y # k /\ Before(s, x, y) => Before(Unlinked(s, k), x, y)
  <1>1. CASE k \notin Listed(s)
    <2>1. Unlinked(s, k) = s
      BY <1>1 DEF Unlinked
    <2> QED
      BY <1>1, <2>1
  <1>2. CASE k \in Listed(s)
    <2>1. PICK i \in 1..Len(s) : /\ s[i] = k
                                 /\ Unlinked(s, k) = [j \in 1..(Len(s) - 1) |->
                                      IF j < i THEN s[j] ELSE s[j + 1]]
      <3>1. PICK i : i = CHOOSE h \in 1..Len(s) : s[h] = k
        OBVIOUS
      <3>2. i \in 1..Len(s) /\ s[i] = k
        BY <1>2, <3>1, ZenonT(30) DEF Listed
      <3>3. Unlinked(s, k) = [j \in 1..(Len(s) - 1) |-> IF j < i THEN s[j] ELSE s[j + 1]]
        BY <1>2, <3>1, ZenonT(30) DEF Unlinked
      <3> QED
        BY <3>2, <3>3
    <2>2. PICK t : t = Unlinked(s, k)
      OBVIOUS
    <2>3. PICK F \in [1..(Len(s) - 1) -> Nat] :
            \A j \in 1..(Len(s) - 1) : F[j] = IF j < i THEN j ELSE j + 1
      <3>1. [j \in 1..(Len(s) - 1) |-> IF j < i THEN j ELSE j + 1] \in [1..(Len(s) - 1) -> Nat]
        OBVIOUS
      <3> QED
        BY <3>1, ZenonT(30)
    <2>4. Len(s) \in Nat /\ Len(s) - 1 \in Nat
      BY Members
    <2>5. /\ \A j \in 1..(Len(s) - 1) : F[j] \in 1..Len(s) /\ F[j] # i
          /\ \A j, h \in 1..(Len(s) - 1) : j < h => F[j] < F[h]
      BY <2>3, <2>4
    <2>6. \A h \in 1..Len(s) \ {i} : \E j \in 1..(Len(s) - 1) : F[j] = h
      <3> TAKE h \in 1..Len(s) \ {i}
      <3>1. CASE h < i
        BY <2>3, <2>4, <3>1
      <3>2. CASE h > i
        <4>1. h - 1 \in 1..(Len(s) - 1) /\ ~(h - 1 < i) /\ (h - 1) + 1 = h
          BY <2>4, <3>2
        <4>2. F[h - 1] = h
          BY <2>3, <4>1
        <4> QED
          BY <4>1, <4>2, ZenonT(30)
      <3> QED
        BY <2>4, <3>1, <3>2
    <2>7. /\ t \in Seq(S) /\ Len(t) = Len(s) - 1
          /\ \A j \in 1..(Len(s) - 1) : t[j] = s[F[j]]
      <3>1. \A j \in 1..(Len(s) - 1) : (IF j < i THEN s[j] ELSE s[j + 1]) = s[F[j]]
        BY <2>3
      <3>2. t = [j \in 1..(Len(s) - 1) |-> s[F[j]]]
        BY <2>1, <2>2, <3>1
      <3>3. \A j \in 1..(Len(s) - 1) : s[F[j]] \in S
        BY <2>5, Members
      <3>4. t \in [1..(Len(s) - 1) -> S]
        BY <3>2, <3>3
      <3>5. t \in Seq(S) /\ Len(t) = Len(s) - 1
        BY <2>4, <3>4
      <3> QED
        BY <3>2, <3>5
    <2>8. IsInjective(t)
      <3>1. DOMAIN t = 1..(Len(s) - 1)
        BY <2>7, Members
      <3> SUFFICES ASSUME NEW j \in 1..(Len(s) - 1), NEW h \in 1..(Len(s) - 1), t[j] = t[h]
                   PROVE  j = h
        BY <3>1 DEF IsInjective
      <3>2. F[j] = F[h]
        <4>1. F[j] \in 1..Len(s) /\ F[h] \in 1..Len(s) /\ s[F[j]] = s[F[h]]
          BY <2>5, <2>7, ZenonT(30)
        <4> QED
          BY <4>1, OnePosition
      <3> QED
        BY <2>4, <2>5, <3>2
    <2>9. Listed(t) = Listed(s) \ {k}
      <3>1. \A x \in Listed(t) : x \in Listed(s) /\ x # k
        <4> TAKE x \in Listed(t)
        <4>1. PICK j \in 1..(Len(s) - 1) : t[j] = x
          BY <2>7, Members
        <4>2. F[j] \in 1..Len(s) /\ s[F[j]] = x /\ F[j] # i
          BY <2>5, <2>7, <4>1
        <4> QED
          BY <2>1, <4>2, Members, OnePosition
      <3>2. \A x \in Listed(s) : x # k => x \in Listed(t)
        <4> SUFFICES ASSUME NEW x \in Listed(s), x # k PROVE x \in Listed(t)
          OBVIOUS
        <4>1. PICK h \in 1..Len(s) : s[h] = x
          BY Members
        <4>2. PICK j \in 1..(Len(s) - 1) : F[j] = h
          BY <2>1, <2>6, <4>1
        <4>3. j \in 1..Len(t) /\ t[j] = x
          BY <2>7, <4>1, <4>2
        <4> QED
          BY <2>7, <4>3, Members
      <3> QED
        BY <3>1, <3>2
    <2>10. \A x, y : Before(t, x, y) => Before(s, x, y)
      <3> SUFFICES ASSUME NEW x, NEW y, Before(t, x, y) PROVE Before(s, x, y)
        OBVIOUS
      <3>1. PICK j, h \in 1..(Len(s) - 1) : j < h /\ t[j] = x /\ t[h] = y
        BY <2>7 DEF Before
      <3>2. F[j] \in 1..Len(s) /\ F[h] \in 1..Len(s) /\ F[j] < F[h]
        BY <2>5, <3>1
      <3>3. s[F[j]] = x /\ s[F[h]] = y
        BY <2>7, <3>1, ZenonT(30)
      <3> QED
        BY <3>2, <3>3 DEF Before
    <2>11. \A x, y : x # k /\ y # k /\ Before(s, x, y) => Before(t, x, y)
      <3> SUFFICES ASSUME NEW x, NEW y, x # k, y # k, Before(s, x, y) PROVE Before(t, x, y)
        OBVIOUS
      <3>1. PICK g, h \in 1..Len(s) : g < h /\ s[g] = x /\ s[h] = y
        BY DEF Before
      <3>2. PICK j \in 1..(Len(s) - 1) : F[j] = g
        BY <2>1, <2>6, <3>1
      <3>3. PICK l \in 1..(Len(s) - 1) : F[l] = h
        BY <2>1, <2>6, <3>1
      <3>4. j < l
        BY <2>4, <2>5, <3>1, <3>2, <3>3
      <3>5. t[j] = x /\ t[l] = y /\ j \in 1..Len(t) /\ l \in 1..Len(t)
        BY <2>7, <3>1, <3>2, <3>3, ZenonT(30)
      <3> QED
        BY <3>4, <3>5 DEF Before
    <2> QED
      BY <2>2, <2>7, <2>8, <2>9, <2>10, <2>11
  <1> QED
    BY <1>1, <1>2

\* t is s with k at the end: the others are in their order, k is behind them.
Moved(s, k, t) ==
  /\ t \in Seq(Keys) /\ IsInjective(t) /\ Listed(t) = Listed(s) \cup {k}
  /\ \A x, y : Before(t, x, y) => /\ x # k
                                  /\ y # k => Before(s, x, y)
                                  /\ x \in Listed(s)
  /\ \A x, y : x # k /\ y # k /\ Before(s, x, y) => Before(t, x, y)
  /\ \A x \in Listed(s) : x # k => Before(t, x, k)
  /\ Last(t) = k

LEMMA MovedFacts ==
  ASSUME NEW s \in Seq(Keys), IsInjective(s), NEW k \in Keys,
         NEW t, t = Append(Unlinked(s, k), k)
  PROVE  Moved(s, k, t)
  <1>1. PICK u : u = Unlinked(s, k)
    OBVIOUS
  <1>2. /\ u \in Seq(Keys) /\ IsInjective(u) /\ Listed(u) = Listed(s) \ {k}
        /\ \A x, y : Before(u, x, y) => Before(s, x, y)
        /\ \A x, y : x # k /\ y # k /\ Before(s, x, y) => Before(u, x, y)
    BY <1>1, UnlinkedFacts
  <1>3. /\ t \in Seq(Keys) /\ Len(t) = Len(u) + 1 /\ Len(u) \in Nat
        /\ \A i \in 1..Len(u) : t[i] = u[i]
        /\ t[Len(u) + 1] = k
    BY <1>1, <1>2
  <1>4. /\ \A i \in 1..Len(t) : i \in 1..Len(u) \/ i = Len(u) + 1
        /\ \A i \in 1..Len(u) : i \in 1..Len(t) /\ i < Len(u) + 1
        /\ Len(u) + 1 \in 1..Len(t)
    BY <1>3
  <1>5. \A i \in 1..Len(u) : u[i] # k /\ u[i] \in Listed(s)
    BY <1>2, Members
  <1>6. IsInjective(t)
    <2>1. DOMAIN t = 1..Len(t)
      BY <1>3, Members
    <2> SUFFICES ASSUME NEW i \in 1..Len(t), NEW j \in 1..Len(t), t[i] = t[j] PROVE i = j
      BY <2>1 DEF IsInjective
    <2>2. CASE i \in 1..Len(u) /\ j \in 1..Len(u)
      BY <1>2, <1>3, <2>2, OnePosition
    <2> QED
      BY <1>3, <1>4, <1>5, <2>2
  <1>7. Listed(t) = Listed(s) \cup {k}
    <2>1. \A x \in Listed(t) : x \in Listed(u) \cup {k}
      BY <1>3, <1>4, ZenonT(30) DEF Listed
    <2>2. \A x \in Listed(u) : x \in Listed(t)
      BY <1>3, <1>4, ZenonT(30) DEF Listed
    <2>3. k \in Listed(t)
      BY <1>3, <1>4, ZenonT(30) DEF Listed
    <2> QED
      BY <1>2, <2>1, <2>2, <2>3
  <1>8. ASSUME NEW x, NEW y, Before(t, x, y)
        PROVE  x # k /\ (y # k => Before(s, x, y)) /\ x \in Listed(s)
    <2>1. PICK i, j \in 1..Len(t) : i < j /\ t[i] = x /\ t[j] = y
      BY <1>8 DEF Before
    <2>2. i \in 1..Len(u)
      BY <1>3, <2>1
    <2>3. ASSUME y # k PROVE Before(u, x, y)
      <3>1. j \in 1..Len(u)
        BY <1>3, <1>4, <2>1, <2>3
      <3> QED
        BY <1>3, <2>1, <2>2, <3>1 DEF Before
    <2> QED
      BY <1>2, <1>3, <1>5, <2>1, <2>2, <2>3
  <1>9. ASSUME NEW x, NEW y, Before(u, x, y)
        PROVE  Before(t, x, y)
    BY <1>3, <1>4, <1>9 DEF Before
  <1>10. ASSUME NEW x \in Listed(s), x # k
         PROVE  Before(t, x, k)
    <2>1. PICK i \in 1..Len(u) : u[i] = x
      BY <1>2, <1>10, Members
    <2> QED
      BY <1>3, <1>4, <2>1 DEF Before
  <1>11. Last(t) = k
    BY <1>3 DEF Last
  <1> QED
    BY <1>2, <1>3, <1>6, <1>7, <1>8, <1>9, <1>10, <1>11 DEF Moved
\* t is what n rounds of DeleteStaleData leave of s.
LeftOf(s, n, t) ==
  /\ t \in Seq(Keys) /\ IsInjective(t) /\ Listed(t) \subseteq Listed(s)
  /\ \A x, y : Before(t, x, y) => Before(s, x, y)
  /\ \A i \in 1..Len(s) : s[i] \in Listed(t) <=> i > n

LEMMA SuffixFacts ==
  ASSUME NEW s \in Seq(Keys), IsInjective(s), NEW n \in 0..Len(s),
         NEW t, t = SubSeq(s, n + 1, Len(s))
  PROVE  LeftOf(s, n, t)
  <1>1. /\ t \in Seq(Keys) /\ Len(s) \in Nat /\ Len(t) = Len(s) - n
        /\ \A i \in 1..(Len(s) - n) : t[i] = s[n + i]
    BY Members
  <1>2. \A i \in 1..Len(t) : t[i] = s[n + i] /\ n + i \in 1..Len(s) /\ n + i > n
    BY <1>1
  <1>3. IsInjective(t)
    <2>1. DOMAIN t = 1..Len(t)
      BY <1>1, Members
    <2> SUFFICES ASSUME NEW i \in 1..Len(t), NEW j \in 1..Len(t), t[i] = t[j] PROVE i = j
      BY <2>1 DEF IsInjective
    <2>2. n + i = n + j
      <3>1. n + i \in 1..Len(s) /\ n + j \in 1..Len(s) /\ s[n + i] = s[n + j]
        BY <1>2, ZenonT(30)
      <3> QED
        BY <3>1, OnePosition
    <2> QED
      BY <1>1, <2>2
  <1>4. Listed(t) \subseteq Listed(s)
    BY <1>2, ZenonT(30) DEF Listed
  <1>5. ASSUME NEW x, NEW y, Before(t, x, y) PROVE Before(s, x, y)
    <2>1. PICK i, j \in 1..Len(t) : i < j /\ t[i] = x /\ t[j] = y
      BY <1>5, ZenonT(30) DEF Before
    <2>2. /\ n + i \in 1..Len(s) /\ n + j \in 1..Len(s) /\ n + i < n + j
          /\ s[n + i] = x /\ s[n + j] = y
      BY <1>1, <1>2, <2>1
    <2> QED
      BY <2>2, ZenonT(30) DEF Before
  <1>6. ASSUME NEW i \in 1..Len(s) PROVE s[i] \in Listed(t) <=> i > n
    <2>1. ASSUME s[i] \in Listed(t) PROVE i > n
      <3>1. PICK j \in 1..Len(t) : t[j] = s[i]
        BY <2>1, ZenonT(30) DEF Listed
      <3>2. n + j \in 1..Len(s) /\ s[n + j] = s[i] /\ n + j > n
        BY <1>2, <3>1
      <3>3. n + j = i
        BY <3>2, OnePosition
      <3> QED
        BY <3>2, <3>3
    <2>2. ASSUME i > n PROVE s[i] \in Listed(t)
      <3>1. i - n \in 1..Len(t) /\ n + (i - n) = i
        BY <1>1, <2>2
      <3>2. t[i - n] = s[i]
        BY <1>2, <3>1
      <3> QED
        BY <3>1, <3>2, ZenonT(30) DEF Listed
    <2> QED
      BY <2>1, <2>2
  <1> QED
    BY <1>1, <1>3, <1>4, <1>5, <1>6 DEF LeftOf

\* An access moves a key to the end of the list and of the history alike.
LEMMA AccessFollows ==
  ASSUME NEW l \in Seq(Keys), IsInjective(l), NEW r \in Seq(Keys), IsInjective(r),
         Follows(l, r), NEW k \in Keys,
         NEW m, m = Append(Unlinked(l, k), k), NEW q, q = Append(Unlinked(r, k), k)
  PROVE  Follows(m, q)
  <1>1. Moved(l, k, m) /\ Moved(r, k, q)
    BY MovedFacts, ZenonT(30)
  <1> QED
    BY <1>1, ZenonT(30) DEF Follows, Moved
-----------------------------------------------------------------------------
(***************************************************************************)
(* The steps.                                                              *)
(***************************************************************************)

LEMMA InitInv == Init => BucketInv
  <1> SUFFICES ASSUME Init PROVE BucketInv
    OBVIOUS
  <1>1. /\ access_list = <<>> /\ key_to_litr = {} /\ data = [k \in Keys |-> Fresh]
        /\ corrupted = FALSE /\ evicted = 0 /\ recency = <<>>
    BY DEF Init
  <1>2. <<>> \in Seq(Keys) /\ IsInjective(<<>>) /\ Listed(<<>>) = {} /\ Len(<<>>) = 0
    BY DEF IsInjective, Listed
  <1>3. Fresh \in [key : Keys \cup {NoKey}, value : Values]
    BY LruAssumption DEF Fresh
  <1>4. 0 \in 0..MaxEvicted
    BY LruAssumption
  <1>5. NodesInv
    <2>1. data \in [Keys -> [key : Keys \cup {NoKey}, value : Values]]
      BY <1>1, <1>3
    <2>2. \A k \in Keys : data[k] = Fresh
      BY <1>1
    <2> QED
      BY <1>1, <1>2, <1>4, <2>1, <2>2, ZenonT(30) DEF NodesInv
  <1>6. ~\E x, y : Before(<<>>, x, y)
    BY DEF Before
  <1> QED
    BY <1>1, <1>2, <1>5, <1>6, ZenonT(30) DEF BucketInv, OrderInv, Follows

\* Get: the key moves to the end, whether it was there or not.
LEMMA GetInv ==
  ASSUME BucketInv, NEW k \in Keys, Get(k)
  PROVE  BucketInv'
  <1>1. /\ access_list \in Seq(Keys) /\ IsInjective(access_list)
        /\ Listed(access_list) \subseteq key_to_litr /\ key_to_litr \subseteq Keys
        /\ \A x \in Keys : data[x] # Fresh => x \in Listed(access_list) /\ data[x].key = x
        /\ recency \in Seq(Keys) /\ IsInjective(recency) /\ Follows(access_list, recency)
    BY DEF BucketInv, NodesInv, OrderInv
  <1>2. UNCHANGED <<data, memory, evicted>> /\ corrupted' \in BOOLEAN
    BY ZenonT(30) DEF Get, Dangling
  <1>3. CASE UNCHANGED <<access_list, key_to_litr, recency>>
    BY <1>2, <1>3, ZenonT(30) DEF BucketInv, NodesInv, OrderInv
  <1>4. CASE /\ access_list' = Append(Unlinked(access_list, k), k)
             /\ recency' = Append(Unlinked(recency, k), k)
             /\ key_to_litr' = key_to_litr \cup {k}
    <2>1. /\ access_list' \in Seq(Keys) /\ IsInjective(access_list')
          /\ Listed(access_list') = Listed(access_list) \cup {k}
      <3>1. Moved(access_list, k, access_list')
        BY <1>1, <1>4, MovedFacts, ZenonT(30)
      <3> QED
        BY <3>1 DEF Moved
    <2>2. recency' \in Seq(Keys) /\ IsInjective(recency')
      <3>1. Moved(recency, k, recency')
        BY <1>1, <1>4, MovedFacts, ZenonT(30)
      <3> QED
        BY <3>1 DEF Moved
    <2>3. Follows(access_list', recency')
      BY <1>1, <1>4, AccessFollows, ZenonT(30)
    <2>4. OrderInv'
      BY <2>2, <2>3, ZenonT(30) DEF OrderInv, Follows, Before, Listed
    <2>5. NodesInv'
      BY <1>1, <1>2, <1>4, <2>1, ZenonT(30) DEF BucketInv, NodesInv
    <2> QED
      BY <2>4, <2>5 DEF BucketInv
  <1> QED
    BY <1>3, <1>4, ZenonT(30) DEF Get, MoveToBack, Access

\* AddOrReplace, with any number of rounds of DeleteStaleData before it.
LEMMA ReplaceInv ==
  ASSUME BucketInv, NEW k \in Keys, NEW v \in Values, NEW n \in 0..Len(access_list),
         evicted + n <= MaxEvicted, Replace(k, v, n)
  PROVE  BucketInv'
  <1>1. /\ access_list \in Seq(Keys) /\ IsInjective(access_list)
        /\ Listed(access_list) \subseteq key_to_litr /\ key_to_litr \subseteq Keys
        /\ data \in [Keys -> [key : Keys \cup {NoKey}, value : Values]]
        /\ \A x \in Keys : data[x] # Fresh => x \in Listed(access_list) /\ data[x].key = x
        /\ recency \in Seq(Keys) /\ IsInjective(recency) /\ Follows(access_list, recency)
        /\ evicted \in 0..MaxEvicted
    BY DEF BucketInv, NodesInv, OrderInv
  <1>2. PICK list : list = SubSeq(access_list, n + 1, Len(access_list))
    BY ZenonT(30)
  <1>3. PICK map : map = key_to_litr \ Unmapped(n)
    BY ZenonT(30)
  <1>4. PICK kept : kept = [x \in Keys |-> IF x \in Listed(list) THEN data[x] ELSE Fresh]
    BY ZenonT(30)
  <1>5. /\ list \in Seq(Keys) /\ IsInjective(list) /\ Listed(list) \subseteq Listed(access_list)
        /\ \A x, y : Before(list, x, y) => Before(access_list, x, y)
        /\ \A i \in 1..Len(access_list) : access_list[i] \in Listed(list) <=> i > n
    <2>1. LeftOf(access_list, n, list)
      BY <1>1, <1>2, SuffixFacts, ZenonT(30)
    <2> QED
      BY <2>1 DEF LeftOf
  <1>6. Follows(list, recency)
    BY <1>1, <1>5, ZenonT(30) DEF Follows
  <1>7. Listed(list) \subseteq map /\ map \subseteq Keys
    <2>1. \A i \in 1..n : /\ access_list[i] \in Keys
                          /\ access_list[i] \notin Listed(list)
      BY <1>1, <1>5, Members
    <2>2. \A i \in 1..n : data[access_list[i]].key \in {NoKey, access_list[i]}
      BY <1>1, <2>1 DEF Fresh
    <2>3. \A x \in Listed(list) : x \in Keys /\ x # NoKey
      BY <1>5, Members, LruAssumption
    <2>4. ASSUME NEW x \in Listed(list) PROVE x \notin Unmapped(n)
      <3> SUFFICES ASSUME NEW i \in 1..n, data[access_list[i]].key = x PROVE FALSE
        BY ZenonT(30) DEF Unmapped
      <3>1. x = NoKey \/ x = access_list[i]
        BY <2>2, ZenonT(30)
      <3> QED
        BY <2>1, <2>3, <3>1, ZenonT(30)
    <2> QED
      BY <1>1, <1>3, <1>5, <2>4, ZenonT(30)
  <1>8. /\ kept \in [Keys -> [key : Keys \cup {NoKey}, value : Values]]
        /\ \A x \in Keys : kept[x] # Fresh => x \in Listed(list) /\ kept[x].key = x
    <2>1. Fresh \in [key : Keys \cup {NoKey}, value : Values]
      BY LruAssumption DEF Fresh
    <2>2. \A x \in Keys : data[x] \in [key : Keys \cup {NoKey}, value : Values]
      BY <1>1
    <2>3. \A x \in Keys : kept[x] = IF x \in Listed(list) THEN data[x] ELSE Fresh
      BY <1>4
    <2>4. kept \in [Keys -> [key : Keys \cup {NoKey}, value : Values]]
      BY <1>4, <2>1, <2>2, ZenonT(30)
    <2> QED
      BY <1>1, <2>3, <2>4, ZenonT(30)
  <1>9. evicted' \in 0..MaxEvicted /\ corrupted' \in BOOLEAN
    <2>1. evicted' = evicted + n
      BY ZenonT(30) DEF Replace
    <2>2. n \in Nat /\ MaxEvicted \in Nat
      BY <1>1, LruAssumption
    <2>3. corrupted' \in BOOLEAN
      BY ZenonT(30) DEF Replace, Dangling
    <2> QED
      BY <1>1, <2>1, <2>2, <2>3
  <1>10. CASE /\ access_list' = list /\ key_to_litr' = map /\ data' = kept
              /\ UNCHANGED recency
    <2>1. NodesInv'
      BY <1>5, <1>7, <1>8, <1>9, <1>10, ZenonT(30) DEF NodesInv
    <2>2. /\ recency' \in Seq(Keys) /\ IsInjective(recency')
          /\ Follows(access_list', recency')
      BY <1>1, <1>6, <1>10, ZenonT(30)
    <2>3. OrderInv'
      BY <2>2, ZenonT(30) DEF OrderInv, Follows, Before, Listed
    <2> QED
      BY <2>1, <2>3 DEF BucketInv
  <1>11. CASE /\ access_list' = Append(Unlinked(list, k), k)
              /\ recency' = Append(Unlinked(recency, k), k)
              /\ key_to_litr' = map \cup {k}
              /\ data' = [kept EXCEPT ![k] = [key |-> k, value |-> v]]
    <2>1. /\ access_list' \in Seq(Keys) /\ IsInjective(access_list')
          /\ Listed(access_list') = Listed(list) \cup {k}
      <3>1. Moved(list, k, access_list')
        BY <1>5, <1>11, MovedFacts, ZenonT(30)
      <3> QED
        BY <3>1 DEF Moved
    <2>2. recency' \in Seq(Keys) /\ IsInjective(recency')
      <3>1. Moved(recency, k, recency')
        BY <1>1, <1>11, MovedFacts, ZenonT(30)
      <3> QED
        BY <3>1 DEF Moved
    <2>3. Follows(access_list', recency')
      BY <1>1, <1>5, <1>6, <1>11, AccessFollows, ZenonT(30)
    <2>4. OrderInv'
      BY <2>2, <2>3, ZenonT(30) DEF OrderInv, Follows, Before, Listed
    <2>5. /\ data' \in [Keys -> [key : Keys \cup {NoKey}, value : Values]]
          /\ \A x \in Keys : data'[x] # Fresh => x \in Listed(access_list') /\ data'[x].key = x
      <3>1. [key |-> k, value |-> v] \in [key : Keys \cup {NoKey}, value : Values]
        OBVIOUS
      <3>2. data' \in [Keys -> [key : Keys \cup {NoKey}, value : Values]]
        BY <1>8, <1>11, <3>1, ZenonT(30)
      <3>3. data'[k] = [key |-> k, value |-> v] /\ \A x \in Keys \ {k} : data'[x] = kept[x]
        BY <1>8, <1>11, ZenonT(30)
      <3>4. data'[k].key = k
        BY <3>3
      <3> QED
        BY <1>8, <2>1, <3>2, <3>3, <3>4, ZenonT(30)
    <2>6. NodesInv'
      BY <1>7, <1>9, <1>11, <2>1, <2>5, ZenonT(30) DEF NodesInv
    <2> QED
      BY <2>4, <2>6 DEF BucketInv
  <1> QED
    BY <1>2, <1>3, <1>4, <1>10, <1>11, ZenonT(30) DEF Replace, MoveToBack, Access

\* What a step may take from the list and the map.
LEMMA Evictions ==
  ASSUME BucketInv, NEW k \in Keys, NEW v \in Values, NEW n \in 0..Len(access_list),
         Replace(k, v, n)
  PROVE  /\ \A i \in 1..Len(access_list) :
              /\ access_list[i] \notin Listed(access_list') => i <= n
              /\ i <= n /\ access_list[i] \in Listed(access_list')
                   => access_list[i] = k /\ Last(recency') = k
         /\ \A x \in Unmapped(n) : x \in key_to_litr' => x \in Listed(access_list')
  <1>1. /\ access_list \in Seq(Keys) /\ IsInjective(access_list)
        /\ recency \in Seq(Keys) /\ IsInjective(recency)
    BY DEF BucketInv, NodesInv, OrderInv
  <1>2. PICK list : list = SubSeq(access_list, n + 1, Len(access_list))
    BY ZenonT(30)
  <1>3. LeftOf(access_list, n, list)
    BY <1>1, <1>2, SuffixFacts, ZenonT(30)
  <1>4. /\ list \in Seq(Keys) /\ IsInjective(list)
        /\ \A i \in 1..Len(access_list) : access_list[i] \in Listed(list) <=> i > n
    BY <1>3 DEF LeftOf
  <1>5. Len(access_list) \in Nat /\ n \in Nat
    BY <1>1
  <1>6. CASE access_list' = list /\ key_to_litr' = key_to_litr \ Unmapped(n)
    BY <1>4, <1>5, <1>6
  <1>7. CASE /\ access_list' = Append(Unlinked(list, k), k)
             /\ recency' = Append(Unlinked(recency, k), k)
             /\ key_to_litr' = (key_to_litr \ Unmapped(n)) \cup {k}
    <2>1. Moved(list, k, access_list') /\ Moved(recency, k, recency')
      BY <1>1, <1>4, <1>7, MovedFacts, ZenonT(30)
    <2>2. Listed(access_list') = Listed(list) \cup {k} /\ Last(recency') = k
      BY <2>1 DEF Moved
    <2> QED
      BY <1>4, <1>5, <1>7, <2>2
  <1> QED
    BY <1>2, <1>6, <1>7, ZenonT(30) DEF Replace, MoveToBack, Access

\* Get takes nothing from the list.
LEMMA GetKeeps ==
  ASSUME BucketInv, NEW k \in Keys, Get(k)
  PROVE  Listed(access_list) \subseteq Listed(access_list')
  <1>1. access_list \in Seq(Keys) /\ IsInjective(access_list)
    BY DEF BucketInv, NodesInv
  <1>2. CASE access_list' = Append(Unlinked(access_list, k), k)
    <2>1. Moved(access_list, k, access_list')
      BY <1>1, <1>2, MovedFacts, ZenonT(30)
    <2> QED
      BY <2>1 DEF Moved
  <1> QED
    BY <1>2, ZenonT(30) DEF Get, MoveToBack

\* The two kinds of steps.
LEMMA Steps ==
  ASSUME Next
  PROVE  \/ \E k \in Keys : Get(k)
         \/ \E k \in Keys, v \in Values, n \in 0..Len(access_list) :
              evicted + n <= MaxEvicted /\ Replace(k, v, n)
  BY ZenonT(30) DEF Next, AddOrReplace

LEMMA NextInv == BucketInv /\ [Next]_vars => BucketInv'
  <1> SUFFICES ASSUME BucketInv, [Next]_vars PROVE BucketInv'
    OBVIOUS
  <1>1. CASE UNCHANGED vars
    BY <1>1, ZenonT(30) DEF vars, BucketInv, NodesInv, OrderInv
  <1>2. CASE Next
    BY <1>2, Steps, GetInv, ReplaceInv, ZenonT(30)
  <1> QED
    BY <1>1, <1>2
-----------------------------------------------------------------------------
(***************************************************************************)
(* The theorems.                                                           *)
(***************************************************************************)

\* For any keys, values, sizes and thresholds: the list of a Bucket holds no key
\* twice, its map has every key of the list, only entries of the list hold a
\* value, and the list is in the order of the last accesses ("Every time Data is
\* accessed, its moved to the back of list").
THEOREM BucketInvariant == Spec => []BucketInv
  <1>1. Init => BucketInv
    BY InitInv
  <1>2. BucketInv /\ [Next]_vars => BucketInv'
    BY NextInv
  <1> QED
    BY <1>1, <1>2, PTL DEF Spec

\* A step that takes a stored entry from the list takes its key from the map
\* (Cache::DeleteStaleData).
LEMMA StepLeavesTogether ==
  ASSUME BucketInv, [Next]_vars,
         NEW x \in Listed(access_list) \ Listed(access_list'), data[x].key = x
  PROVE  x \notin key_to_litr'
  <1>1. PICK i \in 1..Len(access_list) : access_list[i] = x
    BY ZenonT(30) DEF Listed
  <1>2. CASE UNCHANGED vars
    BY <1>2, ZenonT(30) DEF vars
  <1>3. CASE \E k \in Keys : Get(k)
    BY <1>3, GetKeeps, ZenonT(30)
  <1>4. CASE \E k \in Keys, v \in Values, n \in 0..Len(access_list) : Replace(k, v, n)
    <2>1. PICK k \in Keys, v \in Values, n \in 0..Len(access_list) : Replace(k, v, n)
      BY <1>4
    <2>2. access_list[i] \notin Listed(access_list') => i <= n
      BY <2>1, Evictions, ZenonT(30)
    <2>3. i \in 1..n
      BY <1>1, <2>2
    <2>4. x \in Unmapped(n)
      BY <1>1, <2>3, ZenonT(30) DEF Unmapped
    <2> QED
      BY <2>1, <2>4, Evictions, ZenonT(30)
  <1> QED
    BY <1>2, <1>3, <1>4, Steps, ZenonT(30)

\* DeleteStaleData takes an entry that was stored from the list and from the map
\* together, for any keys and sizes.
THEOREM LeaveTogether == Spec => StoredKeysLeaveTogether
  <1>1. BucketInv /\ [Next]_vars
          => [\A k \in Listed(access_list) \ Listed(access_list') :
                data[k].key = k => k \notin key_to_litr']_vars
    BY StepLeavesTogether, ZenonT(30)
  <1> QED
    BY <1>1, BucketInvariant, PTL DEF Spec, StoredKeysLeaveTogether

\* Of two entries in the order of their last access, a step does not evict the
\* later one alone, unless it accesses the earlier one anew.
LEMMA StepEvictsStaleFirst ==
  ASSUME BucketInv, [Next]_vars,
         NEW i \in 1..Len(recency), NEW j \in 1..Len(recency), i < j,
         {recency[i], recency[j]} \subseteq Listed(access_list),
         recency[j] \notin Listed(access_list'), recency[i] \in Listed(access_list')
  PROVE  recency[i] = Last(recency')
  <1>1. /\ access_list \in Seq(Keys) /\ IsInjective(access_list)
        /\ recency \in Seq(Keys) /\ IsInjective(recency) /\ Follows(access_list, recency)
    BY DEF BucketInv, NodesInv, OrderInv
  <1>2. PICK p \in 1..Len(access_list) : access_list[p] = recency[i]
    BY ZenonT(30) DEF Listed
  <1>3. PICK q \in 1..Len(access_list) : access_list[q] = recency[j]
    BY ZenonT(30) DEF Listed
  <1>4. p # q
    BY <1>2, <1>3, ZenonT(30)
  <1>5. ~(q < p)
    <2> SUFFICES ASSUME q < p PROVE FALSE
      OBVIOUS
    <2>1. Before(access_list, recency[j], recency[i])
      BY <1>2, <1>3, ZenonT(30) DEF Before
    <2>2. recency[i] \in Keys /\ recency[j] \in Keys
      BY <1>1, Members
    <2>3. Before(recency, recency[j], recency[i])
      BY <1>1, <2>1, <2>2, ZenonT(30) DEF Follows
    <2>4. PICK g, h \in 1..Len(recency) : g < h /\ recency[g] = recency[j] /\ recency[h] = recency[i]
      BY <2>3, ZenonT(30) DEF Before
    <2>5. g = j /\ h = i
      BY <1>1, <2>4, OnePosition, ZenonT(30)
    <2>6. Len(recency) \in Nat
      BY <1>1
    <2> QED
      BY <2>4, <2>5, <2>6
  <1>6. CASE UNCHANGED vars
    BY <1>6, ZenonT(30) DEF vars
  <1>7. CASE \E k \in Keys : Get(k)
    BY <1>7, GetKeeps, ZenonT(30)
  <1>8. CASE \E k \in Keys, v \in Values, n \in 0..Len(access_list) : Replace(k, v, n)
    <2>1. PICK k \in Keys, v \in Values, n \in 0..Len(access_list) : Replace(k, v, n)
      BY <1>8
    <2>2. q <= n
      BY <1>3, <2>1, Evictions, ZenonT(30)
    <2>3. p <= n
      BY <1>1, <1>4, <1>5, <2>2
    <2> QED
      BY <1>2, <2>1, <2>3, Evictions, ZenonT(30)
  <1> QED
    BY <1>6, <1>7, <1>8, Steps, ZenonT(30)

\* "Hence, the front of this list always has stale entries": eviction takes the
\* least recently used entries first, however many it takes.
THEOREM StaleFirst == Spec => EvictsStaleFirst
  <1>1. BucketInv /\ [Next]_vars
          => [\A i, j \in 1..Len(recency) :
                /\ i < j
                /\ {recency[i], recency[j]} \subseteq Listed(access_list)
                /\ recency[j] \notin Listed(access_list')
                /\ recency[i] \in Listed(access_list')
                => recency[i] = Last(recency')]_vars
    BY StepEvictsStaleFirst, ZenonT(30)
  <1> QED
    BY <1>1, BucketInvariant, PTL DEF Spec, EvictsStaleFirst
-----------------------------------------------------------------------------
(***************************************************************************)
(* The memory counter: what it means to count modulo Word, the number of   *)
(* bytes of a set of nodes, and what each step adds and subtracts.         *)
(***************************************************************************)

LEMMA WordPositive == Word \in Nat /\ Word > 0
  BY LruAssumption

\* Remainders are unique.
LEMMA OneRemainder ==
  ASSUME NEW W \in Nat, W > 0, NEW p \in Int, NEW q \in Int,
         NEW r \in 0..(W - 1), NEW s \in 0..(W - 1), W * p + r = W * q + s
  PROVE  r = s
  <1>1. PICK d \in Int : d = p - q
    OBVIOUS
  <1>2. W * d = s - r
    <2>1. W * (p - q) = W * p - W * q
      OBVIOUS
    <2> QED
      BY <1>1, <2>1
  <1>3. ~(d >= 1)
    <2> SUFFICES ASSUME d >= 1 PROVE FALSE
      OBVIOUS
    <2>1. W * d >= W
      OBVIOUS
    <2> QED
      BY <1>2, <2>1
  <1>4. ~(d <= -1)
    <2> SUFFICES ASSUME d <= -1 PROVE FALSE
      OBVIOUS
    <2>1. W * d <= -W
      OBVIOUS
    <2> QED
      BY <1>2, <2>1
  <1>5. d = 0
    BY <1>3, <1>4
  <1> QED
    BY <1>2, <1>5

LEMMA Remainder ==
  ASSUME NEW a \in Int, NEW W \in Nat, W > 0
  PROVE  a % W \in 0..(W - 1) /\ \E q \in Int : a = W * q + (a % W)
  <1>1. a = W * (a \div W) + (a % W) /\ a \div W \in Int /\ a % W \in 0..(W - 1)
    OBVIOUS
  <1> QED
    BY <1>1, ZenonT(30)

\* uint64_t arithmetic may wrap at every step or once at the end.
LEMMA WrapOnce ==
  ASSUME NEW a \in Int, NEW b \in Int
  PROVE  ((a % Word) + b) % Word = (a + b) % Word
  <1>1. PICK p \in Int : a = Word * p + (a % Word)
    BY WordPositive, Remainder
  <1>2. a % Word \in Int
    BY WordPositive, Remainder
  <1>3. PICK c \in Int : c = (a % Word) + b
    BY <1>2
  <1>4. PICK q \in Int : c = Word * q + (c % Word)
    BY WordPositive, Remainder
  <1>5. PICK e \in Int : e = a + b
    OBVIOUS
  <1>6. PICK t \in Int : e = Word * t + (e % Word)
    BY WordPositive, Remainder
  <1>7. c % Word \in 0..(Word - 1) /\ e % Word \in 0..(Word - 1)
    BY WordPositive, Remainder
  <1>8. Word * (p + q) + (c % Word) = Word * t + (e % Word)
    <2>1. Word * (p + q) = Word * p + Word * q
      BY WordPositive
    <2>2. e = Word * p + c
      BY <1>1, <1>2, <1>3, <1>5, WordPositive
    <2> QED
      BY <1>4, <1>6, <1>7, <2>1, <2>2, WordPositive
  <1>9. c % Word = e % Word
    BY <1>7, <1>8, WordPositive, OneRemainder
  <1> QED
    BY <1>3, <1>5, <1>9

\* The length of the key and the value of a node.
Held(d, k) == Size[d[k].key] + Size[d[k].value]

LEMMA HeldType ==
  ASSUME NEW d \in [Keys -> [key : Keys \cup {NoKey}, value : Values]], NEW k \in Keys
  PROVE  Held(d, k) \in Nat
  BY LruAssumption DEF Held

\* Which bytes these are.
LEMMA ByteOf ==
  ASSUME NEW d, NEW nodes, NEW b
  PROVE  b \in Bytes(d, nodes) <=> \E k \in nodes : b \in {k} \X (1..Held(d, k))
  BY ZenonT(30) DEF Bytes, Held

LEMMA BytesFinite ==
  ASSUME NEW d \in [Keys -> [key : Keys \cup {NoKey}, value : Values]],
         NEW nodes, nodes \subseteq Keys, IsFiniteSet(nodes)
  PROVE  IsFiniteSet(Bytes(d, nodes)) /\ Cardinality(Bytes(d, nodes)) \in Nat
  <1>1. PICK parts : parts = {{k} \X (1..Held(d, k)) : k \in nodes}
    BY ZenonT(30)
  <1>2. [k \in nodes |-> {k} \X (1..Held(d, k))] \in Surjection(nodes, parts)
    BY <1>1, ZenonT(30) DEF Surjection
  <1>3. IsFiniteSet(parts)
    BY <1>2, FS_Surjection
  <1>4. ASSUME NEW k \in nodes PROVE IsFiniteSet({k} \X (1..Held(d, k)))
    <2>1. IsFiniteSet(1..Held(d, k))
      BY HeldType, FS_Interval
    <2> QED
      BY <2>1, FS_Singleton, FS_Product, ZenonT(30)
  <1>5. IsFiniteSet(UNION parts)
    <2>1. \A part \in parts : IsFiniteSet(part)
      BY <1>1, <1>4, ZenonT(30)
    <2> QED
      BY <1>3, <2>1, FS_UNION, ZenonT(30)
  <1>6. Bytes(d, nodes) = UNION parts
    BY <1>1, ZenonT(30) DEF Bytes, Held
  <1> QED
    BY <1>5, <1>6, FS_CardinalityType

LEMMA BytesOfOne ==
  ASSUME NEW d \in [Keys -> [key : Keys \cup {NoKey}, value : Values]], NEW k \in Keys
  PROVE  Cardinality(Bytes(d, {k})) = Held(d, k)
  <1>1. Bytes(d, {k}) = {k} \X (1..Held(d, k))
    BY ZenonT(30) DEF Bytes, Held
  <1>2. IsFiniteSet(1..Held(d, k)) /\ Cardinality(1..Held(d, k)) = Held(d, k)
    BY HeldType, FS_Interval
  <1>3. Cardinality({k} \X (1..Held(d, k))) = Cardinality({k}) * Cardinality(1..Held(d, k))
    BY <1>2, FS_Singleton, FS_Product, ZenonT(30)
  <1>4. Cardinality({k}) * Cardinality(1..Held(d, k)) = Held(d, k)
    <2>1. Cardinality({k}) = 1
      BY FS_Singleton, ZenonT(30)
    <2>2. 1 * Held(d, k) = Held(d, k)
      BY HeldType
    <2> QED
      BY <1>2, <2>1, <2>2, ZenonT(30)
  <1> QED
    BY <1>1, <1>3, <1>4, ZenonT(30)

\* Two sets of nodes have no byte in common if they have no node in common.
LEMMA BytesAdd ==
  ASSUME NEW d \in [Keys -> [key : Keys \cup {NoKey}, value : Values]],
         NEW S, S \subseteq Keys, IsFiniteSet(S), NEW T, T \subseteq Keys, IsFiniteSet(T),
         S \cap T = {}
  PROVE  Cardinality(Bytes(d, S \cup T)) = Cardinality(Bytes(d, S)) + Cardinality(Bytes(d, T))
  <1>1. Bytes(d, S \cup T) = Bytes(d, S) \cup Bytes(d, T)
    BY ZenonT(30) DEF Bytes
  <1>2. Bytes(d, S) \cap Bytes(d, T) = {}
    <2> SUFFICES ASSUME NEW b \in Bytes(d, S), b \in Bytes(d, T) PROVE FALSE
      OBVIOUS
    <2>1. PICK x \in S : b \in {x} \X (1..Held(d, x))
      BY ByteOf
    <2>2. PICK y \in T : b \in {y} \X (1..Held(d, y))
      BY ByteOf
    <2>3. b[1] = x /\ b[1] = y
      BY <2>1, <2>2
    <2> QED
      BY <2>3
  <1>3. Cardinality(Bytes(d, S) \cap Bytes(d, T)) = 0
    BY <1>2, FS_EmptySet
  <1>4. /\ IsFiniteSet(Bytes(d, S)) /\ Cardinality(Bytes(d, S)) \in Nat
        /\ IsFiniteSet(Bytes(d, T)) /\ Cardinality(Bytes(d, T)) \in Nat
    BY BytesFinite
  <1>5. Cardinality(Bytes(d, S) \cup Bytes(d, T)) =
          Cardinality(Bytes(d, S)) + Cardinality(Bytes(d, T))
            - Cardinality(Bytes(d, S) \cap Bytes(d, T))
    BY <1>4, FS_Union
  <1>6. Cardinality(Bytes(d, S \cup T)) = Cardinality(Bytes(d, S) \cup Bytes(d, T))
    BY <1>1, ZenonT(30)
  <1> QED
    BY <1>3, <1>4, <1>5, <1>6

\* The bytes of nodes depend on the fields of these nodes only.
LEMMA BytesSame ==
  ASSUME NEW d, NEW e, NEW nodes, \A k \in nodes : d[k] = e[k]
  PROVE  Bytes(d, nodes) = Bytes(e, nodes)
  BY ZenonT(30) DEF Bytes

LEMMA ListedFinite ==
  ASSUME NEW s \in Seq(Keys), NEW n \in 0..Len(s)
  PROVE  IsFiniteSet({s[i] : i \in 1..n})
  <1>1. [i \in 1..n |-> s[i]] \in Surjection(1..n, {s[i] : i \in 1..n})
    BY ZenonT(30) DEF Surjection
  <1>2. IsFiniteSet(1..n)
    BY FS_Interval
  <1> QED
    BY <1>1, <1>2, FS_Surjection

\* MemoryLaw in the state after a step, for what the step left of the list.
LEMMA MemoryAfterRounds ==
  ASSUME BucketInv, MemoryLaw, NEW n \in 0..Len(access_list),
         NEW list, list = SubSeq(access_list, n + 1, Len(access_list))
  PROVE  /\ IsFiniteSet(Listed(list)) /\ Cardinality(Bytes(data, Listed(list))) \in Nat
         /\ MemoryAfter(n) =
              (Cardinality(Bytes(data, Listed(list))) - Overhead * (evicted + n)) % Word
  <1>1. /\ access_list \in Seq(Keys) /\ IsInjective(access_list)
        /\ data \in [Keys -> [key : Keys \cup {NoKey}, value : Values]]
        /\ evicted \in Nat /\ Overhead \in Nat /\ n \in Nat
    BY LruAssumption DEF BucketInv, NodesInv
  <1>2. LeftOf(access_list, n, list)
    BY <1>1, SuffixFacts, ZenonT(30)
  <1>3. /\ list \in Seq(Keys)
        /\ Listed(list) \subseteq Listed(access_list)
        /\ \A i \in 1..Len(access_list) : access_list[i] \in Listed(list) <=> i > n
    BY <1>2 DEF LeftOf
  <1>4. PICK gone : gone = {access_list[i] : i \in 1..n}
    BY ZenonT(30)
  <1>5. \A i \in 1..Len(access_list) : i \in 1..n \/ i > n
    BY <1>1
  <1>6. \A i \in 1..n : i \in 1..Len(access_list) /\ ~(i > n)
    BY <1>1
  <1>7. gone \cap Listed(list) = {}
    BY <1>3, <1>4, <1>6, ZenonT(30)
  <1>8. Listed(access_list) = gone \cup Listed(list)
    <2>1. gone \subseteq Listed(access_list)
      BY <1>4, <1>6, ZenonT(30) DEF Listed
    <2>2. ASSUME NEW x \in Listed(access_list) PROVE x \in gone \cup Listed(list)
      <3>1. PICK i \in 1..Len(access_list) : access_list[i] = x
        BY ZenonT(30) DEF Listed
      <3> QED
        BY <1>3, <1>4, <1>5, <3>1, ZenonT(30)
    <2> QED
      BY <1>3, <2>1, <2>2, ZenonT(30)
  <1>9. Listed(list) \subseteq Keys /\ gone \subseteq Keys
    <2>1. Listed(access_list) \subseteq Keys
      BY <1>1, Members
    <2> QED
      BY <1>8, <2>1, ZenonT(30)
  <1>10. IsFiniteSet(gone)
    BY <1>1, <1>4, ListedFinite, ZenonT(30)
  <1>11. IsFiniteSet(Listed(list))
    <2>1. Len(list) \in 0..Len(list)
      BY <1>3
    <2> QED
      BY <1>3, <2>1, ListedFinite, ZenonT(30) DEF Listed
  <1>12. PICK c : c = Cardinality(Bytes(data, gone))
    BY ZenonT(30)
  <1>13. PICK m : m = Cardinality(Bytes(data, Listed(list)))
    BY ZenonT(30)
  <1>14. c \in Nat /\ m \in Nat
    BY <1>1, <1>9, <1>10, <1>11, <1>12, <1>13, BytesFinite, ZenonT(30)
  <1>15. Content = c + m
    <2>1. Cardinality(Bytes(data, gone \cup Listed(list))) = c + m
      BY <1>1, <1>7, <1>9, <1>10, <1>11, <1>12, <1>13, BytesAdd, ZenonT(30)
    <2> QED
      BY <1>8, <2>1, ZenonT(30) DEF Content
  <1>16. Freed(n) = c + Overhead * n
    BY <1>4, <1>12, ZenonT(30) DEF Freed
  <1>17. PICK a \in Int : a = c + m - Overhead * evicted
    BY <1>1, <1>14
  <1>18. PICK b \in Int : b = -(c + Overhead * n)
    BY <1>1, <1>14
  <1>19. memory = a % Word
    <2>1. Content - Overhead * evicted = a
      BY <1>1, <1>14, <1>15, <1>17
    <2> QED
      BY <2>1, ZenonT(30) DEF MemoryLaw
  <1>20. a % Word \in Int
    BY Remainder, WordPositive
  <1>21. MemoryAfter(n) = ((a % Word) + b) % Word
    <2>1. memory - Freed(n) = (a % Word) + b
      BY <1>1, <1>14, <1>16, <1>18, <1>19, <1>20
    <2> QED
      BY <2>1, ZenonT(30) DEF MemoryAfter
  <1>22. a + b = m - Overhead * (evicted + n)
    <2>1. Overhead * (evicted + n) = Overhead * evicted + Overhead * n
      BY <1>1
    <2> QED
      BY <1>1, <1>14, <1>17, <1>18, <2>1
  <1> QED
    BY <1>11, <1>13, <1>14, <1>21, <1>22, WrapOnce, ZenonT(30)

LEMMA ContentAfter == Content' = Cardinality(Bytes(data', Listed(access_list')))
  BY DEF Content

\* AddOrReplace: the counter follows the content, whatever the rounds before it
\* deleted.
LEMMA ReplaceMemory ==
  ASSUME BucketInv, MemoryLaw, NEW k \in Keys, NEW v \in Values,
         NEW n \in 0..Len(access_list), Replace(k, v, n)
  PROVE  MemoryLaw'
  <1>1. /\ access_list \in Seq(Keys) /\ IsInjective(access_list)
        /\ data \in [Keys -> [key : Keys \cup {NoKey}, value : Values]]
        /\ evicted \in Nat /\ Overhead \in Nat /\ n \in Nat
    BY LruAssumption DEF BucketInv, NodesInv
  <1>2. PICK list : list = SubSeq(access_list, n + 1, Len(access_list))
    BY ZenonT(30)
  <1>3. LeftOf(access_list, n, list)
    BY <1>1, <1>2, SuffixFacts, ZenonT(30)
  <1>4. list \in Seq(Keys) /\ IsInjective(list) /\ Listed(list) \subseteq Keys
    <2>1. list \in Seq(Keys) /\ IsInjective(list)
      BY <1>3 DEF LeftOf
    <2> QED
      BY <2>1, Members
  <1>5. PICK m : m = Cardinality(Bytes(data, Listed(list)))
    BY ZenonT(30)
  <1>6. /\ IsFiniteSet(Listed(list)) /\ m \in Nat
        /\ MemoryAfter(n) = (m - Overhead * (evicted + n)) % Word
    BY <1>2, <1>5, MemoryAfterRounds, ZenonT(30)
  <1>7. PICK kept : kept = [x \in Keys |-> IF x \in Listed(list) THEN data[x] ELSE Fresh]
    BY ZenonT(30)
  <1>8. \A x \in Listed(list) : kept[x] = data[x]
    BY <1>4, <1>7, ZenonT(30)
  <1>9. evicted' = evicted + n
    BY ZenonT(30) DEF Replace
  <1>10. CASE /\ access_list' = list /\ data' = kept /\ memory' = MemoryAfter(n)
    <2>1. Bytes(kept, Listed(list)) = Bytes(data, Listed(list))
      BY <1>8, BytesSame, ZenonT(30)
    <2>2. Content' = m
      BY <1>5, <1>10, <2>1, ContentAfter, ZenonT(30)
    <2> QED
      BY <1>6, <1>9, <1>10, <2>2, ZenonT(30) DEF MemoryLaw
  <1>11. CASE /\ access_list' = Append(Unlinked(list, k), k)
              /\ data' = [kept EXCEPT ![k] = [key |-> k, value |-> v]]
              /\ memory' = (MemoryAfter(n) - Used(Found(list, k))
                              + Used([key |-> k, value |-> v])) % Word
    <2>1. Listed(access_list') = (Listed(list) \ {k}) \cup {k}
      <3>1. Moved(list, k, access_list')
        BY <1>4, <1>11, MovedFacts, ZenonT(30)
      <3> QED
        BY <3>1 DEF Moved
    <2>2. PICK others : others = Listed(list) \ {k}
      BY ZenonT(30)
    <2>3. /\ others \subseteq Keys /\ IsFiniteSet(others) /\ others \cap {k} = {}
          /\ {k} \subseteq Keys /\ IsFiniteSet({k})
      BY <1>4, <1>6, <2>2, FS_RemoveElement, FS_Singleton, ZenonT(30)
    <2>4. PICK o : o = Cardinality(Bytes(data, others))
      BY ZenonT(30)
    <2>5. o \in Nat
      BY <1>1, <2>3, <2>4, BytesFinite, ZenonT(30)
    <2>6. PICK old : old = Size[Found(list, k).key] + Size[Found(list, k).value]
      BY ZenonT(30)
    <2>7. old \in Nat /\ m = o + old
      <3>1. CASE k \in Listed(list)
        <4>1. old = Held(data, k) /\ old \in Nat
          BY <1>1, <2>6, <3>1, HeldType, ZenonT(30) DEF Found, Held
        <4>2. Listed(list) = others \cup {k}
          BY <2>2, <3>1, ZenonT(30)
        <4>3. Cardinality(Bytes(data, others \cup {k})) = o + Cardinality(Bytes(data, {k}))
          BY <1>1, <2>3, <2>4, BytesAdd, ZenonT(30)
        <4> QED
          BY <1>1, <1>5, <4>1, <4>2, <4>3, BytesOfOne, ZenonT(30)
      <3>2. CASE k \notin Listed(list)
        <4>1. old = 0
          BY <2>6, <3>2, LruAssumption DEF Found, Fresh
        <4>2. m = o
          BY <1>5, <2>2, <2>4, <3>2, ZenonT(30)
        <4> QED
          BY <2>5, <4>1, <4>2
      <3> QED
        BY <3>1, <3>2
    <2>8. PICK new : new = Size[k] + Size[v]
      BY ZenonT(30)
    <2>9. new \in Nat
      BY <2>8, LruAssumption
    <2>10. data' \in [Keys -> [key : Keys \cup {NoKey}, value : Values]]
      <3>1. Fresh \in [key : Keys \cup {NoKey}, value : Values]
        BY LruAssumption DEF Fresh
      <3>2. [key |-> k, value |-> v] \in [key : Keys \cup {NoKey}, value : Values]
        OBVIOUS
      <3>3. kept \in [Keys -> [key : Keys \cup {NoKey}, value : Values]]
        BY <1>1, <1>7, <3>1, ZenonT(30)
      <3> QED
        BY <1>11, <3>2, <3>3, ZenonT(30)
    <2>11. data'[k] = [key |-> k, value |-> v] /\ \A x \in others : data'[x] = data[x]
      BY <1>4, <1>7, <1>8, <1>11, <2>2, ZenonT(30)
    <2>12. Content' = o + new
      <3>1. Cardinality(Bytes(data', others)) = o
        BY <2>4, <2>11, BytesSame, ZenonT(30)
      <3>2. Held(data', k) = new
        BY <2>8, <2>11 DEF Held
      <3>3. Cardinality(Bytes(data', others \cup {k})) = o + Cardinality(Bytes(data', {k}))
        BY <2>3, <2>10, <3>1, BytesAdd, ZenonT(30)
      <3> QED
        BY <2>1, <2>2, <2>10, <3>2, <3>3, BytesOfOne, ContentAfter, ZenonT(30)
    <2>13. PICK a \in Int : a = m - Overhead * (evicted + n)
      BY <1>1, <1>6
    <2>14. a % Word \in Int
      BY Remainder, WordPositive
    <2>15. MemoryAfter(n) - Used(Found(list, k)) + Used([key |-> k, value |-> v])
             = (a % Word) + (new - old)
      <3>1. Used(Found(list, k)) = old + Overhead
        BY <2>6, ZenonT(30) DEF Used
      <3>2. Used([key |-> k, value |-> v]) = new + Overhead
        BY <2>8 DEF Used
      <3>3. MemoryAfter(n) = a % Word
        BY <1>6, <2>13, ZenonT(30)
      <3> QED
        BY <1>1, <2>7, <2>9, <2>14, <3>1, <3>2, <3>3
    <2>16. memory' = (a + (new - old)) % Word
      <3>1. new - old \in Int
        BY <2>7, <2>9
      <3> QED
        BY <1>11, <2>15, <3>1, WrapOnce, ZenonT(30)
    <2>17. a + (new - old) = Content' - Overhead * evicted'
      BY <1>1, <1>9, <2>5, <2>7, <2>9, <2>12, <2>13
    <2> QED
      BY <2>16, <2>17, ZenonT(30) DEF MemoryLaw
  <1> QED
    BY <1>2, <1>7, <1>10, <1>11, ZenonT(30) DEF Replace, MoveToBack

\* Get changes neither the counter nor the content: what it inserts is empty.
LEMMA GetMemory ==
  ASSUME BucketInv, MemoryLaw, NEW k \in Keys, Get(k)
  PROVE  MemoryLaw'
  <1>1. /\ access_list \in Seq(Keys) /\ IsInjective(access_list)
        /\ \A x \in Keys : data[x] # Fresh => x \in Listed(access_list)
    BY DEF BucketInv, NodesInv
  <1>2. data' = data /\ memory' = memory /\ evicted' = evicted
    BY ZenonT(30) DEF Get
  <1>3. Bytes(data, Listed(access_list')) = Bytes(data, Listed(access_list))
    <2>1. CASE access_list' = access_list
      BY <2>1, ZenonT(30)
    <2>2. CASE access_list' = Append(Unlinked(access_list, k), k)
      <3>1. Listed(access_list') = Listed(access_list) \cup {k}
        <4>1. Moved(access_list, k, access_list')
          BY <1>1, <2>2, MovedFacts, ZenonT(30)
        <4> QED
          BY <4>1 DEF Moved
      <3>2. CASE k \in Listed(access_list)
        BY <3>1, <3>2, ZenonT(30)
      <3>3. CASE k \notin Listed(access_list)
        <4>1. Held(data, k) = 0
          BY <1>1, <3>3, LruAssumption DEF Held, Fresh
        <4>2. 1..Held(data, k) = {}
          BY <4>1
        <4>3. {k} \X (1..Held(data, k)) = {}
          BY <4>2
        <4>4. Bytes(data, Listed(access_list) \cup {k})
                = Bytes(data, Listed(access_list)) \cup ({k} \X (1..Held(data, k)))
          BY ZenonT(30) DEF Bytes, Held
        <4> QED
          BY <3>1, <4>3, <4>4, ZenonT(30)
      <3> QED
        BY <3>2, <3>3
    <2> QED
      BY <2>1, <2>2, ZenonT(30) DEF Get, MoveToBack
  <1>4. Content' = Content
    BY <1>2, <1>3, ContentAfter, ZenonT(30) DEF Content
  <1> QED
    BY <1>2, <1>4, ZenonT(30) DEF MemoryLaw

LEMMA InitMemory == Init => MemoryLaw
  <1> SUFFICES ASSUME Init PROVE MemoryLaw
    OBVIOUS
  <1>1. access_list = <<>> /\ memory = 0 /\ evicted = 0
    BY DEF Init
  <1>2. Listed(access_list) = {}
    BY <1>1 DEF Listed
  <1>3. Bytes(data, {}) = {}
    BY ZenonT(30) DEF Bytes
  <1>4. Content = 0
    BY <1>2, <1>3, FS_EmptySet, ZenonT(30) DEF Content
  <1>5. Overhead * 0 = 0 /\ 0 - 0 = 0 /\ 0 % Word = 0
    BY LruAssumption, WordPositive
  <1> QED
    BY <1>1, <1>4, <1>5, ZenonT(30) DEF MemoryLaw

\* Modulo its width, the counter of a Bucket is the content less Overhead for
\* every entry that DeleteStaleData ever deleted: for any keys, values, sizes and
\* thresholds, and however often it has wrapped.  It is the content alone only as
\* long as nothing was evicted.
THEOREM CounterLaw == Spec => []MemoryLaw
  <1>1. Init => MemoryLaw
    BY InitMemory
  <1>2. BucketInv /\ MemoryLaw /\ [Next]_vars => MemoryLaw'
    <2> SUFFICES ASSUME BucketInv, MemoryLaw, [Next]_vars PROVE MemoryLaw'
      OBVIOUS
    <2>1. CASE UNCHANGED vars
      <3>1. Content' = Content
        BY <2>1, ContentAfter, ZenonT(30) DEF vars, Content
      <3> QED
        BY <2>1, <3>1, ZenonT(30) DEF vars, MemoryLaw
    <2>2. CASE Next
      BY <2>2, Steps, GetMemory, ReplaceMemory, ZenonT(30)
    <2> QED
      BY <2>1, <2>2
  <1> QED
    BY <1>1, <1>2, BucketInvariant, PTL DEF Spec
=============================================================================
