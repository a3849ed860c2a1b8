---------------------------- MODULE RouterProofs ----------------------------
(***************************************************************************)
(* Proofs about MemcacheRouter, first part: what the place of a request    *)
(* tells of it, how a step keeps or changes the place, the steps that move *)
(* nothing or move a packet out of the queue, and those that bring a       *)
(* request into the router.                                                *)
(***************************************************************************)
EXTENDS MemcacheRouter, TLAPS

USE SMTT(30), SMTT(20), SMTT(10) DEF clientVars, socketVars, mainVars, listVars, workerVars, queueVars

\* The members of a sequence.
LEMMA Members ==
  ASSUME NEW S, NEW s \in Seq(S)
  PROVE  /\ Range(s) \subseteq S /\ DOMAIN s = 1..Len(s) /\ Len(s) \in Nat
         /\ \A i \in 1..Len(s) : s[i] \in Range(s)
         /\ \A x \in Range(s) : \E i \in 1..Len(s) : s[i] = x
  <1>1. DOMAIN s = 1..Len(s) /\ Len(s) \in Nat /\ \A i \in 1..Len(s) : s[i] \in S
    OBVIOUS
  <1> QED
    BY <1>1 DEF Range

LEMMA EmptyIff ==
  ASSUME NEW S, NEW s \in Seq(S)
  PROVE  s = <<>> <=> Len(s) = 0
  OBVIOUS

\* A sequence without duplicates that loses its first element.
LEMMA Taken ==
  ASSUME NEW S, NEW s \in Seq(S), s # <<>>
  PROVE  /\ Head(s) \in S /\ Head(s) \in Range(s) /\ Tail(s) \in Seq(S)
         /\ IsInjective(s) => /\ IsInjective(Tail(s))
                              /\ Range(Tail(s)) = Range(s) \ {Head(s)}
  <1>1. /\ Head(s) \in S /\ Tail(s) \in Seq(S) /\ Len(Tail(s)) = Len(s) - 1
        /\ Len(s) \in Nat \ {0} /\ Head(s) = s[1] /\ DOMAIN s = 1..Len(s)
        /\ DOMAIN Tail(s) = 1..(Len(s) - 1)
    OBVIOUS
  <1>2. \A i \in 1..(Len(s) - 1) : Tail(s)[i] = s[i + 1] /\ i + 1 \in 1..Len(s) /\ i + 1 # 1
    BY <1>1
  <1>3. \A j \in 1..Len(s) : j # 1 => j - 1 \in 1..(Len(s) - 1) /\ Tail(s)[j - 1] = s[j]
    BY <1>1, <1>2
  <1>4. 1 \in 1..Len(s)
    BY <1>1
  <1>5. Head(s) \in Range(s)
    BY <1>1, <1>4 DEF Range
  <1>6. ASSUME IsInjective(s)
        PROVE  IsInjective(Tail(s)) /\ Range(Tail(s)) = Range(s) \ {Head(s)}
    <2>1. IsInjective(Tail(s))
      <3> SUFFICES ASSUME NEW i \in 1..(Len(s) - 1), NEW j \in 1..(Len(s) - 1),
                          Tail(s)[i] = Tail(s)[j]
                   PROVE  i = j
        BY <1>1 DEF IsInjective
      <3>1. i + 1 = j + 1
        BY <1>1, <1>2, <1>6 DEF IsInjective
      <3> QED
        BY <3>1
    <2>2. \A x \in Range(Tail(s)) : x \in Range(s) /\ x # Head(s)
      BY <1>1, <1>2, <1>4, <1>6 DEF Range, IsInjective
    <2>3. \A i \in 1..(Len(s) - 1) : Tail(s)[i] \in Range(Tail(s))
      BY <1>1 DEF Range
    <2>4. \A j \in 1..Len(s) : j # 1 => s[j] \in Range(Tail(s))
      BY <1>3, <2>3
    <2>5. \A x \in Range(s) : x # Head(s) => x \in Range(Tail(s))
      BY <1>1, <2>4 DEF Range
    <2> QED
      BY <2>1, <2>2, <2>5
  <1> QED
    BY <1>1, <1>5, <1>6

\* A sequence that gets an element it did not have.
LEMMA Added ==
  ASSUME NEW S, NEW s \in Seq(S), NEW x \in S
  PROVE  /\ Append(s, x) \in Seq(S) /\ Append(s, x) # <<>>
         /\ Range(Append(s, x)) = Range(s) \cup {x}
         /\ IsInjective(s) /\ x \notin Range(s) => IsInjective(Append(s, x))
  <1>1. /\ Append(s, x) \in Seq(S) /\ Len(Append(s, x)) = Len(s) + 1 /\ Len(s) \in Nat
        /\ \A i \in 1..Len(s) : Append(s, x)[i] = s[i]
        /\ Append(s, x)[Len(s) + 1] = x
        /\ DOMAIN Append(s, x) = 1..(Len(s) + 1) /\ DOMAIN s = 1..Len(s)
    OBVIOUS
  <1>2. \A i \in 1..(Len(s) + 1) : i \in 1..Len(s) \/ i = Len(s) + 1
    BY <1>1
  <1>3. \A i \in 1..Len(s) : i \in 1..(Len(s) + 1) /\ i # Len(s) + 1
    BY <1>1
  <1>4. Len(s) + 1 \in 1..(Len(s) + 1)
    BY <1>1
  <1>5. Range(Append(s, x)) = Range(s) \cup {x}
    BY <1>1, <1>2, <1>3, <1>4 DEF Range
  <1>6. IsInjective(s) /\ x \notin Range(s) => IsInjective(Append(s, x))
    BY <1>1, <1>2, <1>3 DEF Range, IsInjective
  <1> QED
    BY <1>1, <1>5, <1>6

\* A sequence without duplicates that loses some element.
LEMMA CutOut ==
  ASSUME NEW S, NEW s \in Seq(S), NEW i \in 1..Len(s), IsInjective(s)
  PROVE  /\ s[i] \in S /\ s[i] \in Range(s) /\ Without(s, i) \in Seq(S)
         /\ IsInjective(Without(s, i)) /\ Range(Without(s, i)) = Range(s) \ {s[i]}
  <1> DEFINE n == Len(s) - 1
             f == [j \in 1..n |-> IF j < i THEN s[j] ELSE s[j + 1]]
  <1>1. Len(s) \in Nat \ {0} /\ n \in Nat /\ DOMAIN s = 1..Len(s) /\ i \in Nat /\ i <= Len(s)
    OBVIOUS
  <1>2. \A j \in 1..n : /\ j < i => f[j] = s[j] /\ j \in 1..Len(s) /\ j # i
                        /\ ~(j < i) => f[j] = s[j + 1] /\ j + 1 \in 1..Len(s) /\ j + 1 # i
    BY <1>1
  <1>3. f \in Seq(S) /\ DOMAIN f = 1..n
    <2>1. \A j \in 1..n : f[j] \in S
      BY <1>1, <1>2
    <2> QED
      BY <1>1, <2>1
  <1>4. \A j \in 1..Len(s) : /\ j < i => j \in 1..n
                             /\ j > i => j - 1 \in 1..n /\ ~(j - 1 < i) /\ (j - 1) + 1 = j
                             /\ j # i => j < i \/ j > i
    BY <1>1
  <1> HIDE DEF f
  <1>5. IsInjective(f)
    <2> SUFFICES ASSUME NEW j \in 1..n, NEW k \in 1..n, f[j] = f[k]
                 PROVE  j = k
      BY <1>3 DEF IsInjective
    <2>1. CASE j < i /\ k < i
      BY <1>1, <1>2, <2>1 DEF IsInjective
    <2>2. CASE ~(j < i) /\ ~(k < i)
      <3>1. j + 1 = k + 1
        BY <1>1, <1>2, <2>2 DEF IsInjective
      <3> QED
        BY <3>1
    <2>3. CASE j < i /\ ~(k < i)
      <3>1. j = k + 1
        BY <1>1, <1>2, <2>3 DEF IsInjective
      <3> QED
        BY <1>1, <2>3, <3>1
    <2>4. CASE ~(j < i) /\ k < i
      <3>1. j + 1 = k
        BY <1>1, <1>2, <2>4 DEF IsInjective
      <3> QED
        BY <1>1, <2>4, <3>1
    <2> QED
      BY <2>1, <2>2, <2>3, <2>4
  <1>6. Range(f) = Range(s) \ {s[i]}
    <2>1. \A j \in 1..n : f[j] \in Range(s) /\ f[j] # s[i]
      BY <1>1, <1>2 DEF Range, IsInjective
    <2>2. \A j \in 1..n : f[j] \in Range(f)
      BY <1>3 DEF Range
    <2>3. \A j \in 1..Len(s) : j # i => s[j] \in Range(f)
      <3> SUFFICES ASSUME NEW j \in 1..Len(s), j # i
                   PROVE  s[j] \in Range(f)
        OBVIOUS
      <3>1. CASE j < i
        BY <1>2, <1>4, <2>2, <3>1
      <3>2. CASE j > i
        BY <1>2, <1>4, <2>2, <3>2, ZenonT(30)
      <3> QED
        BY <1>4, <3>1, <3>2
    <2> QED
      BY <1>1, <1>3, <2>1, <2>3 DEF Range
  <1>7. f = Without(s, i)
    BY DEF f, Without
  <1>8. s[i] \in S /\ s[i] \in Range(s)
    BY <1>1 DEF Range
  <1> QED
    BY <1>3, <1>5, <1>6, <1>7, <1>8
-----------------------------------------------------------------------------
(***************************************************************************)
(* Where a request is.  Nowhere stands for the place of a request that the *)
(* router does not have.                                                   *)
(***************************************************************************)
Nowhere == <<"nowhere", 0>>

\* Request r is in place p and in no other.
At(r, p) ==
  /\ r \in router_ <=> p = <<"router_", 0>>
  /\ r \in Range(async_) <=> p = <<"async_", 0>>
  /\ r = cur <=> p = <<"cur", 0>>
  /\ r \in Range(packets_) <=> p = <<"packets_", 0>>
  /\ \A w \in Workers : /\ r \in Range(batch[w]) <=> p = <<"batch", w>>
                        /\ r \in Range(get_packets[w]) <=> p = <<"get_packets", w>>
                        /\ r \in Range(sending[w]) <=> p = <<"sending", w>>
  /\ \A i \in 1..Len(worker_output_) :
       r \in Range(worker_output_[i]) <=> p = <<"worker_output_", i>>

\* A step leaves request r where it is: with main or in the queue, with a
\* worker, or in a socket of a worker.
MainStays(r) ==
  /\ r \in router_' <=> r \in router_
  /\ r \in Range(async_') <=> r \in Range(async_)
  /\ r = cur' <=> r = cur
  /\ r \in Range(packets_') <=> r \in Range(packets_)

WorkersStay(r) ==
  \A w \in Workers : /\ r \in Range(batch'[w]) <=> r \in Range(batch[w])
                     /\ r \in Range(get_packets'[w]) <=> r \in Range(get_packets[w])
                     /\ r \in Range(sending'[w]) <=> r \in Range(sending[w])

SocketsStay(r) ==
  /\ Len(worker_output_) \in Nat /\ Len(worker_output_') \in Nat
  /\ Len(worker_output_') >= Len(worker_output_)
  /\ \A i \in 1..Len(worker_output_') :
       r \in Range(worker_output_'[i])
         <=> i \in 1..Len(worker_output_) /\ r \in Range(worker_output_[i])

Stays(r) == MainStays(r) /\ WorkersStay(r) /\ SocketsStay(r)

\* The places, by name.
LEMMA PlaceNames ==
  ASSUME NEW p \in Places
  PROVE  \/ p = <<"router_", 0>>
         \/ p = <<"async_", 0>>
         \/ p = <<"cur", 0>>
         \/ p = <<"packets_", 0>>
         \/ \E w \in Workers : p = <<"batch", w>>
         \/ \E w \in Workers : p = <<"get_packets", w>>
         \/ \E w \in Workers : p = <<"sending", w>>
         \/ \E i \in 1..Len(worker_output_) : p = <<"worker_output_", i>>
  BY DEF Places

LEMMA NamedPlaces ==
  /\ <<"router_", 0>> \in Places /\ <<"async_", 0>> \in Places
  /\ <<"cur", 0>> \in Places /\ <<"packets_", 0>> \in Places
  /\ \A w \in Workers : /\ <<"batch", w>> \in Places
                        /\ <<"get_packets", w>> \in Places
                        /\ <<"sending", w>> \in Places
  /\ \A i \in 1..Len(worker_output_) : <<"worker_output_", i>> \in Places
  BY DEF Places

\* Who is in a place by its name.
LEMMA HasNames ==
  ASSUME NEW r
  PROVE  /\ Has(<<"router_", 0>>, r) <=> r \in router_
         /\ Has(<<"async_", 0>>, r) <=> r \in Range(async_)
         /\ Has(<<"cur", 0>>, r) <=> r = cur
         /\ Has(<<"packets_", 0>>, r) <=> r \in Range(packets_)
         /\ \A w : Has(<<"batch", w>>, r) <=> r \in Range(batch[w])
         /\ \A w : Has(<<"get_packets", w>>, r) <=> r \in Range(get_packets[w])
         /\ \A w : Has(<<"sending", w>>, r) <=> r \in Range(sending[w])
         /\ \A i : Has(<<"worker_output_", i>>, r) <=> r \in Range(worker_output_[i])
  BY DEF Has

LEMMA SameMain ==
  ASSUME UNCHANGED <<router_, async_, cur, packets_>>, NEW r
  PROVE  MainStays(r)
  BY DEF MainStays

LEMMA SameWorkers ==
  ASSUME UNCHANGED <<batch, get_packets, sending>>, NEW r
  PROVE  WorkersStay(r)
  BY DEF WorkersStay

LEMMA SameSockets ==
  ASSUME Len(worker_output_) \in Nat, worker_output_' = worker_output_, NEW r
  PROVE  SocketsStay(r)
  BY DEF SocketsStay

LEMMA NotNone ==
  ASSUME NEW r \in Requests
  PROVE  r # NoRequest
  BY RouterAssumption

\* A request whose only place is p, and one without a place.
LEMMA AtPlace ==
  ASSUME NEW r, NEW p \in Places, Where(r) = {p}
  PROVE  At(r, p) /\ Has(p, r)
  <1>1. \A q \in Places : Has(q, r) <=> q = p
    BY DEF Where
  <1>2. At(r, p)
    BY <1>1, NamedPlaces, HasNames, ZenonT(30) DEF At
  <1> QED
    BY <1>1, <1>2

LEMMA AtNowhere ==
  ASSUME NEW r, Where(r) = {}
  PROVE  At(r, Nowhere)
  <1>1. \A q \in Places : ~Has(q, r)
    BY DEF Where
  <1> QED
    BY <1>1, NamedPlaces, HasNames, ZenonT(30) DEF At, Nowhere

\* The same, read the other way round after a step.
LEMMA PlaceAt ==
  ASSUME NEW r, NEW p, At(r, p)', p \in Places'
  PROVE  Where(r)' = {p}
  <1> SUFFICES ASSUME NEW q \in Places'
               PROVE  Has(q, r)' <=> q = p
    BY DEF Where
  <1> USE DEF At, Has
  <1>1. CASE q = <<"router_", 0>>
    BY <1>1
  <1>2. CASE q = <<"async_", 0>>
    BY <1>2
  <1>3. CASE q = <<"cur", 0>>
    BY <1>3
  <1>4. CASE q = <<"packets_", 0>>
    BY <1>4
  <1>5. CASE \E w \in Workers : q = <<"batch", w>>
    BY <1>5
  <1>6. CASE \E w \in Workers : q = <<"get_packets", w>>
    BY <1>6
  <1>7. CASE \E w \in Workers : q = <<"sending", w>>
    BY <1>7
  <1>8. CASE \E i \in 1..Len(worker_output_') : q = <<"worker_output_", i>>
    BY <1>8
  <1> QED
    BY <1>1, <1>2, <1>3, <1>4, <1>5, <1>6, <1>7, <1>8 DEF Places

LEMMA NoPlaceAt ==
  ASSUME NEW r, At(r, Nowhere)'
  PROVE  Where(r)' = {}
  <1> SUFFICES ASSUME NEW q \in Places'
               PROVE  ~Has(q, r)'
    BY DEF Where
  <1> USE DEF At, Has, Nowhere
  <1>1. CASE q = <<"router_", 0>>
    BY <1>1
  <1>2. CASE q = <<"async_", 0>>
    BY <1>2
  <1>3. CASE q = <<"cur", 0>>
    BY <1>3
  <1>4. CASE q = <<"packets_", 0>>
    BY <1>4
  <1>5. CASE \E w \in Workers : q = <<"batch", w>>
    BY <1>5
  <1>6. CASE \E w \in Workers : q = <<"get_packets", w>>
    BY <1>6
  <1>7. CASE \E w \in Workers : q = <<"sending", w>>
    BY <1>7
  <1>8. CASE \E i \in 1..Len(worker_output_') : q = <<"worker_output_", i>>
    BY <1>8
  <1> QED
    BY <1>1, <1>2, <1>3, <1>4, <1>5, <1>6, <1>7, <1>8, ZenonT(30) DEF Places

\* A request that stays is where it was; sockets that are opened have nothing.
LEMMA StaysAt ==
  ASSUME NEW r, NEW p \in Places \cup {Nowhere}, At(r, p), Stays(r)
  PROVE  At(r, p)'
  <1>1. \A i \in 1..Len(worker_output_') :
          p = <<"worker_output_", i>> => i \in 1..Len(worker_output_)
    <2>1. CASE p = Nowhere
      BY <2>1 DEF Nowhere
    <2>2. CASE p \in Places
      BY <2>2 DEF Places
    <2> QED
      BY <2>1, <2>2
  <1>2. \A i \in 1..Len(worker_output_') :
          r \in Range(worker_output_'[i]) <=> p = <<"worker_output_", i>>
    BY <1>1 DEF At, Stays, SocketsStay
  <1> QED
    BY <1>2 DEF At, Stays, MainStays, WorkersStay

LEMMA PlacesGrow ==
  ASSUME NEW p \in Places, Len(worker_output_') >= Len(worker_output_),
         Len(worker_output_) \in Nat, Len(worker_output_') \in Nat
  PROVE  p \in Places'
  <1>1. \A i \in 1..Len(worker_output_) : i \in 1..Len(worker_output_')
    OBVIOUS
  <1> QED
    BY <1>1 DEF Places

\* Where a request is found tells all about it.
LEMMA Located ==
  ASSUME RouterInv, NEW r \in Requests, NEW p \in Places, Has(p, r)
  PROVE  At(r, p) /\ Stage(p[1], r) /\ r \in sent
  <1>1. Fate(r) /\ p \in Where(r)
    BY DEF RouterInv, Where
  <1>2. PICK q \in Places : Where(r) = {q} /\ Stage(q[1], r) /\ r \in sent
    BY <1>1 DEF Fate
  <1>3. q = p
    BY <1>1, <1>2
  <1> QED
    BY <1>2, <1>3, AtPlace

\* The ways in which a step keeps the fate of a request.
LEMMA FateKept ==
  ASSUME NEW r \in Requests, Fate(r), Stays(r), r \in sent' <=> r \in sent,
         executed'[r] = executed[r], replies'[r] = replies[r],
         r = cur => (main' = "push" <=> main = "push")
  PROVE  Fate(r)'
  <1>1. CASE Where(r) = {}
    <2>1. Where(r)' = {}
      BY <1>1, AtNowhere, StaysAt, NoPlaceAt
    <2> QED
      BY <1>1, <2>1 DEF Fate, Fresh, Settled
  <1>2. CASE r \in sent /\ \E p \in Places : Where(r) = {p} /\ Stage(p[1], r)
    <2>1. PICK p \in Places : Where(r) = {p} /\ Stage(p[1], r)
      BY <1>2
    <2>2. At(r, p) /\ Has(p, r)
      BY <2>1, AtPlace
    <2>3. p \in Places'
      BY PlacesGrow DEF Stays, SocketsStay
    <2>4. Where(r)' = {p}
      BY <2>2, <2>3, StaysAt, PlaceAt
    <2>5. Stage(p[1], r)'
      <3>1. p[1] = "cur" => r = cur
        BY <2>2 DEF Has
      <3> QED
        BY <2>1, <3>1 DEF Stage, Queued, Fresh
    <2> QED
      BY <1>2, <2>3, <2>4, <2>5 DEF Fate
  <1> QED
    BY <1>1, <1>2 DEF Fate

LEMMA FateMoved ==
  ASSUME NEW r, NEW p, p \in Places', At(r, p)', r \in sent', Stage(p[1], r)'
  PROVE  Fate(r)'
  BY PlaceAt DEF Fate

LEMMA FateSettled ==
  ASSUME NEW r, At(r, Nowhere)', r \in sent', Settled(r)'
  PROVE  Fate(r)'
  BY NoPlaceAt DEF Fate
-----------------------------------------------------------------------------
(***************************************************************************)
(* Steps that move no request.                                             *)
(***************************************************************************)
LEMMA SocketCount ==
  ASSUME TypeOK
  PROVE  Len(worker_output_) \in Nat
  BY DEF TypeOK

LEMMA Quiet ==
  ASSUME RouterInv,
         UNCHANGED <<sent, replies, socketVars, cur, get_packets, sending,
                     executed, packets_, batch>>,
         cur \in Requests => (main' = "push" <=> main = "push")
  PROVE  NoDuplicates' /\ \A r \in Requests : Fate(r)'
  <1>1. NoDuplicates'
    BY DEF RouterInv, NoDuplicates
  <1>2. Len(worker_output_) \in Nat /\ Len(worker_output_') \in Nat
    BY DEF RouterInv, TypeOK
  <1>3. ASSUME NEW r \in Requests PROVE Fate(r)'
    <2>1. Stays(r)
      <3>1. MainStays(r)
        BY SameMain
      <3>2. WorkersStay(r)
        BY SameWorkers
      <3>3. SocketsStay(r)
        BY <1>2, SameSockets
      <3> QED
        BY <3>1, <3>2, <3>3 DEF Stays
    <2>2. Fate(r)
      BY DEF RouterInv
    <2> QED
      BY <2>1, <2>2, FateKept
  <1> QED
    BY <1>1, <1>3

\* Steps of the queue that move no packet.
LEMMA QueueQuiet ==
  ASSUME RouterInv,
         UNCHANGED <<clientVars, socketVars, mainVars, listVars, aborted, workerVars,
                     packets_, batch>>,
         m_' \in Workers \cup {NoThread}, queue_done_' \in BOOLEAN,
         pop_pc' \in [Workers -> Queue!Labels], num_get_keys' \in [Workers -> Nat]
  PROVE  RouterInv'
  <1>1. NoDuplicates' /\ \A r \in Requests : Fate(r)'
    BY Quiet
  <1>2. TypeOK'
    BY ZenonT(30) DEF RouterInv, TypeOK
  <1>3. MainInv' /\ WorkerInv'
    BY DEF RouterInv, MainInv, WorkerInv
  <1> QED
    BY <1>1, <1>2, <1>3 DEF RouterInv

LEMMA AcquireInv ==
  ASSUME RouterInv, NEW w \in Workers, Acquire(w)
  PROVE  RouterInv'
  <1>1. TypeOK
    BY DEF RouterInv
  <1>2. /\ m_' = w /\ pop_pc' = [pop_pc EXCEPT ![w] = "test"]
        /\ UNCHANGED <<packets_, queue_done_, batch, num_get_keys>>
    BY DEF Acquire, Queue!Acquire, Queue!Goto
  <1>3. pop_pc' \in [Workers -> Queue!Labels]
    BY <1>1, <1>2 DEF TypeOK, Queue!Labels
  <1> QED
    BY <1>1, <1>2, <1>3, QueueQuiet DEF Acquire, TypeOK

LEMMA SpuriousWakeInv ==
  ASSUME RouterInv, NEW w \in Workers, SpuriousWake(w)
  PROVE  RouterInv'
  <1>1. TypeOK
    BY DEF RouterInv
  <1>2. /\ pop_pc' = [pop_pc EXCEPT ![w] = "wake"]
        /\ UNCHANGED <<m_, packets_, queue_done_, batch, num_get_keys>>
    BY DEF SpuriousWake, Queue!SpuriousWake, Queue!Goto
  <1>3. pop_pc' \in [Workers -> Queue!Labels]
    BY <1>1, <1>2 DEF TypeOK, Queue!Labels
  <1> QED
    BY <1>1, <1>2, <1>3, QueueQuiet DEF SpuriousWake, TypeOK

\* Poll, SetDone, UnblockAll and NotifyAll change main's own state, the flags
\* and who is awake.
LEMMA MainQuiet ==
  ASSUME RouterInv,
         UNCHANGED <<clientVars, socketVars, cur, server_list_, list_locked, aborted,
                     workerVars, m_, packets_, batch, num_get_keys>>,
         main' \in MainLabels, revents' \subseteq {"router_", "async_", "worker_output_"},
         done_' \in BOOLEAN, queue_done_' \in BOOLEAN,
         pop_pc' \in [Workers -> Queue!Labels],
         \/ main = "poll" /\ ~aborted /\ main' \in {"poll", "item0", "item1", "item2"}
         \/ list_locked /\ main' \in {"unblock", "notify", "join"}
  PROVE  RouterInv'
  <1>1. cur \in Requests => (main' = "push" <=> main = "push")
    BY RouterAssumption DEF RouterInv, MainInv
  <1>2. NoDuplicates' /\ \A r \in Requests : Fate(r)'
    BY <1>1, Quiet
  <1>3. TypeOK'
    BY ZenonT(30) DEF RouterInv, TypeOK
  <1>4. MainInv'
    BY DEF RouterInv, MainInv
  <1>5. WorkerInv'
    BY DEF RouterInv, WorkerInv
  <1> QED
    BY <1>2, <1>3, <1>4, <1>5 DEF RouterInv

LEMMA NextItemType ==
  ASSUME NEW due
  PROVE  NextItem(due) \in {"poll", "item0", "item1", "item2"}
  BY DEF NextItem

LEMMA PollInv ==
  ASSUME RouterInv, ~aborted, Poll
  PROVE  RouterInv'
  <1>1. main' \in {"poll", "item0", "item1", "item2"}
    BY NextItemType DEF Poll
  <1>2. revents' \subseteq {"router_", "async_", "worker_output_"}
    BY DEF Poll, Readable
  <1> QED
    BY <1>1, <1>2, MainQuiet, ZenonT(30) DEF Poll, RouterInv, TypeOK, MainLabels

LEMMA SetDoneInv ==
  ASSUME RouterInv, SetDone
  PROVE  RouterInv'
  <1>1. list_locked
    BY DEF SetDone, RouterInv, MainInv
  <1> QED
    BY <1>1, MainQuiet, ZenonT(30) DEF SetDone, RouterInv, TypeOK, MainLabels

LEMMA UnblockAllInv ==
  ASSUME RouterInv, UnblockAll
  PROVE  RouterInv'
  <1>1. list_locked
    BY DEF UnblockAll, RouterInv, MainInv
  <1>2. queue_done_' = TRUE /\ UNCHANGED <<m_, packets_, pop_pc, batch, num_get_keys>>
    BY DEF UnblockAll, Queue!SetDone
  <1> QED
    BY <1>1, <1>2, MainQuiet, ZenonT(30) DEF UnblockAll, RouterInv, TypeOK, MainLabels

LEMMA NotifyAllInv ==
  ASSUME RouterInv, NotifyAll
  PROVE  RouterInv'
  <1>1. list_locked /\ TypeOK
    BY DEF NotifyAll, RouterInv, MainInv
  <1>2. /\ pop_pc' = [t \in Workers |-> IF pop_pc[t] = "wait" THEN "wake" ELSE pop_pc[t]]
        /\ UNCHANGED <<m_, packets_, queue_done_, batch, num_get_keys>>
    BY DEF NotifyAll, Queue!NotifyAll
  <1>3. pop_pc' \in [Workers -> Queue!Labels]
    BY <1>1, <1>2 DEF TypeOK, Queue!Labels
  <1> QED
    BY <1>1, <1>2, <1>3, MainQuiet DEF NotifyAll, TypeOK, MainLabels
-----------------------------------------------------------------------------
(***************************************************************************)
(* BlockingPop: the packet at the front goes into the batch of a worker.   *)
(***************************************************************************)
LEMMA PopMove ==
  ASSUME RouterInv, NEW w \in Workers, packets_ # <<>>,
         packets_' = Tail(packets_),
         batch' = [batch EXCEPT ![w] = Append(@, Head(packets_))],
         UNCHANGED <<clientVars, socketVars, mainVars, listVars, aborted, workerVars,
                     m_, queue_done_>>,
         pop_pc' \in [Workers -> Queue!Labels], num_get_keys' \in [Workers -> Nat]
  PROVE  RouterInv'
  <1> DEFINE p == <<"packets_", 0>>
             q == <<"batch", w>>
  <1>0. PICK x : x = Head(packets_)
    OBVIOUS
  <1>1. TypeOK /\ NoDuplicates /\ IsInjective(packets_)
    BY DEF RouterInv, NoDuplicates
  <1>2. /\ packets_ \in Seq(Requests) /\ batch \in [Workers -> Seq(Requests)]
        /\ Len(worker_output_) \in Nat
    BY <1>1, SocketCount, ZenonT(30) DEF TypeOK
  <1>3. /\ x \in Requests /\ x \in Range(packets_)
        /\ packets_' \in Seq(Requests) /\ IsInjective(packets_')
        /\ Range(packets_') = Range(packets_) \ {x}
    BY <1>0, <1>1, <1>2, Taken
  <1>4. At(x, p) /\ Queued(x) /\ x \in sent
    <2>1. p \in Places /\ Has(p, x)
      BY <1>3, NamedPlaces, HasNames
    <2>2. p[1] = "packets_"
      OBVIOUS
    <2> QED
      BY <1>3, <2>1, <2>2, Located, ZenonT(30) DEF Stage
  <1>5. /\ batch'[w] = Append(batch[w], x)
        /\ \A v \in Workers \ {w} : batch'[v] = batch[v]
        /\ batch[w] \in Seq(Requests) /\ IsInjective(batch[w]) /\ x \notin Range(batch[w])
    BY <1>0, <1>1, <1>2, <1>4, ZenonT(30) DEF NoDuplicates, At
  <1>6. /\ batch'[w] \in Seq(Requests) /\ IsInjective(batch'[w])
        /\ Range(batch'[w]) = Range(batch[w]) \cup {x}
    BY <1>3, <1>5, Added
  <1>7. TypeOK'
    <2>1. batch' \in [Workers -> Seq(Requests)]
      BY <1>2, <1>5, <1>6
    <2> QED
      BY <1>1, <1>3, <2>1, ZenonT(30) DEF TypeOK
  <1>8. MainInv' /\ WorkerInv'
    BY DEF RouterInv, MainInv, WorkerInv
  <1>9. NoDuplicates'
    BY <1>1, <1>3, <1>5, <1>6, ZenonT(30) DEF NoDuplicates
  <1>10. ASSUME NEW r \in Requests, r # x PROVE Fate(r)'
    <2>1. Stays(r)
      <3>1. MainStays(r)
        BY <1>3, <1>10 DEF MainStays
      <3>2. WorkersStay(r)
        BY <1>5, <1>6, <1>10 DEF WorkersStay
      <3>3. SocketsStay(r)
        BY <1>2, SameSockets
      <3> QED
        BY <3>1, <3>2, <3>3 DEF Stays
    <2>2. Fate(r)
      BY DEF RouterInv
    <2>3. /\ r \in sent' <=> r \in sent
          /\ executed'[r] = executed[r] /\ replies'[r] = replies[r]
          /\ r = cur => (main' = "push" <=> main = "push")
      OBVIOUS
    <2> QED
      BY <2>1, <2>2, <2>3, FateKept, ZenonT(30)
  <1>11. Fate(x)'
    <2>1. At(x, q)'
      BY <1>3, <1>4, <1>5, <1>6, ZenonT(30) DEF At
    <2>2. q \in Places' /\ q[1] = "batch"
      BY DEF Places
    <2>3. Stage("batch", x)'
      BY <1>4, ZenonT(30) DEF Stage, Queued
    <2> QED
      BY <1>4, <2>1, <2>2, <2>3, FateMoved
  <1> QED
    BY <1>7, <1>8, <1>9, <1>10, <1>11 DEF RouterInv

LEMMA PopStepInv ==
  ASSUME RouterInv, NEW w \in Workers, PopStep(w)
  PROVE  RouterInv'
  <1>1. TypeOK
    BY DEF RouterInv
  <1>2. UNCHANGED <<clientVars, socketVars, mainVars, listVars, aborted, workerVars>>
    BY DEF PopStep
  <1>3. /\ "sleep" \in Queue!Labels /\ "check" \in Queue!Labels /\ "wait" \in Queue!Labels
        /\ "out" \in Queue!Labels /\ "pop" \in Queue!Labels /\ "popped" \in Queue!Labels
        /\ "wake" \in Queue!Labels
    BY DEF Queue!Labels
  <1>4. \A l \in Queue!Labels : [pop_pc EXCEPT ![w] = l] \in [Workers -> Queue!Labels]
    BY <1>1 DEF TypeOK
  <1>5. CASE Queue!Test(w)
    <2>1. pop_pc' \in [Workers -> Queue!Labels]
      BY <1>3, <1>4, <1>5 DEF Queue!Test, Queue!Goto
    <2> QED
      BY <1>1, <1>2, <1>5, <2>1, QueueQuiet DEF Queue!Test, TypeOK
  <1>6. CASE Queue!Sleep(w)
    <2>1. pop_pc' \in [Workers -> Queue!Labels]
      BY <1>3, <1>4, <1>6 DEF Queue!Sleep, Queue!Goto
    <2> QED
      BY <1>1, <1>2, <1>6, <2>1, QueueQuiet DEF Queue!Sleep, TypeOK
  <1>7. CASE Queue!CheckDone(w)
    <2>1. pop_pc' \in [Workers -> Queue!Labels]
      BY <1>3, <1>4, <1>7 DEF Queue!CheckDone, Queue!Goto
    <2> QED
      BY <1>1, <1>2, <1>7, <2>1, QueueQuiet DEF Queue!CheckDone, TypeOK
  <1>8. CASE Queue!PopOther(w)
    <2>1. pop_pc' \in [Workers -> Queue!Labels]
      BY <1>3, <1>4, <1>8 DEF Queue!PopOther, Queue!Goto
    <2>2. CASE num_get_keys[w] = 0
      BY <1>1, <1>2, <1>8, <2>1, <2>2, PopMove, ZenonT(30) DEF Queue!PopOther, TypeOK
    <2>3. CASE num_get_keys[w] # 0
      BY <1>1, <1>2, <1>8, <2>1, <2>3, QueueQuiet DEF Queue!PopOther, TypeOK
    <2> QED
      BY <2>2, <2>3
  <1>9. CASE Queue!PopGet(w)
    <2>1. /\ packets_ # <<>> /\ packets_' = Tail(packets_)
          /\ batch' = [batch EXCEPT ![w] = Append(@, Head(packets_))]
          /\ num_get_keys' = [num_get_keys EXCEPT ![w] = @ + NumKeys[Head(packets_)]]
          /\ UNCHANGED <<m_, queue_done_, pop_pc>>
      BY <1>9 DEF Queue!PopGet
    <2>2. Head(packets_) \in Requests
      BY <1>1, <2>1, Taken DEF TypeOK
    <2>3. NumKeys[Head(packets_)] \in Nat
      BY <2>2, RouterAssumption
    <2>4. num_get_keys' \in [Workers -> Nat]
      <3>1. num_get_keys \in [Workers -> Nat]
        BY <1>1 DEF TypeOK
      <3>2. num_get_keys[w] + NumKeys[Head(packets_)] \in Nat
        BY <2>3, <3>1
      <3> QED
        BY <2>1, <3>1, <3>2
    <2> QED
      BY <1>1, <1>2, <2>1, <2>4, PopMove, ZenonT(30) DEF TypeOK
  <1>10. CASE Queue!FinishPop(w)
    <2>1. pop_pc' \in [Workers -> Queue!Labels]
      <3>1. CASE pop_pc' = [pop_pc EXCEPT ![w] = "out"]
        BY <1>3, <1>4, <3>1
      <3>2. CASE \E v \in Workers : pop_pc' = [pop_pc EXCEPT ![v] = "wake", ![w] = "out"]
        BY <1>1, <1>3, <3>2, ZenonT(30) DEF TypeOK
      <3> QED
        BY <1>10, <3>1, <3>2 DEF Queue!FinishPop, Queue!NotifyOneAndGoto, Queue!Goto,
           Queue!waiters
    <2>2. num_get_keys' \in [Workers -> Nat]
      BY <1>1, <1>10 DEF Queue!FinishPop, TypeOK
    <2> QED
      BY <1>1, <1>2, <1>10, <2>1, <2>2, QueueQuiet DEF Queue!FinishPop, TypeOK
  <1> QED
    BY <1>5, <1>6, <1>7, <1>8, <1>9, <1>10 DEF PopStep, Queue!Step
-----------------------------------------------------------------------------
(***************************************************************************)
(* The clients.                                                            *)
(***************************************************************************)
LEMMA SendRequestInv ==
  ASSUME RouterInv, NEW x \in Requests, SendRequest(x)
  PROVE  RouterInv'
  <1> DEFINE q == <<"router_", 0>>
  <1>1. /\ x \notin Async /\ sent' = sent \cup {x} /\ router_' = router_ \cup {x}
        /\ UNCHANGED <<replies, async_, worker_output_, mainVars, listVars, aborted,
                       workerVars, queueVars>>
    BY ZenonT(30) DEF SendRequest
  <1>2. TypeOK /\ NoDuplicates /\ Len(worker_output_) \in Nat
    BY SocketCount DEF RouterInv
  <1>3. At(x, Nowhere) /\ Fresh(x)
    <2>1. x \notin sent /\ Fate(x)
      BY ZenonT(30) DEF SendRequest, RouterInv
    <2> QED
      BY <2>1, AtNowhere DEF Fate
  <1>4. TypeOK'
    BY <1>1, <1>2, ZenonT(30) DEF TypeOK
  <1>5. MainInv' /\ WorkerInv' /\ NoDuplicates'
    BY <1>1, ZenonT(30) DEF RouterInv, MainInv, WorkerInv, NoDuplicates
  <1>6. ASSUME NEW r \in Requests, r # x PROVE Fate(r)'
    <2>1. Stays(r)
      <3>1. MainStays(r)
        BY <1>1, <1>6 DEF MainStays
      <3>2. WorkersStay(r)
        BY <1>1, SameWorkers
      <3>3. SocketsStay(r)
        BY <1>1, <1>2, SameSockets
      <3> QED
        BY <3>1, <3>2, <3>3 DEF Stays
    <2>2. Fate(r)
      BY DEF RouterInv
    <2> QED
      BY <1>1, <1>6, <2>1, <2>2, FateKept, ZenonT(30)
  <1>7. Fate(x)'
    <2>1. At(x, q)'
      BY <1>1, <1>3, ZenonT(30) DEF At, Nowhere
    <2>2. q \in Places' /\ q[1] = "router_"
      BY DEF Places
    <2>3. Stage("router_", x)'
      BY <1>1, <1>3 DEF Stage, Fresh
    <2> QED
      BY <1>1, <2>1, <2>2, <2>3, FateMoved
  <1> QED
    BY <1>4, <1>5, <1>6, <1>7 DEF RouterInv

LEMMA SendAsyncInv ==
  ASSUME RouterInv, NEW x \in Requests, SendAsync(x)
  PROVE  RouterInv'
  <1> DEFINE q == <<"async_", 0>>
  <1>1. /\ x \in Async /\ sent' = sent \cup {x} /\ async_' = Append(async_, x)
        /\ UNCHANGED <<replies, router_, worker_output_, mainVars, listVars, aborted,
                       workerVars, queueVars>>
    BY DEF SendAsync
  <1>2. /\ TypeOK /\ NoDuplicates /\ Len(worker_output_) \in Nat
        /\ async_ \in Seq(Requests) /\ IsInjective(async_)
    BY SocketCount, ZenonT(30) DEF RouterInv, TypeOK, NoDuplicates
  <1>3. At(x, Nowhere) /\ Fresh(x)
    <2>1. x \notin sent /\ Fate(x)
      BY DEF SendAsync, RouterInv
    <2> QED
      BY <2>1, AtNowhere DEF Fate
  <1>4. x \notin Range(async_)
    BY <1>3 DEF At, Nowhere
  <1>5. /\ async_' \in Seq(Requests) /\ IsInjective(async_')
        /\ Range(async_') = Range(async_) \cup {x}
    BY <1>1, <1>2, <1>4, Added
  <1>6. TypeOK'
    BY <1>1, <1>2, <1>5, ZenonT(30) DEF TypeOK
  <1>7. MainInv' /\ WorkerInv' /\ NoDuplicates'
    BY <1>1, <1>5, ZenonT(30) DEF RouterInv, MainInv, WorkerInv, NoDuplicates
  <1>8. ASSUME NEW r \in Requests, r # x PROVE Fate(r)'
    <2>1. Stays(r)
      <3>1. MainStays(r)
        BY <1>1, <1>5, <1>8 DEF MainStays
      <3>2. WorkersStay(r)
        BY <1>1, SameWorkers
      <3>3. SocketsStay(r)
        BY <1>1, <1>2, SameSockets
      <3> QED
        BY <3>1, <3>2, <3>3 DEF Stays
    <2>2. Fate(r)
      BY DEF RouterInv
    <2> QED
      BY <1>1, <1>8, <2>1, <2>2, FateKept
  <1>9. Fate(x)'
    <2>1. At(x, q)'
      BY <1>1, <1>3, <1>5, ZenonT(30) DEF At, Nowhere
    <2>2. q \in Places' /\ q[1] = "async_"
      BY DEF Places
    <2>3. Stage("async_", x)'
      BY <1>1, <1>3, ZenonT(30) DEF Stage, Fresh
    <2> QED
      BY <1>1, <2>1, <2>2, <2>3, FateMoved
  <1> QED
    BY <1>6, <1>7, <1>8, <1>9 DEF RouterInv
-----------------------------------------------------------------------------
(***************************************************************************)
(* The main thread takes a request in hand.                                *)
(***************************************************************************)
LEMMA ReceiveStepInv ==
  ASSUME RouterInv, ~aborted, ReceiveStep
  PROVE  RouterInv'
  <1> DEFINE p == <<"router_", 0>>
             q == <<"cur", 0>>
  <1>1. PICK x \in Requests :
          /\ Receive(x)
          /\ \/ Kind[x] = "UNKNOWN" /\ main' = main /\ aborted' = TRUE /\ replies' = replies
             \/ Kind[x] = "SERVER_LIST" /\ main' = "set_servers" /\ UNCHANGED <<replies, aborted>>
             \/ Kind[x] = "SET" /\ main' = "push" /\ Reply(x) /\ UNCHANGED aborted
             \/ Kind[x] = "STATS" /\ main' = "stats" /\ UNCHANGED <<replies, aborted>>
             \/ /\ Kind[x] \in {"GET", "INCREMENT"} /\ main' = "push"
                /\ UNCHANGED <<replies, aborted>>
    BY DEF ReceiveStep, ReceiveUnknown, ReceiveServerList, ReceiveSet, ReceiveStats,
           ReceiveOther
  <1>2. /\ main = "item0" /\ x \in router_ /\ router_' = router_ \ {x} /\ cur' = x
        /\ revents' = revents \ {"router_"}
        /\ UNCHANGED <<sent, async_, worker_output_, listVars, workerVars, queueVars>>
    BY <1>1 DEF Receive
  <1>3. TypeOK /\ NoDuplicates /\ Len(worker_output_) \in Nat /\ cur = NoRequest
    BY <1>2, SocketCount DEF RouterInv, MainInv
  <1>4. At(x, p) /\ x \notin Async /\ Fresh(x) /\ x \in sent
    <2>1. p \in Places /\ Has(p, x) /\ p[1] = "router_"
      BY <1>2, NamedPlaces, HasNames, ZenonT(30)
    <2> QED
      BY <1>2, <2>1, Located, ZenonT(30) DEF Stage
  <1>5. /\ replies' \in [Requests -> Nat]
        /\ \A r \in Requests : r # x => replies'[r] = replies[r]
        /\ replies'[x] = IF Kind[x] = "SET" THEN 1 ELSE 0
    <2>1. replies \in [Requests -> Nat] /\ replies[x] = 0
      BY <1>3, <1>4 DEF TypeOK, Fresh
    <2>2. CASE Kind[x] = "SET"
      BY <1>1, <2>1, <2>2 DEF Reply
    <2>3. CASE Kind[x] # "SET"
      BY <1>1, <2>1, <2>3
    <2> QED
      BY <2>2, <2>3
  <1>6. TypeOK'
    <2>1. main' \in MainLabels /\ aborted' \in BOOLEAN
      BY <1>1, <1>3, ZenonT(30) DEF TypeOK, MainLabels
    <2> QED
      BY <1>2, <1>3, <1>5, <2>1, ZenonT(30) DEF TypeOK
  <1>7. MainInv'
    <2>1. ~list_locked
      BY <1>2 DEF RouterInv, MainInv
    <2> QED
      BY <1>1, <1>2, <2>1 DEF MainInv
  <1>8. WorkerInv' /\ NoDuplicates'
    BY <1>2, <1>3, ZenonT(30) DEF RouterInv, WorkerInv, NoDuplicates
  <1>9. ASSUME NEW r \in Requests, r # x PROVE Fate(r)'
    <2>1. r # cur /\ r # cur'
      BY <1>2, <1>3, <1>9, NotNone
    <2>2. Stays(r)
      <3>1. MainStays(r)
        BY <1>2, <1>9, <2>1 DEF MainStays
      <3>2. WorkersStay(r)
        BY <1>2, SameWorkers
      <3>3. SocketsStay(r)
        BY <1>2, <1>3, SameSockets
      <3> QED
        BY <3>1, <3>2, <3>3 DEF Stays
    <2>3. Fate(r)
      BY DEF RouterInv
    <2> QED
      BY <1>2, <1>5, <1>9, <2>1, <2>2, <2>3, FateKept
  <1>10. Fate(x)'
    <2>1. At(x, q)'
      BY <1>2, <1>4, ZenonT(30) DEF At
    <2>2. q \in Places' /\ q[1] = "cur"
      BY DEF Places
    <2>3. Stage("cur", x)'
      <3>1. executed'[x] = 0
        BY <1>2, <1>4, ZenonT(30) DEF Fresh
      <3> QED
        BY <1>1, <1>2, <1>4, <1>5, <3>1, ZenonT(30) DEF Stage, Fresh, Queued
    <2> QED
      BY <1>2, <1>4, <2>1, <2>2, <2>3, FateMoved
  <1> QED
    BY <1>6, <1>7, <1>8, <1>9, <1>10 DEF RouterInv

LEMMA ReceiveAsyncInv ==
  ASSUME RouterInv, ~aborted, ReceiveAsync
  PROVE  RouterInv'
  <1> DEFINE p == <<"async_", 0>>
             q == <<"cur", 0>>
  <1>1. PICK i \in 1..Len(async_) : /\ async_' = Without(async_, i)
                                    /\ cur' = async_[i]
                                    /\ aborted' = (Kind[async_[i]] # "SET")
    BY DEF ReceiveAsync
  <1>2. PICK x : x = async_[i]
    OBVIOUS
  <1>3. /\ main = "item1" /\ main' = "push" /\ revents' = revents \ {"async_"}
        /\ UNCHANGED <<clientVars, router_, worker_output_, listVars, workerVars,
                       queueVars>>
    BY ZenonT(30) DEF ReceiveAsync
  <1>4. /\ TypeOK /\ NoDuplicates /\ Len(worker_output_) \in Nat /\ cur = NoRequest
        /\ async_ \in Seq(Requests) /\ IsInjective(async_)
    BY <1>3, SocketCount, ZenonT(30) DEF RouterInv, MainInv, TypeOK, NoDuplicates
  <1>5. /\ x \in Requests /\ x \in Range(async_) /\ async_' \in Seq(Requests)
        /\ IsInjective(async_') /\ Range(async_') = Range(async_) \ {x}
    BY <1>1, <1>2, <1>4, CutOut, ZenonT(30)
  <1>6. At(x, p) /\ x \in Async /\ Fresh(x) /\ x \in sent
    <2>1. p \in Places /\ Has(p, x) /\ p[1] = "async_"
      BY <1>5, NamedPlaces, HasNames, ZenonT(30)
    <2> QED
      BY <1>5, <2>1, Located, ZenonT(30) DEF Stage
  <1>7. Kind[x] = "SET" /\ aborted' = FALSE
    BY <1>1, <1>2, <1>6, RouterAssumption, ZenonT(30)
  <1>8. TypeOK'
    BY <1>1, <1>2, <1>3, <1>4, <1>5, <1>7, ZenonT(30) DEF TypeOK, MainLabels
  <1>9. MainInv'
    <2>1. ~list_locked
      BY <1>3 DEF RouterInv, MainInv
    <2> QED
      BY <1>1, <1>2, <1>3, <1>5, <2>1, ZenonT(30) DEF MainInv
  <1>10. WorkerInv' /\ NoDuplicates'
    BY <1>3, <1>4, <1>5, ZenonT(30) DEF RouterInv, WorkerInv, NoDuplicates
  <1>11. ASSUME NEW r \in Requests, r # x PROVE Fate(r)'
    <2>1. r # cur /\ r # cur'
      BY <1>1, <1>2, <1>4, <1>11, NotNone
    <2>2. Stays(r)
      <3>1. MainStays(r)
        BY <1>3, <1>5, <1>11, <2>1 DEF MainStays
      <3>2. WorkersStay(r)
        BY <1>3, SameWorkers
      <3>3. SocketsStay(r)
        BY <1>3, <1>4, SameSockets
      <3> QED
        BY <3>1, <3>2, <3>3 DEF Stays
    <2>3. Fate(r)
      BY DEF RouterInv
    <2>4. /\ r \in sent' <=> r \in sent
          /\ executed'[r] = executed[r] /\ replies'[r] = replies[r]
          /\ r = cur => (main' = "push" <=> main = "push")
      BY <1>3, <1>11, <2>1
    <2> QED
      BY <2>2, <2>3, <2>4, FateKept, ZenonT(30)
  <1>12. Fate(x)'
    <2>1. At(x, q)'
      BY <1>1, <1>2, <1>3, <1>5, <1>6, ZenonT(30) DEF At
    <2>2. q \in Places' /\ q[1] = "cur"
      BY DEF Places
    <2>3. Stage("cur", x)'
      BY <1>3, <1>6, <1>7, ZenonT(30) DEF Stage, Fresh, Queued
    <2> QED
      BY <1>3, <1>6, <2>1, <2>2, <2>3, FateMoved
  <1> QED
    BY <1>5, <1>8, <1>9, <1>10, <1>11, <1>12, ZenonT(30) DEF RouterInv
=============================================================================
