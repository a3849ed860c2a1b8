--------------------------- MODULE RouterTheorems ---------------------------
(***************************************************************************)
(* Proofs about MemcacheRouter, third part: RouterInv is an invariant for  *)
(* any number of workers and any requests.  It follows that no request is  *)
(* lost or duplicated, that workers serve from the installed list only and *)
(* that an acknowledged list agrees with the installed one.  Then the      *)
(* order in which requests come to a single worker.                        *)
(***************************************************************************)
EXTENDS RouterStepProofs, FiniteSetTheorems

USE SMTT(30), SMTT(20), SMTT(10) DEF clientVars, socketVars, mainVars, listVars, workerVars, queueVars

\* How often a sequence without duplicates has an element.
LEMMA CountOnce ==
  ASSUME NEW S, NEW s \in Seq(S), IsInjective(s), NEW r
  PROVE  /\ r \in Range(s) => Cardinality({i \in 1..Len(s) : s[i] = r}) = 1
         /\ r \notin Range(s) => Cardinality({i \in 1..Len(s) : s[i] = r}) = 0
  <1>1. /\ DOMAIN s = 1..Len(s) /\ \A i \in 1..Len(s) : s[i] \in Range(s)
        /\ \A x \in Range(s) : \E i \in 1..Len(s) : s[i] = x
    BY Members
  <1>2. CASE r \in Range(s)
    <2>1. PICK j \in 1..Len(s) : s[j] = r
      BY <1>1, <1>2
    <2>2. {i \in 1..Len(s) : s[i] = r} = {j}
      BY <1>1, <2>1 DEF IsInjective
    <2> QED
      BY <1>2, <2>2, FS_Singleton, ZenonT(30)
  <1>3. CASE r \notin Range(s)
    <2>1. {i \in 1..Len(s) : s[i] = r} = {}
      BY <1>1, <1>3
    <2> QED
      BY <1>3, <2>1, FS_EmptySet
  <1> QED
    BY <1>2, <1>3

\* All collected GETs are run at once and go to the worker's send loop.
LEMMA GetKeysInv ==
  ASSUME RouterInv, NEW w \in Workers, GetKeys(w)
  PROVE  RouterInv'
  <1> DEFINE q == <<"sending", w>>
  <1>1. /\ wpc[w] = "run" /\ get_packets[w] # <<>>
        /\ UNCHANGED <<clientVars, socketVars, mainVars, listVars, memc_, worker, queueVars>>
    BY ZenonT(30) DEF GetKeys, Serving
  <1>2. /\ TypeOK /\ NoDuplicates /\ Len(worker_output_) \in Nat
        /\ get_packets \in [Workers -> Seq(Requests)] /\ IsInjective(get_packets[w])
        /\ sending \in [Workers -> Seq(Requests)] /\ sending[w] = <<>>
        /\ wpc \in [Workers -> {"dead", "start", "run", "send"}]
        /\ executed \in [Requests -> Nat]
    BY <1>1, SocketCount, ZenonT(30) DEF RouterInv, TypeOK, NoDuplicates, WorkerInv
  <1>3. CASE aborted' = TRUE /\ UNCHANGED <<executed, sending, get_packets, wpc>>
    <2>1. NoDuplicates' /\ \A r \in Requests : Fate(r)'
      BY <1>1, <1>3, Quiet, ZenonT(30)
    <2>2. TypeOK'
      BY <1>1, <1>2, <1>3, ZenonT(30) DEF TypeOK
    <2>3. MainInv' /\ WorkerInv'
      BY <1>1, <1>3, ZenonT(30) DEF RouterInv, MainInv, WorkerInv
    <2> QED
      BY <2>1, <2>2, <2>3 DEF RouterInv
  <1>4. CASE /\ executed' = [r \in Requests |->
                               executed[r] + Cardinality({i \in 1..Len(get_packets[w]) :
                                                            get_packets[w][i] = r})]
             /\ sending' = [sending EXCEPT ![w] = get_packets[w]]
             /\ get_packets' = [get_packets EXCEPT ![w] = <<>>]
             /\ wpc' = [wpc EXCEPT ![w] = "send"]
             /\ UNCHANGED aborted
    <2>1. PICK moved : moved = Range(get_packets[w])
      OBVIOUS
    <2>2. /\ \A r \in moved : Cardinality({i \in 1..Len(get_packets[w]) :
                                             get_packets[w][i] = r}) = 1
          /\ \A r \in Requests \ moved : Cardinality({i \in 1..Len(get_packets[w]) :
                                                        get_packets[w][i] = r}) = 0
          /\ moved \subseteq Requests
      BY <1>2, <2>1, CountOnce, Members
    <2>3. \A r \in moved : /\ At(r, <<"get_packets", w>>) /\ r \in sent
                           /\ Kind[r] = "GET" /\ Fresh(r)
      <3> SUFFICES ASSUME NEW r \in moved
                   PROVE  /\ At(r, <<"get_packets", w>>) /\ r \in sent
                          /\ Kind[r] = "GET" /\ Fresh(r)
        OBVIOUS
      <3>1. /\ <<"get_packets", w>> \in Places /\ Has(<<"get_packets", w>>, r)
            /\ <<"get_packets", w>>[1] = "get_packets" /\ r \in Requests
        BY <2>1, <2>2, NamedPlaces, HasNames, ZenonT(30)
      <3> QED
        BY <3>1, Located, ZenonT(30) DEF Stage
    <2>4. \A r \in moved : executed'[r] = 1
      <3> SUFFICES ASSUME NEW r \in moved PROVE executed'[r] = 1
        OBVIOUS
      <3>1. r \in Requests /\ executed[r] = 0
        BY <2>2, <2>3, ZenonT(30) DEF Fresh
      <3>2. executed'[r] = 0 + 1
        BY <1>4, <2>2, <3>1
      <3> QED
        BY <3>2
    <2>5. \A r \in Requests \ moved : executed'[r] = executed[r]
      <3> SUFFICES ASSUME NEW r \in Requests \ moved PROVE executed'[r] = executed[r]
        OBVIOUS
      <3>1. executed'[r] = executed[r] + 0
        BY <1>4, <2>2, ZenonT(30)
      <3>2. executed[r] \in Nat
        BY <1>2
      <3> QED
        BY <3>1, <3>2
    <2>6. executed' \in [Requests -> Nat]
      <3>1. \A r \in Requests : executed'[r] \in Nat
        BY <1>2, <2>4, <2>5
      <3>2. executed' = [r \in Requests |-> executed'[r]]
        BY <1>4
      <3> QED
        BY <3>1, <3>2
    <2>7. /\ sending' \in [Workers -> Seq(Requests)] /\ sending'[w] = get_packets[w]
          /\ \A v \in Workers \ {w} : sending'[v] = sending[v]
      BY <1>2, <1>4
    <2>8. /\ get_packets' \in [Workers -> Seq(Requests)] /\ get_packets'[w] = <<>>
          /\ \A v \in Workers \ {w} : get_packets'[v] = get_packets[v]
      BY <1>2, <1>4
    <2>9. /\ wpc' \in [Workers -> {"dead", "start", "run", "send"}] /\ wpc'[w] = "send"
          /\ \A v \in Workers \ {w} : wpc'[v] = wpc[v]
      BY <1>2, <1>4
    <2>10. Range(<<>>) = {} /\ IsInjective(<<>>)
      BY DEF Range, IsInjective
    <2>11. TypeOK'
      BY <1>1, <1>2, <1>4, <2>6, <2>7, <2>8, <2>9, ZenonT(30) DEF TypeOK
    <2>12. MainInv'
      BY <1>1, <1>4, ZenonT(30) DEF RouterInv, MainInv
    <2>13. WorkerInv'
      BY <1>1, <2>7, <2>9, ZenonT(30) DEF RouterInv, WorkerInv
    <2>14. NoDuplicates'
      BY <1>1, <1>2, <2>7, <2>8, <2>10, ZenonT(30) DEF NoDuplicates
    <2>15. ASSUME NEW r \in Requests \ moved PROVE Fate(r)'
      <3>1. /\ r \notin Range(get_packets'[w]) /\ r \notin Range(get_packets[w])
            /\ r \notin Range(sending'[w]) /\ r \notin Range(sending[w])
        BY <1>2, <2>1, <2>7, <2>8, <2>10, ZenonT(30)
      <3>2. \A v \in Workers :
              /\ r \in Range(get_packets'[v]) <=> r \in Range(get_packets[v])
              /\ r \in Range(sending'[v]) <=> r \in Range(sending[v])
        BY <2>7, <2>8, <3>1, ZenonT(30)
      <3>3. Stays(r)
        <4>1. MainStays(r)
          BY <1>1, SameMain
        <4>2. WorkersStay(r)
          BY <1>1, <3>2 DEF WorkersStay
        <4>3. SocketsStay(r)
          BY <1>1, <1>2, SameSockets
        <4> QED
          BY <4>1, <4>2, <4>3 DEF Stays
      <3>4. Fate(r)
        BY DEF RouterInv
      <3> QED
        BY <1>1, <2>5, <3>3, <3>4, FateKept
    <2>16. ASSUME NEW r \in moved PROVE Fate(r)'
      <3>1. r \in Range(sending'[w]) /\ r \notin Range(get_packets'[w])
        BY <2>1, <2>7, <2>8, <2>10, ZenonT(30)
      <3>2. At(r, <<"get_packets", w>>)
        BY <2>3
      <3>3. At(r, q)'
        BY <1>1, <2>7, <2>8, <3>1, <3>2, ZenonT(30) DEF At
      <3>4. q \in Places' /\ q[1] = "sending"
        BY DEF Places
      <3>5. Stage("sending", r)'
        BY <1>1, <2>3, <2>4, ZenonT(30) DEF Stage, Fresh
      <3>6. r \in sent'
        BY <1>1, <2>3, ZenonT(30)
      <3> QED
        BY <3>3, <3>4, <3>5, <3>6, FateMoved
    <2> QED
      BY <2>2, <2>11, <2>12, <2>13, <2>14, <2>15, <2>16, ZenonT(30) DEF RouterInv
  <1> QED
    BY <1>3, <1>4, ZenonT(30) DEF GetKeys

-----------------------------------------------------------------------------
LEMMA InitRouterInv ==
  ASSUME Init
  PROVE  RouterInv
  <1>1. Range(<<>>) = {} /\ IsInjective(<<>>) /\ Len(<<>>) = 0 /\ \A i \in 1..0 : FALSE
    BY DEF Range, IsInjective
  <1>2. TypeOK
    <2>1. 0 \in 0..Len(<<>>) /\ 0 \in Nat
      OBVIOUS
    <2>2. /\ <<>> \in Seq(Requests) /\ <<>> \in Seq(Servers)
          /\ <<>> \in Seq(Seq(Requests)) /\ "out" \in Queue!Labels
      BY DEF Queue!Labels
    <2>3. /\ replies \in [Requests -> Nat] /\ executed \in [Requests -> Nat]
          /\ num_get_keys \in [Workers -> Nat]
      BY <2>1 DEF Init
    <2>4. /\ get_packets \in [Workers -> Seq(Requests)]
          /\ sending \in [Workers -> Seq(Requests)]
          /\ batch \in [Workers -> Seq(Requests)]
          /\ memc_ \in [Workers -> Seq(Servers)]
      BY <2>2 DEF Init
    <2>5. /\ pop_pc \in [Workers -> Queue!Labels]
          /\ wpc \in [Workers -> {"dead", "start", "run", "send"}]
          /\ worker \in [Workers -> 0..Len(worker_output_)]
      BY <2>1, <2>2 DEF Init
    <2> QED
      BY <2>2, <2>3, <2>4, <2>5, ZenonT(30) DEF Init, TypeOK, MainLabels
  <1>3. MainInv /\ WorkerInv
    BY DEF Init, MainInv, WorkerInv
  <1>4. NoDuplicates
    BY <1>1 DEF Init, NoDuplicates
  <1>5. ASSUME NEW r \in Requests PROVE Fate(r)
    <2>1. \A p \in Places : ~Has(p, r)
      <3> SUFFICES ASSUME NEW p \in Places, Has(p, r) PROVE FALSE
        OBVIOUS
      <3>1. r # cur
        BY RouterAssumption DEF Init
      <3>2. \A w \in Workers : batch[w] = <<>> /\ get_packets[w] = <<>> /\ sending[w] = <<>>
        BY DEF Init
      <3>3. router_ = {} /\ async_ = <<>> /\ packets_ = <<>> /\ worker_output_ = <<>>
        BY DEF Init
      <3>4. \A i \in 1..Len(worker_output_) : FALSE
        BY <1>1, <3>3
      <3>5. At(r, Nowhere)
        BY <1>1, <3>1, <3>2, <3>3, <3>4, ZenonT(30) DEF At, Nowhere
      <3> USE DEF At, Has, Nowhere
      <3>6. CASE p = <<"router_", 0>> \/ p = <<"async_", 0>>
        BY <3>5, <3>6
      <3>7. CASE p = <<"cur", 0>> \/ p = <<"packets_", 0>>
        BY <3>5, <3>7
      <3>8. CASE \E w \in Workers : p = <<"batch", w>>
        BY <3>5, <3>8
      <3>9. CASE \E w \in Workers : p = <<"get_packets", w>>
        BY <3>5, <3>9
      <3>10. CASE \E w \in Workers : p = <<"sending", w>>
        BY <3>5, <3>10
      <3> QED
        BY <3>4, <3>6, <3>7, <3>8, <3>9, <3>10, PlaceNames, ZenonT(30)
    <2>2. Where(r) = {}
      BY <2>1 DEF Where
    <2> QED
      BY <2>2 DEF Fate, Fresh, Init
  <1> QED
    BY <1>2, <1>3, <1>4, <1>5 DEF RouterInv

LEMMA StutterRouterInv ==
  ASSUME RouterInv, UNCHANGED vars
  PROVE  RouterInv'
  <1>1. NoDuplicates' /\ \A r \in Requests : Fate(r)'
    BY Quiet DEF vars
  <1>2. TypeOK'
    BY ZenonT(30) DEF RouterInv, TypeOK, vars
  <1>3. MainInv' /\ WorkerInv'
    BY ZenonT(30) DEF RouterInv, MainInv, WorkerInv, vars
  <1> QED
    BY <1>1, <1>2, <1>3 DEF RouterInv

LEMMA NextRouterInv ==
  ASSUME RouterInv, Next
  PROVE  RouterInv'
  <1>1. ~aborted
    BY DEF Next
  <1>2. CASE ClientStep
    BY <1>2, SendRequestInv, SendAsyncInv DEF ClientStep
  <1>3. CASE MainStep
    BY <1>1, <1>3, PollInv, ReceiveStepInv, ReceiveAsyncInv, ForwardInv, CompareListsInv,
       SetDoneInv, UnblockAllInv, NotifyAllInv, InstallInv DEF MainStep
  <1>4. CASE MainLock
    BY <1>1, <1>4, PushPacketInv, PopulateStatsInv DEF MainLock
  <1>5. ASSUME NEW w \in Workers, WorkerStep(w)
        PROVE  RouterInv'
    <2>1. CASE StartWorker(w)
      BY <2>1, StartWorkerInv
    <2>2. CASE TestDone(w)
      BY <2>2, TestDoneInv
    <2>3. CASE PopStep(w)
      BY <2>3, PopStepInv
    <2>4. CASE ServeSet(w)
      BY <2>4, ServeSetInv
    <2>5. CASE ServeIncr(w)
      BY <2>5, ServeIncrInv
    <2>6. CASE ServeGet(w)
      BY <2>6, ServeGetInv
    <2>7. CASE GetKeys(w)
      BY <2>7, GetKeysInv
    <2>8. CASE SendPacket(w)
      BY <2>8, SendPacketInv
    <2> QED
      BY <1>5, <2>1, <2>2, <2>3, <2>4, <2>5, <2>6, <2>7, <2>8 DEF WorkerStep
  <1>6. ASSUME NEW w \in Workers, Acquire(w)
        PROVE  RouterInv'
    BY <1>6, AcquireInv
  <1>7. ASSUME NEW w \in Workers, SpuriousWake(w)
        PROVE  RouterInv'
    BY <1>7, SpuriousWakeInv
  <1> QED
    BY <1>2, <1>3, <1>4, <1>5, <1>6, <1>7 DEF Next

\* What holds of every request at every point of Loop, SetMemcacheServers and
\* ProcessPackets, for any number of workers and clients: it is unsent, or in
\* exactly one place and as far as that place says, or settled.
THEOREM RouterInvariant == Spec => []RouterInv
  <1>1. Init => RouterInv
    BY InitRouterInv
  <1>2. RouterInv /\ [Next]_vars => RouterInv'
    BY NextRouterInv, StutterRouterInv
  <1> QED
    BY <1>1, <1>2, PTL DEF Spec
-----------------------------------------------------------------------------
(***************************************************************************)
(* What follows from the invariant.                                        *)
(***************************************************************************)
LEMMA OncePerRequest ==
  ASSUME RouterInv
  PROVE  ExactlyOnce
  <1>1. NoDuplicates /\ TypeOK
    BY DEF RouterInv
  <1> SUFFICES ASSUME NEW r \in sent
               PROVE  CASE Kind[r] = "SET" ->
                             /\ InFlight(r) + executed[r] = 1
                             /\ replies[r] <= (IF r \in Async THEN 0 ELSE 1)
                        [] Kind[r] \in {"GET", "INCREMENT"} ->
                             /\ InFlight(r) + replies[r] = 1
                             /\ replies[r] <= executed[r] /\ executed[r] <= 1
                        [] OTHER ->
                             InFlight(r) + replies[r] = 1 /\ executed[r] = 0
    BY <1>1 DEF ExactlyOnce
  <1>2. r \in Requests /\ Kind[r] \in Kinds
    BY <1>1, RouterAssumption DEF TypeOK
  <1>3. r \in Async => Kind[r] = "SET"
    BY RouterAssumption
  <1>4. CASE Where(r) = {} /\ Settled(r)
    <2>1. InFlight(r) = 0
      BY <1>4, FS_EmptySet DEF InFlight
    <2> QED
      BY <1>2, <1>3, <1>4, <2>1 DEF Settled, Kinds
  <1>5. CASE \E p \in Places : Where(r) = {p} /\ Stage(p[1], r)
    <2>1. PICK p \in Places : Where(r) = {p} /\ Stage(p[1], r)
      BY <1>5
    <2>2. InFlight(r) = 1
      BY <2>1, FS_Singleton, ZenonT(30) DEF InFlight
    <2>3. p[1] \in {"router_", "async_", "cur", "packets_", "batch", "get_packets",
                    "sending", "worker_output_"}
      BY PlaceNames
    <2>4. \/ Fresh(r) /\ (Kind[r] = "SET" => r \in Async \/ replies[r] = 0)
          \/ Queued(r)
          \/ Kind[r] \in {"GET", "INCREMENT"} /\ executed[r] = 1 /\ replies[r] = 0
      BY <2>1, <2>3, ZenonT(30) DEF Stage, Fresh
    <2> QED
      BY <1>2, <1>3, <2>2, <2>4 DEF Fresh, Queued, Kinds
  <1> QED
    BY <1>2, <1>4, <1>5 DEF RouterInv, Fate

\* No request is lost or duplicated by the router, not even when the workers
\* are replaced while packets are queued or half served.
THEOREM NoRequestLost == Spec => []ExactlyOnce
  BY RouterInvariant, OncePerRequest, PTL

\* A worker serves from the installed list only: SetMemcacheServers exchanges
\* the list after all workers ended, and nobody serves before there is one.
THEOREM CurrentListServes == Spec => []ServedByCurrentList
  <1>1. RouterInv => ServedByCurrentList
    BY DEF RouterInv, WorkerInv, ServedByCurrentList
  <1> QED
    BY <1>1, RouterInvariant, PTL

\* Who gets a reply.
LEMMA RepliedTo ==
  ASSUME TypeOK, NEW x \in Requests, Reply(x), NEW r \in Requests,
         replies'[r] > replies[r]
  PROVE  r = x
  <1>1. replies \in [Requests -> Nat] /\ replies' = [replies EXCEPT ![x] = @ + 1]
    BY DEF TypeOK, Reply
  <1>2. CASE r # x
    <2>1. replies'[r] = replies[r] /\ replies[r] \in Nat
      BY <1>1, <1>2
    <2> QED
      BY <2>1
  <1> QED
    BY <1>2

\* A list that counts as matching agrees with the installed one.
LEMMA MatchingAgrees ==
  ASSUME NEW new \in Seq(Servers), server_list_ \in Seq(Servers),
         "matches" \in IsServerListMatching(new)
  PROVE  Agree(server_list_, new)
  <1>1. Len(new) \in Nat /\ Len(server_list_) \in Nat
    OBVIOUS
  <1>2. \A i \in 1..(IF Len(new) < Len(server_list_) THEN Len(new) ELSE Len(server_list_)) :
          server_list_[i] = new[i]
    BY DEF IsServerListMatching
  <1> SUFFICES ASSUME NEW i \in 1..Len(server_list_), i <= Len(new)
               PROVE  server_list_[i] = new[i]
    BY DEF Agree
  <1>3. i \in 1..(IF Len(new) < Len(server_list_) THEN Len(new) ELSE Len(server_list_))
    BY <1>1
  <1> QED
    BY <1>2, <1>3

LEMMA StepAcksInstalled ==
  ASSUME RouterInv, Next, NEW r \in Requests, Kind[r] = "SERVER_LIST",
         replies'[r] > replies[r]
  PROVE  Agree(server_list_', ServerList[r])
  <1>1. TypeOK /\ replies[r] \in Nat /\ ~aborted /\ server_list_ \in Seq(Servers)
    BY ZenonT(30) DEF RouterInv, TypeOK, Next
  <1>2. replies' # replies
    <2>1. replies[r] = replies[r] => ~(replies[r] > replies[r])
      BY <1>1
    <2> QED
      BY <2>1
  <1>3. CASE ReceiveStep
    <2>1. PICK x \in Requests : Kind[x] = "SET" /\ Reply(x)
      BY <1>2, <1>3, ZenonT(30) DEF ReceiveStep, ReceiveUnknown, ReceiveServerList, ReceiveSet,
                        ReceiveStats, ReceiveOther
    <2> QED
      BY <1>1, <2>1, RepliedTo, ZenonT(30)
  <1>4. CASE PopulateStats
    <2>1. cur \in Requests /\ Kind[cur] = "STATS" /\ Reply(cur)
      BY <1>4, ZenonT(30) DEF PopulateStats, RouterInv, MainInv
    <2> QED
      BY <1>1, <2>1, RepliedTo
  <1>5. CASE Forward
    <2>1. PICK i \in 1..Len(worker_output_) : /\ worker_output_[i] # <<>>
                                              /\ Reply(Head(worker_output_[i]))
      BY <1>5, ZenonT(30) DEF Forward
    <2>2. PICK x : x = Head(worker_output_[i])
      OBVIOUS
    <2>3. worker_output_[i] \in Seq(Requests)
      BY <1>1 DEF TypeOK
    <2>4. x \in Requests /\ x \in Range(worker_output_[i])
      BY <2>1, <2>2, <2>3, Taken
    <2>5. /\ <<"worker_output_", i>> \in Places /\ Has(<<"worker_output_", i>>, x)
          /\ <<"worker_output_", i>>[1] = "worker_output_"
      BY <2>4, NamedPlaces, HasNames, ZenonT(30)
    <2>6. Kind[x] \in {"GET", "INCREMENT"}
      BY <2>4, <2>5, Located, ZenonT(30) DEF Stage
    <2>7. r = x
      BY <1>1, <2>1, <2>2, <2>4, RepliedTo, ZenonT(30)
    <2> QED
      BY <2>6, <2>7
  <1>6. CASE CompareLists
    <2>1. cur \in Requests /\ server_list_' = server_list_
      BY <1>6, ZenonT(30) DEF CompareLists, RouterInv, MainInv
    <2>2. "matches" \in IsServerListMatching(ServerList[cur]) /\ Reply(cur)
      BY <1>2, <1>6, ZenonT(30) DEF CompareLists, Acknowledge
    <2>3. r = cur
      BY <1>1, <2>1, <2>2, RepliedTo
    <2>4. ServerList[cur] \in Seq(Servers)
      BY <2>1, RouterAssumption, ZenonT(30)
    <2> QED
      BY <1>1, <2>1, <2>2, <2>3, <2>4, MatchingAgrees, ZenonT(30) DEF Agree
  <1>7. CASE Install
    <2>1. cur \in Requests /\ server_list_' = ServerList[cur] /\ Reply(cur)
      BY <1>7, ZenonT(30) DEF Install, Acknowledge, RouterInv, MainInv
    <2>2. r = cur
      BY <1>1, <2>1, RepliedTo, ZenonT(30)
    <2> QED
      BY <2>1, <2>2, ZenonT(30) DEF Agree
  <1>8. CASE replies' = replies
    BY <1>2, <1>8, ZenonT(30)
  <1>9. \/ ReceiveStep \/ PopulateStats \/ Forward \/ CompareLists \/ Install
        \/ replies' = replies
    <2>1. CASE ClientStep
      BY <2>1, ZenonT(30) DEF ClientStep, SendRequest, SendAsync
    <2>2. CASE MainStep
      BY <2>2, ZenonT(30) DEF MainStep, Poll, ReceiveAsync, SetDone, UnblockAll, NotifyAll
    <2>3. CASE MainLock
      BY <2>3, ZenonT(30) DEF MainLock, PushPacket
    <2>4. ASSUME NEW w \in Workers, WorkerStep(w) \/ Acquire(w) \/ SpuriousWake(w)
          PROVE  replies' = replies
      BY <2>4, ZenonT(30) DEF WorkerStep, StartWorker, TestDone, PopStep, ServeSet, ServeIncr, ServeGet,
                  TakeNext, GetKeys, SendPacket, Acquire, SpuriousWake
    <2> QED
      BY <2>1, <2>2, <2>3, <2>4, ZenonT(30) DEF Next
  <1> QED
    BY <1>3, <1>4, <1>5, <1>6, <1>7, <1>8, <1>9, ZenonT(30)

\* When SetMemcacheServers has its acknowledgement sent, the installed list
\* agrees with the list that was sent as far as both go, whichever way
\* IsServerListMatching and the reads past the end of a shorter list went.
THEOREM AckMeansInstalled == Spec => AckedListInstalled
  <1>1. RouterInv /\ [Next]_vars
          => [\A r \in Requests :
                Kind[r] = "SERVER_LIST" /\ replies'[r] > replies[r]
                  => Agree(server_list_', ServerList[r])]_vars
    BY StepAcksInstalled
  <1> QED
    BY <1>1, RouterInvariant, PTL DEF Spec, AckedListInstalled
-----------------------------------------------------------------------------
(***************************************************************************)
(* The order of requests.  MustFollow(s, r) begins when the SET s of a     *)
(* client is received, while it has nothing else outstanding; r is sent    *)
(* later, so it joins the line behind s, and the line is served from the   *)
(* front.                                                                  *)
(***************************************************************************)

\* A step answers one request at most, and a SET only when it is received.
LEMMA OneAnswer ==
  ASSUME RouterInv, Next
  PROVE  \/ replies' = replies
         \/ \E x \in Requests : Reply(x) /\ (Kind[x] = "SET" => ReceiveSet(x))
  <1>1. TypeOK
    BY DEF RouterInv
  <1>2. CASE ReceiveStep
    BY <1>2, ZenonT(30) DEF ReceiveStep, ReceiveUnknown, ReceiveServerList, ReceiveSet,
                            ReceiveStats, ReceiveOther
  <1>3. CASE PopulateStats
    <2>1. cur \in Requests /\ Kind[cur] = "STATS" /\ Reply(cur)
      BY <1>3, ZenonT(30) DEF PopulateStats, RouterInv, MainInv
    <2> QED
      BY <2>1
  <1>4. CASE Forward
    <2>1. PICK i \in 1..Len(worker_output_) : /\ worker_output_[i] # <<>>
                                              /\ Reply(Head(worker_output_[i]))
      BY <1>4, ZenonT(30) DEF Forward
    <2>2. PICK x : x = Head(worker_output_[i])
      OBVIOUS
    <2>3. worker_output_[i] \in Seq(Requests)
      BY <1>1 DEF TypeOK
    <2>4. x \in Requests /\ x \in Range(worker_output_[i])
      BY <2>1, <2>2, <2>3, Taken
    <2>5. /\ <<"worker_output_", i>> \in Places /\ Has(<<"worker_output_", i>>, x)
          /\ <<"worker_output_", i>>[1] = "worker_output_"
      BY <2>4, NamedPlaces, HasNames, ZenonT(30)
    <2>6. Kind[x] \in {"GET", "INCREMENT"}
      BY <2>4, <2>5, Located, ZenonT(30) DEF Stage
    <2> QED
      BY <2>1, <2>2, <2>4, <2>6
  <1>5. CASE CompareLists \/ Install
    <2>1. cur \in Requests /\ Kind[cur] = "SERVER_LIST"
      BY <1>5, ZenonT(30) DEF CompareLists, Install, RouterInv, MainInv
    <2>2. replies' = replies \/ Reply(cur)
      BY <1>5, ZenonT(30) DEF CompareLists, Install, Acknowledge
    <2> QED
      BY <2>1, <2>2
  <1>6. CASE ClientStep
    BY <1>6, ZenonT(30) DEF ClientStep, SendRequest, SendAsync
  <1>7. CASE MainStep
    BY <1>2, <1>4, <1>5, <1>7, ZenonT(30) DEF MainStep, Poll, ReceiveAsync, SetDone,
                                              UnblockAll, NotifyAll
  <1>8. CASE MainLock
    BY <1>3, <1>8, ZenonT(30) DEF MainLock, PushPacket
  <1>9. ASSUME NEW w \in Workers, WorkerStep(w) \/ Acquire(w) \/ SpuriousWake(w)
        PROVE  replies' = replies
    BY <1>9, ZenonT(30) DEF WorkerStep, StartWorker, TestDone, PopStep, ServeSet, ServeIncr,
                            ServeGet, TakeNext, GetKeys, SendPacket, Acquire, SpuriousWake
  <1> QED
    BY <1>6, <1>7, <1>8, <1>9, ZenonT(30) DEF Next

LEMMA RepliesGrow ==
  ASSUME RouterInv, Next, NEW r \in Requests
  PROVE  replies'[r] >= replies[r]
  <1>1. replies \in [Requests -> Nat]
    BY DEF RouterInv, TypeOK
  <1>2. \A x \in Requests : Reply(x) => replies'[r] \in {replies[r], replies[r] + 1}
    BY <1>1 DEF Reply
  <1>3. replies'[r] \in {replies[r], replies[r] + 1}
    BY <1>2, OneAnswer
  <1> QED
    BY <1>1, <1>3

\* A REQ socket sends when the last request was answered, and answers stay.
LEMMA OneOutstandingNext ==
  ASSUME RouterInv, OneOutstanding, Next
  PROVE  OneOutstanding'
  <1>1. /\ replies \in [Requests -> Nat] /\ replies' \in [Requests -> Nat]
        /\ sent \subseteq Requests
    BY NextRouterInv, ZenonT(30) DEF RouterInv, TypeOK
  <1>2. \A r \in Requests : replies[r] > 0 => replies'[r] > 0
    BY <1>1, RepliesGrow
  <1>3. CASE sent' \ Async = sent \ Async
    BY <1>1, <1>2, <1>3 DEF OneOutstanding
  <1>4. ASSUME NEW x \in Requests, SendRequest(x)
        PROVE  OneOutstanding'
    <2>1. /\ sent' = sent \cup {x} /\ replies' = replies
          /\ \A q \in sent \ Async : Client[q] = Client[x] => replies[q] > 0
      BY <1>4 DEF SendRequest
    <2> QED
      BY <1>1, <2>1 DEF OneOutstanding
  <1>5. ASSUME NEW x \in Requests, SendAsync(x)
        PROVE  sent' \ Async = sent \ Async
    BY <1>5 DEF SendAsync
  <1>6. ClientStep \/ sent' = sent
    <2>1. CASE MainStep
      BY <2>1, ZenonT(30) DEF MainStep, Poll, ReceiveStep, ReceiveUnknown, ReceiveServerList,
           ReceiveSet, ReceiveStats, ReceiveOther, Receive, ReceiveAsync, Forward,
           CompareLists, SetDone, UnblockAll, NotifyAll, Install
    <2>2. CASE MainLock
      BY <2>2, ZenonT(30) DEF MainLock, PushPacket, PopulateStats
    <2>3. ASSUME NEW w \in Workers, WorkerStep(w) \/ Acquire(w) \/ SpuriousWake(w)
          PROVE  sent' = sent
      BY <2>3, ZenonT(30) DEF WorkerStep, StartWorker, TestDone, PopStep, ServeSet, ServeIncr,
                            ServeGet, TakeNext, GetKeys, SendPacket, Acquire, SpuriousWake
    <2> QED
      BY <2>1, <2>2, <2>3, ZenonT(30) DEF Next
  <1> QED
    BY <1>3, <1>4, <1>5, <1>6 DEF ClientStep

\* Sequences put together.
LEMMA Concat ==
  ASSUME NEW S, NEW s \in Seq(S), NEW t \in Seq(S)
  PROVE  s \o t \in Seq(S) /\ Range(s \o t) = Range(s) \cup Range(t)
  <1>1. /\ s \o t \in Seq(S) /\ Len(s \o t) = Len(s) + Len(t)
        /\ Len(s) \in Nat /\ Len(t) \in Nat
        /\ \A i \in 1..(Len(s) + Len(t)) :
             (s \o t)[i] = IF i <= Len(s) THEN s[i] ELSE t[i - Len(s)]
    OBVIOUS
  <1>2. /\ \A i \in 1..Len(s) : i \in 1..(Len(s) + Len(t)) /\ (s \o t)[i] = s[i]
        /\ \A i \in 1..Len(t) : /\ i + Len(s) \in 1..(Len(s) + Len(t))
                                /\ (s \o t)[i + Len(s)] = t[i]
    BY <1>1
  <1>3. \A i \in 1..(Len(s) + Len(t)) :
          \/ i \in 1..Len(s) /\ (s \o t)[i] = s[i]
          \/ i - Len(s) \in 1..Len(t) /\ (s \o t)[i] = t[i - Len(s)]
    BY <1>1
  <1>4. /\ DOMAIN (s \o t) = 1..(Len(s) + Len(t))
        /\ DOMAIN s = 1..Len(s) /\ DOMAIN t = 1..Len(t)
    BY <1>1
  <1>5. \A x \in Range(s) \cup Range(t) : x \in Range(s \o t)
    <2>1. \A i \in 1..(Len(s) + Len(t)) : (s \o t)[i] \in Range(s \o t)
      BY <1>4, ZenonT(30) DEF Range
    <2>2. /\ \A i \in 1..Len(s) : s[i] \in Range(s \o t)
          /\ \A i \in 1..Len(t) : t[i] \in Range(s \o t)
      BY <1>2, <2>1
    <2> QED
      BY <1>4, <2>2, ZenonT(30) DEF Range
  <1>6. \A x \in Range(s \o t) : x \in Range(s) \cup Range(t)
    <2>1. \A i \in 1..(Len(s) + Len(t)) : (s \o t)[i] \in Range(s) \cup Range(t)
      BY <1>3, <1>4 DEF Range
    <2> QED
      BY <1>4, <2>1, ZenonT(30) DEF Range
  <1> QED
    BY <1>1, <1>5, <1>6

LEMMA TailConcat ==
  ASSUME NEW S, NEW s \in Seq(S), NEW t \in Seq(S), s # <<>>
  PROVE  s \o t # <<>> /\ Head(s \o t) = Head(s) /\ Tail(s \o t) = Tail(s) \o t
  <1>1. /\ Len(s) \in Nat \ {0} /\ Len(t) \in Nat /\ Len(s \o t) = Len(s) + Len(t)
        /\ s \o t \in Seq(S) /\ Tail(s) \in Seq(S) /\ Len(Tail(s)) = Len(s) - 1
    OBVIOUS
  <1>2. s \o t # <<>> /\ Head(s \o t) = Head(s)
    BY <1>1
  <1>3. /\ Tail(s \o t) \in Seq(S) /\ Len(Tail(s \o t)) = Len(s) + Len(t) - 1
        /\ Tail(s) \o t \in Seq(S) /\ Len(Tail(s) \o t) = Len(s) + Len(t) - 1
    BY <1>1, <1>2
  <1>4. \A i \in 1..(Len(s) + Len(t) - 1) : Tail(s \o t)[i] = (Tail(s) \o t)[i]
    BY <1>1, <1>2, <1>3
  <1> QED
    BY <1>2, <1>3, <1>4

\* Moving the head of t to the end of s leaves s \o t as it is.
LEMMA MoveHead ==
  ASSUME NEW S, NEW s \in Seq(S), NEW t \in Seq(S), t # <<>>
  PROVE  Append(s, Head(t)) \o Tail(t) = s \o t
  <1>1. /\ Len(s) \in Nat /\ Len(t) \in Nat \ {0} /\ s \o t \in Seq(S)
        /\ Head(t) \in S /\ Head(t) = t[1] /\ Tail(t) \in Seq(S)
        /\ Len(Tail(t)) = Len(t) - 1 /\ Len(s \o t) = Len(s) + Len(t)
    OBVIOUS
  <1>2. PICK u : u = Append(s, Head(t))
    BY ZenonT(30)
  <1>3. /\ u \in Seq(S) /\ Len(u) = Len(s) + 1 /\ u[Len(s) + 1] = t[1]
        /\ \A i \in 1..Len(s) : u[i] = s[i]
    BY <1>1, <1>2
  <1>4. u \o Tail(t) \in Seq(S) /\ Len(u \o Tail(t)) = Len(s) + Len(t)
    BY <1>1, <1>3
  <1>5. \A i \in 1..(Len(s) + Len(t)) : (u \o Tail(t))[i] = (s \o t)[i]
    BY <1>1, <1>3, <1>4
  <1> QED
    BY <1>1, <1>2, <1>4, <1>5

LEMMA AppendConcat ==
  ASSUME NEW S, NEW s \in Seq(S), NEW t \in Seq(S), NEW x \in S
  PROVE  /\ s \o Append(t, x) = Append(s \o t, x)
         /\ s \o <<x>> = Append(s, x)
         /\ s \o <<>> = s
  OBVIOUS

\* The line is lengthened at its end and taken from at its front.
LEMMA AheadAppended ==
  ASSUME NEW S, NEW line \in Seq(S), NEW x \in S, NEW s, NEW r, r # x, Ahead(line, s, r)
  PROVE  Ahead(Append(line, x), s, r)
  <1>1. /\ Len(line) \in Nat /\ Len(Append(line, x)) = Len(line) + 1
        /\ \A i \in 1..Len(line) : Append(line, x)[i] = line[i]
        /\ Append(line, x)[Len(line) + 1] = x
    OBVIOUS
  <1>2. \A j \in 1..(Len(line) + 1) : Append(line, x)[j] = r => j \in 1..Len(line)
    BY <1>1
  <1>3. \A j \in 1..Len(line) : /\ j \in 1..(Len(line) + 1)
                                /\ \A i \in 1..(j - 1) : i \in 1..Len(line)
    BY <1>1
  <1>4. \E j \in 1..Len(line) : line[j] = r
    BY DEF Ahead
  <1>5. \A j \in 1..Len(line) : line[j] = r => \E i \in 1..(j - 1) : line[i] = s
    BY DEF Ahead
  <1>6. \E j \in 1..(Len(line) + 1) : Append(line, x)[j] = r
    BY <1>1, <1>3, <1>4
  <1>7. ASSUME NEW j \in 1..(Len(line) + 1), Append(line, x)[j] = r
        PROVE  \E i \in 1..(j - 1) : Append(line, x)[i] = s
    <2>1. j \in 1..Len(line) /\ line[j] = r
      BY <1>1, <1>2, <1>7
    <2>2. PICK i \in 1..(j - 1) : line[i] = s
      BY <1>5, <2>1
    <2> QED
      BY <1>1, <1>3, <2>1, <2>2
  <1> QED
    BY <1>1, <1>6, <1>7 DEF Ahead

LEMMA AheadOfLast ==
  ASSUME NEW S, NEW line \in Seq(S), NEW r \in S, r \notin Range(line),
         NEW s \in Range(line)
  PROVE  Ahead(Append(line, r), s, r)
  <1>1. /\ Len(line) \in Nat /\ Len(Append(line, r)) = Len(line) + 1
        /\ \A i \in 1..Len(line) : Append(line, r)[i] = line[i]
        /\ Append(line, r)[Len(line) + 1] = r
    OBVIOUS
  <1>2. /\ \A i \in 1..Len(line) : line[i] # r
        /\ \E i \in 1..Len(line) : line[i] = s
    BY Members
  <1>3. \A j \in 1..(Len(line) + 1) : j \in 1..Len(line) \/ j = Len(line) + 1
    BY <1>1
  <1>4. \A j \in 1..(Len(line) + 1) : Append(line, r)[j] = r => j = Len(line) + 1
    BY <1>1, <1>2, <1>3
  <1>5. Len(line) + 1 \in 1..(Len(line) + 1) /\ (Len(line) + 1) - 1 = Len(line)
    BY <1>1
  <1>6. \E i \in 1..((Len(line) + 1) - 1) : Append(line, r)[i] = s
    BY <1>1, <1>2, <1>5
  <1> QED
    BY <1>1, <1>4, <1>5, <1>6 DEF Ahead

LEMMA AheadTaken ==
  ASSUME NEW S, NEW line \in Seq(S), line # <<>>, NEW s, NEW r, Ahead(line, s, r)
  PROVE  /\ Head(line) # r
         /\ Head(line) # s => Ahead(Tail(line), s, r)
  <1>1. /\ Len(line) \in Nat \ {0} /\ Head(line) = line[1]
        /\ Len(Tail(line)) = Len(line) - 1
        /\ \A i \in 1..(Len(line) - 1) : Tail(line)[i] = line[i + 1]
    OBVIOUS
  <1>2. PICK j \in 1..Len(line) : line[j] = r
    BY DEF Ahead
  <1>3. \A k \in 1..Len(line) : line[k] = r => \E i \in 1..(k - 1) : line[i] = s
    BY DEF Ahead
  <1>4. line[1] # r
    <2>1. 1 \in 1..Len(line) /\ \A i \in 1..(1 - 1) : FALSE
      BY <1>1
    <2> QED
      BY <1>3, <2>1
  <1>5. ASSUME line[1] # s PROVE Ahead(Tail(line), s, r)
    <2>1. j # 1
      BY <1>2, <1>4
    <2>2. j - 1 \in 1..(Len(line) - 1) /\ Tail(line)[j - 1] = r
      BY <1>1, <1>2, <2>1
    <2>3. ASSUME NEW k \in 1..(Len(line) - 1), Tail(line)[k] = r
          PROVE  \E i \in 1..(k - 1) : Tail(line)[i] = s
      <3>1. k + 1 \in 1..Len(line) /\ line[k + 1] = r /\ (k + 1) - 1 = k
        BY <1>1, <2>3
      <3>2. PICK i \in 1..k : line[i] = s
        BY <1>3, <3>1
      <3>3. i # 1
        BY <1>5, <3>2
      <3>4. i - 1 \in 1..(k - 1) /\ i - 1 \in 1..(Len(line) - 1) /\ (i - 1) + 1 = i
        BY <1>1, <3>3
      <3>5. Tail(line)[i - 1] = s
        BY <1>1, <3>2, <3>4
      <3> QED
        BY <3>4, <3>5
    <2>4. 1..Len(Tail(line)) = 1..(Len(line) - 1)
      BY <1>1
    <2> QED
      BY <2>2, <2>3, <2>4, ZenonT(30) DEF Ahead
  <1> QED
    BY <1>1, <1>4, <1>5

\* Who is in line, and what the steps do to the line.
LEMMA LineMembers ==
  ASSUME RouterInv, NEW w \in Workers
  PROVE  /\ Line(w) \in Seq(Requests)
         /\ \A x : x \in Range(Line(w))
                     <=> \/ x \in Range(batch[w])
                         \/ x \in Range(packets_)
                         \/ main = "push" /\ x = cur
  <1>0. PICK hand : hand = IF main = "push" THEN <<cur>> ELSE <<>>
    BY ZenonT(30)
  <1>1. /\ batch[w] \in Seq(Requests) /\ packets_ \in Seq(Requests)
        /\ main = "push" => cur \in Requests
    BY DEF RouterInv, TypeOK, MainInv
  <1>2. /\ hand \in Seq(Requests)
        /\ \A x : x \in Range(hand) <=> main = "push" /\ x = cur
    <2>1. CASE main = "push"
      BY <1>0, <1>1, <2>1 DEF Range
    <2>2. CASE main # "push"
      BY <1>0, <2>2 DEF Range
    <2> QED
      BY <2>1, <2>2
  <1>3. PICK line : line = batch[w] \o packets_
    BY ZenonT(30)
  <1>4. line \in Seq(Requests) /\ Range(line) = Range(batch[w]) \cup Range(packets_)
    BY <1>1, <1>3, Concat
  <1>5. Line(w) = line \o hand
    BY <1>0, <1>3, ZenonT(30) DEF Line
  <1>6. /\ line \o hand \in Seq(Requests)
        /\ Range(line \o hand) = Range(line) \cup Range(hand)
    BY <1>2, <1>4, Concat
  <1> QED
    BY <1>2, <1>4, <1>5, <1>6, ZenonT(30)

LEMMA LineRests ==
  ASSUME UNCHANGED <<batch, packets_>>, NEW w \in Workers,
         \/ UNCHANGED <<main, cur>>
         \/ main # "push" /\ main' # "push"
  PROVE  Line(w)' = Line(w)
  BY ZenonT(30) DEF Line

LEMMA LinePushed ==
  ASSUME RouterInv, NEW w \in Workers, PushPacket
  PROVE  Line(w)' = Line(w)
  <1>1. /\ batch[w] \in Seq(Requests) /\ packets_ \in Seq(Requests)
        /\ cur \in Requests /\ main = "push"
    BY DEF PushPacket, RouterInv, TypeOK, MainInv
  <1>2. /\ batch' = batch /\ packets_' = Append(packets_, cur)
        /\ main' = NextItem(revents)
    BY DEF PushPacket, Queue!Push
  <1>3. main' # "push"
    BY <1>2, NextItemType
  <1>4. PICK b \in Seq(Requests), p \in Seq(Requests), c \in Requests :
          b = batch[w] /\ p = packets_ /\ c = cur
    BY <1>1
  <1>5. PICK line : line = b \o p
    BY ZenonT(30)
  <1>6. line \in Seq(Requests) /\ b \o Append(p, c) = Append(line, c)
    BY <1>5, AppendConcat
  <1>7. line \o <<c>> = Append(line, c) /\ Append(line, c) \o <<>> = Append(line, c)
    BY <1>6
  <1>8. Line(w) = line \o <<c>> /\ Line(w)' = (b \o Append(p, c)) \o <<>>
    BY <1>1, <1>2, <1>3, <1>4, <1>5, ZenonT(30) DEF Line
  <1> QED
    BY <1>6, <1>7, <1>8, ZenonT(30)

LEMMA LinePopped ==
  ASSUME RouterInv, NEW w \in Workers, packets_ # <<>>, packets_' = Tail(packets_),
         batch' = [batch EXCEPT ![w] = Append(@, Head(packets_))], UNCHANGED <<main, cur>>
  PROVE  Line(w)' = Line(w)
  <1>1. /\ batch \in [Workers -> Seq(Requests)] /\ batch[w] \in Seq(Requests)
        /\ packets_ \in Seq(Requests)
    BY DEF RouterInv, TypeOK
  <1>2. batch'[w] = Append(batch[w], Head(packets_))
    BY <1>1
  <1>3. Append(batch[w], Head(packets_)) \o Tail(packets_) = batch[w] \o packets_
    BY <1>1, MoveHead
  <1>4. batch'[w] \o packets_' = batch[w] \o packets_
    BY <1>2, <1>3, ZenonT(30)
  <1> QED
    BY <1>4, ZenonT(30) DEF Line

LEMMA LineLengthened ==
  ASSUME RouterInv, NEW w \in Workers, UNCHANGED <<batch, packets_>>,
         main # "push", main' = "push", cur' \in Requests
  PROVE  Line(w)' = Append(Line(w), cur')
  <1>1. PICK x \in Requests : x = cur'
    OBVIOUS
  <1>2. PICK line : line = batch[w] \o packets_
    BY ZenonT(30)
  <1>3. line \in Seq(Requests)
    BY <1>2 DEF RouterInv, TypeOK
  <1>4. line \o <<x>> = Append(line, x) /\ line \o <<>> = line
    BY <1>3, AppendConcat
  <1>5. Line(w) = line \o <<>> /\ Line(w)' = line \o <<x>>
    BY <1>1, <1>2, ZenonT(30) DEF Line
  <1> QED
    BY <1>1, <1>4, <1>5, ZenonT(30)

LEMMA LineShortened ==
  ASSUME RouterInv, NEW w \in Workers, batch[w] # <<>>,
         batch' = [batch EXCEPT ![w] = Tail(@)], UNCHANGED <<packets_, main, cur>>
  PROVE  Line(w) # <<>> /\ Head(Line(w)) = Head(batch[w]) /\ Line(w)' = Tail(Line(w))
  <1>1. PICK hand : hand = IF main = "push" THEN <<cur>> ELSE <<>>
    BY ZenonT(30)
  <1>2. /\ batch \in [Workers -> Seq(Requests)] /\ batch[w] \in Seq(Requests)
        /\ packets_ \in Seq(Requests)
        /\ main = "push" => cur \in Requests
    BY DEF RouterInv, TypeOK, MainInv
  <1>3. hand \in Seq(Requests)
    <2>1. CASE main = "push"
      BY <1>1, <1>2, <2>1
    <2>2. CASE main # "push"
      BY <1>1, <2>2
    <2> QED
      BY <2>1, <2>2
  <1>4. PICK b \in Seq(Requests), p \in Seq(Requests) : b = batch[w] /\ p = packets_
    BY <1>2
  <1>5. PICK line : line = b \o p
    BY ZenonT(30)
  <1>6. /\ b # <<>> /\ batch'[w] = Tail(b) /\ line \in Seq(Requests)
        /\ line # <<>> /\ Head(line) = Head(b) /\ Tail(line) = Tail(b) \o p
    BY <1>2, <1>4, <1>5, TailConcat
  <1>7. /\ line \o hand # <<>> /\ Head(line \o hand) = Head(line)
        /\ Tail(line \o hand) = Tail(line) \o hand
    BY <1>3, <1>6, TailConcat
  <1>8. Line(w) = line \o hand /\ Line(w)' = (Tail(b) \o p) \o hand
    BY <1>1, <1>4, <1>5, <1>6, ZenonT(30) DEF Line
  <1> QED
    BY <1>4, <1>6, <1>7, <1>8, ZenonT(30)

\* A step runs what a worker has at the head of its batch, or the GETs that it
\* collected.
LEMMA RunBy ==
  ASSUME RouterInv, Next, NEW r \in Requests, executed'[r] # executed[r]
  PROVE  /\ executed'[r] = executed[r] + 1
         /\ \E v \in Workers : \/ /\ ServeSet(v) \/ ServeIncr(v)
                                  /\ r = Head(batch[v])
                               \/ GetKeys(v) /\ r \in Range(get_packets[v])
  <1>1. executed \in [Requests -> Nat] /\ batch \in [Workers -> Seq(Requests)]
    BY ZenonT(30) DEF RouterInv, TypeOK
  <1>2. executed' # executed
    OBVIOUS
  <1>3. PICK v \in Workers : ServeSet(v) \/ ServeIncr(v) \/ GetKeys(v)
    <2>1. CASE ClientStep
      BY <1>2, <2>1, ZenonT(30) DEF ClientStep, SendRequest, SendAsync
    <2>2. CASE MainStep
      BY <1>2, <2>2, ZenonT(30) DEF MainStep, Poll, ReceiveStep, ReceiveUnknown,
           ReceiveServerList, ReceiveSet, ReceiveStats, ReceiveOther, Receive, ReceiveAsync,
           Forward, CompareLists, SetDone, UnblockAll, NotifyAll, Install
    <2>3. CASE MainLock
      BY <1>2, <2>3, ZenonT(30) DEF MainLock, PushPacket, PopulateStats
    <2>4. ASSUME NEW w \in Workers, WorkerStep(w) \/ Acquire(w) \/ SpuriousWake(w)
          PROVE  ServeSet(w) \/ ServeIncr(w) \/ GetKeys(w)
      BY <1>2, <2>4, ZenonT(30) DEF WorkerStep, StartWorker, TestDone, PopStep, ServeGet,
                                    SendPacket, Acquire, SpuriousWake
    <2> QED
      BY <2>1, <2>2, <2>3, <2>4, ZenonT(30) DEF Next
  <1>4. CASE ServeSet(v) \/ ServeIncr(v)
    <2>1. executed' = [executed EXCEPT ![Head(batch[v])] = @ + 1]
      BY <1>4, ZenonT(30) DEF ServeSet, ServeIncr
    <2>2. r = Head(batch[v])
      BY <1>1, <2>1
    <2>3. executed'[r] = executed[r] + 1
      BY <1>1, <2>1, <2>2
    <2> QED
      BY <1>4, <2>2, <2>3
  <1>5. CASE GetKeys(v)
    <2>1. executed'[r] = executed[r] + Cardinality({i \in 1..Len(get_packets[v]) :
                                                      get_packets[v][i] = r})
      BY <1>2, <1>5, ZenonT(30) DEF GetKeys
    <2>2. get_packets[v] \in Seq(Requests) /\ IsInjective(get_packets[v])
      BY ZenonT(30) DEF RouterInv, TypeOK, NoDuplicates
    <2>3. /\ r \in Range(get_packets[v]) => executed'[r] = executed[r] + 1
          /\ r \notin Range(get_packets[v]) => executed'[r] = executed[r] + 0
      <3>1. /\ r \in Range(get_packets[v]) =>
                 Cardinality({i \in 1..Len(get_packets[v]) : get_packets[v][i] = r}) = 1
            /\ r \notin Range(get_packets[v]) =>
                 Cardinality({i \in 1..Len(get_packets[v]) : get_packets[v][i] = r}) = 0
        BY <2>2, CountOnce
      <3> QED
        BY <2>1, <3>1, ZenonT(30)
    <2>4. executed[r] + 0 = executed[r]
      BY <1>1
    <2>5. r \in Range(get_packets[v])
      BY <2>3, <2>4
    <2> QED
      BY <1>5, <2>3, <2>5
  <1> QED
    BY <1>3, <1>4, <1>5

LEMMA NotYetRun ==
  ASSUME RouterInv, Next, NEW r \in Requests, executed'[r] = 0
  PROVE  executed[r] = 0
  <1>1. executed[r] \in Nat
    BY DEF RouterInv, TypeOK
  <1>2. executed[r] + 1 # 0
    BY <1>1
  <1> QED
    BY <1>2, RunBy

\* A SET becomes acknowledged when it is received, not later.
LEMMA MustFollowBack ==
  ASSUME RouterInv, Next, sent' = sent, NEW s \in Requests, NEW r \in Requests,
         s \in router_ => s \in router_', MustFollow(s, r)'
  PROVE  MustFollow(s, r)
  <1>1. replies \in [Requests -> Nat]
    BY DEF RouterInv, TypeOK
  <1>2. Kind[s] = "SET" /\ replies'[s] > 0 /\ executed'[s] = 0 /\ executed'[r] = 0
    BY DEF MustFollow, Promised
  <1>3. executed[s] = 0 /\ executed[r] = 0
    BY <1>2, NotYetRun
  <1>4. ~ReceiveSet(s)
    BY DEF ReceiveSet, Receive
  <1>5. \A x \in Requests : x # s /\ Reply(x) => replies'[s] = replies[s]
    BY <1>1 DEF Reply
  <1>6. replies'[s] = replies[s]
    BY <1>2, <1>4, <1>5, OneAnswer
  <1> QED
    BY <1>2, <1>3, <1>6, ZenonT(30) DEF MustFollow, Promised

\* What is not run has no reply yet.
LEMMA Unanswered ==
  ASSUME RouterInv, NEW r \in sent, Kind[r] \in {"GET", "INCREMENT"}, executed[r] = 0
  PROVE  replies[r] = 0
  <1>1. replies[r] <= executed[r]
    BY OncePerRequest DEF ExactlyOnce
  <1>2. replies[r] \in Nat
    BY DEF RouterInv, TypeOK
  <1> QED
    BY <1>1, <1>2

\* A SET that is acknowledged and not run is in the queue, or on its way into it
\* or out of it.
LEMMA PromisedInLine ==
  ASSUME RouterInv, NEW w \in Workers, Workers = {w}, NEW s \in Requests, Promised(s),
         s \notin Async
  PROVE  s \in sent /\ s \in Range(Line(w))
  <1>1. Kind[s] = "SET" /\ executed[s] = 0 /\ replies[s] # 0
    BY DEF Promised, RouterInv, TypeOK
  <1>2. ~Fresh(s) /\ ~Settled(s)
    BY <1>1 DEF Fresh, Settled
  <1>3. PICK p \in Places : Where(s) = {p} /\ Stage(p[1], s) /\ s \in sent
    BY <1>2, ZenonT(30) DEF RouterInv, Fate
  <1>4. Has(p, s)
    BY <1>3, AtPlace
  <1>5. p[1] \notin {"router_", "async_", "get_packets", "sending", "worker_output_"}
    BY <1>1, <1>2, <1>3, ZenonT(30) DEF Stage
  <1>6. p[1] = "cur" => main = "push"
    BY <1>1, <1>3, ZenonT(30) DEF Stage
  <1>7. p[1] \in {"cur", "packets_"} \/ p = <<"batch", w>>
    BY <1>5, PlaceNames
  <1>8. s \in Range(batch[w]) \/ s \in Range(packets_) \/ (main = "push" /\ s = cur)
    BY <1>4, <1>6, <1>7 DEF Has
  <1> QED
    BY <1>3, <1>8, LineMembers

\* Steps that leave the line as it is.
LEMMA LineKept ==
  ASSUME RouterInv, Next, NEW w \in Workers, LineInv(w), Line(w)' = Line(w), sent' = sent,
         \A x \in router_ : x \in router_' \/ Kind[x] \notin {"GET", "SET", "INCREMENT"}
  PROVE  LineInv(w)'
  <1> SUFFICES ASSUME NEW s \in Requests, NEW r \in Requests, MustFollow(s, r)'
               PROVE  r \in router_' \/ Ahead(Line(w)', s, r)
    BY DEF LineInv
  <1>1. Kind[s] = "SET" /\ Kind[r] \in {"GET", "INCREMENT"}
    BY DEF MustFollow, Promised
  <1>2. MustFollow(s, r)
    BY <1>1, MustFollowBack
  <1>3. r \in router_ \/ Ahead(Line(w), s, r)
    BY <1>2 DEF LineInv
  <1> QED
    BY <1>1, <1>3, ZenonT(30)

\* A client sends.
LEMMA LineSent ==
  ASSUME RouterInv, Next, NEW w \in Workers, LineInv(w), ClientStep
  PROVE  LineInv(w)'
  <1>1. PICK x \in Requests : SendRequest(x) \/ SendAsync(x)
    BY DEF ClientStep
  <1>2. /\ x \notin sent /\ sent' = sent \cup {x}
        /\ router_' = router_ \cup {x} \/ (x \in Async /\ router_' = router_)
        /\ UNCHANGED <<replies, executed, main, cur, batch, packets_>>
    BY <1>1 DEF SendRequest, SendAsync
  <1>3. Line(w)' = Line(w)
    BY <1>2, LineRests
  <1>4. replies[x] = 0
    BY <1>2, ZenonT(30) DEF RouterInv, Fate, Fresh
  <1> SUFFICES ASSUME NEW s \in Requests, NEW r \in Requests, MustFollow(s, r)'
               PROVE  r \in router_' \/ Ahead(Line(w)', s, r)
    BY DEF LineInv
  <1>5. s # x
    BY <1>2, <1>4 DEF MustFollow, Promised
  <1>6. CASE r = x
    BY <1>2, <1>6 DEF MustFollow
  <1>7. CASE r # x
    <2>1. MustFollow(s, r)
      BY <1>2, <1>5, <1>7 DEF MustFollow, Promised
    <2> QED
      BY <1>2, <1>3, <2>1, ZenonT(30) DEF LineInv
  <1> QED
    BY <1>6, <1>7

\* A request is received that goes to the queue.
LEMMA LineReceived ==
  ASSUME RouterInv, OneOutstanding, Next, NEW w \in Workers, Workers = {w}, LineInv(w),
         NEW x \in Requests, ReceiveSet(x) \/ ReceiveOther(x)
  PROVE  LineInv(w)'
  <1>1. /\ main = "item0" /\ main' = "push" /\ cur' = x
        /\ x \in router_ /\ router_' = router_ \ {x}
        /\ UNCHANGED <<sent, executed, batch, packets_>>
    BY ZenonT(30) DEF ReceiveSet, ReceiveOther, Receive
  <1>2. Line(w) \in Seq(Requests) /\ Line(w)' = Append(Line(w), x)
    BY <1>1, LineMembers, LineLengthened
  <1>3. At(x, <<"router_", 0>>) /\ Fresh(x) /\ x \in sent
    <2>1. /\ <<"router_", 0>> \in Places /\ Has(<<"router_", 0>>, x)
          /\ <<"router_", 0>>[1] = "router_"
      BY <1>1, NamedPlaces, HasNames, ZenonT(30)
    <2> QED
      BY <2>1, Located, ZenonT(30) DEF Stage
  <1>4. x \notin Range(Line(w))
    BY <1>1, <1>3, LineMembers DEF At
  <1> SUFFICES ASSUME NEW s \in Requests, NEW r \in Requests, MustFollow(s, r)'
               PROVE  r \in router_' \/ Ahead(Line(w)', s, r)
    BY DEF LineInv
  <1>5. CASE s = x
    <2>1. /\ r \in sent \ Async /\ x \in sent \ Async /\ r # x /\ Client[r] = Client[x]
          /\ Kind[r] \in {"GET", "INCREMENT"} /\ executed[r] = 0
      BY <1>1, <1>5 DEF MustFollow, Promised
    <2>2. replies[r] = 0 /\ replies[x] = 0
      BY <1>3, <2>1, Unanswered DEF Fresh
    <2> QED
      BY <2>1, <2>2 DEF OneOutstanding
  <1>6. CASE s # x
    <2>1. MustFollow(s, r)
      BY <1>1, <1>6, MustFollowBack
    <2>2. s \in Range(Line(w))
      BY <2>1, PromisedInLine DEF MustFollow
    <2>3. CASE r = x
      BY <1>2, <1>4, <2>2, <2>3, AheadOfLast
    <2>4. CASE r # x
      <3>1. r \in router_ \/ Ahead(Line(w), s, r)
        BY <2>1 DEF LineInv
      <3>2. Ahead(Line(w), s, r) => Ahead(Line(w)', s, r)
        BY <1>2, <2>4, AheadAppended
      <3> QED
        BY <1>1, <2>4, <3>1, <3>2
    <2> QED
      BY <2>3, <2>4
  <1> QED
    BY <1>5, <1>6

LEMMA LineReceivedAsync ==
  ASSUME RouterInv, Next, NEW w \in Workers, LineInv(w), ReceiveAsync
  PROVE  LineInv(w)'
  <1>1. /\ main = "item1" /\ main' = "push"
        /\ UNCHANGED <<sent, router_, batch, packets_>>
    BY ZenonT(30) DEF ReceiveAsync
  <1>2. PICK i \in 1..Len(async_) : cur' = async_[i]
    BY DEF ReceiveAsync
  <1>3. PICK x : x = cur'
    OBVIOUS
  <1>4. async_ \in Seq(Requests)
    BY DEF RouterInv, TypeOK
  <1>5. x \in Requests /\ x \in Range(async_)
    BY <1>2, <1>3, <1>4, Members
  <1>6. x \in Async
    <2>1. /\ <<"async_", 0>> \in Places /\ Has(<<"async_", 0>>, x)
          /\ <<"async_", 0>>[1] = "async_"
      BY <1>5, NamedPlaces, HasNames, ZenonT(30)
    <2> QED
      BY <1>5, <2>1, Located, ZenonT(30) DEF Stage
  <1>7. Line(w) \in Seq(Requests) /\ Line(w)' = Append(Line(w), x)
    BY <1>1, <1>3, <1>5, LineMembers, LineLengthened
  <1> SUFFICES ASSUME NEW s \in Requests, NEW r \in Requests, MustFollow(s, r)'
               PROVE  r \in router_' \/ Ahead(Line(w)', s, r)
    BY DEF LineInv
  <1>8. MustFollow(s, r)
    BY <1>1, MustFollowBack
  <1>9. r # x
    BY <1>6, <1>8 DEF MustFollow
  <1>10. r \in router_ \/ Ahead(Line(w), s, r)
    BY <1>8 DEF LineInv
  <1>11. Ahead(Line(w), s, r) => Ahead(Line(w)', s, r)
    BY <1>5, <1>7, <1>9, AheadAppended
  <1> QED
    BY <1>1, <1>10, <1>11

\* The worker takes the next packet of its batch.
LEMMA LineServed ==
  ASSUME RouterInv, Next, NEW w \in Workers, LineInv(w),
         ServeSet(w) \/ ServeIncr(w) \/ ServeGet(w)
  PROVE  LineInv(w)'
  <1>1. PICK x : x = Head(batch[w])
    OBVIOUS
  <1>2. /\ batch[w] # <<>> /\ batch' = [batch EXCEPT ![w] = Tail(@)]
        /\ UNCHANGED <<sent, router_, packets_, main, cur>>
    BY ZenonT(30) DEF ServeSet, ServeIncr, ServeGet, TakeNext
  <1>3. x \in Requests
    BY <1>1, <1>2, Taken DEF RouterInv, TypeOK
  <1>4. Kind[x] # "SET" \/ executed'[x] # 0
    <2>1. CASE ServeSet(w)
      <3>1. executed' = [executed EXCEPT ![x] = @ + 1]
        BY <1>1, <2>1, ZenonT(30) DEF ServeSet
      <3>2. executed \in [Requests -> Nat]
        BY DEF RouterInv, TypeOK
      <3> QED
        BY <1>3, <3>1, <3>2
    <2>2. CASE ServeIncr(w) \/ ServeGet(w)
      BY <1>1, <2>2 DEF ServeIncr, ServeGet, TakeNext
    <2> QED
      BY <2>1, <2>2
  <1>5. /\ Line(w) \in Seq(Requests) /\ Line(w) # <<>>
        /\ Head(Line(w)) = x /\ Line(w)' = Tail(Line(w))
    BY <1>1, <1>2, LineMembers, LineShortened, ZenonT(30)
  <1> SUFFICES ASSUME NEW s \in Requests, NEW r \in Requests, MustFollow(s, r)'
               PROVE  r \in router_' \/ Ahead(Line(w)', s, r)
    BY DEF LineInv
  <1>6. MustFollow(s, r)
    BY <1>2, MustFollowBack
  <1>7. x # s
    BY <1>4, ZenonT(30) DEF MustFollow, Promised
  <1>8. r \in router_ \/ Ahead(Line(w), s, r)
    BY <1>6 DEF LineInv
  <1>9. Ahead(Line(w), s, r) => Ahead(Line(w)', s, r)
    BY <1>5, <1>7, AheadTaken
  <1> QED
    BY <1>2, <1>8, <1>9

LEMMA LineInvNext ==
  ASSUME RouterInv, OneOutstanding, Next, NEW w \in Workers, Workers = {w}, LineInv(w)
  PROVE  LineInv(w)'
  <1>1. CASE ReceiveStep
    <2>1. PICK x \in Requests : \/ ReceiveSet(x) \/ ReceiveOther(x)
                                \/ ReceiveUnknown(x) \/ ReceiveServerList(x) \/ ReceiveStats(x)
      BY <1>1, ZenonT(30) DEF ReceiveStep
    <2>2. CASE ReceiveUnknown(x) \/ ReceiveServerList(x) \/ ReceiveStats(x)
      <3>1. /\ main = "item0" /\ main' # "push" /\ router_' = router_ \ {x}
            /\ UNCHANGED <<sent, batch, packets_>>
            /\ Kind[x] \notin {"GET", "SET", "INCREMENT"}
        BY <2>2 DEF ReceiveUnknown, ReceiveServerList, ReceiveStats, Receive
      <3> QED
        BY <3>1, LineRests, LineKept
    <2> QED
      BY <2>1, <2>2, LineReceived
  <1>2. CASE PushPacket
    <2>1. UNCHANGED <<sent, router_>>
      BY <1>2 DEF PushPacket
    <2> QED
      BY <1>2, <2>1, LinePushed, LineKept
  <1>3. CASE Poll \/ PopulateStats \/ Forward \/ CompareLists \/ Install
    <2>1. main # "push" /\ UNCHANGED <<sent, router_, batch, packets_>>
      BY <1>3, ZenonT(30) DEF Poll, PopulateStats, Forward, CompareLists, Install, InitThreads,
                              Queue!Reset
    <2>2. main' # "push"
      BY <1>3, <2>1, NextItemType, ZenonT(30) DEF Poll, PopulateStats, Forward, CompareLists, Install,
                                      Acknowledge
    <2> QED
      BY <2>1, <2>2, LineRests, LineKept
  <1>4. CASE SetDone \/ UnblockAll \/ NotifyAll
    <2>1. main # "push" /\ main' # "push" /\ UNCHANGED <<sent, router_, batch, packets_>>
      BY <1>4 DEF SetDone, UnblockAll, NotifyAll, Queue!SetDone, Queue!NotifyAll
    <2> QED
      BY <2>1, LineRests, LineKept
  <1>5. CASE \/ StartWorker(w) \/ GetKeys(w) \/ SendPacket(w)
             \/ Acquire(w) \/ SpuriousWake(w)
    <2>1. UNCHANGED <<sent, router_, main, cur, batch, packets_>>
      BY <1>5, ZenonT(30) DEF StartWorker, GetKeys, SendPacket, Acquire, SpuriousWake,
                              Queue!Acquire, Queue!SpuriousWake
    <2> QED
      BY <2>1, LineRests, LineKept
  <1>6. CASE TestDone(w)
    <2>1. UNCHANGED <<sent, router_, main, cur, packets_>>
      BY <1>6, ZenonT(30) DEF TestDone, Queue!Call
    <2>2. batch' = batch
      <3>1. batch \in [Workers -> Seq(Requests)] /\ batch[w] = <<>>
        BY <1>6 DEF TestDone, RouterInv, TypeOK
      <3>2. batch' = batch \/ batch' = [batch EXCEPT ![w] = <<>>]
        BY <1>6, ZenonT(30) DEF TestDone, Queue!Call
      <3> QED
        BY <3>1, <3>2
    <2> QED
      BY <2>1, <2>2, LineRests, LineKept
  <1>7. CASE PopStep(w)
    <2>1. UNCHANGED <<sent, router_, main, cur>>
      BY <1>7, ZenonT(30) DEF PopStep
    <2>2. \/ UNCHANGED <<batch, packets_>>
          \/ /\ packets_ # <<>> /\ packets_' = Tail(packets_)
             /\ batch' = [batch EXCEPT ![w] = Append(@, Head(packets_))]
      BY <1>7, ZenonT(30) DEF PopStep, Queue!Step, Queue!Test, Queue!Sleep, Queue!CheckDone,
                              Queue!PopOther, Queue!PopGet, Queue!FinishPop
    <2>3. Line(w)' = Line(w)
      BY <2>1, <2>2, LineRests, LinePopped, ZenonT(30)
    <2> QED
      BY <2>1, <2>3, LineKept
  <1>8. CASE MainStep
    BY <1>1, <1>3, <1>4, <1>8, LineReceivedAsync DEF MainStep
  <1>9. CASE MainLock
    BY <1>2, <1>3, <1>9 DEF MainLock
  <1>10. ASSUME NEW v \in Workers, WorkerStep(v) \/ Acquire(v) \/ SpuriousWake(v)
         PROVE  LineInv(w)'
    <2>1. v = w
      OBVIOUS
    <2>2. WorkerStep(w) \/ Acquire(w) \/ SpuriousWake(w)
      BY <1>10, <2>1
    <2> QED
      BY <1>5, <1>6, <1>7, <2>2, LineServed DEF WorkerStep
  <1> QED
    BY <1>8, <1>9, <1>10, LineSent DEF Next

\* A worker that runs a GET or an INCREMENT has no SET behind it that would have
\* to come first.
LEMMA StepRunsSetFirst ==
  ASSUME RouterInv, Next, NEW w \in Workers, Workers = {w}, LineInv(w),
         NEW s \in Requests \ Async, NEW r \in Requests \ Async, Client[r] = Client[s],
         Kind[r] \in {"GET", "INCREMENT"}, executed'[r] > executed[r], Promised(s)
  PROVE  FALSE
  <1>1. executed[r] \in Nat
    BY DEF RouterInv, TypeOK
  <1>2. PICK v \in Workers : \/ /\ ServeSet(v) \/ ServeIncr(v)
                                /\ r = Head(batch[v])
                             \/ GetKeys(v) /\ r \in Range(get_packets[v])
    <2>1. executed'[r] # executed[r]
      BY <1>1
    <2> QED
      BY <2>1, RunBy, ZenonT(30)
  <1>3. v = w
    OBVIOUS
  <1>4. s \in sent
    BY PromisedInLine
  <1>5. CASE (ServeSet(w) \/ ServeIncr(w)) /\ r = Head(batch[w])
    <2>1. /\ batch[w] # <<>> /\ batch' = [batch EXCEPT ![w] = Tail(@)]
          /\ UNCHANGED <<packets_, main, cur>>
      BY <1>5, ZenonT(30) DEF ServeSet, ServeIncr, TakeNext
    <2>2. r \in sent /\ executed[r] = 0 /\ r \notin router_
      <3>1. r \in sent /\ Queued(r) /\ At(r, <<"batch", w>>)
        BY <1>5, <2>1, TakeNextFacts, ZenonT(30)
      <3>2. r \notin router_
        BY <3>1, ZenonT(30) DEF At
      <3> QED
        BY <3>1, <3>2, ZenonT(30) DEF Queued
    <2>3. Line(w) \in Seq(Requests) /\ Line(w) # <<>> /\ Head(Line(w)) = r
      BY <1>5, <2>1, LineMembers, LineShortened, ZenonT(30)
    <2>4. MustFollow(s, r)
      BY <1>4, <2>2, ZenonT(30) DEF MustFollow
    <2>5. Ahead(Line(w), s, r)
      BY <2>2, <2>4, ZenonT(30) DEF LineInv
    <2> QED
      BY <2>3, <2>5, AheadTaken
  <1>6. CASE GetKeys(w) /\ r \in Range(get_packets[w])
    <2>1. /\ <<"get_packets", w>> \in Places /\ Has(<<"get_packets", w>>, r)
          /\ <<"get_packets", w>>[1] = "get_packets"
      BY <1>6, NamedPlaces, HasNames, ZenonT(30)
    <2>2. At(r, <<"get_packets", w>>) /\ executed[r] = 0 /\ r \in sent
      BY <2>1, Located, ZenonT(30) DEF Stage, Fresh
    <2>3. r \notin router_ /\ r \notin Range(Line(w))
      BY <2>2, LineMembers DEF At
    <2>4. MustFollow(s, r)
      BY <1>4, <2>2, ZenonT(30) DEF MustFollow
    <2>5. Ahead(Line(w), s, r)
      BY <2>3, <2>4, ZenonT(30) DEF LineInv
    <2>6. \A j \in 1..Len(Line(w)) : Line(w)[j] \in Range(Line(w))
      BY LineMembers, Members
    <2> QED
      BY <2>3, <2>5, <2>6, ZenonT(30) DEF Ahead
  <1> QED
    BY <1>2, <1>3, <1>5, <1>6, ZenonT(30)
=============================================================================
