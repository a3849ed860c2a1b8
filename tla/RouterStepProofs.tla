-------------------------- MODULE RouterStepProofs --------------------------
(***************************************************************************)
(* Proofs about MemcacheRouter, second part: the main thread passes a      *)
(* request on or answers it, and the workers serve it.                     *)
(***************************************************************************)
EXTENDS RouterProofs

USE SMTT(30), SMTT(20), SMTT(10) DEF clientVars, socketVars, mainVars, listVars, workerVars, queueVars
-----------------------------------------------------------------------------
(***************************************************************************)
(* The main thread passes on what it has in hand, or answers it.           *)
(***************************************************************************)
LEMMA InHand ==
  ASSUME RouterInv, cur \in Requests
  PROVE  At(cur, <<"cur", 0>>) /\ Stage("cur", cur) /\ cur \in sent
  <1>1. <<"cur", 0>> \in Places /\ Has(<<"cur", 0>>, cur) /\ <<"cur", 0>>[1] = "cur"
    BY NamedPlaces, HasNames
  <1> QED
    BY <1>1, Located

LEMMA PushPacketInv ==
  ASSUME RouterInv, ~aborted, PushPacket
  PROVE  RouterInv'
  <1> DEFINE q == <<"packets_", 0>>
  <1>1. PICK x : x = cur
    OBVIOUS
  <1>2. /\ main = "push" /\ cur' = NoRequest /\ main' = NextItem(revents)
        /\ packets_' = Append(packets_, x)
        /\ UNCHANGED <<m_, queue_done_, batch, num_get_keys>>
        /\ UNCHANGED <<clientVars, socketVars, revents, listVars, aborted, workerVars>>
    BY <1>1 DEF PushPacket, Queue!Push
  <1>3. /\ TypeOK /\ NoDuplicates /\ Len(worker_output_) \in Nat /\ x \in Requests
        /\ packets_ \in Seq(Requests) /\ IsInjective(packets_)
    BY <1>1, <1>2, SocketCount, ZenonT(30) DEF RouterInv, MainInv, TypeOK, NoDuplicates
  <1>4. At(x, <<"cur", 0>>) /\ Queued(x) /\ x \in sent
    BY <1>1, <1>2, <1>3, InHand, ZenonT(30) DEF Stage
  <1>5. x \notin Range(packets_)
    BY <1>4, ZenonT(30) DEF At
  <1>6. /\ packets_' \in Seq(Requests) /\ IsInjective(packets_')
        /\ Range(packets_') = Range(packets_) \cup {x}
    BY <1>2, <1>3, <1>5, Added
  <1>7. main' \in {"poll", "item0", "item1", "item2"}
    BY <1>2, NextItemType
  <1>8. TypeOK'
    <2>1. pop_pc' \in [Workers -> Queue!Labels]
      <3>1. pop_pc \in [Workers -> Queue!Labels] /\ "wake" \in Queue!Labels
        BY <1>3 DEF TypeOK, Queue!Labels
      <3>2. \/ pop_pc' = pop_pc
            \/ \E w \in Workers : pop_pc' = [pop_pc EXCEPT ![w] = "wake"]
        BY DEF PushPacket, Queue!Push, Queue!Goto, Queue!waiters
      <3> QED
        BY <3>1, <3>2
    <2> QED
      BY <1>2, <1>3, <1>6, <1>7, <2>1, ZenonT(30) DEF TypeOK, MainLabels
  <1>9. MainInv'
    <2>1. ~list_locked
      BY <1>2 DEF RouterInv, MainInv
    <2> QED
      BY <1>2, <1>7, <2>1 DEF MainInv
  <1>10. WorkerInv' /\ NoDuplicates'
    BY <1>2, <1>3, <1>6, ZenonT(30) DEF RouterInv, WorkerInv, NoDuplicates
  <1>11. ASSUME NEW r \in Requests, r # x PROVE Fate(r)'
    <2>1. r # cur /\ r # cur'
      BY <1>1, <1>2, <1>11, NotNone
    <2>2. Stays(r)
      <3>1. MainStays(r)
        BY <1>2, <1>6, <1>11, <2>1 DEF MainStays
      <3>2. WorkersStay(r)
        BY <1>2, SameWorkers
      <3>3. SocketsStay(r)
        BY <1>2, <1>3, SameSockets
      <3> QED
        BY <3>1, <3>2, <3>3 DEF Stays
    <2>3. Fate(r)
      BY DEF RouterInv
    <2> QED
      BY <1>2, <1>11, <2>1, <2>2, <2>3, FateKept
  <1>12. Fate(x)'
    <2>1. x # cur'
      BY <1>2, <1>3, RouterAssumption
    <2>2. At(x, q)'
      BY <1>2, <1>4, <1>6, <2>1, ZenonT(30) DEF At
    <2>3. q \in Places' /\ q[1] = "packets_"
      BY DEF Places
    <2>4. Stage("packets_", x)'
      BY <1>2, <1>4, ZenonT(30) DEF Stage, Queued
    <2> QED
      BY <1>2, <1>4, <2>2, <2>3, <2>4, FateMoved
  <1> QED
    BY <1>3, <1>8, <1>9, <1>10, <1>11, <1>12 DEF RouterInv

\* A request that main answers itself is settled.
LEMMA AnswerInHand ==
  ASSUME RouterInv, cur \in Requests, main # "push", Reply(cur), cur' = NoRequest,
         UNCHANGED <<sent, socketVars, get_packets, sending, executed, packets_, batch>>
  PROVE  /\ NoDuplicates' /\ \A r \in Requests : Fate(r)'
         /\ replies' \in [Requests -> Nat]
  <1>1. PICK x \in Requests : x = cur
    OBVIOUS
  <1>2. TypeOK /\ NoDuplicates /\ Len(worker_output_) \in Nat
    BY SocketCount DEF RouterInv
  <1>3. At(x, <<"cur", 0>>) /\ Stage("cur", x) /\ x \in sent
    BY <1>1, InHand
  <1>4. Kind[x] \notin {"GET", "SET", "INCREMENT"} /\ executed[x] = 0 /\ replies[x] = 0
    BY <1>3 DEF Stage, Fresh
  <1>5. replies \in [Requests -> Nat] /\ replies' = [replies EXCEPT ![x] = @ + 1]
    BY <1>1, <1>2 DEF TypeOK, Reply
  <1>6. /\ replies' \in [Requests -> Nat] /\ replies'[x] = 1
        /\ \A r \in Requests : r # x => replies'[r] = replies[r]
    BY <1>4, <1>5
  <1>7. NoDuplicates'
    BY <1>2 DEF NoDuplicates
  <1>8. ASSUME NEW r \in Requests, r # x PROVE Fate(r)'
    <2>1. r # cur /\ r # cur'
      BY <1>1, <1>8, NotNone
    <2>2. Stays(r)
      <3>1. MainStays(r)
        BY <2>1 DEF MainStays
      <3>2. WorkersStay(r)
        BY SameWorkers
      <3>3. SocketsStay(r)
        BY <1>2, SameSockets
      <3> QED
        BY <3>1, <3>2, <3>3 DEF Stays
    <2>3. Fate(r)
      BY DEF RouterInv
    <2> QED
      BY <1>6, <1>8, <2>1, <2>2, <2>3, FateKept
  <1>9. Fate(x)'
    <2>1. x # cur'
      BY RouterAssumption
    <2>2. At(x, Nowhere)'
      BY <1>3, <2>1, ZenonT(30) DEF At, Nowhere
    <2>3. x \notin Async
      BY <1>4, RouterAssumption, ZenonT(30)
    <2>4. Settled(x)'
      BY <1>4, <1>6, <2>3, ZenonT(30) DEF Settled
    <2> QED
      BY <1>3, <2>2, <2>4, FateSettled
  <1> QED
    BY <1>6, <1>7, <1>8, <1>9

LEMMA PopulateStatsInv ==
  ASSUME RouterInv, ~aborted, PopulateStats
  PROVE  RouterInv'
  <1>1. /\ main = "stats" /\ Reply(cur) /\ cur' = NoRequest /\ main' = NextItem(revents)
        /\ UNCHANGED <<sent, socketVars, revents, listVars, aborted, workerVars, queueVars>>
    BY DEF PopulateStats
  <1>2. TypeOK /\ cur \in Requests /\ ~list_locked
    BY <1>1 DEF RouterInv, MainInv
  <1>3. /\ NoDuplicates' /\ \A r \in Requests : Fate(r)'
        /\ replies' \in [Requests -> Nat]
    BY <1>1, <1>2, AnswerInHand
  <1>4. main' \in {"poll", "item0", "item1", "item2"}
    BY <1>1, NextItemType
  <1>5. TypeOK'
    BY <1>1, <1>2, <1>3, <1>4, ZenonT(30) DEF TypeOK, MainLabels
  <1>6. MainInv' /\ WorkerInv'
    BY <1>1, <1>2, <1>4, ZenonT(30) DEF RouterInv, MainInv, WorkerInv
  <1> QED
    BY <1>3, <1>5, <1>6 DEF RouterInv

LEMMA CompareListsInv ==
  ASSUME RouterInv, ~aborted, CompareLists
  PROVE  RouterInv'
  <1>1. /\ main = "set_servers"
        /\ UNCHANGED <<sent, socketVars, revents, done_, server_list_, workerVars,
                       queueVars>>
    BY DEF CompareLists
  <1>2. TypeOK /\ cur \in Requests /\ Kind[cur] = "SERVER_LIST" /\ ~list_locked
    BY <1>1 DEF RouterInv, MainInv
  <1>3. CASE aborted' = TRUE /\ UNCHANGED <<list_locked, main, cur, replies>>
    <2>1. NoDuplicates' /\ \A r \in Requests : Fate(r)'
      BY <1>1, <1>3, Quiet
    <2>2. TypeOK'
      BY <1>1, <1>2, <1>3, ZenonT(30) DEF TypeOK
    <2>3. MainInv' /\ WorkerInv'
      BY <1>1, <1>3, ZenonT(30) DEF RouterInv, MainInv, WorkerInv
    <2> QED
      BY <2>1, <2>2, <2>3 DEF RouterInv
  <1>4. CASE Acknowledge /\ UNCHANGED <<list_locked, aborted>>
    <2>1. Reply(cur) /\ cur' = NoRequest /\ main' = NextItem(revents)
      BY <1>4 DEF Acknowledge
    <2>2. /\ NoDuplicates' /\ \A r \in Requests : Fate(r)'
          /\ replies' \in [Requests -> Nat]
      BY <1>1, <1>2, <2>1, AnswerInHand
    <2>3. main' \in {"poll", "item0", "item1", "item2"}
      BY <2>1, NextItemType
    <2>4. TypeOK'
      BY <1>1, <1>2, <1>4, <2>1, <2>2, <2>3, ZenonT(30) DEF TypeOK, MainLabels
    <2>5. MainInv' /\ WorkerInv'
      BY <1>1, <1>2, <1>4, <2>1, <2>3, ZenonT(30) DEF RouterInv, MainInv, WorkerInv
    <2> QED
      BY <2>2, <2>4, <2>5 DEF RouterInv
  <1>5. CASE list_locked' = TRUE /\ main' = "done" /\ UNCHANGED <<aborted, replies, cur>>
    <2>1. NoDuplicates' /\ \A r \in Requests : Fate(r)'
      BY <1>1, <1>5, Quiet
    <2>2. TypeOK'
      BY <1>1, <1>2, <1>5, ZenonT(30) DEF TypeOK, MainLabels
    <2>3. MainInv' /\ WorkerInv'
      BY <1>1, <1>2, <1>5, ZenonT(30) DEF RouterInv, MainInv, WorkerInv
    <2> QED
      BY <2>1, <2>2, <2>3 DEF RouterInv
  <1> QED
    BY <1>3, <1>4, <1>5, ZenonT(30) DEF CompareLists

LEMMA InstallInv ==
  ASSUME RouterInv, ~aborted, Install
  PROVE  RouterInv'
  <1>1. /\ main = "join" /\ server_list_' = ServerList[cur] /\ done_' = FALSE
        /\ queue_done_' = FALSE /\ wpc' = [w \in Workers |-> "start"]
        /\ list_locked' = FALSE
        /\ UNCHANGED <<m_, packets_, pop_pc, batch, num_get_keys>>
        /\ UNCHANGED <<sent, socketVars, revents, aborted, memc_, worker, get_packets,
                       sending, executed>>
    BY DEF Install, InitThreads, Queue!Reset
  <1>2. Reply(cur) /\ cur' = NoRequest /\ main' = NextItem(revents)
    BY DEF Install, Acknowledge
  <1>3. TypeOK /\ cur \in Requests /\ Kind[cur] = "SERVER_LIST"
    BY <1>1 DEF RouterInv, MainInv
  <1>4. ServerList[cur] \in Seq(Servers) /\ ServerList[cur] # <<>>
    BY <1>3, RouterAssumption
  <1>5. /\ NoDuplicates' /\ \A r \in Requests : Fate(r)'
        /\ replies' \in [Requests -> Nat]
    BY <1>1, <1>2, <1>3, AnswerInHand, ZenonT(30)
  <1>6. main' \in {"poll", "item0", "item1", "item2"}
    BY <1>2, NextItemType
  <1>7. TypeOK'
    BY <1>1, <1>2, <1>3, <1>4, <1>5, <1>6, ZenonT(30) DEF TypeOK, MainLabels
  <1>8. MainInv'
    BY <1>1, <1>2, <1>6 DEF MainInv
  <1>9. WorkerInv'
    <2>1. \A w \in Workers : sending[w] = <<>>
      BY ZenonT(30) DEF Install, Joined, RouterInv, WorkerInv
    <2> QED
      BY <1>1, <1>4, <2>1, ZenonT(30) DEF WorkerInv
  <1> QED
    BY <1>5, <1>7, <1>8, <1>9 DEF RouterInv

\* A reply of a worker goes to its client.
LEMMA ForwardInv ==
  ASSUME RouterInv, ~aborted, Forward
  PROVE  RouterInv'
  <1>1. PICK i \in 1..Len(worker_output_) :
          /\ worker_output_[i] # <<>>
          /\ worker_output_' = [worker_output_ EXCEPT ![i] = Tail(@)]
          /\ Reply(Head(worker_output_[i]))
    BY ZenonT(30) DEF Forward
  <1>2. PICK x : x = Head(worker_output_[i])
    OBVIOUS
  <1>3. /\ main = "item2" /\ revents' = {} /\ main' = "poll"
        /\ UNCHANGED <<sent, router_, async_, cur, listVars, aborted, workerVars, queueVars>>
    BY DEF Forward
  <1>4. /\ TypeOK /\ NoDuplicates /\ Len(worker_output_) \in Nat
        /\ worker_output_ \in Seq(Seq(Requests)) /\ cur = NoRequest /\ ~list_locked
    BY <1>3, SocketCount, ZenonT(30) DEF RouterInv, MainInv, TypeOK
  <1>5. worker_output_[i] \in Seq(Requests) /\ IsInjective(worker_output_[i])
    BY <1>4 DEF NoDuplicates
  <1>6. /\ x \in Requests /\ x \in Range(worker_output_[i])
        /\ Tail(worker_output_[i]) \in Seq(Requests)
        /\ IsInjective(Tail(worker_output_[i]))
        /\ Range(Tail(worker_output_[i])) = Range(worker_output_[i]) \ {x}
    BY <1>1, <1>2, <1>5, Taken
  <1>7. /\ worker_output_' \in Seq(Seq(Requests))
        /\ Len(worker_output_') = Len(worker_output_)
        /\ worker_output_'[i] = Tail(worker_output_[i])
        /\ \A j \in 1..Len(worker_output_) : j # i => worker_output_'[j] = worker_output_[j]
    BY <1>1, <1>4, <1>6
  <1>8. /\ At(x, <<"worker_output_", i>>) /\ x \in sent
        /\ Kind[x] \in {"GET", "INCREMENT"} /\ executed[x] = 1 /\ replies[x] = 0
    <2>1. /\ <<"worker_output_", i>> \in Places /\ Has(<<"worker_output_", i>>, x)
          /\ <<"worker_output_", i>>[1] = "worker_output_"
      BY <1>6, NamedPlaces, HasNames, ZenonT(30)
    <2> QED
      BY <1>6, <2>1, Located, ZenonT(30) DEF Stage
  <1>9. /\ replies' \in [Requests -> Nat] /\ replies'[x] = 1
        /\ \A r \in Requests : r # x => replies'[r] = replies[r]
    <2>1. replies \in [Requests -> Nat] /\ replies' = [replies EXCEPT ![x] = @ + 1]
      BY <1>1, <1>2, <1>4 DEF TypeOK, Reply
    <2> QED
      BY <1>6, <1>8, <2>1
  <1>10. TypeOK'
    BY <1>3, <1>4, <1>7, <1>9, ZenonT(30) DEF TypeOK, MainLabels
  <1>11. MainInv' /\ WorkerInv'
    BY <1>3, <1>4, ZenonT(30) DEF RouterInv, MainInv, WorkerInv
  <1>12. NoDuplicates'
    BY <1>3, <1>4, <1>6, <1>7, ZenonT(30) DEF NoDuplicates
  <1>13. ASSUME NEW r \in Requests, r # x PROVE Fate(r)'
    <2>1. Stays(r)
      <3>1. MainStays(r)
        BY <1>3, SameMain
      <3>2. WorkersStay(r)
        BY <1>3, SameWorkers
      <3>3. SocketsStay(r)
        BY <1>4, <1>6, <1>7, <1>13 DEF SocketsStay
      <3> QED
        BY <3>1, <3>2, <3>3 DEF Stays
    <2>2. Fate(r) /\ r # cur
      BY <1>4, RouterAssumption DEF RouterInv
    <2> QED
      BY <1>3, <1>9, <1>13, <2>1, <2>2, FateKept
  <1>14. Fate(x)'
    <2>1. At(x, Nowhere)'
      <3>1. \A j \in 1..Len(worker_output_) : x \notin Range(worker_output_'[j])
        BY <1>6, <1>7, <1>8, ZenonT(30) DEF At
      <3> QED
        BY <1>3, <1>7, <1>8, <3>1, ZenonT(30) DEF At, Nowhere
    <2>2. x \notin Async
      BY <1>6, <1>8, RouterAssumption, ZenonT(30)
    <2>3. Settled(x)'
      BY <1>3, <1>8, <1>9, <2>2, ZenonT(30) DEF Settled
    <2> QED
      BY <1>3, <1>8, <2>1, <2>3, FateSettled, ZenonT(30)
  <1> QED
    BY <1>6, <1>10, <1>11, <1>12, <1>13, <1>14 DEF RouterInv
-----------------------------------------------------------------------------
(***************************************************************************)
(* The workers.                                                            *)
(***************************************************************************)

\* A socket that is opened has nothing in it.
LEMMA StartWorkerInv ==
  ASSUME RouterInv, NEW w \in Workers, StartWorker(w)
  PROVE  RouterInv'
  <1>1. /\ wpc[w] = "start" /\ ~list_locked
        /\ memc_' = [memc_ EXCEPT ![w] = server_list_]
        /\ wpc' = [wpc EXCEPT ![w] = "run"]
        /\ UNCHANGED <<clientVars, router_, async_, mainVars, listVars, aborted,
                       get_packets, sending, executed, queueVars>>
    BY ZenonT(30) DEF StartWorker
  <1>2. /\ TypeOK /\ NoDuplicates /\ Len(worker_output_) \in Nat
        /\ worker_output_ \in Seq(Seq(Requests))
        /\ worker \in [Workers -> 0..Len(worker_output_)]
        /\ memc_ \in [Workers -> Seq(Servers)] /\ server_list_ \in Seq(Servers)
        /\ wpc \in [Workers -> {"dead", "start", "run", "send"}]
    BY SocketCount, ZenonT(30) DEF RouterInv, TypeOK
  <1>3. <<>> \in Seq(Requests) /\ Range(<<>>) = {} /\ IsInjective(<<>>)
    BY DEF Range, IsInjective
  <1>4. /\ worker_output_' \in Seq(Seq(Requests)) /\ Len(worker_output_') \in Nat
        /\ Len(worker_output_') >= Len(worker_output_)
        /\ \A j \in 1..Len(worker_output_) : worker_output_'[j] = worker_output_[j]
        /\ \A j \in 1..Len(worker_output_') :
             j \notin 1..Len(worker_output_) => worker_output_'[j] = <<>>
        /\ worker' \in [Workers -> 0..Len(worker_output_')]
    <2>1. CASE Len(worker_output_) < MaxSockets
      <3>1. /\ worker_output_' = Append(worker_output_, <<>>)
            /\ worker' = [worker EXCEPT ![w] = Len(worker_output_) + 1]
        BY <2>1, ZenonT(30) DEF StartWorker
      <3>2. /\ worker_output_' \in Seq(Seq(Requests))
            /\ Len(worker_output_') = Len(worker_output_) + 1
            /\ \A j \in 1..Len(worker_output_) : worker_output_'[j] = worker_output_[j]
            /\ worker_output_'[Len(worker_output_) + 1] = <<>>
        BY <1>2, <1>3, <3>1
      <3>3. \A j \in 1..(Len(worker_output_) + 1) :
              j \in 1..Len(worker_output_) \/ j = Len(worker_output_) + 1
        BY <1>2
      <3>4. \A j \in 0..Len(worker_output_) : j \in 0..(Len(worker_output_) + 1)
        BY <1>2
      <3>5. Len(worker_output_) + 1 \in 0..(Len(worker_output_) + 1)
        BY <1>2
      <3>6. worker' \in [Workers -> 0..(Len(worker_output_) + 1)]
        BY <1>2, <3>1, <3>4, <3>5
      <3> QED
        BY <1>2, <3>2, <3>3, <3>6
    <2>2. CASE ~(Len(worker_output_) < MaxSockets)
      <3>1. worker_output_' = worker_output_ /\ worker' = [worker EXCEPT ![w] = 0]
        BY <2>2 DEF StartWorker
      <3>2. 0 \in 0..Len(worker_output_)
        BY <1>2
      <3> QED
        BY <1>2, <3>1, <3>2
    <2> QED
      BY <2>1, <2>2
  <1>5. TypeOK'
    <2>1. /\ memc_' \in [Workers -> Seq(Servers)]
          /\ wpc' \in [Workers -> {"dead", "start", "run", "send"}]
      BY <1>1, <1>2
    <2> QED
      BY <1>1, <1>2, <1>4, <2>1, ZenonT(30) DEF TypeOK
  <1>6. MainInv'
    BY <1>1 DEF RouterInv, MainInv
  <1>7. WorkerInv'
    BY <1>1, <1>2, ZenonT(30) DEF RouterInv, WorkerInv
  <1>8. NoDuplicates'
    BY <1>1, <1>2, <1>3, <1>4, ZenonT(30) DEF NoDuplicates
  <1>9. ASSUME NEW r \in Requests PROVE Fate(r)'
    <2>1. Stays(r)
      <3>1. MainStays(r)
        BY <1>1, SameMain
      <3>2. WorkersStay(r)
        BY <1>1, SameWorkers
      <3>3. SocketsStay(r)
        BY <1>2, <1>3, <1>4, ZenonT(30) DEF SocketsStay
      <3> QED
        BY <3>1, <3>2, <3>3 DEF Stays
    <2>2. Fate(r)
      BY DEF RouterInv
    <2> QED
      BY <1>1, <2>1, <2>2, FateKept, ZenonT(30)
  <1> QED
    BY <1>5, <1>6, <1>7, <1>8, <1>9 DEF RouterInv

LEMMA TestDoneInv ==
  ASSUME RouterInv, NEW w \in Workers, TestDone(w)
  PROVE  RouterInv'
  <1>1. /\ wpc[w] = "run" /\ batch[w] = <<>>
        /\ UNCHANGED <<clientVars, socketVars, mainVars, listVars, aborted,
                       get_packets, sending, executed>>
    BY ZenonT(30) DEF TestDone, Serving
  <1>2. TypeOK
    BY DEF RouterInv
  <1>3. CASE done_
    <2>1. /\ wpc' = [wpc EXCEPT ![w] = "dead"] /\ memc_' = [memc_ EXCEPT ![w] = <<>>]
          /\ worker' = [worker EXCEPT ![w] = 0] /\ UNCHANGED queueVars
      BY <1>3, ZenonT(30) DEF TestDone
    <2>2. NoDuplicates' /\ \A r \in Requests : Fate(r)'
      BY <1>1, <2>1, Quiet
    <2>3. TypeOK'
      <3>1. 0 \in 0..Len(worker_output_) /\ <<>> \in Seq(Servers)
        BY <1>2, SocketCount
      <3>2. /\ wpc' \in [Workers -> {"dead", "start", "run", "send"}]
            /\ memc_' \in [Workers -> Seq(Servers)]
            /\ worker' \in [Workers -> 0..Len(worker_output_)]
        BY <1>2, <2>1, <3>1 DEF TypeOK
      <3> QED
        BY <1>1, <1>2, <2>1, <3>2, ZenonT(30) DEF TypeOK
    <2>4. MainInv'
      BY <1>1, ZenonT(30) DEF RouterInv, MainInv
    <2>5. WorkerInv'
      BY <1>1, <1>2, <2>1, ZenonT(30) DEF RouterInv, WorkerInv, TypeOK
    <2> QED
      BY <2>2, <2>3, <2>4, <2>5 DEF RouterInv
  <1>4. CASE ~done_
    <2>1. /\ pop_pc' = [pop_pc EXCEPT ![w] = "enter"]
          /\ batch' = [batch EXCEPT ![w] = <<>>]
          /\ UNCHANGED <<m_, packets_, queue_done_, num_get_keys, wpc, memc_, worker>>
      BY <1>4, ZenonT(30) DEF TestDone, Queue!Call, Queue!Goto
    <2>2. batch' = batch
      BY <1>1, <1>2, <2>1, ZenonT(30) DEF TypeOK
    <2>3. pop_pc' \in [Workers -> Queue!Labels]
      BY <1>2, <2>1 DEF TypeOK, Queue!Labels
    <2> QED
      BY <1>1, <1>2, <2>1, <2>2, <2>3, QueueQuiet, ZenonT(30) DEF TypeOK
  <1> QED
    BY <1>3, <1>4

\* The packet that a worker takes from its batch.
LEMMA TakeNextFacts ==
  ASSUME RouterInv, NEW w \in Workers, batch[w] # <<>>, NEW x, x = Head(batch[w]),
         batch' = [batch EXCEPT ![w] = Tail(batch[w])]
  PROVE  /\ x \in Requests /\ x \in sent /\ Queued(x)
         /\ At(x, <<"batch", w>>)
         /\ batch' \in [Workers -> Seq(Requests)] /\ IsInjective(batch'[w])
         /\ Range(batch'[w]) = Range(batch[w]) \ {x}
         /\ \A v \in Workers \ {w} : batch'[v] = batch[v]
  <1>1. batch \in [Workers -> Seq(Requests)] /\ IsInjective(batch[w])
    BY ZenonT(30) DEF RouterInv, TypeOK, NoDuplicates
  <1>2. /\ x \in Requests /\ x \in Range(batch[w]) /\ Tail(batch[w]) \in Seq(Requests)
        /\ IsInjective(Tail(batch[w])) /\ Range(Tail(batch[w])) = Range(batch[w]) \ {x}
    BY <1>1, Taken
  <1>3. /\ batch' \in [Workers -> Seq(Requests)] /\ batch'[w] = Tail(batch[w])
        /\ \A v \in Workers \ {w} : batch'[v] = batch[v]
    BY <1>1, <1>2
  <1>4. At(x, <<"batch", w>>) /\ Queued(x) /\ x \in sent
    <2>1. /\ <<"batch", w>> \in Places /\ Has(<<"batch", w>>, x)
          /\ <<"batch", w>>[1] = "batch"
      BY <1>2, NamedPlaces, HasNames, ZenonT(30)
    <2> QED
      BY <1>2, <2>1, Located, ZenonT(30) DEF Stage
  <1> QED
    BY <1>2, <1>3, <1>4

\* A SET that was run is settled: it was acknowledged, or nobody waits.
LEMMA ServeSetInv ==
  ASSUME RouterInv, NEW w \in Workers, ServeSet(w)
  PROVE  RouterInv'
  <1>1. PICK x : x = Head(batch[w])
    OBVIOUS
  <1>2. /\ TakeNext(w, "SET") /\ executed' = [executed EXCEPT ![x] = @ + 1]
        /\ UNCHANGED <<wpc, get_packets, sending>>
    BY <1>1 DEF ServeSet
  <1>3. UNCHANGED <<clientVars, socketVars, mainVars, listVars, aborted, memc_, worker,
                    m_, packets_, queue_done_, pop_pc, num_get_keys>>
    BY <1>2 DEF TakeNext
  <1>4. /\ x \in Requests /\ Kind[x] = "SET" /\ x \in sent /\ Queued(x)
        /\ At(x, <<"batch", w>>)
        /\ batch' \in [Workers -> Seq(Requests)] /\ IsInjective(batch'[w])
        /\ Range(batch'[w]) = Range(batch[w]) \ {x}
        /\ \A v \in Workers \ {w} : batch'[v] = batch[v]
    BY <1>1, <1>2, TakeNextFacts, ZenonT(30) DEF TakeNext
  <1>5. TypeOK /\ NoDuplicates /\ Len(worker_output_) \in Nat
    BY SocketCount DEF RouterInv
  <1>6. /\ executed' \in [Requests -> Nat] /\ executed'[x] = 1
        /\ \A r \in Requests : r # x => executed'[r] = executed[r]
    <2>1. executed \in [Requests -> Nat]
      BY <1>5 DEF TypeOK
    <2>2. x \in Requests /\ executed[x] = 0
      BY <1>4, ZenonT(30) DEF Queued
    <2>3. executed' = [executed EXCEPT ![x] = 1]
      BY <1>2, <2>1, <2>2
    <2> QED
      BY <2>1, <2>2, <2>3
  <1>7. TypeOK'
    BY <1>2, <1>3, <1>4, <1>5, <1>6, ZenonT(30) DEF TypeOK
  <1>8. MainInv' /\ WorkerInv'
    BY <1>2, <1>3, ZenonT(30) DEF RouterInv, MainInv, WorkerInv
  <1>9. NoDuplicates'
    BY <1>2, <1>3, <1>4, <1>5, ZenonT(30) DEF NoDuplicates
  <1>10. ASSUME NEW r \in Requests, r # x PROVE Fate(r)'
    <2>1. Stays(r)
      <3>1. MainStays(r)
        BY <1>3, SameMain
      <3>2. WorkersStay(r)
        BY <1>2, <1>4, <1>10 DEF WorkersStay
      <3>3. SocketsStay(r)
        BY <1>3, <1>5, SameSockets
      <3> QED
        BY <3>1, <3>2, <3>3 DEF Stays
    <2>2. Fate(r)
      BY DEF RouterInv
    <2> QED
      BY <1>3, <1>6, <1>10, <2>1, <2>2, FateKept
  <1>11. Fate(x)'
    <2>1. At(x, Nowhere)'
      BY <1>2, <1>3, <1>4, ZenonT(30) DEF At, Nowhere
    <2>2. Settled(x)'
      BY <1>3, <1>4, <1>6, ZenonT(30) DEF Settled, Queued
    <2> QED
      BY <1>3, <1>4, <2>1, <2>2, FateSettled
  <1> QED
    BY <1>4, <1>7, <1>8, <1>9, <1>10, <1>11 DEF RouterInv

LEMMA ServeIncrInv ==
  ASSUME RouterInv, NEW w \in Workers, ServeIncr(w)
  PROVE  RouterInv'
  <1> DEFINE q == <<"sending", w>>
  <1>1. PICK x : x = Head(batch[w])
    OBVIOUS
  <1>2. /\ TakeNext(w, "INCREMENT") /\ executed' = [executed EXCEPT ![x] = @ + 1]
        /\ sending' = [sending EXCEPT ![w] = <<x>>] /\ wpc' = [wpc EXCEPT ![w] = "send"]
        /\ UNCHANGED get_packets
    BY <1>1 DEF ServeIncr
  <1>3. /\ wpc[w] = "run"
        /\ UNCHANGED <<clientVars, socketVars, mainVars, listVars, aborted, memc_, worker,
                       m_, packets_, queue_done_, pop_pc, num_get_keys>>
    BY <1>2 DEF TakeNext, Serving
  <1>4. /\ x \in Requests /\ Kind[x] = "INCREMENT" /\ x \in sent /\ Queued(x)
        /\ At(x, <<"batch", w>>)
        /\ batch' \in [Workers -> Seq(Requests)] /\ IsInjective(batch'[w])
        /\ Range(batch'[w]) = Range(batch[w]) \ {x}
        /\ \A v \in Workers \ {w} : batch'[v] = batch[v]
    BY <1>1, <1>2, TakeNextFacts, ZenonT(30) DEF TakeNext
  <1>5. /\ TypeOK /\ NoDuplicates /\ Len(worker_output_) \in Nat
        /\ sending \in [Workers -> Seq(Requests)] /\ sending[w] = <<>>
        /\ wpc \in [Workers -> {"dead", "start", "run", "send"}]
    BY <1>3, SocketCount, ZenonT(30) DEF RouterInv, TypeOK, WorkerInv
  <1>6. /\ executed' \in [Requests -> Nat] /\ executed'[x] = 1
        /\ \A r \in Requests : r # x => executed'[r] = executed[r]
    <2>1. executed \in [Requests -> Nat]
      BY <1>5 DEF TypeOK
    <2>2. x \in Requests /\ executed[x] = 0
      BY <1>4, ZenonT(30) DEF Queued
    <2>3. executed' = [executed EXCEPT ![x] = 1]
      BY <1>2, <2>1, <2>2
    <2> QED
      BY <2>1, <2>2, <2>3
  <1>7. /\ <<x>> \in Seq(Requests) /\ <<x>> # <<>> /\ Range(<<x>>) = {x} /\ IsInjective(<<x>>)
        /\ Range(<<>>) = {}
    BY <1>4 DEF Range, IsInjective
  <1>8. /\ sending' \in [Workers -> Seq(Requests)] /\ sending'[w] = <<x>>
        /\ \A v \in Workers \ {w} : sending'[v] = sending[v]
        /\ wpc' \in [Workers -> {"dead", "start", "run", "send"}] /\ wpc'[w] = "send"
        /\ \A v \in Workers \ {w} : wpc'[v] = wpc[v]
    BY <1>2, <1>5, <1>7
  <1>9. TypeOK'
    BY <1>2, <1>3, <1>4, <1>5, <1>6, <1>8, ZenonT(30) DEF TypeOK
  <1>10. MainInv'
    BY <1>3 DEF RouterInv, MainInv
  <1>11. WorkerInv'
    BY <1>3, <1>7, <1>8, ZenonT(30) DEF RouterInv, WorkerInv
  <1>12. NoDuplicates'
    BY <1>2, <1>3, <1>4, <1>5, <1>7, <1>8, ZenonT(30) DEF NoDuplicates
  <1>13. ASSUME NEW r \in Requests, r # x PROVE Fate(r)'
    <2>1. r \notin Range(sending'[w]) /\ r \notin Range(sending[w])
      BY <1>5, <1>7, <1>8, <1>13, ZenonT(30)
    <2>2. Stays(r)
      <3>1. MainStays(r)
        BY <1>3, SameMain
      <3>2. WorkersStay(r)
        <4>1. \A v \in Workers : r \in Range(batch'[v]) <=> r \in Range(batch[v])
          BY <1>4, <1>13
        <4>2. \A v \in Workers : r \in Range(get_packets'[v]) <=> r \in Range(get_packets[v])
          BY <1>2
        <4>3. \A v \in Workers : r \in Range(sending'[v]) <=> r \in Range(sending[v])
          BY <1>8, <2>1
        <4> QED
          BY <4>1, <4>2, <4>3, ZenonT(30) DEF WorkersStay
      <3>3. SocketsStay(r)
        BY <1>3, <1>5, SameSockets
      <3> QED
        BY <3>1, <3>2, <3>3 DEF Stays
    <2>3. Fate(r)
      BY DEF RouterInv
    <2> QED
      BY <1>3, <1>6, <1>13, <2>2, <2>3, FateKept
  <1>14. Fate(x)'
    <2>1. x \in Range(sending'[w])
      BY <1>7, <1>8, ZenonT(30)
    <2>2. At(x, q)'
      BY <1>2, <1>3, <1>4, <1>8, <2>1, ZenonT(30) DEF At
    <2>3. q \in Places' /\ q[1] = "sending"
      BY DEF Places
    <2>4. Stage("sending", x)'
      <3>1. replies[x] = 0
        BY <1>4, ZenonT(30) DEF Queued
      <3> QED
        BY <1>3, <1>4, <1>6, <3>1, ZenonT(30) DEF Stage
    <2> QED
      BY <1>3, <1>4, <2>2, <2>3, <2>4, FateMoved, ZenonT(30)
  <1> QED
    BY <1>4, <1>9, <1>10, <1>11, <1>12, <1>13, <1>14 DEF RouterInv

LEMMA ServeGetInv ==
  ASSUME RouterInv, NEW w \in Workers, ServeGet(w)
  PROVE  RouterInv'
  <1> DEFINE q == <<"get_packets", w>>
  <1>1. PICK x : x = Head(batch[w])
    OBVIOUS
  <1>2. /\ TakeNext(w, "GET")
        /\ get_packets' = [get_packets EXCEPT ![w] = Append(get_packets[w], x)]
        /\ UNCHANGED <<wpc, sending, executed>>
    BY <1>1 DEF ServeGet
  <1>3. UNCHANGED <<clientVars, socketVars, mainVars, listVars, aborted, memc_, worker,
                    m_, packets_, queue_done_, pop_pc, num_get_keys>>
    BY <1>2 DEF TakeNext
  <1>4. /\ x \in Requests /\ Kind[x] = "GET" /\ x \in sent /\ Queued(x)
        /\ At(x, <<"batch", w>>)
        /\ batch' \in [Workers -> Seq(Requests)] /\ IsInjective(batch'[w])
        /\ Range(batch'[w]) = Range(batch[w]) \ {x}
        /\ \A v \in Workers \ {w} : batch'[v] = batch[v]
    BY <1>1, <1>2, TakeNextFacts, ZenonT(30) DEF TakeNext
  <1>5. /\ TypeOK /\ NoDuplicates /\ Len(worker_output_) \in Nat
        /\ get_packets \in [Workers -> Seq(Requests)] /\ IsInjective(get_packets[w])
    BY SocketCount, ZenonT(30) DEF RouterInv, TypeOK, NoDuplicates
  <1>6. x \notin Range(get_packets[w])
    BY <1>4, ZenonT(30) DEF At
  <1>7. /\ Append(get_packets[w], x) \in Seq(Requests)
        /\ IsInjective(Append(get_packets[w], x))
        /\ Range(Append(get_packets[w], x)) = Range(get_packets[w]) \cup {x}
    BY <1>4, <1>5, <1>6, Added
  <1>8. /\ get_packets' \in [Workers -> Seq(Requests)]
        /\ get_packets'[w] = Append(get_packets[w], x)
        /\ \A v \in Workers \ {w} : get_packets'[v] = get_packets[v]
    BY <1>2, <1>5, <1>7
  <1>9. TypeOK'
    BY <1>2, <1>3, <1>4, <1>5, <1>8, ZenonT(30) DEF TypeOK
  <1>10. MainInv' /\ WorkerInv'
    BY <1>2, <1>3, ZenonT(30) DEF RouterInv, MainInv, WorkerInv
  <1>11. NoDuplicates'
    BY <1>2, <1>3, <1>4, <1>5, <1>7, <1>8, ZenonT(30) DEF NoDuplicates
  <1>12. ASSUME NEW r \in Requests, r # x PROVE Fate(r)'
    <2>1. Stays(r)
      <3>1. MainStays(r)
        BY <1>3, SameMain
      <3>2. WorkersStay(r)
        <4>1. \A v \in Workers : r \in Range(batch'[v]) <=> r \in Range(batch[v])
          BY <1>4, <1>12
        <4>2. \A v \in Workers : r \in Range(get_packets'[v]) <=> r \in Range(get_packets[v])
          BY <1>7, <1>8, <1>12, ZenonT(30)
        <4>3. \A v \in Workers : r \in Range(sending'[v]) <=> r \in Range(sending[v])
          BY <1>2
        <4> QED
          BY <4>1, <4>2, <4>3, ZenonT(30) DEF WorkersStay
      <3>3. SocketsStay(r)
        BY <1>3, <1>5, SameSockets
      <3> QED
        BY <3>1, <3>2, <3>3 DEF Stays
    <2>2. Fate(r)
      BY DEF RouterInv
    <2> QED
      BY <1>2, <1>3, <1>12, <2>1, <2>2, FateKept
  <1>13. Fate(x)'
    <2>1. At(x, q)'
      BY <1>2, <1>3, <1>4, <1>7, <1>8, ZenonT(30) DEF At
    <2>2. q \in Places' /\ q[1] = "get_packets"
      BY DEF Places
    <2>3. Stage("get_packets", x)'
      BY <1>2, <1>3, <1>4, ZenonT(30) DEF Stage, Queued, Fresh
    <2> QED
      BY <1>3, <1>4, <2>1, <2>2, <2>3, FateMoved
  <1> QED
    BY <1>4, <1>9, <1>10, <1>11, <1>12, <1>13 DEF RouterInv

\* The next packet goes into the worker's socket.
LEMMA SendPacketInv ==
  ASSUME RouterInv, NEW w \in Workers, SendPacket(w)
  PROVE  RouterInv'
  <1>1. /\ wpc[w] = "send"
        /\ UNCHANGED <<clientVars, router_, async_, mainVars, listVars, memc_, worker,
                       get_packets, executed, queueVars>>
    BY ZenonT(30) DEF SendPacket
  <1>2. /\ TypeOK /\ NoDuplicates /\ Len(worker_output_) \in Nat
        /\ worker_output_ \in Seq(Seq(Requests))
        /\ sending \in [Workers -> Seq(Requests)] /\ sending[w] # <<>>
        /\ IsInjective(sending[w]) /\ worker[w] \in 0..Len(worker_output_)
        /\ wpc \in [Workers -> {"dead", "start", "run", "send"}]
    BY <1>1, SocketCount, ZenonT(30) DEF RouterInv, TypeOK, NoDuplicates, WorkerInv
  <1>3. CASE worker[w] = 0
    <2>1. aborted' = TRUE /\ UNCHANGED <<worker_output_, sending, wpc>>
      BY <1>3 DEF SendPacket
    <2>2. NoDuplicates' /\ \A r \in Requests : Fate(r)'
      BY <1>1, <2>1, Quiet
    <2>3. TypeOK'
      BY <1>1, <1>2, <2>1, ZenonT(30) DEF TypeOK
    <2>4. MainInv' /\ WorkerInv'
      BY <1>1, <2>1, ZenonT(30) DEF RouterInv, MainInv, WorkerInv
    <2> QED
      BY <2>2, <2>3, <2>4 DEF RouterInv
  <1>4. CASE worker[w] # 0
    <2>1. PICK i \in 1..Len(worker_output_) : i = worker[w]
      BY <1>2, <1>4
    <2>2. PICK x : x = Head(sending[w])
      OBVIOUS
    <2>3. /\ worker_output_' = [worker_output_ EXCEPT ![i] = Append(worker_output_[i], x)]
          /\ sending' = [sending EXCEPT ![w] = Tail(sending[w])]
          /\ wpc' = [wpc EXCEPT ![w] = IF Len(sending[w]) = 1 THEN "run" ELSE "send"]
          /\ UNCHANGED aborted
      BY <1>4, <2>1, <2>2 DEF SendPacket
    <2>4. /\ x \in Requests /\ x \in Range(sending[w]) /\ Tail(sending[w]) \in Seq(Requests)
          /\ IsInjective(Tail(sending[w])) /\ Range(Tail(sending[w])) = Range(sending[w]) \ {x}
      BY <1>2, <2>2, Taken
    <2>5. /\ At(x, <<"sending", w>>) /\ x \in sent
          /\ Kind[x] \in {"GET", "INCREMENT"} /\ executed[x] = 1 /\ replies[x] = 0
      <3>1. /\ <<"sending", w>> \in Places /\ Has(<<"sending", w>>, x)
            /\ <<"sending", w>>[1] = "sending"
        BY <2>4, NamedPlaces, HasNames, ZenonT(30)
      <3> QED
        BY <2>4, <3>1, Located, ZenonT(30) DEF Stage
    <2>6. /\ worker_output_[i] \in Seq(Requests) /\ IsInjective(worker_output_[i])
          /\ x \notin Range(worker_output_[i])
      BY <1>2, <2>5 DEF NoDuplicates, At
    <2>7. /\ Append(worker_output_[i], x) \in Seq(Requests)
          /\ IsInjective(Append(worker_output_[i], x))
          /\ Range(Append(worker_output_[i], x)) = Range(worker_output_[i]) \cup {x}
      BY <2>4, <2>6, Added
    <2>8. /\ worker_output_' \in Seq(Seq(Requests))
          /\ Len(worker_output_') = Len(worker_output_)
          /\ worker_output_'[i] = Append(worker_output_[i], x)
          /\ \A j \in 1..Len(worker_output_) : j # i => worker_output_'[j] = worker_output_[j]
      BY <1>2, <2>3, <2>7
    <2>9. /\ sending' \in [Workers -> Seq(Requests)] /\ sending'[w] = Tail(sending[w])
          /\ \A v \in Workers \ {w} : sending'[v] = sending[v]
      BY <1>2, <2>3, <2>4, ZenonT(30)
    <2>10. /\ wpc' \in [Workers -> {"dead", "start", "run", "send"}]
           /\ wpc'[w] \in {"run", "send"}
           /\ wpc'[w] = "send" <=> Tail(sending[w]) # <<>>
           /\ \A v \in Workers \ {w} : wpc'[v] = wpc[v]
      <3>1. PICK s \in Seq(Requests) : s = sending[w] /\ s # <<>>
        BY <1>2
      <3>2. Len(s) \in Nat \ {0} /\ Tail(s) \in Seq(Requests) /\ Len(Tail(s)) = Len(s) - 1
        BY <3>1
      <3>3. Tail(s) = <<>> <=> Len(Tail(s)) = 0
        BY <3>2, EmptyIff, ZenonT(30)
      <3>4. Len(sending[w]) = 1 <=> Tail(sending[w]) = <<>>
        BY <3>1, <3>2, <3>3
      <3> QED
        BY <1>2, <2>3, <3>4
    <2>11. TypeOK'
      BY <1>1, <1>2, <2>3, <2>8, <2>9, <2>10, ZenonT(30) DEF TypeOK
    <2>12. MainInv'
      BY <1>1, <2>3 DEF RouterInv, MainInv
    <2>13. WorkerInv'
      BY <1>1, <2>9, <2>10, ZenonT(30) DEF RouterInv, WorkerInv
    <2>14. NoDuplicates'
      BY <1>1, <1>2, <2>4, <2>7, <2>8, <2>9, ZenonT(30) DEF NoDuplicates
    <2>15. ASSUME NEW r \in Requests, r # x PROVE Fate(r)'
      <3>1. \A v \in Workers : r \in Range(sending'[v]) <=> r \in Range(sending[v])
        BY <2>4, <2>9, <2>15, ZenonT(30)
      <3>2. \A j \in 1..Len(worker_output_) :
              r \in Range(worker_output_'[j]) <=> r \in Range(worker_output_[j])
        BY <2>7, <2>8, <2>15, ZenonT(30)
      <3>3. Stays(r)
        <4>1. MainStays(r)
          BY <1>1, SameMain, ZenonT(30)
        <4>2. WorkersStay(r)
          BY <1>1, <3>1 DEF WorkersStay
        <4>3. SocketsStay(r)
          <5>1. Len(worker_output_') = Len(worker_output_) /\ Len(worker_output_) \in Nat
            BY <1>2, <2>8
          <5>2. Len(worker_output_') >= Len(worker_output_)
            BY <5>1
          <5> QED
            BY <3>2, <5>1, <5>2, ZenonT(30) DEF SocketsStay
        <4> QED
          BY <4>1, <4>2, <4>3 DEF Stays
      <3>4. Fate(r)
        BY DEF RouterInv
      <3> QED
        BY <1>1, <2>15, <3>3, <3>4, FateKept, ZenonT(30)
    <2>16. Fate(x)'
      <3>1. At(x, <<"worker_output_", i>>)'
        <4>1. \A v \in Workers : x \notin Range(sending'[v])
          BY <2>4, <2>5, <2>9, ZenonT(30) DEF At
        <4>2. \A j \in 1..Len(worker_output_) :
                x \in Range(worker_output_'[j])
                  <=> <<"worker_output_", i>> = <<"worker_output_", j>>
          BY <2>5, <2>7, <2>8, ZenonT(30) DEF At
        <4> QED
          BY <1>1, <2>5, <2>8, <4>1, <4>2, ZenonT(30) DEF At
      <3>2. /\ <<"worker_output_", i>> \in Places'
            /\ <<"worker_output_", i>>[1] = "worker_output_"
        BY <2>8 DEF Places
      <3>3. Stage("worker_output_", x)'
        BY <1>1, <2>5, ZenonT(30) DEF Stage
      <3> QED
        BY <1>1, <2>5, <3>1, <3>2, <3>3, FateMoved, ZenonT(30)
    <2> QED
      BY <2>4, <2>11, <2>12, <2>13, <2>14, <2>15, <2>16 DEF RouterInv
  <1> QED
    BY <1>3, <1>4
=============================================================================
