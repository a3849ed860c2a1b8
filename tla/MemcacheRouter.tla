--------------------------- MODULE MemcacheRouter ---------------------------
(***************************************************************************)
(* class MemcacheRouter of memcache_router.cpp: the main thread that polls *)
(* three sockets, the pool of worker threads that run ProcessPackets, the  *)
(* queue between them, and the exchange of the server list, which stops    *)
(* all workers and starts new ones.                                        *)
(*                                                                         *)
(* A packet is identified with the request it carries; every request is    *)
(* sent once.  The clients are external: one that uses its REQ socket has  *)
(* one request outstanding, the requests of Async go over PUSH sockets.    *)
(* What a request does to memcached and to the cache is one step here.     *)
(*                                                                         *)
(* A CHECK that fails aborts the process: no step follows.                 *)
(***************************************************************************)
EXTENDS Naturals, Sequences, FiniteSets, Functions

CONSTANTS
  Workers,      \* the num_threads_ workers
  Requests,     \* what the clients may send
  Kind,         \* Kind[r]: what Packet::GetType says of it
  NumKeys,      \* NumKeys[r]: get_keys_size()
  Servers,      \* memcached servers
  ServerList,   \* ServerList[r]: the servers of a SERVER_LIST request
  Client,       \* Client[r]: who sends it
  Async,        \* the requests that are sent to the PULL socket
  MaxKeys,      \* MAX_KEYS_PER_REQUEST
  PipeCap,      \* messages a worker's socket holds before a send blocks
  MaxSockets,   \* worker sockets the zmq context can open
  MgetMayFail,  \* whether memcached_mget may return an error
  NoThread,     \* the owner of a free mutex
  NoRequest     \* the main thread has no packet in hand

Kinds == {"GET", "SET", "INCREMENT", "SERVER_LIST", "STATS", "UNKNOWN"}

ASSUME RouterAssumption ==
  /\ Kind \in [Requests -> Kinds]
  /\ NumKeys \in [Requests -> Nat]
  /\ \A r \in Requests : NumKeys[r] > 0 <=> Kind[r] = "GET"
  /\ ServerList \in [Requests -> Seq(Servers)]
  /\ \A r \in Requests : Kind[r] = "SERVER_LIST" <=> ServerList[r] # <<>>
  /\ Async \subseteq {r \in Requests : Kind[r] = "SET"}
  /\ MaxKeys \in Nat \ {0} /\ PipeCap \in Nat \ {0} /\ MaxSockets \in Nat
  /\ MgetMayFail \in BOOLEAN
  /\ NoThread \notin Workers /\ NoRequest \notin Requests

VARIABLES
  \* the clients
  sent,            \* requests sent so far
  replies,         \* replies[r]: replies sent to the client of r
  \* the sockets
  router_,         \* requests that wait at the ROUTER socket
  async_,          \* requests that wait at the PULL socket, as they arrived
  worker_output_,  \* one FIFO per worker socket ever connected
  \* the main thread
  main,            \* its program counter, in Loop and in what Loop calls
  revents,         \* sockets that zmq_poll reported and that are still due
  cur,             \* the packet in hand
  \* shared by main and workers
  done_,           \* the router's own done_
  server_list_,    \* the installed list, <<>> for NULL
  list_locked,     \* main holds server_list_m_
  aborted,         \* a CHECK failed
  \* the workers
  wpc,             \* wpc[w]: "dead", "start", "run" or "send"
  memc_,           \* memc_[w]: the list its MemClient was initialised with
  worker,          \* worker[w]: the index of its socket, 0 for NULL
  get_packets,     \* get_packets[w]: the GETs of the current batch
  sending,         \* sending[w]: packets to be sent to the main thread next
  executed,        \* executed[r]: how often r was run against memcached
  \* the queue get_queue_
  m_, packets_, queue_done_, pop_pc, batch, num_get_keys

clientVars == <<sent, replies>>
socketVars == <<router_, async_, worker_output_>>
mainVars   == <<main, revents, cur>>
listVars   == <<done_, server_list_, list_locked>>
workerVars == <<wpc, memc_, worker, get_packets, sending, executed>>
queueVars  == <<m_, packets_, queue_done_, pop_pc, batch, num_get_keys>>

vars == <<clientVars, socketVars, mainVars, listVars, aborted, workerVars,
          queueVars>>

\* MaxQueue and main belong to the callers that PCQueue has when it is alone.
Queue == INSTANCE PCQueue
           WITH Threads <- Workers, Packets <- Requests, MaxQueue <- 0,
                done_ <- queue_done_, pc <- pop_pc, main <- "run"

Init ==
  /\ sent = {} /\ replies = [r \in Requests |-> 0]
  /\ router_ = {} /\ async_ = <<>> /\ worker_output_ = <<>>
  /\ main = "poll" /\ revents = {} /\ cur = NoRequest
  /\ done_ = FALSE /\ server_list_ = <<>> /\ list_locked = FALSE
  /\ aborted = FALSE
  /\ wpc = [w \in Workers |-> "dead"]
  /\ memc_ = [w \in Workers |-> <<>>]
  /\ worker = [w \in Workers |-> 0]
  /\ get_packets = [w \in Workers |-> <<>>]
  /\ sending = [w \in Workers |-> <<>>]
  /\ executed = [r \in Requests |-> 0]
  /\ m_ = NoThread /\ packets_ = <<>> /\ queue_done_ = FALSE
  /\ pop_pc = [w \in Workers |-> "out"]
  /\ batch = [w \in Workers |-> <<>>]
  /\ num_get_keys = [w \in Workers |-> 0]

Reply(r) == replies' = [replies EXCEPT ![r] = @ + 1]
-----------------------------------------------------------------------------
(***************************************************************************)
(* The clients.                                                            *)
(***************************************************************************)

\* A REQ socket sends its next request once the last one was answered.
SendRequest(r) ==
  /\ r \notin sent \cup Async
  /\ \A q \in sent \ Async : Client[q] = Client[r] => replies[q] > 0
  /\ sent' = sent \cup {r}
  /\ router_' = router_ \cup {r}
  /\ UNCHANGED <<replies, async_, worker_output_, mainVars, listVars, aborted,
                 workerVars, queueVars>>

SendAsync(r) ==
  /\ r \in Async \ sent
  /\ sent' = sent \cup {r}
  /\ async_' = Append(async_, r)
  /\ UNCHANGED <<replies, router_, worker_output_, mainVars, listVars, aborted,
                 workerVars, queueVars>>
-----------------------------------------------------------------------------
(***************************************************************************)
(* The main thread: Loop.  One round serves every socket that zmq_poll     *)
(* reported, in the order of the items; NextItem is where it goes on.      *)
(***************************************************************************)
NextItem(due) ==
  IF "router_" \in due THEN "item0"
  ELSE IF "async_" \in due THEN "item1"
  ELSE IF "worker_output_" \in due THEN "item2" ELSE "poll"

Readable ==
  {s \in {"router_", "async_", "worker_output_"} :
     CASE s = "router_" -> router_ # {}
       [] s = "async_"  -> async_ # <<>>
       [] OTHER -> \E i \in 1..Len(worker_output_) : worker_output_[i] # <<>>}

Poll ==
  /\ main = "poll"
  /\ Readable # {}
  /\ revents' = Readable
  /\ main' = NextItem(Readable)
  /\ UNCHANGED <<clientVars, socketVars, cur, listVars, aborted, workerVars,
                 queueVars>>

\* ReceiveOnePacket(router_): main has packet r in hand.
Receive(r) ==
  /\ main = "item0"
  /\ r \in router_
  /\ router_' = router_ \ {r}
  /\ revents' = revents \ {"router_"}
  /\ cur' = r
  /\ UNCHANGED <<sent, async_, worker_output_, listVars, workerVars, queueVars>>

\* GetType: CHECK(false) when the instruction holds nothing.
ReceiveUnknown(r) ==
  /\ Kind[r] = "UNKNOWN"
  /\ Receive(r)
  /\ aborted' = TRUE
  /\ UNCHANGED <<main, replies>>

ReceiveServerList(r) ==
  /\ Kind[r] = "SERVER_LIST"
  /\ Receive(r)
  /\ main' = "set_servers"
  /\ UNCHANGED <<replies, aborted>>

\* A SET is acknowledged before it is queued.
ReceiveSet(r) ==
  /\ Kind[r] = "SET"
  /\ Receive(r)
  /\ Reply(r)
  /\ main' = "push"
  /\ UNCHANGED aborted

ReceiveStats(r) ==
  /\ Kind[r] = "STATS"
  /\ Receive(r)
  /\ main' = "stats"
  /\ UNCHANGED <<replies, aborted>>

ReceiveOther(r) ==
  /\ Kind[r] \in {"GET", "INCREMENT"}
  /\ Receive(r)
  /\ main' = "push"
  /\ UNCHANGED <<replies, aborted>>

\* A sequence without its i-th element.
Without(s, i) ==
  [j \in 1..(Len(s) - 1) |-> IF j < i THEN s[j] ELSE s[j + 1]]

\* ReceiveOnePacket(async_): messages of one client keep their order.
ReceiveAsync ==
  /\ main = "item1"
  /\ \E i \in 1..Len(async_) :
       /\ \A j \in 1..(i - 1) : Client[async_[j]] # Client[async_[i]]
       /\ async_' = Without(async_, i)
       /\ cur' = async_[i]
       /\ aborted' = (Kind[async_[i]] # "SET")
  /\ revents' = revents \ {"async_"}
  /\ main' = "push"
  /\ UNCHANGED <<clientVars, router_, worker_output_, listVars, workerVars,
                 queueVars>>

\* get_queue_.Push(p)
PushPacket ==
  /\ main = "push"
  /\ Queue!Push(cur)
  /\ cur' = NoRequest
  /\ main' = NextItem(revents)
  /\ UNCHANGED <<clientVars, socketVars, revents, listVars, aborted, workerVars>>

\* PopulateStats reads the queue's counters under m_; then the reply.
PopulateStats ==
  /\ main = "stats"
  /\ m_ = NoThread
  /\ Reply(cur)
  /\ cur' = NoRequest
  /\ main' = NextItem(revents)
  /\ UNCHANGED <<sent, socketVars, revents, listVars, aborted, workerVars,
                 queueVars>>

\* One message of some worker goes to its client.
Forward ==
  /\ main = "item2"
  /\ \E i \in 1..Len(worker_output_) :
       /\ worker_output_[i] # <<>>
       /\ worker_output_' = [worker_output_ EXCEPT ![i] = Tail(@)]
       /\ Reply(Head(worker_output_[i]))
  /\ revents' = {}
  /\ main' = "poll"
  /\ UNCHANGED <<sent, router_, async_, cur, listVars, aborted, workerVars,
                 queueVars>>
-----------------------------------------------------------------------------
(***************************************************************************)
(* The main thread: SetMemcacheServers.                                    *)
(***************************************************************************)

\* Bug pattern: lists of the same length match.
MatchingByLength(new) ==
  IF server_list_ # <<>> /\ Len(new) = Len(server_list_) THEN {"matches"}
                                                        ELSE {"differs"}

(***************************************************************************)
(* IsServerListMatching compares the new list with the installed one at    *)
(* the positions of the INSTALLED list.  When the new list is shorter and  *)
(* agrees as far as it goes, servers(i) reads past its end: the read may   *)
(* crash, or find a server that differs, or a stale one that is equal.     *)
(***************************************************************************)
IsServerListMatching(new) ==
  LET common == 1..(IF Len(new) < Len(server_list_) THEN Len(new)
                                                    ELSE Len(server_list_))
  IN  IF server_list_ = <<>> \/ \E i \in common : server_list_[i] # new[i]
        THEN {"differs"}
      ELSE IF Len(new) < Len(server_list_)
        THEN {"differs", "matches", "crash"}
      ELSE {"matches"}

\* SendEmptyPacket and delete, the end of the SERVER_LIST branch.
Acknowledge ==
  /\ Reply(cur)
  /\ cur' = NoRequest
  /\ main' = NextItem(revents)

\* Lock server_list_m_ and compare; a matching list is acknowledged at once.
CompareLists ==
  /\ main = "set_servers"
  /\ \E outcome \in IsServerListMatching(ServerList[cur]) :
       \/ /\ outcome = "crash"
          /\ aborted' = TRUE
          /\ UNCHANGED <<list_locked, main, cur, replies>>
       \/ /\ outcome = "matches"
          /\ Acknowledge
          /\ UNCHANGED <<list_locked, aborted>>
       \/ /\ outcome = "differs"
          /\ list_locked' = TRUE
          /\ main' = "done"
          /\ UNCHANGED <<aborted, replies, cur>>
  /\ UNCHANGED <<sent, socketVars, revents, done_, server_list_, workerVars,
                 queueVars>>

\* BlockingWait, first statement.
SetDone ==
  /\ main = "done"
  /\ done_' = TRUE
  /\ main' = "unblock"
  /\ UNCHANGED <<clientVars, socketVars, revents, cur, server_list_, list_locked,
                 aborted, workerVars, queueVars>>

\* BlockingWait, second statement: the two statements of UnblockAll.
UnblockAll ==
  /\ main = "unblock"
  /\ Queue!SetDone
  /\ main' = "notify"
  /\ UNCHANGED <<clientVars, socketVars, revents, cur, listVars, aborted,
                 workerVars>>

NotifyAll ==
  /\ main = "notify"
  /\ Queue!NotifyAll
  /\ main' = "join"
  /\ UNCHANGED <<clientVars, socketVars, revents, cur, listVars, aborted,
                 workerVars>>

\* ThreadPool::Reset returns when every thread has ended.
Joined == \A w \in Workers : wpc[w] = "dead"

\* The flags are reset and new workers started.
InitThreads ==
  /\ done_' = FALSE
  /\ Queue!Reset
  /\ wpc' = [w \in Workers |-> "start"]

\* Bug pattern: the new list is installed without joining the old workers.
InstallWithoutJoin ==
  /\ main = "join"
  /\ server_list_' = ServerList[cur]
  /\ done_' = FALSE
  /\ Queue!Reset
  /\ wpc' = [w \in Workers |-> IF wpc[w] = "dead" THEN "start" ELSE wpc[w]]
  /\ list_locked' = FALSE
  /\ Acknowledge
  /\ UNCHANGED <<sent, socketVars, revents, aborted, memc_, worker, get_packets,
                 sending, executed>>

\* Bug pattern: the queue is emptied when the workers are replaced.
InstallEmptiesQueue ==
  /\ main = "join"
  /\ Joined
  /\ server_list_' = ServerList[cur]
  /\ done_' = FALSE
  /\ queue_done_' = FALSE /\ packets_' = <<>>
  /\ wpc' = [w \in Workers |-> "start"]
  /\ list_locked' = FALSE
  /\ Acknowledge
  /\ UNCHANGED <<sent, socketVars, revents, aborted, memc_, worker, get_packets,
                 sending, executed, m_, pop_pc, batch, num_get_keys>>

\* The workers are joined: install the list and start new workers, which wait
\* for server_list_m_ first; unlock it and acknowledge.
Install ==
  /\ main = "join"
  /\ Joined
  /\ server_list_' = ServerList[cur]
  /\ InitThreads
  /\ list_locked' = FALSE
  /\ Acknowledge
  /\ UNCHANGED <<sent, socketVars, revents, aborted, memc_, worker, get_packets,
                 sending, executed>>
-----------------------------------------------------------------------------
(***************************************************************************)
(* The workers: ProcessPackets.                                            *)
(***************************************************************************)

\* Bug pattern: the worker's socket is numbered but never created.
StartWithoutSocket(w) ==
  /\ wpc[w] = "start"
  /\ ~list_locked
  /\ memc_' = [memc_ EXCEPT ![w] = server_list_]
  /\ worker' = [worker EXCEPT ![w] = Len(worker_output_) + 1]
  /\ wpc' = [wpc EXCEPT ![w] = "run"]
  /\ UNCHANGED <<clientVars, socketVars, mainVars, listVars, aborted,
                 get_packets, sending, executed, queueVars>>

\* Initialise the MemClient under server_list_m_, then open a PUSH socket.
\* The socket of an earlier worker is never closed.
StartWorker(w) ==
  /\ wpc[w] = "start"
  /\ ~list_locked
  /\ memc_' = [memc_ EXCEPT ![w] = server_list_]
  /\ IF Len(worker_output_) < MaxSockets
       THEN /\ worker_output_' = Append(worker_output_, <<>>)
            /\ worker' = [worker EXCEPT ![w] = Len(worker_output_) + 1]
       ELSE /\ worker' = [worker EXCEPT ![w] = 0]
            /\ UNCHANGED worker_output_
  /\ wpc' = [wpc EXCEPT ![w] = "run"]
  /\ UNCHANGED <<clientVars, router_, async_, mainVars, listVars, aborted,
                 get_packets, sending, executed, queueVars>>

\* The worker has what BlockingPop returned.
Serving(w) == wpc[w] = "run" /\ pop_pc[w] = "out"

\* Bug pattern: while (true).
TestNothing(w) ==
  /\ Serving(w)
  /\ batch[w] = <<>> /\ get_packets[w] = <<>>
  /\ Queue!Call(w)
  /\ UNCHANGED <<clientVars, socketVars, mainVars, listVars, aborted, workerVars>>

\* while (!done_): the test, and the call of BlockingPop.
TestDone(w) ==
  /\ Serving(w)
  /\ batch[w] = <<>> /\ get_packets[w] = <<>>
  /\ IF done_
       THEN /\ wpc' = [wpc EXCEPT ![w] = "dead"]
            /\ memc_' = [memc_ EXCEPT ![w] = <<>>]
            /\ worker' = [worker EXCEPT ![w] = 0]
            /\ UNCHANGED queueVars
       ELSE /\ Queue!Call(w)
            /\ UNCHANGED <<wpc, memc_, worker>>
  /\ UNCHANGED <<clientVars, socketVars, mainVars, listVars, aborted,
                 get_packets, sending, executed>>

Acquire(w) ==
  /\ Queue!Acquire(w)
  /\ UNCHANGED <<clientVars, socketVars, mainVars, listVars, aborted, workerVars>>

PopStep(w) ==
  /\ Queue!Step(w)
  /\ UNCHANGED <<clientVars, socketVars, mainVars, listVars, aborted, workerVars>>

SpuriousWake(w) ==
  /\ Queue!SpuriousWake(w)
  /\ UNCHANGED <<clientVars, socketVars, mainVars, listVars, aborted, workerVars>>

\* The next packet of the batch is of kind k.
TakeNext(w, k) ==
  /\ Serving(w)
  /\ batch[w] # <<>>
  /\ Kind[Head(batch[w])] = k
  /\ batch' = [batch EXCEPT ![w] = Tail(@)]
  /\ UNCHANGED <<clientVars, socketVars, mainVars, listVars, aborted, memc_,
                 worker, m_, packets_, queue_done_, pop_pc, num_get_keys>>

\* client.SetKeys(p); no reply.
ServeSet(w) ==
  /\ TakeNext(w, "SET")
  /\ executed' = [executed EXCEPT ![Head(batch[w])] = @ + 1]
  /\ UNCHANGED <<wpc, get_packets, sending>>

\* client.IncrKeys(p), then SendAndDeletePacket.
ServeIncr(w) ==
  /\ TakeNext(w, "INCREMENT")
  /\ executed' = [executed EXCEPT ![Head(batch[w])] = @ + 1]
  /\ sending' = [sending EXCEPT ![w] = <<Head(batch[w])>>]
  /\ wpc' = [wpc EXCEPT ![w] = "send"]
  /\ UNCHANGED get_packets

\* The keys of a GET are collected.
ServeGet(w) ==
  /\ TakeNext(w, "GET")
  /\ get_packets' = [get_packets EXCEPT ![w] = Append(@, Head(batch[w]))]
  /\ UNCHANGED <<wpc, sending, executed>>

\* client.GetKeys for all collected GETs, or its CHECK fails.
GetKeys(w) ==
  /\ Serving(w)
  /\ batch[w] = <<>> /\ get_packets[w] # <<>>
  /\ \/ /\ executed' = [r \in Requests |->
                          executed[r] + Cardinality({i \in 1..Len(get_packets[w]) :
                                                       get_packets[w][i] = r})]
        /\ sending' = [sending EXCEPT ![w] = get_packets[w]]
        /\ get_packets' = [get_packets EXCEPT ![w] = <<>>]
        /\ wpc' = [wpc EXCEPT ![w] = "send"]
        /\ UNCHANGED aborted
     \/ /\ MgetMayFail
        /\ aborted' = TRUE
        /\ UNCHANGED <<executed, sending, get_packets, wpc>>
  /\ UNCHANGED <<clientVars, socketVars, mainVars, listVars, memc_, worker,
                 queueVars>>

\* SendAndDeletePacket(worker, p) blocks while the socket's pipe is full, and
\* its CHECK fails without a socket.
SendPacket(w) ==
  /\ wpc[w] = "send"
  /\ IF worker[w] = 0
       THEN /\ aborted' = TRUE
            /\ UNCHANGED <<worker_output_, sending, wpc>>
       ELSE /\ Len(worker_output_[worker[w]]) < PipeCap
            /\ worker_output_' = [worker_output_ EXCEPT
                                    ![worker[w]] = Append(@, Head(sending[w]))]
            /\ sending' = [sending EXCEPT ![w] = Tail(@)]
            /\ wpc' = [wpc EXCEPT ![w] = IF Len(sending[w]) = 1 THEN "run"
                                                                ELSE "send"]
            /\ UNCHANGED aborted
  /\ UNCHANGED <<clientVars, router_, async_, mainVars, listVars, memc_, worker,
                 get_packets, executed, queueVars>>
-----------------------------------------------------------------------------
ClientStep == \E r \in Requests : SendRequest(r) \/ SendAsync(r)

ReceiveStep ==
  \E r \in Requests :
    \/ ReceiveUnknown(r)
    \/ ReceiveServerList(r)
    \/ ReceiveSet(r)
    \/ ReceiveStats(r)
    \/ ReceiveOther(r)

\* Steps of the main thread that wait for no mutex of the queue.
MainStep ==
  \/ Poll
  \/ ReceiveStep
  \/ ReceiveAsync
  \/ Forward
  \/ CompareLists
  \/ SetDone
  \/ UnblockAll
  \/ NotifyAll
  \/ Install

\* Steps of the main thread that lock m_.
MainLock == PushPacket \/ PopulateStats

WorkerStep(w) ==
  \/ StartWorker(w)
  \/ TestDone(w)
  \/ PopStep(w)
  \/ ServeSet(w)
  \/ ServeIncr(w)
  \/ ServeGet(w)
  \/ GetKeys(w)
  \/ SendPacket(w)

Next ==
  /\ ~aborted
  /\ \/ ClientStep
     \/ MainStep
     \/ MainLock
     \/ \E w \in Workers : WorkerStep(w) \/ Acquire(w) \/ SpuriousWake(w)

Spec == Init /\ [][Next]_vars

(***************************************************************************)
(* Threads run, and a thread that keeps finding the mutex of the queue     *)
(* free gets it in the end.  Clients need not send, and condition          *)
(* variables need not wake up spuriously.  memcached answers: a worker     *)
(* does not stay in libmemcached for ever (its calls time out).            *)
(***************************************************************************)
Fairness ==
  /\ WF_vars(~aborted /\ MainStep)
  /\ SF_vars(~aborted /\ MainLock)
  /\ \A w \in Workers : WF_vars(~aborted /\ WorkerStep(w))
  /\ WF_vars(~aborted /\ \E w \in Workers : Acquire(w))

FairSpec == Spec /\ Fairness
-----------------------------------------------------------------------------
MainLabels == {"poll", "item0", "item1", "item2", "push", "stats", "set_servers",
               "done", "unblock", "notify", "join"}

\* The type invariant of the router.
TypeOK ==
  /\ sent \subseteq Requests /\ replies \in [Requests -> Nat]
  /\ router_ \subseteq Requests
  /\ async_ \in Seq(Requests)
  /\ worker_output_ \in Seq(Seq(Requests))
  /\ main \in MainLabels
  /\ revents \subseteq {"router_", "async_", "worker_output_"}
  /\ cur \in Requests \cup {NoRequest}
  /\ done_ \in BOOLEAN /\ list_locked \in BOOLEAN /\ aborted \in BOOLEAN
  /\ server_list_ \in Seq(Servers)
  /\ wpc \in [Workers -> {"dead", "start", "run", "send"}]
  /\ memc_ \in [Workers -> Seq(Servers)]
  /\ worker \in [Workers -> 0..Len(worker_output_)]
  /\ get_packets \in [Workers -> Seq(Requests)]
  /\ sending \in [Workers -> Seq(Requests)]
  /\ executed \in [Requests -> Nat]
  /\ m_ \in Workers \cup {NoThread}
  /\ packets_ \in Seq(Requests)
  /\ queue_done_ \in BOOLEAN
  /\ pop_pc \in [Workers -> Queue!Labels]
  /\ batch \in [Workers -> Seq(Requests)]
  /\ num_get_keys \in [Workers -> Nat]

(***************************************************************************)
(* The places where a request can be while the router has it: the two      *)
(* sockets, the main thread, the queue, the workers and their sockets.     *)
(***************************************************************************)
Places ==
  ({"router_", "async_", "cur", "packets_"} \X {0})
    \cup ({"batch", "get_packets", "sending"} \X Workers)
    \cup ({"worker_output_"} \X (1..Len(worker_output_)))

Has(p, r) ==
  \/ p[1] = "router_" /\ r \in router_
  \/ p[1] = "async_" /\ r \in Range(async_)
  \/ p[1] = "cur" /\ r = cur
  \/ p[1] = "packets_" /\ r \in Range(packets_)
  \/ p[1] = "batch" /\ r \in Range(batch[p[2]])
  \/ p[1] = "get_packets" /\ r \in Range(get_packets[p[2]])
  \/ p[1] = "sending" /\ r \in Range(sending[p[2]])
  \/ p[1] = "worker_output_" /\ r \in Range(worker_output_[p[2]])

Where(r) == {p \in Places : Has(p, r)}

InFlight(r) == Cardinality(Where(r))

\* No place has a request twice.
NoDuplicates ==
  /\ IsInjective(async_) /\ IsInjective(packets_)
  /\ \A w \in Workers : /\ IsInjective(batch[w]) /\ IsInjective(get_packets[w])
                        /\ IsInjective(sending[w])
  /\ \A i \in 1..Len(worker_output_) : IsInjective(worker_output_[i])

\* No request is lost or duplicated, not even when the workers are replaced
\* while packets are queued or half served: a request is in the router exactly
\* once until it has its one reply (a SET: until it was run, and an async SET
\* gets none), and what is replied by a worker was run exactly once.
ExactlyOnce ==
  /\ NoDuplicates
  /\ \A r \in sent :
       CASE Kind[r] = "SET" ->
              /\ InFlight(r) + executed[r] = 1
              /\ replies[r] <= (IF r \in Async THEN 0 ELSE 1)
         [] Kind[r] \in {"GET", "INCREMENT"} ->
              /\ InFlight(r) + replies[r] = 1
              /\ replies[r] <= executed[r] /\ executed[r] <= 1
         [] OTHER ->
              InFlight(r) + replies[r] = 1 /\ executed[r] = 0

\* Requests run against the installed list only, and not before there is one
\* ("Until an instruction arrives for setting hosts, the router wouldn't
\* process any requests"): a worker that serves has a MemClient for exactly
\* the list that is installed now.
ServedByCurrentList ==
  \A w \in Workers :
    wpc[w] \in {"run", "send"} => memc_[w] = server_list_ /\ server_list_ # <<>>

\* What main has in hand is what its place in Loop asks for, and it holds
\* server_list_m_ while the workers are exchanged.
MainInv ==
  /\ main \in {"done", "unblock", "notify", "join"} <=> list_locked
  /\ list_locked \/ main = "set_servers" => cur \in Requests /\ Kind[cur] = "SERVER_LIST"
  /\ main = "stats" => cur \in Requests /\ Kind[cur] = "STATS"
  /\ main = "push" => cur \in Requests
  /\ main \in {"poll", "item0", "item1", "item2"} /\ ~aborted => cur = NoRequest

\* Workers are started with a list; a worker has packets to send only while it
\* sends them.
WorkerInv ==
  \A w \in Workers :
    /\ wpc[w] # "dead" => server_list_ # <<>>
    /\ wpc[w] \in {"run", "send"} => memc_[w] = server_list_
    /\ wpc[w] = "send" <=> sending[w] # <<>>

\* A packet of the queue: not yet run, and a SET is acknowledged by now.
Queued(r) ==
  /\ Kind[r] \in {"GET", "SET", "INCREMENT"}
  /\ executed[r] = 0
  /\ replies[r] = IF Kind[r] = "SET" /\ r \notin Async THEN 1 ELSE 0

Fresh(r) == executed[r] = 0 /\ replies[r] = 0

\* What the place of a request tells of it.
Stage(place, r) ==
  /\ place = "router_" => r \notin Async /\ Fresh(r)
  /\ place = "async_" => r \in Async /\ Fresh(r)
  /\ place = "cur" => IF main = "push" THEN Queued(r)
                      ELSE /\ Kind[r] \notin {"GET", "SET", "INCREMENT"}
                           /\ Fresh(r)
  /\ place \in {"packets_", "batch"} => Queued(r)
  /\ place = "get_packets" => Kind[r] = "GET" /\ Fresh(r)
  /\ place \in {"sending", "worker_output_"} =>
       Kind[r] \in {"GET", "INCREMENT"} /\ executed[r] = 1 /\ replies[r] = 0

\* The router is through with a request.
Settled(r) ==
  /\ executed[r] = IF Kind[r] \in {"GET", "SET", "INCREMENT"} THEN 1 ELSE 0
  /\ replies[r] = IF r \in Async THEN 0 ELSE 1

\* Every request is unsent, or in one place, or settled.
Fate(r) ==
  \/ r \notin sent /\ Where(r) = {} /\ Fresh(r)
  \/ r \in sent /\ \E p \in Places : Where(r) = {p} /\ Stage(p[1], r)
  \/ r \in sent /\ Where(r) = {} /\ Settled(r)

\* The inductive invariant of main thread, workers and sockets.
RouterInv ==
  /\ TypeOK /\ MainInv /\ WorkerInv /\ NoDuplicates
  /\ \A r \in Requests : Fate(r)

Agree(list, other) ==
  \A i \in 1..Len(list) : i <= Len(other) => list[i] = other[i]

\* When send_host_list gets its acknowledgement, the installed list agrees with
\* the list that was sent as far as both go.  (It need not be that list: a
\* longer one that extends the installed one counts as matching.)
AckedListInstalled ==
  [][\A r \in Requests :
       Kind[r] = "SERVER_LIST" /\ replies'[r] > replies[r]
         => Agree(server_list_', ServerList[r])]_vars

\* A SET that is acknowledged and not yet run.
Promised(s) == Kind[s] = "SET" /\ replies[s] > 0 /\ executed[s] = 0

\* With one worker, a client that has a SET acknowledged over its REQ socket
\* sees it: a GET or an INCREMENT of that client runs after all its SETs that
\* were acknowledged.
AckedSetRunsFirst ==
  [][\A s, r \in Requests \ Async :
       /\ Client[r] = Client[s] /\ Kind[r] \in {"GET", "INCREMENT"}
       /\ executed'[r] > executed[r]
       => ~Promised(s)]_vars

\* A worker is in BlockingPop only while it runs.
PopInv == \A w \in Workers : pop_pc[w] # "out" => wpc[w] = "run"

\* A client has one request at most that is not answered, over its REQ socket.
OneOutstanding ==
  \A q, r \in sent \ Async :
    q # r /\ Client[q] = Client[r] => replies[q] > 0 \/ replies[r] > 0

\* The packets on their way to worker w, in the order in which w gets them if
\* it is the only one: its batch, the queue, and what main is about to push.
Line(w) ==
  batch[w] \o packets_ \o (IF main = "push" THEN <<cur>> ELSE <<>>)

\* r is in line, and wherever it is, s stands before it.
Ahead(line, s, r) ==
  /\ \E j \in 1..Len(line) : line[j] = r
  /\ \A j \in 1..Len(line) : line[j] = r => \E i \in 1..(j - 1) : line[i] = s

\* r is to run after s: one client has both sent over its REQ socket, the SET s
\* is acknowledged and not run, and r is not run either.
MustFollow(s, r) ==
  /\ {s, r} \subseteq sent \ Async /\ Client[r] = Client[s]
  /\ Promised(s)
  /\ Kind[r] \in {"GET", "INCREMENT"} /\ executed[r] = 0

\* What is to run after s has not been received, or stands in line behind s.
LineInv(w) ==
  \A s, r \in Requests :
    MustFollow(s, r) => r \in router_ \/ Ahead(Line(w), s, r)

\* The inductive invariant of the way through the queue: what the queue keeps
\* when its callers are the router's threads, and in which order packets come
\* to a single worker.
FlowInv ==
  /\ Queue!QueueInv /\ PopInv /\ OneOutstanding
  /\ \A w \in Workers : Workers = {w} => LineInv(w)

(***************************************************************************)
(* The three ways in which thread_pool_.Reset() waits for a thread that    *)
(* does not end: it sleeps in BlockingPop although notify_all was called,  *)
(* it waits for server_list_m_, or its socket is full and main, who would  *)
(* empty it, is the one who waits.                                         *)
(***************************************************************************)
MissedNotify(w) == pop_pc[w] = "wait"

NeedsListLock(w) == wpc[w] = "start"

PipeFull(w) ==
  wpc[w] = "send" /\ worker[w] # 0
    /\ Len(worker_output_[worker[w]]) >= PipeCap

Wedged ==
  /\ main = "join"
  /\ \E w \in Workers : MissedNotify(w) \/ NeedsListLock(w) \/ PipeFull(w)

\* BlockingWait returns, unless some worker is stuck in one of these ways.
JoinReturns ==
  main = "join" ~> (main # "join" \/ aborted \/ Wedged)

Answered(r) ==
  IF Kind[r] = "SET" THEN executed[r] > 0 ELSE replies[r] > 0

\* Once a server list is installed, every request that was sent is answered
\* (a SET is run), unless the router aborts or a join never returns.
RequestsAnswered ==
  \A r \in Requests :
    (r \in sent /\ server_list_ # <<>>) ~> (Answered(r) \/ aborted \/ Wedged)

\* What "Wait for all threads to die" says of a worker that has not yet taken
\* server_list_m_ when the join begins.
StartingWorkerDies ==
  \A w \in Workers :
    (main = "join" /\ wpc[w] = "start") ~> (wpc[w] = "dead" \/ aborted)
=============================================================================
