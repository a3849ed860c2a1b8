-------------------------- MODULE RouterFlowProofs --------------------------
(***************************************************************************)
(* Proofs about MemcacheRouter, last part: the queue inside the router,    *)
(* and with it FlowInv.  The queue keeps its invariant with the router's   *)
(* threads as callers, and with one worker a client sees its own SETs.     *)
(***************************************************************************)
EXTENDS RouterTheorems

USE SMTT(30), SMTT(20), SMTT(10) DEF clientVars, socketVars, mainVars, listVars, workerVars, queueVars
-----------------------------------------------------------------------------
(***************************************************************************)
(* The queue inside the router.  What PCQueueProofs shows of the steps of  *)
(* PCQueue holds of the steps that the router's threads make in it.        *)
(***************************************************************************)
Q == INSTANCE PCQueueProofs
       WITH Threads <- Workers, Packets <- Requests, MaxQueue <- 0,
            done_ <- queue_done_, pc <- pop_pc, main <- "run"

LEMMA QueueAssumed ==
  /\ NumKeys \in [Requests -> Nat]
  /\ MaxKeys \in Nat \ {0}
  /\ 0 \in Nat
  /\ NoThread \notin Workers
  BY RouterAssumption

LEMMA SameQueueInv == Q!QueueInv <=> Queue!QueueInv
  BY DEF Q!QueueInv, Q!TypeOK, Q!MutexInv, Q!SleepInv, Q!CheckInv, Q!TakenInv, Q!BatchShape,
         Q!KeyBudget, Q!NoStrandedPacket, Q!IsGet, Q!waiters, Q!Labels, Q!Locked, Q!Looking,
         Queue!QueueInv, Queue!TypeOK, Queue!MutexInv, Queue!SleepInv, Queue!CheckInv,
         Queue!TakenInv, Queue!BatchShape, Queue!KeyBudget, Queue!NoStrandedPacket,
         Queue!IsGet, Queue!waiters, Queue!Labels, Queue!Locked, Queue!Looking

LEMMA SameQueueInvNext == Q!QueueInv' <=> Queue!QueueInv'
  BY SameQueueInv, PTL

LEMMA PushKeeps ==
  ASSUME Queue!QueueInv, NEW r \in Requests, Queue!Push(r)
  PROVE  Queue!QueueInv'
  <1>1. Q!Push(r)
    BY DEF Q!Push, Q!waiters, Q!Goto, Queue!Push, Queue!waiters, Queue!Goto
  <1> QED
    BY <1>1, SameQueueInv, SameQueueInvNext, QueueAssumed, Q!QueueInvPush

LEMMA CallKeeps ==
  ASSUME Queue!QueueInv, NEW w \in Workers, Queue!Call(w)
  PROVE  Queue!QueueInv'
  <1>1. Q!Call(w)
    BY DEF Q!Call, Q!Goto, Queue!Call, Queue!Goto
  <1> QED
    BY <1>1, SameQueueInv, SameQueueInvNext, QueueAssumed, Q!QueueInvCall

LEMMA AcquireKeeps ==
  ASSUME Queue!QueueInv, NEW w \in Workers, Queue!Acquire(w)
  PROVE  Queue!QueueInv'
  <1>1. Q!Acquire(w)
    BY DEF Q!Acquire, Q!Goto, Queue!Acquire, Queue!Goto
  <1> QED
    BY <1>1, SameQueueInv, SameQueueInvNext, QueueAssumed, Q!QueueInvAcquire

LEMMA SpuriousWakeKeeps ==
  ASSUME Queue!QueueInv, NEW w \in Workers, Queue!SpuriousWake(w)
  PROVE  Queue!QueueInv'
  <1>1. Q!SpuriousWake(w)
    BY DEF Q!SpuriousWake, Q!Goto, Queue!SpuriousWake, Queue!Goto
  <1> QED
    BY <1>1, SameQueueInv, SameQueueInvNext, QueueAssumed, Q!QueueInvSpuriousWake

LEMMA StepKeeps ==
  ASSUME Queue!QueueInv, NEW w \in Workers, Queue!Step(w)
  PROVE  Queue!QueueInv'
  <1>1. Q!Step(w)
    BY DEF Q!Step, Q!Test, Q!Sleep, Q!CheckDone, Q!PopOther, Q!PopGet, Q!FinishPop,
           Q!NotifyOneAndGoto, Q!waiters, Q!IsGet, Q!Goto,
           Queue!Step, Queue!Test, Queue!Sleep, Queue!CheckDone, Queue!PopOther,
           Queue!PopGet, Queue!FinishPop, Queue!NotifyOneAndGoto, Queue!waiters,
           Queue!IsGet, Queue!Goto
  <1> QED
    BY <1>1, SameQueueInv, SameQueueInvNext, QueueAssumed, Q!QueueInvTest, Q!QueueInvSleep,
       Q!QueueInvCheckDone, Q!QueueInvPopOther, Q!QueueInvPopGet, Q!QueueInvFinishPop
    DEF Q!Step

LEMMA UnblockKeeps ==
  ASSUME Queue!QueueInv, Queue!SetDone \/ Queue!NotifyAll
  PROVE  Queue!QueueInv'
  <1>1. Q!SetDone \/ Q!NotifyAll
    BY DEF Q!SetDone, Q!NotifyAll, Queue!SetDone, Queue!NotifyAll
  <1> QED
    BY <1>1, SameQueueInv, SameQueueInvNext, QueueAssumed, Q!QueueInvSetDone,
       Q!QueueInvNotifyAll

\* The router resets the queue when nobody is inside BlockingPop.
LEMMA ResetKeeps ==
  ASSUME Queue!QueueInv, Queue!Reset, \A w \in Workers : pop_pc[w] = "out"
  PROVE  Queue!QueueInv'
  <1>1. Q!Reset
    BY DEF Q!Reset, Queue!Reset
  <1> QED
    BY <1>1, SameQueueInv, SameQueueInvNext, QueueAssumed, Q!QueueInvReset

\* ProcessPackets goes through the batch that BlockingPop gave it.
LEMMA ConsumeKeeps ==
  ASSUME Queue!QueueInv, NEW w \in Workers, NEW k, TakeNext(w, k)
  PROVE  Queue!QueueInv'
  <1>1. /\ pop_pc[w] = "out" /\ batch[w] # <<>>
        /\ batch' = [batch EXCEPT ![w] = Tail(@)]
        /\ UNCHANGED <<m_, packets_, queue_done_, pop_pc, num_get_keys>>
    BY DEF TakeNext, Serving
  <1> QED
    BY <1>1, SameQueueInv, SameQueueInvNext, QueueAssumed, Q!QueueInvConsume, ZenonT(30)

LEMMA QueueRests ==
  ASSUME Queue!QueueInv, UNCHANGED queueVars
  PROVE  Queue!QueueInv'
  <1>1. UNCHANGED Q!vars
    BY DEF Q!vars
  <1> QED
    BY <1>1, SameQueueInv, SameQueueInvNext, QueueAssumed, Q!QueueInvStutter

\* Threads that were in BlockingPop already, and run.
LEMMA PopKept ==
  ASSUME PopInv, UNCHANGED wpc,
         \A v \in Workers : pop_pc'[v] # "out" => pop_pc[v] # "out"
  PROVE  PopInv'
  BY DEF PopInv

\* A notification wakes threads that wait.
LEMMA NotifiedInside ==
  ASSUME pop_pc \in [Workers -> Queue!Labels], NEW v \in Workers, pop_pc'[v] # "out",
         \/ \E r \in Requests : Queue!Push(r)
         \/ Queue!NotifyAll
         \/ Queue!SetDone
         \/ \E w \in Workers : Queue!Acquire(w) \/ Queue!SpuriousWake(w) \/ Queue!Step(w)
  PROVE  pop_pc[v] # "out"
  <1>1. ASSUME NEW r \in Requests, Queue!Push(r)
        PROVE  pop_pc[v] # "out"
    BY <1>1 DEF Queue!Push, Queue!waiters, Queue!Goto
  <1>2. CASE Queue!NotifyAll \/ Queue!SetDone
    BY <1>2 DEF Queue!NotifyAll, Queue!SetDone
  <1>3. ASSUME NEW w \in Workers, Queue!Acquire(w) \/ Queue!SpuriousWake(w)
        PROVE  pop_pc[v] # "out"
    BY <1>3 DEF Queue!Acquire, Queue!SpuriousWake, Queue!Goto
  <1>4. ASSUME NEW w \in Workers, Queue!Step(w)
        PROVE  pop_pc[v] # "out"
    <2>1. CASE Queue!Test(w) \/ Queue!Sleep(w) \/ Queue!CheckDone(w)
      BY <2>1 DEF Queue!Test, Queue!Sleep, Queue!CheckDone, Queue!Goto
    <2>2. CASE Queue!PopOther(w) \/ Queue!PopGet(w)
      BY <2>2 DEF Queue!PopOther, Queue!PopGet, Queue!Goto
    <2>3. CASE Queue!FinishPop(w)
      BY <2>3 DEF Queue!FinishPop, Queue!NotifyOneAndGoto, Queue!waiters, Queue!Goto
    <2> QED
      BY <1>4, <2>1, <2>2, <2>3 DEF Queue!Step
  <1> QED
    BY <1>1, <1>2, <1>3, <1>4

\* The queue keeps its invariant when its callers are the threads of the router.
LEMMA QueueFlowNext ==
  ASSUME RouterInv, Queue!QueueInv, PopInv, Next
  PROVE  Queue!QueueInv' /\ PopInv'
  <1>1. /\ pop_pc \in [Workers -> Queue!Labels]
        /\ wpc \in [Workers -> {"dead", "start", "run", "send"}]
    BY DEF RouterInv, TypeOK
  <1>2. CASE UNCHANGED <<queueVars, wpc>>
    BY <1>2, QueueRests, PopKept
  <1>3. CASE /\ UNCHANGED queueVars
             /\ \E w \in Workers : StartWorker(w) \/ GetKeys(w) \/ SendPacket(w)
    <2>1. PICK w \in Workers : StartWorker(w) \/ GetKeys(w) \/ SendPacket(w)
      BY <1>3
    <2>2. pop_pc[w] = "out"
      BY <2>1, ZenonT(30) DEF StartWorker, GetKeys, SendPacket, Serving, PopInv
    <2>3. \A v \in Workers \ {w} : wpc'[v] = wpc[v]
      BY <1>1, <2>1 DEF StartWorker, GetKeys, SendPacket
    <2>4. PopInv'
      BY <1>3, <2>2, <2>3 DEF PopInv
    <2> QED
      BY <1>3, <2>4, QueueRests
  <1>4. CASE PushPacket
    <2>1. cur \in Requests /\ Queue!Push(cur) /\ UNCHANGED wpc
      BY <1>4 DEF PushPacket, RouterInv, MainInv
    <2> QED
      BY <1>1, <2>1, PushKeeps, NotifiedInside, PopKept
  <1>5. CASE UnblockAll \/ NotifyAll
    <2>1. (Queue!SetDone \/ Queue!NotifyAll) /\ UNCHANGED wpc
      BY <1>5 DEF UnblockAll, NotifyAll
    <2> QED
      BY <1>1, <2>1, UnblockKeeps, NotifiedInside, PopKept
  <1>6. CASE Install
    <2>1. \A w \in Workers : wpc[w] = "dead"
      BY <1>6 DEF Install, Joined
    <2>2. \A w \in Workers : pop_pc[w] = "out"
      BY <2>1 DEF PopInv
    <2>3. Queue!Reset
      BY <1>6 DEF Install, InitThreads
    <2>4. PopInv'
      BY <2>2, <2>3 DEF PopInv, Queue!Reset
    <2> QED
      BY <2>2, <2>3, <2>4, ResetKeeps
  <1>7. ASSUME NEW w \in Workers, TestDone(w)
        PROVE  Queue!QueueInv' /\ PopInv'
    <2>1. wpc[w] = "run" /\ pop_pc[w] = "out"
      BY <1>7 DEF TestDone, Serving
    <2>2. CASE done_
      <3>1. UNCHANGED queueVars /\ \A v \in Workers \ {w} : wpc'[v] = wpc[v]
        BY <1>1, <1>7, <2>2 DEF TestDone
      <3> QED
        BY <2>1, <3>1, QueueRests DEF PopInv
    <2>3. CASE ~done_
      <3>1. Queue!Call(w) /\ UNCHANGED wpc
        BY <1>7, <2>3 DEF TestDone
      <3>2. \A v \in Workers \ {w} : pop_pc'[v] = pop_pc[v]
        BY <1>1, <3>1 DEF Queue!Call, Queue!Goto
      <3>3. PopInv'
        BY <2>1, <3>1, <3>2 DEF PopInv
      <3> QED
        BY <3>1, <3>3, CallKeeps
    <2> QED
      BY <2>2, <2>3
  <1>8. ASSUME NEW w \in Workers, PopStep(w) \/ Acquire(w) \/ SpuriousWake(w)
        PROVE  Queue!QueueInv' /\ PopInv'
    <2>1. /\ Queue!Acquire(w) \/ Queue!SpuriousWake(w) \/ Queue!Step(w)
          /\ UNCHANGED wpc
      BY <1>8 DEF PopStep, Acquire, SpuriousWake
    <2> QED
      BY <1>1, <2>1, AcquireKeeps, SpuriousWakeKeeps, StepKeeps, NotifiedInside, PopKept
  <1>9. ASSUME NEW w \in Workers, ServeSet(w) \/ ServeIncr(w) \/ ServeGet(w)
        PROVE  Queue!QueueInv' /\ PopInv'
    <2>1. PICK k : TakeNext(w, k)
      BY <1>9, ZenonT(30) DEF ServeSet, ServeIncr, ServeGet
    <2>2. pop_pc[w] = "out" /\ UNCHANGED pop_pc
      BY <2>1 DEF TakeNext, Serving
    <2>3. \A v \in Workers \ {w} : wpc'[v] = wpc[v]
      BY <1>1, <1>9 DEF ServeSet, ServeIncr, ServeGet
    <2>4. PopInv'
      BY <2>2, <2>3 DEF PopInv
    <2> QED
      BY <2>1, <2>4, ConsumeKeeps
  <1>10. CASE ClientStep
    BY <1>2, <1>10, ZenonT(30) DEF ClientStep, SendRequest, SendAsync
  <1>11. CASE MainStep
    <2>1. \/ UNCHANGED <<queueVars, wpc>>
          \/ UnblockAll \/ NotifyAll \/ Install
      BY <1>11, ZenonT(30) DEF MainStep, Poll, ReceiveStep, ReceiveUnknown, ReceiveServerList,
           ReceiveSet, ReceiveStats, ReceiveOther, Receive, ReceiveAsync, Forward,
           CompareLists, SetDone
    <2> QED
      BY <1>2, <1>5, <1>6, <2>1
  <1>12. CASE MainLock
    BY <1>2, <1>4, <1>12, ZenonT(30) DEF MainLock, PopulateStats
  <1>13. ASSUME NEW w \in Workers, WorkerStep(w)
         PROVE  Queue!QueueInv' /\ PopInv'
    <2>1. CASE StartWorker(w) \/ GetKeys(w) \/ SendPacket(w)
      <3>1. UNCHANGED queueVars
        BY <2>1, ZenonT(30) DEF StartWorker, GetKeys, SendPacket
      <3> QED
        BY <1>3, <2>1, <3>1
    <2> QED
      BY <1>7, <1>8, <1>9, <1>13, <2>1 DEF WorkerStep
  <1> QED
    BY <1>8, <1>10, <1>11, <1>12, <1>13 DEF Next
-----------------------------------------------------------------------------
LEMMA FlowInvNext ==
  ASSUME RouterInv, FlowInv, [Next]_vars
  PROVE  FlowInv'
  <1>1. CASE Next
    <2>1. ASSUME NEW w \in Workers, Workers = {w}
          PROVE  LineInv(w)'
      BY <1>1, <2>1, LineInvNext DEF FlowInv
    <2> QED
      BY <1>1, <2>1, QueueFlowNext, OneOutstandingNext DEF FlowInv
  <1>2. CASE UNCHANGED vars
    <2>1. Queue!QueueInv' /\ PopInv' /\ OneOutstanding'
      BY <1>2, QueueRests DEF FlowInv, vars, PopInv, OneOutstanding
    <2>2. ASSUME NEW w \in Workers, LineInv(w)
          PROVE  LineInv(w)'
      <3>1. Line(w)' = Line(w)
        BY <1>2, LineRests DEF vars
      <3>2. \A s, r \in Requests : MustFollow(s, r)' => MustFollow(s, r)
        BY <1>2 DEF vars, MustFollow, Promised
      <3>3. router_' = router_
        BY <1>2 DEF vars
      <3> QED
        BY <2>2, <3>1, <3>2, <3>3, ZenonT(30) DEF LineInv
    <2> QED
      BY <2>1, <2>2, ZenonT(30) DEF FlowInv
  <1> QED
    BY <1>1, <1>2

LEMMA InitFlowInv ==
  ASSUME Init
  PROVE  FlowInv
  <1>1. Q!Init
    BY DEF Init, Q!Init
  <1>2. Queue!QueueInv
    BY <1>1, SameQueueInv, QueueAssumed, Q!QueueInvInit
  <1>3. PopInv /\ OneOutstanding
    BY DEF Init, PopInv, OneOutstanding
  <1>4. \A w \in Workers : LineInv(w)
    BY DEF Init, LineInv, MustFollow
  <1> QED
    BY <1>2, <1>3, <1>4, ZenonT(30) DEF FlowInv

\* What holds of the queue between the router's threads at every point: the
\* mutex, the condition variable and the batches are as PCQueue needs them
\* although it is main and the workers who call it, a REQ socket has one
\* request outstanding, and a single worker gets packets in order.
THEOREM FlowInvariant == Spec => []FlowInv
  <1>1. Init => FlowInv
    BY InitFlowInv
  <1>2. RouterInv /\ FlowInv /\ [Next]_vars => FlowInv'
    BY FlowInvNext
  <1> QED
    BY <1>1, <1>2, RouterInvariant, PTL DEF Spec

\* No wakeup is lost inside the router, and ProcessPackets gets batches that
\* libmemcached can run, not even when SetMemcacheServers releases the workers,
\* joins them, resets the queue and starts others while packets are queued.
THEOREM RouterQueue ==
  Spec => [](Queue!NoStrandedPacket /\ Queue!BatchShape /\ Queue!KeyBudget)
  <1>1. FlowInv => Queue!NoStrandedPacket /\ Queue!BatchShape /\ Queue!KeyBudget
    BY DEF FlowInv, Queue!QueueInv
  <1> QED
    BY <1>1, FlowInvariant, PTL

\* With one worker thread, a client that has a SET acknowledged before it was
\* queued still sees it: no GET or INCREMENT of that client runs before it,
\* whatever main, the worker and a change of the server list do in between.
THEOREM OwnSetsSeen ==
  ASSUME NEW w \in Workers, Workers = {w}
  PROVE  Spec => AckedSetRunsFirst
  <1>1. RouterInv /\ FlowInv /\ [Next]_vars
          => [\A s, r \in Requests \ Async :
                /\ Client[r] = Client[s] /\ Kind[r] \in {"GET", "INCREMENT"}
                /\ executed'[r] > executed[r]
                => ~Promised(s)]_vars
    BY StepRunsSetFirst DEF FlowInv
  <1> QED
    BY <1>1, RouterInvariant, FlowInvariant, PTL DEF Spec, AckedSetRunsFirst
=============================================================================
