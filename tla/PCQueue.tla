------------------------------ MODULE PCQueue ------------------------------
(***************************************************************************)
(* class PCQueue of memcache_router.cpp: the queue that carries packets    *)
(* from the router's main thread to its worker threads.                    *)
(*                                                                         *)
(* A mutex m_ guards packets_; the flag done_ is an atomic that            *)
(* UnblockAll writes WITHOUT the mutex.  A thread inside BlockingPop has a *)
(* program counter:                                                        *)
(*                                                                         *)
(*   "out"    not in BlockingPop                                           *)
(*   "enter"  about to construct the unique_lock                           *)
(*   "test"   holds m_, about to evaluate the while condition              *)
(*   "sleep"  holds m_, the condition was true, about to call cond_.wait   *)
(*   "wait"   blocked in cond_.wait, m_ released                           *)
(*   "wake"   notified (or woken spuriously), must reacquire m_            *)
(*   "check"  holds m_, left the while loop, about to test done_           *)
(*   "pop"    holds m_, in the loop that takes packets                     *)
(*   "popped" holds m_, left that loop through its break                   *)
(*                                                                         *)
(* Push and the notifications it makes run entirely under m_, hence as one *)
(* step that needs m_ to be free.  A packet is identified with the Packet* *)
(* that is queued; NumKeys[p] is its get_keys_size().                      *)
(***************************************************************************)
EXTENDS Naturals, Sequences

CONSTANTS
  Threads,    \* the worker threads
  Packets,    \* the packets that can be pushed
  NumKeys,    \* NumKeys[p] = p->instruction.get_keys_size()
  MaxKeys,    \* MAX_KEYS_PER_REQUEST
  MaxQueue,   \* bound: the main thread pushes only below this length
  NoThread    \* the owner of a free mutex

ASSUME PCQueueAssumption ==
  /\ NumKeys \in [Packets -> Nat]
  /\ MaxKeys \in Nat \ {0}
  /\ MaxQueue \in Nat
  /\ NoThread \notin Threads

VARIABLES
  m_,            \* the thread that holds the mutex
  packets_,      \* deque<Packet*>
  done_,         \* atomic_bool
  pc,            \* pc[t]: where t is in BlockingPop
  batch,         \* batch[t]: the vector<Packet*> t passed to BlockingPop
  num_get_keys,  \* num_get_keys[t]: its local variable, 0 outside the loop
  main           \* the main thread: "run", or "notify" inside UnblockAll

vars == <<m_, packets_, done_, pc, batch, num_get_keys, main>>

IsGet(p) == NumKeys[p] > 0

waiters == {t \in Threads : pc[t] = "wait"}

Goto(t, label) == pc' = [pc EXCEPT ![t] = label]

Init ==
  /\ m_ = NoThread
  /\ packets_ = <<>>
  /\ done_ = FALSE
  /\ pc = [t \in Threads |-> "out"]
  /\ batch = [t \in Threads |-> <<>>]
  /\ num_get_keys = [t \in Threads |-> 0]
  /\ main = "run"
-----------------------------------------------------------------------------
(***************************************************************************)
(* BlockingPop, step by step.                                              *)
(***************************************************************************)

\* The caller passes a fresh vector.
Call(t) ==
  /\ pc[t] = "out"
  /\ Goto(t, "enter")
  /\ batch' = [batch EXCEPT ![t] = <<>>]
  /\ UNCHANGED <<m_, packets_, done_, num_get_keys>>

\* Bug pattern: if instead of while, a woken thread does not test again.
AcquireAndTrust(t) ==
  /\ pc[t] \in {"enter", "wake"}
  /\ m_ = NoThread
  /\ m_' = t
  /\ Goto(t, IF pc[t] = "wake" THEN "check" ELSE "test")
  /\ UNCHANGED <<packets_, done_, batch, num_get_keys>>

\* Lock the mutex, on entry or when cond_.wait returns.
Acquire(t) ==
  /\ pc[t] \in {"enter", "wake"}
  /\ m_ = NoThread
  /\ m_' = t
  /\ Goto(t, "test")
  /\ UNCHANGED <<packets_, done_, batch, num_get_keys>>

\* while (!done_ && packets_.empty())
Test(t) ==
  /\ pc[t] = "test"
  /\ IF ~done_ /\ packets_ = <<>> THEN Goto(t, "sleep") ELSE Goto(t, "check")
  /\ UNCHANGED <<m_, packets_, done_, batch, num_get_keys>>

\* cond_.wait(ul) releases m_ and blocks in one step.
Sleep(t) ==
  /\ pc[t] = "sleep"
  /\ m_' = NoThread
  /\ Goto(t, "wait")
  /\ UNCHANGED <<packets_, done_, batch, num_get_keys>>

\* condition_variable::wait may return without a notification.
SpuriousWake(t) ==
  /\ pc[t] = "wait"
  /\ Goto(t, "wake")
  /\ UNCHANGED <<m_, packets_, done_, batch, num_get_keys>>

\* if (done_) return;
CheckDone(t) ==
  /\ pc[t] = "check"
  /\ IF done_
       THEN m_' = NoThread /\ Goto(t, "out")
       ELSE m_' = m_ /\ Goto(t, "pop")
  /\ UNCHANGED <<packets_, done_, batch, num_get_keys>>

\* Bug pattern: a GET batch goes on to take the packet that is not a GET.
PopOtherAlways(t) ==
  /\ pc[t] = "pop"
  /\ packets_ # <<>>
  /\ num_get_keys[t] < MaxKeys
  /\ ~IsGet(Head(packets_))
  /\ packets_' = Tail(packets_)
  /\ batch' = [batch EXCEPT ![t] = Append(@, Head(packets_))]
  /\ Goto(t, "popped")
  /\ UNCHANGED <<m_, done_, num_get_keys>>

\* The front packet is not a GET: it is taken alone, or left for later.
PopOther(t) ==
  /\ pc[t] = "pop"
  /\ packets_ # <<>>
  /\ num_get_keys[t] < MaxKeys
  /\ ~IsGet(Head(packets_))
  /\ IF num_get_keys[t] = 0
       THEN /\ packets_' = Tail(packets_)
            /\ batch' = [batch EXCEPT ![t] = Append(@, Head(packets_))]
       ELSE UNCHANGED <<packets_, batch>>
  /\ Goto(t, "popped")
  /\ UNCHANGED <<m_, done_, num_get_keys>>

\* The front packet is a GET: one more round of the loop.
PopGet(t) ==
  /\ pc[t] = "pop"
  /\ packets_ # <<>>
  /\ num_get_keys[t] < MaxKeys
  /\ IsGet(Head(packets_))
  /\ packets_' = Tail(packets_)
  /\ batch' = [batch EXCEPT ![t] = Append(@, Head(packets_))]
  /\ num_get_keys' = [num_get_keys EXCEPT ![t] = @ + NumKeys[Head(packets_)]]
  /\ UNCHANGED <<m_, done_, pc>>

\* cond_.notify_one(), made by a thread whose own counter goes to label.
NotifyOneAndGoto(t, label) ==
  IF waiters = {}
    THEN Goto(t, label)
    ELSE \E w \in waiters : pc' = [pc EXCEPT ![w] = "wake", ![t] = label]

\* The loop is over: wake another thread if packets are left, and return.
FinishPop(t) ==
  /\ \/ pc[t] = "popped"
     \/ pc[t] = "pop" /\ (packets_ = <<>> \/ num_get_keys[t] >= MaxKeys)
  /\ IF packets_ # <<>> THEN NotifyOneAndGoto(t, "out") ELSE Goto(t, "out")
  /\ m_' = NoThread
  /\ num_get_keys' = [num_get_keys EXCEPT ![t] = 0]
  /\ UNCHANGED <<packets_, done_, batch>>
-----------------------------------------------------------------------------
(***************************************************************************)
(* The operations of the main thread.                                      *)
(***************************************************************************)

\* Bug pattern: a push that notifies nobody.
PushSilently(p) ==
  /\ m_ = NoThread
  /\ packets_' = Append(packets_, p)
  /\ UNCHANGED <<m_, done_, pc, batch, num_get_keys>>

\* Bug pattern: push_front.
PushFront(p) ==
  /\ m_ = NoThread
  /\ packets_' = <<p>> \o packets_
  /\ IF waiters = {}
       THEN UNCHANGED pc
       ELSE \E w \in waiters : Goto(w, "wake")
  /\ UNCHANGED <<m_, done_, batch, num_get_keys>>

\* lock, push_back, notify_one, unlock.
Push(p) ==
  /\ m_ = NoThread
  /\ packets_' = Append(packets_, p)
  /\ IF waiters = {}
       THEN UNCHANGED pc
       ELSE \E w \in waiters : Goto(w, "wake")
  /\ UNCHANGED <<m_, done_, batch, num_get_keys>>

\* UnblockAll, first statement: no lock is taken.
SetDone ==
  /\ done_' = TRUE
  /\ UNCHANGED <<m_, packets_, pc, batch, num_get_keys>>

\* UnblockAll, second statement: cond_.notify_all().
NotifyAll ==
  /\ pc' = [t \in Threads |-> IF pc[t] = "wait" THEN "wake" ELSE pc[t]]
  /\ UNCHANGED <<m_, packets_, done_, batch, num_get_keys>>

Reset ==
  /\ done_' = FALSE
  /\ UNCHANGED <<m_, packets_, pc, batch, num_get_keys>>
-----------------------------------------------------------------------------
(***************************************************************************)
(* The queue with its callers.  The main thread pushes, and now and then   *)
(* releases the workers; it resets the queue when they have all left (the  *)
(* router joins them in between).  A released worker does not call again:  *)
(* the router sets its own done_, which ends the worker's loop, first.     *)
(***************************************************************************)
Step(t) ==
  \/ Test(t)
  \/ Sleep(t)
  \/ CheckDone(t)
  \/ PopOther(t)
  \/ PopGet(t)
  \/ FinishPop(t)

WorkerStep(t) ==
  /\ (~done_ /\ Call(t)) \/ Acquire(t) \/ SpuriousWake(t) \/ Step(t)
  /\ UNCHANGED main

MainPush ==
  /\ main = "run"
  /\ ~done_
  /\ Len(packets_) < MaxQueue
  /\ \E p \in Packets : Push(p)
  /\ UNCHANGED main

MainSetDone ==
  /\ main = "run"
  /\ ~done_
  /\ SetDone
  /\ main' = "notify"

MainNotifyAll ==
  /\ main = "notify"
  /\ NotifyAll
  /\ main' = "run"

MainReset ==
  /\ main = "run"
  /\ done_
  /\ \A t \in Threads : pc[t] = "out"
  /\ Reset
  /\ UNCHANGED main

Next ==
  \/ \E t \in Threads : WorkerStep(t)
  \/ MainPush
  \/ MainSetDone
  \/ MainNotifyAll
  \/ MainReset

Spec == Init /\ [][Next]_vars

(***************************************************************************)
(* A thread that holds the mutex keeps running, and a free mutex that is   *)
(* wanted is given to somebody; UnblockAll, once begun, completes.         *)
(* Nothing forces a worker to come back for more (it may be held up by a   *)
(* memcached server), nor the main thread to push or to release.           *)
(***************************************************************************)
Fairness ==
  /\ \A t \in Threads : WF_vars(Step(t) /\ UNCHANGED main)
  /\ WF_vars((\E t \in Threads : Acquire(t)) /\ UNCHANGED main)
  /\ WF_vars(MainNotifyAll)

FairSpec == Spec /\ Fairness
-----------------------------------------------------------------------------
Labels == {"out", "enter", "test", "sleep", "wait", "wake", "check", "pop",
           "popped"}

\* Where a thread holds the mutex.
Locked == {"test", "sleep", "check", "pop", "popped"}

\* Where a thread is awake and will look at the queue before it blocks.
Looking == {"enter", "wake", "test", "check", "pop", "popped"}

\* The type invariant of the queue.
TypeOK ==
  /\ m_ \in Threads \cup {NoThread}
  /\ packets_ \in Seq(Packets)
  /\ done_ \in BOOLEAN
  /\ pc \in [Threads -> Labels]
  /\ batch \in [Threads -> Seq(Packets)]
  /\ num_get_keys \in [Threads -> Nat]
  /\ main \in {"run", "notify"}

\* What BlockingPop returns can be run with one libmemcached call: a single
\* packet that is not a GET, or GETs only ("All such operations should be run
\* singly because libmemcached doesn't allow batching them up").
BatchShape ==
  \A t \in Threads :
    \/ \A i \in 1..Len(batch[t]) : IsGet(batch[t][i])
    \/ Len(batch[t]) = 1

\* A batch exceeds MAX_KEYS_PER_REQUEST by its last packet at most: without
\* that packet it is below the limit.
KeyBudget ==
  \A t \in Threads :
    batch[t] # <<>> =>
      num_get_keys[t] < MaxKeys + NumKeys[batch[t][Len(batch[t])]]

\* BlockingPop comes back empty-handed only when it was told to.
EmptyOnlyWhenDone ==
  [][\A t \in Threads :
       pc[t] # "out" /\ pc'[t] = "out" /\ batch'[t] = <<>> => done_]_vars

\* No wakeup of Push is lost: while a packet is queued and some thread is
\* blocked on the condition variable, another thread is awake inside
\* BlockingPop and will look at the queue.
NoStrandedPacket ==
  packets_ # <<>> /\ ~done_ /\ waiters # {}
    => \E t \in Threads : pc[t] \in Looking

\* A queued packet does not stay unserved while threads wait in BlockingPop:
\* one of them reaches the loop that takes packets, or all are released.
QueueServed ==
  (packets_ # <<>> /\ \E t \in Threads : pc[t] \notin {"out", "popped"})
    ~> (done_ \/ \E t \in Threads : pc[t] = "pop")

\* UnblockAll makes every caller of BlockingPop return.  The router's
\* BlockingWait relies on it ("Wait for all threads to die").
UnblockAllReleases ==
  \A t \in Threads :
    (done_ /\ pc[t] # "out") ~> (pc[t] = "out" \/ ~done_)
-----------------------------------------------------------------------------
(***************************************************************************)
(* The parts of the inductive invariant.                                   *)
(***************************************************************************)

\* The mutex is held exactly by the thread whose counter says so.
MutexInv ==
  \A t \in Threads : pc[t] \in Locked <=> m_ = t

\* m_ is held from the test to the wait, so that no push fits in between.
SleepInv ==
  \A t \in Threads : pc[t] = "sleep" => packets_ = <<>>

\* A thread that left the while loop was released or has something to take:
\* nobody else can take it, and done_ is reset only when all threads are out.
CheckInv ==
  \A t \in Threads : pc[t] = "check" => done_ \/ packets_ # <<>>

\* What a thread has taken, by where it is.
TakenInv ==
  \A t \in Threads :
    /\ pc[t] \notin {"out", "pop", "popped"} => batch[t] = <<>>
    /\ pc[t] \notin {"pop", "popped"} => num_get_keys[t] = 0
    /\ pc[t] = "pop" =>
         /\ \A i \in 1..Len(batch[t]) : IsGet(batch[t][i])
         /\ num_get_keys[t] = 0 <=> batch[t] = <<>>
         /\ batch[t] = <<>> => packets_ # <<>>
    /\ pc[t] = "popped" => batch[t] # <<>>

\* The inductive invariant of the queue: what holds at each point of
\* BlockingPop, from which the other safety properties follow.
QueueInv ==
  /\ TypeOK
  /\ MutexInv
  /\ SleepInv
  /\ CheckInv
  /\ TakenInv
  /\ BatchShape
  /\ KeyBudget
  /\ NoStrandedPacket
-----------------------------------------------------------------------------
(***************************************************************************)
(* The queue implements BatchQueue.  While a thread is in the loop, what   *)
(* it has taken so far still belongs to the abstract queue: the batch      *)
(* changes hands when the mutex is released.                               *)
(***************************************************************************)
InLoop(t) == pc[t] \in {"pop", "popped"}

AbstractQueue ==
  IF m_ \in Threads /\ InLoop(m_) THEN batch[m_] \o packets_ ELSE packets_

AbstractHeld ==
  [t \in Threads |-> IF InLoop(t) THEN <<>> ELSE batch[t]]

Abstract == INSTANCE BatchQueue
              WITH queue <- AbstractQueue, held <- AbstractHeld,
                   released <- done_

\* The refinement, as a property of the detailed queue.
ImplementsBatchQueue == Abstract!Spec
=============================================================================
