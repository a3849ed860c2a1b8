--------------------------- MODULE PCQueueProofs ---------------------------
(***************************************************************************)
(* Proofs about PCQueue: QueueInv is inductive, for any number of threads, *)
(* any packets and any key limit; the safety properties of the queue       *)
(* follow, and so does that the queue implements BatchQueue.               *)
(***************************************************************************)
EXTENDS PCQueue, SequenceTheorems, TLAPS

USE SMTT(30), SMTT(20), SMTT(10)

\* The constructor of PCQueue establishes the invariant.
LEMMA QueueInvInit == Init => QueueInv
  <1> SUFFICES ASSUME Init PROVE QueueInv
    OBVIOUS
  <1> USE PCQueueAssumption DEF PCQueueAssumption, Init
  <1>1. TypeOK
    <2>1. <<>> \in Seq(Packets)
      OBVIOUS
    <2>2. done_ \in BOOLEAN
      BY ZenonT(30)
    <2> QED
      BY <2>1, <2>2 DEF TypeOK, Labels
  <1>2. MutexInv /\ SleepInv /\ CheckInv
    BY DEF MutexInv, SleepInv, CheckInv, Locked
  <1>3. TakenInv /\ BatchShape /\ KeyBudget
    BY DEF TakenInv, BatchShape, KeyBudget
  <1>4. NoStrandedPacket
    BY DEF NoStrandedPacket
  <1> QED
    BY <1>1, <1>2, <1>3, <1>4 DEF QueueInv

\* A worker calls BlockingPop with an empty vector.
LEMMA QueueInvCall ==
  ASSUME QueueInv, NEW t \in Threads, Call(t), UNCHANGED main
  PROVE  QueueInv'
  <1> USE PCQueueAssumption DEF PCQueueAssumption, QueueInv, TypeOK, Call, Goto
  <1>1. TypeOK'
    BY DEF Labels
  <1>2. MutexInv'
    BY DEF MutexInv, Locked
  <1>3. SleepInv' /\ CheckInv'
    BY DEF SleepInv, CheckInv
  <1>4. TakenInv' /\ BatchShape' /\ KeyBudget'
    BY DEF TakenInv, BatchShape, KeyBudget
  <1>5. NoStrandedPacket'
    BY DEF NoStrandedPacket, waiters, Looking
  <1> QED
    BY <1>1, <1>2, <1>3, <1>4, <1>5

\* Locking m_, on entry or when cond_.wait returns, keeps the invariant.
LEMMA QueueInvAcquire ==
  ASSUME QueueInv, NEW t \in Threads, Acquire(t), UNCHANGED main
  PROVE  QueueInv'
  <1> USE PCQueueAssumption DEF PCQueueAssumption, QueueInv, TypeOK, Acquire, Goto
  <1>1. TypeOK'
    BY DEF Labels
  <1>2. MutexInv'
    BY DEF MutexInv, Locked
  <1>3. SleepInv' /\ CheckInv'
    BY DEF SleepInv, CheckInv
  <1>4. TakenInv' /\ BatchShape' /\ KeyBudget'
    BY DEF TakenInv, BatchShape, KeyBudget
  <1>5. NoStrandedPacket'
    BY DEF NoStrandedPacket, waiters, Looking
  <1> QED
    BY <1>1, <1>2, <1>3, <1>4, <1>5

\* The test of the while loop leads to the wait only with an empty queue.
LEMMA QueueInvTest ==
  ASSUME QueueInv, NEW t \in Threads, Test(t), UNCHANGED main
  PROVE  QueueInv'
  <1> USE PCQueueAssumption DEF PCQueueAssumption, QueueInv, TypeOK, Test, Goto
  <1>1. TypeOK'
    BY ZenonT(30) DEF Labels
  <1>2. MutexInv'
    BY DEF MutexInv, Locked
  <1>3. SleepInv' /\ CheckInv'
    BY DEF SleepInv, CheckInv
  <1>4. TakenInv' /\ BatchShape' /\ KeyBudget'
    BY ZenonT(30) DEF TakenInv, BatchShape, KeyBudget
  <1>5. NoStrandedPacket'
    BY DEF NoStrandedPacket, waiters, Looking
  <1> QED
    BY <1>1, <1>2, <1>3, <1>4, <1>5

\* cond_.wait releases m_ while the queue is still empty.
LEMMA QueueInvSleep ==
  ASSUME QueueInv, NEW t \in Threads, Sleep(t), UNCHANGED main
  PROVE  QueueInv'
  <1> USE PCQueueAssumption DEF PCQueueAssumption, QueueInv, TypeOK, Sleep, Goto
  <1>1. TypeOK'
    BY DEF Labels
  <1>2. MutexInv'
    BY DEF MutexInv, Locked
  <1>3. SleepInv' /\ CheckInv'
    BY DEF SleepInv, CheckInv
  <1>4. TakenInv' /\ BatchShape' /\ KeyBudget'
    BY DEF TakenInv, BatchShape, KeyBudget
  \* t falls asleep on an empty queue.
  <1>5. NoStrandedPacket'
    BY DEF NoStrandedPacket, SleepInv
  <1> QED
    BY <1>1, <1>2, <1>3, <1>4, <1>5

\* A spurious wake-up adds a thread that will look at the queue.
LEMMA QueueInvSpuriousWake ==
  ASSUME QueueInv, NEW t \in Threads, SpuriousWake(t), UNCHANGED main
  PROVE  QueueInv'
  <1> USE PCQueueAssumption DEF PCQueueAssumption, QueueInv, TypeOK, SpuriousWake, Goto
  <1>1. TypeOK'
    BY DEF Labels
  <1>2. MutexInv'
    BY DEF MutexInv, Locked
  <1>3. SleepInv' /\ CheckInv'
    BY DEF SleepInv, CheckInv
  <1>4. TakenInv' /\ BatchShape' /\ KeyBudget'
    BY DEF TakenInv, BatchShape, KeyBudget
  <1>5. NoStrandedPacket'
    BY DEF NoStrandedPacket, waiters, Looking
  <1> QED
    BY <1>1, <1>2, <1>3, <1>4, <1>5

\* The test of done_ after the wait: the loop starts with a packet to take.
LEMMA QueueInvCheckDone ==
  ASSUME QueueInv, NEW t \in Threads, CheckDone(t), UNCHANGED main
  PROVE  QueueInv'
  <1> USE PCQueueAssumption DEF PCQueueAssumption, QueueInv, TypeOK, CheckDone, Goto
  <1>1. TypeOK'
    BY ZenonT(30) DEF Labels
  <1>2. MutexInv'
    <2>1. CASE done_
      BY <2>1, ZenonT(30) DEF MutexInv, Locked
    <2>2. CASE ~done_
      BY <2>2 DEF MutexInv, Locked
    <2> QED
      BY <2>1, <2>2
  <1>3. SleepInv' /\ CheckInv'
    BY DEF SleepInv, CheckInv
  \* A thread that goes on to pop finds a packet, by CheckInv.
  <1>4. TakenInv' /\ BatchShape' /\ KeyBudget'
    BY DEF TakenInv, BatchShape, KeyBudget, CheckInv
  <1>5. NoStrandedPacket'
    BY DEF NoStrandedPacket, waiters, Looking
  <1> QED
    BY <1>1, <1>2, <1>3, <1>4, <1>5

\* The branch of the loop for a packet that is not a GET.
LEMMA QueueInvPopOther ==
  ASSUME QueueInv, NEW t \in Threads, PopOther(t), UNCHANGED main
  PROVE  QueueInv'
  <1> USE PCQueueAssumption DEF PCQueueAssumption, QueueInv, TypeOK, PopOther, Goto
  <1>0. /\ Head(packets_) \in Packets /\ NumKeys[Head(packets_)] = 0
        /\ \A s \in Threads \ {t} : batch'[s] = batch[s]
        /\ \/ /\ num_get_keys[t] = 0
              /\ batch'[t] = <<Head(packets_)>>
              /\ packets_' = Tail(packets_)
           \/ batch'[t] = batch[t] /\ packets_' = packets_
        /\ batch' = [batch EXCEPT ![t] = batch'[t]]
    <2>1. Head(packets_) \in Packets /\ NumKeys[Head(packets_)] = 0
      BY DEF IsGet
    <2>2. CASE num_get_keys[t] = 0
      BY <2>1, <2>2 DEF TakenInv
    <2>3. CASE num_get_keys[t] # 0
      BY <2>1, <2>3
    <2> QED
      BY <2>2, <2>3
  <1>1. TypeOK'
    <2>1. Tail(packets_) \in Seq(Packets) /\ <<Head(packets_)>> \in Seq(Packets)
      BY <1>0
    <2>2. packets_' \in Seq(Packets) /\ batch'[t] \in Seq(Packets)
      BY <1>0, <2>1, ZenonT(30)
    <2> QED
      BY <1>0, <2>2, ZenonT(30) DEF Labels
  <1>2. MutexInv'
    BY DEF MutexInv, Locked
  \* t holds the mutex, hence no other thread is at these places.
  <1>3. SleepInv' /\ CheckInv'
    BY DEF SleepInv, CheckInv, MutexInv, Locked
  <1>4. TakenInv'
    BY DEF TakenInv, MutexInv, Locked
  <1>5. BatchShape'
    <2> SUFFICES ASSUME NEW s \in Threads PROVE BatchShape!(s)'
      BY DEF BatchShape
    <2>1. CASE s = t /\ batch'[t] = <<Head(packets_)>>
      BY <2>1
    <2>2. CASE batch'[s] = batch[s]
      BY <2>2 DEF BatchShape
    <2> QED
      BY <1>0, <2>1, <2>2
  <1>6. KeyBudget'
    <2> SUFFICES ASSUME NEW s \in Threads PROVE KeyBudget!(s)'
      BY DEF KeyBudget
    <2>1. CASE s = t /\ batch'[t] = <<Head(packets_)>> /\ num_get_keys[t] = 0
      BY <1>0, <2>1
    <2>2. CASE batch'[s] = batch[s]
      BY <2>2 DEF KeyBudget
    <2> QED
      BY <1>0, <2>1, <2>2
  <1>7. NoStrandedPacket'
    BY DEF NoStrandedPacket, waiters, Looking
  <1> QED
    BY <1>1, <1>2, <1>3, <1>4, <1>5, <1>6, <1>7

\* The branch of the loop for a GET, with the key budget.
LEMMA QueueInvPopGet ==
  ASSUME QueueInv, NEW t \in Threads, PopGet(t), UNCHANGED main
  PROVE  QueueInv'
  <1> USE PCQueueAssumption DEF PCQueueAssumption, QueueInv, TypeOK, PopGet, Goto
  <1>0. /\ Head(packets_) \in Packets /\ NumKeys[Head(packets_)] > 0
        /\ batch'[t] = Append(batch[t], Head(packets_))
        /\ \A s \in Threads \ {t} : batch'[s] = batch[s]
    BY DEF IsGet
  \* Everything taken is still a GET, and the last one taken is the head.
  <1>a. /\ \A i \in 1..Len(batch'[t]) : IsGet(batch'[t][i])
        /\ batch'[t] # <<>>
        /\ batch'[t][Len(batch'[t])] = Head(packets_)
    BY <1>0 DEF TakenInv, IsGet
  <1>1. TypeOK'
    BY DEF Labels
  <1>2. MutexInv'
    BY DEF MutexInv, Locked
  <1>3. SleepInv' /\ CheckInv'
    BY DEF SleepInv, CheckInv, MutexInv, Locked
  <1>4. TakenInv'
    <2> SUFFICES ASSUME NEW s \in Threads PROVE TakenInv!(s)'
      BY ZenonT(30) DEF TakenInv
    <2>1. CASE s = t
      BY <1>0, <1>a, <2>1 DEF TakenInv
    <2>2. CASE s # t
      BY <1>0, <2>2 DEF TakenInv, MutexInv, Locked
    <2> QED
      BY <2>1, <2>2, ZenonT(30)
  <1>5. BatchShape'
    BY <1>0, <1>a DEF BatchShape, IsGet
  <1>6. KeyBudget'
    <2> SUFFICES ASSUME NEW s \in Threads PROVE KeyBudget!(s)'
      BY DEF KeyBudget
    <2>1. CASE s = t
      BY <1>0, <1>a, <2>1
    <2>2. CASE s # t
      BY <1>0, <2>2 DEF KeyBudget
    <2> QED
      BY <2>1, <2>2
  <1>7. NoStrandedPacket'
    BY DEF NoStrandedPacket, waiters, Looking
  <1> QED
    BY <1>1, <1>2, <1>3, <1>4, <1>5, <1>6, <1>7

\* notify_one: if somebody waits, one of them is woken and nobody else moves.
LEMMA NotifyOne ==
  ASSUME TypeOK, NEW t \in Threads, pc[t] # "wait",
         NotifyOneAndGoto(t, "out")
  PROVE  /\ pc' \in [Threads -> Labels]
         /\ pc'[t] = "out"
         /\ \A s \in Threads \ {t} :
              pc'[s] = pc[s] \/ (pc[s] = "wait" /\ pc'[s] = "wake")
         /\ waiters # {} => \E s \in Threads : pc'[s] = "wake"
  BY ZenonT(30) DEF TypeOK, NotifyOneAndGoto, Goto, waiters, Labels

\* A thread that is through with the loop has taken something.
LEMMA FinishNonEmpty ==
  ASSUME QueueInv, NEW t \in Threads, FinishPop(t)
  PROVE  batch[t] # <<>>
  BY PCQueueAssumption DEF PCQueueAssumption, QueueInv, TypeOK, TakenInv,
     FinishPop

\* Leaving BlockingPop hands the packets left to a thread that is woken.
LEMMA QueueInvFinishPop ==
  ASSUME QueueInv, NEW t \in Threads, FinishPop(t), UNCHANGED main
  PROVE  QueueInv'
  <1> USE PCQueueAssumption DEF PCQueueAssumption, QueueInv, TypeOK, FinishPop
  <1>1. /\ pc' \in [Threads -> Labels]
        /\ pc'[t] = "out"
        /\ \A s \in Threads \ {t} :
             pc'[s] = pc[s] \/ (pc[s] = "wait" /\ pc'[s] = "wake")
        /\ packets_ # <<>> /\ waiters # {} => \E s \in Threads : pc'[s] = "wake"
    BY NotifyOne, ZenonT(30) DEF Goto, Labels
  <1>2. pc[t] \in Locked /\ m_ = t
    BY DEF MutexInv, Locked
  <1>3. TypeOK'
    BY <1>1, ZenonT(30)
  <1>4. MutexInv'
    BY <1>1, <1>2, ZenonT(30) DEF MutexInv, Locked
  <1>5. SleepInv' /\ CheckInv'
    BY <1>1, ZenonT(30) DEF SleepInv, CheckInv
  <1>6. TakenInv'
    BY <1>1, ZenonT(30) DEF TakenInv
  <1>7. BatchShape' /\ KeyBudget'
    BY DEF BatchShape, KeyBudget
  <1>8. NoStrandedPacket'
    BY <1>1 DEF NoStrandedPacket, waiters, Looking
  <1> QED
    BY <1>3, <1>4, <1>5, <1>6, <1>7, <1>8

\* Push wakes a waiting thread for the packet it appends.
LEMMA QueueInvPush ==
  ASSUME QueueInv, NEW p \in Packets, Push(p), UNCHANGED main
  PROVE  QueueInv'
  <1> USE PCQueueAssumption DEF PCQueueAssumption, QueueInv, TypeOK, Push
  <1>1. /\ pc' \in [Threads -> Labels]
        /\ \A s \in Threads :
             pc'[s] = pc[s] \/ (pc[s] = "wait" /\ pc'[s] = "wake")
        /\ waiters # {} => \E s \in Threads : pc'[s] = "wake"
    BY ZenonT(30) DEF Goto, waiters, Labels
  <1>2. packets_' \in Seq(Packets) /\ packets_' # <<>>
    OBVIOUS
  <1>3. TypeOK'
    BY <1>1, <1>2
  <1>4. MutexInv'
    BY <1>1 DEF MutexInv, Locked
  \* The mutex is free: nobody is between the test and the wait.
  <1>5. SleepInv' /\ CheckInv'
    BY <1>1, <1>2 DEF SleepInv, CheckInv, MutexInv, Locked
  <1>6. TakenInv'
    BY <1>1, <1>2, ZenonT(30) DEF TakenInv
  <1>7. BatchShape' /\ KeyBudget'
    BY DEF BatchShape, KeyBudget
  \* If somebody waits then somebody is woken.
  <1>8. NoStrandedPacket'
    BY <1>1 DEF NoStrandedPacket, waiters, Looking
  <1> QED
    BY <1>3, <1>4, <1>5, <1>6, <1>7, <1>8

\* UnblockAll writes done_, with or without m_ being held.
LEMMA QueueInvSetDone ==
  ASSUME QueueInv, SetDone, main' \in {"run", "notify"}
  PROVE  QueueInv'
  <1> USE DEF QueueInv, SetDone
  <1>1. TypeOK'
    BY DEF TypeOK
  <1>2. MutexInv' /\ SleepInv' /\ CheckInv' /\ TakenInv'
    BY DEF MutexInv, SleepInv, CheckInv, TakenInv
  <1>3. BatchShape' /\ KeyBudget' /\ NoStrandedPacket'
    BY DEF BatchShape, KeyBudget, NoStrandedPacket
  <1> QED
    BY <1>1, <1>2, <1>3

\* notify_all moves every waiting thread to where it will look again.
LEMMA QueueInvNotifyAll ==
  ASSUME QueueInv, NotifyAll, main' \in {"run", "notify"}
  PROVE  QueueInv'
  <1> USE DEF QueueInv, NotifyAll, TypeOK
  <1>1. TypeOK'
    BY DEF Labels
  <1>2. MutexInv' /\ SleepInv' /\ CheckInv'
    BY DEF MutexInv, Locked, SleepInv, CheckInv
  <1>3. TakenInv'
    BY DEF TakenInv
  <1>4. BatchShape' /\ KeyBudget'
    BY DEF BatchShape, KeyBudget
  <1>5. NoStrandedPacket'
    BY DEF NoStrandedPacket, waiters
  <1> QED
    BY <1>1, <1>2, <1>3, <1>4, <1>5

\* Reset needs all threads outside BlockingPop.
LEMMA QueueInvReset ==
  ASSUME QueueInv, Reset, \A t \in Threads : pc[t] = "out", UNCHANGED main
  PROVE  QueueInv'
  <1> USE DEF QueueInv, Reset
  <1>1. TypeOK'
    BY ZenonT(30) DEF TypeOK
  <1>2. MutexInv' /\ SleepInv' /\ CheckInv' /\ TakenInv'
    BY DEF MutexInv, SleepInv, CheckInv, TakenInv
  <1>3. BatchShape' /\ KeyBudget'
    BY DEF BatchShape, KeyBudget
  <1>4. NoStrandedPacket'
    BY DEF NoStrandedPacket, waiters
  <1> QED
    BY <1>1, <1>2, <1>3, <1>4

\* The caller may go through the vector that BlockingPop has filled, packet by
\* packet, before it calls again.
LEMMA QueueInvConsume ==
  ASSUME QueueInv, NEW t \in Threads, pc[t] = "out", batch[t] # <<>>,
         batch' = [batch EXCEPT ![t] = Tail(@)],
         UNCHANGED <<m_, packets_, done_, pc, num_get_keys, main>>
  PROVE  QueueInv'
  <1> USE PCQueueAssumption DEF PCQueueAssumption, QueueInv, TypeOK
  <1>1. /\ batch' \in [Threads -> Seq(Packets)]
        /\ \A s \in Threads \ {t} : batch'[s] = batch[s]
        /\ Len(batch'[t]) = Len(batch[t]) - 1 /\ Len(batch[t]) \in Nat
        /\ \A i \in 1..Len(batch'[t]) : i + 1 \in 1..Len(batch[t])
                                      /\ batch'[t][i] = batch[t][i + 1]
    OBVIOUS
  <1>2. MutexInv' /\ SleepInv' /\ CheckInv'
    BY DEF MutexInv, SleepInv, CheckInv
  <1>3. TakenInv'
    BY <1>1, ZenonT(30) DEF TakenInv
  <1>4. BatchShape'
    <2> SUFFICES ASSUME NEW s \in Threads
                 PROVE  \/ \A i \in 1..Len(batch'[s]) : IsGet(batch'[s][i])
                        \/ Len(batch'[s]) = 1
      BY DEF BatchShape
    <2>1. CASE s # t
      BY <1>1, <2>1 DEF BatchShape
    <2>2. CASE s = t /\ Len(batch[t]) = 1
      BY <1>1, <2>2
    <2>3. CASE s = t /\ \A i \in 1..Len(batch[t]) : IsGet(batch[t][i])
      BY <1>1, <2>3
    <2> QED
      BY <2>1, <2>2, <2>3 DEF BatchShape
  <1>5. KeyBudget'
    <2> SUFFICES ASSUME NEW s \in Threads, batch'[s] # <<>>
                 PROVE  num_get_keys[s] < MaxKeys + NumKeys[batch'[s][Len(batch'[s])]]
      BY DEF KeyBudget
    <2>1. CASE s # t
      BY <1>1, <2>1 DEF KeyBudget
    <2>2. CASE s = t
      <3>1. num_get_keys[t] = 0
        BY ZenonT(30) DEF TakenInv
      <3>2. batch'[s] \in Seq(Packets) /\ Len(batch'[s]) \in 1..Len(batch'[s])
        BY <1>1
      <3>3. NumKeys[batch'[s][Len(batch'[s])]] \in Nat
        BY <3>2
      <3> QED
        BY <2>2, <3>1, <3>3
    <2> QED
      BY <2>1, <2>2
  <1>6. NoStrandedPacket'
    BY DEF NoStrandedPacket, waiters, Looking
  <1>7. TypeOK'
    BY <1>1
  <1> QED
    BY <1>2, <1>3, <1>4, <1>5, <1>6, <1>7

\* The invariant depends on the variables of the queue only.
LEMMA QueueInvStutter ==
  ASSUME QueueInv, UNCHANGED vars
  PROVE  QueueInv'
  <1> USE DEF vars, QueueInv
  <1>1. TypeOK' /\ MutexInv' /\ SleepInv' /\ CheckInv'
    BY DEF TypeOK, MutexInv, SleepInv, CheckInv
  <1>2. TakenInv' /\ BatchShape' /\ KeyBudget' /\ NoStrandedPacket'
    BY DEF TakenInv, BatchShape, KeyBudget, NoStrandedPacket, waiters
  <1> QED
    BY <1>1, <1>2

\* Every step of the queue and of its callers keeps the invariant.
LEMMA QueueInvNext == QueueInv /\ [Next]_vars => QueueInv'
  <1> SUFFICES ASSUME QueueInv, [Next]_vars PROVE QueueInv'
    OBVIOUS
  <1>1. ASSUME NEW t \in Threads, WorkerStep(t) PROVE QueueInv'
    BY <1>1, QueueInvCall, QueueInvAcquire, QueueInvSpuriousWake, QueueInvTest,
       QueueInvSleep, QueueInvCheckDone, QueueInvPopOther, QueueInvPopGet,
       QueueInvFinishPop
       DEF WorkerStep, Step
  <1>2. CASE MainPush
    BY <1>2, QueueInvPush DEF MainPush
  <1>3. CASE MainSetDone \/ MainNotifyAll \/ MainReset
    BY <1>3, QueueInvSetDone, QueueInvNotifyAll, QueueInvReset, ZenonT(30)
       DEF MainSetDone, MainNotifyAll, MainReset
  <1>4. CASE UNCHANGED vars
    BY <1>4, QueueInvStutter
  <1> QED
    BY <1>1, <1>2, <1>3, <1>4 DEF Next

\* The inductive invariant holds in every state of the queue, for any number
\* of threads calling BlockingPop and any sequence of Push, UnblockAll, Reset.
THEOREM QueueInvariant == Spec => []QueueInv
  BY QueueInvInit, QueueInvNext, PTL DEF Spec

\* Push loses no wakeup: a queued packet with threads asleep in BlockingPop
\* always has a thread awake in BlockingPop to look at it.
THEOREM NoStranded == Spec => []NoStrandedPacket
  <1>1. QueueInv => NoStrandedPacket
    BY DEF QueueInv
  <1> QED
    BY <1>1, QueueInvariant, PTL

\* Every batch BlockingPop builds is one packet or GETs only, and stays within
\* MAX_KEYS_PER_REQUEST but for its last packet.
THEOREM BatchesFit == Spec => [](BatchShape /\ KeyBudget)
  <1>1. QueueInv => BatchShape /\ KeyBudget
    BY DEF QueueInv
  <1> QED
    BY <1>1, QueueInvariant, PTL

\* A call of BlockingPop that returns nothing returns because of done_.
THEOREM EmptyReturns == Spec => EmptyOnlyWhenDone
  <1> DEFINE A == \A t \in Threads :
                    pc[t] # "out" /\ pc'[t] = "out" /\ batch'[t] = <<>> => done_
  <1>1. QueueInv /\ [Next]_vars => [A]_vars
    <2> SUFFICES ASSUME QueueInv, Next PROVE A
      OBVIOUS
    <2> SUFFICES ASSUME NEW t \in Threads,
                        pc[t] # "out", pc'[t] = "out", batch'[t] = <<>>
                 PROVE  done_
      OBVIOUS
    <2> USE DEF QueueInv, TypeOK
    \* Only t's own step ends its call, and only CheckDone or FinishPop do.
    <2>1. ASSUME NEW s \in Threads, WorkerStep(s) PROVE done_
      <3>1. CASE CheckDone(s) \/ FinishPop(s)
        BY <3>1, FinishNonEmpty, NotifyOne, ZenonT(30) DEF CheckDone, FinishPop, Goto
      <3>2. CASE Call(s) \/ Acquire(s) \/ SpuriousWake(s) \/ Test(s) \/ Sleep(s)
                   \/ PopOther(s) \/ PopGet(s)
        BY <3>2 DEF Call, Acquire, SpuriousWake, Test, Sleep, PopOther, PopGet,
           Goto
      <3> QED
        BY <2>1, <3>1, <3>2 DEF WorkerStep, Step
    <2>2. CASE MainPush
      BY <2>2 DEF MainPush, Push, Goto, waiters
    <2>3. CASE MainSetDone \/ MainNotifyAll \/ MainReset
      BY <2>3 DEF MainSetDone, SetDone, MainNotifyAll, NotifyAll, MainReset, Reset
    <2> QED
      BY <2>1, <2>2, <2>3 DEF Next
  <1> QED
    BY <1>1, QueueInvariant, PTL DEF Spec, EmptyOnlyWhenDone
-----------------------------------------------------------------------------
(***************************************************************************)
(* PCQueue implements BatchQueue: under the refinement mapping of PCQueue, *)
(* FinishPop is a Take, Push is a Put, Call is an Ask, SetDone and Reset   *)
(* are Release and Reopen, and all other steps leave the abstract queue    *)
(* alone.                                                                  *)
(***************************************************************************)
\* A concatenation is cut where its parts meet.
LEMMA CutConcat ==
  ASSUME NEW S, NEW s \in Seq(S), NEW u \in Seq(S), s # <<>>
  PROVE  /\ SubSeq(s \o u, 1, Len(s)) = s
         /\ SubSeq(s \o u, Len(s) + 1, Len(s \o u)) = u
         /\ Len(s) \in 1..Len(s \o u)
  <1>1. Len(s) \in Nat \ {0} /\ Len(u) \in Nat /\ Len(s \o u) = Len(s) + Len(u)
    BY EmptySeq, LenProperties, ConcatProperties
  <1>2. SubSeq(s \o u, 1, Len(s)) = s
    <2>1. SubSeq(s \o u, 1, Len(s)) = SubSeq(s, 1, Len(s))
      BY <1>1, SubSeqOfConcat1
    <2> QED
      BY <2>1, SubSeqFull
  <1>3. SubSeq(s \o u, Len(s) + 1, Len(s \o u)) = u
    <2>1. CASE Len(u) = 0
      BY <1>1, <2>1, SubSeqEmpty, EmptySeq
    <2>2. CASE Len(u) # 0
      <3>1. SubSeq(s \o u, Len(s) + 1, Len(s) + Len(u)) = SubSeq(u, 1, Len(u))
        BY <1>1, <2>2, SubSeqOfConcat2
      <3> QED
        BY <1>1, <3>1, SubSeqFull
    <2> QED
      BY <2>1, <2>2
  <1> QED
    BY <1>1, <1>2, <1>3

\* Moving the head of u to the end of s leaves s \o u as it is.
LEMMA MoveHead ==
  ASSUME NEW S, NEW s \in Seq(S), NEW u \in Seq(S), u # <<>>
  PROVE  Append(s, Head(u)) \o Tail(u) = s \o u
  <1>1. /\ Head(u) \in S /\ Tail(u) \in Seq(S) /\ Append(s, Head(u)) \in Seq(S)
        /\ <<Head(u)>> \in Seq(S)
    BY HeadTailProperties, AppendProperties
  <1>2. u = <<Head(u)>> \o Tail(u)
    <2>1. Len(u) \in Nat \ {0} /\ Head(u) = u[1]
      BY EmptySeq
    <2>2. SubSeq(u, 1, Len(u)) = <<u[1]>> \o SubSeq(u, 1 + 1, Len(u))
      BY <2>1, SubSeqRecursiveFirst
    <2> QED
      BY <2>1, <2>2, SubSeqFull, TailIsSubSeq
  <1>3. Append(s, Head(u)) = s \o <<Head(u)>>
    BY <1>1, AppendIsConcat
  <1>4. (s \o <<Head(u)>>) \o Tail(u) = s \o (<<Head(u)>> \o Tail(u))
    BY <1>1, ConcatAssociative
  <1> QED
    BY <1>2, <1>3, <1>4

\* A step that changes neither the packets nor who is in the loop, nor a batch
\* outside it, is invisible.
LEMMA Invisible ==
  ASSUME QueueInv, QueueInv', UNCHANGED <<packets_, batch, done_>>,
         \A t \in Threads : InLoop(t)' <=> InLoop(t)
  PROVE  UNCHANGED <<AbstractQueue, AbstractHeld, done_>>
  <1>1. AbstractHeld' = AbstractHeld
    BY DEF AbstractHeld
  <1>2. AbstractQueue' = AbstractQueue
    BY DEF QueueInv, MutexInv, Locked, InLoop, AbstractQueue
  <1> QED
    BY <1>1, <1>2

\* The first steps of BlockingPop, up to the loop, and waking up.
LEMMA RefineQuiet ==
  ASSUME QueueInv, QueueInv', NEW t \in Threads,
         Acquire(t) \/ SpuriousWake(t) \/ Test(t) \/ Sleep(t)
  PROVE  UNCHANGED <<AbstractQueue, AbstractHeld, done_>>
  <1>1. UNCHANGED <<packets_, batch, done_>>
    BY DEF Acquire, SpuriousWake, Test, Sleep
  <1>2. \A s \in Threads : InLoop(s)' <=> InLoop(s)
    BY DEF Acquire, SpuriousWake, Test, Sleep, Goto, InLoop, QueueInv, TypeOK
  <1> QED
    BY <1>1, <1>2, Invisible

\* A caller drops the batch it had.
LEMMA RefineCall ==
  ASSUME QueueInv, QueueInv', NEW t \in Threads, Call(t)
  PROVE  Abstract!Ask(t)
  <1> USE DEF QueueInv, TypeOK, Call, Goto
  <1>1. \A s \in Threads : InLoop(s)' <=> InLoop(s)
    BY DEF InLoop
  <1>2. AbstractHeld' = [AbstractHeld EXCEPT ![t] = <<>>]
    BY <1>1, ZenonT(30) DEF AbstractHeld
  <1>3. AbstractQueue' = AbstractQueue
    BY <1>1 DEF AbstractQueue, MutexInv, Locked, InLoop
  <1> QED
    BY <1>2, <1>3 DEF Abstract!Ask

\* A thread enters the loop with an empty batch, or returns with one.
LEMMA RefineCheckDone ==
  ASSUME QueueInv, QueueInv', NEW t \in Threads, CheckDone(t)
  PROVE  UNCHANGED <<AbstractQueue, AbstractHeld, done_>>
  <1> USE DEF QueueInv, TypeOK, CheckDone, Goto
  <1>1. CASE done_
    <2>1. \A s \in Threads : InLoop(s)' <=> InLoop(s)
      BY <1>1 DEF InLoop
    <2> QED
      BY <2>1, Invisible
  <1>2. CASE ~done_
    <2>1. batch[t] = <<>> /\ m_ = t /\ m_' = t
      BY <1>2 DEF TakenInv, MutexInv, Locked
    <2>2. ~InLoop(t) /\ InLoop(t)'
      BY <1>2 DEF InLoop
    <2>3. \A s \in Threads \ {t} : InLoop(s)' <=> InLoop(s)
      BY <1>2 DEF InLoop
    <2>4. AbstractHeld' = AbstractHeld
      BY <2>1, <2>2, <2>3 DEF AbstractHeld
    <2>5. AbstractQueue = packets_ /\ AbstractQueue' = batch[t] \o packets_
      BY <2>1, <2>2 DEF AbstractQueue
    <2>6. AbstractQueue' = AbstractQueue
      BY <2>1, <2>5, ConcatEmptySeq
    <2> QED
      BY <2>4, <2>6
  <1> QED
    BY <1>1, <1>2

\* In the loop a packet moves from packets_ to the batch.
LEMMA RefinePop ==
  ASSUME QueueInv, QueueInv', NEW t \in Threads, PopOther(t) \/ PopGet(t)
  PROVE  UNCHANGED <<AbstractQueue, AbstractHeld, done_>>
  <1> USE DEF QueueInv, TypeOK
  <1>1. InLoop(t) /\ InLoop(t)' /\ m_ = t /\ m_' = t /\ done_' = done_
    BY DEF PopOther, PopGet, Goto, InLoop, MutexInv, Locked
  <1>2. \A s \in Threads \ {t} : (InLoop(s)' <=> InLoop(s)) /\ batch'[s] = batch[s]
    BY DEF PopOther, PopGet, Goto, InLoop
  <1>3. batch'[t] \o packets_' = batch[t] \o packets_
    <2>1. CASE UNCHANGED <<packets_, batch>>
      BY <2>1
    <2>2. CASE /\ packets_ # <<>>
               /\ packets_' = Tail(packets_)
               /\ batch' = [batch EXCEPT ![t] = Append(@, Head(packets_))]
      <3>1. Append(batch[t], Head(packets_)) \o Tail(packets_)
              = batch[t] \o packets_
        BY <2>2, MoveHead, ZenonT(30)
      <3>2. batch'[t] = Append(batch[t], Head(packets_))
        BY <2>2
      <3> QED
        BY <2>2, <3>1, <3>2, ZenonT(30)
    <2> QED
      BY <2>1, <2>2, ZenonT(30) DEF PopOther, PopGet
  <1>4. AbstractHeld' = AbstractHeld
    BY <1>1, <1>2 DEF AbstractHeld
  <1>5. AbstractQueue' = AbstractQueue
    BY <1>1, <1>3 DEF AbstractQueue
  <1> QED
    BY <1>1, <1>4, <1>5

\* What a thread took in the loop is a batch.
LEMMA TakenIsBatch ==
  ASSUME QueueInv, NEW t \in Threads, FinishPop(t)
  PROVE  Abstract!IsBatch(batch[t])
  <1> USE PCQueueAssumption DEF PCQueueAssumption, QueueInv, TypeOK
  <1>1. batch[t] \in Seq(Packets) /\ batch[t] # <<>>
    BY FinishNonEmpty
  <1>2. Len(batch[t]) \in Nat \ {0}
    BY <1>1, EmptySeq
  <1>3. CASE \A i \in 1..Len(batch[t]) : IsGet(batch[t][i])
    BY <1>2, <1>3 DEF Abstract!IsBatch, IsGet
  <1>4. CASE Len(batch[t]) = 1
    <2>1. batch[t][1] \in Packets
      BY <1>1, <1>4, ElementOfSeq
    <2>2. NumKeys[batch[t][1]] \in Nat
      BY <2>1
    <2> QED
      BY <1>4, <2>2 DEF Abstract!IsBatch
  <1> QED
    BY <1>3, <1>4 DEF BatchShape

\* Leaving the loop takes the whole batch off the abstract queue.
LEMMA RefineFinishPop ==
  ASSUME QueueInv, QueueInv', NEW t \in Threads, FinishPop(t)
  PROVE  \E n \in 1..Len(AbstractQueue) : Abstract!Take(t, n)
  <1> USE DEF QueueInv, TypeOK
  <1>1. /\ InLoop(t) /\ m_ = t /\ m_' = NoThread
        /\ UNCHANGED <<packets_, batch, done_>>
    BY DEF FinishPop, InLoop, MutexInv, Locked
  <1>2. \A s \in Threads : InLoop(s)' <=> InLoop(s) /\ s # t
    <2>1. pc[t] # "wait" /\ (NotifyOneAndGoto(t, "out") \/ Goto(t, "out"))
      BY DEF FinishPop
    <2> QED
      BY <2>1, NotifyOne, ZenonT(30) DEF Goto, InLoop
  <1>3. batch[t] # <<>>
    BY FinishNonEmpty
  <1>4. AbstractQueue = batch[t] \o packets_
    BY <1>1 DEF AbstractQueue
  <1>5. AbstractQueue' = packets_
    BY <1>1, PCQueueAssumption DEF AbstractQueue, PCQueueAssumption
  <1>6. AbstractHeld' = [AbstractHeld EXCEPT ![t] = batch[t]]
    BY <1>1, <1>2, ZenonT(30) DEF AbstractHeld
  <1>7. /\ SubSeq(AbstractQueue, 1, Len(batch[t])) = batch[t]
        /\ SubSeq(AbstractQueue, Len(batch[t]) + 1, Len(AbstractQueue)) = packets_
        /\ Len(batch[t]) \in 1..Len(AbstractQueue)
    BY <1>3, <1>4, CutConcat
  <1>8. Abstract!Take(t, Len(batch[t]))
    BY <1>1, <1>5, <1>6, <1>7, TakenIsBatch, ZenonT(30) DEF Abstract!Take
  <1> QED
    BY <1>7, <1>8

\* Push appends; the mutex is free, so that nobody is in the loop.
LEMMA RefinePush ==
  ASSUME QueueInv, QueueInv', NEW p \in Packets, Push(p)
  PROVE  Abstract!Put(p)
  <1> USE PCQueueAssumption DEF PCQueueAssumption, QueueInv, TypeOK, Push
  <1>1. \A s \in Threads : ~InLoop(s) /\ ~InLoop(s)'
    BY DEF InLoop, MutexInv, Locked
  <1>2. AbstractQueue = packets_ /\ AbstractQueue' = packets_'
    BY <1>1 DEF AbstractQueue
  <1>3. AbstractHeld' = AbstractHeld
    BY <1>1 DEF AbstractHeld
  <1> QED
    BY <1>2, <1>3 DEF Abstract!Put

\* The steps of the main thread: Push, UnblockAll and Reset.
LEMMA RefineMain ==
  ASSUME QueueInv, QueueInv'
  PROVE  /\ MainSetDone => Abstract!Release
         /\ MainNotifyAll => UNCHANGED <<AbstractQueue, AbstractHeld, done_>>
         /\ MainReset => Abstract!Reopen
  <1> USE DEF AbstractQueue, AbstractHeld, InLoop
  <1>1. ASSUME MainSetDone PROVE Abstract!Release
    BY <1>1 DEF MainSetDone, SetDone, Abstract!Release
  <1>2. ASSUME MainNotifyAll PROVE UNCHANGED <<AbstractQueue, AbstractHeld, done_>>
    <2>1. \A s \in Threads : InLoop(s)' <=> InLoop(s)
      BY <1>2 DEF MainNotifyAll, NotifyAll
    <2> QED
      BY <1>2, <2>1, Invisible DEF MainNotifyAll, NotifyAll
  <1>3. ASSUME MainReset PROVE Abstract!Reopen
    BY <1>3 DEF MainReset, Reset, Abstract!Reopen
  <1> QED
    BY <1>1, <1>2, <1>3

\* Every step of the queue is a step of BatchQueue or changes nothing there.
LEMMA RefineNext ==
  ASSUME QueueInv, QueueInv', [Next]_vars
  PROVE  [Abstract!Next]_Abstract!vars
  <1> USE DEF Abstract!vars, Abstract!Next
  <1>1. ASSUME NEW t \in Threads, WorkerStep(t)
        PROVE  Abstract!Next \/ UNCHANGED Abstract!vars
    <2>1. CASE Call(t)
      BY <2>1, RefineCall
    <2>2. CASE FinishPop(t)
      BY <2>2, RefineFinishPop
    <2>3. CASE Acquire(t) \/ SpuriousWake(t) \/ Test(t) \/ Sleep(t)
                 \/ CheckDone(t) \/ PopOther(t) \/ PopGet(t)
      BY <2>3, RefineQuiet, RefineCheckDone, RefinePop
    <2> QED
      BY <1>1, <2>1, <2>2, <2>3 DEF WorkerStep, Step
  <1>2. CASE MainPush
    BY <1>2, RefinePush DEF MainPush
  <1>3. CASE MainSetDone \/ MainNotifyAll \/ MainReset
    BY <1>3, RefineMain
  <1>4. CASE UNCHANGED vars
    BY <1>4 DEF vars, AbstractQueue, AbstractHeld, InLoop
  <1> QED
    BY <1>1, <1>2, <1>3, <1>4 DEF Next

\* The queue of the router is a FIFO of batches: whatever the interleaving of
\* the threads in BlockingPop with Push, UnblockAll and Reset, packets leave it
\* in their order, each once, in batches of one packet or of GETs only.
THEOREM Refinement == Spec => ImplementsBatchQueue
  <1>1. Init => Abstract!Init
    BY PCQueueAssumption DEF PCQueueAssumption, Init, Abstract!Init,
       AbstractQueue, AbstractHeld, InLoop
  <1>2. QueueInv /\ QueueInv' /\ [Next]_vars => [Abstract!Next]_Abstract!vars
    BY RefineNext
  <1> QED
    BY <1>1, <1>2, QueueInvariant, PTL DEF Spec, ImplementsBatchQueue,
       Abstract!Spec
=============================================================================
