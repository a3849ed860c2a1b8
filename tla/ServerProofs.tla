---------------------------- MODULE ServerProofs ----------------------------
(***************************************************************************)
(* Proofs about Server: lemmas about sequences and about what is on the    *)
(* wire, the steps that leave the counts of the ResponseStates alone, the  *)
(* steps that count, and with them that ServerInv is inductive, for any    *)
(* number of threads, any finite set of commands with any numbers of       *)
(* instructions and any states.  That nodes are not shared, responses are  *)
(* not misdelivered and BlockingGetResponse returns all of them follows.   *)
(***************************************************************************)
EXTENDS Server, FiniteSetTheorems, TLAPS

USE SMTT(30), SMTT(20), SMTT(10)

\* Head and tail of a sequence that is not empty.
LEMMA HeadTail ==
  ASSUME NEW S, NEW s \in Seq(S), s # <<>>
  PROVE  /\ Head(s) \in S /\ Head(s) = s[1]
         /\ Tail(s) \in Seq(S) /\ Len(Tail(s)) = Len(s) - 1
         /\ \A i \in 1..Len(Tail(s)) : Tail(s)[i] = s[i + 1]
  OBVIOUS

\* A sequence and one element more.
LEMMA Appended ==
  ASSUME NEW S, NEW s \in Seq(S), NEW x \in S
  PROVE  /\ Append(s, x) \in Seq(S) /\ Append(s, x) # <<>>
         /\ Len(Append(s, x)) = Len(s) + 1
         /\ \A i \in 1..Len(s) : Append(s, x)[i] = s[i]
         /\ Append(s, x)[Len(s) + 1] = x
  OBVIOUS

\* The members of a sequence.
LEMMA Members ==
  ASSUME NEW S, NEW s \in Seq(S)
  PROVE  \A x : x \in Range(s) <=> \E i \in 1..Len(s) : s[i] = x
  BY DEF Range

\* The members of a sequence are those of its tail and its head.
LEMMA Elements ==
  ASSUME NEW S, NEW s \in Seq(S)
  PROVE  /\ \A x : x \in Range(s) <=> \E i \in 1..Len(s) : s[i] = x
         /\ Range(s) \subseteq S
         /\ Range(<<>>) = {}
         /\ s # <<>> => Head(s) \in Range(s) /\ Range(s) = Range(Tail(s)) \cup {Head(s)}
  <1>1. \A x : x \in Range(s) <=> \E i \in 1..Len(s) : s[i] = x
    BY Members
  <1>2. Range(<<>>) = {}
    BY DEF Range
  <1>3. ASSUME s # <<>>
        PROVE  Head(s) \in Range(s) /\ Range(s) = Range(Tail(s)) \cup {Head(s)}
    <2>1. /\ Tail(s) \in Seq(S) /\ Len(Tail(s)) = Len(s) - 1 /\ Len(s) \in Nat \ {0}
          /\ \A i \in 1..Len(Tail(s)) : Tail(s)[i] = s[i + 1]
          /\ Head(s) = s[1]
      BY <1>3, HeadTail
    <2>2. \A x : x \in Range(Tail(s)) <=> \E i \in 1..Len(Tail(s)) : Tail(s)[i] = x
      BY <2>1, Members, ZenonT(30)
    <2>3. \A x : x \in Range(Tail(s)) => x \in Range(s)
      BY <1>1, <2>1, <2>2
    <2>4. \A x : x \in Range(s) => x = Head(s) \/ x \in Range(Tail(s))
      <3> SUFFICES ASSUME NEW i \in 1..Len(s), i # 1
                   PROVE  s[i] \in Range(Tail(s))
        BY <1>1, <2>1
      <3> i - 1 \in 1..Len(Tail(s)) /\ Tail(s)[i - 1] = s[i]
        BY <2>1
      <3> QED
        BY <2>2, ZenonT(30)
    <2>5. Head(s) \in Range(s)
      BY <1>1, <2>1
    <2> QED
      BY <2>3, <2>4, <2>5
  <1> QED
    BY <1>1, <1>2, <1>3

\* A member more at the end.
LEMMA AppendedElements ==
  ASSUME NEW S, NEW s \in Seq(S), NEW x \in S
  PROVE  /\ Range(Append(s, x)) = Range(s) \cup {x}
         /\ IsInjective(s) /\ x \notin Range(s) => IsInjective(Append(s, x))
  <1>1. /\ Append(s, x) \in Seq(S) /\ Len(Append(s, x)) = Len(s) + 1
        /\ \A i \in 1..Len(s) : Append(s, x)[i] = s[i]
        /\ Append(s, x)[Len(s) + 1] = x
        /\ Len(s) \in Nat
    BY Appended
  <1>2. /\ \A y : y \in Range(s) <=> \E i \in 1..Len(s) : s[i] = y
        /\ \A y : y \in Range(Append(s, x)) <=> \E i \in 1..Len(Append(s, x)) : Append(s, x)[i] = y
    BY <1>1, Members, ZenonT(30)
  <1>3. Range(Append(s, x)) = Range(s) \cup {x}
    BY <1>1, <1>2
  <1>4. ASSUME IsInjective(s), x \notin Range(s) PROVE IsInjective(Append(s, x))
    <2> SUFFICES ASSUME NEW i \in 1..(Len(s) + 1), NEW j \in 1..(Len(s) + 1),
                        Append(s, x)[i] = Append(s, x)[j]
                 PROVE  i = j
      BY <1>1 DEF IsInjective
    <2>1. CASE i \in 1..Len(s) /\ j \in 1..Len(s)
      BY <1>1, <1>4, <2>1 DEF IsInjective
    <2>2. CASE i = Len(s) + 1 /\ j \in 1..Len(s)
      BY <1>1, <1>2, <1>4, <2>2
    <2>3. CASE j = Len(s) + 1 /\ i \in 1..Len(s)
      BY <1>1, <1>2, <1>4, <2>3
    <2> QED
      BY <1>1, <2>1, <2>2, <2>3
  <1> QED
    BY <1>3, <1>4

\* The rest of a node is without repetitions and without its first command.
LEMMA RestInjective ==
  ASSUME NEW S, NEW s \in Seq(S), s # <<>>, IsInjective(s)
  PROVE  IsInjective(Tail(s)) /\ Head(s) \notin Range(Tail(s))
  <1>1. /\ Tail(s) \in Seq(S) /\ Len(Tail(s)) = Len(s) - 1 /\ Len(s) \in Nat \ {0}
        /\ \A i \in 1..Len(Tail(s)) : Tail(s)[i] = s[i + 1]
        /\ Head(s) = s[1]
    BY HeadTail
  <1>2. \A x : x \in Range(Tail(s)) <=> \E i \in 1..Len(Tail(s)) : Tail(s)[i] = x
    BY <1>1, Members, ZenonT(30)
  <1>3. \A i \in 1..Len(Tail(s)) : i + 1 \in 1..Len(s) /\ i + 1 # 1
    BY <1>1
  <1> QED
    BY <1>1, <1>2, <1>3 DEF IsInjective

\* Responses on the wire fit as long as nothing of a serving thread changes.
LEMMA WireKept ==
  ASSUME NEW u, WireFits(u),
         pc'[u] \in Serving =>
           /\ pc[u] \in Serving /\ (pc'[u] = "count" <=> pc[u] = "count")
           /\ n'[u] = n[u] /\ left'[u] = left[u] /\ wire'[u] = wire[u] /\ buf'[u] = buf[u]
  PROVE  WireFits(u)'
  BY ZenonT(30) DEF WireFits, Aligned

\* The steps of the threads that only move them, outside and inside the serving
\* of a node, leave the nodes, the wire and the ResponseStates as they fit.
LEMMA Quiet ==
  ASSUME ServerInv,
         UNCHANGED <<node_, n, left, wire, buf, adding, state, num_left_, response_>>,
         \A s \in States : caller'[s] = "returned" => num_left_[s] = 0,
         \A t \in Threads : /\ pc'[t] \in Serving <=> pc[t] \in Serving
                            /\ pc'[t] = "count" <=> pc[t] = "count"
  PROVE  AddedInv' /\ WireInv' /\ ReceivedInv' /\ PendingInv' /\ ExclusiveAccess' /\ NoMisdelivery'
  <1>1. AddedInv' /\ ExclusiveAccess' /\ NoMisdelivery'
    BY DEF ServerInv, AddedInv, ExclusiveAccess, NoMisdelivery
  <1>2. WireInv'
    BY WireKept DEF ServerInv, WireInv
  <1>3. ReceivedInv'
    BY DEF ServerInv, ReceivedInv, Received
  <1>4. PendingInv'
    <2>1. \A s \in States : Open(s)' = Open(s)
      BY DEF Open, Received
    <2> QED
      BY <2>1 DEF ServerInv, PendingInv
  <1> QED
    BY <1>1, <1>2, <1>3, <1>4

-----------------------------------------------------------------------------
(***************************************************************************)
(* The steps that only move threads, the owner or a caller.                *)
(***************************************************************************)

\* A thread connects, tests done_, locks m_, tests, waits, wakes up or reads.
LEMMA MoveInv ==
  ASSUME ServerInv, NEW t \in Threads,
         \/ Connect(t) \/ TestDone(t) \/ Acquire(t) \/ Test(t) \/ Sleep(t)
         \/ SpuriousWake(t) \/ Read(t)
  PROVE  ServerInv'
  <1> USE DEF Goto, serverVars, stateVars
  <1>1. TypeOK'
    BY ZenonT(30) DEF ServerInv, TypeOK, Labels, Connect, TestDone, Acquire, Test, Sleep, SpuriousWake, Read
  <1>2. MutexInv'
    <2>1. CASE Connect(t) \/ TestDone(t) \/ SpuriousWake(t) \/ Read(t)
      BY <2>1 DEF ServerInv, TypeOK, MutexInv, Connect, TestDone, SpuriousWake, Read
    <2>2. CASE Acquire(t)
      BY <2>2, ServerAssumption DEF ServerInv, TypeOK, MutexInv, Acquire
    <2>3. CASE Test(t)
      BY <2>3, ServerAssumption DEF ServerInv, TypeOK, MutexInv, Test
    <2>4. CASE Sleep(t)
      BY <2>4, ServerAssumption DEF ServerInv, TypeOK, MutexInv, Sleep
    <2> QED
      BY <2>1, <2>2, <2>3, <2>4
  <1>3. NodeInv'
    BY DEF ServerInv, TypeOK, NodeInv, Serving, Connect, TestDone, Acquire, Test, Sleep,
       SpuriousWake, Read
  <1>4. /\ UNCHANGED <<node_, n, left, wire, buf, adding, state, num_left_, response_, caller>>
        /\ \A u \in Threads : /\ pc'[u] \in Serving <=> pc[u] \in Serving
                              /\ pc'[u] = "count" <=> pc[u] = "count"
    BY DEF ServerInv, TypeOK, Serving, Connect, TestDone, Acquire, Test, Sleep, SpuriousWake, Read
  <1>5. \A s \in States : caller'[s] = "returned" => num_left_[s] = 0
    BY <1>4 DEF ServerInv, PendingInv
  <1>6. AddedInv' /\ WireInv' /\ ReceivedInv' /\ PendingInv' /\ ExclusiveAccess' /\ NoMisdelivery'
    BY <1>4, <1>5, Quiet
  <1> QED
    BY <1>1, <1>2, <1>3, <1>6 DEF ServerInv

\* SetDone and the destructor.
LEMMA OwnerInv ==
  ASSUME ServerInv, OwnerStep
  PROVE  ServerInv'
  <1> USE DEF OwnerStep, SetDone, Destroy, NotifyAll, Join, NotifyEveryone, waiters,
              serverVars, threadVars, stateVars
  <1>1. TypeOK'
    BY ZenonT(30) DEF ServerInv, TypeOK, Labels
  <1>2. MutexInv'
    BY DEF ServerInv, TypeOK, MutexInv
  <1>3. NodeInv'
    BY DEF ServerInv, TypeOK, NodeInv, Serving
  <1>4. /\ UNCHANGED <<node_, n, left, wire, buf, adding, state, num_left_, response_, caller>>
        /\ \A u \in Threads : /\ pc'[u] \in Serving <=> pc[u] \in Serving
                              /\ pc'[u] = "count" <=> pc[u] = "count"
    BY DEF ServerInv, TypeOK, Serving
  <1>5. \A s \in States : caller'[s] = "returned" => num_left_[s] = 0
    BY <1>4 DEF ServerInv, PendingInv
  <1>6. AddedInv' /\ WireInv' /\ ReceivedInv' /\ PendingInv' /\ ExclusiveAccess' /\ NoMisdelivery'
    BY <1>4, <1>5, Quiet
  <1> QED
    BY <1>1, <1>2, <1>3, <1>6 DEF ServerInv

\* BlockingGetResponse returns only when nothing is pending.
LEMMA CallerInv ==
  ASSUME ServerInv, NEW s \in States, BlockingGetResponse(s)
  PROVE  ServerInv'
  <1> USE DEF BlockingGetResponse, MustWait, serverVars, threadVars
  <1>1. TypeOK'
    BY DEF ServerInv, TypeOK
  <1>2. MutexInv' /\ NodeInv'
    BY DEF ServerInv, MutexInv, NodeInv
  <1>3. UNCHANGED <<node_, n, left, wire, buf, adding, state, num_left_, response_, pc>>
    OBVIOUS
  <1>4. \A q \in States : caller'[q] = "returned" => num_left_[q] = 0
    BY DEF ServerInv, TypeOK, PendingInv
  <1>5. AddedInv' /\ WireInv' /\ ReceivedInv' /\ PendingInv' /\ ExclusiveAccess' /\ NoMisdelivery'
    BY <1>3, <1>4, Quiet
  <1> QED
    BY <1>1, <1>2, <1>5 DEF ServerInv

-----------------------------------------------------------------------------
(***************************************************************************)
(* AddCommand, and the way of a node from node_ to a thread.               *)
(***************************************************************************)

\* A pending command is in no node yet, so it enters node_ once.
LEMMA AddToNodeInv ==
  ASSUME ServerInv, NEW c \in Commands, AddToNode(c)
  PROVE  ServerInv'
  <1> USE DEF serverVars, threadVars, stateVars
  <1>1. /\ pc' \in [Threads -> Labels]
        /\ \A t \in Threads : pc'[t] # pc[t] => pc[t] = "wait" /\ pc'[t] = "wake"
    BY ZenonT(30) DEF ServerInv, TypeOK, AddToNode, NotifyOne, waiters, Goto, Labels
  <1>2. TypeOK'
    BY <1>1 DEF ServerInv, TypeOK, AddToNode
  <1>3. MutexInv'
    BY <1>1 DEF ServerInv, MutexInv, AddToNode
  <1>4. node_' # <<>>
    BY Appended DEF ServerInv, TypeOK, AddToNode
  <1>5. NodeInv'
    BY <1>1, <1>4 DEF ServerInv, NodeInv, AddToNode, Serving
  <1>6. /\ c \notin Range(node_)
        /\ \A t \in Threads : c \notin Range(n[t])
        /\ state[c] # NoState
    BY DEF ServerInv, AddedInv, AddToNode
  <1>7. Range(node_') = Range(node_) \cup {c} /\ IsInjective(node_')
    BY <1>6, AppendedElements DEF ServerInv, TypeOK, AddedInv, AddToNode
  <1>8. AddedInv'
    BY <1>6, <1>7 DEF ServerInv, AddedInv, AddToNode, TypeOK
  <1>9. WireInv'
    BY <1>1, WireKept DEF ServerInv, WireInv, AddToNode, Serving
  <1>10. ReceivedInv'
    BY <1>1, <1>6, <1>7, ZenonT(30) DEF ServerInv, ReceivedInv, Received, AddToNode, Serving, TypeOK
  <1>11. PendingInv'
    <2>1. \A s \in States : Open(s)' = Open(s)
      BY DEF Open, Received, AddToNode
    <2> QED
      BY <2>1 DEF ServerInv, PendingInv, AddToNode
  <1>12. ExclusiveAccess' /\ NoMisdelivery'
    BY <1>6, <1>7 DEF ServerInv, ExclusiveAccess, NoMisdelivery, AddToNode
  <1> QED
    BY <1>2, <1>3, <1>5, <1>8, <1>9, <1>10, <1>11, <1>12 DEF ServerInv

\* The node changes hands: its commands are open before and after.
LEMMA TakeInv ==
  ASSUME ServerInv, NEW t \in Threads, Take(t)
  PROVE  ServerInv'
  <1> USE DEF serverVars, threadVars, stateVars, Goto
  <1>1. Range(<<>>) = {} /\ IsInjective(<<>>)
    BY DEF Range, IsInjective
  <1>2. n[t] = <<>> /\ m_ = t /\ \A u \in Threads \ {t} : pc[u] # "take"
    BY DEF ServerInv, NodeInv, MutexInv, Take, Serving
  <1>3. TypeOK'
    <2>1. UNCHANGED <<done_, left, wire, buf, adding, state, num_left_, response_, caller>>
      BY DEF Take
    <2>2. <<>> \in Seq(Commands)
      OBVIOUS
    <2>3. node_' \in Seq(Commands) /\ n' \in [Threads -> Seq(Commands)]
      BY <2>2, ZenonT(30) DEF ServerInv, TypeOK, Take, HandOver
    <2>4. pc' \in [Threads -> Labels] /\ m_' \in Threads \cup {NoThread}
      BY DEF ServerInv, TypeOK, Take, Labels
    <2> QED
      BY <2>1, <2>3, <2>4, ZenonT(30) DEF ServerInv, TypeOK
  <1>4. MutexInv'
    BY <1>2, ServerAssumption DEF ServerInv, TypeOK, MutexInv, Take
  <1>5. /\ \A u \in Threads \ {t} : n'[u] = n[u] /\ pc'[u] = pc[u]
        /\ pc'[t] = "got" /\ pc[t] = "take"
        /\ \/ done_ /\ node_' = node_ /\ n'[t] = <<>>
           \/ ~done_ /\ node_' = <<>> /\ n'[t] = node_
    BY <1>2 DEF ServerInv, TypeOK, Take, HandOver
  <1>6. NodeInv'
    BY <1>2, <1>5 DEF ServerInv, NodeInv, Take, Serving
  <1>7. AddedInv' /\ ExclusiveAccess'
    BY <1>1, <1>5, <1>2, ZenonT(30) DEF ServerInv, AddedInv, ExclusiveAccess, Take
  <1>8. WireInv' /\ NoMisdelivery'
    <2>1. UNCHANGED <<left, wire, buf, state, response_>>
      BY DEF Take
    <2>2. NoMisdelivery'
      BY <2>1 DEF ServerInv, NoMisdelivery
    <2>3. \A u \in Threads : pc'[u] \in Serving => u # t
      BY <1>5 DEF Serving
    <2> QED
      BY <1>5, <2>1, <2>2, <2>3, WireKept DEF ServerInv, WireInv
  <1>9. ReceivedInv'
    BY <1>1, <1>2, <1>5 DEF ServerInv, ReceivedInv, Received, Take, Serving
  <1>10. PendingInv'
    <2>1. \A s \in States : Open(s)' = Open(s)
      <3> SUFFICES ASSUME NEW s \in States, NEW c \in Commands, state[c] = s
                   PROVE  \/ Received(s, c) < Instr[c]
                          \/ (\E u \in Threads : c \in Range(n[u])) <=>
                             (\E u \in Threads : c \in Range(n'[u]))
        BY DEF Open, Received, Take
      <3>1. CASE c \in Range(node_)
        BY <3>1, ServerAssumption DEF ServerInv, ReceivedInv
      <3>2. CASE c \notin Range(node_)
        BY <3>2, <1>1, <1>2, <1>5
      <3> QED
        BY <3>1, <3>2
    <2> QED
      BY <2>1 DEF ServerInv, PendingInv, Take
  <1> QED
    BY <1>3, <1>4, <1>6, <1>7, <1>8, <1>9, <1>10 DEF ServerInv

\* A node dropped because of done_ was not sent: its commands stay open.
LEMMA CheckDoneInv ==
  ASSUME ServerInv, NEW t \in Threads, CheckDone(t)
  PROVE  ServerInv'
  <1> USE DEF serverVars, threadVars, stateVars, Goto
  <1>1. Range(<<>>) = {} /\ IsInjective(<<>>)
    BY DEF Range, IsInjective
  <1>2. TypeOK'
    <2>1. /\ UNCHANGED <<m_, done_, node_, left, wire, buf, adding>>
          /\ UNCHANGED <<state, num_left_, response_, caller>>
      BY DEF CheckDone
    <2>2. <<>> \in Seq(Commands)
      OBVIOUS
    <2>3. n' \in [Threads -> Seq(Commands)]
      BY <2>2, ZenonT(30) DEF ServerInv, TypeOK, CheckDone
    <2>4. pc' \in [Threads -> Labels]
      BY ZenonT(30) DEF ServerInv, TypeOK, CheckDone, Labels
    <2> QED
      BY <2>1, <2>3, <2>4 DEF ServerInv, TypeOK
  <1>3. /\ \A u \in Threads \ {t} : n'[u] = n[u] /\ pc'[u] = pc[u]
        /\ pc[t] = "got" /\ pc'[t] \in {"dead", "send"}
        /\ \/ pc'[t] = "dead" /\ n'[t] = <<>>
           \/ pc'[t] = "send" /\ n'[t] = n[t] /\ n[t] # <<>>
    BY DEF ServerInv, TypeOK, NodeInv, CheckDone
  <1>4. MutexInv'
    BY <1>3 DEF ServerInv, MutexInv, CheckDone
  <1>5. NodeInv'
    BY <1>3 DEF ServerInv, NodeInv, CheckDone, Serving
  <1>6. AddedInv' /\ ExclusiveAccess'
    BY <1>1, <1>3 DEF ServerInv, AddedInv, ExclusiveAccess, CheckDone
  <1>7. WireInv' /\ NoMisdelivery'
    <2>1. UNCHANGED <<left, wire, buf, state, response_>>
      BY DEF CheckDone
    <2>2. NoMisdelivery'
      BY <2>1 DEF ServerInv, NoMisdelivery
    <2>3. \A u \in Threads : pc'[u] \in Serving => u # t
      BY <1>3 DEF Serving
    <2> QED
      BY <1>3, <2>1, <2>2, <2>3, WireKept DEF ServerInv, WireInv
  <1>8. ReceivedInv'
    BY <1>1, <1>3 DEF ServerInv, ReceivedInv, Received, CheckDone, Serving
  <1>9. PendingInv'
    <2>1. \A s \in States : Open(s)' = Open(s)
      <3> SUFFICES ASSUME NEW s \in States, NEW c \in Commands, state[c] = s
                   PROVE  \/ Received(s, c) < Instr[c]
                          \/ (\E u \in Threads : c \in Range(n[u])) <=>
                             (\E u \in Threads : c \in Range(n'[u]))
        BY DEF Open, Received, CheckDone
      <3>1. CASE c \in Range(n[t])
        <4>1. Received(s, c) = 0
          BY <3>1, <1>3, ServerAssumption DEF ServerInv, ReceivedInv, Serving
        <4> QED
          BY <4>1, ServerAssumption
      <3>2. CASE c \notin Range(n[t])
        BY <3>2, <1>1, <1>3
      <3> QED
        BY <3>1, <3>2
    <2> QED
      BY <2>1 DEF ServerInv, PendingInv, CheckDone
  <1> QED
    BY <1>2, <1>4, <1>5, <1>6, <1>7, <1>8, <1>9 DEF ServerInv

-----------------------------------------------------------------------------
(***************************************************************************)
(* Serving a node.                                                         *)
(***************************************************************************)

\* What a serving thread works on: the first command of its node, which was
\* added, is nowhere else and has a state.
LEMMA First ==
  ASSUME ServerInv, NEW t \in Threads, n[t] # <<>>
  PROVE  /\ Head(n[t]) = n[t][1] /\ Head(n[t]) \in Commands /\ Head(n[t]) \in Range(n[t])
         /\ state[Head(n[t])] \in States
         /\ adding[Head(n[t])] = "added"
         /\ Head(n[t]) \notin Range(node_)
         /\ Head(n[t]) \notin Range(Tail(n[t]))
         /\ \A u \in Threads \ {t} : Head(n[t]) \notin Range(n[u])
         /\ Len(n[t]) \in Nat \ {0} /\ n[t] \in Seq(Commands)
  <1>1. n[t] \in Seq(Commands)
    BY DEF ServerInv, TypeOK
  <1>2. Head(n[t]) = n[t][1] /\ Head(n[t]) \in Commands /\ Len(n[t]) \in Nat \ {0}
    BY <1>1, HeadTail
  <1>3. Head(n[t]) \in Range(n[t])
    BY <1>1, Elements
  <1>4. IsInjective(n[t]) /\ adding[Head(n[t])] = "added"
    BY <1>3 DEF ServerInv, AddedInv
  <1>5. Head(n[t]) \notin Range(Tail(n[t]))
    BY <1>1, <1>4, RestInjective
  <1>6. state[Head(n[t])] \in States
    BY <1>2, <1>4 DEF ServerInv, AddedInv, TypeOK
  <1>7. Head(n[t]) \notin Range(node_) /\ \A u \in Threads \ {t} : Head(n[t]) \notin Range(n[u])
    BY <1>3 DEF ServerInv, ExclusiveAccess
  <1> QED
    BY <1>1, <1>2, <1>3, <1>4, <1>5, <1>6, <1>7

\* The responses to a node are on the wire in its order.
LEMMA SendInv ==
  ASSUME ServerInv, NEW t \in Threads, Send(t)
  PROVE  ServerInv'
  <1> USE DEF serverVars, threadVars, stateVars, Goto
  <1>1. /\ UNCHANGED <<m_, done_, node_, n, buf, adding>>
        /\ UNCHANGED <<state, num_left_, response_, caller>>
        /\ pc[t] = "send" /\ n[t] # <<>>
    BY DEF Send, ServerInv, NodeInv
  <1>2. CASE UNCHANGED <<wire, left, pc>>
    <2>1. TypeOK' /\ MutexInv'
      BY <1>1, <1>2 DEF ServerInv, TypeOK, MutexInv
    <2>2. NodeInv'
      BY <1>1, <1>2 DEF ServerInv, NodeInv
    <2>3. \A s \in States : caller'[s] = "returned" => num_left_[s] = 0
      BY <1>1 DEF ServerInv, PendingInv
    <2> QED
      BY <1>1, <1>2, <2>1, <2>2, <2>3, Quiet DEF ServerInv
  <1>3. CASE /\ wire' = [wire EXCEPT ![t] = Responses(n[t])]
             /\ left' = [left EXCEPT ![t] = Instr[Head(n[t])]]
             /\ pc' = [pc EXCEPT ![t] = "read"]
    <2> DEFINE cs == n[t]
    <2>1. /\ cs \in Seq(Commands) /\ Len(cs) \in Nat \ {0} /\ Head(cs) = cs[1]
          /\ \A i \in 1..Len(cs) : cs[i] \in Commands
      BY <1>1, First
    <2>2. /\ Responses(cs) \in Seq(Commands \X Nat) /\ Len(Responses(cs)) = Len(cs)
          /\ \A i \in 1..Len(cs) : Responses(cs)[i] = <<cs[i], Instr[cs[i]]>>
      <3>1. \A i \in 1..Len(cs) : <<cs[i], Instr[cs[i]]>> \in Commands \X Nat
        BY <2>1, ServerAssumption
      <3> QED
        BY <2>1, <3>1 DEF Responses
    <2>3. /\ Instr[Head(cs)] \in Nat \ {0}
          /\ wire'[t] = Responses(cs) /\ left'[t] = Instr[Head(cs)] /\ pc'[t] = "read"
          /\ \A u \in Threads \ {t} : wire'[u] = wire[u] /\ left'[u] = left[u] /\ pc'[u] = pc[u]
      BY <1>3, <2>1, ServerAssumption DEF ServerInv, TypeOK
    <2>4. TypeOK'
      <3>1. pc' \in [Threads -> Labels] /\ left' \in [Threads -> Nat]
        BY <1>3, <2>3 DEF ServerInv, TypeOK, Labels
      <3>2. wire' \in [Threads -> Seq(Commands \X Nat)]
        BY <1>3, <2>2 DEF ServerInv, TypeOK
      <3> QED
        BY <1>1, <3>1, <3>2, ZenonT(30) DEF ServerInv, TypeOK
    <2>5. MutexInv' /\ NodeInv'
      BY <1>1, <2>3, ZenonT(30) DEF ServerInv, MutexInv, NodeInv, Serving
    <2>6. AddedInv' /\ ExclusiveAccess' /\ NoMisdelivery'
      BY <1>1, ZenonT(30) DEF ServerInv, AddedInv, ExclusiveAccess, NoMisdelivery
    <2>7. WireInv'
      <3>1. \A u \in Threads \ {t} : WireFits(u)'
        BY <1>1, <2>3, WireKept, ZenonT(30) DEF ServerInv, WireInv
      <3>2. WireFits(t)'
        <4>1. Len(wire'[t]) = Len(cs)
          BY <2>2, <2>3
        <4>2. \A i \in 1..Len(cs) : wire'[t][i][1] = cs[i] /\ wire'[t][i][2] = Instr[cs[i]]
          BY <2>2, <2>3
        <4>3. n'[t] = cs /\ pc'[t] # "count" /\ left'[t] <= Instr[Head(cs)] /\ left'[t] > 0
          BY <1>1, <2>3
        <4>4. wire'[t][1][2] = left'[t]
          BY <2>1, <2>3, <4>2
        <4> QED
          BY <4>1, <4>2, <4>3, <4>4 DEF WireFits, Aligned
      <3> QED
        BY <3>1, <3>2 DEF WireInv
    <2>8. ReceivedInv'
      <3> SUFFICES ASSUME NEW c \in Commands, state[c] # NoState
                   PROVE  /\ Received(state[c], c) <= Instr[c]
                          /\ adding[c] = "pending" \/ c \in Range(node_) => Received(state[c], c) = 0
                          /\ \A u \in Threads : c \in Range(n[u]) =>
                               Received(state[c], c) = IF pc'[u] \in Serving /\ c = Head(n[u])
                                                       THEN Instr[c] - left'[u] ELSE 0
        BY <1>1, ZenonT(30) DEF ReceivedInv, Received
      <3>1. /\ Received(state[c], c) <= Instr[c]
            /\ adding[c] = "pending" \/ c \in Range(node_) => Received(state[c], c) = 0
            /\ \A u \in Threads \ {t} : c \in Range(n[u]) =>
                 Received(state[c], c) = IF pc'[u] \in Serving /\ c = Head(n[u])
                                         THEN Instr[c] - left'[u] ELSE 0
        BY <2>3 DEF ServerInv, ReceivedInv
      <3>2. c \in Range(n[t]) => Received(state[c], c) = 0
        BY <1>1, ZenonT(30) DEF ServerInv, ReceivedInv, Serving
      <3>3. c = Head(n[t]) => Instr[c] - left'[t] = 0
        <4>1. c = Head(n[t]) => left'[t] = Instr[c] /\ Instr[c] \in Nat
          BY <2>3
        <4> QED
          BY <4>1
      <3> QED
        BY <3>1, <3>2, <3>3
    <2>9. PendingInv'
      <3>1. \A s \in States : Open(s)' = Open(s)
        BY <1>1 DEF Open, Received
      <3> QED
        BY <1>1, <3>1 DEF ServerInv, PendingInv
    <2> QED
      BY <2>4, <2>5, <2>6, <2>7, <2>8, <2>9 DEF ServerInv
  <1> QED
    BY <1>2, <1>3 DEF Send

\* A response fewer on the wire.
LEMMA RemainingWire ==
  ASSUME NEW w \in Seq(Commands \X Nat), w # <<>>, w[1][2] \in Nat \ {0}
  PROVE  /\ Remaining(w) \in Seq(Commands \X Nat)
         /\ w[1][2] = 1 =>
              /\ Len(Remaining(w)) = Len(w) - 1
              /\ \A i \in 1..(Len(w) - 1) : Remaining(w)[i] = w[i + 1]
         /\ w[1][2] # 1 =>
              /\ Len(Remaining(w)) = Len(w)
              /\ Remaining(w)[1][1] = w[1][1] /\ Remaining(w)[1][2] = w[1][2] - 1
              /\ \A i \in 2..Len(w) : Remaining(w)[i] = w[i]
  <1>1. /\ Tail(w) \in Seq(Commands \X Nat) /\ Len(Tail(w)) = Len(w) - 1
        /\ \A i \in 1..Len(Tail(w)) : Tail(w)[i] = w[i + 1]
        /\ Len(w) \in Nat \ {0}
    BY HeadTail
  <1>2. CASE w[1][2] = 1
    <2>1. Remaining(w) = Tail(w)
      BY <1>2 DEF Remaining
    <2> QED
      BY <1>1, <1>2, <2>1
  <1>3. CASE w[1][2] # 1
    <2> DEFINE e == <<w[1][1], w[1][2] - 1>>
    <2>1. w[1] \in Commands \X Nat
      BY <1>1
    <2>2. e \in Commands \X Nat /\ e[1] = w[1][1] /\ e[2] = w[1][2] - 1
      BY <2>1
    <2>3. Remaining(w) = [w EXCEPT ![1] = e]
      BY <1>3 DEF Remaining
    <2> HIDE DEF e
    <2>4. /\ [w EXCEPT ![1] = e] \in Seq(Commands \X Nat)
          /\ Len([w EXCEPT ![1] = e]) = Len(w)
          /\ [w EXCEPT ![1] = e][1] = e
          /\ \A i \in 2..Len(w) : [w EXCEPT ![1] = e][i] = w[i]
      BY <1>1, <2>2
    <2> QED
      BY <1>3, <2>2, <2>3, <2>4, ZenonT(30)
  <1> QED
    BY <1>2, <1>3, ZenonT(30)

\* A thread that has not got all responses to a command goes on with it.
LEMMA CountSameInv ==
  ASSUME ServerInv, NEW t \in Threads, Count(t), ~Complete(t)
  PROVE  ServerInv'
  <1> USE DEF serverVars, threadVars, stateVars, Goto
  <1>1. /\ UNCHANGED <<m_, done_, node_, n, left, wire, buf, adding>>
        /\ UNCHANGED <<state, num_left_, response_, caller>>
        /\ pc[t] = "count" /\ n[t] # <<>>
        /\ pc' = [pc EXCEPT ![t] = IF buf[t] THEN "parse" ELSE "read"]
    BY DEF Count, Onward, ServerInv, NodeInv, Serving
  <1>2. pc'[t] \in {"parse", "read"} /\ \A u \in Threads \ {t} : pc'[u] = pc[u]
    BY <1>1 DEF ServerInv, TypeOK
  <1>3. TypeOK'
    <2>1. pc' \in [Threads -> Labels]
      BY <1>1 DEF ServerInv, TypeOK, Labels
    <2> QED
      BY <1>1, <2>1 DEF ServerInv, TypeOK
  <1>4. MutexInv' /\ NodeInv'
    BY <1>1, <1>2 DEF ServerInv, MutexInv, NodeInv, Serving
  <1>5. AddedInv' /\ ExclusiveAccess' /\ NoMisdelivery'
    BY <1>1, ZenonT(30) DEF ServerInv, AddedInv, ExclusiveAccess, NoMisdelivery
  <1>6. WireInv'
    <2>1. \A u \in Threads \ {t} : WireFits(u)'
      BY <1>1, <1>2, WireKept, ZenonT(30) DEF ServerInv, WireInv
    <2>2. left[t] # 0 /\ pc[t] \in Serving /\ WireFits(t)
      BY <1>1 DEF Complete, Serving, ServerInv, WireInv
    <2>3. WireFits(t)'
      BY <1>1, <1>2, <2>2, ZenonT(30) DEF WireFits, Aligned
    <2> QED
      BY <2>1, <2>3 DEF WireInv
  <1>7. ReceivedInv'
    <2>1. \A u \in Threads : (pc'[u] \in Serving <=> pc[u] \in Serving)
      BY <1>1, <1>2 DEF Serving
    <2> QED
      BY <1>1, <2>1, ZenonT(30) DEF ServerInv, ReceivedInv, Received
  <1>8. PendingInv'
    <2>1. \A s \in States : Open(s)' = Open(s)
      BY <1>1 DEF Open, Received
    <2> QED
      BY <1>1, <2>1 DEF ServerInv, PendingInv
  <1> QED
    BY <1>3, <1>4, <1>5, <1>6, <1>7, <1>8 DEF ServerInv
-----------------------------------------------------------------------------
\* How often a value occurs: a number, one more when it is appended.
LEMMA OccurrencesType ==
  ASSUME NEW S, NEW r \in Seq(S), NEW c
  PROVE  /\ Occurrences(r, c) \in Nat
         /\ IsFiniteSet({i \in 1..Len(r) : r[i] = c})
         /\ (\A i \in 1..Len(r) : r[i] # c) => Occurrences(r, c) = 0
  <1> DEFINE I == {i \in 1..Len(r) : r[i] = c}
  <1>1. IsFiniteSet(1..Len(r))
    BY FS_Interval
  <1>2. IsFiniteSet(I)
    BY <1>1, FS_Subset
  <1>3. Cardinality(I) \in Nat
    BY <1>2, FS_CardinalityType
  <1>4. (\A i \in 1..Len(r) : r[i] # c) => I = {}
    OBVIOUS
  <1>5. Cardinality({}) = 0
    BY FS_EmptySet
  <1> QED
    BY <1>2, <1>3, <1>4, <1>5, ZenonT(30) DEF Occurrences

LEMMA OccurrencesAppend ==
  ASSUME NEW S, NEW r \in Seq(S), NEW x \in S, NEW c
  PROVE  /\ x = c => Occurrences(Append(r, x), c) = Occurrences(r, c) + 1
         /\ x # c => Occurrences(Append(r, x), c) = Occurrences(r, c)
  <1> DEFINE I(q) == {i \in 1..Len(q) : q[i] = c}
  <1>1. /\ Len(Append(r, x)) = Len(r) + 1 /\ Len(r) \in Nat
        /\ \A i \in 1..Len(r) : Append(r, x)[i] = r[i]
        /\ Append(r, x)[Len(r) + 1] = x
    BY Appended
  <1>2. IsFiniteSet(I(r)) /\ Cardinality(I(r)) \in Nat
    BY OccurrencesType, ZenonT(30) DEF Occurrences
  <1>3. CASE x = c
    <2>1. I(Append(r, x)) = I(r) \cup {Len(r) + 1}
      BY <1>1, <1>3
    <2>2. Len(r) + 1 \notin I(r)
      BY <1>1
    <2>3. Cardinality(I(r) \cup {Len(r) + 1}) = Cardinality(I(r)) + 1
      BY <1>2, <2>2, FS_AddElement, ZenonT(30)
    <2> QED
      BY <1>3, <2>1, <2>3, ZenonT(30) DEF Occurrences
  <1>4. CASE x # c
    <2>1. I(Append(r, x)) = I(r)
      BY <1>1, <1>4
    <2> QED
      BY <1>2, <1>4, <2>1, ZenonT(30) DEF Occurrences
  <1> QED
    BY <1>3, <1>4

\* The counts of the ResponseStates are numbers.
LEMMA ReceivedType ==
  TypeOK => \A s \in States, c \in Commands : Received(s, c) \in Nat
  BY OccurrencesType, ZenonT(30) DEF TypeOK, Received

\* The open commands of a state are finitely many.
LEMMA OpenFinite ==
  ASSUME NEW s
  PROVE  IsFiniteSet(Open(s)) /\ Cardinality(Open(s)) \in Nat
  <1>1. IsFiniteSet(Open(s))
    BY ServerAssumption, FS_Subset DEF Open
  <1> QED
    BY <1>1, FS_CardinalityType

LEMMA InitInv == Init => ServerInv
  <1> SUFFICES ASSUME Init PROVE ServerInv
    OBVIOUS
  <1>1. TypeOK
    <2>1. <<>> \in Seq(Commands) /\ <<>> \in Seq(Commands \X Nat)
      OBVIOUS
    <2>2. "connect" \in Labels
      BY DEF Labels
    <2>3. /\ m_ \in Threads \cup {NoThread} /\ done_ \in BOOLEAN /\ node_ \in Seq(Commands)
          /\ pc \in [Threads -> Labels] /\ n \in [Threads -> Seq(Commands)]
          /\ left \in [Threads -> Nat] /\ buf \in [Threads -> BOOLEAN]
      BY <2>1, <2>2, ZenonT(30) DEF Init
    <2>4. wire \in [Threads -> Seq(Commands \X Nat)]
      BY <2>1 DEF Init
    <2>5. /\ state \in [Commands -> States \cup {NoState}]
          /\ adding \in [Commands -> {"no", "pending", "added"}]
          /\ num_left_ \in [States -> Nat] /\ response_ \in [States -> Seq(Commands)]
          /\ caller \in [States -> {"out", "blocked", "woken", "returned"}]
      BY <2>1 DEF Init
    <2> QED
      BY <2>3, <2>4, <2>5 DEF TypeOK
  <1>2. MutexInv
    BY ServerAssumption DEF Init, MutexInv
  <1>3. NodeInv /\ WireInv
    BY DEF Init, NodeInv, WireInv, WireFits, Serving
  <1>4. Range(<<>>) = {} /\ IsInjective(<<>>)
    BY DEF Range, IsInjective
  <1>5. AddedInv /\ ExclusiveAccess /\ NoMisdelivery /\ ReceivedInv
    BY <1>4, ServerAssumption DEF Init, AddedInv, ExclusiveAccess, NoMisdelivery, ReceivedInv
  <1>6. PendingInv
    <2>1. \A s \in States : Open(s) = {}
      BY ServerAssumption DEF Init, Open
    <2> QED
      BY <2>1, FS_EmptySet, ZenonT(30) DEF Init, PendingInv
  <1> QED
    BY <1>1, <1>2, <1>3, <1>5, <1>6 DEF ServerInv

\* The command is counted before it is in a node: one open command more.
LEMMA IncrementPendingInv ==
  ASSUME ServerInv, NEW c \in Commands, NEW s \in States, IncrementPending(c, s)
  PROVE  ServerInv'
  <1> USE DEF serverVars, threadVars
  <1>1. TypeOK'
    BY DEF ServerInv, TypeOK, IncrementPending
  <1>2. /\ UNCHANGED <<m_, done_, node_, pc, n, left, wire, buf>>
        /\ MutexInv' /\ NodeInv' /\ WireInv' /\ ExclusiveAccess'
    <2>1. UNCHANGED <<m_, done_, node_, pc, n, left, wire, buf>>
      BY DEF IncrementPending
    <2>2. MutexInv' /\ ExclusiveAccess'
      BY <2>1 DEF ServerInv, MutexInv, ExclusiveAccess
    <2>3. NodeInv'
      BY <2>1 DEF ServerInv, NodeInv
    <2>4. WireInv'
      BY <2>1, WireKept DEF ServerInv, WireInv
    <2> QED
      BY <2>1, <2>2, <2>3, <2>4
  <1>3. state[c] = NoState /\ s # NoState /\ state'[c] = s /\ state' = [state EXCEPT ![c] = s]
    BY ServerAssumption DEF ServerInv, AddedInv, TypeOK, IncrementPending
  <1>4. /\ c \notin Range(node_)
        /\ \A t \in Threads : c \notin Range(n[t])
    BY DEF ServerInv, AddedInv, IncrementPending
  <1>5. AddedInv'
    BY <1>3, <1>4 DEF ServerInv, AddedInv, TypeOK, IncrementPending
  <1>6. \A q \in States : \A i \in 1..Len(response_[q]) : response_[q][i] # c
    BY <1>3, ServerAssumption DEF ServerInv, NoMisdelivery
  <1>7. NoMisdelivery'
    BY <1>3, <1>6 DEF ServerInv, NoMisdelivery, IncrementPending, TypeOK
  <1>8. Received(s, c) = 0
    BY <1>6, OccurrencesType, ZenonT(30) DEF ServerInv, TypeOK, Received
  <1>9. ReceivedInv'
    <2>1. response_' = response_ /\ \A d \in Commands \ {c} : adding'[d] = adding[d]
      BY DEF IncrementPending, ServerInv, TypeOK
    <2>2. \A d \in Commands \ {c} : state'[d] = state[d]
      BY <1>3 DEF ServerInv, TypeOK
    <2> SUFFICES ASSUME NEW d \in Commands, state'[d] # NoState
                 PROVE  /\ Received(state'[d], d) <= Instr[d]
                        /\ adding'[d] = "pending" \/ d \in Range(node_) => Received(state'[d], d) = 0
                        /\ \A t \in Threads : d \in Range(n[t]) =>
                             Received(state'[d], d) = IF pc[t] \in Serving /\ d = Head(n[t])
                                                      THEN Instr[d] - left[t] ELSE 0
      BY <1>2, <2>1, ZenonT(30) DEF ReceivedInv, Received
    <2>3. CASE d = c
      BY <1>3, <1>4, <1>8, <2>3, ServerAssumption
    <2>4. CASE d # c
      BY <2>1, <2>2, <2>4 DEF ServerInv, ReceivedInv
    <2> QED
      BY <2>3, <2>4, ZenonT(30)
  <1>10. PendingInv'
    <2>1. Open(s)' = Open(s) \cup {c} /\ c \notin Open(s)
      <3>1. c \notin Open(s)
        BY <1>3 DEF Open
      <3>2. response_' = response_ /\ n' = n
        BY <1>2 DEF IncrementPending
      <3>3. Received(s, c) < Instr[c]
        BY <1>8, ServerAssumption
      <3>4. \A d \in Commands \ {c} : state'[d] = state[d]
        BY <1>3 DEF ServerInv, TypeOK
      <3>5. Open(s)' = {d \in Commands : /\ state'[d] = s
                                         /\ \/ Received(s, d) < Instr[d]
                                            \/ \E t \in Threads : d \in Range(n[t])}
        BY <3>2 DEF Open, Received
      <3> QED
        BY <1>3, <3>1, <3>3, <3>4, <3>5 DEF Open
    <2>2. \A q \in States \ {s} : Open(q)' = Open(q)
      BY <1>3, ServerAssumption DEF Open, IncrementPending, Received, ServerInv, TypeOK
    <2>3. Cardinality(Open(s)') = Cardinality(Open(s)) + 1
      BY <2>1, OpenFinite, FS_AddElement
    <2> QED
      BY <2>2, <2>3 DEF ServerInv, PendingInv, TypeOK, IncrementPending
  <1> QED
    BY <1>1, <1>2, <1>5, <1>7, <1>9, <1>10 DEF ServerInv

\* The response goes to the state of the first command, which is the command it
\* answers, and is one of those that are still missing.
LEMMA AddResponseInv ==
  ASSUME ServerInv, NEW t \in Threads, AddResponse(t)
  PROVE  ServerInv'
  <1> USE DEF serverVars, threadVars, stateVars, Goto
  <1> DEFINE c0 == Head(n[t])
             s0 == state[c0]
             w  == wire[t]
  <1>1. /\ UNCHANGED <<m_, done_, node_, n, adding, state, num_left_, caller>>
        /\ pc[t] = "parse" /\ n[t] # <<>>
    BY DEF AddResponse, ServerInv, NodeInv, Serving
  <1>2. /\ c0 = n[t][1] /\ c0 \in Commands /\ c0 \in Range(n[t]) /\ s0 \in States
        /\ adding[c0] = "added" /\ c0 \notin Range(node_)
        /\ \A u \in Threads \ {t} : c0 \notin Range(n[u])
        /\ Len(n[t]) \in Nat \ {0} /\ n[t] \in Seq(Commands)
    BY <1>1, First
  <1>3. /\ Aligned(t, n[t]) /\ w[1][2] = left[t] /\ left[t] \in Nat \ {0}
        /\ left[t] <= Instr[c0]
    BY <1>1 DEF ServerInv, WireInv, WireFits, Serving, TypeOK
  <1>4. /\ Len(w) = Len(n[t]) /\ w \in Seq(Commands \X Nat) /\ w # <<>>
        /\ w[1][1] = c0
        /\ \A i \in 1..Len(n[t]) : w[i][1] = n[t][i]
        /\ \A i \in 2..Len(n[t]) : w[i][2] = Instr[n[t][i]]
    <2>1. w \in Seq(Commands \X Nat)
      BY DEF ServerInv, TypeOK
    <2>2. Len(w) = Len(n[t])
      BY <1>3 DEF Aligned
    <2>3. w # <<>>
      BY <1>2, <2>2
    <2> QED
      BY <1>2, <1>3, <2>1, <2>2, <2>3 DEF Aligned
  <1>5. /\ response_' = [response_ EXCEPT ![s0] = Append(@, c0)]
        /\ wire' = [wire EXCEPT ![t] = Remaining(w)]
        /\ left' = [left EXCEPT ![t] = @ - 1]
        /\ pc' = [pc EXCEPT ![t] = "count"]
        /\ buf' \in [Threads -> BOOLEAN]
        /\ buf'[t] => wire'[t] # <<>>
        /\ \A u \in Threads \ {t} : buf'[u] = buf[u]
    BY <1>4 DEF AddResponse, Current, ServerInv, TypeOK
  <1>6. /\ wire'[t] = Remaining(w) /\ left'[t] = left[t] - 1 /\ pc'[t] = "count"
        /\ \A u \in Threads \ {t} : wire'[u] = wire[u] /\ left'[u] = left[u] /\ pc'[u] = pc[u]
        /\ response_'[s0] = Append(response_[s0], c0)
        /\ \A s \in States \ {s0} : response_'[s] = response_[s]
    BY <1>2, <1>5, ZenonT(30) DEF ServerInv, TypeOK
  <1>7. \A s \in States, c \in Commands :
          Occurrences(response_'[s], c) =
            IF s = s0 /\ c = c0 THEN Received(s, c) + 1 ELSE Received(s, c)
    <2>1. response_[s0] \in Seq(Commands)
      BY <1>2 DEF ServerInv, TypeOK
    <2>2. \A c \in Commands : Occurrences(response_'[s0], c) =
            IF c = c0 THEN Occurrences(response_[s0], c) + 1 ELSE Occurrences(response_[s0], c)
      <3> TAKE c \in Commands
      <3>1. /\ c0 = c => Occurrences(Append(response_[s0], c0), c) = Occurrences(response_[s0], c) + 1
            /\ c0 # c => Occurrences(Append(response_[s0], c0), c) = Occurrences(response_[s0], c)
        BY <1>2, <2>1, OccurrencesAppend
      <3> QED
        BY <1>6, <3>1, ZenonT(30)
    <2> QED
      BY <1>6, <2>2, ZenonT(30) DEF Received
  <1> HIDE DEF c0, s0, w
  <1>8. Received(s0, c0) = Instr[c0] - left[t]
    BY <1>1, <1>2, ServerAssumption, ZenonT(30) DEF ServerInv, ReceivedInv, Serving, c0, s0
  <1>9. Instr[c0] \in Nat \ {0} /\ left[t] \in Nat \ {0}
    BY <1>2, <1>3, ServerAssumption
  <1>10. TypeOK'
    <2>1. pc' \in [Threads -> Labels] /\ left' \in [Threads -> Nat]
      BY <1>5, <1>9 DEF ServerInv, TypeOK, Labels
    <2>2. Remaining(w) \in Seq(Commands \X Nat)
      BY <1>3, <1>4, <1>9, RemainingWire
    <2>3. wire' \in [Threads -> Seq(Commands \X Nat)]
      BY <1>5, <2>2 DEF ServerInv, TypeOK
    <2>4. response_' \in [States -> Seq(Commands)]
      <3>1. Append(response_[s0], c0) \in Seq(Commands)
        BY <1>2, Appended DEF ServerInv, TypeOK
      <3> QED
        BY <1>5, <3>1, ZenonT(30) DEF ServerInv, TypeOK
    <2> QED
      BY <1>1, <1>5, <2>1, <2>3, <2>4, ZenonT(30) DEF ServerInv, TypeOK
  <1>11. MutexInv' /\ NodeInv'
    BY <1>1, <1>6 DEF ServerInv, MutexInv, NodeInv, Serving
  <1>12. AddedInv' /\ ExclusiveAccess'
    BY <1>1, ZenonT(30) DEF ServerInv, AddedInv, ExclusiveAccess
  <1>13. NoMisdelivery'
    <2> SUFFICES ASSUME NEW s \in States, NEW i \in 1..Len(response_'[s])
                 PROVE  state[response_'[s][i]] = s
      BY <1>1 DEF NoMisdelivery
    <2>1. CASE s # s0
      BY <1>6, <2>1 DEF ServerInv, NoMisdelivery
    <2>2. CASE s = s0
      <3> response_[s] \in Seq(Commands)
        BY DEF ServerInv, TypeOK
      <3>1. /\ Len(response_'[s]) = Len(response_[s]) + 1
            /\ \A j \in 1..Len(response_[s]) : response_'[s][j] = response_[s][j]
            /\ response_'[s][Len(response_[s]) + 1] = c0
            /\ Len(response_[s]) \in Nat
        BY <1>2, <1>6, <2>2, Appended
      <3>2. CASE i \in 1..Len(response_[s])
        BY <3>1, <3>2 DEF ServerInv, NoMisdelivery
      <3>3. CASE i = Len(response_[s]) + 1
        BY <3>1, <3>3, <2>2 DEF s0
      <3> QED
        BY <3>1, <3>2, <3>3
    <2> QED
      BY <2>1, <2>2
  <1>14. WireInv'
    <2>1. \A u \in Threads \ {t} : WireFits(u)'
      BY <1>1, <1>5, <1>6, WireKept, ZenonT(30) DEF ServerInv, WireInv
    <2>2. WireFits(t)'
      <3>1. /\ left'[t] <= Instr[Head(n'[t])] /\ n'[t] = n[t]
            /\ pc'[t] = "count" /\ (buf'[t] => wire'[t] # <<>>)
        <4>1. left'[t] <= Instr[c0]
          BY <1>3, <1>6, <1>9
        <4>2. n'[t] = n[t] /\ c0 = Head(n[t])
          BY <1>1 DEF c0
        <4>3. pc'[t] = "count" /\ (buf'[t] => wire'[t] # <<>>)
          BY <1>1, <1>5, <1>6
        <4> QED
          BY <4>1, <4>2, <4>3, ZenonT(30)
      <3>2. /\ Tail(n[t]) \in Seq(Commands) /\ Len(Tail(n[t])) = Len(n[t]) - 1
            /\ \A i \in 1..Len(Tail(n[t])) : Tail(n[t])[i] = n[t][i + 1]
        BY <1>1, <1>2, HeadTail
      <3>3. CASE left[t] = 1
        <4>1. /\ Len(wire'[t]) = Len(w) - 1 /\ left'[t] = 0
              /\ \A i \in 1..(Len(w) - 1) : wire'[t][i] = w[i + 1]
          BY <1>3, <1>4, <1>6, <1>9, <3>3, RemainingWire
        <4>2. /\ Len(wire'[t]) = Len(Tail(n[t]))
              /\ \A i \in 1..Len(Tail(n[t])) : /\ wire'[t][i][1] = Tail(n[t])[i]
                                               /\ wire'[t][i][2] = Instr[Tail(n[t])[i]]
          <5>1. \A i \in 1..(Len(n[t]) - 1) : i + 1 \in 1..Len(n[t]) /\ i + 1 \in 2..Len(n[t])
            BY <1>2
          <5>2. Len(wire'[t]) = Len(Tail(n[t])) /\ Len(w) - 1 = Len(Tail(n[t]))
            BY <1>4, <3>2, <4>1
          <5> SUFFICES ASSUME NEW i \in 1..Len(Tail(n[t]))
                       PROVE  /\ wire'[t][i][1] = Tail(n[t])[i]
                              /\ wire'[t][i][2] = Instr[Tail(n[t])[i]]
            BY <5>2
          <5>3. wire'[t][i] = w[i + 1] /\ Tail(n[t])[i] = n[t][i + 1]
            BY <3>2, <4>1, <5>2
          <5>4. w[i + 1][1] = n[t][i + 1] /\ w[i + 1][2] = Instr[n[t][i + 1]]
            BY <1>4, <3>2, <5>1, ZenonT(30)
          <5> QED
            BY <5>3, <5>4
        <4>3. Len(n[t]) > 1 => wire'[t][1][2] = Instr[n[t][2]]
          BY <1>2, <3>2, <4>2
        <4>4. \A i \in 2..Len(Tail(n[t])) : i \in 1..Len(Tail(n[t]))
          BY <1>2, <3>2
        <4> QED
          BY <3>1, <4>1, <4>2, <4>3, <4>4, ZenonT(30) DEF WireFits, Aligned
      <3>4. CASE left[t] # 1
        <4>1. /\ Len(wire'[t]) = Len(w) /\ left'[t] > 0 /\ left'[t] # 0
              /\ wire'[t][1][1] = w[1][1] /\ wire'[t][1][2] = left'[t]
              /\ \A i \in 2..Len(w) : wire'[t][i] = w[i]
          <5>1. w[1][2] \in Nat \ {0} /\ w[1][2] # 1
            BY <1>3, <3>4
          <5>2. /\ Len(Remaining(w)) = Len(w)
                /\ Remaining(w)[1][1] = w[1][1] /\ Remaining(w)[1][2] = w[1][2] - 1
                /\ \A i \in 2..Len(w) : Remaining(w)[i] = w[i]
            BY <1>4, <5>1, RemainingWire, ZenonT(30)
          <5>3. left'[t] = w[1][2] - 1 /\ w[1][2] - 1 > 0 /\ w[1][2] - 1 # 0
            BY <1>3, <1>6, <5>1
          <5> QED
            BY <1>6, <5>2, <5>3, ZenonT(30)
        <4>2. \A i \in 1..Len(n[t]) : wire'[t][i][1] = n[t][i]
          <5> TAKE i \in 1..Len(n[t])
          <5>1. CASE i = 1
            BY <1>2, <1>4, <4>1, <5>1
          <5>2. CASE i # 1
            <6>1. i \in 2..Len(w)
              BY <1>2, <1>4, <5>2
            <6> QED
              BY <1>4, <4>1, <6>1, ZenonT(30)
          <5> QED
            BY <5>1, <5>2
        <4>3. \A i \in 2..Len(n[t]) : wire'[t][i][2] = Instr[n[t][i]]
          BY <1>4, <4>1
        <4> QED
          BY <1>4, <3>1, <4>1, <4>2, <4>3 DEF WireFits, Aligned
      <3> QED
        BY <3>3, <3>4
    <2> QED
      BY <2>1, <2>2 DEF WireInv
  <1>15. ReceivedInv'
    <2> SUFFICES ASSUME NEW c \in Commands, state[c] # NoState
                 PROVE  /\ Occurrences(response_'[state[c]], c) <= Instr[c]
                        /\ adding[c] = "pending" \/ c \in Range(node_) => Occurrences(response_'[state[c]], c) = 0
                        /\ \A u \in Threads : c \in Range(n[u]) =>
                             Occurrences(response_'[state[c]], c) =
                               IF pc'[u] \in Serving /\ c = Head(n[u])
                               THEN Instr[c] - left'[u] ELSE 0
      BY <1>1, ZenonT(30) DEF ReceivedInv, Received
    <2>1. state[c] \in States
      BY DEF ServerInv, TypeOK
    <2>2. CASE c = c0
      <3>1. Occurrences(response_'[state[c]], c) = Instr[c0] - (left[t] - 1)
        <4>1. Occurrences(response_'[state[c]], c) = Received(s0, c0) + 1
          BY <1>2, <1>7, <2>2, ZenonT(30) DEF s0
        <4> QED
          BY <1>8, <1>9, <4>1
      <3>2. Instr[c0] - (left[t] - 1) <= Instr[c0]
        BY <1>9
      <3>3. \A u \in Threads : c \in Range(n[u]) =>
              u = t /\ pc'[u] \in Serving /\ c = Head(n[u]) /\ left'[u] = left[t] - 1
        BY <1>2, <1>6, <2>2, ZenonT(30) DEF c0, Serving
      <3> QED
        BY <1>2, <2>2, <3>1, <3>2, <3>3, ZenonT(30)
    <2>3. CASE c # c0
      <3>1. Occurrences(response_'[state[c]], c) = Received(state[c], c)
        BY <1>7, <2>1, <2>3
      <3>2. \A u \in Threads : (pc'[u] \in Serving <=> pc[u] \in Serving)
        BY <1>1, <1>6 DEF Serving
      <3>3. \A u \in Threads : c = Head(n[u]) => left'[u] = left[u]
        BY <1>6, <2>3 DEF c0
      <3> QED
        BY <3>1, <3>2, <3>3, ZenonT(30) DEF ServerInv, ReceivedInv
    <2> QED
      BY <2>2, <2>3, ZenonT(30)
  <1>16. PendingInv'
    <2>1. \A s \in States : Open(s)' = Open(s)
      <3> SUFFICES ASSUME NEW s \in States, NEW c \in Commands, state[c] = s
                   PROVE  \/ Occurrences(response_'[s], c) = Received(s, c)
                          \/ \E u \in Threads : c \in Range(n[u])
        BY <1>1 DEF Open, Received
      <3> QED
        BY <1>2, <1>7
    <2> QED
      BY <1>1, <2>1 DEF ServerInv, PendingInv
  <1> QED
    BY <1>10, <1>11, <1>12, <1>13, <1>14, <1>15, <1>16 DEF ServerInv

\* A complete command leaves its node and is open no more: num_left_ counts one
\* less, for its own state and no other.
LEMMA CountNextInv ==
  ASSUME ServerInv, NEW t \in Threads, Count(t), Complete(t)
  PROVE  ServerInv'
  <1> USE DEF serverVars, threadVars, stateVars, Goto
  <1> DEFINE rest == Tail(n[t])
  <1>0. PICK c0, s0 : c0 = Head(n[t]) /\ s0 = state[c0]
    OBVIOUS
  <1>1. /\ UNCHANGED <<m_, done_, node_, wire, buf, adding, state, response_>>
        /\ pc[t] = "count" /\ n[t] # <<>> /\ left[t] = 0
    BY DEF Count, Complete, ServerInv, NodeInv, Serving
  <1>2. /\ c0 = n[t][1] /\ c0 \in Commands /\ c0 \in Range(n[t]) /\ s0 \in States
        /\ adding[c0] = "added" /\ c0 \notin Range(node_) /\ c0 \notin Range(rest)
        /\ \A u \in Threads \ {t} : c0 \notin Range(n[u])
        /\ Len(n[t]) \in Nat \ {0} /\ n[t] \in Seq(Commands)
    BY <1>0, <1>1, First
  <1>3. /\ rest \in Seq(Commands) /\ Len(rest) = Len(n[t]) - 1 /\ Len(rest) \in Nat
        /\ \A i \in 1..Len(rest) : rest[i] = n[t][i + 1]
    BY <1>1, <1>2, HeadTail
  <1>4. IsInjective(rest) /\ Range(n[t]) = Range(rest) \cup {c0}
    <2>1. IsInjective(n[t])
      BY DEF ServerInv, AddedInv
    <2>2. IsInjective(rest)
      BY <1>1, <1>2, <2>1, RestInjective
    <2>3. Range(n[t]) = Range(rest) \cup {c0}
      BY <1>0, <1>1, <1>2, Elements
    <2> QED
      BY <2>2, <2>3
  <1>5. /\ num_left_' = [num_left_ EXCEPT ![s0] = @ - 1]
        /\ caller' = [caller EXCEPT ![s0] = IF @ = "blocked" THEN "woken" ELSE @]
        /\ n' = [n EXCEPT ![t] = rest]
        /\ left' = [left EXCEPT ![t] = IF rest = <<>> THEN 0 ELSE Instr[Head(rest)]]
        /\ pc' = [pc EXCEPT ![t] = IF buf[t] THEN "parse" ELSE IF rest # <<>> THEN "read" ELSE "top"]
    BY <1>0, <1>1, ZenonT(30) DEF Count, Complete, Current, Onward
  <1> HIDE DEF rest
  <1>6. /\ n'[t] = rest
        /\ left'[t] = IF rest = <<>> THEN 0 ELSE Instr[Head(rest)]
        /\ pc'[t] = IF buf[t] THEN "parse" ELSE IF rest # <<>> THEN "read" ELSE "top"
        /\ \A u \in Threads \ {t} : n'[u] = n[u] /\ left'[u] = left[u] /\ pc'[u] = pc[u]
    BY <1>5, ZenonT(30) DEF ServerInv, TypeOK
  <1>7. /\ Len(wire[t]) = Len(rest)
        /\ \A i \in 1..Len(rest) : wire[t][i][1] = rest[i] /\ wire[t][i][2] = Instr[rest[i]]
        /\ buf[t] => wire[t] # <<>>
    <2>1. /\ Aligned(t, rest) /\ (Len(n[t]) > 1 => wire[t][1][2] = Instr[n[t][2]])
          /\ buf[t] => wire[t] # <<>>
      BY <1>1, ZenonT(30) DEF ServerInv, WireInv, WireFits, Serving, rest
    <2>2. Len(rest) > 0 => wire[t][1][2] = Instr[rest[1]]
      BY <1>2, <1>3, <2>1
    <2> QED
      BY <1>3, <2>1, <2>2 DEF Aligned
  <1>8. buf[t] => rest # <<>>
    <2>1. wire[t] \in Seq(Commands \X Nat)
      BY DEF ServerInv, TypeOK
    <2>2. wire[t] # <<>> => Len(wire[t]) # 0
      BY <2>1
    <2> QED
      BY <1>7, <2>2
  <1>9. /\ rest # <<>> => /\ pc'[t] \in {"parse", "read"} /\ left'[t] = Instr[Head(rest)]
                          /\ Head(rest) = rest[1] /\ Len(rest) > 0 /\ Head(rest) \in Commands
                          /\ Head(rest) \in Range(rest)
        /\ rest = <<>> => pc'[t] = "top"
    BY <1>3, <1>6, <1>8, HeadTail, Elements
  <1>10. Received(s0, c0) = Instr[c0] /\ Instr[c0] \in Nat \ {0}
    <2>1. Received(s0, c0) = Instr[c0] - left[t]
      BY <1>0, <1>1, <1>2, ServerAssumption DEF ServerInv, ReceivedInv, Serving
    <2> QED
      BY <1>1, <1>2, <2>1, ServerAssumption
  <1>11. /\ Open(s0)' = Open(s0) \ {c0} /\ c0 \in Open(s0)
         /\ \A s \in States \ {s0} : Open(s)' = Open(s)
    <2>1. c0 \in Open(s0)
      BY <1>0, <1>2 DEF Open
    <2>2. \A c \in Commands \ {c0} : (\E u \in Threads : c \in Range(n[u])) <=>
                                     (\E u \in Threads : c \in Range(n'[u]))
      BY <1>4, <1>6
    <2>3. ~\E u \in Threads : c0 \in Range(n'[u])
      BY <1>2, <1>6
    <2>4. ~(Received(s0, c0) < Instr[c0])
      BY <1>10
    <2>5. \A s : Open(s)' = {c \in Commands : /\ state[c] = s
                                             /\ \/ Received(s, c) < Instr[c]
                                                \/ \E u \in Threads : c \in Range(n'[u])}
      BY <1>1, ZenonT(30) DEF Open, Received
    <2>6. Open(s0)' = Open(s0) \ {c0}
      BY <1>0, <1>2, <2>2, <2>3, <2>4, <2>5 DEF Open
    <2>7. \A s \in States \ {s0} : Open(s)' = Open(s)
      BY <1>0, <1>2, <2>2, <2>5 DEF Open
    <2> QED
      BY <2>1, <2>6, <2>7
  <1>12. /\ Cardinality(Open(s0)') = Cardinality(Open(s0)) - 1
         /\ Cardinality(Open(s0)) \in Nat \ {0}
    <2>1. IsFiniteSet(Open(s0)) /\ Cardinality(Open(s0)) \in Nat
      BY OpenFinite
    <2>2. Cardinality(Open(s0) \ {c0}) = Cardinality(Open(s0)) - 1
      BY <1>11, <2>1, FS_RemoveElement
    <2>3. Cardinality(Open(s0)) # 0
      BY <1>11, <2>1, FS_EmptySet
    <2> QED
      BY <1>11, <2>1, <2>2, <2>3
  <1>13. num_left_[s0] = Cardinality(Open(s0))
    BY <1>2 DEF ServerInv, PendingInv
  <1>14. TypeOK'
    <2>1. pc' \in [Threads -> Labels]
      BY <1>5 DEF ServerInv, TypeOK, Labels
    <2>2. left' \in [Threads -> Nat]
      BY <1>5, <1>9, ServerAssumption DEF ServerInv, TypeOK
    <2>3. n' \in [Threads -> Seq(Commands)]
      BY <1>3, <1>5 DEF ServerInv, TypeOK
    <2>4. num_left_' \in [States -> Nat]
      BY <1>2, <1>5, <1>12, <1>13 DEF ServerInv, TypeOK
    <2>5. caller' \in [States -> {"out", "blocked", "woken", "returned"}]
      BY <1>5, ZenonT(30) DEF ServerInv, TypeOK
    <2> QED
      BY <1>1, <2>1, <2>2, <2>3, <2>4, <2>5 DEF ServerInv, TypeOK
  <1>15. MutexInv'
    BY <1>1, <1>6, <1>9 DEF ServerInv, MutexInv
  <1>16. NodeInv'
    BY <1>1, <1>6, <1>9 DEF ServerInv, NodeInv, Serving
  <1>17. AddedInv' /\ ExclusiveAccess' /\ NoMisdelivery'
    <2>1. AddedInv'
      BY <1>1, <1>4, <1>6 DEF ServerInv, AddedInv
    <2>2. ExclusiveAccess'
      BY <1>1, <1>4, <1>6 DEF ServerInv, ExclusiveAccess
    <2> QED
      BY <1>1, <2>1, <2>2 DEF ServerInv, NoMisdelivery
  <1>18. WireInv'
    <2>1. \A u \in Threads \ {t} : WireFits(u)'
      BY <1>1, <1>6, WireKept, ZenonT(30) DEF ServerInv, WireInv
    <2>2. WireFits(t)'
      <3>1. CASE rest = <<>>
        BY <1>9, <3>1, ZenonT(30) DEF WireFits, Serving
      <3>2. CASE rest # <<>>
        <4>1. Instr[Head(rest)] \in Nat \ {0} /\ wire'[t] = wire[t]
          BY <1>1, <1>9, <3>2, ServerAssumption
        <4>2. /\ left'[t] <= Instr[Head(rest)] /\ left'[t] > 0 /\ pc'[t] # "count"
              /\ wire'[t][1][2] = left'[t]
          BY <1>7, <1>9, <3>2, <4>1
        <4>3. /\ Len(wire'[t]) = Len(rest)
              /\ \A i \in 1..Len(rest) : wire'[t][i][1] = rest[i]
              /\ \A i \in 2..Len(rest) : wire'[t][i][2] = Instr[rest[i]]
          BY <1>3, <1>7, <4>1
        <4> QED
          BY <1>6, <4>2, <4>3, ZenonT(30) DEF WireFits, Aligned
      <3> QED
        BY <3>1, <3>2
    <2> QED
      BY <2>1, <2>2 DEF WireInv
  <1>19. ReceivedInv'
    <2> SUFFICES ASSUME NEW c \in Commands, state[c] # NoState
                 PROVE  /\ Received(state[c], c) <= Instr[c]
                        /\ adding[c] = "pending" \/ c \in Range(node_) => Received(state[c], c) = 0
                        /\ \A u \in Threads : c \in Range(n'[u]) =>
                             Received(state[c], c) = IF pc'[u] \in Serving /\ c = Head(n'[u])
                                                     THEN Instr[c] - left'[u] ELSE 0
      BY <1>1, ZenonT(30) DEF ReceivedInv, Received
    <2>1. /\ Received(state[c], c) <= Instr[c]
          /\ adding[c] = "pending" \/ c \in Range(node_) => Received(state[c], c) = 0
          /\ \A u \in Threads \ {t} : c \in Range(n'[u]) =>
               Received(state[c], c) = IF pc'[u] \in Serving /\ c = Head(n'[u])
                                       THEN Instr[c] - left'[u] ELSE 0
      BY <1>6, ZenonT(30) DEF ServerInv, ReceivedInv
    <2>2. ASSUME c \in Range(rest)
          PROVE  Received(state[c], c) = 0
      BY <1>0, <1>2, <1>4, <2>2, ZenonT(30) DEF ServerInv, ReceivedInv
    <2>3. c = Head(rest) /\ rest # <<>> => Instr[c] - left'[t] = 0
      <3>1. c = Head(rest) /\ rest # <<>> => left'[t] = Instr[c] /\ Instr[c] \in Nat
        BY <1>9, ServerAssumption
      <3> QED
        BY <3>1
    <2>4. rest = <<>> => pc'[t] \notin Serving
      BY <1>9, ZenonT(30) DEF Serving
    <2> QED
      BY <1>6, <2>1, <2>2, <2>3, <2>4, ZenonT(30)
  <1>20. PendingInv'
    <2>1. num_left_'[s0] = Cardinality(Open(s0)')
      BY <1>2, <1>5, <1>12, <1>13 DEF ServerInv, TypeOK
    <2>2. \A s \in States \ {s0} : num_left_'[s] = Cardinality(Open(s)')
      BY <1>5, <1>11 DEF ServerInv, PendingInv, TypeOK
    <2>3. caller'[s0] # "returned"
      BY <1>2, <1>5, <1>12, <1>13 DEF ServerInv, PendingInv, TypeOK
    <2>4. \A s \in States \ {s0} : caller'[s] = caller[s] /\ num_left_'[s] = num_left_[s]
      BY <1>5 DEF ServerInv, TypeOK
    <2> QED
      BY <2>1, <2>2, <2>3, <2>4 DEF ServerInv, PendingInv
  <1> QED
    BY <1>14, <1>15, <1>16, <1>17, <1>18, <1>19, <1>20 DEF ServerInv
-----------------------------------------------------------------------------
(***************************************************************************)
(* The theorems.                                                           *)
(***************************************************************************)
LEMMA NextInv == ServerInv /\ [Next]_vars => ServerInv'
  <1> SUFFICES ASSUME ServerInv, [Next]_vars PROVE ServerInv'
    OBVIOUS
  <1>1. CASE UNCHANGED vars
    <2>1. /\ UNCHANGED <<m_, done_, node_, pc, n, left, wire, buf, adding>>
          /\ UNCHANGED <<state, num_left_, response_, caller>>
      BY <1>1 DEF vars, serverVars, threadVars, stateVars
    <2>2. TypeOK' /\ MutexInv'
      BY <2>1 DEF ServerInv, TypeOK, MutexInv
    <2>3. NodeInv'
      BY <2>1 DEF ServerInv, NodeInv
    <2>4. \A s \in States : caller'[s] = "returned" => num_left_[s] = 0
      BY <2>1 DEF ServerInv, PendingInv
    <2> QED
      BY <2>1, <2>2, <2>3, <2>4, Quiet DEF ServerInv
  <1>2. ASSUME NEW t \in Threads, ThreadStep(t) \/ Acquire(t) \/ SpuriousWake(t)
        PROVE  ServerInv'
    BY <1>2, MoveInv, TakeInv, CheckDoneInv, SendInv, AddResponseInv, CountSameInv, CountNextInv
       DEF ThreadStep
  <1>3. ASSUME NEW c \in Commands, ClientStep(c) PROVE ServerInv'
    BY <1>3, IncrementPendingInv, AddToNodeInv DEF ClientStep
  <1>4. ASSUME NEW s \in States, BlockingGetResponse(s) PROVE ServerInv'
    BY <1>4, CallerInv
  <1> QED
    BY <1>1, <1>2, <1>3, <1>4, OwnerInv DEF Next

\* For any threads, commands, numbers of instructions and ResponseStates, the
\* nodes, the wire and the counts of the ResponseStates of a Server fit together;
\* in particular no two threads share a command ("We have exclusive access over
\* contents belonging to n now"), and no state gets a response to the command of
\* another (Server::ProcessRequests).
THEOREM ServerInvariant == Spec => []ServerInv
  <1>1. Init => ServerInv
    BY InitInv
  <1>2. ServerInv /\ [Next]_vars => ServerInv'
    BY NextInv
  <1> QED
    BY <1>1, <1>2, PTL DEF Spec

\* When ResponseState::BlockingGetResponse returns, the response has every
\* instruction of every command that was added, whichever threads served them.
THEOREM ResponseComplete == Spec => []CompleteOnReturn
  <1>1. ServerInv => CompleteOnReturn
    <2> SUFFICES ASSUME ServerInv, NEW s \in States, caller[s] = "returned",
                        NEW c \in Commands, state[c] = s
                 PROVE  Received(s, c) = Instr[c]
      BY DEF CompleteOnReturn
    <2>1. Cardinality(Open(s)) = 0 /\ IsFiniteSet(Open(s))
      BY OpenFinite DEF ServerInv, PendingInv
    <2>2. Open(s) = {}
      BY <2>1, FS_EmptySet
    <2>3. ~(Received(s, c) < Instr[c])
      BY <2>2 DEF Open
    <2>4. Received(s, c) <= Instr[c]
      BY ServerAssumption DEF ServerInv, ReceivedInv
    <2>5. Received(s, c) \in Nat /\ Instr[c] \in Nat
      BY ReceivedType, ServerAssumption DEF ServerInv
    <2> QED
      BY <2>3, <2>4, <2>5
  <1> QED
    BY <1>1, ServerInvariant, PTL
=============================================================================
