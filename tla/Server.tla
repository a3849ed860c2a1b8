------------------------------- MODULE Server -------------------------------
(***************************************************************************)
(* The classes Server and ResponseState of routerlib: commands that client *)
(* threads add are collected in one RequestNode; a thread of the server    *)
(* takes the node, sends all its requests over the thread's connection and *)
(* hands the responses out to the ResponseStates of the commands.          *)
(*                                                                         *)
(* The mutex m_ of the Server guards node_; done_ is an atomic that is     *)
(* written without it.  A thread of the server is at                       *)
(*                                                                         *)
(*   "connect"  opens its connection                                       *)
(*   "top"    while (!done_)                                               *)
(*   "enter"  about to lock m_ in BlockingGetRequestNode                   *)
(*   "test"   holds m_, about to evaluate the while condition              *)
(*   "sleep"  holds m_, about to call cond_.wait                           *)
(*   "wait"   blocked in cond_.wait                                        *)
(*   "wake"   notified, must reacquire m_                                  *)
(*   "take"   holds m_, left the while loop                                *)
(*   "got"    has its node, or NULL, and no mutex                          *)
(*   "send", "read", "parse", "count"  serves the node                     *)
(*   "dead"   has ended                                                    *)
(*                                                                         *)
(* The critical sections of a ResponseState are single steps.  A response  *)
(* is the command it answers.  When the connection breaks the framing (a   *)
(* response cut by the end of a read, a request resent after a part of it  *)
(* was sent) or fails, the outcome is a failed CHECK, an exception or a    *)
(* parse of garbage: broken, and no step follows.                          *)
(***************************************************************************)
EXTENDS Naturals, Sequences, FiniteSets, Functions

CONSTANTS
  Threads,   \* the kNumThreads threads of the server
  Commands,  \* each is added once
  Instr,     \* Instr[c]: its num_instructions
  States,    \* the ResponseStates
  NoThread,  \* the owner of a free mutex
  NoState    \* of a command not added yet

ASSUME ServerAssumption ==
  /\ IsFiniteSet(Commands)
  /\ Instr \in [Commands -> Nat \ {0}]
  /\ NoThread \notin Threads
  /\ NoState \notin States

VARIABLES
  m_, done_,
  node_,       \* commands collected, <<>> for NULL
  pc,          \* pc[t]: where thread t is
  n,           \* n[t]: the commands of its node that are not complete
  left,        \* left[t]: num_instructions of the first of them, as it counts
  wire,        \* wire[t]: responses on their way to t, as pairs of a
               \* command and how many it still gets
  buf,         \* buf[t]: the last read returned more than was parsed
  state,       \* state[c]: the ResponseState that c was added with
  adding,      \* adding[c]: "no", "pending" (counted) or "added"
  num_left_,   \* num_left_[s]
  response_,   \* response_[s]
  caller,      \* caller[s]: of BlockingGetResponse
  closing,     \* the owner: "no"; "set", "quiet" in and after SetDone;
               \* "destroy", "join" in the destructor; "closed"
  missed,      \* history: the threads about to wait at the last notify_all
  broken

serverVars == <<m_, done_, node_, closing, missed>>
threadVars == <<pc, n, left, wire, buf>>
stateVars  == <<state, num_left_, response_, caller>>
vars == <<serverVars, threadVars, adding, stateVars, broken>>

Init ==
  /\ m_ = NoThread /\ done_ = FALSE /\ node_ = <<>>
  /\ pc = [t \in Threads |-> "connect"]
  /\ n = [t \in Threads |-> <<>>]
  /\ left = [t \in Threads |-> 0]
  /\ wire = [t \in Threads |-> <<>>]
  /\ buf = [t \in Threads |-> FALSE]
  /\ state = [c \in Commands |-> NoState]
  /\ adding = [c \in Commands |-> "no"]
  /\ num_left_ = [s \in States |-> 0]
  /\ response_ = [s \in States |-> <<>>]
  /\ caller = [s \in States |-> "out"]
  /\ closing = "no" /\ missed = {}
  /\ broken = FALSE

waiters == {t \in Threads : pc[t] = "wait"}

Goto(t, label) == pc' = [pc EXCEPT ![t] = label]

\* Bug pattern: no notification.
NotifyNobody == UNCHANGED pc

\* cond_.notify_one()
NotifyOne ==
  IF waiters = {} THEN UNCHANGED pc ELSE \E w \in waiters : Goto(w, "wake")

\* cond_.notify_all()
NotifyEveryone ==
  pc' = [t \in Threads |-> IF t \in waiters THEN "wake" ELSE pc[t]]
-----------------------------------------------------------------------------
(***************************************************************************)
(* The client threads: AddCommand and BlockingGetResponse.                 *)
(***************************************************************************)

\* state->IncrementPending(), of a client that has not yet asked for the
\* response and does not race with the destructor.
IncrementPending(c, s) ==
  /\ adding[c] = "no" /\ closing \in {"no", "set", "quiet"}
  /\ caller[s] = "out"
  /\ state' = [state EXCEPT ![c] = s]
  /\ adding' = [adding EXCEPT ![c] = "pending"]
  /\ num_left_' = [num_left_ EXCEPT ![s] = @ + 1]
  /\ UNCHANGED <<serverVars, threadVars, response_, caller, broken>>

\* The rest of AddCommand, under m_.
AddToNode(c) ==
  /\ adding[c] = "pending"
  /\ m_ = NoThread
  /\ adding' = [adding EXCEPT ![c] = "added"]
  /\ node_' = Append(node_, c)
  /\ NotifyOne
  /\ UNCHANGED <<m_, done_, closing, missed, n, left, wire, buf, stateVars,
                 broken>>

\* Bug pattern: if in place of while.
MustWaitOnce(s) == caller[s] = "out" /\ num_left_[s] > 0

\* while (num_left_ > 0)
MustWait(s) == num_left_[s] > 0

\* The call, after the client's AddCommands have returned, and its while loop.
\* The state's mutex is held from the test to the wait, hence one step; a
\* spurious wake-up would only repeat the test.
BlockingGetResponse(s) ==
  /\ \/ /\ caller[s] = "out"
        /\ \E c \in Commands : state[c] = s /\ adding[c] = "added"
        /\ \A c \in Commands : state[c] = s => adding[c] # "pending"
     \/ caller[s] = "woken"
  /\ caller' = [caller EXCEPT
                  ![s] = IF MustWait(s) THEN "blocked" ELSE "returned"]
  /\ UNCHANGED <<serverVars, threadVars, adding, state, num_left_, response_,
                 broken>>
-----------------------------------------------------------------------------
(***************************************************************************)
(* The threads of the server: BlockingGetRequestNode.                      *)
(***************************************************************************)

\* getaddrinfo, socket, connect; a CHECK fails when none of them succeeds.
Connect(t) ==
  /\ pc[t] = "connect"
  /\ \/ Goto(t, "top") /\ UNCHANGED broken
     \/ broken' = TRUE /\ UNCHANGED pc
  /\ UNCHANGED <<serverVars, n, left, wire, buf, adding, stateVars>>

\* while (!done_)
TestDone(t) ==
  /\ pc[t] = "top"
  /\ Goto(t, IF done_ THEN "dead" ELSE "enter")
  /\ UNCHANGED <<serverVars, n, left, wire, buf, adding, stateVars, broken>>

Acquire(t) ==
  /\ pc[t] \in {"enter", "wake"}
  /\ m_ = NoThread
  /\ m_' = t
  /\ Goto(t, "test")
  /\ UNCHANGED <<done_, node_, closing, missed, n, left, wire, buf, adding,
                 stateVars, broken>>

\* while (!done_ && !node_)
Test(t) ==
  /\ pc[t] = "test"
  /\ Goto(t, IF ~done_ /\ node_ = <<>> THEN "sleep" ELSE "take")
  /\ UNCHANGED <<serverVars, n, left, wire, buf, adding, stateVars, broken>>

Sleep(t) ==
  /\ pc[t] = "sleep"
  /\ m_' = NoThread
  /\ Goto(t, "wait")
  /\ UNCHANGED <<done_, node_, closing, missed, n, left, wire, buf, adding,
                 stateVars, broken>>

SpuriousWake(t) ==
  /\ pc[t] = "wait"
  /\ Goto(t, "wake")
  /\ UNCHANGED <<serverVars, n, left, wire, buf, adding, stateVars, broken>>

\* RequestNode* tmp = node_; node_ = NULL
HandOver(t) == n' = [n EXCEPT ![t] = node_] /\ node_' = <<>>

\* NULL when done_, else the node changes hands.
Take(t) ==
  /\ pc[t] = "take"
  /\ IF done_ THEN UNCHANGED <<node_, n>> ELSE HandOver(t)
  /\ m_' = NoThread
  /\ Goto(t, "got")
  /\ UNCHANGED <<done_, closing, missed, left, wire, buf, adding, stateVars,
                 broken>>
-----------------------------------------------------------------------------
(***************************************************************************)
(* The threads of the server: the rest of ProcessRequests.                 *)
(***************************************************************************)

\* if (done_) { delete n; break; }
CheckDone(t) ==
  /\ pc[t] = "got"
  /\ IF done_
       THEN Goto(t, "dead") /\ n' = [n EXCEPT ![t] = <<>>]
       ELSE Goto(t, "send") /\ UNCHANGED n
  /\ UNCHANGED <<serverVars, left, wire, buf, adding, stateVars, broken>>

\* What the server at the other end answers to a node.
Responses(cs) == [i \in 1..Len(cs) |-> <<cs[i], Instr[cs[i]]>>]

\* The responses without the first.
Remaining(w) ==
  IF w[1][2] = 1 THEN Tail(w) ELSE [w EXCEPT ![1] = <<@[1], @[2] - 1>>]

\* The retry loop around send: the request goes out whole the first time, or
\* the connection is broken.
Send(t) ==
  /\ pc[t] = "send"
  /\ \/ /\ wire' = [wire EXCEPT ![t] = Responses(n[t])]
        /\ left' = [left EXCEPT ![t] = Instr[Head(n[t])]]
        /\ Goto(t, "read")
        /\ UNCHANGED broken
     \/ broken' = TRUE /\ UNCHANGED <<wire, left, pc>>
  /\ UNCHANGED <<serverVars, n, buf, adding, stateVars>>

\* read: one or more responses; the last of them may be cut.
Read(t) ==
  /\ pc[t] = "read"
  /\ \/ wire[t] # <<>> /\ Goto(t, "parse") /\ UNCHANGED broken
     \/ broken' = TRUE /\ UNCHANGED pc
  /\ UNCHANGED <<serverVars, n, left, wire, buf, adding, stateVars>>

\* Bug pattern: n->states.back()
CurrentIsLast(t) == state[n[t][Len(n[t])]]

\* n->states[state_idx]
Current(t) == state[Head(n[t])]

\* ParseHeader and states[state_idx]->AddResponse; the read may have ended
\* here, or returned the next response too.
AddResponse(t) ==
  /\ pc[t] = "parse"
  /\ response_' = [response_ EXCEPT ![Current(t)] = Append(@, wire[t][1][1])]
  /\ wire' = [wire EXCEPT ![t] = Remaining(@)]
  /\ \E more \in BOOLEAN : /\ more => wire'[t] # <<>>
                           /\ buf' = [buf EXCEPT ![t] = more]
  /\ left' = [left EXCEPT ![t] = @ - 1]
  /\ Goto(t, "count")
  /\ UNCHANGED <<serverVars, n, adding, state, num_left_, caller, broken>>

\* --n->num_instructions[state_idx] == 0
Complete(t) == left[t] = 0

\* The next turn of the loops: more of the buffer, another read, or the end.
Onward(t, rest) ==
  IF buf[t] THEN "parse" ELSE IF rest # <<>> THEN "read" ELSE "top"

\* DecrementPending with its notify_one, and the next state; or the same state.
Count(t) ==
  /\ pc[t] = "count"
  /\ IF Complete(t)
       THEN LET rest == Tail(n[t])
            IN  /\ num_left_' = [num_left_ EXCEPT ![Current(t)] = @ - 1]
                /\ caller' = [caller EXCEPT
                     ![Current(t)] = IF @ = "blocked" THEN "woken" ELSE @]
                /\ n' = [n EXCEPT ![t] = rest]
                /\ left' = [left EXCEPT
                     ![t] = IF rest = <<>> THEN 0 ELSE Instr[Head(rest)]]
                /\ Goto(t, Onward(t, rest))
       ELSE /\ Goto(t, Onward(t, n[t]))
            /\ UNCHANGED <<num_left_, caller, n, left>>
  /\ UNCHANGED <<serverVars, wire, buf, adding, state, response_, broken>>
-----------------------------------------------------------------------------
(***************************************************************************)
(* The owner: SetDone, and the destructor, which also joins the threads.   *)
(***************************************************************************)
SetDone ==
  /\ closing = "no"
  /\ done_' = TRUE
  /\ closing' = "set"
  /\ UNCHANGED <<m_, node_, missed, threadVars, adding, stateVars, broken>>

\* The destructor does the same first; no AddCommand is under way.
Destroy ==
  /\ closing \in {"no", "quiet"}
  /\ \A c \in Commands : adding[c] # "pending"
  /\ done_' = TRUE
  /\ closing' = "destroy"
  /\ UNCHANGED <<m_, node_, missed, threadVars, adding, stateVars, broken>>

NotifyAll ==
  /\ closing \in {"set", "destroy"}
  /\ NotifyEveryone
  /\ missed' = {t \in Threads : pc[t] = "sleep"}
  /\ closing' = IF closing = "set" THEN "quiet" ELSE "join"
  /\ UNCHANGED <<m_, done_, node_, n, left, wire, buf, adding, stateVars,
                 broken>>

Join ==
  /\ closing = "join"
  /\ \A t \in Threads : pc[t] = "dead"
  /\ closing' = "closed"
  /\ UNCHANGED <<m_, done_, node_, missed, threadVars, adding, stateVars,
                 broken>>

ThreadStep(t) ==
  \/ Connect(t) \/ TestDone(t) \/ Test(t) \/ Sleep(t) \/ Take(t) \/ CheckDone(t)
  \/ Send(t) \/ Read(t) \/ AddResponse(t) \/ Count(t)

ClientStep(c) == (\E s \in States : IncrementPending(c, s)) \/ AddToNode(c)

OwnerStep == SetDone \/ Destroy \/ NotifyAll \/ Join

Next ==
  /\ ~broken
  /\ \/ \E t \in Threads : ThreadStep(t) \/ Acquire(t) \/ SpuriousWake(t)
     \/ \E c \in Commands : ClientStep(c)
     \/ \E s \in States : BlockingGetResponse(s)
     \/ OwnerStep

Spec == Init /\ [][Next]_vars

(***************************************************************************)
(* Threads run, the mutex is not withheld for ever, and an AddCommand or a *)
(* destructor once begun goes on.  The other end answers.                  *)
(***************************************************************************)
Fairness ==
  /\ \A t \in Threads : WF_vars(~broken /\ ThreadStep(t))
  /\ WF_vars(~broken /\ \E t \in Threads : Acquire(t))
  /\ \A c \in Commands : SF_vars(~broken /\ AddToNode(c))
  /\ WF_vars(~broken /\ NotifyAll)
  /\ WF_vars(~broken /\ Join)

FairSpec == Spec /\ Fairness
-----------------------------------------------------------------------------
Labels == {"connect", "top", "enter", "test", "sleep", "wait", "wake", "take",
           "got", "send", "read", "parse", "count", "dead"}

TypeOK ==
  /\ m_ \in Threads \cup {NoThread} /\ done_ \in BOOLEAN
  /\ node_ \in Seq(Commands)
  /\ pc \in [Threads -> Labels]
  /\ n \in [Threads -> Seq(Commands)]
  /\ left \in [Threads -> Nat]
  /\ wire \in [Threads -> Seq(Commands \X Nat)]
  /\ buf \in [Threads -> BOOLEAN]
  /\ state \in [Commands -> States \cup {NoState}]
  /\ adding \in [Commands -> {"no", "pending", "added"}]
  /\ num_left_ \in [States -> Nat]
  /\ response_ \in [States -> Seq(Commands)]
  /\ caller \in [States -> {"out", "blocked", "woken", "returned"}]

\* "We have exclusive access over contents belonging to n now": no command is in
\* the nodes of two threads, or in one and still in node_.
ExclusiveAccess ==
  \A t \in Threads :
    /\ Range(n[t]) \cap Range(node_) = {}
    /\ \A u \in Threads \ {t} : Range(n[t]) \cap Range(n[u]) = {}

\* Every response is given to the ResponseState of the command it answers,
\* although a node mixes the commands of several states and reads return any
\* number of responses.
NoMisdelivery ==
  \A s \in States : \A i \in 1..Len(response_[s]) : state[response_[s][i]] = s

\* How many responses to c the state s has got.
Occurrences(r, c) == Cardinality({i \in 1..Len(r) : r[i] = c})

Received(s, c) == Occurrences(response_[s], c)

\* BlockingGetResponse returns the complete response: every instruction of
\* every command that was added with the state has its response in it, also
\* when two threads of the server work for the same state.
CompleteOnReturn ==
  \A s \in States :
    caller[s] = "returned" =>
      \A c \in Commands :
        state[c] = s /\ adding[c] = "added" => Received(s, c) = Instr[c]

\* A command that was added is answered, unless the server is closed before a
\* thread has sent it or the connection breaks: then its caller waits for ever.
CommandAnswered ==
  \A s \in States :
    num_left_[s] > 0 ~> (num_left_[s] = 0 \/ done_ \/ broken)

\* The destructor returns, unless a thread was between its test and its wait
\* when everybody was notified, without the mutex, and nothing wakes it since.
DestructorReturns ==
  closing = "join" ~>
    (closing = "closed" \/ broken \/ \E t \in missed : pc[t] = "wait")
-----------------------------------------------------------------------------
(***************************************************************************)
(* The inductive invariant behind the three safety properties.             *)
(***************************************************************************)
Serving == {"read", "parse", "count"}

\* Who holds m_, and what a thread finds in its node at each place.
MutexInv == \A t \in Threads : pc[t] \in {"test", "sleep", "take"} <=> m_ = t

NodeInv ==
  \A t \in Threads :
    /\ pc[t] = "take" => done_ \/ node_ # <<>>
    /\ pc[t] = "got" => done_ \/ n[t] # <<>>
    /\ pc[t] \in Serving \cup {"send"} => n[t] # <<>>
    /\ n[t] # <<>> => pc[t] \in Serving \cup {"got", "send"}

\* A command is in a node at most once, and only after it was added.
AddedInv ==
  /\ \A c \in Commands : adding[c] = "no" <=> state[c] = NoState
  /\ IsInjective(node_) /\ \A c \in Range(node_) : adding[c] = "added"
  /\ \A t \in Threads : IsInjective(n[t]) /\ \A c \in Range(n[t]) : adding[c] = "added"

\* What is on the wire is what the rest of the node waits for.
Aligned(t, cs) ==
  /\ Len(wire[t]) = Len(cs)
  /\ \A i \in 1..Len(cs) : wire[t][i][1] = cs[i]
  /\ \A i \in 2..Len(cs) : wire[t][i][2] = Instr[cs[i]]

WireFits(t) ==
  pc[t] \in Serving =>
    /\ left[t] <= Instr[Head(n[t])]
    /\ IF pc[t] = "count" /\ left[t] = 0
         THEN /\ Aligned(t, Tail(n[t]))
              /\ Len(n[t]) > 1 => wire[t][1][2] = Instr[n[t][2]]
         ELSE Aligned(t, n[t]) /\ wire[t][1][2] = left[t] /\ left[t] > 0
    /\ pc[t] = "count" /\ buf[t] => wire[t] # <<>>

WireInv == \A t \in Threads : WireFits(t)

\* How far the commands are: no response before a node is sent, then one by one.
ReceivedInv ==
  \A c \in Commands : state[c] # NoState =>
    /\ Received(state[c], c) <= Instr[c]
    /\ adding[c] = "pending" \/ c \in Range(node_) => Received(state[c], c) = 0
    /\ \A t \in Threads : c \in Range(n[t]) =>
         Received(state[c], c) = IF pc[t] \in Serving /\ c = Head(n[t])
                                 THEN Instr[c] - left[t] ELSE 0

\* num_left_ counts the commands of a state that are not answered, or answered
\* and not yet counted.
Open(s) ==
  {c \in Commands : /\ state[c] = s
                    /\ \/ Received(s, c) < Instr[c]
                       \/ \E t \in Threads : c \in Range(n[t])}

PendingInv ==
  \A s \in States : /\ num_left_[s] = Cardinality(Open(s))
                    /\ caller[s] = "returned" => num_left_[s] = 0

\* The state of the threads, of the wire and of the ResponseStates fits
\* together: each node is where its thread can have it, the responses to come
\* are those its thread will count, and num_left_ is the number of commands that
\* are open.  It is what the destructor, AddCommand and the parsing loop rely on.
ServerInv ==
  /\ TypeOK /\ MutexInv /\ NodeInv /\ AddedInv /\ WireInv /\ ReceivedInv
  /\ PendingInv /\ ExclusiveAccess /\ NoMisdelivery
=============================================================================
