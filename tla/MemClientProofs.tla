-------------------------- MODULE MemClientProofs --------------------------
(***************************************************************************)
(* Proofs about MemClient: MemClientInv is inductive, for any number of    *)
(* threads, any keys and any operations on them.  That a stale value has   *)
(* one of the known causes, and that check-and-set loses no update without *)
(* a cache, follow.                                                        *)
(***************************************************************************)
EXTENDS MemClient, TLAPS

USE SMTT(30), SMTT(20), SMTT(10)

\* The first element of a sequence and the others.
LEMMA HeadTail ==
  ASSUME NEW S, NEW s \in Seq(S), s # <<>>
  PROVE  /\ Head(s) \in S /\ Head(s) \in Range(s)
         /\ Tail(s) \in Seq(S) /\ Range(Tail(s)) \subseteq Range(s)
         /\ 1 \in 1..Len(s) /\ Head(s) = s[1]
         /\ \A i \in 1..Len(Tail(s)) : i + 1 \in 1..Len(s) /\ Tail(s)[i] = s[i + 1]
  <1>1. /\ Head(s) \in S /\ Tail(s) \in Seq(S) /\ Len(Tail(s)) = Len(s) - 1
        /\ Len(s) \in Nat \ {0} /\ Head(s) = s[1] /\ DOMAIN s = 1..Len(s)
        /\ DOMAIN Tail(s) = 1..Len(Tail(s))
    OBVIOUS
  <1>2. \A i \in 1..Len(Tail(s)) : i + 1 \in 1..Len(s) /\ Tail(s)[i] = s[i + 1]
    BY <1>1
  <1>3. 1 \in 1..Len(s)
    BY <1>1
  <1> QED
    BY <1>1, <1>2, <1>3 DEF Range

\* A sequence and one element more.
LEMMA Appended ==
  ASSUME NEW S, NEW s \in Seq(S), NEW x \in S
  PROVE  /\ Append(s, x) \in Seq(S) /\ Append(s, x) # <<>>
         /\ \A i \in 1..Len(Append(s, x)) :
              Append(s, x)[i] = x \/ (i \in 1..Len(s) /\ Append(s, x)[i] = s[i])
  <1>1. /\ Append(s, x) \in Seq(S) /\ Len(Append(s, x)) = Len(s) + 1 /\ Len(s) \in Nat
        /\ Append(s, x)[Len(s) + 1] = x
        /\ \A i \in 1..Len(s) : Append(s, x)[i] = s[i]
    OBVIOUS
  <1> QED
    BY <1>1

\* An operation that runs is one of those that the clients may call.
LEMMA OpType ==
  ASSUME TypeOK, NEW t \in Threads
  PROVE  /\ op[t].keys \in Seq(Keys) /\ Range(op[t].keys) \subseteq Keys
         /\ op[t].type = "none" <=> op[t] = NoOp
         /\ op[t] = NoOp => op[t].keys = <<>> /\ Range(op[t].keys) = {}
         /\ op[t].type \in Stores => /\ op[t].val \in Nat \cup {Empty}
                                     /\ op[t].no_propagate \in BOOLEAN
         /\ op[t].type = "cas" => Len(op[t].keys) = 1
         /\ op[t].type = "incr" => op[t].offset \in Int
  <1>1. op[t] = NoOp \/ op[t] \in Ops
    BY DEF TypeOK
  <1>2. \A s \in Seq(Keys) : Range(s) \subseteq Keys
    BY DEF Range
  <1>3. CASE op[t] = NoOp
    <2>1. NoOp.keys = <<>> /\ NoOp.type = "none" /\ <<>> \in Seq(Keys)
      BY DEF NoOp
    <2>2. Range(NoOp.keys) = {}
      BY <2>1 DEF Range
    <2> QED
      BY <1>2, <1>3, <2>1, <2>2 DEF Stores
  <1>4. CASE op[t] \in Ops
    <2>1. IsOp(op[t])
      BY <1>4, MemClientAssumption
    <2>2. NoOp.type = "none"
      BY DEF NoOp
    <2> QED
      BY <1>2, <2>1, <2>2 DEF IsOp, Stores
  <1> QED
    BY <1>1, <1>3, <1>4

\* An idle thread has no key in hand and no result to come.
LEMMA Idle ==
  ASSUME MemClientInv, NEW t \in Threads, op[t] = NoOp
  PROVE  step[t] = "cache" /\ missing[t] = {} /\ answers[t] = <<>>
  <1>1. op[t].type = "none"
    BY OpType DEF MemClientInv
  <1> QED
    BY <1>1, ZenonT(30) DEF MemClientInv, RunInv, RunFits, TypeOK, Stores

\* A thread that makes no step keeps its place.
LEMMA RunKept ==
  ASSUME NEW t \in Threads, RunFits(t), op'[t] = op[t], todo'[t] = todo[t],
         step'[t] = step[t], missing'[t] = missing[t],
         answers'[t] = answers[t], seen'[t] = seen[t]
  PROVE  RunFits(t)'
  BY DEF RunFits

LEMMA InitInv == Init => MemClientInv
  <1> SUFFICES ASSUME Init PROVE MemClientInv
    OBVIOUS
  <1>1. <<>> \in Seq(Keys) /\ <<>> \in Seq([key : Keys, entry : Entries]) /\ Len(<<>>) = 0
    OBVIOUS
  <1>2. NoOp.type = "none" /\ NoOp.keys = <<>> /\ Range(<<>>) = {}
    BY DEF NoOp, Range
  <1>3. TypeOK
    BY <1>1 DEF Init, TypeOK, Entries
  <1>4. RunInv /\ MeetInv
    BY <1>1, <1>2 DEF Init, RunInv, RunFits, MeetInv, Stores
  <1>5. AnswerInv /\ MidwayInv /\ AgreeInv
    BY <1>1 DEF Init, AnswerInv, MidwayInv, Midway, AgreeInv, SameValue
  <1>6. CasInv
    <2>1. \A k \in Keys : Copies(k) = {}
      BY <1>1 DEF Init, Copies
    <2> QED
      BY <2>1 DEF Init, CasInv
  <1> QED
    BY <1>3, <1>4, <1>5, <1>6 DEF MemClientInv

\* What is neither written to the store nor read anew needs no other cas.
LEMMA NoNewCopy ==
  ASSUME CasInv, UNCHANGED <<cache_, next_cas>>,
         ~cache_ => \A k \in Keys : Copies(k)' \subseteq Copies(k)
  PROVE  CasInv'
  BY DEF CasInv

\* A write to the store has a cas of its own.
LEMMA NewCopy ==
  ASSUME MemClientInv, cache_' = cache_, NEW k \in Keys, NEW v, Write(k, v),
         UNCHANGED <<seen, answers>>
  PROVE  CasInv'
  <1> DEFINE e0 == [val |-> v, cas |-> next_cas]
  <1>1. next_cas \in Nat \ {0} /\ next_cas' = next_cas + 1 /\ e0.cas = next_cas
    BY DEF MemClientInv, TypeOK, CasInv, Write
  <1>2. \A j \in Keys : store'[j] = store[j] \/ store'[j] = e0
    BY DEF MemClientInv, TypeOK, Write
  <1> HIDE DEF e0
  <1>3. \A j \in Keys : Copies(j)' \subseteq Copies(j) \cup {e0}
    BY <1>2 DEF Copies
  <1> SUFFICES ASSUME ~cache_, NEW j \in Keys, NEW e \in Copies(j)', NEW f \in Copies(j)'
               PROVE  e.cas \in 1..next_cas /\ (e.cas = f.cas => e.val = f.val)
    BY <1>1 DEF CasInv
  <1>4. \A c \in Copies(j) : c.cas \in 1..(next_cas - 1)
    BY DEF MemClientInv, CasInv
  <1>5. CASE e \in Copies(j) /\ f \in Copies(j)
    BY <1>1, <1>5 DEF MemClientInv, CasInv
  <1>6. CASE e = e0 \/ f = e0
    BY <1>1, <1>3, <1>4, <1>6
  <1> QED
    BY <1>3, <1>5, <1>6

LEMMA BeginInv ==
  ASSUME MemClientInv, NEW t \in Threads, NEW o \in Ops, Begin(t, o)
  PROVE  MemClientInv'
  <1> USE DEF sharedVars
  <1>1. /\ UNCHANGED <<cache_, cache, store, next_cas>>
        /\ UNCHANGED <<step, missing, answers, seen>>
        /\ op[t] = NoOp /\ op'[t] = o /\ todo'[t] = o.keys
        /\ \A u \in Threads \ {t} : op'[u] = op[u] /\ todo'[u] = todo[u]
        /\ o.type = "cas" => seen[t][o.keys[1]] # Absent
    BY DEF Begin, Running, MemClientInv, TypeOK
  <1>2. step[t] = "cache" /\ missing[t] = {} /\ answers[t] = <<>>
    BY <1>1, Idle
  <1>3. /\ tainted \subseteq tainted'
        /\ \A u \in Threads : u # t /\ overlapped[u] => overlapped'[u]
    BY ZenonT(30) DEF Begin
  <1>4. \A u \in Threads \ {t} : \A k \in Range(o.keys) \cap Range(op[u].keys) :
          k \in tainted' /\ overlapped'[t] /\ overlapped'[u]
    <2> SUFFICES ASSUME NEW u \in Threads \ {t}, NEW k \in Range(o.keys) \cap Range(op[u].keys)
                 PROVE  k \in tainted' /\ overlapped'[t] /\ overlapped'[u]
      OBVIOUS
    <2>1. op[u] # NoOp
      BY OpType DEF MemClientInv
    <2>2. u \in Rivals(t, o)
      BY <2>1 DEF Rivals, Running
    <2> QED
      BY <2>2, ZenonT(30) DEF Begin
  <1>5. TypeOK'
    <2>1. o.keys \in Seq(Keys)
      BY MemClientAssumption DEF IsOp
    <2>2. op' \in [Threads -> Ops \cup {NoOp}] /\ todo' \in [Threads -> Seq(Keys)]
      BY <2>1 DEF Begin, MemClientInv, TypeOK
    <2>3. overlapped' \in [Threads -> BOOLEAN]
      BY ZenonT(30) DEF Begin, MemClientInv, TypeOK
    <2>4. tainted' \subseteq Keys
      <3>1. \A k \in Range(o.keys) : k \in Keys
        BY <2>1 DEF Range
      <3> QED
        BY <3>1 DEF Begin, MemClientInv, TypeOK
    <2> QED
      BY <1>1, <2>2, <2>3, <2>4, ZenonT(30) DEF MemClientInv, TypeOK
  <1>6. RunInv'
    <2> SUFFICES ASSUME NEW u \in Threads
                 PROVE  RunFits(u)'
      BY DEF RunInv
    <2>1. CASE u = t
      BY <1>1, <1>2, <2>1 DEF RunFits
    <2>2. CASE u # t
      BY <1>1, <2>2, RunKept DEF MemClientInv, RunInv
    <2> QED
      BY <2>1, <2>2
  <1>7. MeetInv'
    <2> SUFFICES ASSUME NEW u \in Threads, NEW v \in Threads \ {u},
                        NEW k \in Range(op'[u].keys) \cap Range(op'[v].keys)
                 PROVE  k \in tainted' /\ overlapped'[u]
      BY DEF MeetInv
    <2>1. CASE u # t /\ v # t
      BY <1>1, <1>3, <2>1 DEF MemClientInv, MeetInv
    <2>2. CASE u = t \/ v = t
      BY <1>1, <1>4, <2>2
    <2> QED
      BY <2>1, <2>2
  <1>8. AnswerInv'
    BY <1>1, <1>3 DEF MemClientInv, AnswerInv
  <1>9. MidwayInv'
    <2> SUFFICES ASSUME NEW u \in Threads, NEW k \in Keys,
                        step[u] = "store", Head(todo'[u]) = k,
                        ~overlapped'[u] \/ k \notin tainted'
                 PROVE  cache[k] = Absent \/ cache[k].val = op'[u].val
      BY <1>1 DEF MidwayInv, Midway
    <2>1. u # t
      BY <1>2
    <2> QED
      BY <1>1, <1>3, <2>1 DEF MemClientInv, MidwayInv, Midway
  <1>10. AgreeInv'
    BY <1>1, <1>2, <1>3 DEF MemClientInv, AgreeInv, Midway
  <1>11. CasInv'
    BY <1>1 DEF MemClientInv, CasInv, Copies
  <1> QED
    BY <1>5, <1>6, <1>7, <1>8, <1>9, <1>10, <1>11 DEF MemClientInv

LEMMA FinishInv ==
  ASSUME MemClientInv, NEW t \in Threads, Finish(t)
  PROVE  MemClientInv'
  <1> USE DEF sharedVars, history
  <1>1. /\ UNCHANGED <<cache_, cache, store, next_cas, todo, overlapped, tainted>>
        /\ UNCHANGED <<step, missing, answers, seen>>
        /\ todo[t] = <<>> /\ missing[t] = {} /\ answers[t] = <<>>
        /\ op'[t] = NoOp
        /\ \A u \in Threads \ {t} : op'[u] = op[u]
    BY DEF Finish, MemClientInv, TypeOK
  <1>2. step[t] # "store"
    BY <1>1 DEF MemClientInv, RunInv, RunFits
  <1>3. NoOp.type = "none" /\ NoOp.keys = <<>> /\ Range(<<>>) = {}
    BY DEF NoOp, Range
  <1>4. TypeOK'
    <2>1. op' \in [Threads -> Ops \cup {NoOp}]
      BY DEF Finish, MemClientInv, TypeOK
    <2> QED
      BY <1>1, <2>1, ZenonT(30) DEF MemClientInv, TypeOK
  <1>5. RunInv'
    <2> SUFFICES ASSUME NEW u \in Threads
                 PROVE  RunFits(u)'
      BY DEF RunInv
    <2>1. CASE u = t
      BY <1>1, <1>2, <1>3, <2>1 DEF RunFits
    <2>2. CASE u # t
      BY <1>1, <2>2, RunKept DEF MemClientInv, RunInv
    <2> QED
      BY <2>1, <2>2
  <1>6. MeetInv'
    BY <1>1, <1>3 DEF MemClientInv, MeetInv
  <1>7. AnswerInv' /\ AgreeInv'
    BY <1>1 DEF MemClientInv, AnswerInv, AgreeInv, Midway
  <1>8. MidwayInv'
    BY <1>1, <1>2 DEF MemClientInv, MidwayInv, Midway
  <1>9. CasInv'
    BY <1>1 DEF MemClientInv, CasInv, Copies
  <1> QED
    BY <1>4, <1>5, <1>6, <1>7, <1>8, <1>9 DEF MemClientInv

LEMMA LookupInv ==
  ASSUME MemClientInv, NEW t \in Threads, Lookup(t)
  PROVE  MemClientInv'
  <1> USE DEF sharedVars, history
  <1> DEFINE k == Head(todo[t])
  <1>1. /\ UNCHANGED <<cache_, cache, store, next_cas, overlapped, tainted>>
        /\ UNCHANGED <<op, step, answers>>
        /\ op[t].type = "get" /\ todo[t] # <<>>
        /\ todo' = [todo EXCEPT ![t] = Tail(@)]
    BY DEF Lookup, OnKey, Advance
  <1>2. /\ k \in Keys /\ k \in Range(todo[t]) /\ Tail(todo[t]) \in Seq(Keys)
        /\ Range(Tail(todo[t])) \subseteq Range(todo[t])
    BY <1>1, HeadTail DEF MemClientInv, TypeOK
  <1>3. PICK e \in {cache[k], Absent} :
           /\ seen' = [seen EXCEPT ![t] = [seen[t] EXCEPT ![k] = e]]
           /\ ~cache_ => e = Absent
    BY DEF Lookup
  <1> HIDE DEF k
  <1>4. /\ todo'[t] = Tail(todo[t])
        /\ \A u \in Threads \ {t} : /\ todo'[u] = todo[u] /\ missing'[u] = missing[u]
                                    /\ seen'[u] = seen[u]
        /\ missing'[t] \subseteq missing[t] \cup {k}
    BY <1>1 DEF Lookup, MemClientInv, TypeOK, k
  <1>5. step[t] # "store"
    BY <1>1 DEF MemClientInv, RunInv, RunFits, Stores
  <1>6. TypeOK'
    <2>1. todo' \in [Threads -> Seq(Keys)]
      BY <1>1, <1>2 DEF MemClientInv, TypeOK
    <2>2. missing' \in [Threads -> SUBSET Keys]
      <3>1. missing \in [Threads -> SUBSET Keys] /\ missing[t] \cup {k} \in SUBSET Keys
        BY <1>2 DEF MemClientInv, TypeOK
      <3>2. missing' = missing \/ missing' = [missing EXCEPT ![t] = missing[t] \cup {k}]
        BY DEF Lookup, k
      <3> QED
        BY <3>1, <3>2
    <2>3. e \in Entries
      BY <1>2, <1>3 DEF MemClientInv, TypeOK, Entries
    <2>4. seen' \in [Threads -> [Keys -> Entries]]
      <3>1. seen \in [Threads -> [Keys -> Entries]] /\ [seen[t] EXCEPT ![k] = e] \in [Keys -> Entries]
        BY <1>2, <2>3 DEF MemClientInv, TypeOK
      <3> QED
        BY <1>3, <3>1
    <2> QED
      BY <1>1, <2>1, <2>2, <2>4, ZenonT(30) DEF MemClientInv, TypeOK
  <1>7. RunInv'
    <2> SUFFICES ASSUME NEW u \in Threads
                 PROVE  RunFits(u)'
      BY DEF RunInv
    <2>1. CASE u = t
      BY <1>1, <1>2, <1>4, <1>5, <2>1, ZenonT(30) DEF MemClientInv, RunInv, RunFits
    <2>2. CASE u # t
      BY <1>1, <1>4, <2>2, RunKept DEF MemClientInv, RunInv
    <2> QED
      BY <2>1, <2>2
  <1>8. MeetInv' /\ AnswerInv'
    BY <1>1, ZenonT(30) DEF MemClientInv, MeetInv, AnswerInv
  <1>9. \A u \in Threads : \A j : Midway(u, j)' <=> Midway(u, j)
    BY <1>1, <1>4, <1>5 DEF Midway
  <1>10. MidwayInv' /\ AgreeInv'
    BY <1>1, <1>9 DEF MemClientInv, MidwayInv, AgreeInv
  <1>11. CasInv'
    <2>1. seen \in [Threads -> [Keys -> Entries]]
      BY DEF MemClientInv, TypeOK
    <2>2. ~cache_ => \A u \in Threads, j \in Keys : seen'[u][j] = seen[u][j] \/ seen'[u][j] = Absent
      BY <1>2, <1>3, <2>1
    <2>3. ~cache_ => \A j \in Keys : Copies(j)' \subseteq Copies(j)
      BY <1>1, <2>2 DEF Copies
    <2> QED
      BY <1>1, <2>3, NoNewCopy DEF MemClientInv
  <1> QED
    BY <1>6, <1>7, <1>8, <1>10, <1>11 DEF MemClientInv

LEMMA AnswerStepInv ==
  ASSUME MemClientInv, NEW t \in Threads, NEW k \in Keys, Answer(t, k)
  PROVE  MemClientInv'
  <1> USE DEF sharedVars, history
  <1> DEFINE a == [key |-> k, entry |-> store[k]]
             T == [key : Keys, entry : Entries]
  <1>1. /\ UNCHANGED <<cache_, cache, store, next_cas, overlapped, tainted>>
        /\ UNCHANGED <<op, todo, step, seen>>
        /\ k \in missing[t]
        /\ missing' = [missing EXCEPT ![t] = @ \ {k}]
        /\ \/ answers' = answers
           \/ answers' = [answers EXCEPT ![t] = Append(@, a)]
    BY DEF Answer
  <1>2. op[t].type = "get" /\ k \in Range(op[t].keys)
    BY <1>1 DEF MemClientInv, RunInv, RunFits
  <1>3. /\ a.key = k /\ a.entry = store[k]
        /\ a \in T /\ answers[t] \in Seq(T)
    BY ZenonT(30) DEF MemClientInv, TypeOK
  <1> HIDE DEF a, T
  <1>4. /\ Append(answers[t], a) \in Seq(T)
        /\ \A i \in 1..Len(Append(answers[t], a)) :
             \/ Append(answers[t], a)[i] = a
             \/ i \in 1..Len(answers[t]) /\ Append(answers[t], a)[i] = answers[t][i]
    BY <1>3, Appended
  <1>5. /\ \A u \in Threads \ {t} : answers'[u] = answers[u] /\ missing'[u] = missing[u]
        /\ \A i \in 1..Len(answers'[t]) :
             answers'[t][i] = a \/ (i \in 1..Len(answers[t]) /\ answers'[t][i] = answers[t][i])
        /\ missing'[t] \subseteq missing[t]
    BY <1>1, <1>4 DEF MemClientInv, TypeOK
  <1>6. TypeOK'
    <2>1. missing' \in [Threads -> SUBSET Keys]
      BY <1>1 DEF MemClientInv, TypeOK
    <2>2. answers' \in [Threads -> Seq(T)]
      BY <1>1, <1>4, ZenonT(30) DEF MemClientInv, TypeOK, T
    <2> QED
      BY <1>1, <2>1, <2>2, ZenonT(30) DEF MemClientInv, TypeOK, T
  <1>7. RunInv'
    <2> SUFFICES ASSUME NEW u \in Threads
                 PROVE  RunFits(u)'
      BY DEF RunInv
    <2>1. CASE u = t
      <3>1. \A i \in 1..Len(answers'[t]) : answers'[t][i].key \in Range(op[t].keys)
        BY <1>2, <1>3, <1>5 DEF MemClientInv, RunInv, RunFits
      <3> QED
        BY <1>1, <1>2, <1>5, <2>1, <3>1 DEF MemClientInv, RunInv, RunFits
    <2>2. CASE u # t
      BY <1>1, <1>5, <2>2, RunKept DEF MemClientInv, RunInv
    <2> QED
      BY <2>1, <2>2
  <1>8. MeetInv' /\ MidwayInv' /\ AgreeInv'
    BY <1>1, ZenonT(30) DEF MemClientInv, MeetInv, MidwayInv, Midway, AgreeInv
  <1>9. AnswerInv'
    <2> SUFFICES ASSUME NEW u \in Threads, NEW i \in 1..Len(answers'[u]),
                        answers'[u][i].key \notin tainted
                 PROVE  SameValue(answers'[u][i].entry, store[answers'[u][i].key])
      BY <1>1 DEF AnswerInv, SameValue
    <2>1. CASE u # t \/ (i \in 1..Len(answers[u]) /\ answers'[u][i] = answers[u][i])
      BY <1>5, <2>1 DEF MemClientInv, AnswerInv
    <2>2. CASE answers'[u][i] = a
      BY <1>3, <2>2 DEF SameValue
    <2> QED
      BY <1>5, <2>1, <2>2
  <1>10. CasInv'
    <2>1. \A j \in Keys : Copies(j)' \subseteq Copies(j)
      <3> SUFFICES ASSUME NEW j \in Keys, NEW e \in Copies(j)'
                   PROVE  e \in Copies(j)
        OBVIOUS
      <3>1. CASE e = store[j] \/ \E u \in Threads : e = seen[u][j]
        BY <3>1 DEF Copies
      <3>2. CASE \E u \in Threads : \E i \in 1..Len(answers'[u]) :
                   answers'[u][i].key = j /\ e = answers'[u][i].entry
        <4>1. PICK u \in Threads : \E i \in 1..Len(answers'[u]) :
                     answers'[u][i].key = j /\ e = answers'[u][i].entry
          BY <3>2
        <4>2. PICK i \in 1..Len(answers'[u]) : answers'[u][i].key = j /\ e = answers'[u][i].entry
          BY <4>1
        <4>3. CASE answers'[u][i] = a
          BY <1>3, <4>2, <4>3 DEF Copies
        <4>4. CASE i \in 1..Len(answers[u]) /\ answers'[u][i] = answers[u][i]
          BY <4>2, <4>4 DEF Copies
        <4> QED
          BY <1>5, <4>3, <4>4
      <3> QED
        BY <1>1, <3>1, <3>2 DEF Copies
    <2> QED
      BY <1>1, <2>1, NoNewCopy DEF MemClientInv
  <1> QED
    BY <1>6, <1>7, <1>8, <1>9, <1>10 DEF MemClientInv

\* A thread that is half through a SET of a key has the key in its operation.
LEMMA MidwayKey ==
  ASSUME MemClientInv, NEW u \in Threads, NEW k, Midway(u, k)
  PROVE  k \in Range(op[u].keys) /\ op[u].type \in Stores
  <1>1. todo[u] # <<>> /\ todo[u] \in Seq(Keys) /\ op[u].type \in Stores
        /\ Range(todo[u]) \subseteq Range(op[u].keys)
    BY DEF MemClientInv, RunInv, RunFits, Midway, TypeOK
  <1>2. k \in Range(todo[u])
    BY <1>1, HeadTail DEF Midway
  <1> QED
    BY <1>1, <1>2

LEMMA FetchResultInv ==
  ASSUME MemClientInv, NEW t \in Threads, FetchResult(t)
  PROVE  MemClientInv'
  <1> USE DEF sharedVars, history
  <1> DEFINE T == [key : Keys, entry : Entries]
  <1>1. PICK a \in T, k \in Keys : a = Head(answers[t]) /\ k = a.key
    <2>1. answers[t] \in Seq(T) /\ answers[t] # <<>>
      BY ZenonT(30) DEF FetchResult, MemClientInv, TypeOK
    <2>2. Head(answers[t]) \in T
      <3> HIDE DEF T
      <3> QED
        BY <2>1
    <2>3. Head(answers[t]).key \in Keys
      BY <2>2
    <2> QED
      BY <2>2, <2>3
  <1>2. /\ UNCHANGED <<cache_, store, next_cas, overlapped, tainted>>
        /\ UNCHANGED <<op, todo, step, missing>>
        /\ answers[t] # <<>>
        /\ seen' = [seen EXCEPT ![t] = [seen[t] EXCEPT ![k] = a.entry]]
        /\ cache' = IF cache_ THEN [cache EXCEPT ![k] = a.entry] ELSE cache
        /\ answers' = [answers EXCEPT ![t] = Tail(answers[t])]
    BY <1>1 DEF FetchResult
  <1>3. /\ answers[t] \in Seq(T) /\ a.entry \in Entries
        /\ seen \in [Threads -> [Keys -> Entries]]
        /\ cache \in [Keys -> IF cache_ THEN Entries ELSE {Absent}]
    BY ZenonT(30) DEF MemClientInv, TypeOK
  <1> HIDE DEF T
  <1>4. /\ 1 \in 1..Len(answers[t]) /\ answers[t][1] = a
        /\ Tail(answers[t]) \in Seq(T)
        /\ \A i \in 1..Len(Tail(answers[t])) :
             i + 1 \in 1..Len(answers[t]) /\ Tail(answers[t])[i] = answers[t][i + 1]
    BY <1>1, <1>2, <1>3, HeadTail
  <1>5. k \in Range(op[t].keys) /\ op[t].type = "get" /\ step[t] # "store"
    BY <1>1, <1>2, <1>4 DEF MemClientInv, RunInv, RunFits, Stores
  <1>6. /\ answers'[t] = Tail(answers[t])
        /\ \A u \in Threads \ {t} : answers'[u] = answers[u] /\ seen'[u] = seen[u]
        /\ \A j \in Keys \ {k} : cache'[j] = cache[j]
        /\ cache'[k] = a.entry \/ (cache'[k] = cache[k] /\ cache[k] = Absent)
    BY <1>2, <1>3 DEF MemClientInv, TypeOK
  <1>7. TypeOK'
    <2>1. seen' \in [Threads -> [Keys -> Entries]]
      <3>1. [seen[t] EXCEPT ![k] = a.entry] \in [Keys -> Entries]
        BY <1>3
      <3> QED
        BY <1>2, <1>3, <3>1
    <2>2. answers' \in [Threads -> Seq(T)]
      BY <1>2, <1>4, ZenonT(30) DEF MemClientInv, TypeOK, T
    <2>3. cache' \in [Keys -> IF cache_ THEN Entries ELSE {Absent}]
      BY <1>2, <1>3
    <2> QED
      BY <1>2, <2>1, <2>2, <2>3, ZenonT(30) DEF MemClientInv, TypeOK, T
  <1>8. RunInv'
    <2> SUFFICES ASSUME NEW u \in Threads
                 PROVE  RunFits(u)'
      BY DEF RunInv
    <2>1. CASE u = t
      <3>1. \A i \in 1..Len(answers'[t]) : answers'[t][i].key \in Range(op[t].keys)
        BY <1>4, <1>6 DEF MemClientInv, RunInv, RunFits
      <3> QED
        BY <1>2, <1>5, <2>1, <3>1 DEF MemClientInv, RunInv, RunFits
    <2>2. CASE u # t
      BY <1>2, <1>6, <2>2, RunKept DEF MemClientInv, RunInv
    <2> QED
      BY <2>1, <2>2
  <1>9. MeetInv'
    BY <1>2 DEF MemClientInv, MeetInv
  <1>10. AnswerInv'
    BY <1>2, <1>4, <1>6 DEF MemClientInv, AnswerInv
  <1>11. MidwayInv'
    <2> SUFFICES ASSUME NEW u \in Threads, NEW j \in Keys, Midway(u, j),
                        ~overlapped[u] \/ j \notin tainted
                 PROVE  cache'[j] = Absent \/ cache'[j].val = op[u].val
      BY <1>2 DEF MidwayInv, Midway
    <2>1. j # k
      <3>1. u # t
        BY <1>5 DEF Midway
      <3> QED
        BY <1>5, <3>1, MidwayKey DEF MemClientInv, MeetInv
    <2> QED
      BY <1>6, <2>1 DEF MemClientInv, MidwayInv
  <1>12. AgreeInv'
    <2>1. k \notin tainted => SameValue(a.entry, store[k])
      BY <1>1, <1>4 DEF MemClientInv, AnswerInv
    <2> QED
      BY <1>2, <1>6, <2>1 DEF MemClientInv, AgreeInv, SameValue, Midway
  <1>13. CasInv'
    <2>1. \A j \in Keys : Copies(j)' \subseteq Copies(j)
      <3> SUFFICES ASSUME NEW j \in Keys, NEW e \in Copies(j)'
                   PROVE  e \in Copies(j)
        OBVIOUS
      <3>1. k = j => a.entry \in Copies(j) \cup {Absent}
        BY <1>1, <1>4 DEF Copies
      <3>2. CASE e = store[j] \/ \E u \in Threads : e = seen'[u][j]
        <4>1. \A u \in Threads : seen'[u][j] = seen[u][j] \/ (k = j /\ seen'[u][j] = a.entry)
          BY <1>2, <1>3
        <4> QED
          BY <3>1, <3>2, <4>1 DEF Copies
      <3>3. CASE \E u \in Threads : \E i \in 1..Len(answers'[u]) :
                   answers'[u][i].key = j /\ e = answers'[u][i].entry
        <4>1. PICK u \in Threads : \E i \in 1..Len(answers'[u]) :
                     answers'[u][i].key = j /\ e = answers'[u][i].entry
          BY <3>3
        <4>2. PICK i \in 1..Len(answers'[u]) : answers'[u][i].key = j /\ e = answers'[u][i].entry
          BY <4>1
        <4>3. \E h \in 1..Len(answers[u]) : answers[u][h] = answers'[u][i]
          <5>1. CASE u = t
            BY <1>4, <1>6, <5>1, ZenonT(30)
          <5>2. CASE u # t
            BY <1>6, <5>2
          <5> QED
            BY <5>1, <5>2
        <4> QED
          BY <4>2, <4>3 DEF Copies
      <3> QED
        BY <1>2, <3>2, <3>3 DEF Copies
    <2> QED
      BY <1>2, <2>1, NoNewCopy DEF MemClientInv
  <1> QED
    BY <1>7, <1>8, <1>9, <1>10, <1>11, <1>12, <1>13 DEF MemClientInv

\* The cas of a request is a number: a client has read the key before.
LEMMA TokenType ==
  ASSUME MemClientInv, NEW t \in Threads
  PROVE  Token(t) \in Nat
  <1>1. CASE op[t].type = "cas"
    <2>1. op[t].keys \in Seq(Keys) /\ Len(op[t].keys) = 1
      BY <1>1, OpType DEF MemClientInv
    <2>2. op[t].keys[1] \in Keys
      BY <2>1
    <2>3. seen[t][op[t].keys[1]] \in Entries \ {Absent}
      BY <1>1, <2>2 DEF MemClientInv, TypeOK, RunInv, RunFits
    <2> QED
      BY <1>1, <2>3 DEF Token, Entries
  <1> QED
    BY <1>1 DEF Token

\* What a thread of SetKeys or IncrKeys finds: the key in hand is one of its
\* operation, and the rest of the keys is too.
LEMMA KeyInHand ==
  ASSUME MemClientInv, NEW t \in Threads, todo[t] # <<>>
  PROVE  /\ Head(todo[t]) \in Keys /\ Head(todo[t]) \in Range(op[t].keys)
         /\ Tail(todo[t]) \in Seq(Keys) /\ Range(Tail(todo[t])) \subseteq Range(op[t].keys)
  <1>1. todo[t] \in Seq(Keys) /\ Range(todo[t]) \subseteq Range(op[t].keys)
    BY DEF MemClientInv, TypeOK, RunInv, RunFits
  <1> QED
    BY <1>1, HeadTail

LEMMA PutCacheInv ==
  ASSUME MemClientInv, NEW t \in Threads, PutCache(t)
  PROVE  MemClientInv'
  <1> USE DEF sharedVars, history
  <1> DEFINE e == [val |-> op[t].val, cas |-> Token(t)]
  <1>1. PICK k \in Keys : /\ k = Head(todo[t]) /\ k \in Range(op[t].keys)
                          /\ Tail(todo[t]) \in Seq(Keys)
                          /\ Range(Tail(todo[t])) \subseteq Range(op[t].keys)
    BY KeyInHand DEF PutCache, OnKey
  <1>2. /\ UNCHANGED <<cache_, store, next_cas, overlapped>>
        /\ UNCHANGED <<op, missing, answers, seen>>
        /\ todo[t] # <<>> /\ op[t].type \in Stores /\ step[t] = "cache"
        /\ cache' = IF cache_ THEN [cache EXCEPT ![k] = e] ELSE cache
    BY <1>1 DEF PutCache, OnKey
  <1>3. e \in Entries /\ e.val = op[t].val
    <2>1. op[t].val \in Nat \cup {Empty}
      BY <1>2, OpType DEF MemClientInv
    <2> QED
      BY <2>1, TokenType DEF Entries
  <1> HIDE DEF e
  <1>4. \/ /\ todo' = [todo EXCEPT ![t] = Tail(todo[t])] /\ step' = step
           /\ tainted' = tainted \cup {k}
        \/ /\ todo' = todo /\ step' = [step EXCEPT ![t] = "store"]
           /\ tainted' = tainted
    BY <1>1 DEF PutCache, Advance
  <1>5. /\ \A u \in Threads \ {t} : todo'[u] = todo[u] /\ step'[u] = step[u]
        /\ \/ todo'[t] = Tail(todo[t]) /\ step'[t] = "cache" /\ k \in tainted'
           \/ todo'[t] = todo[t] /\ step'[t] = "store" /\ Midway(t, k)'
        /\ \A j \in Keys \ {k} : cache'[j] = cache[j]
        /\ cache'[k] = e \/ cache'[k] = Absent
        /\ tainted \subseteq tainted'
    <2>1. todo \in [Threads -> Seq(Keys)] /\ step \in [Threads -> {"cache", "store"}]
      BY DEF MemClientInv, TypeOK
    <2>2. \/ todo'[t] = Tail(todo[t]) /\ step'[t] = "cache" /\ k \in tainted'
          \/ todo'[t] = todo[t] /\ step'[t] = "store" /\ Midway(t, k)'
      BY <1>1, <1>2, <1>4, <2>1 DEF Midway
    <2>3. /\ \A j \in Keys \ {k} : cache'[j] = cache[j]
          /\ cache'[k] = e \/ cache'[k] = Absent
      BY <1>2 DEF MemClientInv, TypeOK
    <2> QED
      BY <1>4, <2>1, <2>2, <2>3
  <1>6. TypeOK'
    <2>1. cache' \in [Keys -> IF cache_ THEN Entries ELSE {Absent}]
      BY <1>2, <1>3 DEF MemClientInv, TypeOK
    <2>2. /\ todo' \in [Threads -> Seq(Keys)] /\ step' \in [Threads -> {"cache", "store"}]
          /\ tainted' \subseteq Keys
      BY <1>1, <1>4, ZenonT(30) DEF MemClientInv, TypeOK
    <2> QED
      BY <1>2, <2>1, <2>2, ZenonT(30) DEF MemClientInv, TypeOK
  <1>7. RunInv'
    <2> SUFFICES ASSUME NEW u \in Threads
                 PROVE  RunFits(u)'
      BY DEF RunInv
    <2>1. CASE u = t
      BY <1>1, <1>2, <1>5, <2>1, ZenonT(30) DEF MemClientInv, RunInv, RunFits
    <2>2. CASE u # t
      BY <1>2, <1>5, <2>2, RunKept DEF MemClientInv, RunInv
    <2> QED
      BY <2>1, <2>2
  <1>8. MeetInv' /\ AnswerInv'
    BY <1>2, <1>5, ZenonT(30) DEF MemClientInv, MeetInv, AnswerInv
  <1>9. \A u \in Threads \ {t} : \A j : Midway(u, j)' <=> Midway(u, j)
    BY <1>5 DEF Midway
  <1>10. MidwayInv'
    <2> SUFFICES ASSUME NEW u \in Threads, NEW j \in Keys, Midway(u, j)',
                        ~overlapped[u] \/ j \notin tainted'
                 PROVE  cache'[j] = Absent \/ cache'[j].val = op[u].val
      BY <1>2 DEF MidwayInv
    <2>1. CASE u = t
      <3>1. j = k
        BY <1>1, <1>5, <2>1 DEF Midway
      <3> QED
        BY <1>3, <1>5, <2>1, <3>1
    <2>2. CASE u # t
      <3>1. Midway(u, j) /\ (~overlapped[u] \/ j \notin tainted)
        BY <1>5, <1>9, <2>2
      <3>2. j # k
        BY <1>1, <2>2, <3>1, MidwayKey, ZenonT(30) DEF MemClientInv, MeetInv
      <3> QED
        BY <1>5, <3>1, <3>2 DEF MemClientInv, MidwayInv
    <2> QED
      BY <2>1, <2>2
  <1>11. AgreeInv'
    <2> SUFFICES ASSUME NEW j \in Keys \ tainted'
                 PROVE  SameValue(cache'[j], store[j]) \/ \E u \in Threads : Midway(u, j)'
      BY <1>2 DEF AgreeInv, SameValue
    <2>1. CASE j = k
      BY <1>5, <2>1
    <2>2. CASE j # k
      <3>1. ~Midway(t, j)
        BY <1>2 DEF Midway
      <3> QED
        BY <1>5, <1>9, <2>2, <3>1 DEF MemClientInv, AgreeInv
    <2> QED
      BY <2>1, <2>2
  <1>12. CasInv'
    BY <1>2 DEF MemClientInv, CasInv, Copies
  <1> QED
    BY <1>6, <1>7, <1>8, <1>10, <1>11, <1>12 DEF MemClientInv

\* The key in hand of a SET that meets nobody is in no other operation.
LEMMA Alone ==
  ASSUME MemClientInv, NEW t \in Threads, ~overlapped[t], NEW k \in Range(op[t].keys)
  PROVE  \A u \in Threads \ {t} : k \notin Range(op[u].keys)
  BY DEF MemClientInv, MeetInv

LEMMA StoreKeyInv ==
  ASSUME MemClientInv, NEW t \in Threads, StoreKey(t)
  PROVE  MemClientInv'
  <1> USE DEF sharedVars, history
  <1>1. PICK k \in Keys : /\ k = Head(todo[t]) /\ k \in Range(op[t].keys)
                          /\ Tail(todo[t]) \in Seq(Keys)
                          /\ Range(Tail(todo[t])) \subseteq Range(op[t].keys)
    BY KeyInHand, ZenonT(30) DEF StoreKey, OnKey
  <1>2. /\ UNCHANGED <<cache_, cache, overlapped>>
        /\ UNCHANGED <<op, missing, answers, seen>>
        /\ todo[t] # <<>> /\ op[t].type \in Stores /\ step[t] = "store"
        /\ step' = [step EXCEPT ![t] = "cache"]
        /\ todo' = [todo EXCEPT ![t] = Tail(todo[t])]
    BY DEF StoreKey, OnKey, Advance
  <1>3. \/ /\ Write(k, op[t].val)
           /\ tainted' = tainted \/ (tainted' = tainted \ {k} /\ ~overlapped[t])
        \/ /\ tainted' = tainted \cup {k}
           /\ UNCHANGED <<store, next_cas>>
    BY <1>1 DEF StoreKey
  <1>4. /\ \A u \in Threads \ {t} : todo'[u] = todo[u] /\ step'[u] = step[u]
        /\ todo'[t] = Tail(todo[t]) /\ step'[t] = "cache"
        /\ \A j \in Keys \ {k} : store'[j] = store[j]
        /\ \A j : j # k /\ j \notin tainted' => j \notin tainted
        /\ Midway(t, k)
    <2>1. \A j \in Keys \ {k} : store'[j] = store[j]
      BY <1>3 DEF Write, MemClientInv, TypeOK
    <2>2. \A j : j # k /\ j \notin tainted' => j \notin tainted
      BY <1>3
    <2> QED
      BY <1>1, <1>2, <2>1, <2>2 DEF MemClientInv, TypeOK, Midway
  <1>5. \A u \in Threads \ {t} : k \in Range(op[u].keys) => k \in tainted'
    BY <1>1, <1>3, Alone, ZenonT(30) DEF MemClientInv, MeetInv
  <1>6. TypeOK'
    <2>1. op[t].val \in Nat \cup {Empty}
      BY <1>2, OpType, ZenonT(30) DEF MemClientInv
    <2>2. store' \in [Keys -> Entries] /\ next_cas' \in Nat
      <3>1. [val |-> op[t].val, cas |-> next_cas] \in Entries
        BY <2>1 DEF MemClientInv, TypeOK, Entries
      <3>2. store \in [Keys -> Entries] /\ next_cas \in Nat
        BY DEF MemClientInv, TypeOK
      <3> QED
        BY <1>3, <3>1, <3>2 DEF Write
    <2>3. todo' \in [Threads -> Seq(Keys)] /\ step' \in [Threads -> {"cache", "store"}]
      BY <1>1, <1>2 DEF MemClientInv, TypeOK
    <2>4. tainted' \subseteq Keys
      BY <1>3 DEF MemClientInv, TypeOK
    <2> QED
      BY <1>2, <2>2, <2>3, <2>4, ZenonT(30) DEF MemClientInv, TypeOK
  <1>7. RunInv'
    <2> SUFFICES ASSUME NEW u \in Threads
                 PROVE  RunFits(u)'
      BY DEF RunInv
    <2>1. CASE u = t
      BY <1>1, <1>2, <1>4, <2>1 DEF MemClientInv, RunInv, RunFits
    <2>2. CASE u # t
      BY <1>2, <1>4, <2>2, RunKept DEF MemClientInv, RunInv
    <2> QED
      BY <2>1, <2>2
  <1>8. MeetInv'
    <2> SUFFICES ASSUME NEW u \in Threads, NEW v \in Threads \ {u},
                        NEW j \in Range(op[u].keys) \cap Range(op[v].keys)
                 PROVE  j \in tainted' /\ overlapped[u]
      BY <1>2 DEF MeetInv
    <2>1. j \in tainted /\ overlapped[u]
      BY DEF MemClientInv, MeetInv
    <2>2. j = k => j \in tainted'
      BY <1>5
    <2> QED
      BY <1>4, <2>1, <2>2
  <1>9. AnswerInv'
    <2> SUFFICES ASSUME NEW u \in Threads, NEW i \in 1..Len(answers[u]),
                        answers[u][i].key \notin tainted'
                 PROVE  SameValue(answers[u][i].entry, store'[answers[u][i].key])
      BY <1>2, ZenonT(30) DEF AnswerInv, SameValue
    <2>1. /\ answers[u][i].key \in Range(op[u].keys) /\ op[u].type = "get"
          /\ answers[u][i].key \in Keys
      <3>1. answers[u] # <<>>
        OBVIOUS
      <3>2. answers[u][i].key \in Range(op[u].keys) /\ op[u].type = "get"
        BY <3>1 DEF MemClientInv, RunInv, RunFits
      <3> QED
        BY <3>2, OpType DEF MemClientInv
    <2>2. u # t
      BY <1>2, <2>1 DEF Stores
    <2>3. answers[u][i].key # k
      BY <1>5, <2>1, <2>2
    <2> QED
      BY <1>4, <2>1, <2>3, ZenonT(30) DEF MemClientInv, AnswerInv
  <1>10. MidwayInv'
    <2> SUFFICES ASSUME NEW u \in Threads, NEW j \in Keys, Midway(u, j)',
                        ~overlapped[u] \/ j \notin tainted'
                 PROVE  cache[j] = Absent \/ cache[j].val = op[u].val
      BY <1>2 DEF MidwayInv
    <2>1. u # t /\ Midway(u, j)
      BY <1>4 DEF Midway
    <2>2. j = k => k \in tainted'
      BY <1>5, <2>1, MidwayKey
    <2> QED
      BY <1>4, <2>1, <2>2 DEF MemClientInv, MidwayInv
  <1>11. AgreeInv'
    <2> SUFFICES ASSUME NEW j \in Keys \ tainted'
                 PROVE  SameValue(cache[j], store'[j]) \/ \E u \in Threads : Midway(u, j)'
      BY <1>2 DEF AgreeInv, SameValue
    <2>1. CASE j = k
      <3>1. /\ store' = [store EXCEPT ![k] = [val |-> op[t].val, cas |-> next_cas]]
            /\ ~overlapped[t] \/ k \notin tainted
        BY <1>3, <2>1 DEF Write
      <3>2. store'[k].val = op[t].val
        BY <3>1 DEF MemClientInv, TypeOK
      <3>3. cache[k] = Absent \/ cache[k].val = op[t].val
        BY <1>4, <3>1, ZenonT(30) DEF MemClientInv, MidwayInv
      <3> QED
        BY <2>1, <3>2, <3>3 DEF SameValue
    <2>2. CASE j # k
      <3>1. ~Midway(t, j)
        BY <1>1, <2>2 DEF Midway
      <3>2. \A u \in Threads \ {t} : Midway(u, j)' <=> Midway(u, j)
        BY <1>4 DEF Midway
      <3> QED
        BY <1>4, <2>2, <3>1, <3>2, ZenonT(30) DEF MemClientInv, AgreeInv
    <2> QED
      BY <2>1, <2>2
  <1>12. CasInv'
    <2>1. CASE Write(k, op[t].val)
      BY <1>2, <2>1, NewCopy
    <2>2. CASE UNCHANGED <<store, next_cas>>
      BY <1>2, <2>2 DEF MemClientInv, CasInv, Copies
    <2> QED
      BY <1>3, <2>1, <2>2
  <1> QED
    BY <1>6, <1>7, <1>8, <1>9, <1>10, <1>11, <1>12 DEF MemClientInv

LEMMA IncrKeyInv ==
  ASSUME MemClientInv, NEW t \in Threads, IncrKey(t)
  PROVE  MemClientInv'
  <1> USE DEF sharedVars, history
  <1>1. PICK k \in Keys : /\ k = Head(todo[t]) /\ k \in Range(op[t].keys)
                          /\ Tail(todo[t]) \in Seq(Keys)
                          /\ Range(Tail(todo[t])) \subseteq Range(op[t].keys)
    BY KeyInHand, ZenonT(30) DEF IncrKey, OnKey
  <1>2. /\ UNCHANGED <<cache_, cache, overlapped>>
        /\ UNCHANGED <<op, step, missing, answers, seen>>
        /\ todo[t] # <<>> /\ op[t].type = "incr"
        /\ todo' = [todo EXCEPT ![t] = Tail(todo[t])]
    BY ZenonT(30) DEF IncrKey, OnKey, Advance
  <1>3. \/ (\E v \in Nat : Write(k, v)) /\ tainted' = tainted \cup {k}
        \/ UNCHANGED <<store, next_cas, tainted>>
    <2>1. CASE store[k] # Absent /\ store[k].val # Empty
      <3>1. store[k].val \in Nat /\ op[t].offset \in Int
        BY <1>2, <2>1, OpType, ZenonT(30) DEF MemClientInv, TypeOK, Entries
      <3> DEFINE sum == store[k].val + op[t].offset
      <3>2. Write(k, IF sum < 0 THEN 0 ELSE sum) /\ tainted' = tainted \cup {k}
        BY <1>1, <2>1, ZenonT(30) DEF IncrKey
      <3>3. sum \in Int
        BY <3>1
      <3> HIDE DEF sum
      <3>4. (IF sum < 0 THEN 0 ELSE sum) \in Nat
        BY <3>3
      <3> QED
        BY <3>2, <3>4
    <2>2. CASE ~(store[k] # Absent /\ store[k].val # Empty)
      BY <1>1, <2>2, ZenonT(30) DEF IncrKey
    <2> QED
      BY <2>1, <2>2
  <1>4. step[t] # "store"
    BY <1>2, ZenonT(30) DEF MemClientInv, RunInv, RunFits, Stores
  <1>5. /\ \A u \in Threads \ {t} : todo'[u] = todo[u]
        /\ todo'[t] = Tail(todo[t])
        /\ \A j \in Keys \ tainted' : store'[j] = store[j]
        /\ tainted \subseteq tainted' /\ tainted' \subseteq Keys
    <2>1. \A j \in Keys \ tainted' : store'[j] = store[j]
      BY <1>3 DEF Write, MemClientInv, TypeOK
    <2> QED
      BY <1>2, <1>3, <2>1 DEF MemClientInv, TypeOK
  <1>6. TypeOK'
    <2>1. store' \in [Keys -> Entries] /\ next_cas' \in Nat
      <3>1. \A v \in Nat : [val |-> v, cas |-> next_cas] \in Entries
        BY DEF MemClientInv, TypeOK, Entries
      <3>2. store \in [Keys -> Entries] /\ next_cas \in Nat
        BY DEF MemClientInv, TypeOK
      <3> QED
        BY <1>3, <3>1, <3>2 DEF Write
    <2>2. todo' \in [Threads -> Seq(Keys)]
      BY <1>1, <1>2 DEF MemClientInv, TypeOK
    <2> QED
      BY <1>2, <1>5, <2>1, <2>2, ZenonT(30) DEF MemClientInv, TypeOK
  <1>7. RunInv'
    <2> SUFFICES ASSUME NEW u \in Threads
                 PROVE  RunFits(u)'
      BY DEF RunInv
    <2>1. CASE u = t
      BY <1>1, <1>2, <1>4, <1>5, <2>1 DEF MemClientInv, RunInv, RunFits
    <2>2. CASE u # t
      BY <1>2, <1>5, <2>2, RunKept, ZenonT(30) DEF MemClientInv, RunInv
    <2> QED
      BY <2>1, <2>2
  <1>8. MeetInv'
    BY <1>2, <1>5, ZenonT(30) DEF MemClientInv, MeetInv
  <1>9. AnswerInv'
    <2> SUFFICES ASSUME NEW u \in Threads, NEW i \in 1..Len(answers[u]),
                        answers[u][i].key \notin tainted'
                 PROVE  SameValue(answers[u][i].entry, store'[answers[u][i].key])
      BY <1>2, ZenonT(30) DEF AnswerInv, SameValue
    <2>1. answers[u][i].key \in Range(op[u].keys)
      BY ZenonT(30) DEF MemClientInv, RunInv, RunFits
    <2>2. answers[u][i].key \in Keys
      BY <2>1, OpType DEF MemClientInv
    <2> QED
      BY <1>5, <2>2 DEF MemClientInv, AnswerInv
  <1>10. \A u \in Threads : \A j : Midway(u, j)' <=> Midway(u, j)
    BY <1>2, <1>4, <1>5 DEF Midway
  <1>11. MidwayInv'
    BY <1>2, <1>5, <1>10 DEF MemClientInv, MidwayInv
  <1>12. AgreeInv'
    BY <1>2, <1>5, <1>10 DEF MemClientInv, AgreeInv, SameValue
  <1>13. CasInv'
    <2>1. CASE \E v \in Nat : Write(k, v)
      BY <1>2, <2>1, NewCopy, ZenonT(30)
    <2>2. CASE UNCHANGED <<store, next_cas>>
      BY <1>2, <2>2 DEF MemClientInv, CasInv, Copies
    <2> QED
      BY <1>3, <2>1, <2>2
  <1> QED
    BY <1>6, <1>7, <1>8, <1>9, <1>11, <1>12, <1>13 DEF MemClientInv

\* A key that is dropped, or a step that changes nothing.
LEMMA DropInv ==
  ASSUME MemClientInv,
         UNCHANGED <<cache_, next_cas, overlapped, tainted>>,
         UNCHANGED <<op, todo, step, missing, answers, seen>>,
         store' \in [Keys -> Entries],
         cache' \in [Keys -> IF cache_ THEN Entries ELSE {Absent}],
         \A k \in Keys : store'[k] = store[k] \/ store'[k] = Absent,
         \A k \in Keys : cache'[k] = cache[k] \/ cache'[k] = Absent
  PROVE  MemClientInv'
  <1>1. TypeOK'
    BY ZenonT(30) DEF MemClientInv, TypeOK
  <1>2. RunInv' /\ MeetInv'
    BY ZenonT(30) DEF MemClientInv, RunInv, RunFits, MeetInv
  <1>3. AnswerInv'
    <2> SUFFICES ASSUME NEW u \in Threads, NEW i \in 1..Len(answers[u]),
                        answers[u][i].key \notin tainted
                 PROVE  SameValue(answers[u][i].entry, store'[answers[u][i].key])
      BY DEF AnswerInv, SameValue
    <2>1. answers[u][i].key \in Range(op[u].keys)
      BY DEF MemClientInv, RunInv, RunFits
    <2>2. answers[u][i].key \in Keys
      BY <2>1, OpType DEF MemClientInv
    <2> QED
      BY <2>2 DEF MemClientInv, AnswerInv, SameValue
  <1>4. MidwayInv' /\ AgreeInv'
    BY DEF MemClientInv, MidwayInv, AgreeInv, Midway, SameValue
  <1>5. CasInv'
    <2>1. \A k \in Keys : Copies(k)' \subseteq Copies(k)
      BY DEF Copies
    <2> QED
      BY <2>1, NoNewCopy DEF MemClientInv
  <1> QED
    BY <1>1, <1>2, <1>3, <1>4, <1>5 DEF MemClientInv

LEMMA NextInv == MemClientInv /\ [Next]_vars => MemClientInv'
  <1> SUFFICES ASSUME MemClientInv, [Next]_vars
               PROVE  MemClientInv'
    OBVIOUS
  <1>1. ASSUME NEW t \in Threads, ThreadStep(t)
        PROVE  MemClientInv'
    BY <1>1, BeginInv, LookupInv, AnswerStepInv, FetchResultInv, PutCacheInv,
       StoreKeyInv, IncrKeyInv, FinishInv DEF ThreadStep
  <1>2. ASSUME NEW k \in Keys, DropStored(k)
        PROVE  MemClientInv'
    <2>1. /\ store' \in [Keys -> Entries]
          /\ \A j \in Keys : store'[j] = store[j] \/ store'[j] = Absent
      BY <1>2 DEF DropStored, MemClientInv, TypeOK, Entries
    <2>2. cache \in [Keys -> IF cache_ THEN Entries ELSE {Absent}] /\ cache' = cache
      BY <1>2 DEF DropStored, MemClientInv, TypeOK
    <2> QED
      BY <1>2, <2>1, <2>2, DropInv DEF DropStored, threadVars, history
  <1>3. ASSUME NEW k \in Keys, DropCached(k)
        PROVE  MemClientInv'
    <2>1. /\ cache' \in [Keys -> IF cache_ THEN Entries ELSE {Absent}]
          /\ \A j \in Keys : cache'[j] = cache[j] \/ cache'[j] = Absent
      BY <1>3 DEF DropCached, MemClientInv, TypeOK, Entries
    <2>2. store \in [Keys -> Entries] /\ store' = store
      BY <1>3 DEF DropCached, MemClientInv, TypeOK
    <2> QED
      BY <1>3, <2>1, <2>2, DropInv DEF DropCached, threadVars, history
  <1>4. CASE UNCHANGED vars
    <2>1. /\ UNCHANGED <<cache_, cache, store, next_cas, overlapped, tainted>>
          /\ UNCHANGED <<op, todo, step, missing, answers, seen>>
      BY <1>4 DEF vars, sharedVars, threadVars, history
    <2>2. /\ store \in [Keys -> Entries]
          /\ cache \in [Keys -> IF cache_ THEN Entries ELSE {Absent}]
      BY DEF MemClientInv, TypeOK
    <2> QED
      BY <2>1, <2>2, DropInv
  <1> QED
    BY <1>1, <1>2, <1>3, <1>4 DEF Next

\* Every state of the workers that share a cache satisfies MemClientInv.
THEOREM MemClientInvariant == Spec => []MemClientInv
  BY InitInv, NextInv, PTL DEF Spec

\* A value that the cache serves after the last operation on its key differs
\* from that of the servers only if the key is tainted: GetKeys and SetKeys, on
\* their own and however they are interleaved on different keys, never leave a
\* stale value behind.
THEOREM NoOtherStaleValue == Spec => []StaleOnlyIfTainted
  <1>1. MemClientInv => StaleOnlyIfTainted
    <2> SUFFICES ASSUME MemClientInv, NEW k \in Keys \ tainted,
                        cache[k] # Absent, store[k] # Absent,
                        \A t \in Threads : Running(t) => k \notin Range(op[t].keys)
                 PROVE  cache[k].val = store[k].val
      BY DEF StaleOnlyIfTainted
    <2>1. \A t \in Threads : k \notin Range(op[t].keys)
      BY OpType DEF Running, MemClientInv
    <2>2. \A t \in Threads : ~Midway(t, k)
      BY <2>1, MidwayKey
    <2> QED
      BY <2>2 DEF MemClientInv, AgreeInv, SameValue
  <1> QED
    BY <1>1, MemClientInvariant, PTL

\* Without a cache, the step of SetKeys that sends a cas replaces the value that
\* the client had read, and no other.
LEMMA CasReplaces ==
  ASSUME MemClientInv, Next, ~cache_
  PROVE  CasStep
  <1> SUFFICES ASSUME NEW t \in Threads, op[t].type = "cas", store' # store, step'[t] # step[t]
               PROVE  LET k == op[t].keys[1]
                      IN  store[k] # Absent /\ store[k].val = seen[t][k].val
    BY DEF CasStep
  <1> USE DEF sharedVars, threadVars, history
  <1>1. StoreKey(t)
    <2>1. PICK u \in Threads : PutCache(u) \/ StoreKey(u)
      BY ZenonT(30) DEF Next, ThreadStep, Begin, Lookup, Answer, FetchResult, IncrKey, Finish,
             DropStored, DropCached
    <2>2. StoreKey(u)
      BY <2>1 DEF PutCache
    <2>3. u = t
      BY <2>2 DEF StoreKey, MemClientInv, TypeOK
    <2> QED
      BY <2>2, <2>3
  <1>2. PICK k \in Keys : k = op[t].keys[1] /\ k = Head(todo[t])
    <2>1. Head(todo[t]) \in Keys /\ Head(todo[t]) \in Range(op[t].keys)
      BY <1>1, KeyInHand DEF StoreKey, OnKey
    <2>2. op[t].keys \in Seq(Keys) /\ Len(op[t].keys) = 1
      BY OpType DEF MemClientInv
    <2>3. Range(op[t].keys) = {op[t].keys[1]}
      BY <2>2 DEF Range
    <2> QED
      BY <2>1, <2>3
  <1>3. seen[t][k] # Absent
    BY <1>2, ZenonT(30) DEF MemClientInv, RunInv, RunFits
  <1>4. seen[t][k] \in Copies(k) /\ (store[k] # Absent => store[k] \in Copies(k))
    BY <1>3 DEF Copies
  <1>5. Token(t) = seen[t][k].cas /\ Token(t) > 0
    <2>1. seen[t][k].cas \in 1..(next_cas - 1)
      BY <1>4 DEF MemClientInv, CasInv
    <2>2. next_cas \in Nat
      BY DEF MemClientInv, TypeOK
    <2> QED
      BY <1>2, <2>1, <2>2 DEF Token
  <1>6. Accepts(t, k)
    BY <1>1, <1>2 DEF StoreKey
  <1>7. store[k] # Absent /\ store[k].cas = seen[t][k].cas
    BY <1>5, <1>6 DEF Accepts
  <1> QED
    BY <1>2, <1>4, <1>7 DEF MemClientInv, CasInv

\* Without a cache, check-and-set through the router loses no update.
THEOREM CasKeepsUpdates == Spec => CasLosesNothing
  <1>1. MemClientInv /\ [Next]_vars => [~cache_ => CasStep]_vars
    BY CasReplaces
  <1> QED
    BY <1>1, MemClientInvariant, PTL DEF Spec, CasLosesNothing
=============================================================================
