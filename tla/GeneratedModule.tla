-------------------------- MODULE GeneratedModule --------------------------
(***************************************************************************)
(* A generated extension module at work: Python code calls its wrappers,   *)
(* C++ code calls the proxies of virtual methods, references are dropped   *)
(* in between (and by other threads while a wrapper has released the       *)
(* interpreter lock), and the garbage collector runs.  The class the       *)
(* module wraps is one of Classes; Methods are the wrappers generated for  *)
(* each, with their specification and their code.                          *)
(***************************************************************************)
EXTENDS WrapperExec

CONSTANTS Classes,      \* class records (see ClassHandlers)
          Methods,      \* the wrappers, as [class, spec, code]
          MaxCalls      \* bound: calls of a behaviour

VARIABLES class, heap, frame, calls
vars == <<class, heap, frame, calls>>

Idle(threads) ==
    [st |-> "idle", call |-> [kind |-> "none"], code |-> <<>>, stack |-> <<>>, loc |-> [v \in {} |-> Null],
     entry |-> [v \in {} |-> Null], args |-> <<>>, orig |-> [v \in {} |-> 0], exc |-> FALSE, lock |-> TRUE,
     lock0 |-> TRUE, fresh |-> FALSE, wrapped |-> FALSE, saved |-> FALSE, state |-> FALSE, threads |-> threads,
     held |-> <<>>, this |-> 0, result |-> FALSE, items |-> <<>>, temps |-> 0, fetched |-> {}, ncpp |-> 0, seen |-> {}, out |-> ""]

Init ==
    /\ class \in Classes
    /\ heap = EmptyHeap
    /\ frame = Idle(FALSE)
    /\ calls = 0

\* The generator each kind of wrapper comes from.
generate(k, s) ==
    CASE s.kind = "function"      -> Function_generate(k, s, return_null)
      [] s.kind = "method"        -> CppMethod_generate(k, s, return_null)
      [] s.kind = "overload"      -> OverloadedWrapper_generate(k, s.delegates)
      [] s.kind = "ctor"          -> CppConstructor_generate(k, s, return_null)
      [] s.kind = "function_ctor" -> CppFunctionAsConstructor_generate(k, s)
      [] s.kind = "no_ctor"       -> CppNoConstructor_generate(k, s)
      [] s.kind = "parent_caller" -> CppVirtualMethodParentCaller_generate(k, s, return_null)
      [] s.kind = "getter"        -> CppInstanceAttributeGetter_generate(k, s)
      [] s.kind = "static_getter" -> CppStaticAttributeGetter_generate(k, s)
      [] s.kind = "setter"        -> CppInstanceAttributeSetter_generate(k, s)
      [] s.kind = "static_setter" -> CppStaticAttributeSetter_generate(k, s)
      [] s.kind = "py2c"          -> PythonToCConverter_generate(k, s)
      [] s.kind = "c2py"          -> CToPythonConverter_generate(k, s)
      [] s.kind = "iter"          -> tp_iter
      [] s.kind = "iternext"      -> IterNextWrapper_generate(k, s)
      [] s.kind = "copy"          -> _generate_copy_method(k)
      [] s.kind = "proxy"         -> CppVirtualMethodProxy_generate(k, s)

\* The module was built by the generators, before anything runs.
ASSUME MethodsAssumption ==
    \A g \in Methods : g.class \in Classes /\ g.code = generate(g.class, g.spec)

IsReverse(s)    == s.kind = "proxy"
OnInstance(s)   == s.kind \in {"method", "parent_caller", "getter", "setter", "iter", "copy"}
Constructor(s)  == s.kind \in {"ctor", "function_ctor", "no_ctor"} \/ (s.kind = "overload" /\ s.delegates[1].kind = "ctor")

(***************************************************************************)
(* Python values to parse: boundary integers, the wrappers Python has, and *)
(* values of a wrong type.                                                 *)
(***************************************************************************)
Integers_ ==
    UNION {LET edge == {MinOf(n, TRUE), MaxOf(n, TRUE), MaxOf(n, FALSE)}
           IN  edge \cup {e - 1 : e \in edge} \cup {e + 1 : e \in edge} :
           n \in {CharBits, ShortBits, IntBits, LongBits}} \cup {0}

Candidates(k, h, fmt) ==
    CASE fmt \in DOMAIN IntFormat -> {<<"int", v>> : v \in Integers_} \cup {Other}
      [] fmt = "O!" -> {<<"w", w>> : w \in h.env} \cup {None}
      [] fmt = "O"  -> {<<"w", w>> : w \in h.env} \cup {None, Other} \cup (IF k.conv THEN {Src} ELSE {})
      [] OTHER      -> {Tok, Other}

RECURSIVE Tuples(_, _, _)
Tuples(k, h, items) ==
    IF items = <<>> THEN {<<>>}
    ELSE (IF Head(items).optional THEN {<<>>} ELSE {})
         \cup {<<v>> \o t : v \in Candidates(k, h, Head(items).fmt), t \in Tuples(k, h, Tail(items))}

ParsedItems(code) == {code[i][2][2] : i \in {j \in DOMAIN code : code[j][1] = "check" /\ code[j][2][1] = "parse"}}

\* The argument tuples tried on a wrapper: those that fit one of its parses.
Arguments(k, h, code) ==
    LET bodies == {code} \cup {code[i][2] : i \in {j \in DOMAIN code : code[j][1] = "enter"}}
        items  == UNION {ParsedItems(b) : b \in bodies}
    IN  IF items = {} THEN {<<>>} ELSE UNION {Tuples(k, h, t) : t \in items}

(***************************************************************************)
(* Instructions with several outcomes.                                     *)
(***************************************************************************)
\* Arguments of a C++ call; keep: C++ keeps what it was given.
pass_argument(k, x, a, keep) ==
    LET val == var(x, a[2])
        y   == IF a[2] \notin DOMAIN x.f.orig \/ a[3] = 0 THEN x
               ELSE [x EXCEPT !.f.seen = @ \cup {<<x.f.orig[a[2]], ToC(a[3], a[4], val[2])>>}]
    IN  CASE a[1] = "val"     -> y
          [] a[1] = "deref"   -> dereference(x, obj_of(x, val))
          [] a[1] = "ptr"     -> IF val = Null THEN x ELSE dereference(x, val)
          [] a[1] = "giveptr" -> IF val = Null THEN x
                                 ELSE LET z == dereference(x, val)
                                      IN  IF z.h.bad # {} THEN z
                                          ELSE IF keep THEN [z EXCEPT !.h.cpp[val[2]].held = @ + 1]
                                          ELSE [z EXCEPT !.h = IF k.policy = "rc" THEN unref(k, @, val[2])
                                                               ELSE destroy(k, @, val[2])]
          [] a[1] \in {"give", "giveref"} -> IF val = Null THEN x ELSE drop(k, x, val)

pass_arguments(k, x, args, keep) ==
    FoldLeft(LAMBDA acc, a : IF acc.h.bad # {} THEN acc ELSE pass_argument(k, acc, a, keep), x, args)

\* What the C++ function may return.
Shared(r) == r.h = "CppClassPtrReturnValue" \/ (r.h = "CppClassRefReturnValue" /\ (r.own \/ r.existing))

Returned(k, x, r) ==
    LET live == {c \in Cpp : x.h.cpp[c].live}
        new  == IF FreeCpp(x.h) = {} THEN {}
                ELSE {set([x EXCEPT !.h = new_cpp(@, IF r.own THEN 0 ELSE 1, FALSE)], "retval", <<"c", nextCpp(x.h)>>)}
        null == IF r.h = "CppClassPtrReturnValue" THEN {set(x, "retval", Null)} ELSE {}
    IN  IF r.h \in {"", "VoidReturn"} THEN {x}
        ELSE IF ~Shared(r)
        THEN {LET y == set(x, "retval", Tok)
              IN  IF r.h = "PyObjectReturnValue" /\ r.own THEN [y EXCEPT !.f.temps = @ + 1] ELSE y}
        ELSE IF ~r.own THEN new \cup null \cup {set(x, "retval", <<"c", c>>) : c \in live}
        ELSE new \cup null \cup {set([x EXCEPT !.h.cpp[c].held = @ - 1], "retval", <<"c", c>>) :
                                    c \in {d \in live : x.h.cpp[d].held > 0}}

CppCall(k, x, i) ==
    LET y == [x EXCEPT !.f.ncpp = @ + 1]
        returns == UNION {LET z == pass_arguments(k, y, i[2], keep)
                          IN  IF z.h.bad # {} THEN {z} ELSE Returned(k, z, x.f.call.ret) : keep \in BOOLEAN}
    IN  returns \cup (IF i[3] = <<>> THEN {} ELSE {[y EXCEPT !.f.code = i[3]]})

\* Python code called from C++: it may keep an argument, forget a wrapper it
\* had and start the first thread; it raises, or returns a value.
PythonCall(k, x, i) ==
    LET y == build(k, x, i[2])
        given == {y.f.items[j] : j \in DOMAIN y.f.items}
        keeping(z, w) == IF w \in z.h.env THEN z ELSE [z EXCEPT !.h = [incref(@, w) EXCEPT !.env = @ \cup {w}]]
        forget(z, w) == [z EXCEPT !.h = decref(k, [@ EXCEPT !.env = @ \ {w}], w)]
        kept == {y} \cup {keeping(y, w) : w \in given} \cup {forget(y, w) : w \in y.h.env}
                    \cup (IF x.f.call.params = <<>> THEN {[y EXCEPT !.f.threads = TRUE]} ELSE {})
        done == {drop_items(k, z) : z \in kept}
        raised(z) == set([z EXCEPT !.f.exc = TRUE], "py_retval", Null)
        items == ParsedItems(x.f.code)
        results(z) == IF items = {} THEN {<<None>>, <<Other>>} ELSE UNION {Tuples(k, z.h, t) : t \in items}
        gives(z, t) == FoldLeft(LAMBDA acc, v : IF v[1] # "w" THEN acc
                                                ELSE [take(acc, v) EXCEPT !.f.items = Append(@, v[2])],
                                set([z EXCEPT !.f.result = TRUE, !.f.args = t], "py_retval", Tok), t)
    IN  UNION {{raised(z)} \cup {gives(z, t) : t \in results(z)} : z \in done}

Outcomes(k, x, i) ==
    CASE i[1] = "call"    -> CppCall(k, x, i)
      [] i[1] = "pycall"  -> PythonCall(k, x, i)
      [] i[1] = "restore" -> {[x EXCEPT !.f.lock = TRUE, !.f.saved = FALSE]}
      [] i[1] = "istrue"  -> {set(x, i[2], Tok), set([x EXCEPT !.f.exc = TRUE], i[2], Tok)}
      [] i[1] = "element" -> {set(x, i[2], Tok), set(x, i[2], Other)}
      [] i[1] = "get_method" -> {set(x, "py_method", Null), take(set(x, "py_method", var(x, "m_pyself")), var(x, "m_pyself"))}
      [] i[1] = "check"   -> {LET y == after_condition(x, i[2], v) IN IF v THEN [y EXCEPT !.f.code = i[3]] ELSE y :
                                 v \in Values(x, i[2])}
      [] i[1] = "if"      -> {[x EXCEPT !.f.code = (IF v THEN i[3] ELSE i[4]) \o @] : v \in Values(x, i[2])}
      [] OTHER            -> {exec(k, x, i)}

\* Where another thread, or a choice of the environment, can come in.
Pauses(x, i) ==
    \/ i[1] \in {"call", "pycall", "istrue", "element", "get_method"}
    \/ i[1] = "restore" /\ x.f.saved
    \/ i[1] \in {"check", "if"} /\ Cardinality(Values(x, i[2])) > 1

step(k, x, i) ==
    LET y == [x EXCEPT !.f.code = Tail(@)]
    IN  IF ~x.f.lock /\ i[1] \notin WithoutLock THEN {bad(y, "no lock")} ELSE Outcomes(k, y, i)

RECURSIVE run(_, _)
run(k, x) ==
    IF x.f.st = "done" \/ x.h.bad # {} \/ x.h.full \/ Pauses(x, Head(x.f.code)) THEN x
    ELSE run(k, CHOOSE y \in step(k, x, Head(x.f.code)) : TRUE)

Commit(x) == /\ ~x.h.full
             /\ heap' = x.h
             /\ frame' = IF x.h.bad = {} THEN x.f ELSE [x.f EXCEPT !.st = "fault"]
             /\ UNCHANGED class

(***************************************************************************)
(* Python calls a wrapper.  The caller holds a reference on the instance   *)
(* and on the arguments; __init__ gets an instance tp_new made, or (called *)
(* again) one that is initialised already.                                 *)
(***************************************************************************)
begin(g, h, self, args, fresh) ==
    LET pys == SelectSeq(args, LAMBDA v : v[1] = "w")
        refs == (IF self = 0 THEN <<>> ELSE <<self>>) \o [i \in DOMAIN pys |-> pys[i][2]]
        f == [Idle(frame.threads) EXCEPT !.st = "run", !.call = g.spec, !.code = g.code, !.args = args,
                                         !.held = refs, !.fresh = fresh,
                                         !.loc = IF self = 0 THEN @ ELSE ("self" :> <<"w", self>>)]
    IN  [h |-> FoldLeft(LAMBDA acc, w : incref(acc, w), h, IF fresh THEN Tail(refs) ELSE refs), f |-> f]

Selves(s, h) ==
    IF OnInstance(s) \/ Constructor(s) THEN {w \in h.env : h.py[w].kind = "obj"}
    ELSE IF s.kind = "iternext" THEN {w \in h.env : h.py[w].kind = "iter"} ELSE {0}

Start(g) ==
    /\ frame.st = "idle" /\ calls < MaxCalls /\ g.class = class
    /\ g.spec.alone => calls = 0
    /\ ~IsReverse(g.spec)
    /\ calls' = calls + 1
    /\ \E args \in Arguments(class, heap, g.code) :
         \/ \E self \in Selves(g.spec, heap) : Commit(run(class, begin(g, heap, self, args, FALSE)))
         \/ /\ Constructor(g.spec) /\ FreePy(heap) # {}
            /\ \E sub \in (IF class.gc THEN BOOLEAN ELSE {FALSE}) :
                 Commit(run(class, begin(g, new_py(heap, "obj", sub, class.gc), nextPy(heap), args, TRUE)))

\* C++ calls a virtual method of a helper instance; from a thread that has
\* the lock, or one that does not.
OfClass(p) == p.h \in {"CppClassParameter", "CppClassRefParameter", "CppClassPtrParameter"}

bind(x, p, c) ==
    IF OfClass(p) THEN set([x EXCEPT !.h.cpp[c].held = IF p.own THEN @ - 1 ELSE @], p.name, <<"c", c>>)
    ELSE [set(x, p.name, Tok) EXCEPT !.f.temps = IF p.own THEN @ + 1 ELSE @]

StartProxy(g) ==
    /\ frame.st = "idle" /\ calls < MaxCalls /\ g.class = class
    /\ g.spec.alone => calls = 1
    /\ IsReverse(g.spec)
    /\ calls' = calls + 1
    /\ \E this, c \in Cpp, lock \in (IF frame.threads THEN BOOLEAN ELSE {TRUE}) :
          /\ heap.cpp[this].live /\ heap.cpp[this].self # 0
          /\ heap.cpp[c].live
          /\ (\E i \in DOMAIN g.spec.params : OfClass(g.spec.params[i]) /\ g.spec.params[i].own) => heap.cpp[c].held > 0
          /\ LET f == [Idle(frame.threads) EXCEPT !.st = "run", !.call = g.spec, !.code = g.code, !.this = this,
                                                 !.lock = lock, !.lock0 = lock,
                                                 !.wrapped = \/ heap.cpp[c].self # 0
                                                             \/ \E w \in Py : heap.py[w].obj = c,
                                                 !.loc = "m_pyself" :> <<"w", heap.cpp[this].self>>]
             IN  Commit(run(class, FoldLeft(LAMBDA x, p : bind(x, p, c), [h |-> heap, f |-> f], g.spec.params)))

\* The running wrapper goes on to its next pause, or to its end.
Step ==
    /\ frame.st = "run"
    /\ \E x \in step(class, [h |-> heap, f |-> frame], Head(frame.code)) : Commit(run(class, x))
    /\ UNCHANGED calls

(***************************************************************************)
(* After the return: Python takes the result, or clears the exception, and *)
(* drops the arguments.  A behaviour ends with a wrapper that left memory, *)
(* counts or the lock wrong, and with one that aborted the process.        *)
(***************************************************************************)
\* A Python object whose reference a proxy returned to C++.
HandedOver(f, w) ==
    f.call.kind = "proxy" /\ f.call.ret.h = "PyObjectReturnValue" /\ f.call.ret.own /\ var([f |-> f], "retval") = <<"w", w>>

References(h, f, w) ==
    LET in(seq) == Cardinality({i \in DOMAIN seq : seq[i] = w})
    IN  (IF w \in h.env THEN 1 ELSE 0) + Cardinality({v \in Py : w \in h.py[v].wards})
        + Cardinality({c \in Cpp : h.cpp[c].self = w}) + in(f.held) + (IF f.out = "obj" THEN in(f.items) ELSE 0)
        + (IF HandedOver(f, w) THEN 1 ELSE 0)

CountsRight(h, f) ==
    /\ f.temps = 0
    /\ \A w \in Py : h.py[w].ref = References(h, f, w)

give_back(k, h, w) == IF w \in h.env THEN decref(k, h, w) ELSE [h EXCEPT !.env = @ \cup {w}]

InFlight(f, c) ==
    /\ f.st = "done" /\ IsReverse(f.call) /\ f.call.ret.own
    /\ "retval" \in DOMAIN f.loc /\ f.loc["retval"] = <<"c", c>> /\ f.out = "ok"

OwnersRight(h, f) ==
    LET owner(w) == h.py[w].obj # 0 /\ (class.policy # "none" \/ h.py[w].own)
        owners(c) == Cardinality({w \in Py : owner(w) /\ h.py[w].obj = c}) + h.cpp[c].held
                     + (IF InFlight(f, c) THEN 1 ELSE 0)
    IN  /\ \A w \in Py : owner(w) => h.cpp[h.py[w].obj].live
        /\ \A c \in {d \in Cpp : h.cpp[d].live} : owners(c) = IF class.policy = "rc" THEN h.cpp[c].refs ELSE 1

RegistryRight(h) ==
    \A c \in Cpp : h.reg[c] # 0 => h.py[h.reg[c]].kind = "obj" /\ h.py[h.reg[c]].obj = c

Finish ==
    /\ frame.st = "done" /\ CountsRight(heap, frame) /\ OwnersRight(heap, frame) /\ RegistryRight(heap)
    /\ frame.lock = frame.lock0 /\ frame.out # "abort"
    /\ LET taken == IF frame.out = "obj"
                    THEN FoldLeft(LAMBDA acc, w : give_back(class, acc, w), heap, frame.items)
                    ELSE IF frame.fresh /\ frame.out = "ok" THEN incref([heap EXCEPT !.env = @ \cup {frame.held[1]}], frame.held[1])
                    ELSE heap
           h == FoldLeft(LAMBDA acc, w : decref(class, acc, w), taken,
                         frame.held \o SetToSeq({w \in Py : HandedOver(frame, w)}))
       IN  /\ heap' = [h EXCEPT !.cpp = [c \in Cpp |-> IF InFlight(frame, c) THEN [h.cpp[c] EXCEPT !.held = @ + 1]
                                                      ELSE h.cpp[c]]]
           /\ frame' = [Idle(frame.threads) EXCEPT !.st = IF h.bad = {} THEN "idle" ELSE "fault"]
    /\ UNCHANGED <<class, calls>>

(***************************************************************************)
(* What goes on between calls, or while the lock is released.              *)
(***************************************************************************)
Interruptible == frame.st = "idle" \/ (frame.st = "run" /\ ~frame.lock /\ ~IsReverse(frame.call))

Environment(h) ==
    /\ heap' = h
    /\ frame' = IF h.bad = {} THEN frame ELSE [frame EXCEPT !.st = "fault"]
    /\ UNCHANGED <<class, calls>>

DropReference == \E w \in heap.env : /\ Interruptible
                                      /\ Environment(decref(class, [heap EXCEPT !.env = @ \ {w}], w))

Collect == \E S \in SUBSET Py : /\ Interruptible /\ Garbage(class, heap, S)
                                 /\ Environment(collect(class, heap, S))

\* C++ gives up an object: it deletes one it owns when no wrapper points to
\* it, or drops its counted reference.
CppRelease ==
    \E c \in Cpp :
      /\ frame.st = "idle" /\ heap.cpp[c].live /\ heap.cpp[c].held > 0
      /\ LET h == [heap EXCEPT !.cpp[c].held = @ - 1]
         IN  \/ class.policy = "rc" /\ Environment(unref(class, h, c))
             \/ class.policy # "rc" /\ (\A w \in Py : heap.py[w].obj # c) /\ Environment(destroy(class, h, c))

StartThreads ==
    /\ frame.st = "idle" /\ ~frame.threads
    /\ frame' = [frame EXCEPT !.threads = TRUE]
    /\ UNCHANGED <<class, heap, calls>>

Next == \/ \E g \in Methods : Start(g) \/ StartProxy(g)
        \/ Step \/ Finish \/ DropReference \/ Collect \/ CppRelease \/ StartThreads

Spec == Init /\ [][Next]_vars
-----------------------------------------------------------------------------
(***************************************************************************)
(* The corners in which generated code goes wrong, by what the wrapper at  *)
(* the end of its call was asked to do.  The properties below hold         *)
(* everywhere else; the README discusses each corner.                      *)
(***************************************************************************)
AllParams(f) ==
    UNION {{s.params[i] : i \in DOMAIN s.params} :
           s \in {f.call} \cup {f.call.delegates[i] : i \in DOMAIN f.call.delegates}}
Gives(f)        == \E p \in AllParams(f) : p.own
ReturnsSome(f, test(_)) == \E i \in DOMAIN f.items : test(f.items[i])
PythonFailed(f) == IsReverse(f.call) /\ (var([f |-> f], "py_retval") = Null \/ f.args # <<None>>)
HandlerOf(h)    == IF h \in DOMAIN PlainHandlers THEN PlainHandlers[h] ELSE VoidReturn

\* tp_init called again replaces the object without releasing the first one.
Reinitialised(f) == Constructor(f.call) /\ ~f.fresh
\* transfer_ownership of an object through a wrapper that does not own it.
GivesUnowned(f) == Gives(f) /\ \E i \in DOMAIN f.held : ~heap.py[f.held[i]].own
\* A free function is called whatever the flag says (cppclass.py:2280).
FreeIgnoresFlag(f) == class.policy = "free" /\ f.call.ret.existing
\* Ownership comes with an object that has a wrapper already, flagged NOT_OWNED.
OwnershipLost(f) ==
    /\ class.policy = "none"
    /\ \/ f.call.ret.own /\ ReturnsSome(f, LAMBDA w : ~heap.py[w].own)
       \/ IsReverse(f.call) /\ Gives(f) /\ f.wrapped
\* A helper instance that C++ owns is returned: its wrapper is its owner again.
HelperTakenBack(f) ==
    /\ class.policy = "none" /\ Shared(f.call.ret) /\ ~f.call.ret.own
    /\ ReturnsSome(f, LAMBDA w : heap.py[w].obj # 0 /\ heap.cpp[heap.py[w].obj].helper)
\* A counted reference taken for a call that throws is not given back; nor is
\* the one a virtual method is given for an object that has a wrapper.
CountLost(f) == class.policy = "rc" /\ Gives(f) /\ (IF IsReverse(f.call) THEN f.wrapped ELSE f.exc)
\* The temporary wrapper of an inout reference keeps the object on error exits.
TemporaryKept(f) ==
    PythonFailed(f) /\ \E p \in AllParams(f) : p.h = "CppClassRefParameter" /\ p.dir = "inout"
\* An inout pointer's wrapper is handed over ("N") and released as well.
PointerReleasedTwice(f) ==
    IsReverse(f.call) /\ \E p \in AllParams(f) : p.h = "CppClassPtrParameter" /\ p.dir # "in"
\* The wrapper made for an out parameter is lost when the call throws.
OutLost(f) == f.exc /\ \E p \in AllParams(f) : p.dir = "out" /\ p.h = "CppClassRefParameter"
\* Buffers parsed with "et" are never freed.
EncodedBuffer(f) ==
    \E h \in {p.h : p \in AllParams(f)} \cup {f.call.ret.h} : HandlerOf(h).parse = "et"
\* A std::string allocated for the callee, or received from the caller, is lost
\* on error exits.
StringLost(f) ==
    (f.exc \/ PythonFailed(f)) /\ \E p \in AllParams(f) : p.own /\ p.h = "StdStringPtrParam"
\* Python objects touched after PyEval_SaveThread or PyGILState_Release: the
\* catch clause, set_pyobj, the parent caller's check, a pure method's PyErr_Print.
TouchedUnlocked(f) ==
    \/ f.call.unblock /\ (f.call.throw \/ Constructor(f.call) \/ f.call.kind = "parent_caller")
    \/ f.call.kind = "proxy" /\ f.call.pure
\* Wards of a class without an inst_dict: the attribute error stays pending.
WardsWithoutDict(f) ==
    ~class.gc /\ (f.call.ret.internal \/ f.call.ret.cust # -2 \/ \E p \in AllParams(f) : p.cust # -2)
\* PyObject_IsTrue's failure is not looked at.
TruthUnchecked(f) ==
    \E h \in {p.h : p \in AllParams(f)} \cup {f.call.ret.h} : HandlerOf(h).kind \in {"bool_in", "bool_ref", "bool_ret"}
\* A reverse wrapper raises for a bad result and returns without printing it.
ResultRefused(f) ==
    IsReverse(f.call) /\ (HandlerOf(f.call.ret.h).kind = "void" \/ HandlerOf(f.call.ret.h).hi # NoBound)
\* FloatPtrParam checks the first array's element when it converts the second's.
SecondFloatArray(f) == Len(f.call.params) = 2 /\ f.call.params[2].array /\ f.call.params[2].h = "FloatPtrParam"
\* A cycle of wards through a wrapper the garbage collector was not told of.
UntrackedCycle ==
    \E S \in SUBSET Py : /\ \A w \in S : \E v \in S : w \in heap.py[v].wards
                         /\ \E w \in S : ~heap.py[w].tracked

\* On every way out of a wrapper (result, parse error, failed check, C++
\* exception, Python exception) each Python object has exactly the references
\* that something still holds, and every temporary was released once: the
\* cleanup code written by CodeBlock and the "N"/"O" formats of the type
\* handlers balance, except in the named corners.
RefsBalanced ==
    frame.st = "done" =>
        \/ CountsRight(heap, frame)
        \/ OutLost(frame) \/ EncodedBuffer(frame) \/ StringLost(frame) \/ PointerReleasedTwice(frame)

\* When Python and C++ have given up everything, every wrapper and every object
\* is gone or left to the garbage collector (tp_traverse, tp_clear), however the
\* helper instances, iterators and wards referred to each other.
NothingLeaks ==
    frame.st = "idle" /\ heap.env = {} /\ (\A c \in Cpp : heap.cpp[c].held = 0)
        => \/ heap.py = EmptyHeap.py /\ heap.cpp = EmptyHeap.cpp
           \/ \E S \in SUBSET Py : Garbage(class, heap, S)
           \/ UntrackedCycle

\* Generated code never touches a deleted object or a freed wrapper, releases
\* nothing twice and touches Python objects only with the interpreter lock,
\* whatever other threads drop while it has released the lock.  A wrapper
\* without an object, one that does not own its object, and threads started
\* during a callback are the faults the generated code has no guard against.
NoFault ==
    frame.st = "fault" => \A what \in heap.bad :
        \/ what \in {"null object", "dangling"}
        \/ what = "lock state"    /\ IsReverse(frame.call)
        \/ what = "no lock"       /\ TouchedUnlocked(frame)
        \/ what = "not a wrapper" /\ \E p \in AllParams(frame) : p.own /\ p.nullok
        \/ what = "dead wrapper"  /\ PointerReleasedTwice(frame)
        \/ what = "dead object"   /\ (TemporaryKept(frame) \/ GivesUnowned(frame))
        \/ what = "dead object"   /\ class.policy # "rc" /\ \E p \in AllParams(frame) : p.own /\ p.self

\* The way a wrapper leaves the interpreter: with the lock as it was when it was
\* called, on every way out of unblock_threads and of the PyGILState code; and
\* a forward wrapper returns NULL exactly when an exception is pending, a
\* reverse wrapper leaves none behind.
LeavesInterpreter ==
    frame.st = "done" =>
        /\ frame.lock = frame.lock0
        /\ \/ frame.exc <=> frame.out = "null"
           \/ WardsWithoutDict(frame) \/ TruthUnchecked(frame) \/ ResultRefused(frame) \/ SecondFloatArray(frame)

\* A live C++ object has exactly one owner (a wrapper not flagged NOT_OWNED, or
\* C++), a counted one as many references as its count says, and no owner
\* points to a deleted object: caller_owns_return, reference_existing_object,
\* transfer_ownership and the memory policies agree.
OwnedOnce ==
    /\ frame.st = "idle" => OwnersRight(heap, frame)
    /\ frame.st = "done" =>
        \/ OwnersRight(heap, frame)
        \/ Reinitialised(frame) \/ GivesUnowned(frame) \/ FreeIgnoresFlag(frame) \/ OwnershipLost(frame)
        \/ HelperTakenBack(frame) \/ CountLost(frame) \/ TemporaryKept(frame) \/ OutLost(frame)
        \/ PointerReleasedTwice(frame)

\* The wrapper registry never leads to a freed wrapper, nor to a wrapper of
\* another object: a lookup by address after the object died finds nothing.
RegistryLive ==
    /\ frame.st = "idle" => RegistryRight(heap)
    /\ frame.st = "done" => RegistryRight(heap) \/ Reinitialised(frame) \/ PointerReleasedTwice(frame)

\* However many overloads are tried, C++ is called once at most.
CalledOnce == frame.ncpp <= 1

(***************************************************************************)
(* Integers.                                                               *)
(***************************************************************************)
\* The integers that crossed: those passed to C++, and those stored in C++ from
\* a Python value, as <<Python's value, C's value>>.
Crossed(f) ==
    LET into(v, h) == IF v \in DOMAIN f.orig /\ f.out = "ok"
                      THEN {<<f.orig[v], ToC(h.width, h.signed, f.loc[v][2])>>} ELSE {}
    IN  f.seen \cup into("retval", HandlerOf(f.call.ret.h))
               \cup UNION {into(p.name, HandlerOf(p.h)) : p \in IF IsReverse(f.call) THEN AllParams(f) ELSE {}}

\* A format that does not check, a check with an upper bound only, Int8Return's
\* check (one off), and signed char parsed as "b" (an unsigned char).
Wraps(hn, v) ==
    LET h == PlainHandlers[hn]
    IN  \/ ~IntFormat[h.parse].check
        \/ h.lo = -NoBound /\ h.hi # NoBound /\ v < MinOf(h.width, h.signed)
        \/ hn = "Int8Return" /\ v = MaxOf(h.width, h.signed) + 1
        \/ hn \in {"Int8RefParam", "Int8PtrParam"} /\ v > MaxOf(h.width, h.signed)
Refuses(hn, v) == \/ hn = "Int8Return" /\ v = MinOf(CharBits, TRUE)
                  \/ hn \in {"Int8RefParam", "Int8PtrParam"} /\ v < 0

\* A Python integer reaches C++ with its value or raises, and one that fits the
\* C type is accepted, for every integer handler and both directions, except
\* for the handlers and values named above.
IntegersExact ==
    LET hn == IF frame.call.params = <<>> THEN frame.call.ret.h ELSE frame.call.params[1].h
        h  == PlainHandlers[hn]
    IN  frame.st = "done" /\ hn \in DOMAIN PlainHandlers /\ h.width > 0
        => /\ \A pair \in Crossed(frame) : pair[1] = pair[2] \/ Wraps(hn, pair[1])
           /\ \A v \in MinOf(h.width, h.signed)..MaxOf(h.width, h.signed) :
                 frame.out = "null" /\ frame.args = <<<<"int", v>>>> => Refuses(hn, v)
=============================================================================
