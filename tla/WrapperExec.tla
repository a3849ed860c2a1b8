---------------------------- MODULE WrapperExec ----------------------------
(***************************************************************************)
(* What the instructions of generated wrappers do.  x = [h, f] is a heap   *)
(* and the frame of the running wrapper:                                   *)
(*   call, code, stack   the wrapper's specification, the instructions     *)
(*                       left, and those of the callers (overloading)      *)
(*   loc                 C variables                                       *)
(*   args, orig          Python values to parse; the integers parsed       *)
(*   exc                 an exception is pending                           *)
(*   lock, lock0         interpreter lock held; held when called           *)
(*   saved, state        py_thread_state set; PyGILState_Ensure was called *)
(*   threads             PyEval_ThreadsInitialized()                       *)
(*   held                references Python's caller has on the arguments   *)
(*   result, items       py_retval is set; the wrappers it refers to       *)
(*   temps               temporary objects and buffers not yet released    *)
(*   fetched             exceptions handed to an overload dispatcher       *)
(*   entry               the dispatcher's own C variables                  *)
(*   fresh, wrapped      tp_init runs on a new wrapper; the object a       *)
(*                       virtual method is given has a wrapper already     *)
(*   this                the C++ object a virtual method is called on      *)
(*   st, out             idle, run, done or fault; what was returned       *)
(*   ncpp, seen          C++ calls made; integers that crossed, as pairs   *)
(*                       <<Python's value, C's value>>                     *)
(* A C variable holds <<"w", wrapper>>, <<"c", object>>, <<"int", value>>  *)
(* or, with 0, one of: "null", "none" (None), "tok" (any other good value  *)
(* of the expected type), "src" (of a type that converts implicitly),      *)
(* "other" (of a wrong type).                                              *)
(***************************************************************************)
EXTENDS WrapperHeap

Null  == <<"null", 0>>
None  == <<"none", 0>>
Tok   == <<"tok", 0>>
Src   == <<"src", 0>>
Other == <<"other", 0>>

var(x, v)      == IF v \in DOMAIN x.f.loc THEN x.f.loc[v] ELSE Null
set(x, v, val) == [x EXCEPT !.f.loc = (v :> val) @@ @]
bad(x, what)   == [x EXCEPT !.h = fault(@, what)]

\* The wrapper's object, in a C variable.
obj_of(x, val) == IF val[1] = "w" /\ x.h.py[val[2]].obj # 0 THEN <<"c", x.h.py[val[2]].obj>> ELSE Null

\* A dereferenced pointer must point to a live object; a wrapper that does not
\* own its object cannot know ("dangling").
dereference(x, val) ==
    IF val[1] # "c" THEN bad(x, "null object")
    ELSE IF x.h.cpp[val[2]].live THEN x
    ELSE IF \E w \in Py : x.h.py[w].obj = val[2] /\ x.h.py[w].own THEN bad(x, "dead object")
    ELSE bad(x, "dangling")

take(x, val) == IF val[1] = "w" THEN [x EXCEPT !.h = incref(@, val[2])]
                ELSE IF val[1] = "tok" THEN [x EXCEPT !.f.temps = @ + 1] ELSE x
drop(k, x, val) ==
    CASE val[1] = "w"    -> [x EXCEPT !.h = decref(k, @, val[2])]
      [] val[1] = "tok"  -> [x EXCEPT !.f.temps = @ - 1]
      [] val[1] = "null" -> bad(x, "released NULL")
      [] OTHER           -> x
drop_items(k, x) ==
    FoldLeft(LAMBDA acc, w : [acc EXCEPT !.h = decref(k, @, w)], [x EXCEPT !.f.items = <<>>, !.f.result = FALSE], x.f.items)

(***************************************************************************)
(* PyArg_ParseTuple (CPython): items are assigned in order until one does  *)
(* not fit; a missing optional item is left alone.                         *)
(***************************************************************************)
fits(x, fmt, val) ==
    CASE fmt \in DOMAIN IntFormat -> val[1] = "int" /\ ParsesInt(fmt, val[2])
      [] fmt = "O"                -> TRUE
      [] fmt = "O!"               -> val[1] = "w" /\ x.h.py[val[2]].kind = "obj"
      [] OTHER                    -> val[1] = "tok"

parsed_value(fmt, val) ==
    IF fmt \in DOMAIN IntFormat THEN <<"int", ToC(IntFormat[fmt].width, IntFormat[fmt].signed, val[2])>> ELSE val

assign_item(x, item, val) ==
    LET y == set(x, item.var, parsed_value(item.fmt, val))
        z == IF item.fmt = "et" THEN [y EXCEPT !.f.temps = @ + 1] ELSE y
    IN  IF val[1] = "int" THEN [z EXCEPT !.f.orig = (item.var :> val[2]) @@ @] ELSE z

parses(x, items) ==
    /\ Len(x.f.args) <= Len(items)
    /\ \A i \in DOMAIN items : i > Len(x.f.args) => items[i].optional
    /\ \A i \in DOMAIN x.f.args : fits(x, items[i].fmt, x.f.args[i])

parse(x, items) ==
    IF ~parses(x, items) THEN [x EXCEPT !.f.exc = TRUE]
    ELSE FoldLeft(LAMBDA acc, i : assign_item(acc, items[i], x.f.args[i]), x, [i \in DOMAIN x.f.args |-> i])

(***************************************************************************)
(* Conditions: the values a condition can have.                            *)
(***************************************************************************)
Values(x, cond) ==
    CASE cond[1] = "outside"  -> {var(x, cond[2])[1] = "int"
                                    /\ (var(x, cond[2])[2] < cond[3] \/ var(x, cond[2])[2] > cond[4])}
      [] cond[1] = "bad"      -> {var(x, cond[2])[1] = "other"}
      [] cond[1] = "null"     -> {var(x, cond[2])[1] = "null"}
      [] cond[1] = "nullptr"  -> {var(x, cond[2])[1] = "null"}
      [] cond[1] = "instance" -> {var(x, cond[2])[1] = "w"}
      [] cond[1] = "source"   -> {var(x, cond[2])[1] = "src"}
      [] cond[1] = "not_instance_or_none" -> {var(x, cond[2])[1] \notin {"w", "none", "null"}}
      [] cond[1] = "refcnt1"  -> {x.h.py[var(x, cond[2])[2]].ref = 1}
      [] cond[1] = "is_helper" -> {var(x, cond[2])[1] = "c" /\ x.h.cpp[var(x, cond[2])[2]].helper}
      [] cond[1] = "not_helper" -> {~(obj_of(x, var(x, "self"))[1] = "c" /\ x.h.cpp[obj_of(x, var(x, "self"))[2]].helper)}
      [] cond[1] = "python_subclass" -> {x.h.py[var(x, cond[2])[2]].sub}
      [] cond[1] = "no_exception" -> {cond[2] \notin x.f.fetched}
      [] cond[1] = "parse"    -> {~parses(x, cond[2])}
      [] cond[1] = "no_override" -> {var(x, "py_method")[1] = "null"}
      [] cond[1] = "result_not_none" -> {x.f.args # <<None>>}
      [] OTHER                -> BOOLEAN            \* "nondet", "warning_raises"

\* Evaluating a condition may have effects.
after_condition(x, cond, value) ==
    CASE cond[1] = "parse" -> parse(x, cond[2])
      [] cond[1] = "warning_raises" -> [x EXCEPT !.f.exc = @ \/ value]
      [] OTHER -> x

(***************************************************************************)
(* Py_BuildValue: "N" hands a reference over, "O" takes one, "n" and the   *)
(* other formats make a new object.                                        *)
(***************************************************************************)
build_item(k, x, item) ==
    LET val == var(x, item.var)
    IN  CASE item.fmt \in {"N", "O"} /\ val[1] = "w" ->
               LET y == IF item.fmt = "O" THEN take(x, val) ELSE x
               IN  [y EXCEPT !.f.items = Append(@, val[2])]
          [] item.fmt = "N" /\ val[1] = "tok" -> [x EXCEPT !.f.temps = @ - 1]
          [] OTHER -> x
build(k, x, items) ==
    FoldLeft(LAMBDA acc, i : build_item(k, acc, i), [x EXCEPT !.f.result = TRUE, !.f.items = <<>>], items)

add_ward(k, x, wards, c, d) ==
    IF c[1] # "w" THEN bad(x, "null object")
    ELSE IF ~k.gc THEN [set(x, wards, Tok) EXCEPT !.f.temps = @ + 1, !.f.exc = TRUE]
    ELSE LET y == [set(x, wards, Tok) EXCEPT !.f.temps = @ + 1]
         IN  IF d[1] # "w" \/ d[2] \in y.h.py[c[2]].wards THEN y
             ELSE [take(y, d) EXCEPT !.h.py[c[2]].wards = @ \cup {d[2]}]

(***************************************************************************)
(* Instructions with one outcome.                                          *)
(***************************************************************************)
WithoutLock == {"call", "save", "restore", "ensure", "release", "return", "if", "check", "null", "getobj",
                "enter", "assign", "copy", "deref", "parent_call", "create_self", "flags", "alloc", "free", "fatal"}

py_of(x, v) == var(x, v)[2]

return(x, what) ==
    LET out == IF what = "retval" THEN x.f.out ELSE what
    IN  IF x.f.stack = <<>> THEN [x EXCEPT !.f.out = out, !.f.st = "done", !.f.code = <<>>]
        ELSE [x EXCEPT !.f.out = out, !.f.code = Head(x.f.stack), !.f.stack = Tail(@), !.f.loc = x.f.entry]

\* write_create_instance into a wrapper.
create(x, w, helper) ==
    IF FreeCpp(x.h) = {} THEN [x EXCEPT !.h.full = TRUE]
    ELSE [x EXCEPT !.h = [new_cpp(@, 0, helper) EXCEPT !.py[w].obj = nextCpp(x.h)]]

new_wrapper(k, x, v) ==
    IF FreePy(x.h) = {} THEN [x EXCEPT !.h.full = TRUE]
    ELSE set([x EXCEPT !.h = new_py(@, "obj", FALSE, FALSE)], v, <<"w", nextPy(x.h)>>)

new_iterator(x, v, self) ==
    IF FreePy(x.h) = {} THEN [x EXCEPT !.h.full = TRUE]
    ELSE LET w == nextPy(x.h)
         IN  set([x EXCEPT !.h = [incref(new_py(@, "iter", FALSE, FALSE), self) EXCEPT !.py[w].wards = {self}]],
                 v, <<"w", w>>)

lookup(x, v, val) ==
    LET w == x.h.reg[val[2]]
    IN  IF w = 0 THEN set(x, v, Null) ELSE take(set(x, v, <<"w", w>>), <<"w", w>>)

set_object(x, v, val) ==
    IF var(x, v)[1] # "w" THEN bad(x, "not a wrapper")
    ELSE [x EXCEPT !.h.py[py_of(x, v)].obj = IF val[1] = "c" THEN val[2] ELSE 0]

count_reference(x, val) ==
    LET y == dereference(x, val)
    IN  IF val[1] = "c" THEN [y EXCEPT !.h.cpp[val[2]].refs = @ + 1] ELSE y

\* The C++ implementation of a virtual method keeps what it is given.
parent_implementation(x) ==
    LET given == {x.f.call.params[i].name : i \in {j \in DOMAIN x.f.call.params : x.f.call.params[j].own}}
        kept(c) == \E v \in given : var(x, v) = <<"c", c>>
    IN  IF ~x.h.cpp[x.f.this].live THEN bad(x, "dead object")
        ELSE [x EXCEPT !.f.ncpp = @ + 1,
                       !.f.temps = @ - Cardinality({v \in given : var(x, v) = Tok}),
                       !.h.cpp = [c \in Cpp |-> IF kept(c) THEN [@[c] EXCEPT !.held = @ + 1] ELSE @[c]]]

\* PyErr_Print and a fatal error need the lock too; the frame ends there.
exec(k, x, i) ==
    CASE i[1] = "null"       -> set(x, i[2], Null)
      [] i[1] = "new"        -> new_wrapper(k, x, i[2])
      [] i[1] = "new_iter"   -> new_iterator(x, i[2], py_of(x, i[3]))
      [] i[1] = "container"  -> set(x, i[2], <<"w", CHOOSE w \in x.h.py[py_of(x, i[3])].wards : TRUE>>)
      [] i[1] = "create"     -> create(IF var(x, i[3])[1] = "c" THEN dereference(x, var(x, i[3])) ELSE x, py_of(x, i[2]), FALSE)
      [] i[1] = "create_self" -> create(x, py_of(x, "self"), i[2])
      [] i[1] = "create_result" ->
           IF FreeCpp(x.h) = {} THEN [x EXCEPT !.h.full = TRUE]
           ELSE set([x EXCEPT !.h = new_cpp(@, 0, FALSE)], i[2], <<"c", nextCpp(x.h)>>)
      [] i[1] = "set_pyobj"  -> [x EXCEPT !.h = set_pyobj(k, @, x.h.py[py_of(x, "self")].obj, py_of(x, "self"))]
      [] i[1] = "flags"      -> [x EXCEPT !.h.py[py_of(x, i[2])].own = i[3]]
      [] i[1] = "register"   -> [x EXCEPT !.h = register(k, @, py_of(x, i[2]))]
      [] i[1] = "unregister" -> IF var(x, i[2])[1] = "w" THEN [x EXCEPT !.h = unregister(k, @, py_of(x, i[2]))]
                                ELSE bad(x, "not a wrapper")
      [] i[1] = "lookup"     -> lookup(x, i[2], var(x, i[3]))
      [] i[1] = "setobj"     -> set_object(x, i[2], var(x, i[3]))
      [] i[1] = "clearobj"   -> set_object(x, i[2], Null)
      [] i[1] = "getobj"     -> set(x, i[2], obj_of(x, var(x, i[3])))
      [] i[1] = "deref"      -> set(dereference(x, obj_of(x, var(x, i[3]))), i[2], Tok)
      [] i[1] = "obj_incref" -> IF var(x, i[2])[1] = "w" THEN count_reference(x, obj_of(x, var(x, i[2])))
                                ELSE bad(x, "not a wrapper")
      [] i[1] = "ptr_incref" -> count_reference(x, var(x, i[2]))
      [] i[1] = "ptr_decref" -> [x EXCEPT !.h = unref(k, @, var(x, i[2])[2])]
      [] i[1] = "pyself"     -> set(x, i[2], <<"w", x.h.cpp[var(x, i[3])[2]].self>>)
      [] i[1] = "incref"     -> take(x, var(x, i[2]))
      [] i[1] = "decref"     -> drop(k, x, var(x, i[2]))
      [] i[1] = "xdecref"    -> IF var(x, i[2])[1] = "null" THEN x ELSE drop(k, x, var(x, i[2]))
      [] i[1] \in {"newref", "alloc"} -> [set(x, i[2], Tok) EXCEPT !.f.temps = @ + 1]
      [] i[1] = "free"       -> [x EXCEPT !.f.temps = @ - 1]
      [] i[1] \in {"assign", "copy"} ->
           LET y == set(x, i[2], var(x, i[3]))
           IN  IF i[3] \in DOMAIN x.f.orig THEN [y EXCEPT !.f.orig = (i[2] :> x.f.orig[i[3]]) @@ @] ELSE y
      [] i[1] = "convert"    -> [x EXCEPT !.f.exc = @ \/ var(x, i[2])[1] = "other"]
      [] i[1] = "addward"    -> add_ward(k, x, i[2], var(x, i[3]), var(x, i[4]))
      [] i[1] = "raise"      -> [x EXCEPT !.f.exc = TRUE]
      [] i[1] = "print"      -> [x EXCEPT !.f.exc = FALSE]
      [] i[1] = "fatal"      -> [x EXCEPT !.f.out = "abort", !.f.st = "done", !.f.code = <<>>]
      [] i[1] = "save"       -> IF x.f.threads THEN [x EXCEPT !.f.lock = FALSE, !.f.saved = TRUE] ELSE x
      [] i[1] = "restore"    -> x
      [] i[1] = "ensure"     -> IF x.f.threads THEN [x EXCEPT !.f.lock = TRUE, !.f.state = TRUE] ELSE x
      [] i[1] = "release"    -> IF ~x.f.threads THEN x
                                ELSE IF ~x.f.state THEN bad(x, "lock state")
                                ELSE [x EXCEPT !.f.lock = x.f.lock0, !.f.state = FALSE]
      [] i[1] = "build"      -> build(k, x, i[2])
      [] i[1] = "pack_value" -> FoldLeft(LAMBDA acc, v : IF v[1] # "w" THEN acc
                                                          ELSE [take(acc, v) EXCEPT !.f.items = Append(@, v[2])],
                                         [x EXCEPT !.f.result = TRUE], x.f.args)
      [] i[1] = "drop_result" -> IF x.f.result THEN drop_items(k, x) ELSE bad(x, "released NULL")
      [] i[1] = "push_self"  -> [set(x, "self_obj_before", obj_of(x, var(x, "m_pyself")))
                                     EXCEPT !.h.py[py_of(x, "m_pyself")].obj = x.f.this]
      [] i[1] = "pop_self"   -> set_object(x, "m_pyself", var(x, "self_obj_before"))
      [] i[1] = "parent_call" -> parent_implementation(x)
      [] i[1] = "enter"      -> [x EXCEPT !.f.stack = <<x.f.code>> \o @, !.f.code = i[2], !.f.entry = x.f.loc]
      [] i[1] = "fetch"      -> [x EXCEPT !.f.exc = FALSE, !.f.fetched = IF x.f.exc THEN @ \cup {i[2]} ELSE @,
                                          !.f.temps = IF x.f.exc THEN @ + 1 ELSE @]
      [] i[1] = "drop_exception" -> [x EXCEPT !.f.temps = @ - 1]
      [] i[1] = "return"     -> return(x, i[2])
=============================================================================
