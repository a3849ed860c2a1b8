---------------------------- MODULE WrapperHeap ----------------------------
(***************************************************************************)
(* The objects generated wrappers work on: the Python wrapper objects, the *)
(* C++ objects they point to and the wrapper registry, with the generated  *)
(* tp_dealloc, tp_clear and helper-class code that run as references are   *)
(* dropped (pybindgen/cppclass.py, container.py).  A heap h is a record:   *)
(*   py[w]   a Python object: kind "free", "obj" (a class wrapper) or      *)
(*           "iter" (a container iterator), ref (its reference count), obj *)
(*           (its C++ object, 0: NULL), own (not flagged NOT_OWNED), sub   *)
(*           (instance of a Python subclass), tracked (known to the        *)
(*           garbage collector), wards (objects its inst_dict keeps alive) *)
(*   cpp[c]  a C++ object: live, refs (its own count, for counted          *)
(*           classes), held (owning references C++ code has), helper,      *)
(*           self (the helper's m_pyself)                                  *)
(*   reg[c]  the wrapper registered for the object, 0 if none              *)
(*   env     the wrappers Python code has a reference to                   *)
(*   bad     what went wrong in memory; full: a bound of the model was hit *)
(***************************************************************************)
EXTENDS Wrappers

CONSTANTS NW, NC      \* numbers of Python and of C++ objects

Py  == 1..NW
Cpp == 1..NC

NoPy  == [kind |-> "free", ref |-> 0, obj |-> 0, own |-> FALSE, sub |-> FALSE,
          tracked |-> FALSE, wards |-> {}]
NoCpp == [live |-> FALSE, refs |-> 0, held |-> 0, helper |-> FALSE, self |-> 0]

EmptyHeap == [py |-> [w \in Py |-> NoPy], cpp |-> [c \in Cpp |-> NoCpp],
              reg |-> [c \in Cpp |-> 0], env |-> {}, bad |-> {}, full |-> FALSE]

fault(h, what) == [h EXCEPT !.bad = @ \cup {what}]

\* An object of Python or of C++ takes the lowest free slot.
FreePy(h)  == {w \in Py : h.py[w].kind = "free"}
FreeCpp(h) == {c \in Cpp : ~h.cpp[c].live}
nextPy(h)  == CHOOSE w \in FreePy(h) : \A v \in FreePy(h) : w <= v
nextCpp(h) == CHOOSE c \in FreeCpp(h) : \A d \in FreeCpp(h) : c <= d

new_py(h, kind, sub, tracked) ==
    IF FreePy(h) = {} THEN [h EXCEPT !.full = TRUE]
    ELSE [h EXCEPT !.py[nextPy(h)] = [NoPy EXCEPT !.kind = kind, !.ref = 1, !.sub = sub, !.tracked = tracked]]
new_cpp(h, held, helper) ==
    IF FreeCpp(h) = {} THEN [h EXCEPT !.full = TRUE]
    ELSE [h EXCEPT !.cpp[nextCpp(h)] = [live |-> TRUE, refs |-> 1, held |-> held, helper |-> helper, self |-> 0]]

incref(h, w) == IF h.py[w].kind = "free" THEN fault(h, "dead wrapper")
                ELSE [h EXCEPT !.py[w].ref = @ + 1]

\* std::map: registering replaces, unregistering erases by the object's address.
register(k, h, w)   == IF k.reg THEN [h EXCEPT !.reg[h.py[w].obj] = w] ELSE h
unregister(k, h, w) == IF k.reg /\ h.py[w].obj # 0 THEN [h EXCEPT !.reg[h.py[w].obj] = 0] ELSE h

RECURSIVE decref(_, _, _), destroy(_, _, _), decref_all(_, _, _)

decref_all(k, h, ws) ==
    IF ws = {} THEN h
    ELSE LET w == CHOOSE v \in ws : TRUE IN decref_all(k, decref(k, h, w), ws \ {w})

unref(k, h, c) ==
    IF ~h.cpp[c].live THEN fault(h, "dead object")
    ELSE IF h.cpp[c].refs > 1 THEN [h EXCEPT !.cpp[c].refs = @ - 1]
    ELSE destroy(k, h, c)

\* _get_delete_code: a memory policy's free code does not look at the flag.
_get_delete_code(k, h, w) ==
    LET c  == h.py[w].obj
        h1 == [h EXCEPT !.py[w].obj = 0]
    IN  CASE c = 0                                   -> h
          [] c # 0 /\ k.policy = "rc"                -> unref(k, h1, c)
          [] c # 0 /\ k.policy = "free"              -> destroy(k, h1, c)
          [] c # 0 /\ k.policy = "none" /\ h.py[w].own  -> destroy(k, h1, c)
          [] c # 0 /\ k.policy = "none" /\ ~h.py[w].own -> h1

tp_clear(k, h, w) ==
    _get_delete_code(k, decref_all(k, [h EXCEPT !.py[w].wards = {}], h.py[w].wards), w)

(* Mutant: the wrapper stays in the registry when it is freed. *)
DeallocStaysRegistered(k, h, w) == [tp_clear(k, h, w) EXCEPT !.py[w] = NoPy]

\* An iterator's tp_dealloc releases the container in the same way.
tp_dealloc(k, h, w) == [tp_clear(k, unregister(k, h, w), w) EXCEPT !.py[w] = NoPy]

decref(k, h, w) ==
    IF h.py[w].ref = 0 THEN fault(h, "dead wrapper")
    ELSE LET h1 == [h EXCEPT !.py[w].ref = @ - 1]
         IN  IF h1.py[w].ref > 0 THEN h1 ELSE tp_dealloc(k, h1, w)

\* The helper class's destructor drops m_pyself.
destroy(k, h, c) ==
    IF ~h.cpp[c].live THEN fault(h, "dead object")
    ELSE LET h1 == [h EXCEPT !.cpp[c] = NoCpp]
         IN  IF h.cpp[c].self = 0 THEN h1 ELSE decref(k, h1, h.cpp[c].self)

\* The helper class's set_pyobj.
set_pyobj(k, h, c, w) ==
    LET h1 == IF h.cpp[c].self = 0 THEN h ELSE decref(k, h, h.cpp[c].self)
    IN  [incref(h1, w) EXCEPT !.cpp[c].self = w]

(***************************************************************************)
(* The garbage collector (CPython).  tp_traverse reports inst_dict, and    *)
(* the reference a helper instance holds on its own wrapper (when nothing  *)
(* else holds the counted object: peekref).  A set of tracked objects all  *)
(* of whose references it reports is garbage.                              *)
(***************************************************************************)
(* Mutant: tp_traverse does not report the helper instance's reference. *)
TraverseNoSelf(k, h, w) == FALSE

tp_traverse_self(k, h, w) ==
    LET c == h.py[w].obj
    IN  /\ k.helper /\ c # 0 /\ h.cpp[c].helper
        /\ k.policy = "rc" => h.cpp[c].refs = 1

reported(k, h, S, w) ==
    Cardinality({v \in S : w \in h.py[v].wards}) + (IF tp_traverse_self(k, h, w) THEN 1 ELSE 0)

Garbage(k, h, S) ==
    /\ S # {}
    /\ \A w \in S : h.py[w].kind = "obj" /\ h.py[w].tracked /\ h.py[w].ref = reported(k, h, S, w)

\* The collector holds a reference on an object while it calls tp_clear.
collect(k, h, S) ==
    LET w == CHOOSE v \in S : TRUE
    IN  decref(k, tp_clear(k, incref(h, w), w), w)
=============================================================================
