------------------------------ MODULE Wrappers ------------------------------
(***************************************************************************)
(* The wrapper generators of PyBindGen: what a generated C wrapper does,   *)
(* from its type handlers.  Forward wrappers (Python calls C++: functions, *)
(* methods, constructors, getters, iterators, overloads) come from         *)
(* ForwardWrapperBase.generate_body; reverse wrappers (C++ calls Python:   *)
(* virtual method proxies, setters and converters) from                    *)
(* ReverseWrapperBase.generate.                                            *)
(*                                                                         *)
(* A wrapper specification s has the fields kind, ret, params, unblock     *)
(* (unblock_threads), throw, depr (deprecated), vis (visibility), pure.    *)
(***************************************************************************)
EXTENDS ClassHandlers

convert_param_python_to_c(k, w, p) ==
    CASE p.h = "CppClassParameter"     -> CppClassParameter_python_to_c(k, w, p)
      [] p.h = "CppClassRefParameter"  -> CppClassRefParameter_python_to_c(k, w, p)
      [] p.h = "CppClassPtrParameter"  -> CppClassPtrParameter_python_to_c(k, w, p)
      [] p.h = "ContainerParameter"    -> ContainerParameter_python_to_c(w, p)
      [] p.h = "ContainerRefParameter" -> ContainerRefParameter_python_to_c(w, p)
      [] p.h = "ContainerPtrParameter" -> ContainerPtrParameter_python_to_c(w, p)
      [] p.h \in DOMAIN PlainHandlers  -> plain_python_to_c(w, p)

convert_param_c_to_python(k, w, p) ==
    CASE p.h = "CppClassParameter"     -> CppClassParameter_c_to_python(k, w, p)
      [] p.h = "CppClassRefParameter"  -> CppClassRefParameter_c_to_python(k, w, p)
      [] p.h = "CppClassPtrParameter"  -> CppClassPtrParameter_c_to_python(k, w, p)
      [] p.h = "ContainerParameter"    -> ContainerParameter_c_to_python(w, p)
      [] p.h = "ContainerRefParameter" -> ContainerRefParameter_c_to_python(w, p)
      [] p.h \in DOMAIN PlainHandlers  -> plain_c_to_python(w, p)

convert_return_c_to_python(k, w, r) ==
    CASE r.h = "CppClassReturnValue"    -> CppClassReturnValue_c_to_python(k, w, r)
      [] r.h = "CppClassRefReturnValue" -> CppClassRefReturnValue_c_to_python(k, w, r)
      [] r.h = "CppClassPtrReturnValue" -> CppClassPtrReturnValue_c_to_python(k, w, r)
      [] r.h = "ContainerReturnValue"   -> ContainerReturnValue_c_to_python(w, r)
      [] r.h \in DOMAIN PlainHandlers   -> plain_return_c_to_python(w, r)

convert_return_python_to_c(k, w, r) ==
    CASE r.h = "CppClassReturnValue"    -> CppClassReturnValue_python_to_c(k, w, r)
      [] r.h = "CppClassPtrReturnValue" -> CppClassPtrReturnValue_python_to_c(k, w, r)
      [] r.h = "ContainerReturnValue"   -> ContainerReturnValue_python_to_c(w, r)
      [] r.h \in DOMAIN PlainHandlers   -> plain_return_python_to_c(w, r)

return_null == <<<<"return", "null">>>>
return_ok   == <<<<"return", "ok">>>>
return_obj  == <<<<"return", "obj">>>>

\* Every parameter leaves one entry in param_py.
with_param(k, w, p) ==
    LET a == convert_param_python_to_c(k, w, p)
    IN  IF Len(a.param_py) > Len(w.param_py) THEN a ELSE set_param_py(a, "")

code_of(w) == w.declarations \o w.before_parse.sink \o w.before_call.sink \o w.after_call.sink

\* First in after_call: take the lock back before any Python object is touched.
restore_thread(w, s) == IF s.unblock THEN write_code(w, "after_call", <<<<"restore">>>>) ELSE w

(***************************************************************************)
(* ForwardWrapperBase.generate_body, up to the generate_call of the        *)
(* subclass and from there on; returns tells whether the wrapper builds a  *)
(* Python result.                                                          *)
(***************************************************************************)
generate_body_before_call(k, s, w0) ==
    LET a == restore_thread(declare_variable(w0, "py_retval", <<>>), s)
        b == FoldLeft(LAMBDA acc, p : with_param(k, acc, p), a, s.params)
        c == IF s.depr THEN write_error_check(b, "before_call", <<"warning_raises">>, <<>>) ELSE b
        d == implement_parameter_custodians(c, "before_call", scan_custodians_and_wards(s.params, s.ret), FALSE)
    IN  IF s.unblock THEN write_code(d, "before_call", <<<<"save">>>>) ELSE d

generate_body_after_call(k, s, w, returns) ==
    LET a == write_error_check(w, "before_parse", <<"parse", w.parse_params>>, <<>>)
        b == IF s.ret.h = "" THEN a ELSE convert_return_c_to_python(k, a, s.ret)
        c == implement_parameter_custodians(b, "after_call", scan_custodians_and_wards(s.params, s.ret), TRUE)
    IN  IF ~returns THEN write_cleanup(c, "after_call")
        ELSE write_code(write_cleanup(write_code(c, "after_call", <<<<"build", c.build_params>>>>),
                                      "after_call"), "after_call", return_obj)

(* Mutant: an exception of the call goes back the way a parse error does. *)
ThrowIsParseError(w, s, error) ==
    IF s.throw THEN get_cleanup_code(w, "before_call") \o <<raise>> \o w.parse_error_return ELSE <<>>

\* try { call } catch (exc) { cleanup; raise; return }: the cleanup is
\* before_call's.
catch_code(w, s, error) ==
    IF s.throw THEN get_cleanup_code(w, "before_call") \o <<raise>> \o error ELSE <<>>

call_code(w, s, error) == <<<<"call", w.call_params, catch_code(w, s, error)>>>>

(***************************************************************************)
(* Function, CppMethod (a method's call also dereferences self->obj; with  *)
(* a helper class it picks the parent's implementation, same effect).      *)
(***************************************************************************)
Function_generate_call(w, s) == write_code(w, "before_call", call_code(w, s, return_null))

CppMethod_generate_call(w, s) ==
    LET a == IF s.static THEN w ELSE add_call(w, "deref", "self", null_handler)
    IN  write_code(a, "before_call", call_code(a, s, return_null))

\* error_return replaces the parse-error return in an overload delegate.
Function_generate(k, s, parse_error_return) ==
    LET w == generate_body_before_call(k, s, NewWrapper(parse_error_return, return_null))
    IN  code_of(generate_body_after_call(k, s, Function_generate_call(w, s), TRUE))

CppMethod_generate(k, s, parse_error_return) ==
    LET w == generate_body_before_call(k, s, NewWrapper(parse_error_return, return_null))
    IN  code_of(generate_body_after_call(k, s, CppMethod_generate_call(w, s), TRUE))

(***************************************************************************)
(* CppConstructor.  A helper instance is created only for an instance of a *)
(* Python subclass; neither kind is entered in the wrapper registry.       *)
(***************************************************************************)
CppConstructor_generate_call(k, w, s) ==
    LET call   == call_code(w, s, return_null)
        plain  == <<<<"create_self", FALSE>>, <<"flags", "self", TRUE>>>>
        helper == <<<<"create_self", TRUE>>, <<"flags", "self", TRUE>>, <<"set_pyobj">>>>
        denied == <<raise>> \o return_null
    IN  write_code(w, "before_call",
            IF ~k.helper THEN call \o plain
            ELSE <<<<"if", <<"python_subclass", "self">>, call \o helper,
                     IF s.vis = "public" /\ ~s.pure THEN call \o plain ELSE denied>>>>)

CppConstructor_generate(k, s, parse_error_return) ==
    LET w == generate_body_before_call(k, s, NewWrapper(parse_error_return, return_null))
    IN  code_of(generate_body_after_call(k, s, CppConstructor_generate_call(k, w, s), FALSE)) \o return_ok

\* A function used as a constructor: it returns an object the caller owns.
CppFunctionAsConstructor_generate(k, s) ==
    LET w    == generate_body_before_call(k, s, NewWrapper(return_null, return_null))
        call == call_code(w, s, return_null) \o <<<<"create_self", FALSE>>, <<"flags", "self", TRUE>>>>
    IN  code_of(generate_body_after_call(k, s, write_code(w, "before_call", call), FALSE)) \o return_ok

CppNoConstructor_generate(k, s) == <<raise>> \o return_null

(***************************************************************************)
(* CppVirtualMethodParentCaller: Python calls the C++ implementation of a  *)
(* protected virtual method.  The check comes after the lock was released. *)
(***************************************************************************)
CppVirtualMethodParentCaller_generate_call(w, s) ==
    LET a == write_error_check(w, "before_call", <<"not_helper", "self">>, <<raise>>)
    IN  write_code(a, "before_call", <<<<"call", Append(a.call_params, <<"deref", "self", 0, FALSE>>), <<>>>>>>)

CppVirtualMethodParentCaller_generate(k, s, parse_error_return) ==
    LET w == generate_body_before_call(k, s, NewWrapper(parse_error_return, return_null))
    IN  code_of(generate_body_after_call(k, s, CppVirtualMethodParentCaller_generate_call(w, s), TRUE))

\* Attribute getter: nothing is called, the return value handler reads the
\* attribute of self->obj.
CppInstanceAttributeGetter_generate(k, s) ==
    LET w    == generate_body_before_call(k, s, NewWrapper(return_null, return_null))
        read == <<<<"call", <<<<"deref", "self", 0, FALSE>>>>, <<>>>>>>
    IN  code_of(generate_body_after_call(k, s, write_code(w, "before_call", read), TRUE))

CppStaticAttributeGetter_generate(k, s) ==
    LET w == generate_body_before_call(k, s, NewWrapper(return_null, return_null))
    IN  code_of(generate_body_after_call(k, s, write_code(w, "before_call", <<<<"call", <<>>, <<>>>>>>), TRUE))

\* tp_iter and tp_iternext of a container: an iterator keeps its container
\* alive; the end of the container raises StopIteration.
tp_iter == <<<<"new_iter", "py_retval", "self">>, <<"build", <<[fmt |-> "N", var |-> "py_retval"]>>>>,
             <<"return", "obj">>>>

IterNextWrapper_generate(k, s) ==
    LET w == generate_body_before_call(k, s, NewWrapper(return_null, return_null))
        a == write_code(w, "before_call", <<<<"container", "self_container", "self">>,
                                            <<"call", <<<<"deref", "self_container", 0, FALSE>>>>, <<>>>>>>)
        b == write_error_check(a, "before_call", <<"nondet">>, <<raise>>)
    IN  code_of(generate_body_after_call(k, s, b, TRUE))

\* __copy__: a new wrapper with a copy of the object.
_generate_copy_method(k) ==
    <<<<"call", <<<<"deref", "self", 0, FALSE>>>>, <<>>>>, <<"new", "py_copy">>, <<"create", "py_copy", "">>,
      <<"flags", "py_copy", TRUE>>>> \o write_register_new_wrapper(k, "py_copy")
    \o <<<<"build", <<[fmt |-> "N", var |-> "py_copy"]>>>>, <<"return", "obj">>>>

(***************************************************************************)
(* ReverseWrapperBase.                                                     *)
(***************************************************************************)
_generate_gil_code(w) ==
    add_cleanup_code(write_code(declare_variable(w, "__py_gil_state", <<>>), "before_call", <<<<"ensure">>>>),
                     "before_call", <<"release">>)

parse_is_empty(w) == \A i \in DOMAIN w.parse_params : w.parse_params[i].fmt = ""

\* What follows the Python call: check or unpack the result, convert, clean up.
ReverseWrapperBase_finish(k, s, w) ==
    LET a == convert_return_python_to_c(k, w, s.ret)
        items == SelectSeq(a.parse_params, LAMBDA i : i.fmt # "")
        b == IF parse_is_empty(a)
             THEN write_error_check(a, "before_call", <<"result_not_none">>, <<raise>>)
             ELSE write_error_check(a, "before_call", <<"parse", items>>, <<<<"print">>>>)
    IN  write_code(write_cleanup(b, "after_call"), "after_call", return_ok)

\* generate_python_call of CppVirtualMethodProxy.
generate_python_call(w) ==
    LET a == write_code(w, "before_call", <<<<"pycall", w.build_params>>>>)
        b == write_error_check(a, "before_call", <<"null", "py_retval">>, <<<<"print">>>>)
    IN  add_cleanup_code(b, "before_call", <<"drop_result">>)

\* "m_pyself->obj = this" around the call of the Python method.
set_self_around_call(w) ==
    add_cleanup_code(write_code(declare_variable(w, "self_obj_before", <<>>), "before_call", <<<<"push_self">>>>),
                     "before_call", <<"pop_self">>)

parent_call == <<<<"parent_call">>>>

\* CppVirtualMethodProxy.generate: without a Python override the parent's
\* implementation runs; otherwise its result is also the error return, except
\* for pure or private methods, which abort the process.
CppVirtualMethodProxy_generate(k, s) ==
    LET void  == s.ret.h = "VoidReturn"
        final == s.pure \/ s.vis = "private"
        error == IF void THEN return_ok
                 ELSE IF ~final THEN parent_call \o return_ok
                 ELSE IF s.ret.h = "CppClassReturnValue" THEN return_ok
                 ELSE <<<<"print">>, <<"fatal">>>>
        a == _generate_gil_code(NewWrapper(return_ok, return_ok))
        b == add_cleanup_code(write_code(a, "before_call", <<<<"get_method">>>>), "before_call",
                              <<"xdecref", "py_method">>)
        c == [b EXCEPT !.parse_error_return = error, !.error_return = error]
        alone == (IF void /\ ~final THEN parent_call ELSE <<>>)
                     \o get_cleanup_code(c, "before_call")
                     \o (IF void THEN return_ok ELSE error)
        d == set_self_around_call(write_code(c, "before_call",
                 <<<<"if", <<"no_override">>, alone, <<>>>>>>))
        e == FoldLeft(LAMBDA acc, p : convert_param_c_to_python(k, acc, p), d, s.params)
    IN  code_of(ReverseWrapperBase_finish(k, s, generate_python_call(e)))

\* Setters and converters: value packed in a tuple, parsed, assigned.
value_in_tuple(w) ==
    add_cleanup_code(write_code(w, "before_call", <<<<"pack_value">>>>), "before_call", <<"drop_result">>)

setter_code(k, s, w) ==
    LET a == convert_return_python_to_c(k, value_in_tuple(w), s.ret)
        b == write_error_check(a, "before_call", <<"parse", a.parse_params>>, <<>>)
    IN  code_of(write_code(write_cleanup(b, "after_call"), "after_call", return_ok))

CppInstanceAttributeSetter_generate(k, s) == setter_code(k, s, NewWrapper(return_null, return_null))
CppStaticAttributeSetter_generate(k, s)   == setter_code(k, s, NewWrapper(return_null, return_null))
PythonToCConverter_generate(k, s)         == setter_code(k, s, NewWrapper(return_null, return_null))

CToPythonConverter_generate(k, s) ==
    LET a == convert_return_c_to_python(k, NewWrapper(return_null, return_null), s.ret)
    IN  <<<<"call", <<>>, <<>>>>>>
        \o code_of(write_code(write_cleanup(write_code(a, "after_call", <<<<"build", a.build_params>>>>),
                                            "after_call"), "after_call", return_obj))

(***************************************************************************)
(* OverloadedWrapper: the delegates are tried in order; a delegate that    *)
(* fails before its call hands its exception to the dispatcher.            *)
(***************************************************************************)
delegate_error_return(i) == <<<<"fetch", i>>>> \o return_null

delegate_code(k, s, i) ==
    IF s.kind = "method" THEN CppMethod_generate(k, s, delegate_error_return(i))
    ELSE IF s.kind = "ctor" THEN CppConstructor_generate(k, s, delegate_error_return(i))
    ELSE Function_generate(k, s, delegate_error_return(i))

release_exceptions(i) == [j \in 1..(i - 1) |-> <<"drop_exception", j>>]

OverloadedWrapper_generate(k, specs) ==
    IF Len(specs) = 1 THEN delegate_code(k, specs[1], 0)
    ELSE FlattenSeq([i \in DOMAIN specs |->
             <<<<"enter", delegate_code(k, specs[i], i)>>,
               <<"if", <<"no_exception", i>>, release_exceptions(i) \o <<<<"return", "retval">>>>, <<>>>>>>])
         \o [i \in DOMAIN specs |-> <<"drop_exception", i>>] \o <<raise>> \o return_null
=============================================================================
