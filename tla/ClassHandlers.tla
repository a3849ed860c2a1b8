--------------------------- MODULE ClassHandlers ---------------------------
(***************************************************************************)
(* The type handlers for wrapped C++ classes and containers                *)
(* (pybindgen/cppclass_typehandlers.py, container.py), the wrapper         *)
(* registries they consult (wrapper_registry.py) and the custodian/ward    *)
(* code.                                                                   *)
(*                                                                         *)
(* A class is a record k of what the generated code depends on:            *)
(*   policy    "none" (delete), "free" (a free function) or "rc"           *)
(*             (incref/decref)                                             *)
(*   helper    it has a helper class (virtual methods, allow_subclassing)  *)
(*   reg       std::map wrapper registry (otherwise the null registry)     *)
(*   gc        allow_subclassing: garbage-collected, has an inst_dict      *)
(*   copy      it has a copy constructor                                   *)
(*   conv      implicit conversions to it are registered                   *)
(* Class parameters add to the record of TypeHandlers: nullok, const, self *)
(* (taken from Python's self); class returns have own (caller_owns_return) *)
(* and existing (reference_existing_object).                               *)
(***************************************************************************)
EXTENDS TypeHandlers

\* StdMapWrapperRegistry; NullWrapperRegistry writes nothing, and has no lookup.
write_register_new_wrapper(k, v)  == IF k.reg THEN <<<<"register", v>>>> ELSE <<>>
write_unregister_wrapper(k, v)    == IF k.reg THEN <<<<"unregister", v>>>> ELSE <<>>
write_lookup_wrapper(k, v, value) == <<<<"lookup", v, value>>>>

\* "new" also sets inst_dict; "create" is write_create_instance of a copy of
\* the value (or, without one, of a default instance) with its post-creation code.
new_owned_copy(k, v, value) ==
    <<<<"new", v>>, <<"flags", v, TRUE>>, <<"create", v, value>>>> \o write_register_new_wrapper(k, v)

set_param_py(w, v) == [w EXCEPT !.param_py = Append(@, v)]

null_handler == [width |-> 0, signed |-> FALSE]

\* The if/else-if chain of an implicitly convertible parameter.
implicit_conversion(w, name, tmp) ==
    <<<<"if", <<"null", name>>, <<>>,
        <<<<"if", <<"instance", name>>, <<<<"deref", tmp, name>>>>,
            <<<<"if", <<"source", name>>, <<>>,
                <<raise>> \o error_exit(w, "before_call")>>>>>>>>>>>>

\* A class parameter by value, or a const reference: parsed as an instance of
\* the class, or as any object when other types convert to the class.
by_value_python_to_c(k, w, p, convertible, optional) ==
    LET name == variable_name(w, p.name)
        w1   == declare_variable(w, p.name, IF optional THEN <<<<"null", name>>>> ELSE <<>>)
        tmp  == variable_name(w1, p.name)
        w2   == declare_variable(w1, p.name, <<>>)
    IN  IF p.self THEN set_param_py(add_call(w, "deref", "self", null_handler), "self")
        ELSE IF ~convertible
        THEN set_param_py(add_call(add_parse(w1, ParseItem("O!", name, p.name, optional), FALSE),
                                   "deref", name, null_handler), name)
        ELSE LET a == add_parse(w2, ParseItem("O", name, p.name, optional), FALSE)
             IN  set_param_py(add_call(write_code(a, "before_call", implicit_conversion(a, name, tmp)),
                                       "val", tmp, null_handler), name)

CppClassParameter_python_to_c(k, w, p) == by_value_python_to_c(k, w, p, k.conv, p.opt)

\* Reverse: the Python method gets a copy.
CppClassParameter_c_to_python(k, w, p) ==
    LET v == variable_name(w, "py_Class")
        a == write_code(declare_variable(w, "py_Class", <<>>), "before_call", new_owned_copy(k, v, p.name))
    IN  add_build(a, "N", v, FALSE)

CppClassRefParameter_python_to_c(k, w, p) ==
    LET name == variable_name(w, p.name)
        w1   == declare_variable(w, p.name, <<>>)
        conv == k.conv /\ p.const
    IN  CASE p.dir = "in" -> by_value_python_to_c(k, w, p, conv, p.opt /\ ~conv)
          [] p.dir = "out" ->
               LET a == write_code(w1, "before_call",
                                   <<<<"new", name>>, <<"create", name, "">>>>
                                       \o write_register_new_wrapper(k, name))
                   b == write_code(a, "after_call", <<<<"flags", name, TRUE>>>>)
               IN  set_param_py(add_build(add_call(b, "deref", name, null_handler), "N", name, FALSE), name)
          [] p.dir = "inout" ->
               set_param_py(add_call(add_parse(w1, ParseItem("O!", name, p.name, FALSE), FALSE),
                                     "deref", name, null_handler), name)

\* After the Python call: a temporary wrapper loses its object, or gets a copy
\* of it when the method kept a reference to the wrapper.
detach_temporary(k, v, value, registered) ==
    IF k.copy
    THEN <<<<"if", <<"refcnt1", v>>, <<<<"clearobj", v>>>>,
             <<<<"create", v, value>>>> \o (IF registered THEN write_register_new_wrapper(k, v) ELSE <<>>)>>>>
    ELSE <<<<"clearobj", v>>>>

CppClassRefParameter_c_to_python(k, w, p) ==
    LET v  == variable_name(w, "py_Class")
        w1 == declare_variable(w, "py_Class", <<>>)
    IN  IF p.dir = "in"
        THEN add_build(write_code(w1, "before_call", new_owned_copy(k, v, p.name)), "N", v, FALSE)
        ELSE LET a == write_code(w1, "before_call", <<<<"new", v>>, <<"flags", v, TRUE>>,
                                                      <<"setobj", v, p.name>>>>)
                 b == add_cleanup_code(add_build(a, "O", v, FALSE), "before_call", <<"decref", v>>)
             IN  write_code(b, "after_call", detach_temporary(k, v, p.name, TRUE))

\* After a call that took ownership: the wrapper no longer has an object.
release_transferred(k, v) ==
    <<<<"if", <<"null", v>>, <<>>, write_unregister_wrapper(k, v) \o <<<<"clearobj", v>>>>>>>>

CppClassPtrParameter_python_to_c(k, w, p) ==
    LET name == IF p.self THEN "self" ELSE variable_name(w, p.name)
        w1   == declare_variable(w, p.name, IF p.opt THEN <<<<"null", name>>>> ELSE <<>>)
        ptr  == IF p.self THEN "self_ptr" ELSE variable_name(w1, p.name \o "_ptr")
        w2   == declare_variable(w1, p.name \o "_ptr", <<>>)
        w3   == IF p.self THEN write_code(w, "before_call", <<<<"getobj", ptr, name>>>>)
                ELSE IF p.nullok
                THEN LET a == add_parse(w2, ParseItem("O", name, p.name, p.opt), FALSE)
                         b == write_error_check(a, "before_call", <<"not_instance_or_none", name>>, <<raise>>)
                     IN  write_code(b, "before_call", <<<<"getobj", ptr, name>>>>)
                ELSE write_code(add_parse(w2, ParseItem("O!", name, p.name, p.opt), FALSE),
                                "before_call", <<<<"getobj", ptr, name>>>>)
        w4   == set_param_py(add_call(w3, IF p.own THEN "giveptr" ELSE "ptr", ptr, null_handler), name)
    IN  IF ~p.own THEN w4
        ELSE IF k.policy # "rc" THEN write_code(w4, "after_call", release_transferred(k, name))
        ELSE write_code(w4, "before_call", <<<<"if", <<"null", name>>, <<>>, <<<<"obj_incref", name>>>>>>>>)

\* What a new wrapper of a pointer gets, in CppClassPtrParameter's reverse path.
ptr_parameter_new_wrapper(k, p, v) ==
    <<<<"new", v>>, <<"flags", v, TRUE>>>>
    \o (IF p.own THEN <<<<"setobj", v, p.name>>>>
        ELSE IF k.policy = "rc" THEN <<<<"ptr_incref", p.name>>, <<"setobj", v, p.name>>>>
        ELSE IF p.dir = "in" THEN <<<<"create", v, p.name>>>>
        ELSE <<<<"setobj", v, p.name>>>>)
    \o write_register_new_wrapper(k, v)

\* The existing wrapper of the object, or a new one: a helper instance knows
\* its wrapper, another object may be in the registry.
find_or_create_wrapper(k, v, value, create, if_found, owned_rc) ==
    LET drop  == IF owned_rc THEN <<<<"ptr_decref", value>>>> ELSE <<>>
        plain == IF ~k.reg THEN create
                 ELSE write_lookup_wrapper(k, v, value) \o <<<<"if", <<"null", v>>, create, drop>>>>
    IN  IF ~k.helper THEN plain
        ELSE <<<<"if", <<"is_helper", value>>,
                 <<<<"pyself", v, value>>, <<"setobj", v, value>>>> \o drop \o if_found, plain>>>>

helper_wrapper_reference(v) == <<<<"incref", v>>>>

CppClassPtrParameter_c_to_python(k, w, p) ==
    LET v  == variable_name(w, "py_Class")
        w1 == write_code(declare_variable(w, "py_Class", <<>>), "before_call",
                         find_or_create_wrapper(k, v, p.name, ptr_parameter_new_wrapper(k, p, v),
                                                helper_wrapper_reference(v), FALSE))
        w2 == IF p.own \/ k.policy = "rc" \/ p.dir = "in" THEN w1
              ELSE write_code(add_cleanup_code(add_build(w1, "O", v, FALSE), "before_call", <<"decref", v>>),
                              "after_call", detach_temporary(k, v, p.name, FALSE))
    IN  add_build(w2, "N", v, FALSE)

\* CppClassReturnValue: the wrapper gets a copy of the returned value.
CppClassReturnValue_c_to_python(k, w, r) ==
    LET v == variable_name(w, "py_Class")
        a == write_code(declare_variable(w, "py_Class", <<>>), "after_call", new_owned_copy(k, v, "retval"))
    IN  [add_build(a, "N", v, TRUE) EXCEPT !.ret_py = v]

CppClassReturnValue_python_to_c(k, w, r) ==
    LET tmp == variable_name(w, "tmp_Class")
        a   == add_parse(declare_variable(w, "tmp_Class", <<>>), ParseItem("O!", tmp, "", FALSE), FALSE)
    IN  write_code(a, "after_call", <<<<"deref", "retval", tmp>>>>)

(* Mutant: the wrapper of an object it does not own is flagged as its owner. *)
NotOwnedFlagLost(k, r, v, value) ==
    <<<<"new", v>>, <<"setobj", v, value>>, <<"flags", v, TRUE>>>> \o write_register_new_wrapper(k, v)

\* write_create_new_wrapper of common_shared_object_return.
shared_object_new_wrapper(k, r, v, value) ==
    <<<<"new", v>>>>
    \o (IF r.own THEN <<<<"setobj", v, value>>, <<"flags", v, TRUE>>>>
        ELSE IF k.policy = "rc"
        THEN <<<<"flags", v, TRUE>>, <<"ptr_incref", value>>, <<"setobj", v, value>>>>
        ELSE IF r.existing THEN <<<<"setobj", v, value>>, <<"flags", v, FALSE>>>>
        ELSE <<<<"create", v, value>>, <<"flags", v, TRUE>>>>)
    \o write_register_new_wrapper(k, v)

common_shared_object_return(k, r, v, value) ==
    find_or_create_wrapper(k, v, value, shared_object_new_wrapper(k, r, v, value),
                           helper_wrapper_reference(v), r.own /\ k.policy = "rc")

CppClassRefReturnValue_c_to_python(k, w, r) ==
    LET v == variable_name(w, "py_Class")
        a == write_code(declare_variable(w, "py_Class", <<>>), "after_call",
                        IF r.existing \/ r.own THEN common_shared_object_return(k, r, v, "retval")
                        ELSE new_owned_copy(k, v, "retval"))
    IN  [add_build(a, "N", v, TRUE) EXCEPT !.ret_py = v]

\* NULL is returned as None at once, before any cleanup.
CppClassPtrReturnValue_c_to_python(k, w, r) ==
    LET v == variable_name(w, "py_Class")
        a == write_code(declare_variable(w, "py_Class", <<>>), "after_call",
                        <<<<"if", <<"nullptr", "retval">>, <<<<"return", "none">>>>, <<>>>>>>
                            \o common_shared_object_return(k, r, v, "retval"))
    IN  [add_build(a, "N", v, TRUE) EXCEPT !.ret_py = v]

CppClassPtrReturnValue_python_to_c(k, w, r) ==
    LET tmp == variable_name(w, "tmp_Class")
        a   == add_parse(declare_variable(w, "tmp_Class", <<>>), ParseItem("O!", tmp, "", FALSE), FALSE)
    IN  write_code(a, "after_call",
                   IF ~r.own THEN <<<<"getobj", "retval", tmp>>>>
                   ELSE IF k.policy = "rc" THEN <<<<"obj_incref", tmp>>, <<"getobj", "retval", tmp>>>>
                   ELSE <<<<"create_result", "retval">>>>)

(***************************************************************************)
(* Containers.  Their wrappers always own a copy; a converter ("O&") fills *)
(* a C++ container from a wrapper or a list.                               *)
(***************************************************************************)
new_container(v) == <<<<"newref", v>>>>

ContainerParameter_python_to_c(w, p) ==
    LET v == variable_name(w, p.name \o "_value")
        a == declare_variable(w, p.name \o "_value", <<>>)
    IN  add_call(add_parse(a, ParseItem("O&", v, p.name, FALSE), FALSE), "val", v, null_handler)

ContainerParameter_c_to_python(w, p) ==
    LET v == variable_name(w, "py_Container")
        a == write_code(declare_variable(w, "py_Container", <<>>), "before_call", new_container(v))
    IN  add_build(a, "N", v, FALSE)

ContainerRefParameter_python_to_c(w, p) ==
    LET v  == variable_name(w, p.name \o "_value")
        a  == declare_variable(w, p.name \o "_value", <<>>)
        b  == IF In(p) THEN add_parse(a, ParseItem("O&", v, p.name, p.opt), FALSE) ELSE a
        c  == add_call(b, "val", v, null_handler)
        py == variable_name(c, "py_Container")
        d  == write_code(declare_variable(c, "py_Container", <<>>), "after_call", new_container(py))
    IN  IF Out(p) THEN add_build(d, "N", py, FALSE) ELSE c

ContainerRefParameter_c_to_python(w, p) ==
    LET a == ContainerParameter_c_to_python(w, p)
    IN  IF Out(p) THEN add_parse(a, ParseItem("O&", p.name, p.name, FALSE), FALSE) ELSE a

\* "in" may pass a new container the callee owns; "out" allocates one up front
\* that the returned wrapper takes over.
ContainerPtrParameter_python_to_c(w, p) ==
    LET v  == variable_name(w, p.name \o "_value")
        in == add_parse(declare_variable(w, p.name \o "_value", <<>>), ParseItem("O&", v, p.name, FALSE), FALSE)
        a  == declare_variable(w, p.name \o "_value", <<<<"alloc", v>>>>)
        b  == add_call(a, "val", v, null_handler)
        py == variable_name(b, "py_Container")
        c  == write_code(declare_variable(b, "py_Container", <<>>), "after_call",
                         new_container(py) \o <<<<"free", v>>>>)
    IN  IF p.dir = "in" THEN add_call(in, "val", v, null_handler)
        ELSE add_build(c, "N", py, FALSE)

ContainerReturnValue_c_to_python(w, r) ==
    LET v == variable_name(w, "py_Container")
        a == write_code(declare_variable(w, "py_Container", <<>>), "after_call", new_container(v))
    IN  [add_build(a, "N", v, TRUE) EXCEPT !.ret_py = v]

ContainerReturnValue_python_to_c(w, r) == add_parse(w, ParseItem("O&", "retval", "", FALSE), FALSE)

(***************************************************************************)
(* Custodians and wards.  c and d are parameter numbers, 0 for self, -1    *)
(* for the return value.                                                   *)
(***************************************************************************)
_get_custodian_or_ward(w, num) ==
    IF num = -1 THEN w.ret_py ELSE IF num = 0 THEN "self" ELSE w.param_py[num]

(* Mutant: the list of wards is not released. *)
WardsNotReleased(w, block, c, d) ==
    LET wards == variable_name(w, "wards")
    IN  write_code(declare_variable(w, "wards", <<>>), block, <<<<"addward", wards, c, d>>>>)

_add_ward(w, block, c, d) ==
    LET wards == variable_name(w, "wards")
        a == write_code(declare_variable(w, "wards", <<>>), block, <<<<"addward", wards, c, d>>>>)
    IN  add_cleanup_code(a, block, <<"decref", wards>>)

\* The relations <<custodian, ward, postcall>> a wrapper's parameters and
\* return value ask for; those that involve the return value are postcall.
scan_custodians_and_wards(params, ret) ==
    LET of_param(i) == IF params[i].cust = -2 THEN <<>> ELSE <<<<params[i].cust, i, params[i].cust = -1>>>>
        of_params == FlattenSeq([i \in DOMAIN params |-> of_param(i)])
    IN  of_params \o (IF ret.cust = -2 THEN <<>> ELSE <<<<ret.cust, -1, TRUE>>>>)
                  \o (IF ret.internal THEN <<<<-1, 0, TRUE>>>> ELSE <<>>)

implement_parameter_custodians(w, block, relations, postcall) ==
    FoldLeft(LAMBDA acc, r : IF r[3] # postcall THEN acc
                             ELSE _add_ward(acc, block, _get_custodian_or_ward(acc, r[1]),
                                            _get_custodian_or_ward(acc, r[2])),
             w, relations)
=============================================================================
