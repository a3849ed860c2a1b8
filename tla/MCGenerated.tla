---------------------------- MODULE MCGenerated ----------------------------
(***************************************************************************)
(* Classes and wrappers of a generated module, for TLC.                    *)
(***************************************************************************)
EXTENDS GeneratedModule

Class(policy, helper, reg, conv) ==
    [policy |-> policy, helper |-> helper, reg |-> reg, gc |-> helper, copy |-> TRUE, conv |-> conv]

Param(h, dir) == [h |-> h, name |-> "p", dir |-> dir, own |-> FALSE, opt |-> FALSE, array |-> FALSE,
                  nullok |-> FALSE, const |-> FALSE, self |-> FALSE, cust |-> -2]
Ret(h) == [h |-> h, own |-> FALSE, existing |-> FALSE, internal |-> FALSE, cust |-> -2]
Void == Ret("VoidReturn")
Spc(kind, ret, params) ==
    [kind |-> kind, ret |-> ret, params |-> params, unblock |-> FALSE, throw |-> FALSE, depr |-> FALSE,
     vis |-> "public", pure |-> FALSE, static |-> FALSE, alone |-> FALSE, delegates |-> <<>>]

Alone(s) == [s EXCEPT !.alone = TRUE]
Own(p) == [p EXCEPT !.own = TRUE]
Unblock(s) == [s EXCEPT !.unblock = TRUE]
Throw(s) == [s EXCEPT !.throw = TRUE]
Named(p, n) == [p EXCEPT !.name = n]
F(ret, params) == Spc("function", ret, params)
M(ret, params) == Spc("method", ret, params)

PtrIn  == Param("CppClassPtrParameter", "in")
RefP(dir) == Param("CppClassRefParameter", dir)
ValP   == Param("CppClassParameter", "in")
PtrRet == Ret("CppClassPtrReturnValue")
RefRet == Ret("CppClassRefReturnValue")
ValRet == Ret("CppClassReturnValue")
Existing(r) == [r EXCEPT !.existing = TRUE]
NoRet  == Ret("")

ClassCalls(k) ==
    {Spc("ctor", NoRet, <<>>), Throw(Spc("ctor", NoRet, <<>>)), Unblock(Spc("ctor", NoRet, <<>>)),
     Spc("ctor", NoRet, <<[PtrIn EXCEPT !.cust = 0]>>),
     Spc("function_ctor", NoRet, <<>>), Spc("no_ctor", NoRet, <<>>), Spc("copy", NoRet, <<>>)}
    \cup
    {F(Void, <<PtrIn>>), F(Void, <<Own(PtrIn)>>), F(Void, <<[PtrIn EXCEPT !.nullok = TRUE]>>),
     F(Void, <<[Own(PtrIn) EXCEPT !.nullok = TRUE]>>), F(Void, <<[PtrIn EXCEPT !.opt = TRUE]>>),
     Throw(F(Void, <<Own(PtrIn)>>)), Unblock(F(Void, <<Own(PtrIn)>>)), Unblock(F(Void, <<PtrIn>>)),
     F(Void, <<ValP>>), F(Void, <<[ValP EXCEPT !.opt = TRUE]>>),
     F(Void, <<RefP("in")>>), F(Void, <<[RefP("in") EXCEPT !.const = TRUE]>>),
     F(Void, <<RefP("out")>>), Throw(F(Void, <<RefP("out")>>)), F(Void, <<RefP("inout")>>),
     F(Void, <<PtrIn, Named([PtrIn EXCEPT !.cust = 1], "q")>>)}
    \cup
    {M(Void, <<>>), Unblock(M(Void, <<>>)), Throw(M(Void, <<>>)), Throw(Unblock(M(Void, <<>>))),
     [M(Void, <<>>) EXCEPT !.depr = TRUE], M(Void, <<[PtrIn EXCEPT !.cust = 0]>>),
     Throw(M(Void, <<[PtrIn EXCEPT !.cust = 0]>>)),
     M([Existing(PtrRet) EXCEPT !.internal = TRUE], <<>>),
     M(Void, <<[PtrIn EXCEPT !.self = TRUE]>>), M(Void, <<[Own(PtrIn) EXCEPT !.self = TRUE]>>)}
    \cup
    {F([PtrRet EXCEPT !.own = TRUE], <<>>), F(Existing(PtrRet), <<>>), Unblock(F(Existing(PtrRet), <<>>)),
     F(PtrRet, <<>>), F([PtrRet EXCEPT !.cust = 1], <<PtrIn>>),
     F(Existing(RefRet), <<>>), F([RefRet EXCEPT !.own = TRUE], <<>>), F(RefRet, <<>>), F(ValRet, <<>>)}
    \cup
    {Spc("getter", ValRet, <<>>), Spc("setter", ValRet, <<>>), Spc("static_getter", ValRet, <<>>),
     Spc("static_setter", ValRet, <<>>), Spc("py2c", ValRet, <<>>), Spc("c2py", ValRet, <<>>),
     Spc("iter", NoRet, <<>>), Spc("iternext", ValRet, <<>>)}
    \cup
    {[Spc("overload", Void, <<>>) EXCEPT !.delegates = <<F(Void, <<PtrIn>>), F(Void, <<ValP, PtrIn>>)>>],
     [Spc("overload", Void, <<>>) EXCEPT !.delegates = <<Throw(F(Void, <<Own(PtrIn)>>)), F(Void, <<Param("CStringParam", "in")>>)>>],
     [Spc("overload", Void, <<>>) EXCEPT !.delegates = <<Throw(F(Void, <<PtrIn>>)), F(Void, <<ValP>>)>>],
     [Spc("overload", NoRet, <<>>) EXCEPT !.delegates = <<Spc("ctor", NoRet, <<>>), Spc("ctor", NoRet, <<RefP("in")>>)>>]}

HelperCalls(k) ==
    {Spc("parent_caller", Void, <<>>), Unblock(Spc("parent_caller", Void, <<>>)),
     [Spc("ctor", NoRet, <<>>) EXCEPT !.vis = "protected"]}
    \cup {Spc("proxy", Void, <<p>>) : p \in {PtrIn, Own(PtrIn), Param("CppClassPtrParameter", "inout"), ValP, RefP("in"), RefP("inout")}}
    \cup {Spc("proxy", r, <<>>) : r \in {Void, Ret("IntReturn"), Ret("Int16Return"), Ret("BoolReturn"), ValRet, PtrRet,
                                          [PtrRet EXCEPT !.own = TRUE]}}
    \cup {[Spc("proxy", r, <<>>) EXCEPT !.pure = TRUE] : r \in {Void, Ret("IntReturn"), ValRet}}

\* Calls that do not touch the class: each is tried on its own, for one class.
Names(kinds) == {h \in DOMAIN PlainHandlers : PlainHandlers[h].kind \in kinds}
Containers == {"ContainerParameter", "ContainerRefParameter", "ContainerPtrParameter"}
Params ==
    {Param(h, "in") : h \in Names({"in", "bool_in", "str_in", "obj_in"}) \cup Containers}
    \cup {Param(h, dir) : h \in Names({"ref", "bool_ref", "str_ref", "str_ptr"}), dir \in {"in", "out", "inout"}}
    \cup {Own(Param("PyObjectParam", "in")), Own(Param("StdStringPtrParam", "in")), Own(Param("GlibStringPtrParam", "in"))}
Forward == {Param(h, dir) : h \in Containers \ {"ContainerParameter"}, dir \in {"out"}}
           \cup {Param("ContainerRefParameter", "inout")}
           \cup {[Param(h, dir) EXCEPT !.array = TRUE] : h \in {"UnsignedIntPtrParam", "FloatPtrParam"},
                                                        dir \in {"in", "out", "inout"}}
Returns == {Ret(h) : h \in Names({"ret", "ret_last", "bool_ret", "obj_ret", "str_ret"}) \cup {"ContainerReturnValue"}}
           \cup {[Ret("PyObjectReturnValue") EXCEPT !.own = TRUE]}

ScalarCalls ==
    {Alone(F(Void, <<p>>)) : p \in Params \cup Forward}
    \cup {Alone(F(Void, <<[Param(h, "in") EXCEPT !.array = TRUE], [Param(h, "in") EXCEPT !.array = TRUE, !.name = "q"]>>)) :
             h \in {"UnsignedIntPtrParam", "FloatPtrParam"}}
    \cup {Alone(F(Void, <<[p EXCEPT !.opt = TRUE]>>)) : p \in {q \in Params : q.h = "IntParam"}}
    \cup {Alone(Spc(kind, r, <<>>)) : kind \in {"function", "static_setter", "py2c"}, r \in Returns}
ScalarProxies ==
    {Alone(Spc("proxy", Void, <<p>>)) : p \in {q \in Params : q.h # "ContainerPtrParameter"}}
    \cup {Alone(Spc("proxy", r, <<>>)) : r \in Returns}

MCClasses == {Class("none", FALSE, TRUE, FALSE), Class("none", FALSE, FALSE, TRUE), Class("none", TRUE, TRUE, FALSE),
              Class("free", FALSE, TRUE, FALSE), Class("rc", FALSE, TRUE, FALSE), Class("rc", TRUE, TRUE, FALSE)}
Specs(k) == ClassCalls(k) \cup (IF k.helper THEN HelperCalls(k) ELSE {})
              \cup (IF k = Class("none", FALSE, TRUE, FALSE) THEN ScalarCalls ELSE {})
              \cup (IF k = Class("none", TRUE, TRUE, FALSE) THEN ScalarProxies ELSE {})
MCMethods == {[class |-> m[1], spec |-> m[2], code |-> generate(m[1], m[2])] :
                  m \in {<<k, s>> \in MCClasses \X UNION {Specs(k) : k \in MCClasses} : s \in Specs(k)}}
=============================================================================
