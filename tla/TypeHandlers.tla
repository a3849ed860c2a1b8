---------------------------- MODULE TypeHandlers ----------------------------
(***************************************************************************)
(* The type handlers of PyBindGen for the plain C types                    *)
(* (pybindgen/typehandlers/{int,bool,double,float,string,pyobject,void}    *)
(* type.py).  A handler class is a record that says which format it parses *)
(* and builds with, which range check it writes, and how its C type is     *)
(* represented; two operators per kind of handler, convert_python_to_c and *)
(* convert_c_to_python, write the code.                                    *)
(*                                                                         *)
(* A parameter is a record with its handler class h, its name, its         *)
(* direction dir ("in", "out", "inout"), whether ownership is transferred  *)
(* (own), whether it has a default value (opt) and whether it is an array. *)
(***************************************************************************)
EXTENDS CodeBlock

CONSTANTS CharBits, ShortBits, IntBits, LongBits   \* widths of the C types

\* The C types have strictly increasing widths (LP64: 8, 16, 32, 64).
ASSUME WidthsAssumption ==
    /\ CharBits \in Nat /\ ShortBits \in Nat /\ IntBits \in Nat /\ LongBits \in Nat
    /\ 1 < CharBits /\ CharBits < ShortBits /\ ShortBits < IntBits /\ IntBits < LongBits

MaxOf(width, signed) == IF signed THEN 2^(width - 1) - 1 ELSE 2^width - 1
MinOf(width, signed) == IF signed THEN -(2^(width - 1)) ELSE 0

\* Conversion of an integer to a C type: modulo its width.
ToC(width, signed, v) ==
    LET m == v % 2^width
    IN  IF signed /\ m > MaxOf(width, TRUE) THEN m - 2^width ELSE m

(***************************************************************************)
(* PyArg_ParseTuple's integer formats (CPython): "check" formats raise     *)
(* OverflowError outside the type's range, the others keep the low bits.   *)
(***************************************************************************)
IntFormat ==
    [i |-> [width |-> IntBits,   signed |-> TRUE,  check |-> TRUE],
     I |-> [width |-> IntBits,   signed |-> FALSE, check |-> FALSE],
     h |-> [width |-> ShortBits, signed |-> TRUE,  check |-> TRUE],
     H |-> [width |-> ShortBits, signed |-> FALSE, check |-> FALSE],
     b |-> [width |-> CharBits,  signed |-> FALSE, check |-> TRUE],
     B |-> [width |-> CharBits,  signed |-> FALSE, check |-> FALSE],
     l |-> [width |-> LongBits,  signed |-> TRUE,  check |-> TRUE],
     k |-> [width |-> LongBits,  signed |-> FALSE, check |-> FALSE],
     L |-> [width |-> LongBits,  signed |-> TRUE,  check |-> TRUE],
     K |-> [width |-> LongBits,  signed |-> FALSE, check |-> FALSE]]

ParsesInt(fmt, v) ==
    ~IntFormat[fmt].check \/ (/\ v <= MaxOf(IntFormat[fmt].width, IntFormat[fmt].signed)
                              /\ v >= MinOf(IntFormat[fmt].width, IntFormat[fmt].signed))

\* Bounds of the range checks the handlers write: NoBound writes none.
NoBound == 2^(LongBits + 2)

\* A handler record.  kind: "in" (IN only), "ref" (any direction), "ret".
\* lo, hi: the range check written after parsing.  "n" is a build format
\* "N" whose object is created in place (PyLong_From..., PyBool_FromLong).
Handler(kind, parse, build, width, signed, lo, hi) ==
    [kind |-> kind, parse |-> parse, build |-> build, width |-> width,
     signed |-> signed, lo |-> lo, hi |-> hi]
Plain(kind, parse, build, width, signed) ==
    Handler(kind, parse, build, width, signed, -NoBound, NoBound)

IntParam               == Plain("in", "i", "i", IntBits, TRUE)
UnsignedIntParam       == Plain("in", "I", "n", IntBits, FALSE)
UnsignedIntPtrParam    == Plain("ref", "I", "I", IntBits, FALSE)
IntReturn              == Plain("ret", "i", "i", IntBits, TRUE)
UnsignedIntReturn      == Plain("ret", "I", "n", IntBits, FALSE)
IntPtrParam            == Plain("ref", "i", "i", IntBits, TRUE)
IntRefParam            == Plain("ref", "i", "i", IntBits, TRUE)
UnsignedIntRefParam    == Plain("ref", "I", "I", IntBits, FALSE)
UInt16Return           == Handler("ret", "i", "i", ShortBits, FALSE, -NoBound, MaxOf(ShortBits, FALSE))
Int16Return            == Handler("ret", "i", "i", ShortBits, TRUE, MinOf(ShortBits, TRUE), MaxOf(ShortBits, TRUE))
UInt16Param            == Handler("in", "i", "i", ShortBits, FALSE, -NoBound, MaxOf(ShortBits, FALSE))
UInt16RefParam         == Plain("ref", "H", "H", ShortBits, FALSE)

(* Mutant: the bound of the check is one too high. *)
Int16Bound          == Handler("in", "i", "i", ShortBits, TRUE, -NoBound, MaxOf(ShortBits, TRUE) + 1)

Int16Param             == Handler("in", "i", "i", ShortBits, TRUE, -NoBound, MaxOf(ShortBits, TRUE))
Int16RefParam          == Plain("ref", "h", "h", ShortBits, TRUE)
UInt8Param             == Handler("in", "i", "i", CharBits, FALSE, -NoBound, MaxOf(CharBits, FALSE))
UInt8RefParam          == Plain("ref", "B", "B", CharBits, FALSE)
UInt8Return            == Handler("ret", "i", "i", CharBits, FALSE, -NoBound, MaxOf(CharBits, FALSE))
Int8Param              == Handler("in", "i", "i", CharBits, TRUE, -NoBound, MaxOf(CharBits, TRUE))
Int8RefParam           == Plain("ref", "b", "b", CharBits, TRUE)
\* "> 128 || < -127": one off at both ends.
Int8Return             == Handler("ret", "i", "i", CharBits, TRUE, MinOf(CharBits, TRUE) + 1, MaxOf(CharBits, TRUE) + 1)
UnsignedLongLongParam  == Plain("in", "K", "K", LongBits, FALSE)
UnsignedLongLongRefParam == UnsignedLongLongParam
UnsignedLongLongReturn == Plain("ret", "K", "K", LongBits, FALSE)
UnsignedLongParam      == Plain("in", "k", "k", LongBits, FALSE)
UnsignedLongRefParam   == UnsignedLongParam
UnsignedLongReturn     == Plain("ret", "k", "k", LongBits, FALSE)
LongParam              == Plain("in", "l", "l", LongBits, TRUE)
LongRefParam           == LongParam
LongReturn             == Plain("ret", "l", "l", LongBits, TRUE)
SizeTReturn            == Plain("ret", "K", "K", LongBits, FALSE)
SizeTParam             == Plain("in", "K", "K", LongBits, FALSE)
LongLongParam          == Plain("in", "L", "L", LongBits, TRUE)
LongLongRefParam       == LongLongParam
LongLongReturn         == Plain("ret", "L", "L", LongBits, TRUE)
Int8PtrParam           == Plain("ref", "b", "b", CharBits, TRUE)
UInt8PtrParam          == Plain("ref", "B", "B", CharBits, FALSE)
UnsignedInt16PtrParam  == Plain("ref", "H", "H", ShortBits, FALSE)

\* Types whose values the properties do not tell apart.
Opaque(kind, fmt) == Plain(kind, fmt, fmt, 0, FALSE)
DoubleParam         == Opaque("in", "d")
DoubleReturn        == Opaque("ret", "d")
DoublePtrParam      == Opaque("ref", "d")
DoubleRefParam      == Opaque("ref", "d")
FloatParam          == Opaque("in", "f")
FloatReturn         == Opaque("ret", "f")
FloatRefParam       == Opaque("ref", "f")
CharParam           == Opaque("in", "c")
CharReturn          == Opaque("ret_last", "c")
CStringParam        == Opaque("in", "s")
CStringReturn       == Opaque("ret_last", "s")
VoidReturn          == Opaque("void", "")
BoolParam           == Opaque("bool_in", "O")
BoolReturn          == Opaque("bool_ret", "O")
BoolPtrParam        == Opaque("bool_ref", "O")
BoolRefParam        == Opaque("bool_ref", "O")
PyObjectParam       == Opaque("obj_in", "O")
PyObjectReturnValue == Opaque("obj_ret", "O")
FloatPtrParam       == Opaque("ref", "f")
\* Parsed with "s#" (a borrowed buffer) or "et" (a buffer the caller frees).
String(kind, parse) == Plain(kind, parse, "s#", 0, FALSE)
StdStringParam      == String("str_in", "s#")
StdStringRefParam   == String("str_ref", "s#")
StdStringPtrParam   == String("str_ptr", "s#")
StdStringReturn     == String("str_ret", "s#")
GlibStringParam     == String("str_in", "et")
GlibStringRefParam  == String("str_ref", "et")
GlibStringPtrParam  == String("str_ptr", "et")
GlibStringReturn    == String("str_ret", "et")

PlainHandlers ==
    [IntParam |-> IntParam, UnsignedIntParam |-> UnsignedIntParam,
     UnsignedIntPtrParam |-> UnsignedIntPtrParam, IntReturn |-> IntReturn,
     UnsignedIntReturn |-> UnsignedIntReturn, IntPtrParam |-> IntPtrParam,
     IntRefParam |-> IntRefParam, UnsignedIntRefParam |-> UnsignedIntRefParam,
     UInt16Return |-> UInt16Return, Int16Return |-> Int16Return,
     UInt16Param |-> UInt16Param, UInt16RefParam |-> UInt16RefParam,
     Int16Param |-> Int16Param, Int16RefParam |-> Int16RefParam,
     UInt8Param |-> UInt8Param, UInt8RefParam |-> UInt8RefParam,
     UInt8Return |-> UInt8Return, Int8Param |-> Int8Param,
     Int8RefParam |-> Int8RefParam, Int8Return |-> Int8Return,
     UnsignedLongLongParam |-> UnsignedLongLongParam,
     UnsignedLongLongRefParam |-> UnsignedLongLongRefParam,
     UnsignedLongLongReturn |-> UnsignedLongLongReturn,
     UnsignedLongParam |-> UnsignedLongParam,
     UnsignedLongRefParam |-> UnsignedLongRefParam,
     UnsignedLongReturn |-> UnsignedLongReturn, LongParam |-> LongParam,
     LongRefParam |-> LongRefParam, LongReturn |-> LongReturn,
     SizeTReturn |-> SizeTReturn, SizeTParam |-> SizeTParam,
     LongLongParam |-> LongLongParam, LongLongRefParam |-> LongLongRefParam,
     LongLongReturn |-> LongLongReturn, Int8PtrParam |-> Int8PtrParam,
     UInt8PtrParam |-> UInt8PtrParam,
     UnsignedInt16PtrParam |-> UnsignedInt16PtrParam, DoubleParam |-> DoubleParam,
     DoubleReturn |-> DoubleReturn, DoublePtrParam |-> DoublePtrParam,
     DoubleRefParam |-> DoubleRefParam, FloatParam |-> FloatParam,
     FloatReturn |-> FloatReturn, FloatRefParam |-> FloatRefParam,
     CharParam |-> CharParam, CharReturn |-> CharReturn,
     CStringParam |-> CStringParam, CStringReturn |-> CStringReturn,
     VoidReturn |-> VoidReturn, BoolParam |-> BoolParam, BoolReturn |-> BoolReturn,
     BoolPtrParam |-> BoolPtrParam, BoolRefParam |-> BoolRefParam,
     PyObjectParam |-> PyObjectParam, PyObjectReturnValue |-> PyObjectReturnValue,
     FloatPtrParam |-> FloatPtrParam, StdStringParam |-> StdStringParam,
     StdStringRefParam |-> StdStringRefParam,
     StdStringPtrParam |-> StdStringPtrParam, StdStringReturn |-> StdStringReturn,
     GlibStringParam |-> GlibStringParam, GlibStringRefParam |-> GlibStringRefParam,
     GlibStringPtrParam |-> GlibStringPtrParam,
     GlibStringReturn |-> GlibStringReturn]

In(p)  == p.dir \in {"in", "inout"}
Out(p) == p.dir \in {"out", "inout"}

\* Append an argument of the C/C++ call: <<kind, variable, width, signed>>;
\* "give" passes the ownership of what the variable points to.
add_call(w, kind, var, h) ==
    [w EXCEPT !.call_params = Append(@, <<kind, var, h.width, h.signed>>)]

raise == <<"raise">>

(* Mutant: the check returns an error without raising it. *)
RangeNoRaise(w, block, h, var) ==
    IF h.lo = -NoBound /\ h.hi = NoBound THEN w
    ELSE write_error_check(w, block, <<"outside", var, h.lo, h.hi>>, <<>>)

\* The range check written after an int was parsed into var.
write_range_check(w, block, h, var) ==
    IF h.lo = -NoBound /\ h.hi = NoBound THEN w
    ELSE write_error_check(w, block, <<"outside", var, h.lo, h.hi>>, <<raise>>)

\* A list parameter of fixed length (array_length, UnsignedIntPtrParam and
\* FloatPtrParam); every element is checked, then converted.
\* FloatPtrParam's check always tests the variable called `element'.
array_python_to_c(w, p, h) ==
    LET name == variable_name(w, p.name)
        lst  == variable_name(w, "py_list")
        w1   == declare_variable(declare_variable(w, p.name, <<>>), "py_list", <<>>)
        elem == variable_name(w1, "element")
        chk  == IF h.parse = "f" THEN "element" ELSE elem
        w2   == add_call(w1, "val", name, h)
        w3   == IF ~In(p) THEN w2
                ELSE LET a == add_parse(declare_variable(w2, "element", <<>>),
                                        ParseItem("O!list", lst, p.name, FALSE), FALSE)
                         b == write_error_check(a, "before_call", <<"nondet">>, <<raise>>)
                         c == write_code(b, "before_call", <<<<"element", elem>>>>)
                         d == write_error_check(c, "before_call", <<"bad", chk>>, <<raise>>)
                     IN  write_code(d, "before_call", <<<<"convert", elem>>>>)
    IN  IF ~Out(p) THEN w3
        ELSE add_build(write_code(w3, "after_call", <<<<"newref", lst>>>>), "N", lst, FALSE)

\* convert_python_to_c of the parameters: forward wrappers.
plain_python_to_c(w, p) ==
    LET h    == PlainHandlers[p.h]
        name == variable_name(w, p.name)
        py   == variable_name(w, "py_" \o p.name)
        std  == variable_name(w, p.name \o "_std")
        w1   == declare_variable(w, p.name, <<>>)
        parsed(x, fmt, var) == add_parse(x, ParseItem(fmt, var, p.name, p.opt), FALSE)
    IN  CASE h.kind = "in" ->
               add_call(write_range_check(parsed(w1, h.parse, name), "before_call", h, name),
                        "val", name, h)
          [] h.kind = "ref" /\ p.array -> array_python_to_c(w, p, h)
          [] h.kind = "ref" /\ ~p.array ->
               LET a == add_call(w1, "val", name, h)
                   b == IF In(p) THEN parsed(a, h.parse, name) ELSE a
               IN  IF Out(p) THEN add_build(b, h.build, name, FALSE) ELSE b
          [] h.kind = "bool_in" ->
               LET a == parsed(declare_variable(w1, "py_" \o p.name, <<>>), "O", py)
               IN  add_call(write_code(a, "before_call", <<<<"istrue", name, py>>>>), "val", name, h)
          [] h.kind = "bool_ref" ->
               LET a == add_call(w1, "val", name, h)
                   b == IF ~In(p) THEN a
                        ELSE write_code(parsed(declare_variable(a, "py_" \o p.name, <<>>), "O", py),
                                        "before_call", <<<<"istrue", name, py>>>>)
               IN  IF Out(p) THEN add_build(b, "n", name, FALSE) ELSE b
          [] h.kind = "obj_in" ->
               LET a == add_call(parsed(w1, "O", name), IF p.own THEN "giveref" ELSE "val", name, h)
               IN  IF p.own THEN write_code(a, "before_call", <<<<"incref", name>>>>) ELSE a
          [] h.kind = "str_in" -> add_call(parsed(w1, h.parse, name), "val", name, h)
          [] h.kind \in {"str_ref", "str_ptr"} ->
               LET own == h.kind = "str_ptr" /\ p.own
                   a == declare_variable(w1, p.name \o "_std",
                                         IF own THEN <<<<"alloc", std>>>> ELSE <<>>)
                   b == add_call(a, IF own THEN "give" ELSE "val", std, h)
                   c == IF In(p) THEN parsed(b, h.parse, name) ELSE b
               IN  IF Out(p) THEN add_build(c, h.build, std, FALSE) ELSE c

\* convert_c_to_python of the parameters: reverse wrappers; the C variable is
\* the parameter itself.
plain_c_to_python(w, p) ==
    LET h   == PlainHandlers[p.h]
        py  == variable_name(w, "py_" \o p.name)
        ptr == variable_name(w, p.name \o "_ptr")
        parsed(x, fmt, var) == add_parse(x, ParseItem(fmt, var, p.name, FALSE), FALSE)
    IN  CASE h.kind = "in" -> add_build(w, h.build, p.name, FALSE)
          [] h.kind = "ref" ->
               LET a == IF In(p) THEN add_build(w, h.build, p.name, FALSE) ELSE w
               IN  IF Out(p) THEN parsed(a, h.parse, p.name) ELSE a
          [] h.kind = "bool_in" -> add_build(w, "n", p.name, FALSE)
          [] h.kind = "bool_ref" ->
               LET a == IF In(p) THEN add_build(w, "n", p.name, FALSE) ELSE w
               IN  IF ~Out(p) THEN a
                   ELSE write_code(parsed(declare_variable(a, "py_" \o p.name, <<>>), "O", py),
                                   "after_call", <<<<"istrue", p.name, py>>>>)
          [] h.kind = "obj_in" -> add_build(w, IF p.own THEN "N" ELSE "O", p.name, FALSE)
          [] h.kind = "str_in" ->
               add_build(declare_variable(w, p.name \o "_ptr", <<>>), h.build, ptr, FALSE)
          [] h.kind \in {"str_ref", "str_ptr"} ->
               LET a == declare_variable(w, p.name \o "_ptr", <<>>)
                   b == IF In(p) THEN add_build(a, h.build, ptr, FALSE) ELSE a
                   c == IF Out(p) THEN parsed(b, h.parse, ptr) ELSE b
               IN  IF h.kind = "str_ptr" /\ p.own
                   THEN write_code(c, "after_call", <<<<"free", p.name>>>>) ELSE c

\* convert_python_to_c of the return values: reverse wrappers.
plain_return_python_to_c(w, r) ==
    LET h == PlainHandlers[r.h]
        tmp == variable_name(w, "tmp")
        ptr == variable_name(w, "retval_ptr")
        py  == variable_name(w, "py_boolretval")
        parsed(x, fmt, var, prepend) == add_parse(x, ParseItem(fmt, var, "", FALSE), prepend)
    IN  CASE h.kind = "void" -> parsed(w, "", "", TRUE)
          [] h.kind = "ret" /\ h.lo = -NoBound /\ h.hi = NoBound ->
               parsed(w, h.parse, "retval", TRUE)
          [] h.kind = "ret" /\ ~(h.lo = -NoBound /\ h.hi = NoBound) ->
               LET a == parsed(declare_variable(w, "tmp", <<>>), h.parse, tmp, TRUE)
               IN  write_code(write_range_check(a, "after_call", h, tmp), "after_call",
                              <<<<"assign", "retval", tmp>>>>)
          [] h.kind = "ret_last" -> parsed(w, h.parse, "retval", h.parse = "c")
          [] h.kind = "bool_ret" ->
               write_code(parsed(declare_variable(w, "py_boolretval", <<>>), "O", py, TRUE),
                          "after_call", <<<<"istrue", "retval", py>>>>)
          [] h.kind = "obj_ret" ->
               LET a == parsed(w, "O", "retval", TRUE)
               IN  IF r.own THEN write_code(a, "after_call", <<<<"incref", "retval">>>>) ELSE a
          [] h.kind = "str_ret" ->
               write_code(parsed(declare_variable(w, "retval_ptr", <<>>), h.parse, ptr, FALSE),
                          "after_call", <<<<"copy", "retval", ptr>>>>)

\* convert_c_to_python of the return values: forward wrappers.
plain_return_c_to_python(w, r) ==
    LET h == PlainHandlers[r.h]
    IN  CASE h.kind = "void" -> w
          [] h.kind \in {"ret", "str_ret"} -> add_build(w, h.build, "retval", TRUE)
          [] h.kind = "ret_last" -> add_build(w, h.build, "retval", FALSE)
          [] h.kind = "bool_ret" -> add_build(w, "n", "retval", TRUE)
          [] h.kind = "obj_ret" -> add_build(w, IF r.own THEN "N" ELSE "O", "retval", TRUE)
=============================================================================
