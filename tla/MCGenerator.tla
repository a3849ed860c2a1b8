----------------------------- MODULE MCGenerator -----------------------------
(* Instances of Generator: one catalogue per family of declarations.  The   *)
(* calls name objects by the order of their creation, so another order of   *)
(* the same calls is another hierarchy.                                      *)
EXTENDS GeneratorProps

Nowhere == <<"Unknown">>

Class(module, name, bases) ==
    [op |-> "add_class", module |-> module, name |-> name, bases |-> bases, outer |-> 0,
     allow |-> "default", singleton |-> FALSE, imported |-> FALSE, policy |-> "none",
     destructor |-> "public", struct |-> TRUE]
Subclassable(c) == [c EXCEPT !.allow = "yes"]

Method(name) ==
    [name |-> name, mangled |-> name, arg |-> <<IntType>>, is_const |-> FALSE,
     is_virtual |-> FALSE, is_pure |-> FALSE, visibility |-> "public", static |-> FALSE,
     gen |-> "ok", proxy |-> "ok", class_ |-> 0, dummy |-> FALSE]
Virtual(m) == [m EXCEPT !.is_virtual = TRUE]
Pure(m)    == [m EXCEPT !.is_virtual = TRUE, !.is_pure = TRUE]
Add(class, m) == [op |-> "add_method", class |-> class, method |-> m, says_virtual |-> m.is_virtual]

Within(call, outer) == [call EXCEPT !.outer = outer]
Type(op, module, name) ==
    [op |-> op, module |-> module, name |-> name, bases |-> <<>>, outer |-> 0,
     value |-> <<IntType>>, definitive |-> FALSE]
Namespace(name) == [op |-> "add_cpp_namespace", name |-> name]
Fn(name, arg, gen, custom) ==
    [op |-> "add_function", module |-> Root, name |-> name, arg |-> arg, gen |-> gen,
     custom |-> custom]
Ctor(class, vis) == [op |-> "add_constructor", class |-> class, visibility |-> vis]
Alias(from, to) == [op |-> "add_type_alias", from |-> <<from>>, to |-> <<to>>]

(* A pure virtual method, its implementation, and a diamond.                 *)
Inheritance ==
    {Subclassable(Class(Root, "A", <<>>)), Class(Root, "B", <<1>>), Class(Root, "D", <<1>>),
     Class(Root, "E", <<2, 3>>), Class(Root, "F", <<>>), Class(Root, "G", <<1, 2>>),
     Add(1, Pure(Method("f"))), Add(2, Virtual(Method("f"))),
     Add(3, [Virtual(Method("f")) EXCEPT !.mangled = "other"]),
     Add(2, [Virtual(Method("h")) EXCEPT !.visibility = "protected"]), Add(3, Method("g")),
     Add(4, Virtual(Method("v"))), Add(2, [Method("p") EXCEPT !.visibility = "protected"])}

(* Methods that cannot be wrapped, helper classes taken away, constructors.  *)
Dummies ==
    {Subclassable(Class(Root, "A", <<>>)), Class(Root, "A0", <<>>),
     Subclassable(Class(Root, "B", <<1>>)),
     Add(1, [Pure(Method("f")) EXCEPT !.arg = <<Nowhere>>]),
     [Add(1, [Pure(Method("g")) EXCEPT !.arg = <<Nowhere>>]) EXCEPT !.says_virtual = FALSE],
     Add(1, [Pure(Method("k")) EXCEPT !.proxy = "fails"]), Add(2, Virtual(Method("f"))),
     Add(2, [Virtual(Method("f")) EXCEPT !.arg = <<Nowhere>>]),
     [op |-> "set_helper_class_disabled", class |-> 1]}

Constructors ==
    {Subclassable(Class(Root, "A", <<>>)), [Class(Root, "B", <<1>>) EXCEPT !.struct = FALSE],
     Ctor(2, "private"), Ctor(2, "protected"), Ctor(2, "public"),
     Add(2, Pure(Method("f"))), [op |-> "set_helper_class_disabled", class |-> 1]}

Policies ==
    {Subclassable(Class(Root, "A", <<>>)), Class(Root, "B", <<1>>), Class(Root, "M", <<1, 2>>),
     [Class(Root, "C", <<1>>) EXCEPT !.policy = "refcount"],
     [Class(Root, "P", <<>>) EXCEPT !.policy = "free", !.singleton = TRUE],
     [Class(Root, "D", <<1>>) EXCEPT !.allow = "no"],
     [Class(Root, "X", <<2>>) EXCEPT !.destructor = "private"]}

(* The same short name in two scopes, typedefs, containers.                  *)
ScopedNames ==
    {Namespace("n"), Class("n", "A", <<>>), Class(Root, "A", <<>>), Type("add_enum", "n", "E"),
     Type("add_enum", Root, "E"), Type("add_enum", "n", "A"),
     [op |-> "add_typedef", module |-> "n", class |-> 1, name |-> "E"],
     [Type("add_container", Root, "V") EXCEPT !.definitive = TRUE],
     [Type("add_container", "n", "V") EXCEPT !.definitive = TRUE]}

AliasChains ==
    {Class(Root, "A", <<>>), Alias(<<"A">>, <<"T">>), Alias(<<"T">>, <<"U">>),
     Alias(IntType, <<"T">>), Alias(<<"U">>, <<"A">>), Alias(<<"U">>, <<"W">>),
     Fn("fn", <<<<"U">>>>, "ok", FALSE),
     [Type("add_container", Root, "L") EXCEPT !.value = <<<<"T">>>>]}

OverloadSets ==
    {Class(Root, "A", <<>>), Add(1, [Method("m") EXCEPT !.static = TRUE]),
     Add(1, [Method("m") EXCEPT !.is_const = TRUE]),
     Add(1, [Method("m") EXCEPT !.arg = <<IntType, Star>>, !.gen = "fails"]),
     Fn("fn", <<IntType>>, "ok", FALSE), Fn("fn", <<IntType, Star>>, "fails", FALSE),
     Fn("fn", <<IntType>>, "ok", TRUE), Fn("fn", <<Nowhere>>, "ok", FALSE)}

ModuleTrees ==
    {Namespace("n"), Namespace("k"), Class("k", "A", <<>>), Class("n", "B", <<1>>),
     Class(Root, "C", <<1>>), Within(Class(Root, "D", <<>>), 1),
     [Class(Root, "I", <<>>) EXCEPT !.imported = TRUE],
     Type("add_exception", Root, "X"), [Type("add_exception", "k", "Y") EXCEPT !.bases = <<1>>],
     Within(Type("add_exception", Root, "Z"), 1), Within(Type("add_container", Root, "L"), 1),
     Within(Type("add_enum", "k", "E"), 1)}

MCCatalogues == {Inheritance, Dummies, Constructors, Policies, ScopedNames, AliasChains,
                 OverloadSets, ModuleTrees, {}}
MCCalls == UNION MCCatalogues

-----------------------------------------------------------------------------
(* Types with up to two operators or two template arguments, in every        *)
(* spelling: qualifiers before or after, with and without blanks, ::A for A. *)
Plain(name, const, volatile) ==
    [name |-> name, const |-> const, volatile |-> volatile, args |-> <<>>, ops |-> <<>>]
Op(op, const) == [op |-> op, const |-> const]

Level1 == {<<Op(op, c)>> : op \in Operators, c \in BOOLEAN}
OpSeqs == {<<>>} \union Level1 \union {a \o b : a \in {<<Op(Star, c)>> : c \in BOOLEAN}, b \in Level1}

ArgTypes == {Plain(<<"int">>, FALSE, FALSE),
             [Plain(<<"A">>, TRUE, FALSE) EXCEPT !.ops = <<Op(Star, FALSE)>>]}
Inner == [Plain(<<"n", "B">>, FALSE, FALSE) EXCEPT !.args = <<Plain(<<"int">>, FALSE, FALSE)>>]
TypesSpelled ==
    {[Plain(<<"A">>, c, v) EXCEPT !.ops = ops] : c, v \in BOOLEAN, ops \in OpSeqs} \union
    {[Plain(<<"n", "B">>, c, FALSE) EXCEPT !.args = args, !.ops = ops] :
        c \in BOOLEAN, ops \in {<<>>, <<Op(Amp, FALSE)>>},
        args \in {<<Inner>>} \union {<<a>> : a \in ArgTypes} \union
                 {<<a, b>> : a \in ArgTypes, b \in {Inner}}}

RECURSIVE Spellings(_), OpSpellings(_), ArgSpellings(_)
OpSpellings(ops) ==
    IF ops = <<>> THEN {<<>>}
    ELSE {blank \o <<Head(ops).op>> \o If(Head(ops).const, <<Const>>) \o rest :
             blank \in {<<>>, <<Blank>>}, rest \in OpSpellings(Tail(ops))}
ArgSpellings(args) ==
    IF args = <<>> THEN {<<>>}
    ELSE {arg \o If(Len(args) > 1, <<Comma>>) \o rest :
             arg \in Spellings(Head(args)), rest \in ArgSpellings(Tail(args))}
Spellings(t) ==
    LET names == {<<t.name>>} \union (IF Len(t.name) = 1 /\ t.args = <<>>
                                     THEN {<<<<"">> \o t.name>>} ELSE {})
        lists == IF t.args = <<>> THEN {<<>>}
                 ELSE {<<Less>> \o a \o blank \o <<More>> :
                         a \in ArgSpellings(t.args), blank \in {<<>>, <<Blank>>}}
        quals == If(t.const, <<Const>>) \o If(t.volatile, <<Volatile>>)
        Around(core) == {SubSeq(q, 1, i) \o core \o SubSeq(q, i + 1, Len(q)) :
                            q \in {quals, Reverse(quals)}, i \in 0 .. Len(quals)}
    IN {base \o ops : base \in UNION {Around(n \o l) : n \in names, l \in lists},
                      ops \in OpSpellings(t.ops)}

MCSpelled == UNION {{[type |-> t, text |-> s] : s \in Spellings(t)} : t \in TypesSpelled}
=============================================================================
