--------------------------- MODULE GeneratorProps ----------------------------
(***************************************************************************)
(* What a pybindgen run promises.  The meaning of the declarations is C++'s *)
(* own (which class is abstract, what a type expression says) and Python's  *)
(* (which wrapper a call reaches); the model's operators are the code's.    *)
(*                                                                          *)
(* A predicate in a "Corner" comment names inputs for which the code does   *)
(* not keep the promise; the property says that there are no others.        *)
(***************************************************************************)
EXTENDS Generator

Classes  == {i \in DOMAIN objs : objs[i].kind = "class" /\ ~objs[i].imported}
Ancestry(c) == ToSet(get_mro(objs, c))

-----------------------------------------------------------------------------
(* C++ : the final overriders of a virtual function, one per base subobject. *)
RECURSIVE Final(_, _)
Final(c, sig) ==
    LET own == {m \in ToSet(objs[c].declared) : Signature(m) = sig}
    IN IF own # {} THEN own ELSE UNION {Final(b, sig) : b \in ToSet(objs[c].bases)}

Signatures(c) == UNION {{Signature(m) : m \in ToSet(objs[a].declared)} : a \in Ancestry(c)}
PureIn(c)   == {sig \in Signatures(c) : \E m \in Final(c, sig) : m.is_pure}
Abstract(c) == PureIn(c) # {}

(* Corner: two bases, one implements the function, in the other it is pure.  *)
OneBaseImplements(c) ==
    \E sig \in PureIn(c) : \E m \in Final(c, sig) : ~m.is_pure

(* Corner: an implementation is wrapped under another Python name.           *)
Renamed(c) == \E a \in Ancestry(c) : \E m \in ToSet(objs[a].declared) : m.mangled # m.name

(* Corner: a pure method of unknown type, given without is_virtual, is lost. *)
Forgotten(c) ==
    \E a \in Ancestry(c) : \E m \in ToSet(objs[a].declared) :
        m.is_pure /\ ~\E k \in ToSet(get_all_methods(objs[a]) \o objs[a].dummies) :
                          Signature(k) = Signature(m)

(* Corner: the pure method of an ancestor has no wrapper; its dummy is not   *)
(* inherited, and only a helper class of that ancestor would be disabled.    *)
AncestorDummy(c) ==
    \E a \in Ancestry(c) \ {c} : \E m \in ToSet(objs[a].dummies) : m.is_pure

(* A helper class that is generated compiles and can be instantiated: it has *)
(* a proxy for every pure virtual function of the class, and declares no     *)
(* function twice, through whichever bases it inherits it                    *)
(* (_inherit_helper_class_parent_virtuals, add_virtual_method).              *)
HelperCompiles ==
    phase = "generated" => \A c \in {d \in Classes : objs[d].helper.exists} :
        LET virtuals == objs[c].helper.virtuals IN
        /\ \/ AncestorDummy(c) \/ Forgotten(c)
           \/ \A sig \in PureIn(c) : \E v \in ToSet(virtuals) : Signature(v) = sig /\ v.proxy = "ok"
        /\ \/ Renamed(c)
           \/ \A i, j \in DOMAIN virtuals : i # j => Signature(virtuals[i]) # Signature(virtuals[j])

(* Corner: every constructor is private, or protected without a helper.      *)
AllHidden(c) ==
    /\ objs[c].constructors # <<>>
    /\ \A v \in ToSet(objs[c].constructors) :
          v = "private" \/ (v = "protected" /\ ~objs[c].helper.exists)

(* A generated constructor makes an instance of the class itself exactly when *)
(* the C++ class is not abstract (get_construct_name, generate_call), however *)
(* its methods and those of its bases were added and in whichever order; and  *)
(* a derived class never inherits the tp_init of its base, which would make   *)
(* an instance of the base (the comment in _generate_constructor).            *)
ConstructsOwnClass ==
    phase = "generated" => \A c \in Classes :
        /\ \/ OneBaseImplements(c) \/ Renamed(c) \/ Forgotten(c)
           \/ "public" \notin ToSet(objs[c].constructors)
           \/ (c \in out.itself) = ~Abstract(c)
        /\ objs[c].bases = <<>> \/ AllHidden(c) \/ out.inits[c] # "NULL"

-----------------------------------------------------------------------------
(* Corner: static and other methods share a Python name.                     *)
MixedStatic(ms, name) ==
    \E i, j \in DOMAIN ms : /\ ms[i].mangled = name /\ ms[j].mangled = name
                            /\ ms[i].static # ms[j].static

Generable(ms, name) == SelectSeq(OfName(ms, name), LAMBDA m : m.gen = "ok")
Reaches(table, ms) ==
    \A name \in Names(ms) : \/ MixedStatic(ms, name)
                            \/ Len(table[name].delegates) = Len(Generable(ms, name))

(* Every wrapper that can be generated is tried by the Python function of    *)
(* its name, whichever of its overloads cannot be (OverloadedWrapper).       *)
OverloadsReachable ==
    phase = "generated" =>
        /\ \A c \in Classes : /\ Reaches(out.tables[c].own, objs[c].methods)
                              /\ Reaches(out.tables[c].callers, objs[c].helper.callers)
        /\ \A n \in DOMAIN out.functions :
              Len(out.functions[n].delegates) =
                  Cardinality({i \in DOMAIN functions : /\ <<functions[i].module, functions[i].name>> = n
                                                       /\ functions[i].wrapper.gen = "ok"})

(* Corner: two ancestors give the name, or the class has it itself.          *)
NameContested(c, name) ==
    \/ name \in Names(objs[c].methods)
    \/ Cardinality({a \in Ancestry(c) \ {c} : name \in Names(objs[a].methods)}) > 1

(* A class with several bases has wrappers of its own for what it inherits:  *)
(* the wrapper of a base would take the object's pointer for a pointer to    *)
(* that base, which is right for the first base only                         *)
(* (_generate_MI_parent_methods).                                            *)
SecondBaseRewrapped ==
    phase = "generated" => \A c \in Classes : Len(objs[c].bases) > 1 =>
        \A a \in Ancestry(c) \ {c} : \A m \in ToSet(objs[a].methods) :
            \/ m.gen = "fails" \/ NameContested(c, m.mangled)
            \/ \E l \in ToSet(objs[c].nonpublic) : matches_signature(l, m)
            \/ /\ m.mangled \in DOMAIN out.tables[c].inherited
               /\ out.tables[c].inherited[m.mangled].result = "ok"

(* Corner: a container wrapped twice; a nested type whose outer class is     *)
(* imported or generated later; a static overload of another method.         *)
ContainerTwice == \E i, j \in DOMAIN objs : i < j /\ objs[i].kind = "container"
                                          /\ objs[j].kind = "container" /\ objs[i].full = objs[j].full
OuterElsewhere == \E i \in DOMAIN objs : /\ objs[i].outer # 0 /\ objs[i].kind # "enum"
                                         /\ \/ objs[objs[i].outer].imported
                                            \/ objs[objs[i].outer].module # objs[i].module
StaticOverload == \E i \in DOMAIN objs : \E m \in ToSet(objs[i].methods) :
                      MixedStatic(objs[i].methods, m.mangled)

(* With an error handler that asks to go on, generation does not fail,       *)
(* whatever cannot be wrapped ("ignore the error and move on to the next     *)
(* wrapper", settings.ErrorHandler); without one, nothing is left out        *)
(* silently.                                                                 *)
ErrorsHandled ==
    /\ phase = "failed" /\ handled => ContainerTwice \/ OuterElsewhere \/ StaticOverload
    /\ phase = "generated" /\ ~handled =>
          /\ \A i \in DOMAIN functions : functions[i].wrapper.gen = "ok"
          /\ \A c \in Classes : /\ \A m \in ToSet(objs[c].methods) : m.gen = "ok"
                                /\ objs[c].dummies = <<>>
                                /\ ~Forgotten(c)

-----------------------------------------------------------------------------
Position(i) == CHOOSE k \in DOMAIN out.order : out.order[k] = i

(* Corner: the module of the one is initialised after that of the other.     *)
LaterModule(i, j) ==
    \/ objs[j].module = Root /\ objs[i].module # Root
    \/ \E k, l \in DOMAIN submodules : /\ submodules[k] = objs[j].module
                                        /\ submodules[l] = objs[i].module /\ k < l

(* A class fits the classes it derives from: when the init function          *)
(* registers its type, its bases and the class it is nested in are ready     *)
(* (do_generate, the order of after_init); and it keeps the instance         *)
(* dictionary and the memory policy of a base, whose wrapper functions it    *)
(* inherits (CppClass.__init__).  Corners of the latter: a private           *)
(* destructor; several bases.                                                *)
FitsItsBases ==
    /\ phase = "generated" => \A i \in DOMAIN objs :
          \A b \in ToSet(objs[i].bases) \union ({objs[i].outer} \ {0}) :
              \/ objs[i].imported \/ LaterModule(b, i) \/ Position(b) < Position(i)
    /\ \A c \in Classes : \A a \in Ancestry(c) :
          \/ \E d \in Ancestry(c) : objs[d].destructor = "private" \/ Len(objs[d].bases) > 1
          \/ /\ objs[a].allow_subclassing => objs[c].allow_subclassing
             /\ objs[a].policy # "none" => objs[c].policy = objs[a].policy

-----------------------------------------------------------------------------
(* Corner: an earlier type of another scope has the name as its short name,  *)
(* or as a typedef.                                                          *)
ShadowedName(i) ==
    \E j \in 1 .. i - 1 : objs[i].full = <<objs[j].name>> \/ objs[i].full \in objs[j].typedefs
AliasedName(i) == \E j \in DOMAIN objs : objs[i].full \in objs[j].typedefs
SameFull(i) == \E j \in DOMAIN objs : j # i /\ objs[j].full = objs[i].full

(* Names linked by aliases, in either direction. *)
Linked(name) == {a[name] : a \in {f \in {aliases.aliases, aliases.aliases_rev} :
                                     name \in DOMAIN f}}
RECURSIVE Closure(_)
Closure(names) ==
    LET more == names \union UNION {Linked(n) : n \in names}
    IN IF more = names THEN names ELSE Closure(more)

(* Corner: a name with aliases both ways; the lookup takes one and does not  *)
(* come back.                                                                *)
Forks(names) == \E n \in names : Cardinality(Linked(n)) > 1

(* The full name of a type finds that type, in both matchers and in the root *)
(* module's dictionary, whatever else was registered before or after         *)
(* (register, register_alias, register_type); and a lookup through aliases   *)
(* ends, finds only a handler of a linked name, and finds one if there is    *)
(* one (_raw_lookup_with_alias_support).  Generation leaves all three alone. *)
NamesResolve ==
    phase = "script" =>
        /\ \A i \in DOMAIN objs : SameFull(i) \/
              /\ ShadowedName(i) \/ \A f \in alias_param_forms(objs[i].kind) :
                     lookup(aliases, params, <<objs[i].full>> \o Suffix(f)) = [who |-> i, form |-> f]
              /\ ShadowedName(i) \/ \A f \in return_forms(objs[i].kind) :
                     lookup(aliases, returns, <<objs[i].full>> \o Suffix(f)) = [who |-> i, form |-> f]
              /\ AliasedName(i) \/ types[Root][objs[i].full] = i
        /\ \A n \in DOMAIN aliases.aliases \union DOMAIN aliases.aliases_rev :
              LET found  == raw_lookup(aliases, params, n, {})
                  linked == Closure({n}) \intersect DOMAIN params
              IN IF found = Missing THEN linked = {} \/ Forks(Closure({n}))
                 ELSE \E k \in linked : found = params[k]

-----------------------------------------------------------------------------
(* The meaning of a type expression: a name with template arguments and      *)
(* qualifiers, and a sequence of operators each with its own const.  Its     *)
(* canonical form writes the qualifiers after what they qualify.             *)
If(cond, toks) == IF cond THEN toks ELSE <<>>

RECURSIVE Canonical(_)
Canonical(t) ==
    <<t.name>>
    \o If(t.args # <<>>, <<Less>>)
    \o FlattenSeq([i \in DOMAIN t.args |-> If(i > 1, <<Comma>>) \o Canonical(t.args[i])])
    \o If(t.args # <<>>, <<More>>)
    \o If(t.const, <<Const>>) \o If(t.volatile, <<Volatile>>)
    \o FlattenSeq([i \in DOMAIN t.ops |-> <<t.ops[i].op>> \o If(t.ops[i].const, <<Const>>)])

(* Corner: two equal characters touch ("char **", "A<B<int>>").              *)
Touching(text) == \E i \in 1 .. Len(text) - 1 : text[i] = text[i + 1] /\ text[i] \in Doubling

(* Const at one level of the type, 0 for the outermost. *)
ConstAt(t, level) == LET n == Len(t.ops) - level IN
                     IF n > 0 THEN t.ops[n].const ELSE n = 0 /\ t.const
Bare(t) == [t EXCEPT !.const = FALSE, !.volatile = FALSE,
                     !.ops = [i \in DOMAIN @ |-> [@[i] EXCEPT !.const = FALSE]]]
LastOp(t) == IF t.ops = <<>> THEN <<>> ELSE Last(t.ops).op

(* However a type is spelled, its normal form is the same (the promise of    *)
(* normalize_type_string: "two type strings match regardless of small        *)
(* variations of representation that do not change the meaning"); and its    *)
(* traits say what C++ says of it: constness of the type and of its target,  *)
(* pointer, reference, and the target (TypeTraits).  The deprecated is_const *)
(* means the same whether a handler is given the traits or the string        *)
(* (TypeHandler.__init__).  Corners of the latter: two operators, a volatile *)
(* type, a type that is const already.                                       *)
TypesUnderstood ==
    spelled.text # <<>> /\ ~Touching(spelled.text) =>
        LET t == spelled.type IN
        /\ spelled.read # <<>> /\ spelled.read.normal = Canonical(t)
        /\ spelled.read.flags = [type_is_const     |-> ConstAt(t, 0),
                                 target_is_const   |-> ConstAt(t, 1),
                                 type_is_pointer   |-> LastOp(t) = Star,
                                 type_is_reference |-> LastOp(t) = Amp]
        /\ spelled.read.bare = Canonical(Bare(t))
        /\ t.ops # <<>> => spelled.read.target = Canonical([Bare(t) EXCEPT !.ops = Front(@)])
        /\ Len(t.ops) < 2 /\ ~t.volatile /\ ~t.const /\ ~ConstAt(t, 0) =>
              spelled.read.made = spelled.read.string
=============================================================================
