----------------------------- MODULE CppClasses ------------------------------
(***************************************************************************)
(* Class wrappers (cppclass.py): the methods a script adds to a class, the  *)
(* helper class that forwards its virtual methods to Python, and what the   *)
(* generator makes of its constructors and methods.                         *)
(*                                                                          *)
(* objs is the sequence of wrapper objects in the order of their creation;  *)
(* an object is named by its index.  A method is                            *)
(*   [name, mangled, arg, is_const, is_virtual, is_pure, visibility,        *)
(*    static, gen, proxy, class_, dummy]                                    *)
(* where mangled is the Python name (custom_name when there is one), arg the*)
(* type of its parameter, and gen and proxy what generating the wrapper and *)
(* the virtual proxy does ("ok" or "fails").                                *)
(***************************************************************************)
EXTENDS TypeMatcher, Overloading

(* CppClass.get_mro: breadth first; a base reached twice before its visit    *)
(* appears twice.                                                            *)
RECURSIVE mro_from(_, _, _)
mro_from(objs, to_visit, visited) ==
    IF to_visit = <<>> THEN <<>>
    ELSE LET cls  == Head(to_visit)
             seen == visited \union {cls}
         IN <<cls>> \o mro_from(objs, Tail(to_visit) \o
                                  SelectSeq(objs[cls].bases, LAMBDA b : b \notin seen), seen)
get_mro(objs, c) == mro_from(objs, <<c>>, {})

get_all_methods(o) == o.methods \o o.nonpublic

matches_signature(m, other) ==
    m.mangled = other.mangled /\ m.arg = other.arg /\ m.is_const = other.is_const

-----------------------------------------------------------------------------
(* The helper class.  Every virtual method it has is a proxy; callers are    *)
(* the parent callers, which forget constness, staticness and custom names.  *)

NoHelper  == [exists |-> FALSE, cannot |-> FALSE, virtuals |-> <<>>, callers |-> <<>>]
NewHelper == [NoHelper EXCEPT !.exists = TRUE]

parent_caller(m) == [m EXCEPT !.mangled = m.name, !.is_const = FALSE, !.static = FALSE]

add_virtual_parent_caller(h, m) ==
    IF \E e \in ToSet(h.callers) : matches_signature(parent_caller(m), e) THEN h
    ELSE [h EXCEPT !.callers = Append(@, parent_caller(m))]
add_virtual_method(h, m) ==
    IF \E e \in ToSet(h.virtuals) : matches_signature(m, e) THEN h
    ELSE IF m.dummy THEN [h EXCEPT !.cannot = @ \/ m.is_pure]
    ELSE LET with == [h EXCEPT !.virtuals = Append(@, m)]
         IN IF ~m.is_pure /\ m.visibility = "protected"
            THEN add_virtual_parent_caller(with, m) ELSE with
(* get_helper_class: none when the class or an ancestor has it disabled,     *)
(* when subclassing is not allowed, or for a singleton without one.          *)
get_helper_class(objs, c) ==
    IF (\E a \in ToSet(get_mro(objs, c)) : objs[a].disabled) \/ ~objs[c].allow_subclassing
    THEN NoHelper
    ELSE IF objs[c].helper.exists \/ objs[c].is_singleton THEN objs[c].helper ELSE NewHelper

drop_helper(o) == [o EXCEPT !.helper = NoHelper, !.disabled = TRUE]

-----------------------------------------------------------------------------
(* Adding a method.                                                          *)

_add_method_obj(objs, c, m) ==
    LET helper == get_helper_class(objs, c)
        kept == IF m.visibility = "public" THEN [objs[c] EXCEPT !.methods = Append(@, m)]
                ELSE IF m.visibility = "protected" /\ ~m.is_virtual THEN objs[c]
                ELSE [objs[c] EXCEPT !.nonpublic = Append(@, m)]
        grown == IF m.is_virtual THEN add_virtual_method(helper, m)
                 ELSE add_virtual_parent_caller(helper, m)
        uses_helper == m.is_virtual \/ m.visibility = "protected"
    IN [objs EXCEPT ![c] = IF uses_helper /\ helper.exists
                           THEN [kept EXCEPT !.helper = grown] ELSE kept]

(* A virtual method whose types are not known is kept as a dummy; a pure one *)
(* takes the helper class away for good.                                     *)
add_dummy_method(objs, c, m) ==
    LET dummy  == [m EXCEPT !.dummy = TRUE]
        kept   == [objs[c] EXCEPT !.dummies = Append(@, dummy)]
        helper == get_helper_class(objs, c)
        grown  == add_virtual_method(helper, dummy)
    IN [objs EXCEPT ![c] = IF ~helper.exists THEN kept
                           ELSE IF grown.cannot THEN drop_helper(kept)
                           ELSE [kept EXCEPT !.helper = grown]]

-----------------------------------------------------------------------------
(* A variant: only the methods of the class itself count. *)
OwnPureOnly(objs, c) == \E m \in ToSet(get_all_methods(objs[c])) : m.is_pure

(* get_have_pure_virtual_methods walks the reversed MRO: a pure method is    *)
(* implemented when any class after its own has a virtual method with its    *)
(* signature that is not pure.                                               *)
have_pure_virtual_methods(objs, c) ==
    LET mro  == Reverse(get_mro(objs, c))
        Of(i) == ToSet(get_all_methods(objs[mro[i]]) \o objs[mro[i]].dummies)
        implemented(m, pos) == \E i \in pos + 1 .. Len(mro) : \E k \in Of(i) :
                                  k.is_virtual /\ ~k.is_pure /\ matches_signature(k, m)
    IN \E pos \in DOMAIN mro : \E m \in Of(pos) : m.is_pure /\ ~implemented(m, pos)

clone(m) == [m EXCEPT !.mangled = m.name]
(* A variant: only the first base is inherited from. *)
FirstBaseVirtuals(objs, c) ==
    FoldLeft(LAMBDA h, m : IF m.is_virtual THEN add_virtual_method(h, clone(m)) ELSE h,
             objs[c].helper,
             IF objs[c].bases = <<>> THEN <<>> ELSE get_all_methods(objs[Head(objs[c].bases)]))

(* _inherit_helper_class_parent_virtuals: clones of the ancestors' virtual   *)
(* methods; their dummies are not among get_all_methods.                     *)
_inherit_helper_class_parent_virtuals(objs, c) ==
    LET parents == Tail(get_mro(objs, c))
        all     == FlattenSeq([i \in DOMAIN parents |-> get_all_methods(objs[parents[i]])])
    IN FoldLeft(LAMBDA h, m : IF m.is_virtual THEN add_virtual_method(h, clone(m)) ELSE h,
                objs[c].helper, all)

(* Generating a helper class: a proxy or a parent caller that cannot be      *)
(* generated is left out, unless nobody handles the error; a pure virtual    *)
(* one makes the helper class useless.                                       *)
helper_declarations(o, h, handled) ==
    IF o.imported THEN "ok"
    ELSE IF ~handled /\ (   (\E m \in ToSet(h.callers) : m.gen = "fails")
                         \/ \E m \in ToSet(h.virtuals) : m.proxy = "fails") THEN "raised"
    ELSE IF \E m \in ToSet(h.virtuals) : m.proxy = "fails" /\ m.is_pure THEN "cannot"
    ELSE "ok"

(* CppClass.generate_forward_declarations *)
class_forward_declarations(objs, c, handled) ==
    LET helper  == _inherit_helper_class_parent_virtuals(objs, c)
        result  == IF objs[c].helper.exists THEN helper_declarations(objs[c], helper, handled)
                   ELSE "ok"
        settled == IF ~objs[c].helper.exists THEN objs[c]
                   ELSE IF result = "cannot" \/ helper.cannot THEN drop_helper(objs[c])
                   ELSE [objs[c] EXCEPT !.helper = helper]
        cannot  == have_pure_virtual_methods(objs, c) /\ ~settled.helper.exists
    IN [objs   |-> [objs EXCEPT ![c] = [settled EXCEPT !.cannot = @ \/ cannot]],
        result |-> IF result = "raised" THEN "raised" ELSE "ok"]

-----------------------------------------------------------------------------
(* What is generated of a class. *)

(* CppConstructor.generate *)
constructor_wrapper(o, vis) ==
    [gen |-> IF vis = "private" \/ (vis = "protected" /\ ~o.helper.exists) THEN "skip" ELSE "ok",
     static |-> FALSE, custom |-> FALSE]
(* _generate_constructor: the tp_init of the type. *)
_generate_constructor(o, handled) ==
    LET overload == generate_overload([i \in DOMAIN o.constructors |->
                        constructor_wrapper(o, o.constructors[i])], handled)
    IN IF o.constructors = <<>> \/ (o.cannot /\ ~o.helper.exists) THEN "no_constructor"
       ELSE IF overload.result = "ok" THEN "init" ELSE "NULL"

(* The tp_init makes an instance of the class itself, not of the helper. *)
constructs_itself(objs, c, handled) ==
    /\ _generate_constructor(objs[c], handled) = "init"
    /\ "public" \in ToSet(objs[c].constructors)
    /\ ~objs[c].cannot /\ ~have_pure_virtual_methods(objs, c)

method_wrapper(m) == [gen |-> m.gen, static |-> m.static, custom |-> FALSE]

Names(ms) == {ms[i].mangled : i \in DOMAIN ms}
OfName(ms, name) == SelectSeq(ms, LAMBDA m : m.mangled = name)

generate_methods(ms, handled) ==
    [name \in Names(ms) |-> generate_overload([i \in DOMAIN OfName(ms, name) |->
                               method_wrapper(OfName(ms, name)[i])], handled)]
(* A variant: only the first base's methods are wrapped again. *)
FirstBaseMethods(objs, c) ==
    IF Len(objs[c].bases) < 2 THEN <<>>
    ELSE SelectSeq(objs[Head(objs[c].bases)].methods,
                   LAMBDA m : m.mangled \notin Names(objs[c].methods))

(* _generate_MI_parent_methods: a class with several bases gets its own      *)
(* wrappers of the methods of its ancestors.  The clone of a method whose    *)
(* name the class already has goes to the overload that was generated        *)
(* before, and a name that two ancestors give is left out.                   *)
MI_parent_methods(objs, c) ==
    LET o == objs[c]
        ancestors == Tail(get_mro(objs, c))
        Wrapped(m) == \/ \E l \in ToSet(o.nonpublic) : matches_signature(l, m)
                      \/ m.mangled \in Names(o.methods)
        Of(a) == SelectSeq(objs[a].methods, LAMBDA m : ~Wrapped(m))
        all == FlattenSeq([i \in DOMAIN ancestors |-> Of(ancestors[i])])
        Givers(name) == {a \in ToSet(ancestors) : name \in Names(Of(a))}
    IN IF Len(o.bases) < 2 THEN <<>>
       ELSE SelectSeq(all, LAMBDA m : Cardinality(Givers(m.mangled)) = 1)
=============================================================================
