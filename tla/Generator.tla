------------------------------ MODULE Generator -------------------------------
(***************************************************************************)
(* A pybindgen run.  A script declares C++ types and functions to a module  *)
(* tree (module.py); then Module.generate writes the extension module, or   *)
(* fails.  The script is any sequence of at most MaxCalls of the calls of   *)
(* one catalogue, so every order of the calls is explored.  Objects are     *)
(* named by the order of their creation.                                    *)
(*                                                                          *)
(* With an empty catalogue all that happens is that a type is spelled       *)
(* (WriteType): that part is about the parser of type names alone.          *)
(***************************************************************************)
EXTENDS CppClasses

CONSTANTS Catalogues,   \* sets of calls a script chooses from
          Calls,        \* all the calls
          Handlers,     \* settings.error_handler: TRUE asks to go on, FALSE is None
          Spelled,      \* spellings of types: records [type, text]
          MaxCalls      \* bound on the length of a script

VARIABLES catalogue,    \* the calls of this script
          handled,      \* settings.error_handler
          calls,        \* how many calls were made
          phase,        \* "script", "raised" (the script failed), "failed", "generated"
          spelled,      \* what WriteType wrote, and what was read of it
          objs,         \* the wrapper objects
          submodules,   \* names of the submodules of the root module
          params,       \* param_type_matcher: normalised name -> handler
          returns,      \* return_type_matcher
          aliases,      \* the aliases of both matchers, [aliases, aliases_rev]
          types,        \* module -> the types registered with register_type
          functions,    \* the function wrappers of all modules
          out           \* what was generated

vars == <<catalogue, handled, calls, phase, spelled, objs, submodules, params,
          returns, aliases, types, functions, out>>

IntType == <<"int">>
Root == "root"
NotSpelled == [type |-> <<>>, text |-> <<>>, read |-> <<>>]
NoOutput == [inits |-> <<>>, itself |-> {}, tables |-> <<>>, functions |-> <<>>, order |-> <<>>]

Init ==
    /\ catalogue \in Catalogues /\ handled \in Handlers
    /\ calls = 0 /\ phase = "script" /\ spelled = NotSpelled
    /\ objs = <<>> /\ submodules = <<>> /\ functions = <<>> /\ out = NoOutput
    /\ params  = [k \in {Key(IntType, f) : f \in {"value", "ref", "ptr"}} |-> Builtin("value")]
    /\ returns = [k \in {Key(IntType, "value")} |-> Builtin("value")]
    /\ aliases = [aliases |-> << >>, aliases_rev |-> << >>]
    /\ types = [m \in {Root} |-> << >>]

-----------------------------------------------------------------------------
(* Calls of the script.                                                      *)

(* A C++ scope has one type of a name, and a class one member function of a  *)
(* signature: the script never declares the same one twice.  Only containers *)
(* with a qualified name, such as std::vector<int>, may be wrapped again.    *)
Fresh(name) == \A i \in DOMAIN objs : objs[i].full # name
Signature(m) == <<m.name, m.arg, m.is_const>>
FreshMethod(class, m) ==
    \A i \in DOMAIN objs[class].declared : Signature(objs[class].declared[i]) # Signature(m)

IsClass(id) == id \in DOMAIN objs /\ objs[id].kind = "class"
InModule(m) == m = Root \/ m \in ToSet(submodules)

calling(c) == /\ phase = "script" /\ calls < MaxCalls
              /\ c \in catalogue
              /\ calls' = calls + 1

Raise == /\ phase' = "raised"
         /\ UNCHANGED <<objs, params, returns, types, functions>>

(* The call has no effect: a SkipWrapper was caught. *)
Skip == UNCHANGED <<phase, objs, params, returns, types, functions>>

(* Full names (_update_names). *)
full_name(c) == (IF c.outer # 0 THEN objs[c.outer].full
                 ELSE IF c.module = Root THEN <<>> ELSE <<c.module>>) \o <<c.name>>

(* register_type: the short name in the module, the full name also in its    *)
(* parent; the last registration wins.                                       *)
register_type(dict, module, short, full, id) ==
    [m \in DOMAIN dict |->
        (IF m \in {module, Root} THEN full :> id ELSE << >>) @@
        (IF m = module /\ short # <<>> THEN short :> id ELSE << >>) @@ dict[m]]

NewObj == [kind |-> "class", module |-> Root, name |-> "", full |-> <<>>, bases |-> <<>>,
           outer |-> 0, allow_subclassing |-> FALSE, is_singleton |-> FALSE,
           imported |-> FALSE, policy |-> "none", destructor |-> "public",
           disabled |-> FALSE, cannot |-> FALSE, helper |-> NoHelper, methods |-> <<>>,
           nonpublic |-> <<>>, dummies |-> <<>>, constructors |-> <<>>, declared |-> <<>>,
           typedefs |-> {}]

(* The constructor of a wrapper registers the short name, giving it a module *)
(* registers the full name, and the module's dictionary comes last.          *)
register_object(c, o) ==
    LET id == Len(objs) + 1
        short == IF o.kind = "container" /\ c.definitive THEN o.full ELSE <<c.name>>
    IN /\ objs' = Append(objs, o)
       /\ params'  = register(register(params, short, param_forms(o.kind), id),
                              o.full, alias_param_forms(o.kind), id)
       /\ returns' = register(register(returns, short, return_forms(o.kind), id),
                              o.full, return_forms(o.kind), id)
       /\ types' = register_type(types, c.module, <<c.name>>, o.full, id)
(* CppClass.__init__ (add_struct adds a trivial and a copy constructor):     *)
(* subclassing and the memory policy come from the bases.                    *)
inherited_policy(bases) ==
    LET with == SelectSeq(bases, LAMBDA b : objs[b].policy # "none")
    IN IF with = <<>> THEN "none" ELSE objs[Head(with)].policy

allow_subclassing(c) ==
    /\ \/ c.allow = "yes"
       \/ c.allow = "default" /\ c.bases # <<>> /\ objs[Head(c.bases)].allow_subclassing
    /\ c.destructor \in {"public", "protected"}

class_refused(c) ==
    \/ c.policy # "none" /\ inherited_policy(c.bases) # "none"
    \/ c.allow = "no" /\ \E b \in ToSet(c.bases) : objs[b].allow_subclassing

new_class(c) ==
    [NewObj EXCEPT !.module = c.module, !.name = c.name, !.full = full_name(c),
        !.bases = c.bases, !.outer = c.outer,
        !.allow_subclassing = allow_subclassing(c),
        !.policy = IF inherited_policy(c.bases) # "none" THEN inherited_policy(c.bases)
                   ELSE c.policy,
        !.is_singleton = c.singleton, !.imported = c.imported,
        !.destructor = c.destructor,
        !.constructors = IF c.struct THEN <<"public", "public">> ELSE <<>>]

(* add_class, add_struct *)
add_class(c) ==
    /\ c.op = "add_class" /\ calling(c) /\ InModule(c.module)
    /\ \A b \in ToSet(c.bases) \union ({c.outer} \ {0}) : IsClass(b)
    /\ Fresh(full_name(c))
    /\ IF class_refused(c) THEN Raise
       ELSE register_object(c, new_class(c)) /\ UNCHANGED <<phase, functions>>
    /\ UNCHANGED <<catalogue, handled, spelled, submodules, aliases, out>>

(* Enum.set_module registers the full name strictly: a name that is taken    *)
(* raises ValueError.  Then the short name, leniently.                       *)
enum_refused(c) ==
    \/ registered(params, full_name(c), param_forms("enum"))
    \/ registered(returns, full_name(c), return_forms("enum"))

add_enum(c) ==
    /\ c.op = "add_enum" /\ calling(c) /\ InModule(c.module)
    /\ (c.outer # 0 => IsClass(c.outer)) /\ Fresh(full_name(c))
    /\ IF enum_refused(c) THEN Raise
       ELSE /\ register_object(c, [NewObj EXCEPT !.kind = "enum", !.module = c.module,
                   !.name = c.name, !.full = full_name(c), !.outer = c.outer])
            /\ UNCHANGED <<phase, functions>>
    /\ UNCHANGED <<catalogue, handled, spelled, submodules, aliases, out>>

(* eval_retval and eval_param: a type without a handler is an error, which   *)
(* the handler turns into SkipWrapper.                                       *)
unknown(matcher, text) == lookup(aliases, matcher, text) = Missing
Unresolved == IF handled THEN Skip ELSE Raise

add_container(c) ==
    /\ c.op = "add_container" /\ calling(c) /\ InModule(c.module)
    /\ (c.outer # 0 => IsClass(c.outer)) /\ (c.definitive \/ Fresh(full_name(c)))
    /\ IF unknown(returns, c.value) THEN Unresolved
       ELSE /\ register_object(c, [NewObj EXCEPT !.kind = "container", !.module = c.module,
                   !.name = c.name, !.outer = c.outer,
                   !.full = IF c.definitive THEN <<"std", c.name>> ELSE full_name(c)])
            /\ UNCHANGED <<phase, functions>>
    /\ UNCHANGED <<catalogue, handled, spelled, submodules, aliases, out>>

add_exception(c) ==
    /\ c.op = "add_exception" /\ calling(c) /\ InModule(c.module)
    /\ (c.outer # 0 => IsClass(c.outer)) /\ Fresh(full_name(c))
    /\ \A b \in ToSet(c.bases) : b \in DOMAIN objs /\ objs[b].kind = "exception"
    /\ register_object(c, [NewObj EXCEPT !.kind = "exception", !.module = c.module,
           !.name = c.name, !.full = full_name(c), !.outer = c.outer, !.bases = c.bases])
    /\ UNCHANGED <<catalogue, handled, spelled, submodules, aliases, out, phase, functions>>

(* add_typedef: the alias and its full name become names of the class.       *)
add_typedef(c) ==
    /\ c.op = "add_typedef" /\ calling(c) /\ InModule(c.module) /\ IsClass(c.class)
    /\ LET short == <<c.name>>
           full  == (IF c.module = Root THEN <<>> ELSE <<c.module>>) \o <<c.name>>
           home  == objs[c.class].module
           Both(matcher) == register(register(matcher, short, param_forms("class"), c.class),
                                     full, param_forms("class"), c.class)
       IN /\ Fresh(full)
          /\ objs' = [objs EXCEPT ![c.class].typedefs = @ \union {short, full}]
          /\ params' = Both(params) /\ returns' = Both(returns)
          /\ types' = register_type(register_type(register_type(types, c.module, short, short,
                        c.class), home, <<>>, short, c.class), home, <<>>, full, c.class)
    /\ UNCHANGED <<catalogue, handled, spelled, submodules, aliases, out, phase, functions>>

add_cpp_namespace(c) ==
    /\ c.op = "add_cpp_namespace" /\ calling(c)
    /\ IF InModule(c.name) THEN UNCHANGED <<submodules, types>>
       ELSE submodules' = Append(submodules, c.name) /\ types' = types @@ (c.name :> << >>)
    /\ UNCHANGED <<catalogue, handled, spelled, aliases, out, phase, functions, objs,
                   params, returns>>

(* add_type_alias tells both matchers, as the parser of header files does    *)
(* for every typedef.                                                        *)
add_alias(c) ==
    /\ c.op = "add_type_alias" /\ calling(c)
    /\ aliases' = add_type_alias(aliases, c.from, c.to)
    /\ UNCHANGED <<catalogue, handled, spelled, submodules, out, phase, functions, objs,
                   params, returns, types>>

add_function(c) ==
    /\ c.op = "add_function" /\ calling(c) /\ InModule(c.module)
    /\ IF ~c.custom /\ unknown(params, c.arg) THEN Unresolved
       ELSE /\ functions' = Append(functions, [module |-> c.module, name |-> c.name,
                   wrapper |-> [gen |-> c.gen, static |-> FALSE, custom |-> c.custom]])
            /\ UNCHANGED <<phase, objs, params, returns, types>>
    /\ UNCHANGED <<catalogue, handled, spelled, submodules, aliases, out>>

(* add_method.  `declared' keeps what the script said of the C++ class, also *)
(* when the method is dropped.  CppMethod makes a pure virtual method        *)
(* virtual when is_virtual is not given; the caller's own test of is_virtual *)
(* does not.                                                                 *)
add_method(c) ==
    /\ c.op = "add_method" /\ calling(c) /\ IsClass(c.class)
    /\ FreshMethod(c.class, c.method)
    /\ LET m == [c.method EXCEPT !.class_ = c.class]
           said == [objs EXCEPT ![c.class].declared = Append(@, m)]
       IN IF ~unknown(params, m.arg)
          THEN objs' = _add_method_obj(said, c.class, m) /\ UNCHANGED phase
          ELSE IF ~handled THEN phase' = "raised" /\ UNCHANGED objs
          ELSE /\ objs' = IF c.says_virtual THEN add_dummy_method(said, c.class, m) ELSE said
               /\ UNCHANGED phase
    /\ UNCHANGED <<catalogue, handled, spelled, submodules, aliases, out, params, returns,
                   types, functions>>

add_constructor(c) ==
    /\ c.op = "add_constructor" /\ calling(c) /\ IsClass(c.class)
    /\ objs' = [objs EXCEPT ![c.class].constructors = Append(@, c.visibility)]
    /\ UNCHANGED <<catalogue, handled, spelled, submodules, aliases, out, params, returns,
                   types, functions, phase>>

set_helper_class_disabled(c) ==
    /\ c.op = "set_helper_class_disabled" /\ calling(c) /\ IsClass(c.class)
    /\ objs' = [objs EXCEPT ![c.class] = drop_helper(@)]
    /\ UNCHANGED <<catalogue, handled, spelled, submodules, aliases, out, params, returns,
                   types, functions, phase>>

-----------------------------------------------------------------------------
(* Module.generate.                                                          *)

objects_of(m, kind, imported) ==
    SelectSeq([i \in DOMAIN objs |-> i],
              LAMBDA i : /\ objs[i].module = m /\ objs[i].kind = kind
                         /\ kind = "class" => objs[i].imported = imported)

(* The objects of a module in the order its code is generated and run:       *)
(* imported classes, the other classes, containers, exceptions, enums.       *)
module_order(m) ==
    objects_of(m, "class", TRUE) \o objects_of(m, "class", FALSE) \o
    objects_of(m, "container", FALSE) \o objects_of(m, "exception", FALSE) \o
    objects_of(m, "enum", FALSE)

orders(modules) == FlattenSeq([i \in DOMAIN modules |-> module_order(modules[i])])

(* generate_forward_declarations and the init function go from a module to   *)
(* its submodules; do_generate writes the submodules first.                  *)
declaration_order == orders(<<Root>> \o submodules)
generation_order  == orders(submodules \o <<Root>>)

(* A variant: submodules are initialised first. *)
submodules_first == orders(submodules \o <<Root>>)

init_order == orders(<<Root>> \o submodules)

(* The forward declarations settle every helper class, one class at a time.  *)
forward_declarations(handler) ==
    FoldLeft(LAMBDA acc, id :
                IF acc.result # "ok" \/ acc.objs[id].kind # "class" THEN acc
                ELSE class_forward_declarations(acc.objs, id, handler),
             [objs |-> objs, result |-> "ok"], declaration_order)

(* A container declares its converter function once: KeyError for a second   *)
(* container with the same full name.                                        *)
declared_twice ==
    \E i, j \in DOMAIN objs : i # j /\ objs[i].kind = "container"
                             /\ objs[j].kind = "container" /\ objs[i].full = objs[j].full

(* A nested type takes the tp_name of its outer class, which exists once the *)
(* outer class was generated, and never if it is imported: KeyError.         *)
outer_missing ==
    \E k \in DOMAIN generation_order :
        LET o == objs[generation_order[k]] IN
        /\ o.outer # 0 /\ o.kind # "enum" /\ ~o.imported
        /\ \/ objs[o.outer].imported
           \/ \A j \in 1 .. k - 1 : generation_order[j] # o.outer

function_names == {<<functions[i].module, functions[i].name>> : i \in DOMAIN functions}
function_table(handler) ==
    [n \in function_names |->
        LET ws == SelectSeq(functions, LAMBDA f : <<f.module, f.name>> = n)
        IN generate_overload([i \in DOMAIN ws |-> ws[i].wrapper], handler)]

(* The method table of a class: its methods, the parent callers of its       *)
(* helper class, and with several bases the methods of the ancestors.        *)
method_tables(os, c, handler) ==
    [own |-> generate_methods(os[c].methods, handler),
     callers |-> generate_methods(os[c].helper.callers, handler),
     inherited |-> generate_methods(MI_parent_methods(os, c), handler)]

Failing(table) == \E n \in DOMAIN table : table[n].result \notin {"ok", "skip"}

Generate(handler) ==
    /\ handled = handler /\ phase = "script" /\ calls > 0
    /\ LET forward == forward_declarations(handler)
           settled == forward.objs
           classes == {i \in DOMAIN objs : objs[i].kind = "class" /\ ~objs[i].imported}
           tables  == [c \in classes |-> method_tables(settled, c, handler)]
           inits   == [c \in classes |-> _generate_constructor(settled[c], handler)]
           fails   == \/ forward.result # "ok" \/ declared_twice \/ outer_missing
                      \/ Failing(function_table(handler))
                      \/ \E c \in classes : \E k \in DOMAIN tables[c] : Failing(tables[c][k])
       IN IF fails THEN phase' = "failed" /\ UNCHANGED <<objs, out>>
          ELSE /\ phase' = "generated" /\ objs' = settled
               /\ out' = [inits |-> inits, tables |-> tables,
                          itself |-> {c \in classes : constructs_itself(settled, c, handler)},
                          functions |-> function_table(handler), order |-> init_order]
    /\ UNCHANGED <<catalogue, handled, calls, spelled, submodules, aliases, params, returns,
                   types, functions>>

(* What is made of a text: its normal form, its traits, and the type that    *)
(* is_const=True makes of the traits and of the string.                      *)
Read(text) ==
    LET traits == TypeTraits(text)
        made   == const_of_traits(text)
        string == const_of_string(text)
    IN IF ~parses(text) THEN <<>>
       ELSE [normal |-> normalize_type_string(text),
             flags  |-> [type_is_const |-> traits.type_is_const,
                         target_is_const |-> traits.target_is_const,
                         type_is_pointer |-> traits.type_is_pointer,
                         type_is_reference |-> traits.type_is_reference],
             bare   |-> str(traits.ctype_no_modifiers), target |-> str(traits.target),
             made   |-> <<str(made.ctype), str(made.ctype_no_const)>>,
             string |-> <<str(string.ctype), str(string.ctype_no_const)>>]

Readings == {[type |-> s.type, text |-> s.text, read |-> Read(s.text)] : s \in Spelled}

WriteType(r) ==
    /\ catalogue = {} /\ spelled = NotSpelled
    /\ spelled' = r
    /\ UNCHANGED <<catalogue, handled, calls, phase, objs, submodules, aliases, params,
                   returns, types, functions, out>>

Call(c) ==
    \/ add_class(c) \/ add_enum(c) \/ add_container(c) \/ add_exception(c)
    \/ add_typedef(c) \/ add_cpp_namespace(c) \/ add_alias(c) \/ add_function(c)
    \/ add_method(c) \/ add_constructor(c) \/ set_helper_class_disabled(c)

Next ==
    \/ \E c \in Calls : Call(c)
    \/ \E handler \in Handlers : Generate(handler)
    \/ \E r \in Readings : WriteType(r)

Spec == Init /\ [][Next]_vars
=============================================================================
