----------------------------- MODULE TypeMatcher -----------------------------
(***************************************************************************)
(* The registry of type handlers (typehandlers/base.py, TypeMatcher) and    *)
(* what each kind of type wrapper puts into it.  A matcher is a function    *)
(* from normalised type names to handlers.  pybindgen keeps two of them,    *)
(* param_type_matcher and return_type_matcher.                              *)
(*                                                                          *)
(* A handler is [who, form]: the wrapper object it converts for and how the *)
(* value is passed.                                                         *)
(***************************************************************************)
EXTENDS CTypes, TLC

Missing == [who |-> -1, form |-> "none"]
Builtin(form) == [who |-> 0, form |-> form]

(* The forms of a name: itself, name&, name* . *)
Suffix(form) == CASE form = "value" -> <<>> [] form = "ref" -> <<Amp>> [] form = "ptr" -> <<Star>>
Key(name, form) == normalize_type_string(<<name>> \o Suffix(form))
(* A variant: the last handler is kept. *)
RegisterLast(matcher, name, forms, who) ==
    [k \in {Key(name, f) : f \in forms} |->
        [who |-> who, form |-> CHOOSE f \in forms : Key(name, f) = k]] @@ matcher

(* register raises ValueError for a name it has; the callers that ignore    *)
(* the error keep the first handler.                                        *)
register(matcher, name, forms, who) ==
    matcher @@ [k \in {Key(name, f) : f \in forms} |->
                  [who |-> who, form |-> CHOOSE f \in forms : Key(name, f) = k]]

registered(matcher, name, forms) == \E f \in forms : Key(name, f) \in DOMAIN matcher

(* Which forms a wrapper registers, when it is created (under its short      *)
(* name) and when it is given to a module (register_alias, under full names).*)
param_forms(kind)  == IF kind = "exception" THEN {} ELSE {"value", "ref", "ptr"}
return_forms(kind) == CASE kind = "class" -> {"value", "ref", "ptr"}
                        [] kind \in {"container", "enum"} -> {"value"}
                        [] OTHER -> {}
alias_param_forms(kind) == IF kind = "container" THEN {"value", "ref"} ELSE param_forms(kind)

-----------------------------------------------------------------------------
(* Aliases.  add_type_alias keeps the last alias of each name in each        *)
(* direction; the lookup goes to the first alias not tried yet and never     *)
(* comes back to try the other one.                                          *)

add_type_alias(m, from, to) ==
    [m EXCEPT !.aliases = (str(TypeTraits(to).ctype) :> str(TypeTraits(from).ctype)) @@ @,
              !.aliases_rev = (str(TypeTraits(from).ctype) :> str(TypeTraits(to).ctype)) @@ @]
aliases_to_try(m, name) ==
    (IF name \in DOMAIN m.aliases THEN <<m.aliases[name]>> ELSE <<>>) \o
    (IF name \in DOMAIN m.aliases_rev THEN <<m.aliases_rev[name]>> ELSE <<>>)

RECURSIVE raw_lookup(_, _, _, _)
raw_lookup(m, types, name, already_tried) ==
    IF name \in DOMAIN types THEN types[name]
    ELSE LET untried == SelectSeq(aliases_to_try(m, name), LAMBDA a : a \notin already_tried)
         IN IF untried = <<>> THEN Missing
            ELSE raw_lookup(m, types, Head(untried), already_tried \union {name})

(* TypeMatcher.lookup, with no type transformation registered. *)
lookup(m, types, text) ==
    IF ~parses(text) THEN Missing
    ELSE raw_lookup(m, types, str(TypeTraits(text).ctype_no_modifiers), {})
=============================================================================
