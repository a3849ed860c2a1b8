------------------------------- MODULE CTypes -------------------------------
(***************************************************************************)
(* C type expressions as pybindgen reads them: tokenizer.py cuts the text  *)
(* into tokens, ctypeparser/__init__.py parses them into a CType, moves    *)
(* the modifiers to a canonical place and derives the TypeTraits that      *)
(* every type handler lookup starts from.                                  *)
(*                                                                         *)
(* A text is a sequence of lexemes.  A lexeme is a name split at its ::    *)
(* (<<"n", "A">> is n::A, <<"", "A">> is ::A), a punctuation character or  *)
(* a blank.                                                                *)
(***************************************************************************)
EXTENDS Integers, Sequences, SequencesExt, FiniteSetsExt

Blank == <<" ">>
Star  == <<"*">>
Amp   == <<"&">>
Less  == <<"<">>
More  == <<">">>
Comma == <<",">>
Const == <<"const">>
Volatile == <<"volatile">>

MODIFIERS == <<Const, Volatile>>
Operators == {Star, Amp}

(* Two equal characters of this set that touch are one token. *)
Doubling == {Star, Amp, Less, More}

-----------------------------------------------------------------------------
(* tokenizer.GetTokens: blanks separate tokens and are dropped; "**", "&&",  *)
(* "<<" and ">>" are single tokens.                                          *)

RECURSIVE GetTokens(_)
GetTokens(text) ==
    IF text = <<>> THEN <<>>
    ELSE IF Head(text) = Blank THEN GetTokens(Tail(text))
    ELSE IF Head(text) \in Doubling /\ Len(text) > 1 /\ text[2] = text[1]
         THEN <<text[1] \o text[2]>> \o GetTokens(SubSeq(text, 3, Len(text)))
         ELSE <<Head(text)>> \o GetTokens(Tail(text))

-----------------------------------------------------------------------------
(* A CType is a sequence of items.  An item is a token, or a nested CType    *)
(* (a template argument), whose tok is empty.                                *)

Item(tok)      == [tok |-> tok, sub |-> <<>>, moved |-> FALSE]
Nested(ctype)  == [tok |-> <<>>, sub |-> ctype, moved |-> FALSE]
Positions(ctype, toks) == {i \in DOMAIN ctype : ctype[i].tok \in toks}

(* One modifier token moves right, once, until the next * or &. *)
RECURSIVE _reorder_modifier(_, _)
_reorder_modifier(ctype, modifier) ==
    LET todo == {i \in Positions(ctype, {modifier}) : ~ctype[i].moved} IN
    IF todo = {} THEN ctype
    ELSE LET token_i == Min(todo)
             rest    == RemoveAt(ctype, token_i)
             stops   == {j \in Positions(rest, Operators) : j >= token_i}
             new_pos == IF stops = {} THEN Len(rest) + 1 ELSE Min(stops)
             token   == [ctype[token_i] EXCEPT !.moved = TRUE]
         IN _reorder_modifier(InsertAt(rest, new_pos, token), modifier)
(* A variant: volatile stays where it is written. *)
VolatileStays(ctype) ==
    LET moved == _reorder_modifier(ctype, Const)
    IN [i \in DOMAIN moved |-> [moved[i] EXCEPT !.moved = FALSE]]

reorder_modifiers(ctype) ==
    LET moved == _reorder_modifier(_reorder_modifier(ctype, MODIFIERS[1]),
                                   MODIFIERS[2])
    IN [i \in DOMAIN moved |-> [moved[i] EXCEPT !.moved = FALSE]]

remove_modifiers(ctype) ==
    SelectSeq(ctype, LAMBDA item : item.tok \notin {Const, Volatile})

remove_outer_modifier(ctype, modifier) ==
    RemoveAt(ctype, Max(Positions(ctype, {modifier})))

-----------------------------------------------------------------------------
(* _parse_type_recursive: reading goes on until the end of the tokens or a   *)
(* closing token; `last' is that token, <<>> at the end.  A template list    *)
(* that is never closed is an AttributeError on last_token.name: ok is       *)
(* FALSE.                                                                    *)

NotParsed == [ctype |-> <<>>, last |-> <<>>, rest |-> <<>>, ok |-> FALSE]

strip_scope(tok) == IF Len(tok) > 1 /\ Head(tok) = "" THEN Tail(tok) ELSE tok

RECURSIVE _parse_type_recursive(_, _), parse_arguments(_, _)
_parse_type_recursive(ctype, tokens) ==
    IF tokens = <<>>
    THEN [ctype |-> reorder_modifiers(ctype), last |-> <<>>, rest |-> <<>>, ok |-> TRUE]
    ELSE LET tok == strip_scope(Head(tokens)) IN
         IF tok \in {Comma, More}
         THEN [ctype |-> reorder_modifiers(ctype), last |-> tok,
               rest |-> Tail(tokens), ok |-> TRUE]
         ELSE IF tok = Less
         THEN parse_arguments(Append(ctype, Item(tok)), Tail(tokens))
         ELSE _parse_type_recursive(Append(ctype, Item(tok)), Tail(tokens))

parse_arguments(ctype, tokens) ==
    LET arg  == _parse_type_recursive(<<>>, tokens)
        more == ctype \o <<Nested(arg.ctype), Item(arg.last)>>
    IN IF ~arg.ok \/ arg.last = <<>> THEN NotParsed
       ELSE IF arg.last = Comma THEN parse_arguments(more, arg.rest)
       ELSE _parse_type_recursive(more, arg.rest)

(* A text that ends inside a template list, or has a stray closing token,    *)
(* raises: parses(text) is FALSE.                                            *)
parsed(text)     == _parse_type_recursive(<<>>, GetTokens(text))
parses(text)     == parsed(text).ok /\ parsed(text).last = <<>>
parse_type(text) == parsed(text).ctype

(* CType.__str__: the tokens in order; the spacing it writes separates them. *)
RECURSIVE str(_)
str(ctype) ==
    FlattenSeq([i \in DOMAIN ctype |->
                  IF ctype[i].tok = <<>> THEN str(ctype[i].sub) ELSE <<ctype[i].tok>>])

normalize_type_string(text) == str(parse_type(text))

-----------------------------------------------------------------------------
(* TypeTraits.  The level of a position is the number of * and & to its      *)
(* right: level 0 is the outermost type, level 1 what it points to.          *)

Level(ctype, i) == Cardinality({j \in Positions(ctype, Operators) : j > i})
AtLevel(ctype, toks, n) == {i \in Positions(ctype, toks) : Level(ctype, i) = n}

RECURSIVE drop_outer_const(_, _)
drop_outer_const(ctype, n) ==
    IF n = 0 THEN ctype
    ELSE drop_outer_const(remove_outer_modifier(ctype, Const), n - 1)

TypeTraits(text) ==
    LET ctype == parse_type(text)
        outer == AtLevel(ctype, Operators, 0)
    IN [ctype              |-> ctype,
        ctype_no_modifiers |-> remove_modifiers(ctype),
        ctype_no_const     |-> drop_outer_const(ctype,
                                   Cardinality(AtLevel(ctype, {Const}, 0))),
        type_is_const      |-> AtLevel(ctype, {Const}, 0) # {},
        type_is_pointer    |-> \E i \in outer : ctype[i].tok = Star,
        type_is_reference  |-> \E i \in outer : ctype[i].tok = Amp,
        target_is_const    |-> AtLevel(ctype, {Const}, 1) # {},
        target             |-> IF outer = {} THEN <<>>
                               ELSE remove_modifiers(SubSeq(ctype, 1, Max(outer) - 1))]

make_const(traits) ==
    IF traits.type_is_const THEN traits
    ELSE [traits EXCEPT !.type_is_const = TRUE, !.ctype = Append(@, Item(Const))]
const_before_operator(ctype) ==
    InsertAt(ctype, Max(Positions(ctype, Operators)), Item(Const))

make_target_const(traits) ==
    IF traits.target_is_const THEN traits
    ELSE [traits EXCEPT !.target_is_const = TRUE,
                        !.ctype = const_before_operator(@),
                        !.ctype_no_const = const_before_operator(@)]

(* TypeHandler.__init__ with is_const=True, given a TypeTraits (what         *)
(* Parameter.new and ReturnValue.new pass) and given a string.               *)
const_of_traits(text) ==
    LET traits == TypeTraits(text) IN
    IF traits.type_is_pointer \/ traits.type_is_reference
    THEN make_target_const(traits) ELSE make_const(traits)

const_of_string(text) == TypeTraits(<<Const>> \o text)
=============================================================================
