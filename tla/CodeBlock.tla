----------------------------- MODULE CodeBlock -----------------------------
(***************************************************************************)
(* The code blocks that PyBindGen's type handlers write generated C code   *)
(* into (pybindgen/typehandlers/base.py).                                  *)
(*                                                                         *)
(* A wrapper generator owns up to three blocks, run one after the other:   *)
(* before_parse, before_call, after_call.  Each block is a list of         *)
(* statements plus the stack of the cleanup statements registered so far;  *)
(* a block's cleanup continues with its predecessor's.  The generated C    *)
(* text is abstracted to a sequence of instructions                        *)
(*      <<operation, operand, ...>>                                        *)
(* whose meaning is given in module WrapperExec; an error check or an if   *)
(* carries the instructions of its branches.                               *)
(***************************************************************************)
EXTENDS Integers, Sequences, SequencesExt, FiniteSets, TLC

\* A CodeBlock as its constructor leaves it.
NewBlock == [sink |-> <<>>, cleanup |-> <<>>]

\* What a wrapper generator starts from: three blocks, nothing to parse or
\* build, and the two error returns (parse_error_return is that of
\* before_parse and before_call).  param_py and ret_py are the variables that
\* hold the parameters' and the return value's Python wrappers (py_name).
NewWrapper(parse_error_return, error_return) ==
    [before_parse |-> NewBlock, before_call |-> NewBlock, after_call |-> NewBlock,
     declared_variables |-> <<>>, declarations |-> <<>>,
     parse_params |-> <<>>, build_params |-> <<>>, call_params |-> <<>>,
     param_py |-> <<>>, ret_py |-> "",
     parse_error_return |-> parse_error_return, error_return |-> error_return]

write_code(w, block, code) == [w EXCEPT ![block].sink = @ \o code]

\* The cleanup actions are keyed by an increasing position; nothing in the
\* generators removes one, so position is the index in the sequence.
add_cleanup_code(w, block, code) == [w EXCEPT ![block].cleanup = Append(@, code)]

(* Mutant: cleanup actions in the order they were added. *)
CleanupNotReversed(w, block) ==
    LET pred == IF block = "after_call" THEN <<"before_call", "before_parse">>
                ELSE IF block = "before_call" THEN <<"before_parse">> ELSE <<>>
    IN  FoldLeft(LAMBDA acc, b : acc \o w[b].cleanup, w[block].cleanup, pred)

\* The block's own actions, latest first, then its predecessors'.
get_cleanup_code(w, block) ==
    LET pred == IF block = "after_call" THEN <<"before_call", "before_parse">>
                ELSE IF block = "before_call" THEN <<"before_parse">> ELSE <<>>
    IN  FoldLeft(LAMBDA acc, b : acc \o Reverse(w[b].cleanup),
                 Reverse(w[block].cleanup), pred)

write_cleanup(w, block) == write_code(w, block, get_cleanup_code(w, block))

\* The code that cleans up what is registered SO FAR and returns an error.
error_exit(w, block) ==
    get_cleanup_code(w, block)
        \o (IF block = "after_call" THEN w.error_return ELSE w.parse_error_return)

write_error_check(w, block, failure_expression, failure_cleanup) ==
    write_code(w, block, <<<<"check", failure_expression,
                             failure_cleanup \o error_exit(w, block)>>>>)

(***************************************************************************)
(* DeclarationsScope: the n-th variable declared under a base name is      *)
(* called name, name2, name3, ...                                          *)
(***************************************************************************)
declared(w, name) == Cardinality({i \in DOMAIN w.declared_variables :
                                      w.declared_variables[i] = name})

variable_name(w, name) ==
    IF declared(w, name) = 0 THEN name ELSE name \o ToString(declared(w, name) + 1)

\* declare_variable with the code of its initializer (<<>> when there is none);
\* reserve_variable has the same effect on the names.
declare_variable(w, name, initializer) ==
    [w EXCEPT !.declared_variables = Append(@, name), !.declarations = @ \o initializer]

(***************************************************************************)
(* ParseTupleParameters and BuildValueParameters.  A parse item is         *)
(* [fmt, var, name, optional]; a build item is [fmt, var].                 *)
(***************************************************************************)
ParseItem(fmt, var, name, optional) ==
    [fmt |-> fmt, var |-> var, name |-> name, optional |-> optional]

add_parse(w, item, prepend) ==
    [w EXCEPT !.parse_params = IF prepend THEN <<item>> \o @ ELSE Append(@, item)]

add_build(w, fmt, var, prepend) ==
    LET item == [fmt |-> fmt, var |-> var]
    IN  [w EXCEPT !.build_params = IF prepend THEN <<item>> \o @ ELSE Append(@, item)]
=============================================================================
