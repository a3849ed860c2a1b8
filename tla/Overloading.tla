----------------------------- MODULE Overloading -----------------------------
(***************************************************************************)
(* overloading.py: the wrappers that share a Python name become one         *)
(* function that tries them in turn.  A wrapper is                          *)
(*    [gen, static, custom]                                                 *)
(* gen is what generating its code does: "ok", "fails" (a code generation   *)
(* error) or "skip" (it raises SkipWrapper itself, as a private constructor *)
(* does); custom is NEEDS_OVERLOADING_INTERFACE.                            *)
(*                                                                          *)
(* handled is settings.error_handler: TRUE for a handler that answers True, *)
(* which asks to ignore the error and go on; FALSE for None.                *)
(***************************************************************************)
EXTENDS Integers, Sequences, SequencesExt, FiniteSetsExt

get_py_method_def_flags(w) ==
    {"METH_VARARGS", "METH_KEYWORDS"} \union (IF w.static THEN {"METH_STATIC"} ELSE {})
(* A variant: the error handler's answer is not looked at. *)
AnswerIgnored(w, handled) ==
    CASE w.gen = "ok" -> "ok" [] w.gen = "skip" -> "skip" [] OTHER -> "raised"

(* utils.call_with_error_handling around a wrapper's code generation. *)
call_with_error_handling(w, handled) ==
    CASE w.gen = "ok"   -> "ok"
      [] w.gen = "skip" -> "skip"
      [] OTHER          -> IF handled THEN "skip" ELSE "raised"

(* _normalize_py_method_flags: wrappers go until all have the flags of the   *)
(* first.  One that differs is reported with `ex', which only an earlier     *)
(* SkipWrapper has bound.                                                    *)
RECURSIVE normalize_flags(_, _, _)
normalize_flags(ws, handled, ex) ==
    LET fails   == {i \in DOMAIN ws : ws[i].gen = "fails"}
        differs == {i \in DOMAIN ws : get_py_method_def_flags(ws[i]) # get_py_method_def_flags(ws[1])}
        first   == Min(fails \union differs)
    IN IF fails \union differs = {} THEN [wrappers |-> ws, result |-> "ok"]
       ELSE IF first \in fails /\ ~handled THEN [wrappers |-> ws, result |-> "raised"]
       ELSE IF first \notin fails /\ ~(ex /\ handled) THEN [wrappers |-> ws, result |-> "crashed"]
       ELSE normalize_flags(RemoveAt(ws, first), handled, ex \/ first \in fails)
(* A variant: a wrapper that fails takes the ones after it along. *)
FailureEndsList(ws, handled) ==
    LET fails == {i \in DOMAIN ws : ws[i].gen = "fails"}
    IN [wrappers |-> IF fails = {} THEN ws ELSE SubSeq(ws, 1, Min(fails) - 1), result |-> "ok"]

_normalize_py_method_flags(ws, handled) ==
    IF Len(ws) = 1 THEN [wrappers |-> ws, result |-> "ok"]
    ELSE normalize_flags(ws, handled, FALSE)

(* OverloadedWrapper.generate: the outcome, and the wrappers that the        *)
(* Python function tries, in order.                                          *)
generate_overload(ws, handled) ==
    LET normal == _normalize_py_method_flags(ws, handled)
        all_wrappers == normal.wrappers
        delegates == SelectSeq(all_wrappers, LAMBDA w : w.gen = "ok")
        Outcome(result) == [result    |-> result,
                            delegates |-> IF result = "ok" THEN delegates ELSE <<>>]
    IN IF normal.result # "ok" THEN Outcome(normal.result)
       ELSE IF Len(all_wrappers) = 1 /\ ~all_wrappers[1].custom
       THEN Outcome(call_with_error_handling(all_wrappers[1], handled))
       ELSE Outcome(IF delegates = <<>> THEN "skip" ELSE "ok")
=============================================================================
