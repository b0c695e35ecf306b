------------------------- MODULE ConditionEvaluator -------------------------
(***************************************************************************)
(* The conditions on transitions (class ConditionEvaluator) and the loop   *)
(* of _resolve_next that picks the transition of a closed step             *)
(* (app/services/workflow_engine.py).                                      *)
(*                                                                         *)
(* Data is JSON as Python sees it.  A number or a boolean carries its      *)
(* number n (True is 1).  A string carries in f what float() makes of it:  *)
(* <<n>>, or <<>> for a ValueError and for NaN, with which every           *)
(* comparison is false; Substrings says which text is part of which.  Data *)
(* are the values that occur, with the parts of each.                      *)
(***************************************************************************)
EXTENDS Integers, Sequences

CONSTANTS
    Contexts,     \* evaluation contexts, values of kind "dict"
    Tables,       \* sequences of rows [to, config]: the transitions of one step
                  \* and outcome in the order the database returns them
    Data,
    Substrings,   \* pairs <<s1, s2>>: s1 occurs in s2
    None          \* no next step

VARIABLES rows, context, i, answer, done

vars == <<rows, context, i, answer, done>>

Null == [kind |-> "null"]
Num(n) == [kind |-> "num", n |-> n]
Bool(n) == [kind |-> "bool", n |-> n]
Str(s, f) == [kind |-> "str", s |-> s, f |-> f]
List(q) == [kind |-> "list", items |-> q]
Dict(m) == [kind |-> "dict", map |-> m]

\* A condition_config.  textual: its field is a string; field: the parts of
\* its path, <<>> if it is missing or empty; value: Null if it is missing.
Config(field, operator, value) ==
    [textual |-> TRUE, field |-> field, operator |-> operator, value |-> value]

IsNumber(v) == v.kind \in {"num", "bool"}

ASSUME DataAssumption ==
    /\ Null \in Data /\ Contexts \subseteq Data
    /\ \A v \in Data :
          /\ IsNumber(v) => v.n \in Int
          /\ v.kind = "str" => v.f \in Seq(Int) /\ Len(v.f) <= 1
          /\ v.kind = "list" => v.items \in Seq(Data)
          /\ v.kind = "dict" => \A part \in DOMAIN v.map : v.map[part] \in Data

ASSUME TablesAssumption ==
    \A t \in Tables :
        /\ t \in Seq({t[k] : k \in DOMAIN t})
        /\ \A k \in DOMAIN t : t[k].config.field \in Seq(STRING) /\ t[k].config.value \in Data

\* float(v), <<>> if nothing can be compared with it.
ToFloat(v) == CASE IsNumber(v) -> <<v.n>> [] v.kind = "str" -> v.f [] OTHER -> <<>>

\* Python's ==.
PyEqual[a, b \in Data] ==
    CASE IsNumber(a) /\ IsNumber(b) -> a.n = b.n
      [] a.kind = "list" /\ b.kind = "list" ->
            /\ Len(a.items) = Len(b.items)
            /\ \A k \in 1 .. Len(a.items) : PyEqual[a.items[k], b.items[k]]
      [] a.kind = "dict" /\ b.kind = "dict" ->
            /\ DOMAIN a.map = DOMAIN b.map
            /\ \A k \in DOMAIN a.map : PyEqual[a.map[k], b.map[k]]
      [] OTHER -> a = b

PyEq(a, b) == PyEqual[a, b]

\* Python's "a in b"; a TypeError is FALSE, too.
PyIn(a, b) ==
    CASE b.kind = "list" -> \E k \in 1 .. Len(b.items) : PyEq(a, b.items[k])
      [] b.kind = "str"  -> a.kind = "str" /\ <<a.s, b.s>> \in Substrings
      [] b.kind = "dict" -> a.kind = "str" /\ a.s \in DOMAIN b.map
      [] OTHER           -> FALSE

-----------------------------------------------------------------------------

\* Faulty form: "<=" is strict.
Compare_Strict(a, operator, b) ==
    CASE operator \in {"<", "<="} -> a < b [] operator = ">" -> a > b [] OTHER -> a >= b

Compare(a, operator, b) ==
    CASE operator = ">"  -> a > b
      [] operator = "<"  -> a < b
      [] operator = ">=" -> a >= b
      [] operator = "<=" -> a <= b

apply_operator(actual, operator, target) ==
    CASE operator = "==" -> PyEq(actual, target)
      [] operator = "!=" -> ~PyEq(actual, target)
      [] operator \in {">", "<", ">=", "<="} ->
            /\ ToFloat(actual) # <<>> /\ ToFloat(target) # <<>>
            /\ Compare(ToFloat(actual)[1], operator, ToFloat(target)[1])
      [] operator = "in" -> PyIn(actual, target)
      [] operator = "contains" -> PyIn(target, actual)
      [] OTHER -> FALSE

\* dict.get: None where the part is missing, or the value is no dict.
Member(v, part) ==
    IF v.kind = "dict" /\ part \in DOMAIN v.map THEN v.map[part] ELSE Null

\* The value at a path.
ValueAt(v, path) ==
    LET at[n \in 0 .. Len(path)] == IF n = 0 THEN v ELSE Member(at[n - 1], path[n])
    IN  at[Len(path)]

\* A config without field, like no config at all, is always met; a field that
\* is no string raises and counts as not met.
evaluate(config, ctx) ==
    /\ config.textual
    /\ \/ config.field = <<>>
       \/ LET actual == ValueAt(ctx, config.field)
          IN  /\ ~(actual = Null /\ config.value # Null)
              /\ apply_operator(actual, config.operator, config.value)

-----------------------------------------------------------------------------
\* The loop of _resolve_next.

Init ==
    /\ rows \in Tables
    /\ context \in Contexts
    /\ i = 1
    /\ answer = None
    /\ done = FALSE

Match ==
    /\ ~done
    /\ i <= Len(rows)
    /\ evaluate(rows[i].config, context)
    /\ answer' = rows[i].to
    /\ done' = TRUE
    /\ UNCHANGED <<rows, context, i>>

\* Faulty form: the loop is left at the first condition that is not met.
GiveUp ==
    /\ ~done
    /\ i <= Len(rows)
    /\ ~evaluate(rows[i].config, context)
    /\ done' = TRUE
    /\ UNCHANGED <<rows, context, i, answer>>

Skip ==
    /\ ~done
    /\ i <= Len(rows)
    /\ ~evaluate(rows[i].config, context)
    /\ i' = i + 1
    /\ UNCHANGED <<rows, context, answer, done>>

NoMatch ==
    /\ ~done
    /\ i > Len(rows)
    /\ done' = TRUE
    /\ UNCHANGED <<rows, context, i, answer>>

Next == Match \/ Skip \/ NoMatch

Spec == Init /\ [][Next]_vars

-----------------------------------------------------------------------------

\* What WorkflowEngine assumes of _resolve_next: the answer is the target of a
\* transition whose condition holds, and a request ends without such a
\* transition only if there is none.
AnswerMatches ==
    LET matching == {k \in 1 .. Len(rows) : evaluate(rows[k].config, context)}
    IN  done => IF matching = {} THEN answer = None
                                 ELSE answer \in {rows[k].to : k \in matching}

\* Rows that split on one threshold, as the workflows of the tests do: one row
\* for values above it, one for the others.
SplitsAt(k, l) ==
    /\ rows[k].config.textual /\ rows[l].config.textual
    /\ rows[k].config.operator = ">" /\ rows[l].config.operator = "<="
    /\ rows[k].config.field = rows[l].config.field /\ rows[k].config.field # <<>>
    /\ rows[k].config.value = rows[l].config.value /\ ToFloat(rows[k].config.value) # <<>>

\* A split routes every value that converts to a number to exactly the one
\* side it belongs to, in whichever order the rows come; anything else (no
\* such field, a text, a list) falls through and ends the request.
ThresholdRouting ==
    (done /\ Len(rows) = 2) =>
        \A k, l \in 1 .. 2 : SplitsAt(k, l) =>
            LET v == ToFloat(ValueAt(context, rows[k].config.field))
                t == ToFloat(rows[k].config.value)[1]
            IN  answer = IF v = <<>> THEN None
                         ELSE IF v[1] > t THEN rows[k].to ELSE rows[l].to

=============================================================================
