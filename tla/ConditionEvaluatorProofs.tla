---------------------- MODULE ConditionEvaluatorProofs ----------------------
(***************************************************************************)
(* What the loop of _resolve_next returns, for any transitions, contexts   *)
(* and data of any depth.  What is looked up at a path is one of the data, *)
(* by induction on the path: a least part at which it were not is refuted. *)
(***************************************************************************)
EXTENDS ConditionEvaluator, TLAPS, WellFoundedInduction

-----------------------------------------------------------------------------
\* The lookup.

\* Every set of natural numbers has a least element.
LEMMA LeastElement ==
  ASSUME NEW T, T \subseteq Nat, T # {}
  PROVE  \E x \in T : \A y \in T : x <= y
<1>1. PICK x \in T : \A y \in T : <<y, x>> \notin OpToRel(<, Nat)
  BY WFMin, NatLessThanWellFounded, Zenon
<1>2. \A y \in T : ~(y < x)
  BY <1>1 DEF OpToRel
<1> QED
  BY <1>2

\* The function that ValueAt evaluates, up to the part m of the path.
Follows(g, m, v, path) ==
    g = [n \in 0 .. m |-> IF n = 0 THEN v ELSE Member(g[n - 1], path[n])]

\* There is such a function: where the first m parts have one, the first m + 1
\* have one.
LEMMA PathFollowed ==
  ASSUME NEW v, NEW path, NEW m \in Nat
  PROVE  \E g : Follows(g, m, v, path)
<1> DEFINE Bad == {k \in Nat : ~ \E g : Follows(g, k, v, path)}
<1> SUFFICES ASSUME Bad # {} PROVE FALSE
  OBVIOUS
<1>1. PICK k \in Bad : \A j \in Bad : k <= j
  BY LeastElement
<1>2. k # 0
  <2> DEFINE g == [n \in 0 .. 0 |-> v]
  <2>1. Follows(g, 0, v, path)
    BY DEF Follows
  <2> QED
    BY <1>1, <2>1
<1>3. k \in Nat /\ k - 1 \in Nat /\ k - 1 \notin Bad
  BY <1>1, <1>2
<1>4. PICK g : Follows(g, k - 1, v, path)
  BY <1>3
<1> DEFINE h == [n \in 0 .. k |-> IF n = k THEN Member(g[k - 1], path[k]) ELSE g[n]]
           next(n) == IF n = 0 THEN v ELSE Member(h[n - 1], path[n])
<1>5. \A n \in 0 .. k : h[n] = next(n)
  <2> SUFFICES ASSUME NEW n \in 0 .. k PROVE h[n] = next(n)
    OBVIOUS
  <2>1. CASE n = k
    BY <1>2, <1>3, <2>1
  <2>2. CASE n # k
    <3>1. n \in 0 .. k - 1 /\ n \in Nat
      BY <1>3, <2>2
    <3>2. g[n] = IF n = 0 THEN v ELSE Member(g[n - 1], path[n])
      BY <1>4, <3>1 DEF Follows
    <3>3. n # 0 => h[n - 1] = g[n - 1]
      BY <1>3, <3>1
    <3> QED
      BY <2>2, <3>2, <3>3
  <2> QED
    BY <2>1, <2>2
<1>6. h = [n \in 0 .. k |-> h[n]]
  OBVIOUS
<1> HIDE DEF h
<1>7. Follows(h, k, v, path)
  BY <1>5, <1>6 DEF Follows
<1> QED
  BY <1>1, <1>7

\* What is found at a path is one of the data.
LEMMA ValueInData ==
  ASSUME NEW v \in Data, NEW path, Len(path) \in Nat
  PROVE  ValueAt(v, path) \in Data
<1> DEFINE m == Len(path)
           at == CHOOSE g : Follows(g, m, v, path)
<1>1. Follows(at, m, v, path)
  BY PathFollowed
<1>2. ValueAt(v, path) = at[m]
  BY DEF ValueAt, Follows
<1> HIDE DEF at
<1> DEFINE Bad == {n \in 0 .. m : at[n] \notin Data}
<1>3. \A n \in 0 .. m : at[n] = IF n = 0 THEN v ELSE Member(at[n - 1], path[n])
  BY <1>1 DEF Follows
<1>4. Bad = {}
  <2> SUFFICES ASSUME Bad # {} PROVE FALSE
    OBVIOUS
  <2>1. PICK n \in Bad : \A j \in Bad : n <= j
    <3>1. Bad \subseteq Nat
      OBVIOUS
    <3> QED
      BY <3>1, LeastElement
  <2>2. n # 0
    BY <1>3, <2>1
  <2>3. n - 1 \in 0 .. m /\ n - 1 \notin Bad
    BY <2>1, <2>2
  <2>4. at[n - 1] \in Data
    BY <2>3
  <2>5. Member(at[n - 1], path[n]) \in Data
    BY <2>4, DataAssumption DEF Member
  <2> QED
    BY <1>3, <2>1, <2>2, <2>5
<1> QED
  BY <1>2, <1>4

\* What float() makes of data: nothing, or one number.
LEMMA FloatIsNumber ==
  ASSUME NEW v \in Data
  PROVE  ToFloat(v) = <<>> \/ ToFloat(v)[1] \in Int
<1>1. CASE IsNumber(v)
  BY <1>1, DataAssumption DEF ToFloat
<1>2. CASE v.kind = "str" /\ ~IsNumber(v)
  <2>1. ToFloat(v) = v.f
    BY <1>2 DEF ToFloat
  <2>2. v.f \in Seq(Int) /\ Len(v.f) <= 1
    BY <1>2, DataAssumption
  <2> QED
    BY <2>1, <2>2
<1>3. CASE v.kind # "str" /\ ~IsNumber(v)
  BY <1>3 DEF ToFloat
<1> QED
  BY <1>1, <1>2, <1>3

\* Null converts to nothing.
LEMMA NullIsNoNumber == ToFloat(Null) = <<>>
BY DEF ToFloat, Null, IsNumber

-----------------------------------------------------------------------------
\* The loop.

\* The rows before the current one do not match; the answer is the target of
\* the current one, which does, or there is none.
Inv ==
    /\ rows \in Tables /\ context \in Contexts
    /\ i \in 1 .. Len(rows) + 1
    /\ \A k \in 1 .. i - 1 : ~evaluate(rows[k].config, context)
    /\ ~done => answer = None
    /\ done => \/ i <= Len(rows) /\ evaluate(rows[i].config, context) /\ answer = rows[i].to
               \/ i = Len(rows) + 1 /\ answer = None

\* The rows are a list.
LEMMA RowFacts ==
  ASSUME rows \in Tables
  PROVE  /\ Len(rows) \in Nat /\ DOMAIN rows = 1 .. Len(rows)
         /\ \A k \in 1 .. Len(rows) :
               Len(rows[k].config.field) \in Nat /\ rows[k].config.value \in Data
<1>1. rows \in Seq({rows[k] : k \in DOMAIN rows})
  BY TablesAssumption
<1>2. Len(rows) \in Nat /\ DOMAIN rows = 1 .. Len(rows)
  BY <1>1
<1>3. \A k \in DOMAIN rows : rows[k].config.field \in Seq(STRING) /\ rows[k].config.value \in Data
  BY TablesAssumption
<1> QED
  BY <1>2, <1>3

\* Init establishes the invariant and every step preserves it.
LEMMA Invariance == Spec => []Inv
<1>1. Init => Inv
  BY RowFacts DEF Init, Inv
<1>2. Inv /\ [Next]_vars => Inv'
  <2> SUFFICES ASSUME Inv, [Next]_vars PROVE Inv'
    OBVIOUS
  <2>1. Len(rows) \in Nat /\ i \in Nat
    BY RowFacts DEF Inv
  <2>2. CASE Match
    BY <2>1, <2>2 DEF Match, Inv
  <2>3. CASE Skip
    <3>1. /\ i <= Len(rows) /\ ~evaluate(rows[i].config, context) /\ i' = i + 1 /\ ~done
          /\ UNCHANGED <<rows, context, answer, done>>
      BY <2>3 DEF Skip
    <3>2. \A k \in 1 .. i' - 1 : k = i \/ k \in 1 .. i - 1
      BY <2>1, <3>1
    <3> QED
      BY <2>1, <3>1, <3>2 DEF Inv
  <2>4. CASE NoMatch
    BY <2>1, <2>4 DEF NoMatch, Inv
  <2>5. CASE UNCHANGED vars
    BY <2>5 DEF vars, Inv
  <2> QED
    BY <2>2, <2>3, <2>4, <2>5 DEF Next
<1> QED
  BY <1>1, <1>2, PTL DEF Spec

\* _resolve_next returns the target of a transition whose condition holds, and
\* nothing only if no condition does, for any number of transitions.
THEOREM ResolveMatches == Spec => []AnswerMatches
<1>1. Inv => AnswerMatches
  <2> DEFINE matching == {k \in 1 .. Len(rows) : evaluate(rows[k].config, context)}
  <2> SUFFICES ASSUME Inv, done
               PROVE  IF matching = {} THEN answer = None
                                       ELSE answer \in {rows[k].to : k \in matching}
    BY DEF AnswerMatches
  <2>1. Len(rows) \in Nat /\ i \in 1 .. Len(rows) + 1
    BY RowFacts DEF Inv
  <2>2. CASE i <= Len(rows) /\ evaluate(rows[i].config, context) /\ answer = rows[i].to
    <3>1. i \in matching
      BY <2>1, <2>2
    <3> QED
      BY <2>2, <3>1
  <2>3. CASE i = Len(rows) + 1 /\ answer = None
    <3>1. matching = {}
      BY <2>1, <2>3 DEF Inv
    <3> QED
      BY <2>3, <3>1
  <2> QED
    BY <2>2, <2>3 DEF Inv
<1> QED
  BY <1>1, Invariance, PTL

-----------------------------------------------------------------------------
\* A split on a threshold.

\* A comparison holds if both sides are numbers in the order it asks for; a
\* value that is missing is not compared.
LEMMA ComparisonMet ==
  ASSUME NEW config, config.textual, config.field # <<>>, config.operator \in {">", "<="},
         NEW ctx \in Data, Len(config.field) \in Nat, config.value \in Data,
         ToFloat(config.value) # <<>>
  PROVE  evaluate(config, ctx) <=>
            /\ ToFloat(ValueAt(ctx, config.field)) # <<>>
            /\ IF config.operator = ">"
               THEN ToFloat(ValueAt(ctx, config.field))[1] > ToFloat(config.value)[1]
               ELSE ToFloat(ValueAt(ctx, config.field))[1] <= ToFloat(config.value)[1]
<1> DEFINE actual == ValueAt(ctx, config.field)
           met == apply_operator(actual, config.operator, config.value)
           v == ToFloat(actual)
           t == ToFloat(config.value)
<1>1. met <=> v # <<>> /\ Compare(v[1], config.operator, t[1])
  <2>1. config.operator # "==" /\ config.operator # "!=" /\ config.operator \in {">", "<", ">=", "<="}
    OBVIOUS
  <2> QED
    BY <2>1 DEF apply_operator
<1>2. Compare(v[1], config.operator, t[1])
        <=> IF config.operator = ">" THEN v[1] > t[1] ELSE v[1] <= t[1]
  BY DEF Compare
<1>3. evaluate(config, ctx) <=> ~(actual = Null /\ config.value # Null) /\ met
  BY DEF evaluate
<1>4. actual = Null => v = <<>>
  BY NullIsNoNumber
<1> HIDE DEF actual, met, v, t
<1>5. evaluate(config, ctx) <=> v # <<>> /\ Compare(v[1], config.operator, t[1])
  BY <1>1, <1>3, <1>4
<1> QED
  BY <1>2, <1>5 DEF actual, v, t

\* Two transitions that split on a threshold send every value that converts to
\* a number to exactly the one side it belongs to, in either order, for any
\* threshold, path and data; what does not convert matches neither.
THEOREM ThresholdsSplit == Spec => []ThresholdRouting
<1>1. Inv => ThresholdRouting
  <2> SUFFICES ASSUME Inv, done, Len(rows) = 2, NEW k \in 1 .. 2, NEW l \in 1 .. 2, SplitsAt(k, l)
               PROVE  LET v == ToFloat(ValueAt(context, rows[k].config.field))
                          t == ToFloat(rows[k].config.value)[1]
                      IN  answer = IF v = <<>> THEN None
                                   ELSE IF v[1] > t THEN rows[k].to ELSE rows[l].to
    BY DEF ThresholdRouting
  <2> DEFINE v == ToFloat(ValueAt(context, rows[k].config.field))
             t == ToFloat(rows[k].config.value)
             above == v # <<>> /\ v[1] > t[1]
             below == v # <<>> /\ v[1] <= t[1]
  <2>1. /\ rows \in Tables /\ context \in Data /\ i \in 1 .. 3
        /\ \A j \in 1 .. 2 :
              Len(rows[j].config.field) \in Nat /\ rows[j].config.value \in Data
    BY RowFacts, DataAssumption DEF Inv
  <2>2. /\ rows[k].config.textual /\ rows[l].config.textual
        /\ rows[k].config.operator = ">" /\ rows[l].config.operator = "<="
        /\ rows[k].config.field = rows[l].config.field /\ rows[k].config.field # <<>>
        /\ rows[k].config.value = rows[l].config.value /\ t # <<>>
    BY DEF SplitsAt
  <2>3. evaluate(rows[k].config, context) <=> above
    BY <2>1, <2>2, ComparisonMet
  <2>4. evaluate(rows[l].config, context) <=> below
    BY <2>1, <2>2, ComparisonMet
  <2>5. v # <<>> => v[1] \in Int
    BY <2>1, ValueInData, FloatIsNumber
  <2>6. t[1] \in Int
    BY <2>1, <2>2, FloatIsNumber
  <2>7. k # l /\ \A j \in 1 .. 2 : j = k \/ j = l
    BY <2>2
  <2> HIDE DEF v, t
  <2>8. (above => ~below) /\ (v # <<>> => above \/ below)
    BY <2>5, <2>6
  <2>9. CASE i = 3
    <3>1. ~above /\ ~below /\ answer = None
      BY <2>1, <2>3, <2>4, <2>9 DEF Inv
    <3> QED
      BY <2>8, <3>1 DEF v, t
  <2>10. CASE i \in 1 .. 2
    <3>1. evaluate(rows[i].config, context) /\ answer = rows[i].to
      BY <2>10 DEF Inv
    <3>2. CASE i = k
      BY <2>3, <3>1, <3>2 DEF v, t
    <3>3. CASE i = l
      BY <2>4, <2>8, <3>1, <3>3 DEF v, t
    <3> QED
      BY <2>7, <2>10, <3>2, <3>3
  <2> QED
    BY <2>1, <2>9, <2>10
<1> QED
  BY <1>1, Invariance, PTL

=============================================================================
