------------------------ MODULE MCConditionEvaluator ------------------------
(***************************************************************************)
(* Transitions with all operators over data of all kinds.                  *)
(***************************************************************************)
EXTENDS ConditionEvaluator

CONSTANTS stepA, stepB

Ten == Str("10", <<10>>)
Abc == Str("abc", <<>>)
Bc == Str("bc", <<>>)

MCSubstrings == {<<"abc", "abc">>, <<"bc", "bc">>, <<"10", "10">>, <<"bc", "abc">>}

Values == {Null, Num(0), Num(1), Num(10), Num(11), Bool(1), Ten, Abc, Bc,
           List(<<>>), List(<<Num(1), Abc>>), List(<<Bool(1), Abc>>),
           Dict([amount |-> Num(11)])}

\* The field is there, is missing, or there is no request_data to look into.
RequestData == {Dict([amount |-> v]) : v \in Values} \cup {Dict([reason |-> Abc]), Null}

MCContexts == {Dict([request_data |-> d]) : d \in RequestData}

MCData == Values \cup RequestData \cup MCContexts

Amount == <<"request_data", "amount">>
Operators == {"==", "!=", ">", "<", ">=", "<=", "in", "contains", "~"}

Conditions ==
    {Config(p, o, v) : p \in {Amount, Amount \o <<"amount">>}, o \in Operators, v \in Values}
    \cup {Config(<<>>, "==", Null), [Config(Amount, "==", Null) EXCEPT !.textual = FALSE]}

Row(to, config) == [to |-> to, config |-> config]

\* One conditional transition before an unconditional one or none, and splits
\* in both orders.
MCTables ==
    {<<>>} \cup {<<Row(stepA, c)>> : c \in Conditions}
    \cup {<<Row(stepA, c), Row(stepB, Config(<<>>, "==", Null))>> : c \in Conditions}
    \cup {<<Row(stepA, Config(Amount, o, v)), Row(stepB, Config(Amount, p, v))>> :
             o \in {">", "<="}, p \in {">", "<="}, v \in Values}

=============================================================================
