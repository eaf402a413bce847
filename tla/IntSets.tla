------------------------------ MODULE IntSets ------------------------------
(***************************************************************************)
(* What the intset type promises: variables that hold finite sets of       *)
(* numbers, the set operations on them, and true answers to the questions  *)
(* that the operators of intset.source ask.  op names the last call; one   *)
(* that fails changes nothing.                                             *)
(***************************************************************************)
EXTENDS Integers, FiniteSets

CONSTANTS Regs,    \* the variables (columns, parameters) that hold an intset
          Elems    \* the numbers

VARIABLES val,     \* the set each variable holds
          answer,  \* the result of a question; a truth value is 0 or 1
          op       \* the last call and its arguments

Datum(b) == IF b THEN 1 ELSE 0

Init == val = [r \in Regs |-> {}] /\ answer = 0 /\ op = <<"none">>

Assign(call, r, s) == op' = call /\ val' = [val EXCEPT ![r] = s] /\ answer' = 0
Ask(call, x) == op' = call /\ answer' = x /\ UNCHANGED val

Next ==
    \E a, b \in Regs :
        \/ \E s \in SUBSET Elems : Assign(<<"in", a, s>>, a, s)
        \/ Assign(<<"copy", a, b>>, a, val[b])
        \/ Assign(<<"union", a, b>>, a, val[a] \cup val[b])
        \/ Assign(<<"intersect", a, b>>, a, val[a] \cap val[b])
        \/ Assign(<<"disjunct", a, b>>, a, (val[a] \ val[b]) \cup (val[b] \ val[a]))
        \/ Assign(<<"subtract", a, b>>, a, val[a] \ val[b])
        \/ \E x \in Elems : Ask(<<"contain", x, b>>, Datum(x \in val[b]))
        \/ Ask(<<"superset", a, b>>, Datum(val[b] \subseteq val[a]))
        \/ Ask(<<"subset", a, b>>, Datum(val[a] \subseteq val[b]))
        \/ Ask(<<"equal", a, b>>, Datum(val[a] = val[b]))
        \/ Ask(<<"notequal", a, b>>, Datum(val[a] # val[b]))
        \/ Ask(<<"cardinality", a>>, Cardinality(val[a]))
        \/ Ask(<<"error">>, 0)

Spec == Init /\ [][Next]_<<val, answer, op>>
====
