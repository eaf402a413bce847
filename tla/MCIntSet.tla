------------------------------ MODULE MCIntSet ------------------------------
(* IntSetText on lists of up to MaxList numbers from Values.                  *)
EXTENDS IntSetText

CONSTANTS Values, MaxList

Lists == UNION {[1 .. n -> Values] : n \in 0 .. MaxList}

\* A comma after a number, with or without white space behind it.
PlainCommas == {<<",">>, <<",", "ws">>}

\* A comma with white space on both sides of it.
SpacedCommas == {<<"ws", ",", "ws">>}
====
