----------------------------- MODULE IntSetText -----------------------------
(***************************************************************************)
(* The scanning loop of intset_in against the grammar of the text format:  *)
(* "{" [ number { "," number } ] "}", with white space anywhere but inside *)
(* a number.                                                               *)
(***************************************************************************)
EXTENDS IntSet, FiniteSetsExt

CONSTANTS Chars,     \* the characters of the texts
          MaxText    \* bound on the length of a text

Texts == UNION {[1 .. n -> Chars] : n \in 0 .. MaxText}

DigitAt(text, i) == i \in DOMAIN text /\ IsDigit(text[i])

\* A token begins at each character that is neither white space nor a digit that
\* follows a digit.
Starts(text) ==
    {i \in DOMAIN text : text[i] # "ws" /\ ~(DigitAt(text, i) /\ DigitAt(text, i - 1))}

\* The numbers of a text, as unsigned numbers of Width bits.
NumberAt(text, i) ==
    LET n == Max({k \in i .. Len(text) : \A j \in i .. k : DigitAt(text, j)})
    IN  FoldLeft(LAMBDA v, c : v * 10 + Digit(c), 0, SubSeq(text, i, n)) % Modulus
NumbersOf(text) == {NumberAt(text, i) : i \in {j \in Starts(text) : DigitAt(text, j)}}

\* Braces around numbers, with a comma after each number but the last.
InGrammar(text) ==
    LET tokens == SelectSeq([i \in DOMAIN text |-> i], LAMBDA i : i \in Starts(text))
        n == Len(tokens)
        inner == n - 2 IN
    /\ n >= 2 /\ text[tokens[1]] = "{" /\ text[tokens[n]] = "}"
    /\ inner = 0 \/ inner % 2 = 1
    /\ \A k \in 1 .. inner : IF k % 2 = 1 THEN DigitAt(text, tokens[k + 1])
                             ELSE text[tokens[k + 1]] = ","

\* White space in front of a comma.
SpacedComma(text) == \E i \in 2 .. Len(text) : text[i] = "," /\ text[i - 1] = "ws"

\* The scan accepts exactly the texts of the grammar, also those it meets with
\* the state of its flags left over from an earlier number, and stores exactly
\* the numbers of the text.  The slots counted beforehand hold them in all texts
\* that have no white space in front of a comma, and in no others: there the
\* number is stored twice.  What intset_in does to a text does not depend on the
\* state of the system, so the initial state is the one in which it is examined.
ScansGrammar ==
    op = <<"none">> =>
        \A text \in Texts :
            LET st == ScanAll(text) IN
            /\ Accepted(st) <=> InGrammar(text)
            /\ InGrammar(text) =>
                   /\ ToSet(Build(st.buf).arr) = NumbersOf(text)
                   /\ intset_in(text) = IF SpacedComma(text) THEN Overrun ELSE Build(st.buf)
====
