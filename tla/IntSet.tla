------------------------------- MODULE IntSet -------------------------------
(***************************************************************************)
(* The intset data type of src/tutorial/intset.c: text and binary input    *)
(* and output, the questions and the operations, on sorted arrays of       *)
(* unsigned integers of Width bits (32 in the code).  An intset is a       *)
(* record of the stored cardinality and the array.  A character of a text  *)
(* is a one-letter string, "ws" any white space, "x" any other character.  *)
(* The size of the output buffer is not modelled.                          *)
(***************************************************************************)
EXTENDS Integers, Sequences, FiniteSets, SequencesExt

CONSTANTS Regs,      \* the variables that hold an intset
          Width,     \* bits of eintset_t
          Inputs,    \* the lists of numbers that are read from texts
          Commas,    \* the ways in which a client writes a comma
          Probes     \* the numbers asked for with intset_contain

ASSUME IntSetAssumption ==
    /\ Width \in Nat \ {0}
    /\ Probes \subseteq 0 .. 2 ^ Width - 1
    /\ \A s \in Inputs : \A i \in DOMAIN s : s[i] \in 0 .. 2 ^ Width - 1

VARIABLES regs,      \* the intset each variable holds
          answer,    \* the Datum returned, if the last call was a question
          op         \* history: the last call

Modulus == 2 ^ Width
alloc_intset(cardi, arr) == [cardi |-> cardi, arr |-> arr]
Empty == alloc_intset(0, <<>>)
----------------------------------------------------------------------------
(* intset_in *)

Numeral == <<"0", "1", "2", "3", "4", "5", "6", "7", "8", "9">>
IsDigit(c) == \E d \in 1 .. 10 : Numeral[d] = c
Digit(c) == (CHOOSE d \in 1 .. 10 : Numeral[d] = c) - 1

\* The locals of the scanning loop.
ScanInit == [bracket |-> 0, number |-> "not_expecting", last_num |-> 0, buf |-> <<>>,
             error |-> FALSE]
Fail(st) == [st EXCEPT !.error = TRUE]
Push(st) == Append(st.buf, st.last_num)

ScanSpace(st) ==
    IF st.number = "inside" THEN [st EXCEPT !.buf = Push(st), !.number = "not_expecting"] ELSE st

\* Mutant: a trailing comma is accepted.
TrailingCommaOk(st) == FALSE

TrailingComma(st) == st.number = "expecting" /\ st.buf # <<>>

ScanClose(st) ==
    IF st.bracket # 1 \/ TrailingComma(st) THEN Fail(st)
    ELSE [st EXCEPT !.bracket = 2, !.number = "not_expecting",
                    !.buf = IF st.number = "inside" THEN Push(st) ELSE @]

ScanDigit(st, d) ==
    IF st.bracket # 1 \/ st.number = "not_expecting" THEN Fail(st)
    ELSE [st EXCEPT !.number = "inside",
                    !.last_num = ((IF st.number = "expecting" THEN 0 ELSE @) * 10 + d) % Modulus]

ScanComma(st) ==
    IF st.bracket # 1 \/ st.number = "expecting" THEN Fail(st)
    ELSE [st EXCEPT !.buf = Push(st), !.number = "expecting"]

\* One character of the text.
Scan(st, c) ==
    IF st.error THEN st
    ELSE IF c = "ws" THEN ScanSpace(st)
    ELSE IF c = "{" THEN IF st.bracket = 0 THEN [st EXCEPT !.bracket = 1, !.number = "expecting"]
                         ELSE Fail(st)
    ELSE IF c = "}" THEN ScanClose(st)
    ELSE IF IsDigit(c) THEN ScanDigit(st, Digit(c))
    ELSE IF c = "," THEN ScanComma(st)
    ELSE Fail(st)

\* The whole text has been read without a syntax error.
Accepted(st) == ~st.error /\ st.bracket = 2 /\ st.number = "not_expecting"

\* The difference of two unsigned numbers, returned as a signed one.
eintset_cmp(a, b) ==
    LET d == (a - b) % Modulus IN IF d < Modulus \div 2 THEN d ELSE d - Modulus

\* pg_qsort of fewer than 7 elements: insert each one into the prefix before it.
Insert(s, x) ==
    LET k == CHOOSE k \in 0 .. Len(s) :
                 /\ k = 0 \/ eintset_cmp(s[k], x) <= 0
                 /\ \A i \in k + 1 .. Len(s) : eintset_cmp(s[i], x) > 0
    IN  SubSeq(s, 1, k) \o <<x>> \o SubSeq(s, k + 1, Len(s))
pg_qsort(s) == FoldLeft(Insert, <<>>, s)

\* Mutant: duplicates stay.
DedupNone(s) == s

\* Drop each number that equals the last one kept.
Dedup(s) == FoldLeft(LAMBDA t, x : IF t # <<>> /\ Last(t) = x THEN t ELSE Append(t, x), <<>>, s)

\* The intset made of the numbers in buf.
Build(buf) == LET arr == Dedup(pg_qsort(buf)) IN alloc_intset(Len(arr), arr)

\* Outcomes that are no intset are told apart by a negative element.  The text is
\* refused with a syntax error:
SyntaxError == alloc_intset(0, <<-1>>)

\* The outcome of a store past the end of the buffer: what it hits, and what is
\* read back from there, is up to the allocator.
Overrun == alloc_intset(0, <<-2>>)

\* The slots of the buffer, counted before the scan.
nreserve_slot(text) == 1 + Len(SelectSeq(text, LAMBDA c : c = ","))

ScanAll(text) == FoldLeft(Scan, ScanInit, text)

intset_in(text) ==
    LET st == ScanAll(text) IN
    IF Len(st.buf) > nreserve_slot(text) THEN Overrun
    ELSE IF Accepted(st) THEN Build(st.buf) ELSE SyntaxError
----------------------------------------------------------------------------
(* intset_out, intset_send and intset_recv *)

ndigits_base2(x) == IF x = 0 THEN 1 ELSE CHOOSE n \in 1 .. 32 : x \div 2 ^ (n - 1) = 1

Lookup == <<0, 0, 0, 0, 1, 1, 1, 2, 2, 2, 3, 3, 3, 3, 4, 4, 4, 5, 5, 5, 6, 6, 6, 6, 7, 7, 7, 8, 8, 8,
            9, 9, 9>>

\* Mutant: one digit short at a power of ten.
ndigits_base10_strict(x) ==
    IF x = 0 THEN 1
    ELSE LET digits == Lookup[ndigits_base2(x) + 1] IN IF x > 10 ^ digits THEN digits + 1 ELSE digits

ndigits_base10(x) ==
    IF x = 0 THEN 1
    ELSE LET digits == Lookup[ndigits_base2(x) + 1] IN IF x >= 10 ^ digits THEN digits + 1 ELSE digits

\* The last n decimal digits of x.
LastDigits(x, n) == [j \in 1 .. n |-> Numeral[((x \div 10 ^ (n - j)) % 10) + 1]]
Decimal(x) == LastDigits(x, ndigits_base10(x))

\* Numbers given by their digits, with commas between them, in braces.
Text(items, comma) ==
    LET Item(i) == IF i = Len(items) THEN items[i] ELSE items[i] \o comma
    IN  <<"{">> \o FlattenSeq([i \in DOMAIN items |-> Item(i)]) \o <<"}">>
intset_out(x) == Text([i \in 1 .. x.cardi |-> Decimal(x.arr[i])], <<",">>)

intset_send(x) == <<x.cardi>> \o SubSeq(x.arr, 1, x.cardi)

\* pq_getmsgint raises an error when fewer than four bytes are left.
ProtocolError == alloc_intset(0, <<-3>>)

\* The words of a message are read one by one; what follows the last element is
\* left in the message.
intset_recv(msg) ==
    IF msg = <<>> \/ Len(msg) < msg[1] + 1 THEN ProtocolError
    ELSE alloc_intset(msg[1], SubSeq(msg, 2, msg[1] + 1))
----------------------------------------------------------------------------
(* Questions.  Indices are those of C plus one. *)

\* Mutant: the last element is never looked at.
SearchEndShort(x) == x.cardi - 1

\* The initial r.
SearchEnd(x) == x.cardi

\* Binary search between l and r.
intset_contain(a, x) ==
    LET Search[l \in 1 .. x.cardi + 1, r \in 0 .. x.cardi] ==
            LET mid == (l + r) \div 2 IN
            /\ l <= r
            /\ \/ x.arr[mid] = a
               \/ x.arr[mid] < a /\ Search[mid + 1, r]
               \/ x.arr[mid] > a /\ mid # 1 /\ Search[l, mid - 1]
    IN  x.cardi # 0 /\ Search[1, SearchEnd(x)]

\* The first and the last element of b lie between those of a.
InRange(a, b) == ~(b.arr[1] < a.arr[1] \/ b.arr[b.cardi] > a.arr[a.cardi])

\* Where the scan of a for x, which goes on at i, stops.
SkipTo(x, a, i) == CHOOSE k \in i .. a.cardi + 1 : /\ k > a.cardi \/ a.arr[k] >= x
                                                   /\ \A n \in i .. k - 1 : a.arr[n] < x

intset_improper_superset_internal(a, b) ==
    LET Found[j \in 1 .. b.cardi + 1, i \in 1 .. a.cardi + 1] ==
            \/ j > b.cardi
            \/ LET k == SkipTo(b.arr[j], a, i)
               IN  k <= a.cardi /\ a.arr[k] = b.arr[j] /\ Found[j + 1, k]
    IN  \/ b.cardi = 0
        \/ a.cardi >= b.cardi /\ InRange(a, b) /\ Found[1, 1]

intset_equal_internal(a, b) == a.cardi = b.cardi /\ a.arr = b.arr
----------------------------------------------------------------------------
(* Operations: two arrays are merged, keeping the elements found in the     *)
(* first one only, in the second one only, or in both.                      *)

\* One pass of the merging loop from positions i and j of the arrays: the
\* elements it writes.
Merge(a, b, onlyA, onlyB, both) ==
    LET Keep(c, s) == IF c THEN s ELSE <<>>
        From[i \in 1 .. a.cardi + 1, j \in 1 .. b.cardi + 1] ==
            IF i > a.cardi \/ j > b.cardi
              THEN Keep(onlyA, SubSeq(a.arr, i, a.cardi)) \o Keep(onlyB, SubSeq(b.arr, j, b.cardi))
            ELSE IF a.arr[i] > b.arr[j] THEN Keep(onlyB, <<b.arr[j]>>) \o From[i, j + 1]
            ELSE IF a.arr[i] < b.arr[j] THEN Keep(onlyA, <<a.arr[i]>>) \o From[i + 1, j]
            ELSE Keep(both, <<a.arr[i]>>) \o From[i + 1, j + 1]
    IN  From[1, 1]

\* The pass that counts the elements before the result is allocated.
Precount(a, b, onlyA, onlyB, both) ==
    LET One(c) == IF c THEN 1 ELSE 0
        From[i \in 1 .. a.cardi + 1, j \in 1 .. b.cardi + 1] ==
            IF i > a.cardi \/ j > b.cardi
              THEN (IF onlyA THEN a.cardi + 1 - i ELSE 0) + (IF onlyB THEN b.cardi + 1 - j ELSE 0)
            ELSE IF a.arr[i] > b.arr[j] THEN One(onlyB) + From[i, j + 1]
            ELSE IF a.arr[i] < b.arr[j] THEN One(onlyA) + From[i + 1, j]
            ELSE One(both) + From[i + 1, j + 1]
    IN  From[1, 1]

Combine(a, b, onlyA, onlyB, both) ==
    alloc_intset(Precount(a, b, onlyA, onlyB, both), Merge(a, b, onlyA, onlyB, both))

intset_intersect(a, b) ==
    IF a.cardi = 0 \/ b.cardi = 0 THEN Empty ELSE Combine(a, b, FALSE, FALSE, TRUE)
intset_union(a, b) ==
    IF a.cardi = 0 THEN b ELSE IF b.cardi = 0 THEN a ELSE Combine(a, b, TRUE, TRUE, TRUE)
intset_disjunct(a, b) ==
    IF a.cardi = 0 THEN b ELSE IF b.cardi = 0 THEN a ELSE Combine(a, b, TRUE, TRUE, FALSE)
intset_subtract(a, b) ==
    IF a.cardi = 0 THEN Empty ELSE IF b.cardi = 0 THEN a ELSE Combine(a, b, TRUE, FALSE, FALSE)
----------------------------------------------------------------------------
(* Calls: a text is read into a variable, a variable is copied through the  *)
(* binary format, replaced by the result of an operation, or examined.      *)

vars == <<regs, answer, op>>

Init == regs = [r \in Regs |-> Empty] /\ answer = 0 /\ op = <<"none">>

Store(call, r, x) == op' = call /\ regs' = [regs EXCEPT ![r] = x] /\ answer' = 0
Return(call, x) == op' = call /\ answer' = x /\ UNCHANGED regs
Bool(b) == IF b THEN 1 ELSE 0

\* A number as a client writes it: as many digits as it takes.
Written(x) == LastDigits(x, IF x = 0 THEN 1 ELSE CHOOSE n \in 1 .. 10 : x \div 10 ^ (n - 1) \in 1 .. 9)

Read(a) ==
    \E s \in Inputs, comma \in Commas :
        Store(<<"in", a, {s[i] : i \in DOMAIN s}>>, a,
              intset_in(Text([i \in DOMAIN s |-> Written(s[i])], comma)))

\* The message may arrive cut short; the variable then keeps its value.
Copy(a, b) ==
    \E n \in 0 .. regs[b].cardi + 1 :
        LET x == intset_recv(SubSeq(intset_send(regs[b]), 1, n)) IN
        IF x = ProtocolError THEN Return(<<"error">>, 0) ELSE Store(<<"copy", a, b>>, a, x)

Update(a, b) ==
    \/ Store(<<"union", a, b>>, a, intset_union(regs[a], regs[b]))
    \/ Store(<<"intersect", a, b>>, a, intset_intersect(regs[a], regs[b]))
    \/ Store(<<"disjunct", a, b>>, a, intset_disjunct(regs[a], regs[b]))
    \/ Store(<<"subtract", a, b>>, a, intset_subtract(regs[a], regs[b]))

Question(a, b) ==
    \/ \E x \in Probes : Return(<<"contain", x, b>>, Bool(intset_contain(x, regs[b])))
    \/ Return(<<"superset", a, b>>, Bool(intset_improper_superset_internal(regs[a], regs[b])))
    \/ Return(<<"subset", a, b>>, Bool(intset_improper_superset_internal(regs[b], regs[a])))
    \/ Return(<<"equal", a, b>>, Bool(intset_equal_internal(regs[a], regs[b])))
    \/ Return(<<"notequal", a, b>>, Bool(~intset_equal_internal(regs[a], regs[b])))
    \/ Return(<<"cardinality", a>>, regs[a].cardi)

Next ==
    \/ \E a \in Regs : Read(a)
    \/ \E a, b \in Regs : Copy(a, b) \/ Update(a, b) \/ Question(a, b)
Spec == Init /\ [][Next]_vars
----------------------------------------------------------------------------
(* Properties *)

\* The array holds as many elements as were counted before it was allocated, in
\* strictly increasing order.  Without it the memcmp of intset_equal would tell
\* equal sets apart, and the searches would miss elements.
Canonical ==
    \A r \in Regs :
        LET x == regs[r] IN
        /\ x.cardi = Len(x.arr)
        /\ \A i \in 1 .. x.cardi - 1 : x.arr[i] < x.arr[i + 1]

\* "underlying data-sturcture of intset is a sorted (non-decreasing) array."
Sorted ==
    \A r \in Regs : \A i \in 1 .. regs[r].cardi - 1 : regs[r].arr[i] <= regs[r].arr[i + 1]

\* "allocate buffer to hold all the input elements (which may contain
\* duplication)": no text of numbers, however its commas are written, makes
\* intset_in store past that buffer.
BufferHolds == \A r \in Regs : regs[r] # Overrun

\* Reading what intset_out writes gives the same intset again, and the digit
\* count it works with is right just below, at and above each power of ten.
RoundTrip ==
    /\ \A r \in Regs : intset_in(intset_out(regs[r])) = regs[r]
    /\ op = <<"none">> =>
           \A k \in 0 .. 9, d \in {-1, 0, 1} : Decimal(10 ^ k + d) = Written(10 ^ k + d)

\* The numbers that occur in a run.
Numbers == Probes \cup UNION {{s[i] : i \in DOMAIN s} : s \in Inputs}
AsSet(x) == {x.arr[i] : i \in 1 .. x.cardi}
Abstract == INSTANCE IntSets WITH Elems <- Numbers, val <- [r \in Regs |-> AsSet(regs[r])]

\* Every call does to the sets of numbers what its name says, and every question
\* is answered truly.
ImplementsSets == Abstract!Spec
====
