---------------------------- MODULE SymbolLookup ----------------------------
(***************************************************************************)
(* What looking a symbol up promises: the symbols of the ELF symbol tables *)
(* whose name matches, as a function of the question alone.  A question    *)
(* asks for the symbols named exactly like it (strict) or containing it.   *)
(* The lists of the code keep the order of the tables, which no operation  *)
(* changes, so that a set stands for a list.                               *)
(***************************************************************************)
CONSTANTS
    Names,      \* what may be looked up
    Symbols,    \* the named entries of the symbol tables
    Matching,   \* Matching[n]: the symbols whose name contains n
    Exact       \* Exact[n]: those whose name is n

VARIABLE answer   \* the last question, and the symbols returned for it

Found(n, strict) == IF strict THEN Exact[n] ELSE Matching[n]

Unasked == [asked |-> FALSE]
Answer(n, strict, symbols) ==
    [asked |-> TRUE, name |-> n, strict |-> strict, symbols |-> symbols]

Init == answer = Unasked

Lookup(n, strict) == answer' = Answer(n, strict, Found(n, strict))

Next == \E n \in Names, strict \in BOOLEAN : Lookup(n, strict)

Spec == Init /\ [][Next]_answer
=============================================================================
