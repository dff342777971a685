--------------------------- MODULE MCSymbolCache ---------------------------
(***************************************************************************)
(* Four names of lengths 2 to 4 looked up among three symbols; "pu" is a   *)
(* part of two of them and the name of none, "gone" matches nothing.       *)
(***************************************************************************)
EXTENDS SymbolCache, TLC

MCNames == {"pu", "put", "puts", "gone"}
MCSymbols == {"put@text", "puts@text", "get@text"}
MCMatching == ("pu" :> {"put@text", "puts@text"}) @@ ("put" :> {"put@text", "puts@text"})
              @@ ("puts" :> {"puts@text"}) @@ ("gone" :> {})
MCExact == ("pu" :> {}) @@ ("put" :> {"put@text"})
           @@ ("puts" :> {"puts@text"}) @@ ("gone" :> {})
MCLength == ("pu" :> 2) @@ ("put" :> 3) @@ ("puts" :> 4) @@ ("gone" :> 4)
=============================================================================
