---------------------------- MODULE MCStepping ----------------------------
(***************************************************************************)
(* A debuggee of fourteen one-byte instructions:                           *)
(*   0 .. 2    the C library: call main, return from it, exit              *)
(*   3 .. 7    main: prologue, a call of f, a call of g, an access that    *)
(*             may fault, return; a line each                              *)
(*   8 .. 11   f: prologue, a line of two instructions that calls the C    *)
(*             library, return                                             *)
(*   12        a function of the C library, with no lines                  *)
(*   13        g, whose low pc the line table does not cover               *)
(***************************************************************************)
EXTENDS Stepping, TLC

I(op, to) == [op |-> op, to |-> to]

MCAddr == 0 .. 13
MCCode ==
    [a \in MCAddr |->
        CASE a = 0 -> I("call", 3)
          [] a = 2 -> I("exit", 0)
          [] a = 4 -> I("call", 8)
          [] a = 5 -> I("call", 13)
          [] a = 6 -> I("deref", 0)
          [] a = 9 -> I("call", 12)
          [] a \in {7, 11, 12, 13} -> I("ret", 0)
          [] OTHER -> I("seq", 0)]
MCText == [a \in MCAddr |-> a + 1]
MCJunk == {6, 14}
MCWords == {[i \in {0} |-> 1]}

MCLine == [a \in MCAddr |->
    CASE a \in 3 .. 7 -> a - 2
      [] a = 8 -> 6
      [] a \in {9, 10} -> 7
      [] a = 11 -> 8
      [] a = 13 -> 9
      [] OTHER -> 0]
MCFunc == [a \in MCAddr |->
    CASE a \in 3 .. 7 -> "main"
      [] a \in 8 .. 11 -> "f"
      [] a = 13 -> "g"
      [] OTHER -> "none"]
MCStmts == (3 .. 11) \ {10}
MCFramed == {4, 5, 6, 9, 10}

ASSUME StatementsAssumption == StatementsReachable
=============================================================================
