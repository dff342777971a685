----------------------------- MODULE MCSession -----------------------------
(***************************************************************************)
(* A debuggee of eleven one-byte instructions:                             *)
(*   0 .. 2   the C library: call main, return from it, exit               *)
(*   3 .. 6   main: prologue, first line (a call), an access that may      *)
(*            fault, return                                                *)
(*   7 .. 8   a function: a branch, return                                 *)
(*   9 .. 10  data, whose words read as -1                                 *)
(***************************************************************************)
EXTENDS Session, TLC

I(op, to) == [op |-> op, to |-> to]

MCAddr == 0 .. 10
MCCode ==
    [a \in MCAddr |->
        CASE a = 0 -> I("call", 3)
          [] a = 2 -> I("exit", 0)
          [] a = 4 -> I("call", 7)
          [] a = 5 -> I("deref", 0)
          [] a = 7 -> I("branch", 5)
          [] a \in {6, 8} -> I("ret", 0)
          [] OTHER -> I("seq", 0)]
MCText == [a \in MCAddr |-> IF a >= 9 THEN Ones ELSE a + 1]

(* 10 is in the file, but a word there reaches past the mapped memory.     *)
MCBreakable == (0 .. 8) \cup {10}
MCBreakAddrs == {1, 5, 10}
MCRipValues == {1, 4, 8, 11}
MCJunk == {5, 11}
MCNoSource == {8}
MCPeekAddrs == {5, 9}
MCWords == {[i \in 0 .. 1 |-> Ones], (0 :> 9) @@ (1 :> Int3)}
=============================================================================
