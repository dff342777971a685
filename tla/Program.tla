------------------------------ MODULE Program ------------------------------
(***************************************************************************)
(* What a debugging session promises about the debuggee: it executes its   *)
(* own instructions, one after the other, as it would with no debugger     *)
(* attached, and nothing but the user at a prompt changes its code or its  *)
(* instruction pointer.  No breakpoint, trap, step over a breakpoint or    *)
(* temporary breakpoint can be told from here: int3s are not in code, and  *)
(* rip never shows that one was executed.                                  *)
(*                                                                         *)
(* Nothing is promised of an instruction the user wrote over while a       *)
(* breakpoint stood on it (edited): it may be the old one or none.         *)
(***************************************************************************)
EXTENDS Integers, Sequences

CONSTANTS Addr, Text, Code, Entry, MaxDepth

VARIABLES
    code,     \* the program, as loaded and as the user rewrote it
    edited,   \* the addresses written over under a breakpoint
    rip,
    frames,   \* return addresses, innermost first
    turn      \* who may act: "program", "user", or nobody, "over"

programVars == <<code, edited, rip, frames, turn>>

Init ==
    /\ code = Text
    /\ edited = {}
    /\ frames = <<>>
    /\ \/ turn = "program" /\ rip = Entry
       \/ turn = "over" /\ rip = 0

Runnable == rip \in Addr /\ (code[rip] = Text[rip] \/ rip \in edited)

Advance ==
    /\ Code[rip].op \in {"seq", "branch", "deref"}
    /\ rip' = rip + 1 /\ frames' = frames

Branch ==
    /\ Code[rip].op = "branch"
    /\ rip' = Code[rip].to /\ frames' = frames

Call ==
    /\ Code[rip].op = "call" /\ Len(frames) < MaxDepth
    /\ rip' = Code[rip].to /\ frames' = <<rip + 1>> \o frames

Return ==
    /\ Code[rip].op = "ret" /\ frames # <<>>
    /\ rip' = Head(frames) /\ frames' = Tail(frames)

Execute ==
    /\ turn = "program" /\ Runnable
    /\ Advance \/ Branch \/ Call \/ Return
    /\ UNCHANGED <<code, edited, turn>>

(* The user moves rip, or goes back to where a step began.                 *)
Move ==
    /\ turn = "user" /\ turn' \in {"user", "program"}
    /\ UNCHANGED <<code, edited>>

(* The user writes memory; the session may end over it.                    *)
Edit ==
    /\ turn = "user" /\ turn' \in {"user", "over"}
    /\ edited \subseteq edited'
    /\ IF turn' = "over" THEN rip' = 0 /\ frames' = <<>> ELSE UNCHANGED <<rip, frames>>

PassTurn ==
    /\ turn # "over" /\ turn' \in {"program", "user"}
    /\ UNCHANGED <<code, edited, rip, frames>>

(* The program ended, or the debugger did.                                 *)
End ==
    /\ turn # "over" /\ turn' = "over"
    /\ rip' = 0 /\ frames' = <<>>
    /\ UNCHANGED <<code, edited>>

Next == Execute \/ Move \/ Edit \/ PassTurn \/ End

Spec == Init /\ [][Next]_programVars
=============================================================================
