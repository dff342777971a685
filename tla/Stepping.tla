------------------------------ MODULE Stepping ------------------------------
(***************************************************************************)
(* The source-level commands step_in, next and finish (stepIn, stepOver    *)
(* and stepOut of step.cpp) on top of a session.  Each is a plan that the  *)
(* debugger follows over several stops of the child; the three call each   *)
(* other in tail position only, so one plan at a time is enough.           *)
(***************************************************************************)
EXTENDS Session

CONSTANTS
    Line,         \* Line[a]: the line of the entry that covers a, or 0
    Func,         \* Func[a]: the user's function around a, or "none"
    Stmts,        \* the addresses of line entries with is_stmt
    Unlisted,     \* functions whose low pc no line entry covers
    Framed,       \* instructions at which rbp is their function's own frame
    OnesOnStack   \* instructions with a word of all ones close above rsp

ASSUME SteppingAssumption ==
    /\ Line \in [Addr -> Nat]
    /\ DOMAIN Func = Addr
    /\ Stmts \subseteq {a \in Addr : Line[a] # 0}
    /\ Framed \subseteq Addr /\ OnesOnStack \subseteq Addr

VARIABLES
    plan,    \* "none", what is to be called, or where a plan is
    start,   \* what stepIn and stepOver remember of where they began
    temps,   \* addrshouldRemove: temporary breakpoints and their fate
    before,  \* history: the table when the command was given
    rewritten \* history: what the user wrote over where the table had an entry

planVars == <<plan, start, temps, before>>
allVars == <<vars, planVars, rewritten>>

(* "line": in the loop of stepIn.  "ask": at its question.  "go": about to *)
(* continue.  "last": the next return of control ends the plan.            *)
Plans == {"none", "stepIn", "stepOver", "stepOut", "line", "ask", "go", "last"}

Nowhere == [pc |-> Null, line |-> 0, func |-> "none", stack |-> <<>>, regs |-> FALSE]

StepTypeOK ==
    /\ TypeOK
    /\ plan \in Plans
    /\ start.pc \in Addr \cup {Null} /\ start.stack \in Seq(Nat)
    /\ start.pc # Null => start.line = Line[start.pc] /\ start.func = Func[start.pc]
    /\ temps \subseteq [addr : Addr, how : {"erase", "disable"}]
    /\ before \in [Addr -> {"none", "disabled", "enabled"}]
    /\ rewritten \subseteq Addr

StepInit ==
    /\ Init
    /\ plan = "none" /\ start = Nowhere /\ temps = {} /\ before = bp
    /\ rewritten = {}

-----------------------------------------------------------------------------
InTable(p) == p \in Addr /\ Line[p] # 0
FuncAt(p) == IF p \in Addr THEN Func[p] ELSE "none"

(* The plan has control: the child has stopped, or was not resumed.        *)
Planned(name) == plan = name /\ at = "returned" /\ over = Null

EndsPlan == plan' = "last" /\ UNCHANGED <<start, temps, before>>

(* singleStepBreakpointCheck, from within a plan.                          *)
StepOnce(p) ==
    /\ StepAtMainReturn(p) \/ StepInstruction(p) \/ StepBreakpoint(p)
    /\ cmd' = "step"
    /\ UNCHANGED <<registers, history, mainRet, mapped, leftover>>

(* validMemoryRegionShouldStep(itr, true) is false: nothing is left to do, *)
(* but for one instruction where the memory is mapped and has no lines.    *)
ValidRegion(p) == ~isTerminated(state) /\ mapped /\ InTable(p)

InvalidRegion(p) ==
    /\ ~ValidRegion(p)
    /\ EndsPlan
    /\ \/ /\ ~isTerminated(state) /\ mapped /\ p \in Addr
          /\ StepOnce(p)
       \/ /\ isTerminated(state) \/ ~mapped \/ p \notin Addr
          /\ state' = IF isTerminated(state) \/ isExecuting(state) THEN state ELSE "kill"
          /\ UNCHANGED <<traceeVars, tableVars, at, cmd, over, mapped, leftover>>

(* What readMemory(rbp + 8) finds at p: the return address of the running  *)
(* function, or of its caller where rbp is not set up or already restored; *)
(* otherwise anything.                                                     *)
Certain(p) ==
    /\ child = "stopped" /\ stack # <<>>
    /\ p \in Framed \/ Len(stack) > 1
ReturnAddress(p) ==
    IF ~Certain(p) THEN Junk
    ELSE {stack[IF p \in Framed THEN 1 ELSE 2]}

(* The chunk at rbp + 8 cannot be read, or the read throws.                *)
FrameUnreadable(p) == ~Certain(p)
FrameReadThrows(p) ==
    /\ ~Certain(p)
    /\ Abort
    /\ EndsPlan
    /\ UNCHANGED <<mode, registers, history, mainRet, state, cmd, over, mapped, leftover>>

Call(name) ==
    /\ plan' = name
    /\ UNCHANGED <<vars, start, temps, before>>

-----------------------------------------------------------------------------
(* Temporary breakpoints.                                                  *)

(* Mutant of Temporary: every breakpoint it passes is to be erased.        *)
TemporaryAll(S) == [addr : {a \in S : mapped /\ a \in Breakable}, how : {"erase"}]

(* setBreakpointAtAddress at each address of S: those it inserts are to be *)
(* erased, those it finds disabled to be disabled again.                   *)
Temporary(S) ==
    {[addr |-> a, how |-> "erase"] : a \in {x \in S : Insertable(x, mapped)}}
        \cup {[addr |-> a, how |-> "disable"] :
                  a \in {x \in S \cap Breakable : mapped /\ bp[x] = "disabled"}}

Erased(T) == {t.addr : t \in {u \in T : u.how = "erase"}}
Disabled(T) == {t.addr : t \in {u \in T : u.how = "disable"}}

(* Mutant of SetAll: an address that is in the table ends the loop.        *)
SetUntilPresent(S) ==
    LET new == {a \in Erased(Temporary(S)) : \A b \in S : b < a => b \notin Present}
    IN  /\ mem' = [a \in Addr |-> IF a \in new THEN Int3 ELSE mem[a]]
        /\ data' = [a \in Addr |-> IF a \in new THEN mem[a] ELSE data[a]]
        /\ bp' = [a \in Addr |-> IF a \in new THEN "enabled" ELSE bp[a]]

SetAll(S) ==
    LET new == Erased(Temporary(S))
    IN  /\ mem' = [a \in Addr |-> IF a \in new THEN Int3 ELSE mem[a]]
        /\ data' = [a \in Addr |-> IF a \in new THEN mem[a] ELSE data[a]]
        /\ bp' = [a \in Addr |-> IF a \in new THEN "enabled" ELSE bp[a]]

(* Mutant of ClearTemps: the disabled ones are left enabled.               *)
ClearErasedOnly ==
    LET back == {a \in Addr : Pokable(a) /\ a \in Erased(temps) /\ IsEnabled(a)}
    IN  /\ mem' = [a \in Addr |-> IF a \in back THEN data[a] ELSE mem[a]]
        /\ bp' = [a \in Addr |-> IF a \in Erased(temps) THEN "none" ELSE bp[a]]
        /\ data' = [a \in Addr |-> IF a \in Erased(temps) THEN 0 ELSE data[a]]

(* Mutant of ClearTemps: the entry goes without disable(), the int3 stays. *)
ClearWithoutRestore ==
    LET back == {a \in Addr : Pokable(a) /\ a \in Disabled(temps)}
    IN  /\ mem' = [a \in Addr |-> IF a \in back THEN data[a] ELSE mem[a]]
        /\ bp' = [a \in Addr |-> IF a \in Erased(temps) THEN "none"
                                 ELSE IF a \in back THEN "disabled" ELSE bp[a]]
        /\ data' = [a \in Addr |-> IF a \in Erased(temps) THEN 0 ELSE data[a]]

(* removeBreakpoint(addr) of the erased ones, disable() of the others.     *)
ClearTemps ==
    LET back == {a \in Addr : Pokable(a) /\
                     (a \in Disabled(temps) \/ (a \in Erased(temps) /\ IsEnabled(a)))}
    IN  /\ mem' = [a \in Addr |-> IF a \in back THEN data[a] ELSE mem[a]]
        /\ bp' = [a \in Addr |-> IF a \in Erased(temps) THEN "none"
                                 ELSE IF a \in back THEN "disabled" ELSE bp[a]]
        /\ data' = [a \in Addr |-> IF a \in Erased(temps) THEN 0 ELSE data[a]]

(* Mutant of Go: continued until one of its own breakpoints is reached.    *)
GoUntilTemporary ==
    /\ Planned("go")
    /\ \/ /\ \E t \in temps : t.addr \in PCs
          /\ plan' = "last" /\ UNCHANGED vars
       \/ /\ \A t \in temps : t.addr \notin PCs
          /\ ContinueExecution("cont") /\ UNCHANGED plan
    /\ UNCHANGED <<start, temps, before>>

Go ==
    /\ Planned("go")
    /\ ContinueExecution("cont")
    /\ plan' = "last"
    /\ UNCHANGED <<start, temps, before>>

(* Mutant of EndPlan: a plan cut short by a fault returns at once.         *)
EndPlanUnlessFault ==
    /\ Planned("last")
    /\ IF state = "faulting" THEN UNCHANGED <<mem, bp, data>> ELSE ClearTemps
    /\ plan' = "none" /\ start' = Nowhere /\ temps' = {}
    /\ before' = [a \in Addr |-> "none"]
    /\ UNCHANGED <<child, mode, registers, history, mainRet, controlVars>>

(* The end of stepOut and stepOver, or of a plan that set nothing.         *)
EndPlan ==
    /\ Planned("last")
    /\ ClearTemps
    /\ plan' = "none" /\ start' = Nowhere /\ temps' = {}
    /\ before' = [a \in Addr |-> "none"]
    /\ UNCHANGED <<child, mode, registers, history, mainRet, controlVars>>

-----------------------------------------------------------------------------
(* stepOut.                                                                *)

StepOutTo(r) ==
    /\ \/ /\ Insertable(r, mapped) \/ (mapped /\ r \in Breakable /\ bp[r] = "enabled")
          /\ SetAll({r})
       \/ /\ mapped /\ r \in Breakable /\ bp[r] = "disabled"
          /\ Enable(r)
    /\ temps' = Temporary({r})
    /\ plan' = "go"

(* The return address is not in executable memory, or the poke failed.     *)
StepOutFails(r) ==
    /\ ~Insertable(r, mapped) /\ ~(mapped /\ r \in Breakable /\ bp[r] # "none")
    /\ plan' = "last"
    /\ UNCHANGED <<mem, bp, data, temps>>

StepOut ==
    /\ Planned("stepOut")
    /\ \E p \in PCs :
         \/ /\ FrameUnreadable(p) /\ Call("stepIn")
         \/ FrameReadThrows(p) /\ UNCHANGED <<mem, bp, data>>
         \/ /\ \E r \in ReturnAddress(p) : StepOutTo(r) \/ StepOutFails(r)
            /\ UNCHANGED <<child, mode, registers, history, mainRet, controlVars,
                           start, before>>

-----------------------------------------------------------------------------
(* stepOver.                                                               *)

(* The statements of the function on other lines than p's.                 *)
OtherLines(p) == {a \in Stmts : Func[a] = Func[p] /\ Line[a] # Line[p]}

Here(p) == [pc |-> p, line |-> Line[p], func |-> Func[p], stack |-> stack,
            regs |-> child = "stopped"]

StepOver ==
    /\ Planned("stepOver")
    /\ \E p \in PCs :
         \/ InvalidRegion(p)
         \/ /\ ValidRegion(p) /\ (Func[p] = "none" \/ FrameUnreadable(p))
            /\ Call("stepIn")
         \/ /\ ValidRegion(p) /\ Func[p] \in Unlisted
            /\ StepOnce(p)
            /\ EndsPlan
         \/ /\ ValidRegion(p) /\ Func[p] \notin Unlisted \cup {"none"}
            /\ FrameReadThrows(p) /\ SetAll(OtherLines(p))
         \/ /\ ValidRegion(p) /\ Func[p] \notin Unlisted \cup {"none"}
            /\ \E r \in ReturnAddress(p) :
                 /\ SetAll(OtherLines(p) \cup {r})
                 /\ temps' = Temporary(OtherLines(p) \cup {r})
            /\ plan' = "go" /\ start' = Here(p)
            /\ UNCHANGED <<child, mode, registers, history, mainRet, controlVars, before>>

-----------------------------------------------------------------------------
(* stepIn.                                                                 *)

(* The stack snapshot: readMemory throws at a word of all ones and, of a   *)
(* child that is gone, at any word the stale rsp has in a readable chunk.  *)
StepIn ==
    /\ Planned("stepIn")
    /\ \E p \in PCs :
         \/ InvalidRegion(p)
         \/ /\ ValidRegion(p) /\ (p \in OnesOnStack \/ child = "dead")
            /\ Abort
            /\ EndsPlan
            /\ UNCHANGED <<mem, mode, registers, tableVars, state, cmd, over, mapped, leftover>>
         \/ /\ ValidRegion(p) /\ (p \notin OnesOnStack \/ child = "dead")
            /\ plan' = "line" /\ start' = Here(p)
            /\ UNCHANGED <<vars, temps, before>>

(* The snapshot is of the eight words beyond the one rsp points to: those  *)
(* it does not cover (kept) stay what lies in their place by now.          *)
Restored(kept) ==
    [i \in 1 .. Len(start.stack) |->
        LET now == Len(stack) - Len(start.stack) + i
        IN  IF i \in kept /\ now \in 1 .. Len(stack)
            THEN stack[now] ELSE start.stack[i]]

SameLine(p) == InTable(p) /\ Line[p] = start.line

(* Mutant of StepLine: the registers are put back without a question.      *)
StepLineReverts ==
    /\ Planned("line")
    /\ \E p \in PCs :
         \/ /\ SameLine(p)
            /\ StepOnce(p)
            /\ UNCHANGED planVars
         \/ /\ InTable(p) /\ ~SameLine(p)
            /\ Call(IF start.func \notin {"none", FuncAt(p)} THEN "stepIn" ELSE "last")
         \/ /\ ~InTable(p) /\ ~(isExecuting(state) /\ start.regs /\ child = "stopped")
            /\ Call("last")
         \/ /\ ~InTable(p) /\ isExecuting(state) /\ start.regs /\ child = "stopped"
            /\ pc' = start.pc /\ plan' = "stepOver"
            /\ \E kept \in SUBSET (1 .. Len(start.stack)) : stack' = Restored(kept)
            /\ UNCHANGED <<mem, child, mode, event, signals, tableVars, controlVars,
                           start, temps, before>>

(* One turn of the loop, or what follows it: another line of the function, *)
(* a line of another function, which is entered, or code without lines.    *)
StepLine ==
    /\ Planned("line")
    /\ \E p \in PCs :
         \/ /\ SameLine(p)
            /\ StepOnce(p)
            /\ UNCHANGED planVars
         \/ /\ InTable(p) /\ ~SameLine(p)
            /\ Call(IF start.func \notin {"none", FuncAt(p)} THEN "stepIn" ELSE "last")
         \/ /\ ~InTable(p)
            /\ Call(IF isExecuting(state) THEN "ask" ELSE "last")

(* "Revert state and step-over?": the registers are put back, and what the *)
(* snapshot covers of the stack.                                           *)
AnswerRevert(yes) ==
    /\ Planned("ask")
    /\ leftover' = FALSE
    /\ \/ /\ Prompted(yes) /\ start.regs /\ child = "stopped"
          /\ pc' = start.pc /\ plan' = "stepOver"
          /\ \E kept \in SUBSET (1 .. Len(start.stack)) : stack' = Restored(kept)
       \/ /\ ~(Prompted(yes) /\ start.regs /\ child = "stopped")
          /\ plan' = "last"
          /\ UNCHANGED <<pc, stack>>
    /\ UNCHANGED <<mem, child, mode, event, signals, tableVars, state, at, cmd, over, mapped,
                   start, temps, before>>

-----------------------------------------------------------------------------
(* The commands; a fault can be forced past, but not by step_in.           *)
StepCommand(how) ==
    /\ at = "prompt"
    /\ how = "stepIn" => state # "faulting"
    /\ at' = "returned" /\ cmd' = "step"
    /\ plan' = how /\ before' = bp
    /\ UNCHANGED <<traceeVars, tableVars, state, over, mapped, leftover, start, temps>>

Planning == StepOut \/ StepOver \/ StepIn \/ StepLine \/ Go \/ EndPlan
            \/ \E yes \in BOOLEAN : AnswerRevert(yes)

(* While a plan runs the rest of the session only waits.                   *)
SessionMoves ==
    \/ Waiting
    \/ plan = "none" /\ (Attaching \/ ShowSource \/ CallContinue \/ Ending)

StepNext ==
    \/ /\ \/ ChildMoves \/ SessionMoves \/ UserMoves \/ Done
       /\ rewritten' = rewritten \cup clobbered' \cup {a \in Present : text'[a] # text[a]}
       /\ UNCHANGED planVars
    \/ /\ \/ Planning
          \/ \E how \in {"stepIn", "stepOver", "stepOut"} : StepCommand(how)
       /\ UNCHANGED rewritten

StepSpec == StepInit /\ [][StepNext]_allVars

(* As in a session; a question within a plan is answered too.              *)
StepFairness ==
    /\ WF_allVars(ChildStep /\ UNCHANGED <<tableVars, controlVars, planVars, rewritten>>)
    /\ WF_allVars(SessionMoves /\ UNCHANGED <<planVars, rewritten>>)
    /\ WF_allVars(Planning /\ UNCHANGED rewritten)

StepFairSpec == StepSpec /\ StepFairness

-----------------------------------------------------------------------------
(* Properties.                                                             *)

(* step.cpp:353, of the temporary breakpoints next is about to remove:     *)
(* "will crash if it doesn't exist, but should always exist".  It does,    *)
(* and removing one never asks about the breakpoint at main's return.      *)
TempsExist ==
    \A t \in temps : /\ bp[t.addr] # "none"
                     /\ t.how = "erase" => ~IsMainRet(t.addr)

(* However many stops, tail calls and questions a plan went through, the   *)
(* table it leaves is the one it found: the user's breakpoints present,    *)
(* enabled and disabled as they were, and no temporary one beside them.    *)
PlanRestoresTable ==
    [][(plan = "last" /\ plan' = "none" /\ child # "dead") => bp' = before]_allVars

(* Outside a plan what is armed is what was asked for: no temporary        *)
(* breakpoint outlives its command, even one cut short by a fault, by      *)
(* another breakpoint or by a signal.                                      *)
ArmedAsAskedBetweenPlans ==
    (plan = "none" /\ Live) => Enabled = intent \ {over}

(* The memory of a live child is the program's with an int3 under each     *)
(* enabled breakpoint, through every plan.  It is not promised where the   *)
(* user wrote over an entry of the table: an enabled one is restored from  *)
(* data_, and next disables a disabled one, which restores data_ as well.  *)
StepOverlay ==
    child # "dead" =>
        \A a \in Addr \ rewritten :
            mem[a] = IF bp[a] = "enabled" THEN Int3 ELSE text[a]

(* ptrace reaches the word at every statement: none begins in the last     *)
(* bytes of a mapping.                                                     *)
StatementsReachable == \A a \in Stmts \cap Breakable : Word(a) \subseteq Addr

(* The child that next lets run stops at every other line of its function: *)
(* no statement there is without an int3, except where the user has a      *)
(* disabled breakpoint, which stepOver leaves disabled, or wrote over one. *)
NextStopsAtEveryLine ==
    (plan = "last" /\ child = "running" /\ mode = "cont" /\ start.pc # Null) =>
        \A a \in (OtherLines(start.pc) \cap Breakable) \ clobbered :
            mem[a] = Int3 \/ before[a] = "disabled"

(* A single step leaves the child where it is: the instruction faults, or  *)
(* the user wrote over it, or a breakpoint there is disabled or main's     *)
(* return, which singleStepBreakpointCheck does not step.                  *)
NoProgress ==
    \/ state = "faulting"
    \/ \E p \in PCs \cap Addr :
          \/ p \in Present /\ (bp[p] = "disabled" \/ IsMainRet(p))
          \/ text[p] # Text[p]

(* Every step command comes back, or to its question, unless the loop of   *)
(* stepIn meets an instruction a single step does not get past.  A yes to  *)
(* the question may lead to the same question again: where no frame can be *)
(* read, stepOver calls stepIn.                                            *)
PlanEnds ==
    plan # "none" ~> \/ plan \in {"none", "ask"} \/ at = "aborted"
                     \/ plan = "line" /\ NoProgress

(* step.cpp:230: "Step-In has made no progress. Aborting function."  A     *)
(* step_in that makes no progress comes back.                              *)
StepInAborts == plan = "line" ~> plan # "line"

(* Stepping by lines leaves the debuggee as it is, too; the answer to the  *)
(* question of stepIn is the only other thing that moves rip.              *)
Stepped == INSTANCE Program
    WITH code <- text, edited <- rewritten, rip <- Rip, frames <- Frames,
         turn <- IF ~Gone /\ plan = "ask" THEN "user" ELSE Turn

StepsUndisturbed == Stepped!Spec
=============================================================================
