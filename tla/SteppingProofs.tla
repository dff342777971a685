--------------------------- MODULE SteppingProofs ---------------------------
(***************************************************************************)
(* The step commands, for every program, line table and use of the         *)
(* debugger.  A plan moves only while the child is stopped or gone, and    *)
(* what it calls (a single step, continueExecution) is what the commands of *)
(* a session call: the lemmas of SessionProofs apply to it.  Between plans a *)
(* session with step commands is a session, so that Shape holds; within a  *)
(* plan the table differs from the one the plan began with in its temporary *)
(* breakpoints and in nothing else (PlanShape).  The bytes of the child are *)
(* those of the program under the table of the moment, whichever that is   *)
(* (Faithful).                                                             *)
(***************************************************************************)
EXTENDS Stepping, SessionProofs

(* A plan runs between two prompts, calls nothing of initialize or of the  *)
(* exit, knows where it started by the time it may go back there, and asks *)
(* its question while nothing else goes on.                                *)
PlanControl ==
    /\ plan # "none" => at \in {"wait", "returned", "aborted"} /\ cmd \in {"cont", "step"}
    /\ plan \in {"line", "ask"} => start.pc \in Addr
    /\ plan = "ask" => at = "returned" /\ over = Null

Controlled == StepTypeOK /\ Control /\ PlanControl

(* The types of what a plan keeps.                                         *)
PlanTypeOK ==
    /\ plan \in Plans
    /\ start.pc \in Addr \cup {Null} /\ start.stack \in Seq(Nat)
    /\ start.pc # Null => start.line = Line[start.pc] /\ start.func = Func[start.pc]
    /\ temps \subseteq [addr : Addr, how : {"erase", "disable"}]
    /\ before \in [Addr -> {"none", "disabled", "enabled"}]

-----------------------------------------------------------------------------
(* What a plan finds when it has control: nothing runs, nothing is being   *)
(* stepped off, and no int3 is unreported.                                 *)
LEMMA PlannedFacts ==
  ASSUME Controlled, NEW name \in Plans \ {"none"}, Planned(name)
  PROVE  /\ at = "returned" /\ over = Null /\ plan = name
         /\ child \in {"stopped", "dead"}
         /\ event \in {"none", "kill"}
         /\ cmd \in {"cont", "step"}
  BY DEF Controlled, Planned, Control, PlanControl, StepTypeOK, TypeOK, TraceeTypeOK

(* The loop that sets temporary breakpoints writes bytes, and remembers    *)
(* addresses.                                                              *)
LEMMA SetAllType ==
  ASSUME Bytes, NEW S
  PROVE  /\ SetAll(S) => Bytes'
         /\ Temporary(S) \subseteq [addr : Addr, how : {"erase", "disable"}]
  <1>1. Temporary(S) \subseteq [addr : Addr, how : {"erase", "disable"}]
    BY BreakableAssumption DEF Temporary, Insertable
  <1>2. ASSUME SetAll(S) PROVE Bytes'
    BY <1>2 DEF Bytes, SetAll, Int3, Byte
  <1> QED
    BY <1>1, <1>2

(* So does the loop that removes them.                                     *)
LEMMA ClearTempsType ==
  ASSUME Bytes, ClearTemps
  PROVE  Bytes'
  BY DEF Bytes, ClearTemps, Byte

(* What is remembered of where a step began.                               *)
LEMMA HereType ==
  ASSUME TypeOK, NEW p \in Addr
  PROVE  /\ Here(p).pc = p /\ p # Null /\ Here(p).stack \in Seq(Nat)
         /\ Here(p).line = Line[p] /\ Here(p).func = Func[p]
  BY AddrFacts DEF Here, TypeOK, TraceeTypeOK

-----------------------------------------------------------------------------
(* A single step, from within a plan.                                      *)
LEMMA StepOnceControl ==
  ASSUME Controlled, NEW name \in Plans \ {"none"}, Planned(name),
         NEW p \in PCs, StepOnce(p)
  PROVE  /\ TypeOK' /\ Control'
         /\ at' \in {"wait", "returned", "aborted"} /\ cmd' = "step"
  <1>1. at = "returned" /\ over = Null /\ TypeOK /\ Control
    BY PlannedFacts DEF Controlled, StepTypeOK
  <1>2. TypeOK' /\ Control'
    BY <1>1, StepCheckType, StepCheckControl DEF StepOnce
  <1>3. at' \in {"wait", "returned", "aborted"} /\ cmd' = "step"
    BY DEF StepOnce, StepAtMainReturn, StepInstruction, StepBreakpoint, StepOff,
       SingleStep, Abort
  <1> QED
    BY <1>2, <1>3

(* A plan that calls another, or one of its own parts.                     *)
LEMMA CallControl ==
  ASSUME Controlled, UNCHANGED vars, UNCHANGED temps, UNCHANGED before, UNCHANGED rewritten,
         plan # "none", plan' \in Plans,
         \/ start' = start
         \/ \E p \in Addr : start' = Here(p),
         plan' \in {"line", "ask"} => start'.pc \in Addr,
         plan' = "ask" => at = "returned" /\ over = Null
  PROVE  Controlled'
  <1>1. /\ TypeOK /\ Control /\ PlanControl /\ PlanTypeOK /\ rewritten \subseteq Addr
        /\ at \in {"wait", "returned", "aborted"} /\ cmd \in {"cont", "step"}
    BY DEF Controlled, StepTypeOK, PlanTypeOK, PlanControl
  <1>2. TypeOK' /\ Control' /\ at' = at /\ cmd' = cmd /\ over' = over
    BY <1>1, NextType, NextControl DEF vars, controlVars
  <1>3. PlanTypeOK'
    BY <1>1, HereType DEF PlanTypeOK
  <1> QED
    BY <1>1, <1>2, <1>3 DEF Controlled, StepTypeOK, PlanTypeOK, PlanControl

(* A plan that ends with the step it takes.                                *)
LEMMA EndsControl ==
  ASSUME Controlled, EndsPlan, UNCHANGED rewritten, TypeOK', Control',
         at' \in {"wait", "returned", "aborted"}, cmd' \in {"cont", "step"}
  PROVE  Controlled'
  BY DEF Controlled, StepTypeOK, EndsPlan, PlanControl, Plans

(* An exception within a plan, with the bytes it leaves.                   *)
LEMMA AbortControl ==
  ASSUME TypeOK, Control, at = "returned", over = Null, Abort, Bytes',
         UNCHANGED <<mode, registers, history, mainRet, state, cmd, over, mapped, leftover>>
  PROVE  TypeOK' /\ Control' /\ at' = "aborted" /\ cmd' = cmd
  <1>1. TypeOK' /\ at' = "aborted" /\ cmd' = cmd
    BY DEF TypeOK, TraceeTypeOK, TableTypeOK, Bytes, Abort, ReleaseChild, registers,
       history, Locations
  <1>2. Control'
    BY DEF Control, Abort, ReleaseChild, registers, history, isTerminated, EndEvents
  <1> QED
    BY <1>1, <1>2

(* What is left of a step command where the memory has no lines.           *)
LEMMA InvalidControl ==
  ASSUME Controlled, NEW name \in Plans \ {"none"}, Planned(name), UNCHANGED rewritten,
         NEW p \in PCs, InvalidRegion(p)
  PROVE  Controlled'
  <1>1. CASE StepOnce(p) /\ EndsPlan
    BY <1>1, StepOnceControl, EndsControl
  <1>2. CASE /\ EndsPlan
             /\ state' = IF isTerminated(state) \/ isExecuting(state) THEN state ELSE "kill"
             /\ UNCHANGED <<traceeVars, tableVars, at, cmd, over, mapped, leftover>>
    <2>1. /\ TypeOK /\ Control /\ at = "returned" /\ cmd \in {"cont", "step"}
      BY PlannedFacts DEF Controlled, StepTypeOK
    <2>2. TypeOK'
      BY <1>2, <2>1 DEF TypeOK, TraceeTypeOK, TableTypeOK, traceeVars, tableVars, Child
    <2>3. Control'
      BY <1>2, <2>1 DEF Control, traceeVars, tableVars, isTerminated, isExecuting, EndEvents
    <2> QED
      BY <1>2, <2>1, <2>2, <2>3, EndsControl
  <1> QED
    BY <1>1, <1>2 DEF InvalidRegion

(* readMemory throws, the temporary breakpoints set so far in the child.   *)
LEMMA ThrowControl ==
  ASSUME Controlled, NEW name \in Plans \ {"none"}, Planned(name), UNCHANGED rewritten,
         NEW p, FrameReadThrows(p), Bytes'
  PROVE  Controlled'
  <1>1. /\ TypeOK /\ Control /\ at = "returned" /\ over = Null /\ cmd \in {"cont", "step"}
    BY PlannedFacts DEF Controlled, StepTypeOK
  <1>2. /\ Abort /\ EndsPlan
        /\ UNCHANGED <<mode, registers, history, mainRet, state, cmd, over, mapped, leftover>>
    BY DEF FrameReadThrows
  <1>3. TypeOK' /\ Control' /\ at' = "aborted" /\ cmd' = cmd
    BY <1>1, <1>2, AbortControl
  <1> QED
    BY <1>1, <1>2, <1>3, EndsControl

(* A step that changes bytes, the table and the plan, and nothing else.    *)
LEMMA BytesControl ==
  ASSUME Controlled, Bytes', PlanTypeOK', UNCHANGED rewritten,
         at \in {"wait", "returned", "aborted"}, cmd \in {"cont", "step"},
         plan' \notin {"line", "ask"},
         UNCHANGED <<child, mode, registers, history, mainRet, controlVars>>
  PROVE  Controlled'
  <1>1. TypeOK'
    BY DEF Controlled, StepTypeOK, TypeOK, TraceeTypeOK, TableTypeOK, Bytes, registers,
       history, controlVars
  <1>2. Control'
    BY DEF Controlled, Control, registers, history, controlVars, isTerminated,
       isExecuting, EndEvents
  <1> QED
    BY <1>1, <1>2 DEF Controlled, StepTypeOK, PlanTypeOK, PlanControl, controlVars

-----------------------------------------------------------------------------
(* finish: a breakpoint at the return address, set or enabled.             *)
LEMMA StepOutControl ==
  ASSUME Controlled, StepOut, UNCHANGED rewritten
  PROVE  Controlled'
  <1>1. /\ at = "returned" /\ cmd \in {"cont", "step"} /\ plan = "stepOut" /\ Planned("stepOut")
    BY PlannedFacts DEF StepOut, Plans
  <1>2. Bytes /\ PlanTypeOK
    BY DEF Controlled, StepTypeOK, TypeOK, TraceeTypeOK, TableTypeOK, Bytes, PlanTypeOK
  <1>3. CASE Call("stepIn")
    BY <1>1, <1>3, CallControl DEF Call, Plans
  <1>4. ASSUME NEW p \in PCs, FrameReadThrows(p), UNCHANGED <<mem, bp, data>>
        PROVE  Controlled'
    <2>1. Bytes'
      BY <1>2, <1>4 DEF Bytes
    <2> QED
      BY <1>1, <1>4, <2>1, ThrowControl DEF Plans
  <1>5. ASSUME NEW r, StepOutTo(r) \/ StepOutFails(r),
               UNCHANGED <<child, mode, registers, history, mainRet, controlVars, start, before>>
        PROVE  Controlled'
    <2>1. CASE StepOutTo(r)
      <3>1. Bytes'
        BY <1>2, <2>1, SetAllType, EnableType, BreakableAssumption DEF StepOutTo
      <3>2. PlanTypeOK'
        BY <1>2, <1>5, <2>1, SetAllType DEF StepOutTo, PlanTypeOK, Plans
      <3> QED
        BY <1>1, <1>5, <2>1, <3>1, <3>2, BytesControl DEF StepOutTo
    <2>2. CASE StepOutFails(r)
      <3>1. Bytes' /\ PlanTypeOK'
        BY <1>2, <1>5, <2>2 DEF StepOutFails, Bytes, PlanTypeOK, Plans
      <3> QED
        BY <1>1, <1>5, <2>2, <3>1, BytesControl DEF StepOutFails
    <2> QED
      BY <1>5, <2>1, <2>2
  <1> QED
    BY <1>3, <1>4, <1>5 DEF StepOut

(* next: breakpoints on the other lines and at the return address.         *)
LEMMA StepOverControl ==
  ASSUME Controlled, StepOver, UNCHANGED rewritten
  PROVE  Controlled'
  <1>1. /\ at = "returned" /\ cmd \in {"cont", "step"} /\ plan = "stepOver" /\ Planned("stepOver")
    BY PlannedFacts DEF StepOver, Plans
  <1>2. Bytes /\ PlanTypeOK /\ TypeOK
    BY DEF Controlled, StepTypeOK, TypeOK, TraceeTypeOK, TableTypeOK, Bytes, PlanTypeOK
  <1> PICK p \in PCs :
         \/ InvalidRegion(p)
         \/ /\ ValidRegion(p) /\ (Func[p] = "none" \/ FrameUnreadable(p))
            /\ Call("stepIn")
         \/ /\ ValidRegion(p) /\ Func[p] \in Unlisted
            /\ StepOnce(p)
            /\ EndsPlan
         \/ /\ ValidRegion(p) /\ Func[p] \notin Unlisted \cup {"none"}
            /\ FrameReadThrows(p) /\ SetAll(OtherLines(p))
         \/ /\ ValidRegion(p) /\ Func[p] \notin Unlisted \cup {"none"}
            /\ \E r \in ReturnAddress(p) :
                 /\ SetAll(OtherLines(p) \cup {r})
                 /\ temps' = Temporary(OtherLines(p) \cup {r})
            /\ plan' = "go" /\ start' = Here(p)
            /\ UNCHANGED <<child, mode, registers, history, mainRet, controlVars, before>>
    BY DEF StepOver
  <1>3. CASE InvalidRegion(p)
    BY <1>1, <1>3, InvalidControl DEF Plans
  <1>4. CASE Call("stepIn")
    BY <1>1, <1>4, CallControl DEF Call, Plans
  <1>5. CASE StepOnce(p) /\ EndsPlan
    BY <1>1, <1>5, StepOnceControl, EndsControl DEF Plans
  <1>6. CASE FrameReadThrows(p) /\ SetAll(OtherLines(p))
    <2>1. Bytes'
      BY <1>2, <1>6, SetAllType
    <2> QED
      BY <1>1, <1>6, <2>1, ThrowControl DEF Plans
  <1>7. CASE /\ ValidRegion(p)
             /\ \E r \in ReturnAddress(p) :
                  /\ SetAll(OtherLines(p) \cup {r})
                  /\ temps' = Temporary(OtherLines(p) \cup {r})
             /\ plan' = "go" /\ start' = Here(p)
             /\ UNCHANGED <<child, mode, registers, history, mainRet, controlVars, before>>
    <2>1. Bytes' /\ temps' \subseteq [addr : Addr, how : {"erase", "disable"}]
      BY <1>2, <1>7, SetAllType
    <2>2. p \in Addr
      BY <1>7 DEF ValidRegion, InTable
    <2>3. PlanTypeOK'
      BY <1>2, <1>7, <2>1, <2>2, HereType DEF PlanTypeOK, Plans
    <2> QED
      BY <1>1, <1>7, <2>1, <2>3, BytesControl
  <1> QED
    BY <1>3, <1>4, <1>5, <1>6, <1>7

(* step_in, up to its loop.                                                *)
LEMMA StepInControl ==
  ASSUME Controlled, StepIn, UNCHANGED rewritten
  PROVE  Controlled'
  <1>1. /\ at = "returned" /\ over = Null /\ cmd \in {"cont", "step"}
        /\ plan = "stepIn" /\ Planned("stepIn") /\ TypeOK /\ Control
    BY PlannedFacts DEF StepIn, Plans, Controlled, StepTypeOK
  <1>2. ASSUME NEW p \in PCs, InvalidRegion(p) PROVE Controlled'
    BY <1>1, <1>2, InvalidControl DEF Plans
  <1>3. CASE /\ Abort /\ EndsPlan
             /\ UNCHANGED <<mem, mode, registers, tableVars, state, cmd, over, mapped, leftover>>
    <2>1. Bytes'
      BY <1>1, <1>3 DEF Bytes, TypeOK, TraceeTypeOK, TableTypeOK, tableVars
    <2>2. TypeOK' /\ Control' /\ at' = "aborted" /\ cmd' = cmd
      BY <1>1, <1>3, <2>1, AbortControl DEF tableVars, history
    <2> QED
      BY <1>1, <1>3, <2>2, EndsControl
  <1>4. ASSUME NEW p \in PCs, ValidRegion(p), plan' = "line", start' = Here(p),
               UNCHANGED <<vars, temps, before>>
        PROVE  Controlled'
    <2>1. p \in Addr
      BY <1>4 DEF ValidRegion, InTable
    <2> QED
      BY <1>1, <1>4, <2>1, CallControl, HereType DEF Plans
  <1> QED
    BY <1>2, <1>3, <1>4 DEF StepIn

(* One turn of the loop of step_in.                                        *)
LEMMA StepLineControl ==
  ASSUME Controlled, StepLine, UNCHANGED rewritten
  PROVE  Controlled'
  <1>1. /\ Planned("line") /\ plan = "line" /\ start.pc \in Addr
        /\ at = "returned" /\ over = Null
    BY PlannedFacts DEF StepLine, Planned, Controlled, PlanControl
  <1>2. ASSUME NEW p \in PCs, StepOnce(p), UNCHANGED planVars PROVE Controlled'
    <2>1. /\ TypeOK' /\ Control' /\ at' \in {"wait", "returned", "aborted"} /\ cmd' = "step"
      BY <1>1, <1>2, StepOnceControl DEF Plans
    <2> QED
      BY <1>1, <1>2, <2>1 DEF Controlled, StepTypeOK, PlanControl, planVars
  <1>3. ASSUME NEW name \in {"stepIn", "last", "ask"}, Call(name) PROVE Controlled'
    BY <1>1, <1>3, CallControl DEF Call, Plans
  <1> QED
    BY <1>2, <1>3 DEF StepLine

(* The temporary breakpoints are set: the child goes on.                   *)
LEMMA GoControl ==
  ASSUME Controlled, Go, UNCHANGED rewritten
  PROVE  Controlled'
  <1>1. at = "returned" /\ over = Null /\ plan = "go" /\ TypeOK /\ Control
    BY PlannedFacts DEF Go, Plans, Controlled, StepTypeOK
  <1>2. ContinueExecution("cont") /\ plan' = "last" /\ UNCHANGED <<start, temps, before>>
    BY DEF Go
  <1>3. TypeOK' /\ Control'
    BY <1>1, <1>2, ContType, ContControl DEF Callers
  <1>4. at' \in {"wait", "aborted"} /\ cmd' = "cont"
    BY <1>2 DEF ContinueExecution, StepOff, SingleStep, Abort
  <1> QED
    BY <1>2, <1>3, <1>4, EndsControl DEF EndsPlan

(* The end of a plan.                                                      *)
LEMMA EndPlanControl ==
  ASSUME Controlled, EndPlan, UNCHANGED rewritten
  PROVE  Controlled'
  <1>1. at = "returned" /\ cmd \in {"cont", "step"}
    BY PlannedFacts DEF EndPlan, Plans
  <1>2. Bytes /\ PlanTypeOK
    BY DEF Controlled, StepTypeOK, TypeOK, TraceeTypeOK, TableTypeOK, Bytes, PlanTypeOK
  <1>3. Bytes'
    BY <1>2, ClearTempsType DEF EndPlan
  <1>4. PlanTypeOK'
    BY <1>2 DEF EndPlan, PlanTypeOK, Plans, Nowhere
  <1> QED
    BY <1>1, <1>3, <1>4, BytesControl DEF EndPlan

(* A stack put back in part holds addresses, as the two it is made of.     *)
LEMMA RestoredType ==
  ASSUME stack \in Seq(Nat), start.stack \in Seq(Nat), NEW kept
  PROVE  Restored(kept) \in Seq(Nat)
  <1> DEFINE n == Len(start.stack)
             m == Len(stack)
  <1>1. n \in Nat /\ m \in Nat
    OBVIOUS
  <1>2. ASSUME NEW i \in 1 .. n PROVE start.stack[i] \in Nat
    OBVIOUS
  <1>3. ASSUME NEW j \in 1 .. m PROVE stack[j] \in Nat
    OBVIOUS
  <1>4. Restored(kept) = [i \in 1 .. n |-> LET now == m - n + i
                                           IN  IF i \in kept /\ now \in 1 .. m
                                               THEN stack[now] ELSE start.stack[i]]
    BY DEF Restored
  <1> HIDE DEF n, m
  <1>5. Restored(kept) \in [1 .. n -> Nat]
    BY <1>1, <1>2, <1>3, <1>4
  <1> QED
    BY <1>1, <1>5

(* The answer to "Revert state and step-over?".                            *)
LEMMA AnswerControl ==
  ASSUME Controlled, NEW yes \in BOOLEAN, AnswerRevert(yes), UNCHANGED rewritten
  PROVE  Controlled'
  <1>1. /\ at = "returned" /\ over = Null /\ plan = "ask" /\ cmd \in {"cont", "step"}
        /\ event # "brk" /\ child \in {"stopped", "dead"}
    BY PlannedFacts DEF AnswerRevert, Plans
  <1>2. start.pc \in Addr /\ start.stack \in Seq(Nat)
    BY <1>1 DEF Controlled, PlanControl, StepTypeOK
  <1>3. /\ UNCHANGED <<mem, child, mode, event, signals, tableVars, state, at, cmd, over, mapped,
                       start, temps, before>>
        /\ leftover' = FALSE /\ plan' \in {"stepOver", "last"}
    BY DEF AnswerRevert
  <1>4. \/ pc' = start.pc /\ \E kept : stack' = Restored(kept)
        \/ UNCHANGED <<pc, stack>>
    BY DEF AnswerRevert
  <1>5. stack \in Seq(Nat) /\ pc \in Nat
    BY DEF Controlled, StepTypeOK, TypeOK, TraceeTypeOK
  <1>6. stack' \in Seq(Nat)
    BY <1>2, <1>4, <1>5, RestoredType
  <1>7. pc' \in Nat
    BY <1>2, <1>4, <1>5, AddrFacts
  <1>8. TypeOK'
    BY <1>3, <1>6, <1>7 DEF Controlled, StepTypeOK, TypeOK, TraceeTypeOK, TableTypeOK, tableVars
  <1>9. Control'
    BY <1>1, <1>3, <1>4 DEF Controlled, Control, tableVars, isTerminated, isExecuting, EndEvents
  <1> QED
    BY <1>1, <1>3, <1>8, <1>9 DEF Controlled, StepTypeOK, PlanControl, Plans

(* A step command is typed.                                                *)
LEMMA CommandTyped ==
  ASSUME Controlled, NEW how \in {"stepIn", "stepOver", "stepOut"}, StepCommand(how),
         UNCHANGED rewritten
  PROVE  Controlled'
  <1>1. TypeOK'
    BY DEF StepCommand, Controlled, StepTypeOK, TypeOK, TraceeTypeOK, TableTypeOK,
       traceeVars, tableVars, Locations, Callers
  <1>2. Control'
    BY DEF StepCommand, Controlled, Control, traceeVars, tableVars, isTerminated,
       isExecuting, EndEvents
  <1> QED
    BY <1>1, <1>2 DEF StepCommand, Controlled, StepTypeOK, TypeOK, TableTypeOK,
       PlanControl, Plans

(* While a plan runs, of the session only the waiting half moves.          *)
LEMMA SessionStepControl ==
  ASSUME Controlled, ChildMoves \/ SessionMoves \/ UserMoves \/ Done, UNCHANGED planVars,
         rewritten' = rewritten \cup clobbered' \cup {a \in Present : text'[a] # text[a]}
  PROVE  Controlled'
  <1>1. TypeOK /\ Control /\ PlanControl
    BY DEF Controlled, StepTypeOK
  <1>2. Next
    BY DEF SessionMoves, Next, DebuggerMoves
  <1>3. TypeOK' /\ Control'
    BY <1>1, <1>2, NextType, NextControl
  <1>4. clobbered' \subseteq Addr /\ rewritten' \subseteq Addr
    BY <1>3 DEF TypeOK, TableTypeOK, Present, Controlled, StepTypeOK
  <1>5. PlanControl'
    <2>1. CASE plan = "none"
      BY <2>1 DEF PlanControl, planVars
    <2>2. CASE plan # "none"
      <3>1. ChildMoves \/ Waiting \/ UserMoves \/ Done
        BY <2>2 DEF SessionMoves
      <3>2. at \in {"wait", "returned", "aborted"} /\ cmd \in {"cont", "step"}
        BY <1>1, <2>2 DEF PlanControl
      <3>3. ~UserMoves
        BY <3>2 DEF UserMoves, TableCommand, Break, BreakpointEnable, BreakSelected,
           BreakpointDisable, RipCommand, JumpToInstruction, SkipUnsafeInstruction,
           RegisterWrite, MemoryCommand, ReadMemory, WriteMemory, RunCommand, Continue,
           SingleStepBreakpointCheck, ProgramCounter, QuitCommand, Quit, QuitBare, EndOfInput
      <3>4. /\ at' \in {"wait", "returned", "aborted"} /\ cmd' = cmd
            /\ (at = "returned" /\ over = Null) => (at' = at /\ over' = over)
        BY <3>1, <3>2, <3>3 DEF ChildMoves, controlVars, Waiting, WaitForSignal, WaitThrows,
           SignalInfoThrows, ReEnable, Abort, Done, vars
      <3> QED
        BY <1>1, <3>2, <3>4 DEF PlanControl, planVars
    <2> QED
      BY <2>1, <2>2
  <1> QED
    BY <1>3, <1>4, <1>5 DEF Controlled, StepTypeOK, planVars

-----------------------------------------------------------------------------
(* A session with step commands is well typed and in Control of its child: *)
(* a plan never moves while the child runs, and goes back only to where it *)
(* has been (stepIn, stepOver, stepOut).                                   *)
THEOREM StepTypeCorrect == StepSpec => [](StepTypeOK /\ Control /\ PlanControl)
  <1>1. StepInit => Controlled
    <2> SUFFICES ASSUME StepInit PROVE Controlled
      OBVIOUS
    <2>1. TypeOK /\ Control
      BY InitType, InitControl DEF StepInit
    <2> QED
      BY <2>1 DEF StepInit, Controlled, StepTypeOK, PlanControl, Plans, Nowhere, TypeOK,
         TableTypeOK
  <1>2. Controlled /\ [StepNext]_allVars => Controlled'
    <2> SUFFICES ASSUME Controlled, [StepNext]_allVars PROVE Controlled'
      OBVIOUS
    <2>1. CASE UNCHANGED allVars
      <3>1. TypeOK' /\ Control'
        BY <2>1, NextType, NextControl DEF allVars, Controlled, StepTypeOK
      <3> QED
        BY <2>1, <3>1 DEF allVars, planVars, vars, controlVars, Controlled, StepTypeOK, PlanControl
    <2>2. CASE StepNext
      BY <2>2, SessionStepControl, StepOutControl, StepOverControl, StepInControl,
         StepLineControl, GoControl, EndPlanControl, AnswerControl, CommandTyped
         DEF StepNext, Planning
    <2> QED
      BY <2>1, <2>2
  <1> QED
    BY <1>1, <1>2, PTL DEF StepSpec, Controlled

-----------------------------------------------------------------------------
Temps == {t.addr : t \in temps}

(* The table within a plan: the one it began with, but for the breakpoint  *)
(* being stepped off and for the temporary ones, each of which is there    *)
(* and was not there, or was disabled, before.                             *)
PlanShape ==
    /\ Reachable
    /\ MainRetLive
    /\ TempsExist
    /\ Live =>
        /\ over # Null => bp[over] = "disabled" /\ (over \notin Temps => before[over] = "enabled")
        /\ \A t \in temps : before[t.addr] = IF t.how = "erase" THEN "none" ELSE "disabled"
        /\ \A a \in Addr \ (Temps \cup {over}) : bp[a] = before[a]
        /\ intent = {a \in Addr : before[a] = "enabled"}

(* Only a plan that continues, or is about to end, has temporary ones.     *)
PlanTable ==
    /\ plan = "none" => Shape
    /\ plan # "none" => PlanShape
    /\ plan \notin {"go", "last"} => temps = {}

(* An int3 lies under each enabled breakpoint the user did not write over; *)
(* where he wrote over no entry of the table, the other bytes are the      *)
(* program's, and data_ has them also while an entry is disabled.          *)
Faithful ==
    \A a \in Addr :
        /\ (a \notin clobbered /\ bp[a] = "enabled") => mem[a] = Int3
        /\ (a \notin rewritten /\ bp[a] # "enabled") => mem[a] = text[a]
        /\ (a \notin rewritten /\ bp[a] # "none") => data[a] = text[a]

Bytewise == clobbered \subseteq rewritten /\ (child # "dead" => Faithful)

StepTable == PlanTable /\ Bytewise

-----------------------------------------------------------------------------
(* The table.                                                              *)

(* A step of a plan that leaves the table as it is, and brings no child    *)
(* back to life.                                                           *)
LEMMA PlanQuiet ==
  ASSUME PlanShape, UNCHANGED <<bp, mainRet, intent, over, temps, before>>, Live' => Live
  PROVE  PlanShape'
  BY DEF PlanShape, Reachable, Present, Word, MainRetLive, TempsExist, IsMainRet, Live, Temps

(* stepOverBreakpoint up to its wait, within a plan.                       *)
LEMMA PlanStepOff ==
  ASSUME Controlled, PlanShape, over = Null, NEW p \in Addr, bp[p] = "enabled", StepOff(p),
         child \in {"stopped", "dead"}, UNCHANGED <<intent, mainRet, temps, before>>
  PROVE  PlanShape'
  <1>1. Bytes /\ p # Null
    BY AddrFacts DEF Controlled, StepTypeOK, TypeOK, TraceeTypeOK, TableTypeOK, Bytes
  <1>2. Disable(p) /\ over' = p
    BY DEF StepOff
  <1>3. CASE child = "stopped"
    <2>1. Pokable(p)
      BY <1>3 DEF Pokable, PlanShape, Reachable, Present
    <2>2. bp' = [bp EXCEPT ![p] = "disabled"]
      BY <1>2, <2>1 DEF Disable
    <2>3. Reachable' /\ MainRetLive' /\ TempsExist'
      BY <1>1, <2>2 DEF PlanShape, Reachable, Present, Word, MainRetLive, TempsExist,
         IsMainRet, Bytes
    <2>4. Live
      BY <1>3 DEF Live
    <2>5. p \notin Temps => before[p] = "enabled"
      BY <1>1, <2>4 DEF PlanShape
    <2>6. Temps' = Temps
      BY DEF Temps
    <2>7. \A t \in temps : before[t.addr] = IF t.how = "erase" THEN "none" ELSE "disabled"
      BY <2>4 DEF PlanShape
    <2>8. \A a \in Addr \ (Temps \cup {over'}) : bp'[a] = before[a]
      BY <1>1, <1>2, <2>2, <2>4, AddrFacts DEF PlanShape, Bytes
    <2>9. intent = {a \in Addr : before[a] = "enabled"}
      BY <2>4 DEF PlanShape
    <2> QED
      BY <1>1, <1>2, <2>2, <2>3, <2>5, <2>6, <2>7, <2>8, <2>9 DEF PlanShape, Bytes
  <1>4. CASE child = "dead"
    <2>1. bp' = bp /\ child' = "dead"
      BY <1>2, <1>4 DEF Disable, Pokable, StepOff, SingleStep, Abort, ReleaseChild
    <2> QED
      BY <2>1 DEF PlanShape, Reachable, Present, Word, MainRetLive, TempsExist, IsMainRet, Live
  <1> QED
    BY <1>3, <1>4

(* The waiting half of a session, within a plan: the breakpoint stepped    *)
(* off is back as it was.                                                  *)
LEMMA PlanWaiting ==
  ASSUME Controlled, PlanShape, Waiting, UNCHANGED planVars
  PROVE  PlanShape'
  <1>1. CASE WaitForSignal \/ WaitThrows \/ SignalInfoThrows
    <2>1. UNCHANGED <<bp, mainRet, intent, over, temps, before>> /\ (Live' => Live)
      BY <1>1 DEF WaitForSignal, WaitThrows, SignalInfoThrows, tableVars, planVars, Abort,
         ReleaseChild, Live
    <2> QED
      BY <2>1, PlanQuiet
  <1>2. CASE ReEnable
    <2>1. /\ over \in Addr /\ Enable(over) /\ over' = Null
          /\ UNCHANGED <<intent, mainRet, temps, before>>
      BY <1>2 DEF ReEnable, Controlled, StepTypeOK, TypeOK, history, planVars
    <2>2. child \in {"stopped", "dead"} /\ (child' # "dead" => child = "stopped")
      BY <1>2 DEF ReEnable, Controlled, Control, StepTypeOK, TypeOK, TraceeTypeOK, ResumeChild
    <2>3. Bytes /\ over # Null
      BY <1>2 DEF Controlled, StepTypeOK, TypeOK, TraceeTypeOK, TableTypeOK, Bytes, ReEnable
    <2>4. CASE child = "stopped"
      <3>1. Live
        BY <2>4 DEF Live
      <3>2. bp[over] = "disabled" /\ (over \notin Temps => before[over] = "enabled")
        BY <2>3, <3>1 DEF PlanShape
      <3>3. Pokable(over)
        BY <2>1, <2>4, <3>2 DEF Pokable, PlanShape, Reachable, Present
      <3>4. bp' = [bp EXCEPT ![over] = "enabled"]
        BY <2>1, <3>3 DEF Enable
      <3>5. Reachable' /\ MainRetLive' /\ TempsExist'
        BY <2>1, <2>3, <3>2, <3>4 DEF PlanShape, Reachable, Present, Word, MainRetLive,
           TempsExist, IsMainRet, Bytes
      <3> QED
        BY <2>1, <2>3, <3>1, <3>2, <3>4, <3>5 DEF PlanShape, Temps, Bytes
    <2>5. CASE child = "dead"
      <3>1. bp' = bp /\ child' = "dead"
        BY <2>1, <2>2, <2>5 DEF Enable, Pokable
      <3> QED
        BY <2>1, <3>1 DEF PlanShape, Reachable, Present, Word, MainRetLive, TempsExist,
           IsMainRet, Live
    <2> QED
      BY <2>2, <2>4, <2>5
  <1> QED
    BY <1>1, <1>2 DEF Waiting

(* The addresses that are to be erased are those that were inserted.       *)
LEMMA ErasedInserted ==
  ASSUME NEW S
  PROVE  Erased(Temporary(S)) = {a \in S : Insertable(a, mapped)}
  <1>1. ASSUME NEW t \in Temporary(S), t.how = "erase"
        PROVE  t.addr \in S /\ Insertable(t.addr, mapped)
    BY <1>1 DEF Temporary
  <1>2. ASSUME NEW a \in S, Insertable(a, mapped)
        PROVE  \E t \in Temporary(S) : t.how = "erase" /\ t.addr = a
    <2>1. [addr |-> a, how |-> "erase"] \in Temporary(S)
      BY <1>2 DEF Temporary
    <2> QED
      BY <2>1
  <1>3. ASSUME NEW a \in S, Insertable(a, mapped) PROVE a \in Erased(Temporary(S))
    BY <1>2, <1>3 DEF Erased
  <1>4. ASSUME NEW a \in Erased(Temporary(S)) PROVE a \in S /\ Insertable(a, mapped)
    BY <1>1, <1>4 DEF Erased
  <1> QED
    BY <1>3, <1>4

(* The temporary breakpoints are set, and remembered; where a read threw   *)
(* they are set in a child the debugger has lost.                          *)
LEMMA PlanSetAll ==
  ASSUME Controlled, PlanShape, temps = {}, over = Null, NEW S, SetAll(S),
         UNCHANGED <<mainRet, intent, over, before>>,
         \/ temps' = Temporary(S) /\ child' = child
         \/ temps' = {} /\ ~Live'
  PROVE  PlanShape'
  <1> DEFINE new == {a \in S : Insertable(a, mapped)}
  <1>1. new = Erased(Temporary(S))
    BY ErasedInserted
  <1>2. \A a \in new : a \in Addr /\ bp[a] = "none" /\ Word(a) \subseteq Addr
    BY BreakableAssumption DEF Insertable, Pokable
  <1>3. Bytes /\ bp' = [a \in Addr |-> IF a \in new THEN "enabled" ELSE bp[a]]
    BY <1>1 DEF SetAll, Controlled, StepTypeOK, TypeOK, TraceeTypeOK, TableTypeOK, Bytes
  <1> HIDE DEF new
  <1>4. Reachable' /\ MainRetLive'
    BY <1>2, <1>3, AddrFacts DEF PlanShape, Reachable, Present, Word, MainRetLive, Bytes,
       Controlled, StepTypeOK, TypeOK, TableTypeOK
  <1>5. \A t \in Temporary(S) :
          /\ t.addr \in Addr /\ (t.how = "erase" => t.addr \in new /\ bp[t.addr] = "none")
          /\ t.how # "erase" => bp[t.addr] = "disabled"
    BY <1>2, BreakableAssumption DEF Temporary, new
  <1>6. TempsExist'
    BY <1>3, <1>5 DEF PlanShape, TempsExist, IsMainRet, MainRetLive, Bytes
  <1>7. CASE temps' = Temporary(S) /\ child' = child
    <2>1. SUFFICES ASSUME Live
                   PROVE  /\ \A t \in temps' : before[t.addr] = IF t.how = "erase" THEN "none" ELSE "disabled"
                          /\ \A a \in Addr \ Temps' : bp'[a] = before[a]
                          /\ intent = {a \in Addr : before[a] = "enabled"}
      BY <1>4, <1>6, <1>7 DEF PlanShape, Live
    <2>2. /\ \A a \in Addr : bp[a] = before[a]
          /\ intent = {a \in Addr : before[a] = "enabled"}
      BY <2>1, AddrFacts DEF PlanShape, Temps
    <2>3. \A t \in temps' : before[t.addr] = IF t.how = "erase" THEN "none" ELSE "disabled"
      BY <1>5, <1>7, <2>2
    <2>4. \A a \in new : a \in Temps'
      BY <1>1, <1>7 DEF Temps, Erased
    <2> QED
      BY <1>3, <2>2, <2>3, <2>4
  <1>8. CASE temps' = {} /\ ~Live'
    BY <1>4, <1>6, <1>8 DEF PlanShape
  <1> QED
    BY <1>7, <1>8

(* finish enables a disabled breakpoint at the return address.             *)
LEMMA PlanEnables ==
  ASSUME Controlled, PlanShape, temps = {}, over = Null, NEW r, Enable(r),
         mapped, r \in Breakable, bp[r] = "disabled", temps' = Temporary({r}),
         child \in {"stopped", "dead"},
         UNCHANGED <<child, mainRet, intent, over, before>>
  PROVE  PlanShape'
  <1>1. r \in Addr /\ Bytes
    BY BreakableAssumption DEF Controlled, StepTypeOK, TypeOK, TraceeTypeOK, TableTypeOK, Bytes
  <1>2. ~Insertable(r, mapped)
    BY DEF Insertable
  <1>3. temps' = {[addr |-> r, how |-> "disable"]}
    BY <1>2 DEF Temporary
  <1>4. CASE child = "stopped"
    <2>1. Pokable(r)
      BY <1>1, <1>4 DEF Pokable, PlanShape, Reachable, Present
    <2>2. bp' = [bp EXCEPT ![r] = "enabled"]
      BY <2>1 DEF Enable
    <2>3. Reachable' /\ MainRetLive'
      BY <1>1, <2>2 DEF PlanShape, Reachable, Present, Word, MainRetLive, Bytes
    <2>4. \A t \in temps' : t.addr = r /\ t.how = "disable"
      BY <1>3
    <2>5. TempsExist'
      BY <1>1, <2>2, <2>4 DEF TempsExist, Bytes
    <2>6. Live
      BY <1>4 DEF Live
    <2>7. \A a \in Addr : bp[a] = before[a]
      BY <2>6, AddrFacts DEF PlanShape, Temps
    <2>8. \A a \in Addr : a \notin Temps' => bp'[a] = before[a]
      <3>1. [addr |-> r, how |-> "disable"].addr \in Temps'
        BY <1>3 DEF Temps
      <3> QED
        BY <1>1, <2>2, <2>7, <3>1 DEF Bytes
    <2>9. intent = {a \in Addr : before[a] = "enabled"}
      BY <2>6 DEF PlanShape
    <2>10. \A t \in temps' : before[t.addr] = IF t.how = "erase" THEN "none" ELSE "disabled"
      BY <1>1, <2>4, <2>7
    <2> QED
      BY <2>3, <2>5, <2>8, <2>9, <2>10 DEF PlanShape
  <1>5. CASE child = "dead"
    <2>1. bp' = bp /\ ~Live'
      BY <1>5 DEF Enable, Pokable, Live
    <2>2. TempsExist'
      BY <1>3, <2>1 DEF TempsExist
    <2> QED
      BY <2>1, <2>2 DEF PlanShape, Reachable, Present, Word, MainRetLive
  <1> QED
    BY <1>4, <1>5

(* The temporary breakpoints go: a child that is still there gets the      *)
(* table back that the plan found.                                         *)
LEMMA ClearRestores ==
  ASSUME Controlled, PlanShape, over = Null, child = "stopped", ClearTemps
  PROVE  bp' = before
  <1>1. Live /\ Bytes /\ before \in [Addr -> {"none", "disabled", "enabled"}]
    BY DEF Live, Controlled, StepTypeOK, TypeOK, TraceeTypeOK, TableTypeOK, Bytes
  <1>2. \A t \in temps : t.addr \in Addr /\ t.how \in {"erase", "disable"} /\ Pokable(t.addr)
    BY DEF Controlled, StepTypeOK, PlanShape, TempsExist, Reachable, Present, Pokable
  <1>3. \A a \in Erased(temps) : before[a] = "none"
    BY <1>1 DEF Erased, PlanShape
  <1>4. \A a \in Disabled(temps) : before[a] = "disabled" /\ Pokable(a)
    BY <1>1, <1>2 DEF Disabled, PlanShape
  <1>5. \A a \in Addr : a \in Temps => a \in Erased(temps) \cup Disabled(temps)
    BY <1>2 DEF Temps, Erased, Disabled
  <1>6. \A a \in Addr : a \notin Temps =>
            a \notin Erased(temps) \cup Disabled(temps) /\ bp[a] = before[a]
    BY <1>1, AddrFacts DEF Temps, Erased, Disabled, PlanShape
  <1>7. \A a \in Addr : bp'[a] = before[a]
    BY <1>1, <1>3, <1>4, <1>5, <1>6 DEF ClearTemps
  <1>8. bp' = [a \in Addr |-> bp'[a]]
    BY DEF ClearTemps
  <1> QED
    BY <1>1, <1>7, <1>8
-----------------------------------------------------------------------------
(* What a plan does.                                                       *)

(* What a plan in control may rely on.                                     *)
LEMMA PlannedTable ==
  ASSUME Controlled, PlanTable, NEW name \in Plans \ {"none"}, Planned(name)
  PROVE  /\ PlanShape /\ over = Null /\ child \in {"stopped", "dead"} /\ plan = name
         /\ name \notin {"go", "last"} => temps = {}
  BY PlannedFacts DEF PlanTable, Planned

(* A plan that has lost the child, or moves to another part of itself.     *)
LEMMA PlanMoves ==
  ASSUME PlanShape, UNCHANGED <<bp, mainRet, intent, over, temps, before>>,
         child' \in {child, "dead", "detached"},
         plan' # "none", plan' \notin {"go", "last"} => temps = {}
  PROVE  PlanTable'
  <1>1. PlanShape'
    BY PlanQuiet DEF Live
  <1> QED
    BY <1>1 DEF PlanTable

(* A single step, from within a plan.                                      *)
LEMMA PlanStepOnce ==
  ASSUME Controlled, PlanTable, NEW name \in Plans \ {"none"}, Planned(name),
         NEW p \in PCs, StepOnce(p), UNCHANGED <<temps, before>>
  PROVE  PlanShape'
  <1>1. PlanShape /\ over = Null /\ child \in {"stopped", "dead"}
    BY PlannedTable
  <1>2. UNCHANGED <<intent, mainRet, temps, before>>
    BY DEF StepOnce, history
  <1>3. CASE StepAtMainReturn(p)
    BY <1>1, <1>2, <1>3, PlanQuiet DEF StepAtMainReturn, Live
  <1>4. CASE StepInstruction(p)
    <2>1. UNCHANGED <<bp, over>> /\ (Live' => Live)
      BY <1>1, <1>4 DEF StepInstruction, SingleStep, ResumeChild, Abort, ReleaseChild, Live
    <2> QED
      BY <1>1, <1>2, <2>1, PlanQuiet
  <1>5. CASE StepBreakpoint(p) /\ bp[p] = "enabled"
    BY <1>1, <1>2, <1>5, PlanStepOff DEF StepBreakpoint, Present
  <1>6. CASE StepBreakpoint(p) /\ bp[p] # "enabled"
    BY <1>1, <1>2, <1>6, PlanQuiet DEF StepBreakpoint, Live
  <1> QED
    BY <1>3, <1>4, <1>5, <1>6 DEF StepOnce

(* What is left of a step command where the memory has no lines.           *)
LEMMA PlanInvalid ==
  ASSUME Controlled, PlanTable, NEW name \in Plans \ {"none"}, Planned(name),
         NEW p \in PCs, InvalidRegion(p)
  PROVE  PlanTable'
  <1>1. EndsPlan
    BY DEF InvalidRegion
  <1>2. CASE StepOnce(p)
    <2>1. PlanShape'
      BY <1>1, <1>2, PlanStepOnce DEF EndsPlan
    <2> QED
      BY <1>1, <2>1 DEF PlanTable, EndsPlan
  <1>3. CASE UNCHANGED <<traceeVars, tableVars, at, cmd, over, mapped, leftover>>
    BY <1>1, <1>3, PlannedTable, PlanMoves DEF EndsPlan, traceeVars, tableVars
  <1> QED
    BY <1>2, <1>3 DEF InvalidRegion

(* An exception within a plan, before which it may have set breakpoints.   *)
LEMMA PlanThrows ==
  ASSUME Controlled, PlanTable, NEW name \in Plans \ {"none", "go", "last"}, Planned(name),
         NEW p, FrameReadThrows(p),
         UNCHANGED bp \/ \E S : SetAll(S)
  PROVE  PlanTable'
  <1>1. /\ PlanShape /\ over = Null /\ temps = {} /\ temps' = {} /\ plan' = "last"
        /\ UNCHANGED <<mainRet, intent, over, temps, before>>
        /\ child \in {"stopped", "dead"} /\ child' \in {"dead", "detached"}
    BY PlannedTable DEF FrameReadThrows, EndsPlan, history, Abort, ReleaseChild
  <1>2. CASE UNCHANGED bp
    BY <1>1, <1>2, PlanMoves
  <1>3. ASSUME NEW S, SetAll(S) PROVE PlanTable'
    <2>1. ~Live'
      BY <1>1 DEF Live
    <2>2. PlanShape'
      BY <1>1, <1>3, <2>1, PlanSetAll
    <2> QED
      BY <1>1, <2>2 DEF PlanTable
  <1> QED
    BY <1>2, <1>3

(* finish.                                                                 *)
LEMMA StepOutPlan ==
  ASSUME Controlled, PlanTable, StepOut
  PROVE  PlanTable'
  <1>1. /\ PlanShape /\ over = Null /\ temps = {} /\ child \in {"stopped", "dead"}
        /\ Planned("stepOut") /\ plan = "stepOut"
    BY PlannedTable DEF StepOut, Plans
  <1>2. CASE Call("stepIn")
    BY <1>1, <1>2, PlanMoves DEF Call, vars, tableVars, traceeVars, controlVars
  <1>3. ASSUME NEW p \in PCs, FrameReadThrows(p), UNCHANGED bp PROVE PlanTable'
    BY <1>1, <1>3, PlanThrows DEF Plans
  <1>4. ASSUME NEW r, StepOutTo(r) \/ StepOutFails(r),
               UNCHANGED <<child, mode, registers, history, mainRet, controlVars, start, before>>
        PROVE  PlanTable'
    <2>1. UNCHANGED <<child, mainRet, intent, over, before>>
      BY <1>4 DEF history, controlVars
    <2>2. CASE SetAll({r}) /\ temps' = Temporary({r}) /\ plan' = "go"
      <3>1. PlanShape'
        BY <1>1, <2>1, <2>2, PlanSetAll
      <3> QED
        BY <2>2, <3>1 DEF PlanTable
    <2>3. CASE /\ mapped /\ r \in Breakable /\ bp[r] = "disabled" /\ Enable(r)
               /\ temps' = Temporary({r}) /\ plan' = "go"
      <3>1. PlanShape'
        BY <1>1, <2>1, <2>3, PlanEnables
      <3> QED
        BY <2>3, <3>1 DEF PlanTable
    <2>4. CASE StepOutFails(r)
      BY <1>1, <2>1, <2>4, PlanMoves DEF StepOutFails
    <2> QED
      BY <1>4, <2>2, <2>3, <2>4 DEF StepOutTo
  <1> QED
    BY <1>2, <1>3, <1>4 DEF StepOut

(* next.                                                                   *)
LEMMA StepOverPlan ==
  ASSUME Controlled, PlanTable, StepOver
  PROVE  PlanTable'
  <1>1. /\ PlanShape /\ over = Null /\ temps = {} /\ child \in {"stopped", "dead"}
        /\ Planned("stepOver") /\ plan = "stepOver"
    BY PlannedTable DEF StepOver, Plans
  <1>2. ASSUME NEW p \in PCs, InvalidRegion(p) PROVE PlanTable'
    BY <1>1, <1>2, PlanInvalid DEF Plans
  <1>3. CASE Call("stepIn")
    BY <1>1, <1>3, PlanMoves DEF Call, vars, tableVars, traceeVars, controlVars
  <1>4. ASSUME NEW p \in PCs, StepOnce(p), EndsPlan PROVE PlanTable'
    <2>1. PlanShape'
      BY <1>1, <1>4, PlanStepOnce DEF EndsPlan, Plans
    <2> QED
      BY <1>4, <2>1 DEF PlanTable, EndsPlan
  <1>5. ASSUME NEW p \in PCs, FrameReadThrows(p), SetAll(OtherLines(p)) PROVE PlanTable'
    BY <1>1, <1>5, PlanThrows DEF Plans
  <1>6. ASSUME NEW S, SetAll(S), temps' = Temporary(S), plan' = "go",
               UNCHANGED <<child, mode, registers, history, mainRet, controlVars, before>>
        PROVE  PlanTable'
    <2>1. UNCHANGED <<child, mainRet, intent, over, before>>
      BY <1>6 DEF history, controlVars
    <2>2. PlanShape'
      BY <1>1, <1>6, <2>1, PlanSetAll
    <2> QED
      BY <1>6, <2>2 DEF PlanTable
  <1> QED
    BY <1>2, <1>3, <1>4, <1>5, <1>6 DEF StepOver

(* step_in, its loop and the answer to its question.                       *)
LEMMA StepInPlan ==
  ASSUME Controlled, PlanTable, StepIn \/ StepLine \/ (\E yes \in BOOLEAN : AnswerRevert(yes))
  PROVE  PlanTable'
  <1>1. CASE StepIn
    <2>1. /\ PlanShape /\ temps = {} /\ Planned("stepIn") /\ plan = "stepIn"
      BY <1>1, PlannedTable DEF StepIn, Plans
    <2>2. ASSUME NEW p \in PCs, InvalidRegion(p) PROVE PlanTable'
      BY <2>1, <2>2, PlanInvalid DEF Plans
    <2>3. CASE Abort /\ EndsPlan /\ UNCHANGED <<tableVars, over>>
      <3>1. child' \in {child, "dead", "detached"}
        BY <2>3 DEF Abort, ReleaseChild
      <3> QED
        BY <2>1, <2>3, <3>1, PlanMoves DEF EndsPlan, tableVars
    <2>4. CASE plan' = "line" /\ UNCHANGED <<vars, temps, before>>
      BY <2>1, <2>4, PlanMoves DEF vars, tableVars, traceeVars, controlVars
    <2> QED
      BY <1>1, <2>2, <2>3, <2>4 DEF StepIn
  <1>2. CASE StepLine
    <2>1. /\ PlanShape /\ temps = {} /\ Planned("line") /\ plan = "line"
      BY <1>2, PlannedTable DEF StepLine, Plans
    <2>2. ASSUME NEW p \in PCs, StepOnce(p), UNCHANGED planVars PROVE PlanTable'
      <3>1. PlanShape'
        BY <2>1, <2>2, PlanStepOnce DEF planVars, Plans
      <3> QED
        BY <2>1, <2>2, <3>1 DEF PlanTable, planVars
    <2>3. ASSUME NEW name \in {"stepIn", "last", "ask"}, Call(name) PROVE PlanTable'
      BY <2>1, <2>3, PlanMoves DEF Call, vars, tableVars, traceeVars, controlVars
    <2> QED
      BY <1>2, <2>2, <2>3 DEF StepLine
  <1>3. ASSUME NEW yes \in BOOLEAN, AnswerRevert(yes) PROVE PlanTable'
    <2>1. PlanShape /\ temps = {}
      BY <1>3, PlannedTable DEF AnswerRevert, Plans
    <2>2. /\ UNCHANGED <<child, bp, mainRet, intent, over, temps, before>>
          /\ plan' \in {"stepOver", "last"}
      BY <1>3 DEF AnswerRevert, tableVars
    <2> QED
      BY <2>1, <2>2, PlanMoves
  <1> QED
    BY <1>1, <1>2, <1>3

(* The child goes on to whichever breakpoint it meets first.               *)
LEMMA GoPlan ==
  ASSUME Controlled, PlanTable, Go
  PROVE  PlanTable'
  <1>1. PlanShape /\ over = Null /\ child \in {"stopped", "dead"}
    BY PlannedTable DEF Go, Plans
  <1>2. ContinueExecution("cont") /\ plan' = "last" /\ UNCHANGED <<intent, mainRet, temps, before>>
    BY DEF Go, ContinueExecution, history
  <1>3. PlanShape'
    <2>1. ASSUME NEW p, IsEnabled(p), StepOff(p) PROVE PlanShape'
      BY <1>1, <1>2, <2>1, PlanStepOff DEF IsEnabled
    <2>2. CASE ResumeChild("cont") /\ over' = Null /\ UNCHANGED bp
      BY <1>1, <1>2, <2>2, PlanQuiet DEF ResumeChild, Live
    <2> QED
      BY <1>2, <2>1, <2>2 DEF ContinueExecution
  <1> QED
    BY <1>2, <1>3 DEF PlanTable

(* The end of a plan leaves a table fit for the prompt.                    *)
LEMMA EndPlanTable ==
  ASSUME Controlled, PlanTable, EndPlan
  PROVE  PlanTable' /\ (child # "dead" => bp' = before)
  <1>1. /\ PlanShape /\ over = Null /\ child \in {"stopped", "dead"} /\ cmd # "detach"
        /\ at = "returned"
    BY PlannedTable, PlannedFacts DEF EndPlan, Plans
  <1>2. /\ ClearTemps /\ plan' = "none" /\ temps' = {}
        /\ UNCHANGED <<child, mainRet, intent, over, at, cmd>>
    BY DEF EndPlan, history, controlVars
  <1>3. child # "dead" => bp' = before
    BY <1>1, <1>2, ClearRestores
  <1>4. \A a \in Addr : /\ bp'[a] # "none" => bp[a] # "none"
                        /\ (bp[a] # "none" /\ a \notin Erased(temps)) => bp'[a] # "none"
    <2>1. \A a \in Disabled(temps) : bp[a] # "none"
      BY <1>1 DEF PlanShape, TempsExist, Disabled
    <2> QED
      BY <1>2, <2>1 DEF ClearTemps, IsEnabled
  <1>5. Reachable'
    BY <1>1, <1>4 DEF PlanShape, Reachable, Present, Word
  <1>6. MainRetLive'
    <2>1. SUFFICES ASSUME mainRet # Null PROVE bp'[mainRet] # "none"
      BY <1>2 DEF MainRetLive
    <2>2. mainRet \in Addr /\ bp[mainRet] # "none"
      BY <1>1, <2>1 DEF PlanShape, MainRetLive, Controlled, StepTypeOK, TypeOK, TableTypeOK
    <2>3. mainRet \notin Erased(temps)
      BY <1>1, <2>1 DEF PlanShape, TempsExist, IsMainRet, Erased
    <2> QED
      BY <1>4, <2>2, <2>3
  <1>7. ArmedAsAsked'
    <2>1. SUFFICES ASSUME Live PROVE Enabled' = intent
      BY <1>1, <1>2, AddrFacts DEF ArmedAsAsked, Live, Controlled, StepTypeOK, TypeOK, TableTypeOK
    <2>2. bp' = before /\ intent = {a \in Addr : before[a] = "enabled"}
      BY <1>1, <1>3, <2>1 DEF Live, PlanShape
    <2> QED
      BY <2>2 DEF Enabled
  <1>8. Shape'
    BY <1>1, <1>2, <1>5, <1>6, <1>7 DEF Shape
  <1> QED
    BY <1>2, <1>3, <1>8 DEF PlanTable

(* A step command begins with the table as the user has left it.           *)
LEMMA CommandTable ==
  ASSUME Controlled, PlanTable, NEW how \in {"stepIn", "stepOver", "stepOut"}, StepCommand(how)
  PROVE  PlanTable'
  <1>1. /\ at = "prompt" /\ plan' = how /\ before' = bp /\ temps' = temps
        /\ UNCHANGED <<child, bp, mainRet, intent, over>>
    BY DEF StepCommand, traceeVars, tableVars
  <1>2. plan = "none" /\ over = Null
    BY <1>1 DEF Controlled, PlanControl, Control
  <1>3. Shape /\ temps = {}
    BY <1>2 DEF PlanTable
  <1>4. Reachable' /\ MainRetLive' /\ TempsExist'
    BY <1>1, <1>3 DEF Shape, Reachable, Present, Word, MainRetLive, TempsExist
  <1>5. Live => intent = {a \in Addr : bp[a] = "enabled"}
    BY <1>2, <1>3, AddrFacts DEF Shape, ArmedAsAsked, Enabled, Controlled, StepTypeOK,
       TypeOK, TableTypeOK
  <1>6. PlanShape'
    BY <1>1, <1>2, <1>3, <1>4, <1>5 DEF PlanShape, Live
  <1> QED
    BY <1>1, <1>3, <1>6 DEF PlanTable

(* The session between plans, and its waiting half within one.             *)
LEMMA SessionPlan ==
  ASSUME Controlled, PlanTable, ChildMoves \/ SessionMoves \/ UserMoves \/ Done,
         UNCHANGED planVars
  PROVE  PlanTable'
  <1>1. CASE plan = "none"
    <2>1. Next
      BY DEF SessionMoves, Next, DebuggerMoves
    <2>2. Shape'
      BY <1>1, <2>1, NextTable DEF Controlled, StepTypeOK, PlanTable, Kept
    <2> QED
      BY <1>1, <2>2 DEF PlanTable, planVars
  <1>2. CASE plan # "none"
    <2>1. PlanShape /\ UNCHANGED <<temps, before, plan>>
      BY <1>2 DEF PlanTable, planVars
    <2>2. ~UserMoves
      <3>1. at # "prompt"
        BY <1>2 DEF Controlled, PlanControl
      <3> QED
        BY <3>1 DEF UserMoves, TableCommand, Break, BreakpointEnable, BreakSelected,
           BreakpointDisable, RipCommand, JumpToInstruction, SkipUnsafeInstruction,
           RegisterWrite, MemoryCommand, ReadMemory, WriteMemory, RunCommand, Continue,
           SingleStepBreakpointCheck, ProgramCounter, QuitCommand, Quit, QuitBare, EndOfInput
    <2>3. CASE ChildMoves
      <3>1. UNCHANGED <<bp, mainRet, intent, over>> /\ (Live' => Live)
        BY <2>3 DEF ChildMoves, ChildStep, Trap, Illegal, Fault, Exit, Execute, Interrupted,
           Killed, Stop, tableVars, controlVars, Live
      <3> QED
        BY <1>2, <2>1, <3>1, PlanQuiet DEF PlanTable
    <2>4. CASE Waiting
      BY <1>2, <2>1, <2>4, PlanWaiting DEF PlanTable
    <2>5. CASE Done
      BY <1>2, <2>1, <2>5, PlanQuiet DEF PlanTable, Done, vars, tableVars, traceeVars,
         controlVars, Live
    <2> QED
      BY <1>2, <2>2, <2>3, <2>4, <2>5 DEF SessionMoves
  <1> QED
    BY <1>1, <1>2

-----------------------------------------------------------------------------
(* The bytes.                                                              *)

(* What a step that is not write_memory does to the bytes of the child: it *)
(* makes one of the calls of the table, or none.                           *)
TableCall ==
    \/ UNCHANGED <<mem, bp, data>>
    \/ \E a \in Addr : bp[a] = "disabled" /\ Enable(a)
    \/ \E a \in Addr : bp[a] = "enabled" /\ Disable(a)
    \/ \E a, m : SetBreakpointAtAddress(a, m)
    \/ \E a \in Addr : RemoveBreakpoint(a)
    \/ DisableAll
    \/ \E S : SetAll(S)

(* Such a call keeps the bytes of a child that is there, each entry of the *)
(* table being in the reach of ptrace.                                     *)
LEMMA CallFaithful ==
  ASSUME Bytes, Reachable, clobbered \subseteq rewritten, Faithful, child = "stopped",
         TableCall, UNCHANGED <<text, clobbered>>, rewritten \subseteq rewritten'
  PROVE  Faithful'
  <1>1. \A a \in Addr : bp[a] # "none" => Pokable(a)
    BY DEF Reachable, Present, Pokable
  <1>2. CASE UNCHANGED <<mem, bp, data>>
    BY <1>2 DEF Faithful
  <1>3. ASSUME NEW a \in Addr, bp[a] # "enabled", Pokable(a), Enable(a) PROVE Faithful'
    BY <1>3 DEF Faithful, Enable, Bytes
  <1>4. ASSUME NEW a \in Addr, bp[a] = "enabled", Disable(a) PROVE Faithful'
    BY <1>1, <1>4 DEF Faithful, Disable, Bytes
  <1>5. ASSUME NEW a, NEW m, SetBreakpointAtAddress(a, m) PROVE Faithful'
    <2>1. CASE Insertable(a, m)
      <3>1. a \in Addr /\ bp[a] # "enabled" /\ Pokable(a) /\ Enable(a)
        BY <1>5, <2>1, BreakableAssumption DEF Insertable, SetBreakpointAtAddress
      <3> QED
        BY <1>3, <3>1
    <2>2. CASE ~Insertable(a, m)
      BY <1>2, <1>5, <2>2 DEF SetBreakpointAtAddress
    <2> QED
      BY <2>1, <2>2
  <1>6. ASSUME NEW a \in Addr, RemoveBreakpoint(a) PROVE Faithful'
    BY <1>1, <1>6 DEF Faithful, RemoveBreakpoint, IsEnabled, Bytes
  <1>7. CASE DisableAll
    BY <1>1, <1>7 DEF Faithful, DisableAll, Enabled, Bytes
  <1>8. ASSUME NEW S, SetAll(S) PROVE Faithful'
    <2>1. \A a \in Erased(Temporary(S)) : bp[a] = "none"
      BY ErasedInserted DEF Insertable
    <2> QED
      BY <1>8, <2>1 DEF Faithful, SetAll, Bytes
  <1> QED
    BY <1>1, <1>2, <1>3, <1>4, <1>5, <1>6, <1>7, <1>8 DEF TableCall

(* The same of a child that may be gone, and need then not be looked at.   *)
LEMMA CallBytes ==
  ASSUME Controlled, Reachable, Bytewise, child \in {"stopped", "dead"},
         child = "dead" => child' = "dead",
         TableCall, UNCHANGED <<text, clobbered>>, rewritten \subseteq rewritten'
  PROVE  Bytewise'
  <1>1. Bytes
    BY DEF Controlled, StepTypeOK, TypeOK, TraceeTypeOK, TableTypeOK, Bytes
  <1>2. clobbered' \subseteq rewritten'
    BY DEF Bytewise
  <1>3. CASE child = "stopped"
    BY <1>1, <1>2, <1>3, CallFaithful DEF Bytewise
  <1>4. CASE child = "dead"
    BY <1>2, <1>4 DEF Bytewise
  <1> QED
    BY <1>3, <1>4

(* A step that changes no byte, nor the table.                             *)
LEMMA QuietBytes ==
  ASSUME Bytewise, UNCHANGED <<mem, bp, data, text, clobbered>>, rewritten \subseteq rewritten',
         child = "dead" => child' = "dead"
  PROVE  Bytewise'
  BY DEF Bytewise, Faithful

(* Every entry is in the reach of ptrace, within a plan and outside.       *)
LEMMA TableReachable ==
  ASSUME PlanTable
  PROVE  Reachable
  BY DEF PlanTable, Shape, PlanShape

(* continueExecution and singleStepBreakpointCheck disable one breakpoint  *)
(* or none.                                                                *)
LEMMA RunsBytes ==
  ASSUME Controlled, PlanTable, Bytewise, rewritten \subseteq rewritten',
         child \in {"stopped", "dead"},
         \/ \E c : ContinueExecution(c)
         \/ /\ \E p : StepAtMainReturn(p) \/ StepInstruction(p) \/ StepBreakpoint(p)
            /\ UNCHANGED history
  PROVE  Bytewise'
  <1>1. UNCHANGED <<text, clobbered>>
    BY DEF ContinueExecution, history
  <1>2. TableCall /\ (child = "dead" => child' = "dead")
    BY DEF TableCall, ContinueExecution, StepAtMainReturn, StepInstruction, StepBreakpoint,
       StepOff, SingleStep, ResumeChild, Abort, ReleaseChild, IsEnabled, Present
  <1> QED
    BY <1>1, <1>2, CallBytes, TableReachable

(* initialize sets a breakpoint, erases it and sets another.               *)
LEMMA AttachingBytes ==
  ASSUME Controlled, PlanTable, Bytewise, rewritten \subseteq rewritten', Attaching
  PROVE  Bytewise'
  <1>1. child \in {"stopped", "dead"} /\ UNCHANGED <<text, clobbered>>
    BY DEF Attaching, Initialize, RemoveMainBp, SetMainReturn, Controlled, StepTypeOK, TypeOK,
       TraceeTypeOK, Control
  <1>2. child = "dead" => child' = "dead"
    BY DEF Attaching, Initialize, RemoveMainBp, SetMainReturn, Abort, ReleaseChild
  <1>3. TableCall
    BY SessionAssumption DEF TableCall, Attaching, Initialize, RemoveMainBp, SetMainReturn
  <1> QED
    BY <1>1, <1>2, <1>3, CallBytes, TableReachable

(* The breakpoint commands.                                                *)
LEMMA TableCommandBytes ==
  ASSUME Controlled, PlanTable, Bytewise, rewritten \subseteq rewritten', TableCommand
  PROVE  Bytewise'
  <1>1. child \in {"stopped", "dead"} /\ UNCHANGED <<child, text, clobbered>>
    BY DEF TableCommand, Break, BreakSelected, BreakpointEnable, BreakpointDisable, quiet,
       Controlled, StepTypeOK, TypeOK, TraceeTypeOK, Control
  <1>2. TableCall
    BY DEF TableCall, TableCommand, Break, BreakSelected, BreakpointEnable, BreakpointDisable,
       Present
  <1> QED
    BY <1>1, <1>2, CallBytes, TableReachable

(* write_memory writes over breakpoints and program alike; what it writes  *)
(* over an entry of the table counts as rewritten.                         *)
LEMMA MemoryCommandBytes ==
  ASSUME Controlled, PlanTable, Bytewise, MemoryCommand,
         rewritten' = rewritten \cup clobbered' \cup {a \in Present : text'[a] # text[a]}
  PROVE  Bytewise'
  <1>1. ASSUME NEW a \in PeekAddrs, ReadMemory(a) PROVE Bytewise'
    BY <1>1, QuietBytes DEF ReadMemory, Abort, ReleaseChild, tableVars
  <1>2. ASSUME NEW a \in PeekAddrs, NEW w \in Words, WriteMemory(a, w) PROVE Bytewise'
    <2>1. UNCHANGED <<bp, data>> /\ (child = "dead" => child' = "dead")
      BY <1>2 DEF WriteMemory, Abort, ReleaseChild
    <2>2. CASE UNCHANGED <<mem, text, clobbered>>
      BY <2>1, <2>2, QuietBytes
    <2>3. CASE /\ mem' = Written(mem, a, w) /\ text' = Written(text, a, w)
               /\ clobbered' = clobbered \cup (Enabled \cap Word(a))
      <3>1. Faithful => Faithful'
        BY <2>1, <2>3 DEF Faithful, Written, Enabled, Present
      <3> QED
        BY <2>1, <3>1 DEF Bytewise
    <2> QED
      BY <1>2, <2>2, <2>3 DEF WriteMemory
  <1> QED
    BY <1>1, <1>2 DEF MemoryCommand

(* A step of the session, between plans or within one.                     *)
LEMMA SessionBytes ==
  ASSUME Controlled, PlanTable, Bytewise, ChildMoves \/ SessionMoves \/ UserMoves \/ Done,
         rewritten' = rewritten \cup clobbered' \cup {a \in Present : text'[a] # text[a]}
  PROVE  Bytewise'
  <1>1. rewritten \subseteq rewritten'
    OBVIOUS
  <1>2. ASSUME at \in {"returned", "prompt", "continue", "ending", "initRet"}
        PROVE  child \in {"stopped", "dead"}
    BY <1>2 DEF Controlled, StepTypeOK, TypeOK, TraceeTypeOK, Control
  <1>3. CASE ChildMoves
    BY <1>1, <1>3, QuietBytes DEF ChildMoves, ChildStep, Trap, Illegal, Fault, Exit, Execute,
       Interrupted, Killed, Stop, tableVars
  <1>4. CASE WaitForSignal \/ WaitThrows \/ SignalInfoThrows
    BY <1>1, <1>4, QuietBytes DEF WaitForSignal, WaitThrows, SignalInfoThrows, tableVars,
       Abort, ReleaseChild
  <1>5. CASE ReEnable
    <2>1. /\ over \in Addr /\ Enable(over) /\ UNCHANGED <<text, clobbered>>
          /\ child \in {"stopped", "dead"} /\ (child = "dead" => child' = "dead")
      BY <1>2, <1>5 DEF ReEnable, Controlled, StepTypeOK, TypeOK, history, ResumeChild
    <2>2. CASE child = "stopped"
      <3>1. bp[over] = "disabled"
        BY <1>5, <2>2, AddrFacts DEF ReEnable, PlanTable, Shape, PlanShape, Live
      <3> QED
        BY <1>1, <2>1, <3>1, CallBytes, TableReachable DEF TableCall
    <2>3. CASE child = "dead"
      BY <1>1, <2>1, <2>3 DEF Bytewise
    <2> QED
      BY <2>1, <2>2, <2>3
  <1>6. CASE Continue \/ CallContinue \/ SingleStepBreakpointCheck
    BY <1>1, <1>2, <1>6, RunsBytes DEF Continue, CallContinue, SingleStepBreakpointCheck
  <1>7. CASE ShowSource \/ ProgramCounter \/ RipCommand \/ QuitCommand \/ Done
    BY <1>1, <1>7, QuietBytes DEF ShowSource, ProgramCounter, RipCommand, JumpToInstruction,
       SkipUnsafeInstruction, RegisterWrite, SetRip, QuitCommand, Quit, QuitBare, EndOfInput,
       Done, vars, tableVars, traceeVars, Abort, ReleaseChild
  <1>8. CASE EndInconsistent \/ EndKillAnswered \/ KillChild \/ Leave
    BY <1>1, <1>8, QuietBytes DEF EndInconsistent, EndKillAnswered, KillChild, Leave,
       tableVars, traceeVars, ReleaseChild
  <1>9. CASE Cleanup
    BY <1>1, <1>2, <1>9, CallBytes, TableReachable DEF Cleanup, TableCall, ReleaseChild
  <1> QED
    BY <1>1, <1>3, <1>4, <1>5, <1>6, <1>7, <1>8, <1>9, AttachingBytes, TableCommandBytes,
       MemoryCommandBytes DEF SessionMoves, Waiting, UserMoves, RunCommand, Ending

(* The temporary breakpoints give the child its bytes back.                *)
LEMMA EndPlanBytes ==
  ASSUME Controlled, PlanTable, Bytewise, EndPlan, UNCHANGED rewritten
  PROVE  Bytewise'
  <1>1. PlanShape /\ child \in {"stopped", "dead"}
    BY PlannedTable DEF EndPlan, Plans
  <1>2. ClearTemps /\ UNCHANGED <<child, text, clobbered>>
    BY DEF EndPlan, history
  <1>3. CASE child = "stopped"
    <2>1. Bytes /\ Faithful /\ clobbered \subseteq rewritten
      BY <1>3 DEF Controlled, StepTypeOK, TypeOK, TraceeTypeOK, TableTypeOK, Bytes, Bytewise
    <2>2. \A a \in Addr : bp[a] # "none" => Pokable(a)
      BY <1>1, <1>3 DEF PlanShape, Reachable, Present, Pokable
    <2>3. \A a \in Disabled(temps) : bp[a] # "none"
      BY <1>1 DEF PlanShape, TempsExist, Disabled
    <2>4. Faithful'
      BY <1>2, <2>1, <2>2, <2>3 DEF Faithful, ClearTemps, IsEnabled, Bytes
    <2> QED
      BY <1>2, <2>1, <2>4 DEF Bytewise
  <1>4. CASE child = "dead"
    BY <1>2, <1>4 DEF Bytewise
  <1> QED
    BY <1>1, <1>3, <1>4

(* A step of a plan, or the command that begins one.                       *)
LEMMA PlanBytes ==
  ASSUME Controlled, PlanTable, Bytewise, UNCHANGED rewritten,
         Planning \/ \E how \in {"stepIn", "stepOver", "stepOut"} : StepCommand(how)
  PROVE  Bytewise'
  <1>1. rewritten \subseteq rewritten'
    OBVIOUS
  <1>2. ASSUME NEW name \in Plans \ {"none"}, Planned(name) PROVE child \in {"stopped", "dead"}
    BY <1>2, PlannedFacts
  <1>3. ASSUME NEW name, Call(name) PROVE Bytewise'
    BY <1>1, <1>3, QuietBytes DEF Call, vars, traceeVars, tableVars
  <1>4. ASSUME NEW p, StepOnce(p), child \in {"stopped", "dead"} PROVE Bytewise'
    BY <1>1, <1>4, RunsBytes DEF StepOnce
  <1>5. ASSUME NEW p, InvalidRegion(p), child \in {"stopped", "dead"} PROVE Bytewise'
    BY <1>1, <1>4, <1>5, QuietBytes DEF InvalidRegion, traceeVars, tableVars
  <1>6. ASSUME NEW p, FrameReadThrows(p), UNCHANGED <<mem, bp, data>> \/ \E S : SetAll(S),
               child \in {"stopped", "dead"}
        PROVE  Bytewise'
    BY <1>1, <1>6, CallBytes, TableReachable DEF FrameReadThrows, history, TableCall, Abort,
       ReleaseChild
  <1>7. CASE StepOut
    <2>1. child \in {"stopped", "dead"}
      BY <1>2, <1>7 DEF StepOut, Plans
    <2>2. ASSUME NEW r, StepOutTo(r) \/ StepOutFails(r), UNCHANGED <<child, history>>
          PROVE  Bytewise'
      <3>1. TableCall
        BY <2>2, BreakableAssumption DEF StepOutTo, StepOutFails, TableCall
      <3> QED
        BY <1>1, <2>1, <2>2, <3>1, CallBytes, TableReachable DEF history
    <2> QED
      BY <1>3, <1>6, <1>7, <2>1, <2>2 DEF StepOut
  <1>8. CASE StepOver
    <2>1. child \in {"stopped", "dead"}
      BY <1>2, <1>8 DEF StepOver, Plans
    <2>2. ASSUME NEW S, SetAll(S), UNCHANGED <<child, history>> PROVE Bytewise'
      BY <1>1, <2>1, <2>2, CallBytes, TableReachable DEF history, TableCall
    <2> QED
      BY <1>3, <1>4, <1>5, <1>6, <1>8, <2>1, <2>2 DEF StepOver
  <1>9. CASE StepIn
    <2>1. child \in {"stopped", "dead"}
      BY <1>2, <1>9 DEF StepIn, Plans
    <2>2. CASE Abort /\ UNCHANGED <<mem, tableVars>>
      BY <1>1, <2>2, QuietBytes DEF Abort, ReleaseChild, tableVars
    <2>3. CASE UNCHANGED vars
      BY <1>1, <2>3, QuietBytes DEF vars, traceeVars, tableVars
    <2> QED
      BY <1>5, <1>9, <2>1, <2>2, <2>3 DEF StepIn
  <1>10. CASE StepLine
    BY <1>2, <1>3, <1>4, <1>10 DEF StepLine, Plans
  <1>11. CASE Go
    BY <1>1, <1>2, <1>11, RunsBytes DEF Go, Plans
  <1>12. ASSUME NEW yes \in BOOLEAN, AnswerRevert(yes) PROVE Bytewise'
    BY <1>1, <1>12, QuietBytes DEF AnswerRevert, tableVars
  <1>13. ASSUME NEW how \in {"stepIn", "stepOver", "stepOut"}, StepCommand(how) PROVE Bytewise'
    BY <1>1, <1>13, QuietBytes DEF StepCommand, traceeVars, tableVars
  <1> QED
    BY <1>7, <1>8, <1>9, <1>10, <1>11, <1>12, <1>13, EndPlanBytes DEF Planning

-----------------------------------------------------------------------------
(* The table and the bytes stay right for ever, whatever plans are made,   *)
(* cut short, and ended (stepIn, stepOver, stepOut).                       *)
THEOREM StepTableCorrect == StepSpec => []StepTable
  <1>1. StepInit => StepTable
    <2> SUFFICES ASSUME StepInit PROVE StepTable
      OBVIOUS
    <2>1. Table
      BY InitTable DEF StepInit
    <2> QED
      BY <2>1 DEF StepInit, Init, TableInit, TraceeInit, Table, StepTable, PlanTable, Bytewise,
         Faithful
  <1>2. Controlled /\ StepTable /\ [StepNext]_allVars => StepTable'
    <2> SUFFICES ASSUME Controlled, StepTable, [StepNext]_allVars PROVE StepTable'
      OBVIOUS
    <2> USE DEF StepTable
    <2>1. CASE UNCHANGED allVars
      <3>1. Done \/ UNCHANGED vars
        BY <2>1 DEF allVars
      <3>2. PlanTable'
        BY <2>1, PlanQuiet, NextTable DEF allVars, vars, planVars, traceeVars, tableVars,
           controlVars, PlanTable, Controlled, StepTypeOK, Kept, Live
      <3>3. Bytewise'
        BY <2>1, QuietBytes DEF allVars, vars, traceeVars, tableVars
      <3> QED
        BY <3>2, <3>3
    <2>2. CASE /\ ChildMoves \/ SessionMoves \/ UserMoves \/ Done
               /\ rewritten' = rewritten \cup clobbered' \cup {a \in Present : text'[a] # text[a]}
               /\ UNCHANGED planVars
      BY <2>2, SessionPlan, SessionBytes
    <2>3. CASE Planning /\ UNCHANGED rewritten
      BY <2>3, PlanBytes, StepOutPlan, StepOverPlan, StepInPlan, GoPlan, EndPlanTable
         DEF Planning
    <2>4. ASSUME NEW how \in {"stepIn", "stepOver", "stepOut"}, StepCommand(how),
                 UNCHANGED rewritten
          PROVE  StepTable'
      BY <2>4, PlanBytes, CommandTable
    <2> QED
      BY <2>1, <2>2, <2>3, <2>4 DEF StepNext
  <1>3. StepSpec => []Controlled
    BY StepTypeCorrect, PTL DEF Controlled
  <1> QED
    BY <1>1, <1>2, <1>3, PTL DEF StepSpec

(* The breakpoints a plan is to remove are there, and none of them is the  *)
(* one at main's return, about which removeBreakpoint asks (stepOver).     *)
THEOREM TempsAlwaysExist == StepSpec => []TempsExist
  <1>1. StepTable => TempsExist
    BY DEF StepTable, PlanTable, PlanShape, TempsExist
  <1> QED
    BY <1>1, StepTableCorrect, PTL

(* Between plans exactly what was asked for is armed: no temporary         *)
(* breakpoint of stepOver or stepOut outlives its command.                 *)
THEOREM NoTemporaryRemains == StepSpec => []ArmedAsAskedBetweenPlans
  <1>1. StepTable => ArmedAsAskedBetweenPlans
    BY DEF StepTable, PlanTable, Shape, ArmedAsAsked, ArmedAsAskedBetweenPlans
  <1> QED
    BY <1>1, StepTableCorrect, PTL

(* The bytes of a live child are the program's, with an int3 under each    *)
(* enabled breakpoint, through every plan (Breakpoint::enable, disable).   *)
THEOREM StepOverlaySafe == StepSpec => []StepOverlay
  <1>1. StepTable => StepOverlay
    BY DEF StepTable, Bytewise, Faithful, StepOverlay
  <1> QED
    BY <1>1, StepTableCorrect, PTL

(* A plan runs the child past no breakpoint that is wanted, but for the    *)
(* one being stepped off (continueExecution and singleStep, as stepIn,     *)
(* stepOver and stepOut call them).                                        *)
THEOREM StepNeverMissed == StepSpec => []NoBreakpointMissed
  <1>1. Controlled /\ StepTable => NoBreakpointMissed
    <2> SUFFICES ASSUME Controlled, StepTable, child = "running",
                        NEW a \in intent \ clobbered
                 PROVE  mem[a] = Int3 \/ (mode = "step" /\ a = over /\ a = pc)
      BY DEF NoBreakpointMissed
    <2>1. a \in Addr /\ Live /\ Faithful
      BY DEF Controlled, StepTypeOK, TypeOK, TableTypeOK, Live, StepTable, Bytewise
    <2>2. CASE a = over
      BY <2>1, <2>2, AddrFacts DEF Controlled, Control
    <2>3. CASE a # over /\ plan = "none"
      BY <2>1, <2>3 DEF StepTable, PlanTable, Shape, ArmedAsAsked, Enabled, Faithful
    <2>4. CASE a # over /\ plan # "none"
      <3>1. PlanShape /\ before[a] = "enabled"
        BY <2>1, <2>4 DEF StepTable, PlanTable, PlanShape
      <3>2. a \notin Temps
        BY <2>1, <3>1 DEF PlanShape, Temps
      <3>3. bp[a] = "enabled"
        BY <2>1, <2>4, <3>1, <3>2 DEF PlanShape
      <3> QED
        BY <2>1, <3>3 DEF Faithful
    <2> QED
      BY <2>2, <2>3, <2>4
  <1>2. StepSpec => []Controlled
    BY StepTypeCorrect, PTL DEF Controlled
  <1> QED
    BY <1>1, <1>2, StepTableCorrect, PTL

(* However a plan went, the table it leaves in a child that is still there *)
(* is the one it found (the end of stepOver and stepOut).                  *)
THEOREM PlanAlwaysRestores == StepSpec => PlanRestoresTable
  <1>1. Controlled /\ StepTable /\ [StepNext]_allVars =>
            [(plan = "last" /\ plan' = "none" /\ child # "dead") => bp' = before]_allVars
    <2> SUFFICES ASSUME Controlled, StepTable, StepNext, plan = "last", plan' = "none",
                        child # "dead"
                 PROVE  bp' = before
      OBVIOUS
    <2>1. EndPlan
      BY DEF StepNext, planVars, Planning, StepOut, StepOver, StepIn, StepLine, Go,
         AnswerRevert, StepCommand, Planned
    <2> QED
      BY <2>1, EndPlanTable DEF StepTable
  <1>2. StepSpec => []Controlled
    BY StepTypeCorrect, PTL DEF Controlled
  <1> QED
    BY <1>1, <1>2, StepTableCorrect, PTL DEF StepSpec, PlanRestoresTable
-----------------------------------------------------------------------------
(* What next leaves armed.                                                 *)

(* Every statement of the function on another line has a breakpoint that   *)
(* is armed or being stepped off, or that the user has disabled.           *)
LinesArmed ==
    (start.pc # Null /\ Live) =>
        \A a \in OtherLines(start.pc) \cap Breakable :
            bp[a] = "enabled" \/ a = over \/ before[a] = "disabled"

(* A plan that continues is next, which knows where it began and has set   *)
(* its breakpoints, or finish, which does not; all others single step.     *)
LinesInv ==
    /\ plan \in {"none", "stepOut"} => start.pc = Null
    /\ plan \notin {"none", "last"} => cmd = "step"
    /\ (plan # "none" /\ cmd = "step" /\ child = "running") => mode = "step"
    /\ (plan = "go" \/ (plan = "last" /\ cmd = "cont")) => LinesArmed

(* A plan that continues nothing and sets nothing.                         *)
LEMMA LinesStep ==
  ASSUME plan' \notin {"none", "stepOut", "go"}, cmd' = "step",
         child' = "running" => mode' = "step"
  PROVE  LinesInv'
  BY DEF LinesInv

(* One that only moves to another part of itself, or loses its child.      *)
LEMMA LinesMove ==
  ASSUME Controlled, LinesInv, NEW name \in Plans \ {"none", "last"}, Planned(name),
         plan' \notin {"none", "stepOut", "go"}, UNCHANGED cmd,
         child' \in {child, "dead", "detached"}
  PROVE  LinesInv'
  <1>1. child \in {"stopped", "dead"} /\ plan = name
    BY PlannedFacts
  <1>2. cmd' = "step" /\ child' # "running"
    BY <1>1 DEF LinesInv
  <1> QED
    BY <1>2, LinesStep

(* singleStepBreakpointCheck never continues the child.                    *)
LEMMA LinesStepOnce ==
  ASSUME Controlled, NEW name \in Plans \ {"none"}, Planned(name), NEW p \in PCs, StepOnce(p),
         plan' \notin {"none", "stepOut", "go"}
  PROVE  LinesInv'
  <1>1. child \in {"stopped", "dead"}
    BY PlannedFacts
  <1>2. cmd' = "step" /\ (child' = "running" => mode' = "step")
    BY <1>1 DEF StepOnce, StepAtMainReturn, StepInstruction, StepBreakpoint, StepOff,
       SingleStep, ResumeChild, Abort, ReleaseChild
  <1> QED
    BY <1>2, LinesStep

(* What is left of a step command where the memory has no lines.           *)
LEMMA LinesInvalid ==
  ASSUME Controlled, LinesInv, NEW name \in Plans \ {"none", "last"}, Planned(name),
         NEW p \in PCs, InvalidRegion(p)
  PROVE  LinesInv'
  <1>1. plan' = "last"
    BY DEF InvalidRegion, EndsPlan
  <1>2. CASE StepOnce(p)
    BY <1>1, <1>2, LinesStepOnce
  <1>3. CASE UNCHANGED <<traceeVars, cmd>>
    <2>1. child' = child /\ cmd' = cmd
      BY <1>3 DEF traceeVars
    <2> QED
      BY <1>1, <2>1, LinesMove
  <1> QED
    BY <1>2, <1>3 DEF InvalidRegion

(* A read that throws.                                                     *)
LEMMA LinesThrow ==
  ASSUME Controlled, LinesInv, NEW name \in Plans \ {"none", "last"}, Planned(name),
         NEW p, FrameReadThrows(p)
  PROVE  LinesInv'
  <1>1. plan' = "last" /\ cmd' = cmd /\ child' \in {child, "dead", "detached"}
    BY DEF FrameReadThrows, EndsPlan, Abort, ReleaseChild
  <1> QED
    BY <1>1, LinesMove

(* A plan that calls another, or one of its own parts.                     *)
LEMMA LinesCall ==
  ASSUME Controlled, LinesInv, NEW name \in Plans \ {"none", "last"}, Planned(name),
         NEW other \in Plans \ {"none", "stepOut", "go"}, Call(other)
  PROVE  LinesInv'
  <1>1. plan' = other /\ cmd' = cmd /\ child' = child
    BY DEF Call, vars, traceeVars, controlVars
  <1> QED
    BY <1>1, LinesMove

(* finish: it remembers no line.                                           *)
LEMMA StepOutLines ==
  ASSUME Controlled, LinesInv, StepOut
  PROVE  LinesInv'
  <1>1. Planned("stepOut") /\ "stepOut" \in Plans \ {"none", "last"}
    BY DEF StepOut, Plans
  <1>2. plan = "stepOut" /\ child \in {"stopped", "dead"} /\ start.pc = Null /\ cmd = "step"
    BY <1>1, PlannedFacts DEF LinesInv
  <1>3. CASE Call("stepIn")
    BY <1>1, <1>3, LinesCall DEF Plans
  <1>4. ASSUME NEW p \in PCs, FrameReadThrows(p) PROVE LinesInv'
    BY <1>1, <1>4, LinesThrow
  <1>5. ASSUME plan' \in {"go", "last"}, UNCHANGED <<child, controlVars, start>> PROVE LinesInv'
    <2>1. cmd' = "step" /\ child' # "running" /\ start'.pc = Null
      BY <1>2, <1>5 DEF controlVars
    <2> QED
      BY <1>5, <2>1 DEF LinesInv, LinesArmed
  <1> QED
    BY <1>3, <1>4, <1>5 DEF StepOut, StepOutTo, StepOutFails

(* next: setBreakpointAtAddress at each other line.                        *)
LEMMA StepOverArms ==
  ASSUME StatementsReachable, Controlled, PlanTable, Planned("stepOver"),
         NEW p \in PCs, ValidRegion(p), NEW r, SetAll(OtherLines(p) \cup {r}),
         start' = Here(p), UNCHANGED <<child, over, before>>
  PROVE  LinesArmed'
  <1> SUFFICES ASSUME Live', NEW a \in OtherLines(p) \cap Breakable
               PROVE  bp'[a] = "enabled" \/ before'[a] = "disabled"
    BY DEF LinesArmed, Here
  <1>1. PlanShape /\ temps = {} /\ over = Null /\ child \in {"stopped", "dead"}
    BY PlannedTable DEF Plans
  <1>2. child = "stopped" /\ Live
    BY <1>1 DEF Live
  <1>3. a \in Addr /\ Word(a) \subseteq Addr /\ mapped
    BY BreakableAssumption DEF StatementsReachable, OtherLines, ValidRegion
  <1>4. bp[a] \in {"none", "disabled", "enabled"}
    BY <1>3 DEF Controlled, StepTypeOK, TypeOK, TableTypeOK
  <1>5. bp[a] = before[a]
    BY <1>1, <1>2, <1>3, AddrFacts DEF PlanShape, Temps
  <1>6. CASE bp[a] = "none"
    <2>1. Insertable(a, mapped)
      BY <1>2, <1>3, <1>6 DEF Insertable, Pokable
    <2>2. a \in Erased(Temporary(OtherLines(p) \cup {r}))
      BY <2>1, ErasedInserted
    <2> QED
      BY <1>3, <2>2 DEF SetAll
  <1>7. CASE bp[a] = "disabled"
    BY <1>5, <1>7
  <1>8. CASE bp[a] = "enabled"
    BY <1>3, <1>8 DEF SetAll
  <1> QED
    BY <1>4, <1>6, <1>7, <1>8

(* next.                                                                   *)
LEMMA StepOverLines ==
  ASSUME StatementsReachable, Controlled, PlanTable, LinesInv, StepOver
  PROVE  LinesInv'
  <1>1. Planned("stepOver") /\ "stepOver" \in Plans \ {"none", "last"}
    BY DEF StepOver, Plans
  <1>2. plan = "stepOver" /\ child \in {"stopped", "dead"} /\ cmd = "step"
    BY <1>1, PlannedFacts DEF LinesInv
  <1>3. ASSUME NEW p \in PCs, InvalidRegion(p) PROVE LinesInv'
    BY <1>1, <1>3, LinesInvalid
  <1>4. CASE Call("stepIn")
    BY <1>1, <1>4, LinesCall DEF Plans
  <1>5. ASSUME NEW p \in PCs, StepOnce(p), EndsPlan PROVE LinesInv'
    BY <1>1, <1>5, LinesStepOnce DEF EndsPlan
  <1>6. ASSUME NEW p \in PCs, FrameReadThrows(p) PROVE LinesInv'
    BY <1>1, <1>6, LinesThrow
  <1>7. ASSUME NEW p \in PCs, ValidRegion(p), NEW r, SetAll(OtherLines(p) \cup {r}),
               plan' = "go", start' = Here(p), UNCHANGED <<child, controlVars, before>>
        PROVE  LinesInv'
    <2>1. UNCHANGED <<child, over, before, cmd>>
      BY <1>7 DEF controlVars
    <2>2. LinesArmed'
      BY <1>1, <1>7, <2>1, StepOverArms
    <2> QED
      BY <1>2, <1>7, <2>1, <2>2 DEF LinesInv
  <1> QED
    BY <1>3, <1>4, <1>5, <1>6, <1>7 DEF StepOver

(* step_in, its loop and the answer to its question.                       *)
LEMMA StepInLines ==
  ASSUME Controlled, LinesInv, StepIn \/ StepLine \/ (\E yes \in BOOLEAN : AnswerRevert(yes))
  PROVE  LinesInv'
  <1>1. CASE StepIn
    <2>1. Planned("stepIn") /\ "stepIn" \in Plans \ {"none", "last"}
      BY <1>1 DEF StepIn, Plans
    <2>2. ASSUME NEW p \in PCs, InvalidRegion(p) PROVE LinesInv'
      BY <2>1, <2>2, LinesInvalid
    <2>3. CASE Abort /\ EndsPlan /\ UNCHANGED cmd
      <3>1. plan' = "last" /\ child' \in {child, "dead", "detached"}
        BY <2>3 DEF Abort, ReleaseChild, EndsPlan
      <3> QED
        BY <2>1, <2>3, <3>1, LinesMove
    <2>4. CASE plan' = "line" /\ UNCHANGED vars
      <3>1. cmd' = cmd /\ child' = child
        BY <2>4 DEF vars, traceeVars, controlVars
      <3> QED
        BY <2>1, <2>4, <3>1, LinesMove
    <2> QED
      BY <1>1, <2>2, <2>3, <2>4 DEF StepIn
  <1>2. CASE StepLine
    <2>1. Planned("line") /\ plan = "line" /\ "line" \in Plans \ {"none", "last"}
      BY <1>2 DEF StepLine, Planned, Plans
    <2>2. ASSUME NEW p \in PCs, StepOnce(p), UNCHANGED planVars PROVE LinesInv'
      BY <2>1, <2>2, LinesStepOnce DEF planVars
    <2>3. ASSUME NEW name \in {"stepIn", "last", "ask"}, Call(name) PROVE LinesInv'
      BY <2>1, <2>3, LinesCall DEF Plans
    <2> QED
      BY <1>2, <2>2, <2>3 DEF StepLine
  <1>3. ASSUME NEW yes \in BOOLEAN, AnswerRevert(yes) PROVE LinesInv'
    <2>1. /\ Planned("ask") /\ "ask" \in Plans \ {"none", "last"}
          /\ plan' \in {"stepOver", "last"} /\ UNCHANGED <<cmd, child>>
      BY <1>3 DEF AnswerRevert, Plans
    <2> QED
      BY <2>1, LinesMove
  <1> QED
    BY <1>1, <1>2, <1>3

(* continueExecution: the breakpoint it steps off is the only one missing. *)
LEMMA GoLines ==
  ASSUME Controlled, LinesInv, Go
  PROVE  LinesInv'
  <1>1. plan = "go" /\ over = Null /\ LinesArmed
    BY DEF Go, Planned, LinesInv
  <1>2. plan' = "last" /\ cmd' = "cont" /\ UNCHANGED <<start, before>>
    BY DEF Go, ContinueExecution
  <1>3. (Live' => Live) /\ \A a \in Addr : bp'[a] = bp[a] \/ a = over'
    <2>1. bp \in [Addr -> {"none", "disabled", "enabled"}]
      BY DEF Controlled, StepTypeOK, TypeOK, TableTypeOK
    <2>2. ASSUME NEW p, StepOff(p)
          PROVE  (Live' => Live) /\ \A a \in Addr : bp'[a] = bp[a] \/ a = over'
      BY <2>1, <2>2 DEF StepOff, Disable, SingleStep, ResumeChild, Abort, ReleaseChild, Live
    <2>3. CASE ResumeChild("cont") /\ UNCHANGED bp
      BY <2>3 DEF ResumeChild, Live
    <2> QED
      BY <2>2, <2>3 DEF Go, ContinueExecution
  <1>4. LinesArmed'
    <2> SUFFICES ASSUME start.pc # Null, Live', NEW a \in OtherLines(start.pc) \cap Breakable
                 PROVE  bp'[a] = "enabled" \/ a = over' \/ before[a] = "disabled"
      BY <1>2 DEF LinesArmed
    <2>1. a \in Addr /\ a # over
      BY <1>1, BreakableAssumption, AddrFacts
    <2>2. bp[a] = "enabled" \/ before[a] = "disabled"
      BY <1>1, <1>3, <2>1 DEF LinesArmed
    <2> QED
      BY <1>3, <2>1, <2>2
  <1> QED
    BY <1>2, <1>4 DEF LinesInv

(* The waiting half of a session, within a plan.                           *)
LEMMA WaitingLines ==
  ASSUME Controlled, PlanShape, plan # "none", LinesInv, Waiting, UNCHANGED planVars
  PROVE  LinesInv'
  <1>1. UNCHANGED <<plan, start, before, cmd>>
    BY DEF planVars, Waiting, WaitForSignal, WaitThrows, SignalInfoThrows, ReEnable
  <1>2. CASE WaitForSignal \/ WaitThrows \/ SignalInfoThrows
    <2>1. /\ UNCHANGED <<bp, over, mode>> /\ (Live' => Live)
          /\ (child' = "running" => child = "running")
      BY <1>2 DEF WaitForSignal, WaitThrows, SignalInfoThrows, tableVars, Abort,
         ReleaseChild, Live
    <2> QED
      BY <1>1, <2>1 DEF LinesInv, LinesArmed
  <1>3. CASE ReEnable
    <2>1. over \in Addr /\ over # Null /\ Enable(over) /\ over' = Null
      BY <1>3 DEF ReEnable, Controlled, StepTypeOK, TypeOK
    <2>2. child \in {"stopped", "dead"} /\ (Live' => child = "stopped")
      BY <1>3 DEF ReEnable, Controlled, Control, StepTypeOK, TypeOK, TraceeTypeOK, ResumeChild,
         Live
    <2>3. cmd = "step" => child' # "running"
      BY <1>3, <2>2 DEF ReEnable
    <2>4. ASSUME child = "stopped", NEW a \in Addr, bp[a] = "enabled" \/ a = over
          PROVE  bp'[a] = "enabled"
      <3>1. bp[over] = "disabled"
        BY <2>1, <2>4 DEF PlanShape, Live
      <3>2. Pokable(over)
        BY <2>1, <2>4, <3>1 DEF Pokable, PlanShape, Reachable, Present
      <3>3. bp' = [bp EXCEPT ![over] = "enabled"] /\ bp \in [Addr -> {"none", "disabled", "enabled"}]
        BY <2>1, <3>2 DEF Enable, Controlled, StepTypeOK, TypeOK, TableTypeOK
      <3> QED
        BY <2>4, <3>3
    <2>5. LinesArmed => LinesArmed'
      <3> SUFFICES ASSUME LinesArmed, start.pc # Null, Live',
                          NEW a \in OtherLines(start.pc) \cap Breakable
                   PROVE  bp'[a] = "enabled" \/ before[a] = "disabled"
        BY <1>1 DEF LinesArmed
      <3>1. a \in Addr /\ child = "stopped" /\ Live
        BY <2>2, BreakableAssumption DEF Live
      <3>2. bp[a] = "enabled" \/ a = over \/ before[a] = "disabled"
        BY <3>1 DEF LinesArmed
      <3> QED
        BY <2>4, <3>1, <3>2
    <2> QED
      BY <1>1, <2>3, <2>5 DEF LinesInv
  <1> QED
    BY <1>2, <1>3 DEF Waiting

(* The session between plans, and its waiting half within one.             *)
LEMMA SessionLines ==
  ASSUME Controlled, PlanTable, LinesInv, ChildMoves \/ SessionMoves \/ UserMoves \/ Done,
         UNCHANGED planVars
  PROVE  LinesInv'
  <1>1. CASE plan = "none"
    BY <1>1 DEF LinesInv, planVars
  <1>2. CASE plan # "none"
    <2>1. PlanShape /\ UNCHANGED <<plan, start, before>>
      BY <1>2 DEF PlanTable, planVars
    <2>2. ~UserMoves
      <3>1. at # "prompt"
        BY <1>2 DEF Controlled, PlanControl
      <3> QED
        BY <3>1 DEF UserMoves, TableCommand, Break, BreakpointEnable, BreakSelected,
           BreakpointDisable, RipCommand, JumpToInstruction, SkipUnsafeInstruction,
           RegisterWrite, MemoryCommand, ReadMemory, WriteMemory, RunCommand, Continue,
           SingleStepBreakpointCheck, ProgramCounter, QuitCommand, Quit, QuitBare, EndOfInput
    <2>3. CASE ChildMoves
      <3>1. /\ UNCHANGED <<bp, over, cmd, mode>> /\ (Live' => Live)
            /\ (child' = "running" => child = "running")
        BY <2>3 DEF ChildMoves, ChildStep, Trap, Illegal, Fault, Exit, Execute, Interrupted,
           Killed, Stop, tableVars, controlVars, Live
      <3> QED
        BY <2>1, <3>1 DEF LinesInv, LinesArmed
    <2>4. CASE Waiting
      BY <1>2, <2>1, <2>4, WaitingLines
    <2>5. CASE Done
      BY <2>1, <2>5 DEF LinesInv, LinesArmed, Done, vars, tableVars, traceeVars, controlVars, Live
    <2> QED
      BY <1>2, <2>2, <2>3, <2>4, <2>5 DEF SessionMoves
  <1> QED
    BY <1>1, <1>2

(* The child that next lets run stops at every other line of its function, *)
(* where ptrace can reach every statement: until it stops nothing takes    *)
(* away a breakpoint that was set, and none that was stepped off is        *)
(* missing (stepOver, stepOverBreakpoint).                                 *)
THEOREM NextStopsAlways == StatementsReachable => (StepSpec => []NextStopsAtEveryLine)
  <1> SUFFICES ASSUME StatementsReachable PROVE StepSpec => []NextStopsAtEveryLine
    OBVIOUS
  <1>1. StepInit => LinesInv
    BY DEF StepInit, LinesInv, Nowhere
  <1>2. Controlled /\ StepTable /\ LinesInv /\ [StepNext]_allVars => LinesInv'
    <2> SUFFICES ASSUME Controlled, StepTable, LinesInv, [StepNext]_allVars PROVE LinesInv'
      OBVIOUS
    <2>1. PlanTable
      BY DEF StepTable
    <2>2. CASE UNCHANGED allVars
      BY <2>2 DEF LinesInv, LinesArmed, Live, allVars, planVars, vars, tableVars, traceeVars,
         controlVars
    <2>3. CASE (ChildMoves \/ SessionMoves \/ UserMoves \/ Done) /\ UNCHANGED planVars
      BY <2>1, <2>3, SessionLines
    <2>4. CASE StepOut \/ StepOver
      BY <2>1, <2>4, StepOutLines, StepOverLines
    <2>5. CASE StepIn \/ StepLine \/ (\E yes \in BOOLEAN : AnswerRevert(yes))
      BY <2>5, StepInLines
    <2>6. CASE Go
      BY <2>6, GoLines
    <2>7. CASE EndPlan
      BY <2>7 DEF EndPlan, LinesInv, Nowhere
    <2>8. ASSUME NEW how \in {"stepIn", "stepOver", "stepOut"}, StepCommand(how) PROVE LinesInv'
      <3>1. at = "prompt" /\ plan' = how /\ cmd' = "step" /\ UNCHANGED <<child, start>>
        BY <2>8 DEF StepCommand, traceeVars
      <3>2. plan = "none" /\ child # "running"
        BY <3>1 DEF Controlled, Control, PlanControl
      <3> QED
        BY <3>1, <3>2 DEF LinesInv
    <2> QED
      BY <2>2, <2>3, <2>4, <2>5, <2>6, <2>7, <2>8 DEF StepNext, Planning
  <1>3. Controlled /\ StepTable /\ LinesInv => NextStopsAtEveryLine
    <2> SUFFICES ASSUME Controlled, StepTable, LinesInv, plan = "last", child = "running",
                        mode = "cont", start.pc # Null,
                        NEW a \in (OtherLines(start.pc) \cap Breakable) \ clobbered
                 PROVE  mem[a] = Int3 \/ before[a] = "disabled"
      BY DEF NextStopsAtEveryLine
    <2>1. over = Null /\ cmd = "cont"
      BY DEF Controlled, Control, PlanControl, LinesInv
    <2>2. a \in Addr /\ a # over /\ Live
      BY <2>1, BreakableAssumption, AddrFacts DEF Live
    <2>3. bp[a] = "enabled" \/ before[a] = "disabled"
      BY <2>1, <2>2 DEF LinesInv, LinesArmed
    <2>4. Faithful
      BY DEF StepTable, Bytewise
    <2> QED
      BY <2>2, <2>3, <2>4 DEF Faithful
  <1>4. StepSpec => []Controlled
    BY StepTypeCorrect, PTL DEF Controlled
  <1> QED
    BY <1>1, <1>2, <1>3, <1>4, StepTableCorrect, PTL DEF StepSpec
=============================================================================
