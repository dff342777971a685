--------------------------- MODULE ProgramProofs ----------------------------
(***************************************************************************)
(* A session implements Program: every step of the child, the kernel and   *)
(* the debugger is a step of the program, of its user, or none.  What the  *)
(* child executes is the program's own instruction because the memory it   *)
(* runs on is the program's but for int3s (Table), and a pending int3 is   *)
(* the only reason for rip to be one too far (Control).  So does a session *)
(* with step commands: the plans themselves show nothing, but for the      *)
(* registers that are put back after the question of stepIn, which is the  *)
(* user's turn.                                                            *)
(***************************************************************************)
EXTENDS SteppingProofs

(* A step that shows nothing of itself but whose turn it is.               *)
LEMMA Hidden ==
  ASSUME UNCHANGED <<text, clobbered>>, Gone => Gone',
         ~Gone' => Rip' = Rip /\ Frames' = Frames
  PROVE  [Program!Next]_Program!programVars
  <1> USE DEF Program!Next, Program!programVars, Program!PassTurn, Program!End,
              Turn, Rip, Frames
  <1>1. CASE Gone
    BY <1>1
  <1>2. CASE ~Gone /\ Gone'
    BY <1>2
  <1>3. CASE ~Gone /\ ~Gone'
    BY <1>3
  <1> QED
    BY <1>1, <1>2, <1>3

(* ... because it leaves the child's registers alone.                      *)
LEMMA Quiet ==
  ASSUME UNCHANGED <<text, clobbered, pc, stack>>, Gone => Gone',
         event # "brk", event' # "brk"
  PROVE  [Program!Next]_Program!programVars
  BY Hidden DEF Rip, Frames

(* An instruction of the child is that instruction of the program.         *)
LEMMA ExecuteIsProgram ==
  ASSUME TypeOK, Control, Table, Execute, UNCHANGED <<tableVars, controlVars>>
  PROVE  Program!Execute
  <1>1. at = "wait" /\ event = "none" /\ event' # "brk" /\ at' = "wait"
        /\ child' # "dead" /\ child = "running"
    BY DEF Execute, Control, Stop, controlVars
  <1>2. ~Gone /\ ~Gone' /\ Rip = pc /\ Rip' = pc' /\ Frames = stack /\ Frames' = stack'
    BY <1>1 DEF Gone, Rip, Frames
  <1>3. pc \in Addr /\ (text[pc] = Text[pc] \/ pc \in clobbered)
    <2>1. pc \in Addr /\ mem[pc] # Int3 /\ mem[pc] = Text[pc]
      BY DEF Execute, Intact
    <2> QED
      BY <1>1, <2>1 DEF Table, TextIsOverlay, Overlay
  <1>4. Turn = "program" /\ Turn' = "program"
    BY <1>1, <1>2 DEF Turn
  <1>5. Program!Advance \/ Program!Branch \/ Program!Call \/ Program!Return
    BY <1>2 DEF Execute, Program!Advance, Program!Branch, Program!Call, Program!Return
  <1> QED
    BY <1>2, <1>3, <1>4, <1>5 DEF Program!Execute, Program!Runnable, tableVars

(* The steps of the child and of the kernel that execute nothing.          *)
LEMMA StopIsProgram ==
  ASSUME TypeOK, Control, ChildMoves, ~Execute
  PROVE  [Program!Next]_Program!programVars
  <1>1. UNCHANGED <<tableVars, controlVars>> /\ UNCHANGED <<text, clobbered, at>>
    BY DEF ChildMoves, tableVars, controlVars
  <1>2. CASE Trap
    <2>1. event = "none" /\ event' = "brk" /\ pc' = pc + 1 /\ stack' = stack /\ pc \in Nat
      BY <1>2 DEF Trap, Control, Stop, TypeOK, TraceeTypeOK
    <2>2. (Gone => Gone') /\ (~Gone' => Rip' = Rip /\ Frames' = Frames)
      BY <1>1, <1>2, <2>1 DEF Gone, Rip, Frames, Trap, Stop
    <2> QED
      BY <1>1, <2>2, Hidden
  <1>3. CASE Illegal \/ Fault \/ Interrupted \/ Exit
    <2>1. event = "none" /\ event' # "brk" /\ UNCHANGED <<pc, stack>>
      BY <1>3 DEF Illegal, Fault, Interrupted, Exit, Control, Stop
    <2>2. Gone => Gone'
      BY <1>1, <1>3 DEF Gone, Illegal, Fault, Interrupted, Exit, Stop
    <2> QED
      BY <1>1, <2>1, <2>2, Quiet
  <1>4. CASE Killed
    BY <1>1, <1>4, Hidden DEF Killed, Gone
  <1> QED
    BY <1>2, <1>3, <1>4 DEF ChildMoves, ChildStep

(* The steps of the child and of the kernel.                               *)
LEMMA ChildIsProgram ==
  ASSUME TypeOK, Control, Table, ChildMoves
  PROVE  [Program!Next]_Program!programVars
  <1>1. CASE Execute
    BY <1>1, ExecuteIsProgram DEF Program!Next, ChildMoves
  <1> QED
    BY <1>1, StopIsProgram

(* waitForSignal moves rip back when, and only when, an int3 moved it on.  *)
LEMMA WaitingIsProgram ==
  ASSUME TypeOK, Control, Waiting
  PROVE  [Program!Next]_Program!programVars
  <1>1. CASE WaitForSignal
    <2>1. /\ UNCHANGED <<text, clobbered, stack, child>>
          /\ event' = "none" /\ at = "wait" /\ at' = "returned"
          /\ pc' = IF event = "brk" THEN pc - 1 ELSE pc
      BY <1>1 DEF WaitForSignal, tableVars
    <2>2. (Gone => Gone') /\ (~Gone' => Rip' = Rip /\ Frames' = Frames)
      BY <2>1 DEF Gone, Rip, Frames
    <2> QED
      BY <2>1, <2>2, Hidden
  <1>2. CASE WaitThrows \/ SignalInfoThrows
    BY <1>2, Hidden DEF WaitThrows, SignalInfoThrows, Abort, Gone, tableVars
  <1>3. CASE ReEnable
    <2>1. UNCHANGED <<text, clobbered, pc, stack, event>> /\ event # "brk"
      BY <1>3 DEF ReEnable, registers, history, Control
    <2>2. Gone => Gone'
      BY <1>3 DEF ReEnable, Gone, ResumeChild
    <2> QED
      BY <2>1, <2>2, Quiet
  <1> QED
    BY <1>1, <1>2, <1>3 DEF Waiting

(* What the debugger does by itself, and the commands that touch neither   *)
(* the program nor its rip.                                                *)
LEMMA DebuggerIsProgram ==
  ASSUME TypeOK, Control,
         Attaching \/ ShowSource \/ CallContinue \/ Ending \/ RunCommand
             \/ TableCommand \/ QuitCommand
  PROVE  [Program!Next]_Program!programVars
  <1>1. at \notin {"wait", "exited", "aborted"} /\ event # "brk"
    BY DEF Attaching, Initialize, RemoveMainBp, SetMainReturn, ShowSource, CallContinue,
       Ending, EndInconsistent, EndKillAnswered, Cleanup, KillChild, Leave, RunCommand,
       Continue, SingleStepBreakpointCheck, ProgramCounter, TableCommand, Break,
       BreakpointEnable, BreakSelected, BreakpointDisable, QuitCommand, Quit, QuitBare,
       EndOfInput, Control
  <1>2. CASE Attaching \/ ShowSource \/ TableCommand \/ QuitCommand \/ Ending
    <2>1. UNCHANGED <<text, clobbered, pc, stack, event>>
      BY <1>2 DEF Attaching, Initialize, RemoveMainBp, SetMainReturn, ShowSource,
         Ending, EndInconsistent, EndKillAnswered, Cleanup, KillChild, Leave,
         TableCommand, Break, BreakpointEnable, BreakSelected, BreakpointDisable,
         QuitCommand, Quit, QuitBare, EndOfInput, registers, tableVars, traceeVars, quiet
    <2>2. child = "dead" => child' = "dead"
      BY <1>2 DEF Attaching, Initialize, RemoveMainBp, SetMainReturn, ShowSource,
         Ending, EndInconsistent, EndKillAnswered, Cleanup, KillChild, Leave,
         TableCommand, Break, BreakpointEnable, BreakSelected, BreakpointDisable,
         QuitCommand, Quit, QuitBare, EndOfInput, traceeVars, quiet, Abort, ReleaseChild
    <2> QED
      BY <1>1, <2>1, <2>2, Quiet DEF Gone
  <1>3. ASSUME NEW c, ContinueExecution(c) PROVE [Program!Next]_Program!programVars
    <2>1. UNCHANGED <<text, clobbered, pc, stack, event>>
      BY <1>3 DEF ContinueExecution, registers, history
    <2>2. child = "dead" => child' = "dead"
      BY <1>3 DEF ContinueExecution, StepOff, SingleStep, ResumeChild, Abort, ReleaseChild
    <2> QED
      BY <1>1, <2>1, <2>2, Quiet DEF Gone
  <1>4. CASE SingleStepBreakpointCheck \/ ProgramCounter
    <2>1. UNCHANGED <<text, clobbered, pc, stack, event>>
      BY <1>4 DEF SingleStepBreakpointCheck, ProgramCounter, registers, history, tableVars
    <2>2. child = "dead" => child' = "dead"
      BY <1>4 DEF SingleStepBreakpointCheck, ProgramCounter, StepAtMainReturn,
         StepInstruction, StepBreakpoint, StepOff, SingleStep, ResumeChild, Abort,
         ReleaseChild
    <2> QED
      BY <1>1, <2>1, <2>2, Quiet DEF Gone
  <1> QED
    BY <1>2, <1>3, <1>4 DEF RunCommand, Continue, CallContinue

(* jump, skip and register_write are the user's moves.                     *)
LEMMA RipCommandIsProgram ==
  ASSUME TypeOK, Control, RipCommand
  PROVE  [Program!Next]_Program!programVars
  <1>1. ASSUME NEW t, SetRip(t), at = "prompt" PROVE [Program!Next]_Program!programVars
    <2>1. UNCHANGED <<text, clobbered, stack, child, event, at>> /\ event # "brk"
      BY <1>1 DEF SetRip, tableVars, Control
    <2>2. CASE child = "dead"
      BY <1>1, <2>1, <2>2, Hidden DEF Gone
    <2>3. CASE child # "dead"
      <3>1. ~Gone /\ ~Gone' /\ Turn = "user" /\ Turn' = "user"
        BY <1>1, <2>1, <2>3 DEF Gone, Turn
      <3> QED
        BY <2>1, <3>1 DEF Program!Next, Program!Move
    <2> QED
      BY <2>2, <2>3
  <1> QED
    BY <1>1 DEF RipCommand, JumpToInstruction, SkipUnsafeInstruction, RegisterWrite

(* write_memory is the user's edit.                                        *)
LEMMA MemoryCommandIsProgram ==
  ASSUME TypeOK, Control, MemoryCommand
  PROVE  [Program!Next]_Program!programVars
  <1>1. ASSUME NEW a \in PeekAddrs, ReadMemory(a) PROVE [Program!Next]_Program!programVars
    BY <1>1, Hidden DEF ReadMemory, Abort, Gone, tableVars
  <1>2. ASSUME NEW a \in PeekAddrs, NEW w \in Words, WriteMemory(a, w)
        PROVE  [Program!Next]_Program!programVars
    <2>1. /\ at = "prompt" /\ UNCHANGED <<pc, stack, event>>
          /\ event # "brk" /\ clobbered \subseteq clobbered'
          /\ at' \in {"prompt", "aborted"}
      BY <1>2 DEF WriteMemory, registers, Control, Abort
    <2>2. CASE ReadThrows(mem, a)
      BY <1>2, <2>2, Hidden DEF WriteMemory, Abort, Gone
    <2>3. CASE ~ReadThrows(mem, a)
      <3>1. child = "stopped" /\ (at' = "prompt" => child' = child)
        BY <1>2, <2>3 DEF ReadThrows, Pokable, WriteMemory, Abort
      <3>2. Turn = "user" /\ Turn' \in {"user", "over"}
        BY <2>1, <3>1 DEF Turn, Gone
      <3>3. IF Turn' = "over" THEN Rip' = 0 /\ Frames' = <<>> ELSE UNCHANGED <<Rip, Frames>>
        BY <2>1, <3>1 DEF Turn, Gone, Rip, Frames
      <3> QED
        BY <2>1, <3>2, <3>3 DEF Program!Next, Program!Edit
    <2> QED
      BY <2>2, <2>3
  <1> QED
    BY <1>1, <1>2 DEF MemoryCommand

-----------------------------------------------------------------------------
(* Whatever the program, the breakpoints, the commands and the signals,    *)
(* the child executes its own instructions and nothing else, and only a    *)
(* command of the user changes its code or its rip: a session implements   *)
(* Program (Breakpoint, stepOverBreakpoint, handleSIGTRAP).                *)
THEOREM Undisturbed == Spec => ProgramUndisturbed
  <1>1. Init => Program!Init
    BY DEF Init, TraceeInit, TableInit, Program!Init, Turn, Rip, Frames, Gone
  <1>2. TypeOK /\ Control /\ Table /\ [Next]_vars => [Program!Next]_Program!programVars
    <2> SUFFICES ASSUME TypeOK, Control, Table, [Next]_vars
                 PROVE  [Program!Next]_Program!programVars
      OBVIOUS
    <2>1. CASE UNCHANGED vars
      BY <2>1, Hidden DEF vars, traceeVars, tableVars, controlVars, Gone, Rip, Frames
    <2>2. CASE Next
      BY <2>1, <2>2, ChildIsProgram, WaitingIsProgram, DebuggerIsProgram,
         RipCommandIsProgram, MemoryCommandIsProgram
         DEF Next, DebuggerMoves, UserMoves, Done
    <2> QED
      BY <2>1, <2>2
  <1> QED
    BY <1>1, <1>2, TypeCorrect, TableCorrect, PTL DEF Spec, ProgramUndisturbed, Program!Spec

-----------------------------------------------------------------------------
(* A step that shows nothing of itself but whose turn it is.               *)
LEMMA SteppedHidden ==
  ASSUME UNCHANGED <<text, rewritten>>, Gone => Gone',
         ~Gone' => Rip' = Rip /\ Frames' = Frames
  PROVE  [Stepped!Next]_Stepped!programVars
  <1> USE DEF Stepped!Next, Stepped!programVars, Stepped!PassTurn, Stepped!End,
              Turn, Rip, Frames
  <1>1. CASE Gone
    BY <1>1
  <1>2. CASE ~Gone /\ Gone'
    BY <1>2
  <1>3. CASE ~Gone /\ ~Gone'
    BY <1>3
  <1> QED
    BY <1>1, <1>2, <1>3

(* A step of the session outside the question of stepIn: what the program  *)
(* or its user does there is what they do here.                            *)
LEMMA SessionStepped ==
  ASSUME [Program!Next]_Program!programVars, clobbered \subseteq rewritten,
         rewritten' = rewritten \cup clobbered' \cup {a \in Present : text'[a] # text[a]},
         plan # "ask", plan' = plan
  PROVE  [Stepped!Next]_Stepped!programVars
  <1>1. Program!Execute => Stepped!Execute
    BY DEF Program!Execute, Stepped!Execute, Program!Runnable, Stepped!Runnable,
       Program!Advance, Stepped!Advance, Program!Branch, Stepped!Branch,
       Program!Call, Stepped!Call, Program!Return, Stepped!Return
  <1>2. Program!Move => Stepped!Move
    BY DEF Program!Move, Stepped!Move
  <1>3. Program!Edit => Stepped!Edit
    BY DEF Program!Edit, Stepped!Edit
  <1>4. Program!PassTurn => Stepped!PassTurn
    BY DEF Program!PassTurn, Stepped!PassTurn
  <1>5. Program!End => Stepped!End
    BY DEF Program!End, Stepped!End
  <1>6. UNCHANGED Program!programVars => UNCHANGED Stepped!programVars
    BY DEF Program!programVars, Stepped!programVars
  <1> QED
    BY <1>1, <1>2, <1>3, <1>4, <1>5, <1>6 DEF Program!Next, Stepped!Next

(* An instruction of the child is that instruction of the program: the     *)
(* byte it was fetched from is the program's (Faithful).                   *)
LEMMA ExecuteIsStepped ==
  ASSUME Controlled, StepTable, Execute, plan # "ask",
         UNCHANGED <<tableVars, controlVars, planVars>>,
         rewritten' = rewritten \cup clobbered' \cup {a \in Present : text'[a] # text[a]}
  PROVE  Stepped!Execute
  <1>1. /\ at = "wait" /\ event = "none" /\ event' # "brk" /\ at' = "wait"
        /\ child' # "dead" /\ child = "running"
    BY DEF Execute, Controlled, Control, Stop, controlVars
  <1>2. ~Gone /\ ~Gone' /\ Rip = pc /\ Rip' = pc' /\ Frames = stack /\ Frames' = stack'
    BY <1>1 DEF Gone, Rip, Frames
  <1>3. pc \in Addr /\ (text[pc] = Text[pc] \/ pc \in rewritten)
    <2>1. pc \in Addr /\ mem[pc] # Int3 /\ mem[pc] = Text[pc]
      BY DEF Execute, Intact
    <2> QED
      BY <1>1, <2>1 DEF StepTable, Bytewise, Faithful
  <1>4. Turn = "program" /\ Turn' = "program" /\ plan' = plan
    BY <1>1, <1>2 DEF Turn, planVars
  <1>5. Stepped!Advance \/ Stepped!Branch \/ Stepped!Call \/ Stepped!Return
    BY <1>2 DEF Execute, Stepped!Advance, Stepped!Branch, Stepped!Call, Stepped!Return
  <1>6. UNCHANGED <<text, rewritten>>
    BY DEF tableVars, StepTable, Bytewise
  <1> QED
    BY <1>2, <1>3, <1>4, <1>5, <1>6 DEF Stepped!Execute, Stepped!Runnable

(* While stepIn waits for the answer to its question, the child can only   *)
(* be killed.                                                              *)
LEMMA AskingStepped ==
  ASSUME Controlled, StepTable, ChildMoves \/ SessionMoves \/ UserMoves \/ Done, plan = "ask",
         rewritten' = rewritten \cup clobbered' \cup {a \in Present : text'[a] # text[a]}
  PROVE  [Stepped!Next]_Stepped!programVars
  <1>1. at = "returned" /\ over = Null /\ child # "running"
    BY DEF Controlled, PlanControl, Control
  <1>2. ~Waiting /\ ~Done
    BY <1>1 DEF Waiting, WaitForSignal, WaitThrows, SignalInfoThrows, ReEnable, Done
  <1>3. ~UserMoves
    BY <1>1 DEF UserMoves, TableCommand, Break, BreakpointEnable, BreakSelected,
       BreakpointDisable, RipCommand, JumpToInstruction, SkipUnsafeInstruction,
       RegisterWrite, MemoryCommand, ReadMemory, WriteMemory, RunCommand, Continue,
       SingleStepBreakpointCheck, ProgramCounter, QuitCommand, Quit, QuitBare, EndOfInput
  <1>4. Killed /\ UNCHANGED tableVars
    BY <1>1, <1>2, <1>3 DEF SessionMoves, ChildMoves, ChildStep, Trap, Illegal, Fault, Exit,
       Execute, Interrupted
  <1>5. UNCHANGED <<text, rewritten>> /\ Gone'
    BY <1>4 DEF tableVars, StepTable, Bytewise, Killed, Gone
  <1> QED
    BY <1>5, SteppedHidden

(* A step of the session, within a plan or outside.                        *)
LEMMA SessionIsStepped ==
  ASSUME Controlled, StepTable, ChildMoves \/ SessionMoves \/ UserMoves \/ Done,
         UNCHANGED planVars,
         rewritten' = rewritten \cup clobbered' \cup {a \in Present : text'[a] # text[a]}
  PROVE  [Stepped!Next]_Stepped!programVars
  <1>1. TypeOK /\ Control /\ clobbered \subseteq rewritten /\ plan' = plan
    BY DEF Controlled, StepTypeOK, StepTable, Bytewise, planVars
  <1>2. CASE plan = "ask"
    BY <1>2, AskingStepped
  <1>3. CASE plan # "ask" /\ ChildMoves /\ Execute
    BY <1>3, ExecuteIsStepped DEF ChildMoves, Stepped!Next
  <1>4. CASE plan # "ask" /\ ~(ChildMoves /\ Execute)
    <2>1. [Program!Next]_Program!programVars
      <3>1. CASE Done
        BY <3>1, Hidden DEF Done, vars, traceeVars, tableVars, controlVars, Gone, Rip, Frames
      <3> QED
        BY <1>1, <1>4, <3>1, StopIsProgram, WaitingIsProgram, DebuggerIsProgram,
           RipCommandIsProgram, MemoryCommandIsProgram DEF SessionMoves, UserMoves
    <2> QED
      BY <1>1, <1>4, <2>1, SessionStepped
  <1> QED
    BY <1>2, <1>3, <1>4

(* A step of a plan leaves the registers alone, but for the answer to the  *)
(* question of stepIn.                                                     *)
LEMMA PlanIsStepped ==
  ASSUME Controlled, UNCHANGED rewritten,
         Planning \/ \E how \in {"stepIn", "stepOver", "stepOut"} : StepCommand(how)
  PROVE  [Stepped!Next]_Stepped!programVars
  <1>1. event # "brk" /\ at \in {"returned", "prompt"}
    BY DEF Planning, StepOut, StepOver, StepIn, StepLine, Go, EndPlan, AnswerRevert,
       StepCommand, Planned, Controlled, Control
  <1>2. ASSUME UNCHANGED <<text, pc, stack, event>>, child = "dead" => child' = "dead"
        PROVE  [Stepped!Next]_Stepped!programVars
    <2>1. (Gone => Gone') /\ (~Gone' => Rip' = Rip /\ Frames' = Frames)
      BY <1>1, <1>2 DEF Gone, Rip, Frames
    <2> QED
      BY <1>2, <2>1, SteppedHidden
  <1> USE DEF registers, history, traceeVars, tableVars, vars, Abort, ReleaseChild
  <1>3. ASSUME NEW p, StepOnce(p)
        PROVE  UNCHANGED <<text, pc, stack, event>> /\ (child = "dead" => child' = "dead")
    BY <1>3 DEF StepOnce, StepAtMainReturn, StepInstruction, StepBreakpoint, StepOff,
       SingleStep, ResumeChild
  <1>4. ASSUME NEW p, InvalidRegion(p)
        PROVE  UNCHANGED <<text, pc, stack, event>> /\ (child = "dead" => child' = "dead")
    BY <1>3, <1>4 DEF InvalidRegion
  <1>5. ASSUME NEW name, Call(name)
        PROVE  UNCHANGED <<text, pc, stack, event>> /\ (child = "dead" => child' = "dead")
    BY <1>5 DEF Call
  <1>6. ASSUME NEW p, FrameReadThrows(p)
        PROVE  UNCHANGED <<text, pc, stack, event>> /\ (child = "dead" => child' = "dead")
    BY <1>6 DEF FrameReadThrows
  <1>7. CASE StepOut
    BY <1>2, <1>5, <1>6, <1>7 DEF StepOut
  <1>8. CASE StepOver
    BY <1>2, <1>3, <1>4, <1>5, <1>6, <1>8 DEF StepOver
  <1>9. CASE StepIn
    BY <1>2, <1>4, <1>9 DEF StepIn
  <1>10. CASE StepLine
    BY <1>2, <1>3, <1>5, <1>10 DEF StepLine
  <1>11. CASE Go
    BY <1>2, <1>11 DEF Go, ContinueExecution, StepOff, SingleStep, ResumeChild
  <1>12. CASE EndPlan
    BY <1>2, <1>12 DEF EndPlan
  <1>13. ASSUME NEW how \in {"stepIn", "stepOver", "stepOut"}, StepCommand(how)
         PROVE  [Stepped!Next]_Stepped!programVars
    BY <1>2, <1>13 DEF StepCommand
  <1>14. ASSUME NEW yes \in BOOLEAN, AnswerRevert(yes)
         PROVE  [Stepped!Next]_Stepped!programVars
    <2>1. CASE UNCHANGED <<pc, stack>>
      BY <1>2, <1>14, <2>1 DEF AnswerRevert
    <2>2. CASE child = "stopped" /\ plan' = "stepOver"
      <3>1. /\ plan = "ask" /\ at = "returned" /\ at' = "returned" /\ child' = "stopped"
            /\ UNCHANGED text
        BY <1>14, <2>2 DEF AnswerRevert, Planned
      <3>2. ~Gone /\ ~Gone' /\ Turn' = "program"
        BY <2>2, <3>1 DEF Gone, Turn
      <3> QED
        BY <2>2, <3>1, <3>2 DEF Stepped!Next, Stepped!Move
    <2> QED
      BY <1>14, <2>1, <2>2 DEF AnswerRevert
  <1> QED
    BY <1>7, <1>8, <1>9, <1>10, <1>11, <1>12, <1>13, <1>14 DEF Planning

-----------------------------------------------------------------------------
(* Stepping by lines, over calls and out of functions, with all the        *)
(* temporary breakpoints it takes, leaves the debuggee as it is: a session *)
(* with step commands implements Program (stepIn, stepOver, stepOut).      *)
THEOREM SteppingUndisturbed == StepSpec => StepsUndisturbed
  <1>1. StepInit => Stepped!Init
    BY DEF StepInit, Init, TraceeInit, TableInit, Stepped!Init, Turn, Rip, Frames, Gone
  <1>2. Controlled /\ StepTable /\ [StepNext]_allVars => [Stepped!Next]_Stepped!programVars
    <2> SUFFICES ASSUME Controlled, StepTable, [StepNext]_allVars
                 PROVE  [Stepped!Next]_Stepped!programVars
      OBVIOUS
    <2>1. CASE UNCHANGED allVars
      BY <2>1, SteppedHidden DEF allVars, vars, traceeVars, tableVars, controlVars, Gone,
         Rip, Frames
    <2>2. CASE StepNext
      BY <2>2, SessionIsStepped, PlanIsStepped DEF StepNext
    <2> QED
      BY <2>1, <2>2
  <1>3. StepSpec => []Controlled
    BY StepTypeCorrect, PTL DEF Controlled
  <1> QED
    BY <1>1, <1>2, <1>3, StepTableCorrect, PTL DEF StepSpec, StepsUndisturbed, Stepped!Spec
=============================================================================
