--------------------------- MODULE SessionProofs ----------------------------
(***************************************************************************)
(* A session of the debugger, for every program, table of breakpoints and  *)
(* sequence of commands and signals.  First where the debugger is and what *)
(* the child does meanwhile: TypeOK is inductive only together with        *)
(* Control, for after an int3 rip is moved back by one, and only Control   *)
(* says that it can be.  Then the breakpoints: Table is inductive relative *)
(* to TypeOK and Control, and the safety properties of Session follow from *)
(* the three.                                                              *)
(***************************************************************************)
EXTENDS Session, BreakpointTableProofs

(* The child runs only while the debugger waits for it, on the instruction *)
(* it was told to step; its end is known or about to be reported; and the  *)
(* breakpoint being stepped off is forgotten before the prompt returns.    *)
Control ==
    /\ child = "running" => at = "wait" /\ event = "none"
    /\ child = "detached" => at \in {"exited", "aborted"}
    /\ event = "brk" => pc # 0
    /\ event \in EndEvents => child = "dead"
    /\ event \notin {"none", "kill"} => at = "wait"
    /\ isTerminated(state) => child = "dead" /\ event = "none"
    /\ (child = "dead" /\ at # "exited") =>
           isTerminated(state) \/ event \in EndEvents
    /\ over # Null => at \in {"wait", "returned", "aborted"}
    /\ (child = "running" /\ over # Null) => mode = "step" /\ pc = over
    /\ at = "prompt" => isExecuting(state)
    /\ (cmd \in {"attach", "init"} /\ at \in {"wait", "returned", "continue", "initRet"})
           => mainRet = Null
    /\ cmd = "detach" =>
           at \in {"continue", "wait", "returned", "exited", "aborted"}
    /\ at = "continue" => cmd \in {"init", "detach"}
    /\ (cmd = "attach" /\ at \in {"wait", "returned"}) => over = Null

-----------------------------------------------------------------------------
(* Types.                                                                  *)

(* A session starts well typed.                                            *)
LEMMA InitType == Init => TypeOK
  <1> SUFFICES ASSUME Init PROVE TypeOK
    OBVIOUS
  <1> USE TraceeAssumption
  <1>1. TraceeTypeOK
    <2>1. mem \in [Addr -> Byte] /\ pc \in Nat
      BY DEF Init, TraceeInit
    <2>2. stack \in Seq(Nat) /\ signals \in 0 .. MaxSignals
      BY DEF Init, TraceeInit
    <2> QED
      BY <2>1, <2>2 DEF Init, TraceeInit, TraceeTypeOK, StopEvents, EndEvents
  <1>2. TableTypeOK
    BY <1>1 DEF Init, TableInit, TableTypeOK, TraceeTypeOK, Byte
  <1> QED
    BY <1>1, <1>2 DEF Init, TypeOK, Child, Locations, Callers

(* An instruction of the child leaves it well typed.                       *)
LEMMA ExecType ==
  ASSUME TypeOK, Execute
  PROVE  TraceeTypeOK'
  <1> USE TraceeAssumption DEF TypeOK, TraceeTypeOK
  <1>1. pc \in Addr /\ Code[pc].to \in Nat /\ pc + 1 \in Nat
    BY DEF Execute, Intact
  <1>2. pc' \in Nat /\ stack' \in Seq(Nat)
    <2>1. CASE UNCHANGED stack /\ pc' \in {pc + 1, Code[pc].to}
      BY <1>1, <2>1
    <2>2. CASE pc' = Code[pc].to /\ stack' = <<pc + 1>> \o stack
      BY <1>1, <2>2
    <2>3. CASE stack # <<>> /\ pc' = Head(stack) /\ stack' = Tail(stack)
      BY <2>3
    <2> QED
      BY <2>1, <2>2, <2>3 DEF Execute
  <1> QED
    BY <1>2 DEF Execute, Stop, StopEvents

(* stepOverBreakpoint up to its wait.                                      *)
LEMMA StepOffType ==
  ASSUME TypeOK, NEW p \in Addr, StepOff(p)
  PROVE  /\ Bytes' /\ child' \in {"stopped", "running", "dead", "detached"}
         /\ (mode \in {"cont", "step"})' /\ (at \in Locations)' /\ (over \in Addr)'
  BY DisableType DEF StepOff, TypeOK, TraceeTypeOK, TableTypeOK, Bytes, SingleStep,
     ResumeChild, Abort, ReleaseChild, Locations

(* continueExecution, for whichever caller.                                *)
LEMMA ContType ==
  ASSUME TypeOK, NEW c \in Callers, ContinueExecution(c)
  PROVE  TypeOK'
  <1> PICK p \in PCs : \/ IsEnabled(p) /\ StepOff(p)
         \/ /\ ~IsEnabled(p)
            /\ ResumeChild("cont")
            /\ at' = "wait" /\ over' = Null
            /\ UNCHANGED <<mem, bp, data>>
    BY DEF ContinueExecution
  <1>1. cmd' \in Callers /\ UNCHANGED <<registers, history, mainRet, state, mapped, leftover>>
    BY DEF ContinueExecution
  <1>2. CASE IsEnabled(p) /\ StepOff(p)
    BY <1>1, <1>2, StepOffType
       DEF Bytes, TypeOK, TraceeTypeOK, TableTypeOK, registers, history, IsEnabled
  <1>3. CASE ResumeChild("cont") /\ at' = "wait" /\ over' = Null /\ UNCHANGED <<mem, bp, data>>
    BY <1>1, <1>3 DEF TypeOK, TraceeTypeOK, TableTypeOK, registers, history, ResumeChild, Locations
  <1> QED
    BY <1>2, <1>3

(* The steps of the child, and the signals sent to it.                     *)
LEMMA ChildType ==
  ASSUME TypeOK, ChildStep \/ Interrupted \/ Killed,
         UNCHANGED <<tableVars, controlVars>>
  PROVE  TypeOK'
  <1> USE TraceeAssumption DEF TypeOK, TraceeTypeOK, Stop, StopEvents, EndEvents
  <1>1. TableTypeOK' /\ state' \in Child /\ at' \in Locations /\ cmd' \in Callers
        /\ over' \in Addr \cup {Null} /\ mapped' \in BOOLEAN /\ leftover' \in BOOLEAN
    BY DEF TableTypeOK, tableVars, controlVars
  <1>2. CASE Trap
    BY <1>1, <1>2 DEF Trap
  <1>3. CASE Illegal \/ Fault \/ Exit
    BY <1>1, <1>3 DEF Illegal, Fault, Exit
  <1>4. CASE Execute
    BY <1>1, <1>4, ExecType
  <1>5. CASE Interrupted \/ Killed
    BY <1>1, <1>5 DEF Interrupted, Killed
  <1> QED
    BY <1>2, <1>3, <1>4, <1>5 DEF ChildStep

(* waitForSignal and the end of stepOverBreakpoint. That rip is not 0      *)
(* after an int3, so that moving it back is defined, is in Control.        *)
LEMMA WaitingType ==
  ASSUME TypeOK, Control, Waiting
  PROVE  TypeOK'
  <1> USE DEF TypeOK, TraceeTypeOK, TableTypeOK, tableVars, registers, history, Locations
  <1>1. CASE WaitForSignal
    <2>1. pc' \in Nat
      BY <1>1 DEF WaitForSignal, Control
    <2>2. state' \in Child
      BY <1>1 DEF WaitForSignal, StateAfter, AfterTrap, Child
    <2> QED
      BY <1>1, <2>1, <2>2 DEF WaitForSignal
  <1>2. CASE WaitThrows
    BY <1>2 DEF WaitThrows, Abort, ReleaseChild
  <1>4. CASE SignalInfoThrows
    <2>1. signals' \in 0 .. MaxSignals
      BY <1>4, TraceeAssumption DEF SignalInfoThrows
    <2> QED
      BY <1>4, <2>1 DEF SignalInfoThrows, EndEvents
  <1>3. CASE ReEnable
    <2>1. Bytes'
      BY <1>3, EnableType DEF ReEnable, Bytes
    <2> QED
      BY <1>3, <2>1 DEF ReEnable, Bytes, ResumeChild
  <1> QED
    BY <1>1, <1>2, <1>3, <1>4 DEF Waiting

(* initialize.                                                             *)
LEMMA AttachingType ==
  ASSUME TypeOK, Attaching
  PROVE  TypeOK'
  <1> USE SessionAssumption DEF TypeOK, TraceeTypeOK, TableTypeOK, tableVars, registers,
        Locations, Abort, ReleaseChild, LoopTest
  <1>1. CASE Initialize
    <2>1. Bytes' /\ (intent \subseteq Addr)'
      BY <1>1, SetType DEF Initialize, Bytes
    <2> QED
      BY <1>1, <2>1 DEF Initialize, Bytes, Callers
  <1>2. CASE RemoveMainBp
    <2>1. Bytes' /\ (intent \subseteq Addr)'
      BY <1>2, RemoveType DEF RemoveMainBp, Bytes, RemoveBreakpoint
    <2> QED
      BY <1>2, <2>1 DEF RemoveMainBp, Bytes
  <1>3. CASE SetMainReturn
    <2>1. Bytes' /\ (intent \subseteq Addr)'
      BY <1>3, SetType DEF SetMainReturn, Bytes
    <2>2. mainRet' \in Addr \cup {Null}
      BY <1>3, BreakableAssumption DEF SetMainReturn, Insertable
    <2> QED
      BY <1>3, <2>1, <2>2 DEF SetMainReturn, Bytes
  <1> QED
    BY <1>1, <1>2, <1>3 DEF Attaching

(* singleStepBreakpointCheck at p, whoever calls it.                       *)
LEMMA StepCheckType ==
  ASSUME TypeOK, NEW p, StepAtMainReturn(p) \/ StepInstruction(p) \/ StepBreakpoint(p),
         cmd' = "step", UNCHANGED <<registers, history, mainRet, mapped, leftover>>
  PROVE  TypeOK'
  <1> USE DEF TypeOK, TraceeTypeOK, TableTypeOK, registers, history, Locations,
              Abort, ReleaseChild, Callers
  <1>1. CASE StepAtMainReturn(p)
    BY <1>1 DEF StepAtMainReturn, Child
  <1>2. CASE StepInstruction(p)
    BY <1>2 DEF StepInstruction, SingleStep, ResumeChild
  <1>3. CASE StepBreakpoint(p) /\ bp[p] = "enabled"
    BY <1>3, StepOffType DEF StepBreakpoint, Present, Bytes
  <1>4. CASE StepBreakpoint(p) /\ bp[p] # "enabled"
    BY <1>4 DEF StepBreakpoint
  <1> QED
    BY <1>1, <1>2, <1>3, <1>4

(* continue, single_step and what they print.                              *)
LEMMA RunType ==
  ASSUME TypeOK, RunCommand \/ ShowSource
  PROVE  TypeOK'
  <1> USE DEF TypeOK, TraceeTypeOK, TableTypeOK, tableVars, registers, history,
        Locations, Abort, ReleaseChild, LoopTest
  <1>1. CASE Continue
    BY <1>1, ContType DEF Continue, Callers
  <1>2. CASE SingleStepBreakpointCheck
    BY <1>2, StepCheckType DEF SingleStepBreakpointCheck
  <1>3. CASE ProgramCounter
    BY <1>3 DEF ProgramCounter
  <1>4. CASE ShowSource
    BY <1>4 DEF ShowSource, Child
  <1> QED
    BY <1>1, <1>2, <1>3, <1>4 DEF RunCommand

(* The breakpoint commands.                                                *)
LEMMA TableCommandType ==
  ASSUME TypeOK, TableCommand
  PROVE  TypeOK'
  <1> USE DEF TypeOK, TraceeTypeOK, TableTypeOK, quiet, registers
  <1> SUFFICES Bytes' /\ (intent \subseteq Addr)' /\ leftover' \in BOOLEAN
               /\ UNCHANGED <<quiet, text, clobbered>>
    BY DEF Bytes
  <1>1. ASSUME NEW a \in BreakAddrs, Break(a)
        PROVE  Bytes' /\ (intent \subseteq Addr)' /\ leftover' \in BOOLEAN
               /\ UNCHANGED <<quiet, text, clobbered>>
    BY <1>1, SetType DEF Break, Bytes
  <1>2. ASSUME NEW choice \in BreakAddrs \cup {Null}, BreakSelected(choice)
        PROVE  Bytes' /\ (intent \subseteq Addr)' /\ leftover' \in BOOLEAN
               /\ UNCHANGED <<quiet, text, clobbered>>
    BY <1>2, SetType DEF BreakSelected, Bytes
  <1>3. ASSUME NEW a \in BreakAddrs, BreakpointEnable(a)
        PROVE  Bytes' /\ (intent \subseteq Addr)' /\ leftover' \in BOOLEAN
               /\ UNCHANGED <<quiet, text, clobbered>>
    BY <1>3, EnableType DEF BreakpointEnable, Present, Bytes
  <1>4. ASSUME NEW a \in BreakAddrs, NEW yes \in BOOLEAN, BreakpointDisable(a, yes)
        PROVE  Bytes' /\ (intent \subseteq Addr)' /\ leftover' \in BOOLEAN
               /\ UNCHANGED <<quiet, text, clobbered>>
    BY <1>4, DisableType DEF BreakpointDisable, Present, Bytes
  <1> QED
    BY <1>1, <1>2, <1>3, <1>4 DEF TableCommand

(* jump, skip and register_write.                                          *)
LEMMA RipCommandType ==
  ASSUME TypeOK, RipCommand
  PROVE  TypeOK'
  <1>1. ASSUME NEW t \in Nat, SetRip(t), leftover' \in BOOLEAN
        PROVE  TypeOK'
    BY <1>1 DEF SetRip, TypeOK, TraceeTypeOK, TableTypeOK, tableVars
  <1> USE SessionAssumption DEF TypeOK, TraceeTypeOK
  <1>2. ASSUME NEW t \in RipValues, NEW yes \in BOOLEAN, JumpToInstruction(t, yes)
        PROVE  TypeOK'
    <2>1. (IF Prompted(yes) THEN t ELSE pc) \in Nat
      OBVIOUS
    <2> QED
      BY <1>1, <1>2, <2>1 DEF JumpToInstruction
  <1>3. ASSUME NEW yes \in BOOLEAN, SkipUnsafeInstruction(1, yes)
        PROVE  TypeOK'
    <2>1. (IF Prompted(yes) THEN pc + 1 ELSE pc) \in Nat
      OBVIOUS
    <2> QED
      BY <1>1, <1>3, <2>1 DEF SkipUnsafeInstruction
  <1>4. ASSUME NEW t \in RipValues, RegisterWrite(t)
        PROVE  TypeOK'
    BY <1>1, <1>4 DEF RegisterWrite
  <1> QED
    BY <1>2, <1>3, <1>4 DEF RipCommand

(* read_memory and write_memory.                                           *)
LEMMA MemoryCommandType ==
  ASSUME TypeOK, MemoryCommand
  PROVE  TypeOK'
  <1> USE DEF TypeOK, TraceeTypeOK, TableTypeOK, tableVars, registers, Abort,
              ReleaseChild, Locations
  <1>1. ASSUME NEW a \in PeekAddrs, ReadMemory(a)
        PROVE  TypeOK'
    BY <1>1 DEF ReadMemory
  <1>2. ASSUME NEW a \in PeekAddrs, NEW w \in Words, WriteMemory(a, w)
        PROVE  TypeOK'
    <2>1. \A f \in [Addr -> Byte] : Written(f, a, w) \in [Addr -> Byte]
      BY SessionAssumption, TraceeAssumption DEF Written, Word
    <2>2. mem' \in [Addr -> Byte] /\ text' \in [Addr -> Byte] /\ clobbered' \subseteq Addr
      BY <1>2, <2>1 DEF WriteMemory, Enabled
    <2>3. at' \in Locations
          /\ child' \in {"stopped", "running", "dead", "detached"}
      BY <1>2 DEF WriteMemory
    <2> QED
      BY <1>2, <2>2, <2>3 DEF WriteMemory
  <1> QED
    BY <1>1, <1>2 DEF MemoryCommand

(* quit and handleChildState.                                              *)
LEMMA EndingType ==
  ASSUME TypeOK, QuitCommand \/ Ending
  PROVE  TypeOK'
  <1> USE DEF TypeOK, TraceeTypeOK, TableTypeOK, traceeVars, tableVars, registers,
              Abort, ReleaseChild, Locations, Child
  <1>1. CASE QuitCommand
    BY <1>1 DEF QuitCommand, Quit, QuitBare, EndOfInput
  <1>2. CASE EndInconsistent \/ EndKillAnswered
    BY <1>2 DEF EndInconsistent, EndKillAnswered
  <1>3. CASE Cleanup
    BY <1>3, DisableAllType DEF Cleanup, Bytes, Callers
  <1>4. CASE KillChild \/ Leave
    BY <1>4 DEF KillChild, Leave
  <1> QED
    BY <1>1, <1>2, <1>3, <1>4 DEF Ending

(* Every step keeps the types.                                             *)
LEMMA NextType ==
  ASSUME TypeOK, Control, [Next]_vars
  PROVE  TypeOK'
  <1>1. CASE UNCHANGED vars
    BY <1>1 DEF vars, traceeVars, tableVars, controlVars, TypeOK, TraceeTypeOK, TableTypeOK
  <1>2. CASE CallContinue
    BY <1>2, ContType DEF CallContinue, TypeOK
  <1> QED
    BY <1>1, <1>2, ChildType, WaitingType, AttachingType, RunType, TableCommandType,
       RipCommandType, MemoryCommandType, EndingType
       DEF Next, ChildMoves, DebuggerMoves, UserMoves, Done

-----------------------------------------------------------------------------
(* Control.                                                                *)

(* Control holds of a freshly attached child.                              *)
LEMMA InitControl == Init => Control
  BY TraceeAssumption DEF Init, Control, TraceeInit, TableInit, isTerminated,
     isExecuting, EndEvents, Null

(* Steps of the child: its end is pending until waitpid reports it.        *)
LEMMA ChildControl ==
  ASSUME TypeOK, Control, ChildStep \/ Interrupted \/ Killed,
         UNCHANGED <<tableVars, controlVars>>
  PROVE  Control'
  <1> USE AddrFacts DEF Control, tableVars, controlVars, Stop, EndEvents,
                        isTerminated, isExecuting
  <1>1. CASE Trap
    BY <1>1 DEF Trap
  <1>2. CASE Illegal \/ Fault \/ Exit
    BY <1>2 DEF Illegal, Fault, Exit
  <1>3. CASE Execute
    BY <1>3 DEF Execute
  <1>4. CASE Interrupted
    BY <1>4 DEF Interrupted
  <1>5. CASE Killed
    BY <1>5 DEF Killed
  <1> QED
    BY <1>1, <1>2, <1>3, <1>4, <1>5 DEF ChildStep

(* continueExecution called from a place where nothing is being stepped    *)
(* off.                                                                    *)
LEMMA ContControl ==
  ASSUME TypeOK, Control, NEW c \in Callers, ContinueExecution(c),
         at \in {"prompt", "continue", "returned"}, over = Null,
         c \in {"attach", "init"} => mainRet = Null, c # "attach"
  PROVE  Control'
  BY AddrFacts DEF TypeOK, TraceeTypeOK, Control, ContinueExecution, StepOff,
     SingleStep, ResumeChild,
     Abort, ReleaseChild, PCs, IsEnabled, registers, history, EndEvents,
     isTerminated, isExecuting, Null

(* waitForSignal reports the end of the child in state_, and a finished    *)
(* step over forgets its breakpoint.                                       *)
LEMMA WaitingControl ==
  ASSUME TypeOK, Control, Waiting
  PROVE  Control'
  <1> USE DEF Control, EndEvents, isTerminated, isExecuting, tableVars,
              registers, history, Abort, ReleaseChild
  <1>1. CASE WaitForSignal
    BY <1>1 DEF WaitForSignal, StateAfter, AfterTrap
  <1>2. CASE WaitThrows \/ SignalInfoThrows
    BY <1>2 DEF WaitThrows, SignalInfoThrows, StopEvents
  <1>3. CASE ReEnable
    BY <1>3 DEF ReEnable, ResumeChild, TypeOK, TraceeTypeOK
  <1> QED
    BY <1>1, <1>2, <1>3 DEF Waiting

(* initialize: before it is done there is no main return address.          *)
LEMMA AttachingControl ==
  ASSUME TypeOK, Control, Attaching
  PROVE  Control'
  <1> USE DEF Control, EndEvents, isTerminated, isExecuting, tableVars,
              registers, Abort, ReleaseChild, LoopTest
  <1>1. CASE Initialize
    BY <1>1 DEF Initialize
  <1>2. CASE RemoveMainBp
    BY <1>2 DEF RemoveMainBp
  <1>3. CASE SetMainReturn
    BY <1>3 DEF SetMainReturn
  <1> QED
    BY <1>1, <1>2, <1>3 DEF Attaching

(* singleStepBreakpointCheck at p, called where nothing is being stepped   *)
(* off.                                                                    *)
LEMMA StepCheckControl ==
  ASSUME TypeOK, Control, NEW p \in PCs,
         StepAtMainReturn(p) \/ StepInstruction(p) \/ StepBreakpoint(p),
         at \in {"prompt", "returned"}, over = Null,
         cmd' = "step", UNCHANGED <<registers, history, mainRet, mapped, leftover>>
  PROVE  Control'
  <1> USE DEF Control, EndEvents, isTerminated, isExecuting, registers, history,
              Abort, ReleaseChild
  <1>1. CASE StepAtMainReturn(p)
    BY <1>1 DEF StepAtMainReturn
  <1>2. CASE StepInstruction(p)
    BY <1>2 DEF StepInstruction, SingleStep, ResumeChild, TypeOK, TraceeTypeOK
  <1>3. CASE StepBreakpoint(p)
    BY <1>3 DEF StepBreakpoint, StepOff, SingleStep, ResumeChild, PCs, TypeOK, TraceeTypeOK
  <1> QED
    BY <1>1, <1>2, <1>3

(* continue, single_step and what they print.                              *)
LEMMA RunControl ==
  ASSUME TypeOK, Control, RunCommand \/ ShowSource
  PROVE  Control'
  <1> USE DEF Control, EndEvents, isTerminated, isExecuting, tableVars,
              registers, history, Abort, ReleaseChild, LoopTest
  <1>1. CASE Continue
    BY <1>1, ContControl DEF Continue, Callers
  <1>2. CASE SingleStepBreakpointCheck
    BY <1>2, StepCheckControl DEF SingleStepBreakpointCheck
  <1>3. CASE ProgramCounter
    BY <1>3 DEF ProgramCounter
  <1>4. CASE ShowSource
    BY <1>4 DEF ShowSource
  <1> QED
    BY <1>1, <1>2, <1>3, <1>4 DEF RunCommand

(* The commands that do not run the child.                                 *)
LEMMA CommandControl ==
  ASSUME TypeOK, Control, TableCommand \/ RipCommand \/ MemoryCommand
  PROVE  Control'
  <1> USE DEF Control, EndEvents, isTerminated, isExecuting, tableVars, quiet,
              registers, Abort, ReleaseChild
  <1>1. CASE TableCommand
    BY <1>1 DEF TableCommand, Break, BreakSelected, BreakpointEnable, BreakpointDisable
  <1>2. CASE RipCommand
    BY <1>2 DEF RipCommand, JumpToInstruction, SkipUnsafeInstruction, RegisterWrite,
       SetRip, TypeOK, TraceeTypeOK
  <1>3. CASE MemoryCommand
    BY <1>3 DEF MemoryCommand, ReadMemory, WriteMemory
  <1> QED
    BY <1>1, <1>2, <1>3

(* quit and handleChildState: once the child is released for good the      *)
(* debugger has left.                                                      *)
LEMMA EndingControl ==
  ASSUME TypeOK, Control, QuitCommand \/ Ending
  PROVE  Control'
  <1> USE DEF Control, EndEvents, isTerminated, isExecuting, traceeVars, tableVars,
              registers, Abort, ReleaseChild
  <1>1. CASE QuitCommand
    BY <1>1 DEF QuitCommand, Quit, QuitBare, EndOfInput
  <1>2. CASE EndInconsistent \/ EndKillAnswered
    BY <1>2 DEF EndInconsistent, EndKillAnswered
  <1>3. CASE Cleanup
    BY <1>3 DEF Cleanup
  <1>4. CASE KillChild
    BY <1>4 DEF KillChild
  <1>5. CASE Leave
    BY <1>5 DEF Leave
  <1> QED
    BY <1>1, <1>2, <1>3, <1>4, <1>5 DEF Ending

(* Every step keeps Control.                                               *)
LEMMA NextControl ==
  ASSUME TypeOK, Control, [Next]_vars
  PROVE  Control'
  <1>1. CASE UNCHANGED vars
    BY <1>1 DEF vars, traceeVars, tableVars, controlVars, Control, isTerminated,
       isExecuting, EndEvents
  <1>2. CASE CallContinue
    BY <1>2, ContControl DEF CallContinue, TypeOK, Control, Callers
  <1> QED
    BY <1>1, <1>2, ChildControl, WaitingControl, AttachingControl, RunControl,
       CommandControl, EndingControl
       DEF Next, ChildMoves, DebuggerMoves, UserMoves, Done

-----------------------------------------------------------------------------

(* A session is well typed and in Control of its child for ever: TypeOK    *)
(* alone is not inductive, since rip is moved back after an int3.          *)
THEOREM TypeCorrect == Spec => [](TypeOK /\ Control)
  <1>1. Init => TypeOK /\ Control
    BY InitType, InitControl
  <1>2. TypeOK /\ Control /\ [Next]_vars => (TypeOK /\ Control)'
    BY NextType, NextControl
  <1> QED
    BY <1>1, <1>2, PTL DEF Spec

(* Once the end of the child was reported the prompt does not come back    *)
(* (the loop of Debugger::run).                                            *)
THEOREM PromptSafe == Spec => []NoPromptAfterEnd
  <1>1. TypeOK /\ Control => NoPromptAfterEnd
    BY DEF TypeOK, Control, NoPromptAfterEnd, isTerminated, isExecuting, EndEvents
  <1> QED
    BY <1>1, TypeCorrect, PTL

-----------------------------------------------------------------------------
(* Every entry of the table lies on a word ptrace can reach, the entry     *)
(* being stepped off is disabled and wanted, and nothing is wanted or      *)
(* armed once cleanup has run.                                             *)
Shape ==
    /\ Reachable
    /\ MainRetLive
    /\ ArmedAsAsked
    /\ (Live /\ over # Null) => over \in intent /\ bp[over] = "disabled"
    /\ cmd = "detach" => intent = {}
    /\ (at = "exited" /\ child = "detached") => Enabled = {}

Table == Shape /\ TextIsOverlay

(* What each step keeps: Shape, and with it the overlay.                   *)
Kept == Shape' /\ (TextIsOverlay => TextIsOverlay')

-----------------------------------------------------------------------------
(* The empty table satisfies everything.                                   *)
LEMMA InitTable == Init => Table
  <1> SUFFICES ASSUME Init PROVE Table
    OBVIOUS
  <1>1. Present = {} /\ Enabled = {}
    BY DEF Init, TableInit, Present, Enabled
  <1> QED
    BY <1>1 DEF Init, TraceeInit, TableInit, Table, Shape, Reachable, TextIsOverlay, Overlay,
       MainRetLive, ArmedAsAsked, Live, Null

(* The child touches neither its code nor the table, and is not detached   *)
(* by what it does.                                                        *)
LEMMA ChildTable ==
  ASSUME TypeOK, Control, Shape, ChildStep \/ Interrupted \/ Killed,
         UNCHANGED <<tableVars, controlVars>>
  PROVE  Kept
  <1>1. child \in {"running", "stopped"} /\ child' # "detached"
        /\ UNCHANGED <<mem, bp, data, text, clobbered, intent, mainRet, cmd, over, at>>
    BY DEF ChildStep, Trap, Illegal, Fault, Exit, Execute, Interrupted, Killed, Stop,
           tableVars, controlVars
  <1> QED
    BY <1>1 DEF Kept, Shape, Reachable, Present, Enabled, Word, TextIsOverlay, Overlay,
       MainRetLive, ArmedAsAsked, Live

(* stepOverBreakpoint up to its wait: one breakpoint is out, and is the    *)
(* one remembered in over. A child that is gone needs nothing.             *)
LEMMA StepOffTable ==
  ASSUME TypeOK, Control, Shape, NEW p \in Addr, bp[p] = "enabled", StepOff(p),
         at \in {"prompt", "continue"}, cmd' = "detach" => cmd = "detach",
         UNCHANGED <<text, clobbered, intent, mainRet>>
  PROVE  Kept
  <1>1. Bytes /\ p # Null
    BY AddrFacts DEF TypeOK, TraceeTypeOK, TableTypeOK, Bytes
  <1>2. Disable(p) /\ over' = p /\ over = Null
    BY DEF StepOff, Control
  <1>3. Present' = Present
    BY <1>1, <1>2, DisableTable
  <1>4. CASE child = "stopped"
    <2>1. Pokable(p) /\ child' = "running" /\ at' = "wait"
      BY <1>4 DEF Pokable, Shape, Reachable, Present, StepOff, SingleStep, ResumeChild
    <2>2. Enabled' = Enabled \ {p} /\ bp'[p] = "disabled" /\ (Overlay => Overlay')
      BY <1>1, <1>2, <2>1, DisableTable
    <2>3. Enabled = intent
      BY <1>4, <1>2, AddrFacts DEF Shape, ArmedAsAsked, Live, TypeOK, TableTypeOK
    <2>4. Enabled' = intent' \ {over'} /\ p \in intent
      BY <1>2, <2>2, <2>3 DEF Enabled
    <2> QED
      BY <1>2, <1>3, <1>4, <2>1, <2>2, <2>4 DEF Kept, Shape, Reachable, Word, TextIsOverlay,
         MainRetLive, ArmedAsAsked, Live, Present, TypeOK, TableTypeOK
  <1>5. CASE child # "stopped"
    <2>1. child' = "dead"
      BY <1>5 DEF StepOff, SingleStep, Abort, ReleaseChild, Control, TypeOK, TraceeTypeOK
    <2> QED
      BY <1>2, <1>3, <2>1 DEF Kept, Shape, Reachable, Word, TextIsOverlay, MainRetLive,
         ArmedAsAsked, Live, Present, TypeOK, TableTypeOK
  <1> QED
    BY <1>4, <1>5

(* A step that leaves the table, the memory and the breakpoint being       *)
(* stepped off as they are keeps Shape, if the child does not come back    *)
(* to life and no int3 is left in a child let go.                          *)
LEMMA QuietTable ==
  ASSUME Shape, over' = over, UNCHANGED <<mem, bp, data, text, clobbered, intent, mainRet>>,
         cmd' = "detach" => cmd = "detach",
         \/ child' \in {child, "dead"}
         \/ child # "dead" /\ child' = "detached"
         \/ child = "stopped" /\ child' = "running",
         (at' = "exited" /\ child' = "detached") => Enabled = {}
  PROVE  Kept
  BY DEF Kept, Shape, Reachable, Present, Enabled, Word, TextIsOverlay, Overlay,
       MainRetLive, ArmedAsAsked, Live

(* continueExecution, which steps off a breakpoint or does not.            *)
LEMMA ContTable ==
  ASSUME TypeOK, Control, Shape, NEW c \in Callers, ContinueExecution(c),
         at \in {"prompt", "continue"}, c = "detach" => cmd = "detach"
  PROVE  Kept
  <1> PICK p \in PCs : \/ IsEnabled(p) /\ StepOff(p)
         \/ /\ ~IsEnabled(p)
            /\ ResumeChild("cont")
            /\ at' = "wait" /\ over' = Null
            /\ UNCHANGED <<mem, bp, data>>
    BY DEF ContinueExecution
  <1>1. cmd' = c /\ UNCHANGED <<registers, history, mainRet, state, mapped, leftover>>
    BY DEF ContinueExecution
  <1>2. CASE IsEnabled(p) /\ StepOff(p)
    BY <1>1, <1>2, StepOffTable DEF IsEnabled, history
  <1>3. CASE ResumeChild("cont") /\ at' = "wait" /\ over' = Null /\ UNCHANGED <<mem, bp, data>>
    <2>1. over' = over
      BY <1>3 DEF Control
    <2> QED
      BY <1>1, <1>3, <2>1, QuietTable DEF history, ResumeChild
  <1> QED
    BY <1>2, <1>3

(* The breakpoint stepped off goes back in, whatever the step ended in; a  *)
(* child that died meanwhile needs nothing.                                *)
LEMMA WaitingTable ==
  ASSUME TypeOK, Control, Shape, Waiting
  PROVE  Kept
  <1>1. CASE WaitForSignal
    BY <1>1, QuietTable DEF WaitForSignal, tableVars
  <1>2. CASE WaitThrows \/ SignalInfoThrows
    BY <1>2, QuietTable DEF WaitThrows, SignalInfoThrows, tableVars, Abort, ReleaseChild
  <1>3. CASE ReEnable
    <2>1. /\ over \in Addr /\ Enable(over) /\ over' = Null /\ at = "returned"
          /\ UNCHANGED <<text, clobbered, intent, mainRet, cmd>>
      BY <1>3 DEF ReEnable, TypeOK, history
    <2>2. /\ child' # "detached" /\ (child' # "dead" => child = "stopped")
          /\ at' \in {"returned", "wait"}
      BY <1>3 DEF ReEnable, Control, TypeOK, TraceeTypeOK, ResumeChild
    <2>3. Bytes
      BY DEF TypeOK, TraceeTypeOK, TableTypeOK, Bytes
    <2>4. CASE child = "stopped"
      <3>1. over \in intent /\ bp[over] = "disabled" /\ Enabled = intent \ {over}
        BY <2>1, <2>4, AddrFacts DEF Shape, Live, ArmedAsAsked
      <3>2. Pokable(over) /\ over \in Present
        BY <2>1, <2>4, <3>1 DEF Pokable, Shape, Reachable, Present
      <3>3. Present' = Present /\ Enabled' = intent /\ (Overlay => Overlay')
        BY <2>1, <2>3, <3>1, <3>2, EnableTable
      <3>4. Enabled' = intent' \ {over'}
        BY <2>1, <3>1, <3>3, AddrFacts DEF TypeOK, TableTypeOK
      <3> QED
        BY <2>1, <2>2, <2>4, <3>3, <3>4 DEF Kept, Shape, Reachable, Word, TextIsOverlay,
           MainRetLive, ArmedAsAsked, Present, TypeOK, TableTypeOK
    <2>5. CASE child # "stopped"
      <3>1. child' = "dead" /\ bp' = bp
        BY <2>1, <2>2, <2>5, <1>3 DEF Enable, Pokable, Control, TypeOK, TraceeTypeOK,
           ReEnable, ResumeChild
      <3> QED
        BY <2>1, <2>2, <3>1 DEF Kept, Shape, Reachable, Word, TextIsOverlay,
           MainRetLive, ArmedAsAsked, Present, Live
    <2> QED
      BY <2>4, <2>5
  <1> QED
    BY <1>1, <1>2, <1>3 DEF Waiting

(* setBreakpointAtAddress at the prompt or in initialize, with main's      *)
(* return address left alone, dropped or set to what was inserted.         *)
LEMMA SetStepTable ==
  ASSUME TypeOK, Control, Shape, NEW a, NEW m, SetBreakpointAtAddress(a, m),
         at \in {"prompt", "returned", "initRet"}, over = Null, over' = Null,
         cmd # "detach", cmd' # "detach", at' # "exited",
         UNCHANGED <<child, text, clobbered>>,
         mainRet' = mainRet \/ mainRet' = Null \/ (Insertable(a, m) /\ mainRet' = a)
  PROVE  Kept
  <1>1. Bytes /\ Null \notin Enabled /\ Null \notin intent
    BY AddrFacts DEF TypeOK, TraceeTypeOK, TableTypeOK, Bytes, Enabled
  <1>2. /\ Reachable' /\ Present \subseteq Present'
        /\ Insertable(a, m) => a \in Present'
        /\ Enabled = intent => Enabled' = intent'
        /\ Overlay => Overlay'
    BY <1>1, SetTable DEF Shape
  <1>3. MainRetLive'
    BY <1>2 DEF Shape, MainRetLive, Present, TypeOK, TableTypeOK
  <1>4. Null \notin intent'
    BY <1>1, BreakableAssumption, AddrFacts DEF SetBreakpointAtAddress, Insertable
  <1>5. ArmedAsAsked'
    BY <1>1, <1>2, <1>4 DEF Shape, ArmedAsAsked, Live
  <1> QED
    BY <1>2, <1>3, <1>5 DEF Kept, Shape, TextIsOverlay

(* initialize: the breakpoint in main is erased while main's return        *)
(* address is not set, so that the erase cannot leave it dangling.         *)
LEMMA AttachingTable ==
  ASSUME TypeOK, Control, Shape, Attaching
  PROVE  Kept
  <1>1. CASE Initialize
    <2>1. /\ at = "returned" /\ over = Null /\ over' = Null /\ cmd # "detach"
          /\ cmd' # "detach" /\ at' # "exited"
          /\ UNCHANGED <<text, clobbered, mainRet>>
      BY <1>1 DEF Initialize, LoopTest, Abort
    <2>2. CASE /\ UNCHANGED <<mem, bp, data, intent>>
               /\ child' \in {child, IF child = "dead" THEN "dead" ELSE "detached"}
      BY <2>1, <2>2, QuietTable
    <2>3. CASE UNCHANGED child /\ \E dyn \in BOOLEAN : SetBreakpointAtAddress(MainBp, dyn)
      BY <2>1, <2>3, SetStepTable
    <2> QED
      BY <1>1, <2>2, <2>3 DEF Initialize, Abort, ReleaseChild
  <1>2. CASE RemoveMainBp
    <2>1. /\ at = "returned" /\ over = Null /\ over' = Null /\ at' = "initRet"
          /\ mainRet = Null /\ mainRet' = Null /\ cmd = "init" /\ cmd' = "init"
          /\ RemoveBreakpoint(MainBp) /\ UNCHANGED <<child, text, clobbered>>
      BY <1>2 DEF RemoveMainBp, Control
    <2>2. Bytes /\ MainBp \in Addr
      BY SessionAssumption DEF TypeOK, TraceeTypeOK, TableTypeOK, Bytes
    <2>3. /\ Present' = Present \ {MainBp} /\ Enabled' = Enabled \ {MainBp}
          /\ (Pokable(MainBp) \/ ~IsEnabled(MainBp)) /\ Overlay => Overlay'
      BY <2>1, <2>2, RemoveTable
    <2>4. child = "stopped" \/ child = "dead"
      BY <2>1 DEF Control, TypeOK, TraceeTypeOK
    <2>5. child = "stopped" => Pokable(MainBp) \/ ~IsEnabled(MainBp)
      BY DEF Pokable, IsEnabled, Shape, Reachable, Present
    <2>6. intent' = intent \ {MainBp}
      BY <2>1 DEF RemoveBreakpoint
    <2> QED
      BY <2>1, <2>3, <2>4, <2>5, <2>6 DEF Kept, Shape, Reachable, Word, TextIsOverlay,
         MainRetLive, ArmedAsAsked, Live
  <1>3. CASE SetMainReturn
    <2>1. /\ at = "initRet" /\ over = Null /\ over' = Null /\ cmd # "detach"
          /\ cmd' # "detach" /\ at' # "exited"
          /\ UNCHANGED <<text, clobbered>>
      BY <1>3 DEF SetMainReturn, LoopTest, Abort, Control
    <2>2. CASE UNCHANGED <<mem, bp, data, intent, mainRet>>
               /\ child' = (IF child = "dead" THEN "dead" ELSE "detached")
      BY <2>1, <2>2, QuietTable
    <2>3. CASE UNCHANGED child /\ \E r : SetBreakpointAtAddress(r, mapped)
                  /\ mainRet' = IF Insertable(r, mapped) THEN r ELSE Null
      BY <2>1, <2>3, SetStepTable
    <2> QED
      BY <1>3, <2>2, <2>3 DEF SetMainReturn, Abort, ReleaseChild
  <1> QED
    BY <1>1, <1>2, <1>3 DEF Attaching

(* continue, single_step and what they print.                              *)
LEMMA RunTable ==
  ASSUME TypeOK, Control, Shape, RunCommand \/ ShowSource
  PROVE  Kept
  <1>1. CASE Continue
    BY <1>1, ContTable DEF Continue, Callers
  <1>2. CASE SingleStepBreakpointCheck
    <2>1. PICK p \in PCs : StepAtMainReturn(p) \/ StepInstruction(p) \/ StepBreakpoint(p)
      BY <1>2 DEF SingleStepBreakpointCheck
    <2>2. /\ at = "prompt" /\ cmd' = "step" /\ over = Null
          /\ UNCHANGED <<text, clobbered, intent, mainRet>>
      BY <1>2 DEF SingleStepBreakpointCheck, history, Control
    <2>3. CASE StepAtMainReturn(p)
      BY <2>2, <2>3, QuietTable DEF StepAtMainReturn
    <2>4. CASE StepInstruction(p)
      BY <2>2, <2>4, QuietTable DEF StepInstruction, SingleStep, ResumeChild, Abort, ReleaseChild
    <2>5. CASE StepBreakpoint(p) /\ bp[p] = "enabled"
      BY <2>2, <2>5, StepOffTable DEF StepBreakpoint, Present
    <2>6. CASE StepBreakpoint(p) /\ bp[p] # "enabled"
      BY <2>2, <2>6, QuietTable DEF StepBreakpoint
    <2> QED
      BY <2>1, <2>3, <2>4, <2>5, <2>6
  <1>3. CASE ProgramCounter
    BY <1>3, QuietTable DEF ProgramCounter, Abort, ReleaseChild, tableVars
  <1>4. CASE ShowSource
    BY <1>4, QuietTable DEF ShowSource, Abort, ReleaseChild, tableVars, LoopTest
  <1> QED
    BY <1>1, <1>2, <1>3, <1>4 DEF RunCommand

(* The breakpoint commands arm and disarm exactly what is asked of them:   *)
(* at the prompt the child is stopped, so every entry can be reached.      *)
LEMMA TableCommandTable ==
  ASSUME TypeOK, Control, Shape, TableCommand
  PROVE  Kept
  <1>1. ASSUME at = "prompt"
        PROVE  over = Null /\ cmd # "detach" /\ (child = "stopped" \/ child = "dead")
    BY <1>1 DEF Control, TypeOK, TraceeTypeOK
  <1>2. Bytes
    BY DEF TypeOK, TraceeTypeOK, TableTypeOK, Bytes
  <1>3. ASSUME NEW a \in BreakAddrs, Break(a) PROVE Kept
    BY <1>1, <1>3, SetStepTable DEF Break, quiet
  <1>4. ASSUME NEW choice \in BreakAddrs \cup {Null}, BreakSelected(choice) PROVE Kept
    BY <1>1, <1>4, SetStepTable, QuietTable DEF BreakSelected, quiet
  <1>5. ASSUME NEW a \in BreakAddrs, BreakpointEnable(a) PROVE Kept
    <2>1. /\ at = "prompt" /\ a \in Present /\ a \in Addr /\ intent' = intent \cup {a}
          /\ UNCHANGED <<child, over, at, cmd, text, clobbered, mainRet>>
      BY <1>5 DEF BreakpointEnable, quiet, Present
    <2>2. CASE bp[a] = "disabled" /\ Enable(a)
      <3>1. Present' = Present
        BY <1>2, <2>1, <2>2, EnableTable
      <3>2. child = "stopped" => Pokable(a)
        BY <2>1 DEF Pokable, Shape, Reachable
      <3>3. child = "stopped" => Enabled' = Enabled \cup {a} /\ (Overlay => Overlay')
        BY <1>2, <2>1, <2>2, <3>2, EnableTable
      <3> QED
        BY <1>1, <2>1, <3>1, <3>3, AddrFacts DEF Kept, Shape, Reachable, Word, TextIsOverlay,
           MainRetLive, ArmedAsAsked, Live, Present, TypeOK, TableTypeOK
    <2>3. CASE bp[a] = "enabled" /\ UNCHANGED <<mem, bp, data>>
      <3>1. Live => a \in intent
        BY <2>1, <2>3 DEF Shape, ArmedAsAsked, Enabled
      <3> QED
        BY <1>1, <2>1, <2>3, <3>1 DEF Kept, Shape, Reachable, Word, TextIsOverlay, Overlay,
           MainRetLive, ArmedAsAsked, Live, Present, Enabled
    <2> QED
      BY <1>5, <2>1, <2>2, <2>3 DEF BreakpointEnable, Present, TypeOK, TableTypeOK
  <1>6. ASSUME NEW a \in BreakAddrs, NEW yes \in BOOLEAN, BreakpointDisable(a, yes)
        PROVE  Kept
    <2>1. /\ at = "prompt" /\ a \in Present /\ a \in Addr
          /\ UNCHANGED <<child, over, at, cmd, text, clobbered, mainRet>>
      BY <1>6 DEF BreakpointDisable, quiet, Present
    <2>2. CASE UNCHANGED <<mem, bp, data, intent>>
      BY <1>1, <2>1, <2>2, QuietTable
    <2>3. CASE bp[a] = "enabled" /\ Disable(a) /\ intent' = intent \ {a}
      <3>1. Present' = Present
        BY <1>2, <2>1, <2>3, DisableTable
      <3>2. child = "stopped" => Pokable(a)
        BY <2>1 DEF Pokable, Shape, Reachable
      <3>3. child = "stopped" => Enabled' = Enabled \ {a} /\ (Overlay => Overlay')
        BY <1>2, <2>1, <2>3, <3>2, DisableTable
      <3> QED
        BY <1>1, <2>1, <2>3, <3>1, <3>3 DEF Kept, Shape, Reachable, Word, TextIsOverlay,
           MainRetLive, ArmedAsAsked, Live, Present, TypeOK, TableTypeOK
    <2>4. CASE bp[a] # "enabled" /\ UNCHANGED <<mem, bp, data>> /\ intent' = intent \ {a}
      <3>1. Live => a \notin intent
        BY <1>1, <2>1, <2>4, AddrFacts DEF Shape, ArmedAsAsked, Enabled
      <3> QED
        BY <1>1, <2>1, <2>4, <3>1 DEF Kept, Shape, Reachable, Word, TextIsOverlay, Overlay,
           MainRetLive, ArmedAsAsked, Live, Present, Enabled
    <2> QED
      BY <1>6, <2>2, <2>3, <2>4 DEF BreakpointDisable
  <1> QED
    BY <1>3, <1>4, <1>5, <1>6 DEF TableCommand

(* jump, skip and register_write leave the table alone.                    *)
LEMMA RipCommandTable ==
  ASSUME TypeOK, Control, Shape, RipCommand
  PROVE  Kept
  <1>1. ASSUME NEW t, SetRip(t), at = "prompt" PROVE Kept
    <2>1. UNCHANGED <<mem, child, tableVars, cmd, over, at>>
      BY <1>1 DEF SetRip
    <2> QED
      BY <1>1, <2>1, QuietTable DEF tableVars
  <1> QED
    BY <1>1 DEF RipCommand, JumpToInstruction, SkipUnsafeInstruction, RegisterWrite

(* write_memory changes what the program holds and the child alike,        *)
(* except under an enabled breakpoint, which is then clobbered.            *)
LEMMA MemoryCommandTable ==
  ASSUME TypeOK, Control, Shape, MemoryCommand
  PROVE  Kept
  <1>1. ASSUME NEW a \in PeekAddrs, ReadMemory(a) PROVE Kept
    BY <1>1, QuietTable DEF ReadMemory, Abort, ReleaseChild, tableVars
  <1>2. ASSUME NEW a \in PeekAddrs, NEW w \in Words, WriteMemory(a, w) PROVE Kept
    <2>1. /\ at = "prompt" /\ at' # "exited"
          /\ UNCHANGED <<bp, data, mainRet, intent, cmd, over>>
      BY <1>2 DEF WriteMemory, Abort
    <2>2. child' = child \/ child' = (IF child = "dead" THEN "dead" ELSE "detached")
      BY <1>2 DEF WriteMemory, Abort, ReleaseChild
    <2>3. CASE UNCHANGED <<mem, text, clobbered>>
      BY <2>1, <2>2, <2>3, QuietTable
    <2>4. CASE /\ mem' = Written(mem, a, w) /\ text' = Written(text, a, w)
               /\ clobbered' = clobbered \cup (Enabled \cap Word(a))
      <3>1. Overlay => Overlay'
        BY <2>1, <2>4 DEF Overlay, Written, Enabled
      <3>2. UNCHANGED <<Present, Enabled>>
        BY <2>1 DEF Present, Enabled
      <3> QED
        BY <2>1, <2>2, <3>1, <3>2 DEF Kept, Shape, Reachable, Word, TextIsOverlay,
           MainRetLive, ArmedAsAsked, Live
    <2> QED
      BY <1>2, <2>3, <2>4 DEF WriteMemory
  <1> QED
    BY <1>1, <1>2 DEF MemoryCommand

(* quit and handleChildState: a live child is stopped when cleanup runs,   *)
(* so that every int3 can be taken out before it is let go.                *)
LEMMA EndingTable ==
  ASSUME TypeOK, Control, Shape, QuitCommand \/ Ending
  PROVE  Kept
  <1>1. CASE QuitCommand
    BY <1>1, QuietTable DEF QuitCommand, Quit, QuitBare, EndOfInput, Abort, ReleaseChild,
       traceeVars, tableVars, Control
  <1>2. CASE EndInconsistent \/ EndKillAnswered
    BY <1>2, QuietTable DEF EndInconsistent, EndKillAnswered, traceeVars, tableVars
  <1>3. CASE Cleanup
    <2>1. /\ DisableAll /\ at = "ending" /\ mainRet' = Null /\ intent' = {}
          /\ over' = over /\ over = Null /\ UNCHANGED <<text, clobbered>>
      BY <1>3 DEF Cleanup, Control
    <2>2. /\ child \in {"stopped", "dead"}
          /\ child' = child \/ child' = (IF child = "dead" THEN "dead" ELSE "detached")
      BY <1>3 DEF Cleanup, ReleaseChild, Control, TypeOK, TraceeTypeOK
    <2>0. Bytes
      BY DEF TypeOK, TraceeTypeOK, TableTypeOK, Bytes
    <2>3. Present' = Present
      BY <2>0, <2>1, DisableAllTable
    <2>4. ASSUME child = "stopped" PROVE Enabled' = {} /\ (Overlay => Overlay')
      <3>1. \A a \in Enabled : Pokable(a)
        BY <2>4 DEF Pokable, Shape, Reachable, Enabled, Present
      <3>2. DisableAll /\ UNCHANGED <<text, clobbered>>
        BY <2>1
      <3> QED
        BY <2>0, <3>1, <3>2, DisableAllEnabled
    <2> QED
      BY <2>1, <2>2, <2>3, <2>4 DEF Kept, Shape, Reachable, Word, TextIsOverlay,
         MainRetLive, ArmedAsAsked, Live
  <1>4. CASE KillChild
    BY <1>4, QuietTable DEF KillChild, tableVars
  <1>5. CASE Leave
    <2>1. /\ child' = (IF child = "dead" THEN "dead" ELSE "detached")
          /\ UNCHANGED <<mem, tableVars, cmd, over>>
      BY <1>5 DEF Leave, ReleaseChild
    <2>2. child # "dead" => Enabled = {}
      BY <1>5 DEF Leave, Control, Shape, ArmedAsAsked, Live, TypeOK, TraceeTypeOK
    <2>3. child' # "dead" => child' = "detached" /\ child # "dead"
      BY <2>1
    <2>4. child = "dead" => child' = "dead"
      BY <2>1
    <2> QED
      BY <2>1, <2>2, <2>3, <2>4, QuietTable DEF tableVars
  <1> QED
    BY <1>1, <1>2, <1>3, <1>4, <1>5 DEF Ending

(* Every step keeps Shape.                                                 *)
LEMMA NextTable ==
  ASSUME TypeOK, Control, Shape, [Next]_vars
  PROVE  Kept
  <1>1. CASE UNCHANGED vars
    BY <1>1, QuietTable DEF vars, traceeVars, tableVars, controlVars, Shape
  <1>2. CASE CallContinue
    BY <1>2, ContTable DEF CallContinue, TypeOK
  <1> QED
    BY <1>1, <1>2, ChildTable, WaitingTable, AttachingTable, RunTable,
       TableCommandTable, RipCommandTable, MemoryCommandTable, EndingTable
       DEF Next, ChildMoves, DebuggerMoves, UserMoves, Done

-----------------------------------------------------------------------------

(* The breakpoint table stays right for ever, for every program and every  *)
(* sequence of commands and signals.                                       *)
THEOREM TableCorrect == Spec => []Table
  <1>1. Init => Table
    BY InitTable
  <1>2. TypeOK /\ Control /\ Table /\ [Next]_vars => Table'
    BY NextTable DEF Table, Kept
  <1> QED
    BY <1>1, <1>2, TypeCorrect, PTL DEF Spec

(* The bytes of a live child are the program's, but for an int3 under      *)
(* each enabled breakpoint (Breakpoint::enable and disable).               *)
THEOREM OverlaySafe == Spec => []TextIsOverlay
  <1>1. Table => TextIsOverlay
    BY DEF Table
  <1> QED
    BY <1>1, TableCorrect, PTL

(* No entry stays in the table whose enable failed                         *)
(* (setBreakpointAtAddress).                                               *)
THEOREM EntriesReachable == Spec => []Reachable
  <1>1. Table => Reachable
    BY DEF Table, Shape
  <1> QED
    BY <1>1, TableCorrect, PTL

(* retAddrFromMain_ never dangles (removeBreakpoint, initialize).          *)
THEOREM MainRetSafe == Spec => []MainRetLive
  <1>1. Table => MainRetLive
    BY DEF Table, Shape
  <1> QED
    BY <1>1, TableCorrect, PTL

(* What is armed in a live child is what was asked for, but for the        *)
(* breakpoint being stepped off (stepOverBreakpoint).                      *)
THEOREM ArmedSafe == Spec => []ArmedAsAsked
  <1>1. Table => ArmedAsAsked
    BY DEF Table, Shape
  <1> QED
    BY <1>1, TableCorrect, PTL

(* A running child can never run past a breakpoint that is wanted          *)
(* (continueExecution and singleStep).                                     *)
THEOREM NeverMissed == Spec => []NoBreakpointMissed
  <1>1. TypeOK /\ Control /\ Table => NoBreakpointMissed
    <2> SUFFICES ASSUME TypeOK, Control, Table, child = "running",
                        NEW a \in intent \ clobbered
                 PROVE  mem[a] = Int3 \/ (mode = "step" /\ a = over /\ a = pc)
      BY DEF NoBreakpointMissed
    <2>1. CASE a = over
      BY <2>1, AddrFacts DEF Control, TypeOK, TableTypeOK
    <2>2. CASE a # over
      BY <2>2 DEF Table, Shape, ArmedAsAsked, Live, TextIsOverlay, Overlay, Enabled
    <2> QED
      BY <2>1, <2>2
  <1> QED
    BY <1>1, TypeCorrect, TableCorrect, PTL

(* No int3 stays in a child the debugger let go in good order (cleanup     *)
(* and handleChildState).                                                  *)
THEOREM LeavesNoTrap == Spec => []NoTrapLeftBehind
  <1>1. Table => NoTrapLeftBehind
    BY DEF Table, Shape, NoTrapLeftBehind, TextIsOverlay, Overlay, Enabled
  <1> QED
    BY <1>1, TableCorrect, PTL
=============================================================================
