------------------------------ MODULE Session ------------------------------
(***************************************************************************)
(* One run of the debugger from attach to exit: Debugger::run, the         *)
(* continue, single_step, breakpoint, jump, skip, register and memory      *)
(* commands, waitForSignal, and handleChildState with its cleanup.  The    *)
(* debugger is one thread that blocks in waitpid and at its prompts; the   *)
(* child and the signals that reach it interleave with everything else.    *)
(***************************************************************************)
EXTENDS BreakpointTable

CONSTANTS
    MainBp,      \* the second line entry of the main() found or selected
    Junk,        \* what a register or stack slot read out of place may hold
    NoSource,    \* code addresses whose source file cannot be opened
    BreakAddrs,  \* addresses the user names in breakpoint commands
    RipValues,   \* addresses the user sets rip to
    PeekAddrs,   \* addresses the user names in read_memory, write_memory
    Words        \* words the user writes

ASSUME SessionAssumption ==
    /\ MainBp \in Addr
    /\ Junk \subseteq Nat /\ BreakAddrs \subseteq Nat /\ RipValues \subseteq Nat
    /\ PeekAddrs \subseteq Nat
    /\ Words \subseteq [0 .. (WordLen - 1) -> Byte]

VARIABLES
    state,      \* state_, enum class Child
    at,         \* where the debugger's control is
    cmd,        \* what called continueExecution or singleStep
    over,       \* the breakpoint stepOverBreakpoint is stepping off, or Null
    mapped,     \* memMap_ has been built (the debuggee is an ET_DYN file)
    leftover    \* std::cin holds the newline an earlier >> left behind

controlVars == <<state, at, cmd, over, mapped, leftover>>
vars == <<traceeVars, tableVars, controlVars>>

Child == {"running", "faulting", "detach", "force_detach", "finish", "kill",
          "crashed", "terminated"}
isExecuting(s) == s \in {"running", "faulting"}
isTerminated(s) == s \in {"crashed", "terminated"}

(* "wait": in waitpid.  "returned": waitForSignal has returned, or the     *)
(* command had nothing to wait for.  "continue": about to call             *)
(* continueExecution.  "initRet": initialize is about to read main's       *)
(* return address.  "ending": in handleChildState.                         *)
Locations == {"wait", "returned", "continue", "initRet", "prompt", "ending",
              "exited", "aborted"}
Callers == {"attach", "init", "cont", "step", "detach"}

TypeOK ==
    /\ TraceeTypeOK
    /\ TableTypeOK
    /\ state \in Child
    /\ at \in Locations
    /\ cmd \in Callers
    /\ over \in Addr \cup {Null}
    /\ mapped \in BOOLEAN
    /\ leftover \in BOOLEAN

Init ==
    /\ TraceeInit
    /\ TableInit
    /\ state = "running"
    /\ at = "wait" /\ cmd = "attach"
    /\ over = Null
    /\ mapped = FALSE
    /\ leftover = FALSE

-----------------------------------------------------------------------------
(* An exception nobody catches: the process ends where it is.              *)
Abort == at' = "aborted" /\ ReleaseChild

(* getPC: of a child that is gone, GETREGS leaves the buffer as it was.    *)
PCs == IF child = "stopped" THEN {pc} ELSE Junk

(* The condition of the command loop of run.                               *)
LoopTest(s) == IF isExecuting(s) THEN "prompt" ELSE "ending"

(* promptYesOrNo: getline returns the leftover newline at once, as a no.   *)
Prompted(yes) == yes /\ ~leftover

registers == <<pc, stack, event, signals>>
history == <<text, clobbered, intent>>

(* singleStep up to its waitForSignal; PTRACE_SINGLESTEP of a child that   *)
(* is gone throws.                                                         *)
SingleStep ==
    IF child = "stopped"
    THEN ResumeChild("step") /\ at' = "wait"
    ELSE Abort /\ UNCHANGED mode

(* Mutant of StepOff: the child is continued, not stepped.                 *)
StepOffContinues(p) ==
    /\ Disable(p)
    /\ IF child = "stopped"
       THEN ResumeChild("cont") /\ at' = "wait"
       ELSE Abort /\ UNCHANGED mode
    /\ over' = p

(* stepOverBreakpoint at an enabled breakpoint, up to its waitForSignal.   *)
StepOff(p) ==
    /\ Disable(p)
    /\ SingleStep
    /\ over' = p

(* continueExecution up to its first waitForSignal, for caller c.  The     *)
(* result of PTRACE_CONT is not looked at.                                 *)
ContinueExecution(c) ==
    /\ cmd' = c
    /\ \E p \in PCs :
         \/ /\ IsEnabled(p)
            /\ StepOff(p)
         \/ /\ ~IsEnabled(p)
            /\ ResumeChild("cont")
            /\ at' = "wait" /\ over' = Null
            /\ UNCHANGED <<mem, bp, data>>
    /\ UNCHANGED <<registers, history, mainRet, state, mapped, leftover>>

-----------------------------------------------------------------------------
(* waitForSignal.                                                          *)

(* The end of its SIGTRAP case, with rip at p after handleSIGTRAP.         *)
AfterTrap(p) ==
    IF isExecuting(state) /\ IsMainRet(p)
    THEN IF state = "running" THEN "finish" ELSE "force_detach"
    ELSE IF state = "faulting" THEN "running" ELSE state

(* Mutant of StateAfter: a child killed by a signal goes unnoticed.        *)
StateAfterNoSignaled(e, p) ==
    CASE e = "exit" -> "terminated"
      [] e = "segv" -> "faulting"
      [] e \in {"other", "kill"} -> state
      [] OTHER -> AfterTrap(p)

StateAfter(e, p) ==
    CASE e = "exit" -> "terminated"
      [] e = "kill" -> "crashed"
      [] e = "segv" -> "faulting"
      [] e = "other" -> state
      [] OTHER -> AfterTrap(p)

(* Mutant of WaitForSignal: rip is moved back whatever the si_code.        *)
WaitForSignalAnyTrap ==
    /\ at = "wait" /\ event # "none"
    /\ pc' = IF event \in {"brk", "user", "trace"} THEN pc - 1 ELSE pc
    /\ state' = StateAfter(event, pc')
    /\ event' = "none"
    /\ at' = "returned"
    /\ UNCHANGED <<mem, stack, child, mode, signals, tableVars, cmd, over,
                   mapped, leftover>>

(* Mutant of WaitForSignal: rip is not moved back.                         *)
WaitForSignalNoRewind ==
    /\ at = "wait" /\ event # "none"
    /\ UNCHANGED pc
    /\ state' = StateAfter(event, pc)
    /\ event' = "none"
    /\ at' = "returned"
    /\ UNCHANGED <<mem, stack, child, mode, signals, tableVars, cmd, over,
                   mapped, leftover>>

(* waitpid returns; after an int3 rip is moved back onto it.               *)
WaitForSignal ==
    /\ at = "wait" /\ event # "none"
    /\ pc' = IF event = "brk" THEN pc - 1 ELSE pc
    /\ state' = StateAfter(event, pc')
    /\ event' = "none"
    /\ at' = "returned"
    /\ UNCHANGED <<mem, stack, child, mode, signals, tableVars, cmd, over,
                   mapped, leftover>>

(* waitpid has no child left to wait for: ECHILD, which throws.            *)
WaitThrows ==
    /\ at = "wait" /\ child = "dead" /\ event = "none"
    /\ Abort
    /\ UNCHANGED <<mem, mode, registers, tableVars, state, cmd, over, mapped,
                   leftover>>

(* Mutant of ReEnable: a step that faulted returns before the enable.      *)
ReEnableUnlessFaulting ==
    /\ at = "returned" /\ over # Null
    /\ IF state = "faulting" THEN UNCHANGED <<mem, bp, data>> ELSE Enable(over)
    /\ over' = Null
    /\ IF cmd = "step"
       THEN UNCHANGED <<at, child, mode>>
       ELSE ResumeChild("cont") /\ at' = "wait"
    /\ UNCHANGED <<registers, history, mainRet, state, cmd, mapped, leftover>>

(* Mutant of ReEnable: the child is not continued after the step over.     *)
ReEnableForgetsCont ==
    /\ at = "returned" /\ over # Null
    /\ Enable(over)
    /\ over' = Null
    /\ at' = IF cmd = "step" THEN at ELSE "wait"
    /\ UNCHANGED <<child, mode, registers, history, mainRet, state, cmd, mapped,
                   leftover>>

(* getSignalInfo throws if the child is killed after waitpid reported a    *)
(* stop.                                                                   *)
SignalInfoThrows ==
    /\ at = "wait" /\ event \in StopEvents /\ signals < MaxSignals
    /\ at' = "aborted"
    /\ child' = "dead" /\ event' = "kill"
    /\ signals' = signals + 1
    /\ UNCHANGED <<mem, pc, stack, mode, tableVars, state, cmd, over, mapped,
                   leftover>>

(* The rest of stepOverBreakpoint and, in continueExecution, PTRACE_CONT:  *)
(* whatever the single step ended in.                                      *)
ReEnable ==
    /\ at = "returned" /\ over # Null
    /\ Enable(over)
    /\ over' = Null
    /\ IF cmd = "step"
       THEN UNCHANGED <<at, child, mode>>
       ELSE ResumeChild("cont") /\ at' = "wait"
    /\ UNCHANGED <<registers, history, mainRet, state, cmd, mapped, leftover>>

-----------------------------------------------------------------------------
(* initialize.                                                             *)

(* The memory map, when the debuggee is ET_DYN (dyn), the list of          *)
(* functions and the breakpoint in main.  Several functions called main    *)
(* are offered for selection, which leaves a newline in std::cin.  With    *)
(* none, none selected or none settable it gives up and returns.  It       *)
(* throws without a load address, as for a child that is gone, without     *)
(* functions, and for a main with no low_pc or line entry.                 *)
Initialize ==
    /\ at = "returned" /\ cmd = "attach" /\ over = Null
    /\ \E dyn, several \in BOOLEAN :
         \/ /\ Abort
            /\ UNCHANGED <<mem, bp, data, intent, mapped, cmd, leftover>>
         \/ /\ ~(dyn /\ child = "dead")
            /\ mapped' = dyn
            /\ leftover' = several
            /\ \/ /\ SetBreakpointAtAddress(MainBp, dyn)
                  /\ IF Insertable(MainBp, dyn)
                     THEN at' = "continue" /\ cmd' = "init"
                     ELSE at' = LoopTest(state) /\ UNCHANGED cmd
               \/ /\ at' = LoopTest(state)
                  /\ UNCHANGED <<mem, bp, data, intent, cmd>>
            /\ UNCHANGED child
    /\ UNCHANGED <<mode, registers, text, clobbered, mainRet, state, over>>

(* Back from continueExecution: removeBreakpoint(mainBp).                  *)
RemoveMainBp ==
    /\ at = "returned" /\ cmd = "init" /\ over = Null
    /\ RemoveBreakpoint(MainBp)
    /\ at' = "initRet"
    /\ UNCHANGED <<child, mode, registers, text, clobbered, mainRet, state, cmd,
                   over, mapped, leftover>>

(* The return address is read at rbp + 8, which holds main's return        *)
(* address if the child did stop at the breakpoint in main and anything    *)
(* otherwise; the read may then throw, and does if the child is gone.      *)
SetMainReturn ==
    /\ at = "initRet"
    /\ \E r \in IF pc = MainBp /\ stack # <<>> THEN {Head(stack)} ELSE Junk :
         \/ /\ child = "stopped"
            /\ SetBreakpointAtAddress(r, mapped)
            /\ mainRet' = IF Insertable(r, mapped) THEN r ELSE Null
            /\ at' = LoopTest(state)
            /\ UNCHANGED child
         \/ /\ child = "dead" \/ pc # MainBp
            /\ Abort
            /\ UNCHANGED <<mem, bp, data, intent, mainRet>>
    /\ UNCHANGED <<mode, registers, text, clobbered, state, cmd, over, mapped,
                   leftover>>

-----------------------------------------------------------------------------
(* Commands.                                                               *)

quiet == <<child, mode, registers, mainRet, state, at, cmd, over, mapped>>

Continue == at = "prompt" /\ ContinueExecution("cont")

(* single_step: singleStepBreakpointCheck.  A fault must be forced past,   *)
(* which the user may.                                                     *)
StepAtMainReturn(p) ==
    /\ IsMainRet(p) /\ p \in Present
    /\ state' = CASE state = "running" -> "finish"
                  [] state = "faulting" -> "force_detach"
                  [] OTHER -> state
    /\ at' = "returned" /\ over' = Null
    /\ UNCHANGED <<mem, bp, data, child, mode>>

StepInstruction(p) ==
    /\ p \notin Present
    /\ SingleStep
    /\ over' = Null
    /\ UNCHANGED <<mem, bp, data, state>>

StepBreakpoint(p) ==
    /\ p \in Present /\ ~IsMainRet(p)
    /\ IF bp[p] = "enabled"
       THEN StepOff(p)
       ELSE at' = "returned" /\ over' = Null
            /\ UNCHANGED <<mem, bp, data, child, mode>>
    /\ UNCHANGED state

SingleStepBreakpointCheck ==
    /\ at = "prompt"
    /\ cmd' = "step"
    /\ \E p \in PCs :
         StepAtMainReturn(p) \/ StepInstruction(p) \/ StepBreakpoint(p)
    /\ UNCHANGED <<registers, history, mainRet, mapped, leftover>>

(* Every continue and step command ends with printSourceAtPC, which reads  *)
(* rip, and the loop test.  An ending session whose rip is not mapped is   *)
(* to be killed; a source file that cannot be opened throws.               *)
ShowSource ==
    /\ at = "returned" /\ over = Null /\ cmd \in {"cont", "step"}
    /\ \E p \in PCs :
         \/ /\ mapped /\ p \in NoSource /\ ~isTerminated(state)
            /\ Abort
            /\ UNCHANGED state
         \/ /\ ~(mapped /\ p \in NoSource /\ ~isTerminated(state))
            /\ state' = IF isExecuting(state) \/ isTerminated(state)
                           \/ (mapped /\ p \in Addr)
                        THEN state ELSE "kill"
            /\ at' = LoopTest(state')
            /\ UNCHANGED child
    /\ UNCHANGED <<mem, mode, registers, tableVars, cmd, over, mapped, leftover>>

(* program_counter prints as a run command does, and as it may throw.      *)
ProgramCounter ==
    /\ at = "prompt"
    /\ \E p \in PCs : mapped /\ p \in NoSource
    /\ Abort
    /\ UNCHANGED <<mem, mode, registers, tableVars, state, cmd, over, mapped,
                   leftover>>

(* breakpoint: an address, or a line or function with one match.           *)
Break(a) ==
    /\ at = "prompt"
    /\ SetBreakpointAtAddress(a, mapped)
    /\ UNCHANGED <<quiet, text, clobbered, leftover>>

(* ... with several matches: the choice, or anything else to abort, is     *)
(* read with >>, which leaves its newline in std::cin.                     *)
BreakSelected(choice) ==
    /\ at = "prompt"
    /\ IF choice = Null
       THEN UNCHANGED <<mem, bp, data, intent>>
       ELSE SetBreakpointAtAddress(choice, mapped)
    /\ leftover' = TRUE
    /\ UNCHANGED <<quiet, text, clobbered>>

BreakpointEnable(a) ==
    /\ at = "prompt" /\ a \in Present
    /\ IF bp[a] = "disabled"
       THEN Enable(a)
       ELSE UNCHANGED <<mem, bp, data>>
    /\ intent' = intent \cup {a}
    /\ UNCHANGED <<quiet, text, clobbered, leftover>>

(* The breakpoint at main's return is disabled only after a yes.           *)
BreakpointDisable(a, yes) ==
    /\ at = "prompt" /\ a \in Present
    /\ LET asks == IsMainRet(a) /\ bp[a] = "enabled"
       IN  /\ leftover' = IF asks THEN FALSE ELSE leftover
           /\ IF asks /\ ~Prompted(yes)
              THEN UNCHANGED <<mem, bp, data, intent>>
              ELSE /\ IF bp[a] = "enabled"
                      THEN Disable(a) ELSE UNCHANGED <<mem, bp, data>>
                   /\ intent' = intent \ {a}
    /\ UNCHANGED <<quiet, text, clobbered>>

(* setRegisterValue(rip), which fails if the child is gone.                *)
SetRip(t) ==
    /\ pc' = IF child = "stopped" THEN t ELSE pc
    /\ UNCHANGED <<mem, stack, child, mode, event, signals, tableVars, state, at,
                   cmd, over, mapped>>

JumpToInstruction(t, yes) ==
    /\ at = "prompt"
    /\ leftover' = FALSE
    /\ SetRip(IF Prompted(yes) THEN t ELSE pc)

(* skip of n bytes; RipValues bounds where it can lead.                    *)
SkipUnsafeInstruction(n, yes) ==
    /\ at = "prompt" /\ pc + n \in RipValues
    /\ leftover' = FALSE
    /\ SetRip(IF Prompted(yes) THEN pc + n ELSE pc)

(* register_write rip asks nothing.                                        *)
RegisterWrite(t) ==
    /\ at = "prompt"
    /\ SetRip(t)
    /\ UNCHANGED leftover

(* readMemory throws when the peek fails and when the word is -1;          *)
(* otherwise read_memory changes nothing.                                  *)
ReadThrows(m, a) == ~Pokable(a) \/ AllOnes(m, a)

ReadMemory(a) ==
    /\ at = "prompt" /\ ReadThrows(mem, a)
    /\ Abort
    /\ UNCHANGED <<mem, mode, registers, tableVars, state, cmd, over, mapped,
                   leftover>>

(* write_memory: read the old word, poke the new one, read it back.        *)
Written(f, a, w) == [x \in Addr |-> IF x \in Word(a) THEN w[x - a] ELSE f[x]]

WriteMemory(a, w) ==
    /\ at = "prompt"
    /\ IF ReadThrows(mem, a)
       THEN Abort /\ UNCHANGED <<mem, text, clobbered>>
       ELSE /\ mem' = Written(mem, a, w)
            /\ text' = Written(text, a, w)
            /\ clobbered' = clobbered \cup (Enabled \cap Word(a))
            /\ IF AllOnes(mem', a) THEN Abort ELSE UNCHANGED <<at, child>>
    /\ UNCHANGED <<mode, registers, bp, data, mainRet, intent, state, cmd, over,
                   mapped, leftover>>

(* quit and quit force.                                                    *)
Quit(s) ==
    /\ at = "prompt"
    /\ state' = s /\ at' = "ending"
    /\ UNCHANGED <<traceeVars, tableVars, cmd, over, mapped, leftover>>

(* quit with no argument reads argv[1] past the end of the vector: what it *)
(* finds may also read as an argument (the two outcomes of Quit) or crash. *)
QuitBare ==
    /\ at = "prompt"
    /\ Abort
    /\ UNCHANGED <<mem, mode, registers, tableVars, state, cmd, over, mapped,
                   leftover>>

(* linenoise returns nullptr at the end of the input.                      *)
EndOfInput ==
    /\ at = "prompt"
    /\ at' = "ending"
    /\ UNCHANGED <<traceeVars, tableVars, state, cmd, over, mapped, leftover>>

-----------------------------------------------------------------------------
(* handleChildState.                                                       *)

(* Mutant of EndInconsistent: the state is left as it was.                 *)
EndInconsistentKeeps ==
    /\ at = "ending" /\ isExecuting(state)
    /\ UNCHANGED vars

EndInconsistent ==
    /\ at = "ending" /\ isExecuting(state)
    /\ state' = "force_detach"
    /\ UNCHANGED <<traceeVars, tableVars, at, cmd, over, mapped, leftover>>

EndKillAnswered ==
    /\ at = "ending" /\ state \in {"detach", "force_detach"}
    /\ Prompted(TRUE)
    /\ state' = "kill"
    /\ UNCHANGED <<traceeVars, tableVars, at, cmd, over, mapped, leftover>>

(* Mutant of Cleanup: a forced detach does not disable the breakpoints.    *)
CleanupUnlessForced ==
    /\ at = "ending" /\ state \in {"detach", "force_detach", "finish"}
    /\ mainRet' = Null
    /\ IF state = "force_detach" THEN UNCHANGED <<mem, bp, data>> ELSE DisableAll
    /\ intent' = {}
    /\ leftover' = FALSE
    /\ IF state = "force_detach"
       THEN at' = "exited" /\ ReleaseChild /\ UNCHANGED cmd
       ELSE at' = "continue" /\ cmd' = "detach" /\ UNCHANGED child
    /\ UNCHANGED <<mode, registers, text, clobbered, state, over, mapped>>

(* cleanup, after a no or at the end of main: then PTRACE_DETACH, or       *)
(* continueExecution once more.                                            *)
Cleanup ==
    /\ at = "ending" /\ state \in {"detach", "force_detach", "finish"}
    /\ mainRet' = Null
    /\ DisableAll
    /\ intent' = {}
    /\ leftover' = FALSE
    /\ IF state = "force_detach"
       THEN at' = "exited" /\ ReleaseChild /\ UNCHANGED cmd
       ELSE at' = "continue" /\ cmd' = "detach" /\ UNCHANGED child
    /\ UNCHANGED <<mode, registers, text, clobbered, state, over, mapped>>

(* continueExecution as initialize and handleChildState call it.           *)
CallContinue == at = "continue" /\ ContinueExecution(cmd)

(* kill(pid, SIGTRAP): fatal to the child once its tracer is gone.         *)
KillChild ==
    /\ at = "ending" /\ state = "kill"
    /\ child' = "dead" /\ at' = "exited"
    /\ UNCHANGED <<mem, mode, registers, tableVars, state, cmd, over, mapped,
                   leftover>>

(* main returns: the child had ended, or has stopped once more.            *)
Leave ==
    /\ \/ at = "ending" /\ isTerminated(state)
       \/ at = "returned" /\ cmd = "detach" /\ over = Null
    /\ at' = "exited" /\ ReleaseChild
    /\ UNCHANGED <<mem, mode, registers, tableVars, state, cmd, over, mapped,
                   leftover>>

Done == at \in {"exited", "aborted"} /\ UNCHANGED vars

-----------------------------------------------------------------------------
ChildMoves == (ChildStep \/ Interrupted \/ Killed)
                  /\ UNCHANGED <<tableVars, controlVars>>

Waiting == WaitForSignal \/ WaitThrows \/ SignalInfoThrows \/ ReEnable

Attaching == Initialize \/ RemoveMainBp \/ SetMainReturn

TableCommand ==
    \/ \E a \in BreakAddrs : Break(a) \/ BreakpointEnable(a)
    \/ \E choice \in BreakAddrs \cup {Null} : BreakSelected(choice)
    \/ \E a \in BreakAddrs, yes \in BOOLEAN : BreakpointDisable(a, yes)

RipCommand ==
    \/ \E t \in RipValues, yes \in BOOLEAN : JumpToInstruction(t, yes)
    \/ \E yes \in BOOLEAN : SkipUnsafeInstruction(1, yes)
    \/ \E t \in RipValues : RegisterWrite(t)

MemoryCommand ==
    \/ \E a \in PeekAddrs : ReadMemory(a)
    \/ \E a \in PeekAddrs, w \in Words : WriteMemory(a, w)

RunCommand == Continue \/ SingleStepBreakpointCheck \/ ProgramCounter

QuitCommand == \/ \E s \in {"detach", "force_detach"} : Quit(s)
               \/ QuitBare
               \/ EndOfInput

Ending == \/ EndInconsistent \/ EndKillAnswered \/ Cleanup
          \/ KillChild \/ Leave

(* What the debugger does by itself, answering its last prompt included.   *)
DebuggerMoves == Waiting \/ Attaching \/ ShowSource \/ CallContinue \/ Ending

UserMoves == TableCommand \/ RipCommand \/ MemoryCommand \/ RunCommand
                 \/ QuitCommand

Next == ChildMoves \/ DebuggerMoves \/ UserMoves \/ Done

Spec == Init /\ [][Next]_vars

(* A running child keeps executing, and the debugger, one thread that is   *)
(* never blocked but in waitpid and at a prompt, keeps going; the user     *)
(* answers the two prompts of the exit, and need never type a command.     *)
Fairness == /\ WF_vars(ChildStep /\ UNCHANGED <<tableVars, controlVars>>)
            /\ WF_vars(DebuggerMoves)

FairSpec == Spec /\ Fairness

-----------------------------------------------------------------------------
(* Properties.                                                             *)

Live == child \in {"stopped", "running"}

(* While the child lives, exactly the breakpoints the user and initialize  *)
(* asked for are armed, but for the one being stepped off: a command that  *)
(* steps over a breakpoint has it back in place however its step ended.    *)
ArmedAsAsked ==
    Live => Enabled = intent \ {over}

(* The child never runs past a breakpoint: whenever it runs, each address  *)
(* where one is wanted holds an int3, except the one it stands on while    *)
(* the debugger single steps it off.                                       *)
NoBreakpointMissed ==
    child = "running" =>
        \A a \in intent \ clobbered :
            mem[a] = Int3 \/ (mode = "step" /\ a = over /\ a = pc)

(* A debugger that left a living child behind in good order took every     *)
(* int3 with it: the code is what it would be had Peek never run.          *)
NoTrapLeftBehind ==
    (at = "exited" /\ child = "detached") =>
        \A a \in Addr \ clobbered : mem[a] = text[a]

(* The prompt is only for a child that lives, or has been killed behind    *)
(* the debugger's back: once an end was reported, however deep in a        *)
(* command, the session ends.                                              *)
NoPromptAfterEnd ==
    at = "prompt" => isExecuting(state) /\ (child = "dead" => event = "kill")

(* handleChildState always comes to the end of the debugger.               *)
EndingEnds == at = "ending" ~> at \in {"exited", "aborted"}

(* continue and single_step give the prompt back, or end the session.      *)
CommandReturns ==
    at \in {"wait", "returned"} ~> at \in {"prompt", "ending", "exited", "aborted"}

(* The session as the program sees it: int3s are taken out of its code,    *)
(* and rip is where it was before an int3 that is not yet reported.        *)
Gone == child = "dead" \/ at \in {"exited", "aborted"}
Rip == IF Gone THEN 0 ELSE IF event = "brk" THEN pc - 1 ELSE pc
Frames == IF Gone THEN <<>> ELSE stack
Turn == IF Gone THEN "over" ELSE IF at = "prompt" THEN "user" ELSE "program"

Program == INSTANCE Program
    WITH code <- text, edited <- clobbered, rip <- Rip, frames <- Frames,
         turn <- Turn

(* Debugging leaves the debuggee as it is: whatever breakpoints are set,   *)
(* hit, stepped over, disabled and removed, and whatever signals and       *)
(* faults come between, the child executes exactly its own instructions,   *)
(* and its code and rip change by a command of the user only.              *)
ProgramUndisturbed == Program!Spec

-----------------------------------------------------------------------------
(* What comments of the source say, which the code does not keep.          *)

(* step.cpp:39 on the test for main's return in single_step: "this if      *)
(* statement will never hit!".  It is what would end a session at the      *)
(* prompt as finish.                                                       *)
MainReturnCheckNeverHits == [][~(at = "prompt" /\ state' = "finish")]_vars

(* state.h:13 and 14, on crashed and terminated: "exit debugger process".  *)
(* When the child ends during continue_execution, off a breakpoint or      *)
(* later, the debugger leaves by main, not by an exception.                *)
EndedLeavesNormally == (isTerminated(state) /\ cmd = "cont") => at # "aborted"

(* state.h:8, on faulting: "execution is paused due to a fault".  Once a   *)
(* fault was reported only a command of the user resumes the child.        *)
FaultPausesChild ==
    [][(state = "faulting" /\ at = "returned") => child' # "running"]_vars

(* debugger.cpp:128: "Let user decide if child process should be killed".  *)
(* The question is then put to the user, not answered by stale input.      *)
UserDecidesAboutChild ==
    (at = "ending" /\ state \in {"detach", "force_detach"}) => ~leftover
=============================================================================
