------------------------------- MODULE Tracee -------------------------------
(***************************************************************************)
(* The debugged child and the part of the Linux kernel that stands between *)
(* it and Peek.  But for its start, by the fork and execl of main, none of *)
(* it is code of this repository: it is what the ptrace, waitpid and kill  *)
(* calls of src/ rely on.  The child runs one instruction per step; it     *)
(* stops with an event that waitpid reports, and only a stopped child can  *)
(* be peeked, poked or resumed.                                            *)
(*                                                                         *)
(* Instructions are one address long.  Text holds the byte the loader put  *)
(* at each mapped address and Code what the instruction there does; a byte *)
(* that is not the loaded one is an illegal instruction, except Int3.      *)
(***************************************************************************)
EXTENDS Integers, Sequences, FiniteSets

CONSTANTS
    Addr,        \* the mapped addresses
    Text,        \* Text[a]: the byte loaded at a
    Code,        \* Code[a]: the instruction at a, with its target
    Entry,       \* where a fresh process starts
    WordLen,     \* bytes in a PEEKDATA/POKEDATA word
    MaxDepth,    \* the child overflows its stack beyond this many calls
    MaxSignals   \* bound: asynchronous signals the child receives

Byte == 0 .. 255
Int3 == 204
Ones == 255      \* the low byte of the -1 a failed PEEKDATA returns
Null == -1

Ops == {"seq", "branch", "call", "ret", "deref", "exit"}

ASSUME TraceeAssumption ==
    /\ Addr \subseteq Nat
    /\ Text \in [Addr -> Byte]
    /\ Code \in [Addr -> [op : Ops, to : Nat]]
    /\ Entry \in Addr
    /\ WordLen \in Nat \ {0}
    /\ MaxDepth \in Nat
    /\ MaxSignals \in Nat

VARIABLES
    mem,      \* the child's memory
    pc,       \* rip
    stack,    \* return addresses, innermost first
    child,    \* "stopped", "running", "dead" or, once untraced, "detached"
    mode,     \* how it was last resumed: PTRACE_CONT or PTRACE_SINGLESTEP
    event,    \* the change of state waitpid has not reported yet
    signals   \* asynchronous signals received so far

traceeVars == <<mem, pc, stack, child, mode, event, signals>>

(* What a stop is to waitForSignal: a SIGTRAP with si_code 0 (the stop     *)
(* after exec, or kill -TRAP), after an int3, after a single step;         *)
(* SIGSEGV; any other signal; and the two ends of the child.               *)
StopEvents == {"user", "brk", "trace", "segv", "other"}
EndEvents == {"exit", "kill"}

TraceeTypeOK ==
    /\ mem \in [Addr -> Byte]
    /\ pc \in Nat
    /\ stack \in Seq(Nat)
    /\ child \in {"stopped", "running", "dead", "detached"}
    /\ mode \in {"cont", "step"}
    /\ event \in StopEvents \cup EndEvents \cup {"none"}
    /\ signals \in 0 .. MaxSignals

(* A debuggee that has called execl: stopped at its entry point, or gone   *)
(* because the call failed.                                                *)
TraceeInit ==
    /\ mem = Text
    /\ pc = Entry
    /\ stack = <<>>
    /\ \/ child = "stopped" /\ event = "user"
       \/ child = "dead" /\ event = "exit"
    /\ mode = "cont"
    /\ signals = 0

-----------------------------------------------------------------------------
(* Calls of the debugger.                                                  *)

Word(a) == a .. (a + WordLen - 1)

(* PEEKDATA and POKEDATA reach the whole word, of a stopped child.         *)
Pokable(a) == child = "stopped" /\ Word(a) \subseteq Addr

(* The word a PEEKDATA of a returns is -1, which also means failure.       *)
AllOnes(m, a) == \A x \in Word(a) : m[x] = Ones

(* PTRACE_CONT and PTRACE_SINGLESTEP; of a dead child they change nothing. *)
ResumeChild(how) ==
    /\ child' = IF child = "stopped" THEN "running" ELSE child
    /\ mode' = how

(* The tracer is gone: the kernel lets a live child run on untraced.       *)
ReleaseChild == child' = IF child = "dead" THEN "dead" ELSE "detached"

-----------------------------------------------------------------------------
(* Steps of the running child.                                             *)

Stop(e) == child' = "stopped" /\ event' = e

(* An int3 was executed: rip is already past it.                           *)
Trap ==
    /\ child = "running" /\ pc \in Addr /\ mem[pc] = Int3
    /\ pc' = pc + 1
    /\ Stop("brk")
    /\ UNCHANGED <<mem, stack, mode, signals>>

(* A byte the loader did not put there.                                    *)
Illegal ==
    /\ child = "running" /\ pc \in Addr
    /\ mem[pc] # Int3 /\ mem[pc] # Text[pc]
    /\ Stop("other")
    /\ UNCHANGED <<mem, pc, stack, mode, signals>>

Intact == pc \in Addr /\ mem[pc] # Int3 /\ mem[pc] = Text[pc]

(* SIGSEGV: a fetch or an access outside the mapped memory.                *)
Fault ==
    /\ child = "running"
    /\ \/ pc \notin Addr
       \/ Intact /\ Code[pc].op = "deref"
       \/ Intact /\ Code[pc].op = "ret" /\ stack = <<>>
       \/ Intact /\ Code[pc].op = "call" /\ Len(stack) >= MaxDepth
    /\ Stop("segv")
    /\ UNCHANGED <<mem, pc, stack, mode, signals>>

Exit ==
    /\ child = "running" /\ Intact /\ Code[pc].op = "exit"
    /\ child' = "dead" /\ event' = "exit"
    /\ UNCHANGED <<mem, pc, stack, mode, signals>>

Execute ==
    /\ child = "running" /\ Intact
    /\ \/ /\ Code[pc].op \in {"seq", "branch", "deref"}
          /\ pc' = pc + 1
          /\ UNCHANGED stack
       \/ /\ Code[pc].op = "branch"
          /\ pc' = Code[pc].to
          /\ UNCHANGED stack
       \/ /\ Code[pc].op = "call" /\ Len(stack) < MaxDepth
          /\ pc' = Code[pc].to
          /\ stack' = <<pc + 1>> \o stack
       \/ /\ Code[pc].op = "ret" /\ stack # <<>>
          /\ pc' = Head(stack)
          /\ stack' = Tail(stack)
    /\ IF mode = "step" THEN Stop("trace") ELSE UNCHANGED <<child, event>>
    /\ UNCHANGED <<mem, mode, signals>>

(* A signal from outside arrives before the next instruction.              *)
Interrupted ==
    /\ child = "running" /\ signals < MaxSignals
    /\ \E e \in {"user", "segv", "other"} : Stop(e)
    /\ signals' = signals + 1
    /\ UNCHANGED <<mem, pc, stack, mode>>

(* SIGKILL from outside, which nothing holds back; the pending stop, if    *)
(* waitpid has not reported it, is never seen.                             *)
Killed ==
    /\ child \in {"stopped", "running"} /\ signals < MaxSignals
    /\ child' = "dead" /\ event' = "kill"
    /\ signals' = signals + 1
    /\ UNCHANGED <<mem, pc, stack, mode>>

ChildStep == Trap \/ Illegal \/ Fault \/ Exit \/ Execute
=============================================================================
