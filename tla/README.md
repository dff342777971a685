# Peek: specification, model checking and proofs

Peek (`src/`) is a ptrace debugger in about 3500 lines of C++. This directory
holds TLA+ models of it, the TLC runs that check them on small instances, and
theorems about them that TLAPS checks for every value of the constants.

## 1. Inventory

| Component | Source | State | Operations |
|---|---|---|---|
| Debugger session | `debugger.cpp`, `command.cpp`, `state.h`, `main.cpp` | `state_`, `retAddrFromMain_`, where the one thread is | `run`, `initialize`, `waitForSignal`, `handleCommand`, `handleChildState`, `cleanup`, `continueExecution` |
| Breakpoints | `breakpoint.cpp`, `breakpointmanager.cpp` | `addrToBp_`: address to `enabled_`, `data_` | `enable`, `disable`, `setBreakpointAt*`, `removeBreakpoint`, choice among several matches |
| Stepping | `step.cpp` | none of its own; local stack snapshots | `singleStep`, `singleStepBreakpointCheck`, `stepOverBreakpoint`, `stepIn`, `stepOver`, `stepOut`, `skip`, `jump` |
| Registers, memory | `register.cpp` | none; GETREGS/SETREGS, PEEKDATA/POKEDATA | read and write a register or a word |
| Memory map | `memorymap.cpp` | `chunks_`, a copy of `/proc/pid/maps`; the load address | the constructor, `reload`, `getChunkFromAddr`, `initializeMapsAndLoadAddress` |
| Symbols | `symbolmap.cpp`, `config.cpp` | `nonStrictSymbolCache_`; `lruList_`, `lruMap_` | `getSymbolListFromName`, `touchKey`, `configureCache`, `clearCache` |
| DWARF, backtrace | `debugger.cpp`, `breakpointmanager.cpp` | `functionDies_` | function and line of an address, address of a function or line, `printBacktrace` |
| Readable names | `util.cpp` | none; edits a text in place, pass by pass | `demangledToReadable` |
| Text | `command.cpp`, `util.cpp` | `prevArgs`, `std::cin` | splitting, prefixes, numbers, `promptYesOrNo` |
| Settings | `config.cpp` | number of context lines | get, set |
| The child and the kernel | not in `src/` | memory, rip, stack, pending event | run, stop, exit, be signalled or killed |

How they interact. One thread runs everything. It calls down from a command to
the ptrace calls, and blocks in `waitpid`, in linenoise, or in a read of
`std::cin`. The concurrency is between this thread and the child, and with
whatever sends signals to the child. `state_` is written in three places
(`waitForSignal`, the quit command, `handleChildState`) and read after every
command. The byte under a breakpoint is shared by the `Breakpoint` object, the
child, and the user's `write_memory`. `std::cin` is shared by two ways of
reading it. The cache of symbols and the record of its use are two objects kept
in step by calls from one to the other.

What is hard. A breakpoint is out of the child for the length of one
instruction while it is stepped off, and that step may end in a fault, an exit,
a foreign signal or a kill. The end of the child may be reported deep inside a
command. The exit has four variants that must each take the int3s out, or
leave nobody to be hurt by them. `retAddrFromMain_` is a raw pointer into a
hash table. PROJECT.json lists these and the others under "hazards", each with
the line where it bites.

What makes each part correct:
- Breakpoints: the child's bytes are the program's under an overlay of exactly
  the armed breakpoints; what is armed is what was asked for; none is run past.
- Session: the prompt never comes back after the end of the child was reported;
  commands return; the exit comes to its end; no int3 is left in a child let go.
- Symbols: the cache is invisible, within its limits, and evicts by use.
- Stepping: a step command ends, stops at every line it should, and leaves the
  user's breakpoints as they were, however it was cut short.
- The debuggee: debugged, it executes what it would execute alone.
- Memory map, DWARF, backtrace: what is shown is what the child's memory and the
  debug information say now; a walk over frames or DIEs ends and is exact.
- Readable names: the passes over the text do what one pass over the tree of
  templates would, and end.

## 2. Modules

| Module | Models |
|---|---|
| `Tracee` | the child, as `main` starts it, and the kernel as the calls of `src/` rely on them (external) |
| `BreakpointTable` | `addrToBp_` over the child's memory; `Breakpoint::enable`, `disable`, set, remove, the loop of `cleanup` |
| `Session` | the whole session on top of both: attach, `initialize`, prompt and commands, `waitForSignal`, the exit |
| `MCSession` | a debuggee of eleven instructions |
| `Program` | abstract: a program that executes its own instructions, and a user who edits it; `Session` and `Stepping` implement it |
| `Stepping` | `step_in`, `next`, `finish` on top of `Session` |
| `MCStepping` | the same debuggee with lines, functions and code without lines |
| `MemoryMap` | `/proc/pid/maps` as the kernel shows it, `chunks_`, `getPathFromFullPathname`, the load address |
| `FunctionDies` | `functionDies_` and the scans over it; the address a function name or a line stands for |
| `Backtrace` | both of them over a child with a stack of words: stops, `backtrace`, `breakpoint` by name and by line |
| `MCBacktrace` | a main with callees with and without frames, one described by DW_AT_ranges only, a library, regions that come and go |
| `Readable` | `demangledToReadable`, one action per edit of the text |
| `NameTrees` | names as trees of templates, and what is to become of one: the reference for `Readable` |
| `MCReadable` | 1038 names |
| `SymbolLookup` | abstract: what a lookup promises, with no cache |
| `SymbolCache` | cache, record of use and limits; implements `SymbolLookup` |
| `MCSymbolCache` | four names over three symbols |
| `BreakpointTableProofs` | lemmas on each operation of the table |
| `SessionProofs` | a session: its types and control, the breakpoint invariant, what follows from both |
| `SteppingProofs` | the same for a session with step commands: within and between plans |
| `ProgramProofs` | `Session` and `Stepping` implement `Program` |
| `SequenceLemmas` | induction over the natural numbers as a lemma on sets, and facts about sequences that rest on it |
| `SymbolCacheProofs` | the invariant of the cache, eviction, and that it implements `SymbolLookup` |
| `ReadableProofs` | depth of angles in a text; what each pass does to it |
| `InspectionProofs` | the stack, the mappings, the chunks, the scans and the walk: what `backtrace` and a breakpoint by name or line find |

`Session` EXTENDS `BreakpointTable`, which EXTENDS `Tracee`; they share the
child's variables because the code's operations do (`disable` writes the child's
memory in the middle of a command). `Stepping` EXTENDS `Session`.
`SymbolCache` and `Readable` stand alone: their callers touch nothing else.
`Backtrace` EXTENDS `MemoryMap` and `FunctionDies`, and has a child of its own,
with what `Tracee` leaves out (rbp, the words of the stack, mappings) and
without what the inspections never look at (breakpoints, signals).

### State and actions of Session

`state` is `state_`. `at` is where the thread is: in `waitpid` ("wait"), back
from it or from a command with nothing to wait for ("returned"), about to call
`continueExecution` ("continue"), reading main's return address ("initRet"), at
the prompt, in `handleChildState` ("ending"), or gone ("exited", "aborted" when
an exception went uncaught). `cmd` remembers who called, `over` the breakpoint
`stepOverBreakpoint` is in the middle of.

A call that waits is cut at its `waitpid`, and only there: until then the child
is stopped and nothing but a SIGKILL can interfere. So `continueExecution`
from a breakpoint is `ContinueExecution` (disable, PTRACE_SINGLESTEP),
`WaitForSignal`, `ReEnable` (enable, PTRACE_CONT), `WaitForSignal`, with steps
of the child in between. A kill between two ptrace calls of one action has the
effect of a kill before or after the action, except between `waitpid` and
PTRACE_GETSIGINFO, which then throws: `SignalInfoThrows`.

Data is abstracted. Instructions are one address long and of six kinds (go on,
branch, call, return, access memory, exit). A word is a range of addresses.
The register rbp is not there: where the code reads `rbp + 8` after the stop in
main, the model reads the top of the stack if the child did stop at main's
breakpoint, and otherwise any value of `Junk`. rip read from a dead child is any
value of `Junk` too (GETREGS fails and the buffer is uninitialized). Which
source a run command prints is left out; that the file may fail to open
(`NoSource`), and that reading rip out of the map sets `kill`, are not.
`Initialize` has every way out of the code before the child runs: it throws (no load
address, no functions, a main without low pc or line entry, a wrong selection), selects among several
functions called main, which leaves a newline (`several`), and goes on with or without
a breakpoint on main.

History variables: `text` is what the child's memory would be without Peek's
breakpoints, `intent` the addresses at which a breakpoint is wanted, `clobbered`
the armed breakpoints the user wrote over. The last is exempted from the
properties: `write_memory` there is the user's own doing and the code has no
provision for it.

### Program

Five variables: the code, the addresses written over under a breakpoint
(`edited`), rip, the return addresses, and whose turn it is ("program", "user" at
a prompt, "over"). `Session` maps its code to `text` (its
own int3s taken out), its rip to `Rip` (before the int3, if one was executed
and is not yet reported) and gives the user the turn only at the prompt.
`Stepping` gives it also at the question "Revert state and step-over?".

### Stepping

The three commands call each other in tail position, so the stack of calls is
one variable: `plan` is what is to be called next ("stepIn", "stepOver",
"stepOut"), or where a command is ("line": in the loop of `stepIn`; "ask": at its
question; "go": its breakpoints are set; "last": it ends at the next return of
control). While `plan` is not "none" only the waiting half of `Session` runs, and
each action of a plan is what the code does up to the next `waitpid`. `start` is
the line, function, registers and stack snapshot remembered at the start, `temps`
is `addrshouldRemove`: each temporary breakpoint with what happens to it at the
end. `before` (the table when the command was typed) and `rewritten` (entries
the user has written over) are history.

rbp is `Framed`: at such an instruction rbp is the function's own frame, at
others it is the caller's. Where there is no caller the word read is any value
of `Junk`, and the read may throw. Reading a word of all ones throws too, which
`OnesOnStack` brings about for the snapshot; for a dead child each read may throw, in
`StepIn` as well. Putting the snapshot back (`Restored`) restores the words it
covers, which begin above rsp, and leaves the others as the other code left them.

### MemoryMap, FunctionDies, Backtrace

`maps` is the file `/proc/pid/maps`, its lines in the order of their addresses;
`chunks` is what Peek made of it at the last stop, or `<<>>` before the first. A path
is a sequence of the parts the parser looks for (a slash, a bracket, a blank, ".so",
a dot) and whatever stands between them; `PathOf` classifies it. The name between
brackets is a view of a string that is destroyed by then, so whether it still reads
as it was (`intact`) is open at every read of the file.

`functionDies` is `functionDies_`, the listed dies of each unit; `Visited` is the scan
that runs along a unit and its offsets, one step past their end included, where
`past` is the word that lies behind the vector. A die has a low pc, `DW_AT_ranges` only, or
neither; `at_low_pc` throws for the last two, which ends a backtrace (`ShownName`,
`PrintFrame`) and a search by name (`FunctionThrows`). A debugger meets one such word
(`scan`); which one is open, so the properties name the scans it spoils (`Stray`).
Units, dies and line tables are constants; `DwarfAssumption` says that dies come in
the order of their offsets and line entries in that of their addresses.

The child has `pc`, `rbp`, `rsp` and a stack of words, each a return address, a saved
rbp or anything, and `calls` remembers, as history, which functions are active
and how far each is in setting up rbp or putting it back. `backtrace` is a walk over
data, one frame per step (`fp`, `frames`). `Meddle` is `register_write` of rbp and
`write_memory`: afterwards the words may be anything, a circle included.

### Readable

A name is a sequence of tokens: words, angles, brackets and
commas. The code searches for characters, and so finds an entry of its lists inside a
longer name too; such a name is written as two tokens (`std::less`, `_equal`), so that a search
for the entry finds it. `Names` and `Text` are constants of the module: any names, and the tokens of
each. `NameTrees` gives them as trees for the runs. `readable` is the text, `pass` and `entry` say which list, and which name of
it, the loops are at, and `from` where the next search begins. Each action is one
iteration: find the name, replace it, delete it with its angles, or cut the
arguments behind the first ones. The reference, `Short`, is a recursion over
the tree; `Misread` names the two kinds of names for which the passes do something else.
`openAngleCount` and the position of the angle that closes a template are
given by `Depth`, the number of angles open behind a token: the code's counter is
its difference from where the counting began.

### SymbolCache

Lists of symbols are sets (all operations keep the order of the ELF tables).
`recency` is history: every name looked up, in order, which gives "least
recently used" a meaning that does not depend on `lruList_`.

## 3. Runs

| Run | Checks | Bounds |
|---|---|---|
| `session_safety` | `TypeOK`, `TextIsOverlay`, `Reachable`, `MainRetLive`, `ArmedAsAsked`, `NoBreakpointMissed`, `NoTrapLeftBehind`, `NoPromptAfterEnd`, and that `Session` implements `Program` (`ProgramUndisturbed`) | every command; one signal from outside |
| `session_live` | `EndingEnds`, `CommandReturns`, under fairness | run, breakpoint, jump, register and quit commands; one signal |
| `symcache` | `TypeOK`, `InStep`, `WithinLimits`, `EvictsLeastRecent`, and that `SymbolCache` implements `SymbolLookup` (`Transparent`) | four names, sizes 1 to 3 and the initial 7, minimal lengths 0, 3, 4 |
| `stepping` | `StepTypeOK`, `TempsExist`, `ArmedAsAskedBetweenPlans`, `NextStopsAtEveryLine`, `StepOverlay`, `NoBreakpointMissed`, `PlanRestoresTable`, `StepsUndisturbed`, `PlanEnds`, under fairness | the three step commands among breakpoints of the user, with `write_memory` on one; one signal from outside |
| `inspect` | `TypeOK`, `BacktraceIsCallChain`, `BacktraceSurvives`, `ChunksAreCurrent`, `BreakpointInFunction`, `BreakpointOnLine`, `ScansAreExact`, `WalkClimbs`, `BacktraceEnds` | one inspection after another of a child that calls, maps and unmaps |
| `readable` | `TypeOK`, `ReadableIsShort`, `NeverThrows`, `AnglesBalanced`, `ReadableProgresses`, `ReadableEnds` | names nested up to four deep |
| `stepping_progress` | violates `StepInAborts` | as `stepping` |
| `session_mainret` | violates `MainReturnCheckNeverHits` | no signals |
| `session_abort` | violates `EndedLeavesNormally` | no signals, no rip commands; breakpoints at 1 and 2 |
| `session_fault` | violates `FaultPausesChild` | no signals |
| `session_prompt` | violates `UserDecidesAboutChild` | no signals |
| `symcache_zero` | violates `NeverOutOfSync` | sizes 0 and 2 |

Bounds and why they suffice. The debuggee has one instruction of each kind, a
function called from main and a C library around it, so that every way a child
can stop, fault, be stepped or end is there, at an address that can hold a
breakpoint and at main's return. Breakpoints are named at main's return address
(1), on an access that may fault (5), and at an address whose word ptrace cannot
reach (10). rip is set to a return breakpoint, to the middle of the program, to
a place without source and outside the map. Words written are all ones, which
`readMemory` takes for an error, and one that contains an int3. One signal from
outside (`MaxSignals`) can come at every point; the properties concern one
interrupted wait at a time, and the theorems hold for any number. `MaxDepth`
bounds the child's stack. In `symcache` four names against at most three places
make every eviction order happen; two names share a length on purpose.

`MCStepping` has a main of five lines that calls a function f of three, one of
them with two instructions and a call of the C library; a function whose low pc no
line entry covers; code without lines around and below main; and an access that
may fault. With a breakpoint of the user inside main, which may be written over, that
is every way a step command can be cut short or turn into another. `MCBacktrace`
has a library function that calls main, main, a function of the program that calls
itself, one that is described by DW_AT_ranges only, and a library function that calls back and keeps anything in rbp. Two units
have a function of the same name, a function with one line address, a line whose
entries come from a header, reserved names, and a type behind the last function that
a stray word may name. Up to four functions are active on a stack of two pages, of
which one is mapped at first, and `Meddle` can tie the frames into a circle. `MCReadable` takes each of the containers
and of the verbose names of the source that differ in what happens to them, and
nests them four deep, so that a deletion contains, follows and is contained in
another; `Longer` holds names with an entry of the lists inside a longer one.

`session_live` leaves out `read_memory` and `write_memory`, which neither wait
nor resume. `CHECK_DEADLOCK` is on in every run: a session that is over stutters
in `Done`, and the cache never stops.

Fairness (`Fairness`). Weak fairness on the steps of the child: a running
process is scheduled. Weak fairness on what the debugger does without the user:
it is one thread that is never blocked but in `waitpid` and at a prompt, so an
enabled next step of it is eventually taken. The questions of the exit are
answered, since they are part of those steps; nothing forces the user to type a
command. There is no fairness on signals or on particular outcomes of a branch.
`CommandReturns` therefore relies on a debuggee that cannot loop for ever, as
that of `MCSession` cannot: a command that continues a looping program rightly
never returns.

`Stepping` has the same fairness, with that of a plan in place of a command; it
needs it, since a plan that waits for the user ("ask") is answered by assumption.
`Backtrace` is weakly fair on the steps of one walk and `Readable` on its loops:
each is a loop of one thread that waits for nothing.

### Disagreements with comments

The six violation runs are recorded under "findings" with the lines they quote:
the test in `singleStepBreakpointCheck` that "will never hit" does; a child that
ends inside `stepOverBreakpoint` makes `continueExecution` throw instead of
leaving (the user has a breakpoint on the instruction that exits, reaches it and continues);
a fault inside it is continued past; a newline left by `cin >>`, already of a
selection among several functions called main, answers
the question that the user should decide; `step_in` that makes no progress never
comes to the test that would end it; and `debug 0` makes the symbol cache
lose the answer it is returning.

Two more are in the model and have no run. `jump` says "Cannot jump to unmapped memory"
(`src/src/step.cpp:421`) when it has already set rip (`JumpToInstruction`), and says it of
every target when the debuggee is not ET_DYN, for which no map is built. `readMemory` reports
a "ptrace error" (`src/src/register.cpp:153`) for every word of all ones, which ends the
debugger although the read succeeded (`ReadThrows`).

`Transparent` and `InStep` are checked for sizes of at least 1, which is what
`set_cache_max` accepts; with the 0 that the `debug` command also accepts they
do not hold, as `symcache_zero` shows.

## 4. Proofs

Assumptions: those named in `Tracee`, `BreakpointTable` and `Session`, all
about constants (addresses are natural numbers, the entry point and main's
breakpoint are mapped, memory holds bytes). The program, its size, what can be
broken at, how many signals arrive and what is typed are arbitrary.

1. `TypeCorrect` (`SessionProofs`): `Spec => [](TypeOK /\ Control)`. `TypeOK` is
   not inductive: rip is moved back by one after an int3, and that it is not 0
   then comes from `Control`. `Control` says where the debugger can be while the
   child runs, that the end of the child is pending or in `state_`, that a child
   running with a breakpoint out is single stepping on it, and that main's
   return address is not set until initialize is done.
   `NoPromptAfterEnd` follows (`PromptSafe`).
2. `TableCorrect` (`SessionProofs`): `Spec => []Table`, relative to the first.
   `Table` adds to the properties what they need to be inductive: every entry
   lies on a word ptrace can reach (else `disable` could fail), the entry being
   stepped off is disabled and wanted, and after `cleanup` nothing is wanted.
3. `OverlaySafe`, `EntriesReachable`, `MainRetSafe`, `ArmedSafe`, `NeverMissed` and `LeavesNoTrap`
   are the properties of `session_safety`, each from the two invariants.

The lemmas have one step per action. `BreakpointTableProofs` says what each
operation of the table does to `Present`, `Enabled` and `Overlay`; `QuietTable`
covers every action that leaves the table alone.

4. `Undisturbed` (`ProgramProofs`): `Spec => ProgramUndisturbed`, the refinement of
   `Program` by `Session`. Each action maps to a step of `Program` or to a stutter
   (`Hidden`, `Quiet`): an instruction of the child is one of the program
   because `Table` says that the byte it executes is the program's own unless
   it is an int3, and rip is where the program believes it because `Control`
   says when an int3 is pending. Only the commands that set rip or write memory
   are steps of the user.

5. `StepTypeCorrect` (`SteppingProofs`): `StepSpec => [](StepTypeOK /\ Control /\
   PlanControl)`. A plan makes the calls a command of the session makes (a single
   step, `continueExecution`), and the lemmas of `SessionProofs` on these calls
   serve for both. `PlanControl` adds where the debugger can be while a plan is
   pending, that the plan knows where it began by the time it may go back there,
   and that nothing else goes on while it asks its question.
6. `StepTableCorrect` (`SteppingProofs`): `StepSpec => []StepTable`. Between plans
   `Shape` holds, the part of `Table` that does not mention bytes, so that the
   lemmas of `SessionProofs` carry over (`NextTable`). Within a plan it does not: the
   temporary breakpoints are armed and not asked for. `PlanShape` says instead that
   the table is the one the plan found, except at `over`, which was enabled, and at
   each of `temps`, which was absent or disabled according to what is to become of
   it. `EndPlanTable` closes the circle: taking back `temps` from such a table gives
   the one the plan found. The bytes are a second conjunct, `Bytewise`, which
   holds whatever the table is; `TableCall` lists the calls that change them.
   Unlike `TextIsOverlay` it must know `data_` of a disabled entry too, because
   `next` disables such an entry once more.
7. `TempsAlwaysExist`, `NoTemporaryRemains`, `StepOverlaySafe`, `StepNeverMissed` and
   `PlanAlwaysRestores` are safety properties of `stepping`, from 5 and 6.
   `NextStopsAlways` is the last of them and needs one invariant more, `LinesInv`: a
   plan that continues the child, and does not single step it, is `finish`, which
   remembers no line, or `next`, and then every statement on another line is armed,
   or is the breakpoint just being stepped off, or was disabled by the user
   (`LinesArmed`). By the time the child is continued nothing is being stepped off.
   It holds under `StatementsReachable`, that ptrace reaches the word at every
   statement (else `enable` fails and `next` goes on without that breakpoint);
   TLC evaluates it for the debuggee of the run.
8. `SteppingUndisturbed` (`ProgramProofs`): `StepSpec => StepsUndisturbed`. A
   step of the session that is one of `Program` in `Undisturbed` is one here
   (`SessionStepped`); a step of a plan is hidden, except that putting back the
   registers after the question is the user's move.

Assumptions of 5 to 8: those above and `SteppingAssumption` (lines are numbers,
statements have one). Lines, functions, frames and stacks are arbitrary.

9. `SymbolCacheProofs`: `CacheTypeOK`, `CacheInStep`, `CacheWithinLimits`,
   `CacheNeverOutOfSync`, `CacheEvictsLeastRecent` and `CacheTransparent` are the
   properties of `symcache` and, for positive sizes, the one `symcache_zero`
   violates. The inductive invariant `CacheInv` says that `lruList_`, `lruMap_` and
   the cache hold the same keys, the list each once and in the order of their last
   use in `recency`; that what is cached is what a search finds; and that both
   limits hold. Order is a relation (`Before`: a stands somewhere before b), so that
   what an eviction keeps is a statement about pairs and not about positions.
   `Without` and `ToBack` are recursive functions over the length of the list; what
   they return is proved by induction on it.
   Assumed: `SymbolCache`'s assumptions, and `PositiveSizes`, that no size is set to 0.
   `set_cache_max` refuses 0; the `debug` command does not, and with it the properties
   fail (`symcache_zero`).
10. `ReadableProofs`: `ReadableTypeOK`, `ReadableStaysBalanced`,
   `ReadableNeverThrows` and `ReadableAlwaysProgresses`. The first three rest on one fact about `Depth`: where two texts agree, it
   changes alike (`DepthShift`). An edit takes out a part that opens and closes
   alike and puts in a balanced one, so the whole stays balanced (`SpliceBalanced`,
   `SubstituteFacts`). For `Replace` this holds because every entry of the list is
   balanced; for `Delete` and `Trim` because `CloseAngle` finds exactly the angle that
   closes the template (`CloseAngleFacts`), and finds one whenever the template is
   open (`CloseAngleFound`), which is why neither loop throws.
   `ReadableProgresses` is what makes `ReadableEnds` true whatever the name: an iteration
   moves on to a later pass or entry, or leaves a smaller rest of the text to search
   (`Left`: from `from` to the end, and in the second pass, which starts again at the
   beginning, all of it). It needs the invariant, since a deletion is one only if the
   angle that closes it is found.
   Assumed: `TextAssumption`, that a name is a sequence of tokens whose angles are
   balanced. The demangler writes templates so; a name with `operator<` or `operator>`
   in it is not such a name, and nothing is claimed of it.

11. `InspectionProofs` proves all invariants of `inspect`, from these invariants of its
   own, each inductive relative to those before it:
   - `StackInv` (`StackIsKept`): there is an address for the return address of every
     activation, one word or two above the next (`Shape`), and, until the user writes
     to the stack, every return address and every saved rbp is there (`Chain`). rbp
     itself is unknown while a function uses it for something else; the invariant
     says of whom each saved rbp is, not what it is. That a push overwrites nothing
     of this, and a return uncovers it, is the step that needs `Shape` for every
     pair of activations.
   - `MapsOK` (`MappingsStayApart`): the mappings are in order, one is the stack and
     reaches down to rsp, no other lies in its room, and what was loaded is still
     there, perhaps under the name of a deleted file.
   - `ChunksInv` (`ChunksAreRead`): at the prompt `chunks_` is what some read of the
     present mappings yields, and before the first stop there are none. Under
     `PlainNames` the load address is right from the first prompt on, although it is
     never read again.
   - `ScanInv`: the scan is one of those the initial state allows. That each of these is
     exact or stray is a statement about constants (`EveryScanIsExact`), proved by
     induction over the dies of a unit: as long as fewer are taken than are
     listed, the next one taken is the next one listed.
   - `FramesInv`: a frame has an address and a name of a die, or none.
   - `WalkInv` (`WalkIsKept`): fp is the frame pointer of some activation j, and what
     is printed is what the activations up to j have to show. A step goes on to the
     next activation that has set up its frame (`WalkGoesOn`), because those in
     between share its rbp; the words there are mapped since the stack is, and none
     is all ones since every return address lies in a function. The step ends the
     debugger only if that activation's caller is described by DW_AT_ranges only
     (`CallerIsSplit`).
   - `Answered`: the address a breakpoint was asked for stands while the prompt does.
   - `StandsInv`: fp is what the chain of saved rbp says of some activation. The step of a
   walk goes to an activation further down the calls, whose place is higher
   (`StandsHigher`), and that is `WalkClimbs`: no circle, though the code does not
   look for one.
   `ChunksStayCurrent`, `ScansStayExact`, `InspectionTypeOK`, `BacktraceAlwaysSurvives`,
   `BacktraceShowsCallChain`, `BacktraceClimbs`, `BreakpointStaysOnLine` and `BreakpointLandsInFunction`
   follow.
   Assumed: what `MemoryMap`, `FunctionDies` and `Backtrace` assume of their constants
   (a loader that leaves the room of the stack free, calls that return into their
   function, dies and line entries in order). Three hypotheses are written into the
   theorems that need them, and TLC evaluates them for the debuggee of the run
   (`DebuggeeAssumption`). `PlainNames`: no mapping but the executable has a path that
   reads as its own, which a blank in the path would undo. `DescribesCode`: the units
   lie apart, with their functions and lines in loaded code. `DescribesFuncs`: a
   function of the program has a die with its name and range or none of its name.
   `BacktraceSurvives`, `BreakpointOnLine`, `ScansAreExact` and `TypeOK` need none of
   the three. Of what the debug information may do to a backtrace, `BacktraceSurvives` says
   that it misnames frames, and ends the debugger in two cases: a caller that is described
   by DW_AT_ranges and has no low pc, and a scan that went past its offsets.

Induction. `NatSetInduction` (`SequenceLemmas`) is induction in the form the provers can
use: a set of numbers that holds 0, and n + 1 with every n, holds every number. It
follows from the well-foundedness of < in the library. An induction names its
set, shows both conditions, and hides the set before the lemma is cited.

Only model-checked: liveness (`EndingEnds`, `CommandReturns`, `PlanEnds`, `BacktraceEnds`,
`ReadableEnds`), since fairness is out of the prover's reach, and `ReadableIsShort`, whose
reference is a recursion over the tree of a name. Of `ReadableEnds` and `BacktraceEnds` the
part that does not depend on fairness, that each step gets closer to the end, is
`ReadableProgresses` and, on a stack nobody wrote to, `WalkClimbs`; both are proved. Every other property of a passing
run is stated by a theorem.

## 5. Not modelled, and why

- Command parsing, prefixes and numbers: text in, one choice out, no state. (The
  one exception, `std::cin` shared by two ways of reading it, is in `Session`.)
  Seen while reading: a prefix of `0x` on an argument of `memory_map chunk` makes the
  number fail to parse without a word; `validHexStol` returns false on overflow.
- Context lines: one number that decides how much is printed.
- Registers other than rip, rbp and rsp, and what is printed of them.
- The length of instructions, threads of the child (Peek does not handle them),
  and the interleaved output of the two processes.

What the models simplify, part by part:
- `Stepping`: a function with only DW_AT_ranges has no low pc and `at_low_pc`
  throws; every function of the model has one. `StepOverlay` and
  `NextStopsAtEveryLine` say where the user's own doing exempts an address: `next`
  takes back what was written over an entry of the table, and leaves a
  breakpoint the user disabled disabled.
- `Backtrace`: a function has one range, and a unit one line table. The debuggee is ET_DYN and alive. For any other the memory map is
  never built, so no breakpoint can be set and no frame is valid. A mapping whose
  path has blanks or contains ".so." is not taken for the executable, and then
  the constructor of the debugger throws (`NoLoadAddress`). A saved rbp of all ones
  ends the debugger, as every word of all ones does. The word two or more behind
  the vector of offsets is taken to match nothing. `stackTID` is never produced by
  the kernel any more. `backtrace` and a choice between functions also look up
  symbols; what that does to the cache is in `SymbolCache`, for every name.
- `Readable`: blanks are left out. The angle of `operator<` is not distinguished. What the
  model shows and the reference therefore repeats: `std::list` and `std::set` keep
  empty arguments, `std::array` loses its size, `unsigned long long` becomes
  `uint64_t long`, names that only begin like one of the list
  (`std::allocator_traits`, `std::less_equal`) are cut as well. Containers of function
  pointers with several parameters are cut at the wrong comma, and a name without
  arguments that begins like a container (`std::stacktrace_entry`) has the arguments of
  the next template cut; `Misread` names both.

Further work: the tokens of a command and the prefix search as pure operators,
if they ever keep state.
