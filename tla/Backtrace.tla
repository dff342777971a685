----------------------------- MODULE Backtrace -----------------------------
(***************************************************************************)
(* The commands that only look: backtrace, and the search for the address  *)
(* of a breakpoint by function name or source line.  They are composed     *)
(* with a child that calls and returns, grows its stack and maps memory    *)
(* between the stops, and with a user who may write to a register or to    *)
(* memory before asking.                                                   *)
(***************************************************************************)
EXTENDS MemoryMap, FunctionDies, FiniteSets, TLC

CONSTANTS
    Align,       \* 8 in the code: the size of a word of memory, in bytes
    Funcs,       \* the child's functions: [name, low, high, framed], absolute
    Returns,     \* return addresses of the calls in each function
    CallGraph,   \* pairs <<caller, callee>>
    Data,        \* the words outside the stack, a function of their address
    StackTop, StackLimit, Page,   \* where the stack may lie; it grows by Page
    Junk,        \* what a function without a frame keeps in rbp
    Words, PokeAddrs,   \* what the user writes, and where
    Extra,       \* lines that come and go in /proc/pid/maps
    Names, Lines,       \* what the user asks a breakpoint for
    MaxDepth,    \* bound: activations on the stack
    MaxFrames    \* bound: frames remembered of one backtrace

Ones == -1     \* a word of all ones
None == -2     \* no address

ASSUME BacktraceAssumption ==
    /\ Align \in Nat /\ Align > 1
    /\ Words \subseteq Int /\ Junk \subseteq Int
    /\ MaxDepth \in Nat /\ MaxFrames \in Nat \ {0}

(* A function sets up rbp and puts it back; its calls return behind it.    *)
ASSUME FunctionsAssumption ==
    /\ Funcs \in Seq([name : STRING, low : Nat, high : Nat, framed : BOOLEAN]) /\ Funcs # <<>>
    /\ \A f \in DOMAIN Funcs :
          Funcs[f].low + 2 < Funcs[f].high /\ Returns[f] \subseteq Funcs[f].low + 1 .. Funcs[f].high

(* Other lines lie beside those that are loaded.                           *)
ASSUME ExtraAssumption ==
    /\ Extra \subseteq MapLine
    /\ \A line \in Extra :
          /\ line.low < line.high
          /\ \A i \in DOMAIN Loaded :
                line.high <= Loaded[i].low \/ Loaded[i].high <= line.low

(* The kernel keeps the room from StackLimit to StackTop for the stack; at *)
(* first some pages at its end are mapped.                                 *)
OutsideStack(line) == line.high <= StackLimit \/ StackTop <= line.low

IsStack(line) ==
    /\ line.high = StackTop /\ line.low >= StackLimit /\ (StackTop - line.low) % Page = 0
    /\ "r" \in line.perms

ASSUME StackAssumption ==
    /\ StackLimit \in Nat \ {0} /\ StackTop \in Nat /\ Page \in Nat
    /\ StackTop % Align = 0 /\ Page % Align = 0 /\ Page >= Align
    /\ (StackTop - StackLimit) % Page = 0
    /\ \E s \in DOMAIN Loaded : IsStack(Loaded[s])
    /\ \A line \in ToSet(Loaded) \cup Extra : IsStack(line) \/ OutsideStack(line)
    /\ \A a \in DOMAIN Data : a \in Int /\ Data[a] \in Int /\ ~(StackLimit <= a /\ a < StackTop)

VARIABLES
    word,      \* memory: stack and Data
    pc, rbp, rsp,
    calls,     \* history: the activations, innermost first
    meddled,   \* history: the user wrote to memory or to rbp
    scan,      \* the dies a scan of each unit takes for listed functions
    at,        \* "start", "running", "prompt", "walk", "done", "aborted"
    fp,        \* printBacktrace's fp
    frames,    \* what it printed
    asked      \* the last breakpoint asked for, and its address

childVars == <<word, pc, rbp, rsp, calls>>
lookVars == <<at, fp, frames, asked>>
lookingVars == <<mapVars, childVars, meddled, scan, lookVars>>

NothingAsked == [what |-> "none", key |-> None, choice |-> 0, addr |-> None]

TypeOK ==
    /\ InOrder(chunks) /\ \A i \in DOMAIN chunks : chunks[i].path \in Paths
    /\ rsp \in StackLimit .. StackTop /\ rsp % Align = 0
    /\ calls # <<>> /\ \A i \in DOMAIN calls : calls[i].func \in DOMAIN Funcs
    /\ at \in {"start", "running", "prompt", "walk", "done", "aborted"}
    /\ Len(frames) <= MaxFrames
    /\ \A i \in DOMAIN frames : frames[i].func = "" \/
          \E u \in DOMAIN Units : \E d \in ToSet(Units[u].dies) : frames[i].func = d.name

StackWords == {a \in StackLimit .. StackTop - 1 : a % Align = 0}

Init ==
    /\ MapsInit
    /\ word = [a \in DOMAIN Data \cup StackWords |-> IF a \in DOMAIN Data THEN Data[a] ELSE 0]
    /\ calls = <<[func |-> 1, ret |-> None, phase |-> "entered"]>>
    /\ pc = Funcs[1].low /\ rsp = StackTop /\ rbp = 1
    /\ meddled = FALSE /\ scan \in {Scan(p) : p \in Past}
    /\ at = "start" /\ fp = 0 /\ frames = <<>> /\ asked = NothingAsked

-----------------------------------------------------------------------------
(* The child.  Its first function is the one of the C library that calls   *)
(* main.                                                                   *)
Top == calls[1]
Phase(p) == [calls EXCEPT ![1].phase = p]

(* A push below the mapped stack makes the kernel map another page.        *)
Push(v) ==
    /\ rsp - Align >= StackLimit
    /\ rsp' = rsp - Align
    /\ word' = [word EXCEPT ![rsp'] = v]
    /\ IF \E i \in DOMAIN maps : Covers(maps[i], rsp') THEN UNCHANGED mapVars
       ELSE SetMaps([i \in DOMAIN maps |->
                        IF maps[i].high = StackTop
                        THEN [maps[i] EXCEPT !.low = @ - Page] ELSE maps[i]])

CallFunction(f, ret) ==
    /\ Top.phase \in IF Funcs[Top.func].framed THEN {"framed"} ELSE {"entered", "scratch"}
    /\ <<Top.func, f>> \in CallGraph /\ Len(calls) < MaxDepth
    /\ Push(ret)
    /\ pc' = Funcs[f].low
    /\ calls' = <<[func |-> f, ret |-> ret, phase |-> "entered"]>> \o calls
    /\ UNCHANGED rbp

PushRbp ==
    /\ Top.phase = "entered" /\ Len(calls) > 1
    /\ Push(rbp)
    /\ pc' = Funcs[Top.func].low + 1 /\ calls' = Phase("pushed")
    /\ UNCHANGED rbp

(* mov rbp, rsp; or, without a frame, any other use of rbp.                *)
SetRbp(v) ==
    /\ Top.phase = "pushed"
    /\ rbp' = IF Funcs[Top.func].framed THEN rsp ELSE v
    /\ calls' = Phase(IF Funcs[Top.func].framed THEN "framed" ELSE "scratch")
    /\ pc' = Funcs[Top.func].low + 2
    /\ UNCHANGED <<word, rsp, mapVars>>

Leave ==
    /\ Top.phase \in {"framed", "scratch"}
    /\ rbp' = word[rsp] /\ rsp' = rsp + Align
    /\ calls' = Phase("left") /\ pc' = Funcs[Top.func].high - 1
    /\ UNCHANGED <<word, mapVars>>

(* A call that ends its function does not return.                          *)
Return ==
    /\ Top.phase = "left" \/ (Top.phase = "entered" /\ ~Funcs[Top.func].framed)
    /\ Len(calls) > 1 /\ Top.ret < Funcs[calls[2].func].high
    /\ pc' = Top.ret /\ rsp' = rsp + Align
    /\ calls' = Tail(calls)
    /\ UNCHANGED <<word, rbp, mapVars>>

ChildRuns ==
    /\ at = "running" /\ ~meddled
    /\ \/ \E f \in DOMAIN Funcs : \E ret \in Returns[Top.func] : CallFunction(f, ret)
       \/ PushRbp \/ Leave \/ Return
       \/ \E v \in Junk : SetRbp(v)
    /\ UNCHANGED <<meddled, scan, lookVars>>

AddressSpaceChanges ==
    /\ \/ at \in {"start", "running"} /\ ReplaceExec
       \/ at = "running" /\ \E line \in Extra : MapRegion(line) \/ UnmapRegion(line)
    /\ UNCHANGED <<childVars, meddled, scan, lookVars>>

-----------------------------------------------------------------------------
(* Stops and commands.                                                     *)

(* initialize, for an ET_DYN debuggee.                                     *)
Start(intact) ==
    /\ at = "start"
    /\ \/ /\ InitializeMaps(intact) /\ at' = "prompt"
       \/ /\ NoLoadAddress(intact) /\ at' = "aborted"
          /\ UNCHANGED mapVars
    /\ UNCHANGED <<childVars, meddled, scan, fp, frames, asked>>

ChildStops(intact) ==
    /\ at = "running"
    /\ Reload(intact) /\ at' = "prompt"
    /\ UNCHANGED <<childVars, meddled, scan, fp, frames, asked>>

AtPrompt == at \in {"prompt", "done"}

Resume ==
    /\ AtPrompt
    /\ at' = "running" /\ fp' = 0 /\ frames' = <<>> /\ asked' = NothingAsked
    /\ UNCHANGED <<mapVars, childVars, meddled, scan>>

(* register_write rbp, write_memory.                                       *)
Meddle ==
    /\ AtPrompt /\ ~meddled
    /\ meddled' = TRUE
    /\ \/ rbp' \in Words /\ UNCHANGED word
       \/ \E a \in PokeAddrs, w \in Words : word' = [word EXCEPT ![a] = w]
          /\ UNCHANGED rbp
    /\ at' = "prompt" /\ fp' = 0 /\ frames' = <<>> /\ asked' = NothingAsked
    /\ UNCHANGED <<mapVars, pc, rsp, calls, scan>>

-----------------------------------------------------------------------------
(* printBacktrace.                                                         *)
Offset(addr) == addr - loadAddress

PrintFrame(addr) ==
    LET func == FunctionAt(Offset(addr), scan)
    IN  IF func = "throws" THEN at' = "aborted" /\ UNCHANGED frames
        ELSE /\ at' = "walk"
             /\ frames' = IF Len(frames) < MaxFrames
                          THEN Append(frames, [func |-> func, pc |-> addr]) ELSE frames

PrintBacktrace ==
    /\ AtPrompt /\ frames = <<>>
    /\ fp' = rbp
    /\ PrintFrame(pc)
    /\ asked' = NothingAsked
    /\ UNCHANGED <<mapVars, childVars, meddled, scan>>

IsValidFramePointer(p) == p # 0 /\ p % Align = 0 /\ CanRead(p)

(* readMemory: PEEKDATA fails, or yields what looks like its failure.      *)
Unreadable(addr) ==
    \/ \A i \in DOMAIN maps : ~Covers(maps[i], addr)
    \/ addr \in DOMAIN word /\ word[addr] = Ones
Peek(addr) == IF addr \in DOMAIN word THEN word[addr] ELSE 1

(* Mutant of NextFrame: the return address is printed as it is.            *)
NextFrameAtReturn ==
    /\ at = "walk" /\ IsValidFramePointer(fp)
    /\ IF Unreadable(fp + Align) \/ Unreadable(fp)
       THEN at' = "aborted" /\ UNCHANGED <<fp, frames>>
       ELSE /\ fp' = Peek(fp)
            /\ PrintFrame(Peek(fp + Align))
    /\ UNCHANGED <<mapVars, childVars, meddled, scan, asked>>

(* Mutant of NextFrame: fp is read before the return address.              *)
NextFrameSwapped ==
    /\ at = "walk" /\ IsValidFramePointer(fp)
    /\ IF Unreadable(fp) \/ Unreadable(Peek(fp) + Align)
       THEN at' = "aborted" /\ UNCHANGED <<fp, frames>>
       ELSE /\ fp' = Peek(fp)
            /\ PrintFrame(Peek(Peek(fp) + Align) - 1)
    /\ UNCHANGED <<mapVars, childVars, meddled, scan, asked>>

(* Mutant of NextFrame: fp is not followed.                                *)
NextFrameStays ==
    /\ at = "walk" /\ IsValidFramePointer(fp)
    /\ IF Unreadable(fp + Align) \/ Unreadable(fp)
       THEN at' = "aborted" /\ UNCHANGED <<fp, frames>>
       ELSE UNCHANGED fp /\ PrintFrame(Peek(fp + Align) - 1)
    /\ UNCHANGED <<mapVars, childVars, meddled, scan, asked>>

NextFrame ==
    /\ at = "walk" /\ IsValidFramePointer(fp)
    /\ IF Unreadable(fp + Align) \/ Unreadable(fp)
       THEN at' = "aborted" /\ UNCHANGED <<fp, frames>>
       ELSE /\ fp' = Peek(fp)
            /\ PrintFrame(Peek(fp + Align) - 1)
    /\ UNCHANGED <<mapVars, childVars, meddled, scan, asked>>

LastFrame ==
    /\ at = "walk" /\ ~IsValidFramePointer(fp)
    /\ at' = "done"
    /\ UNCHANGED <<mapVars, childVars, meddled, scan, fp, frames, asked>>

-----------------------------------------------------------------------------
(* breakpoint <name> and breakpoint <file>:<line>, up to the address.      *)
Ask(what, key, choice, targets) ==
    /\ \E addr \in IF targets = {} THEN {None} ELSE {a + loadAddress : a \in targets} :
          asked' = [what |-> what, key |-> key, choice |-> choice, addr |-> addr]
    /\ at' = "prompt" /\ fp' = 0 /\ frames' = <<>>

(* Bound: one question at a stop, before main; the answer depends neither  *)
(* on the child nor on an earlier question.                                *)
MayAsk == at = "prompt" /\ Len(calls) = 1 /\ ~meddled /\ asked = NothingAsked

AskFunction(name, choice) ==
    /\ MayAsk
    /\ IF FunctionThrows(name, scan)
       THEN at' = "aborted" /\ fp' = 0 /\ frames' = <<>> /\ UNCHANGED asked
       ELSE Ask("function", name, choice, FunctionTargets(name, choice, scan))
    /\ UNCHANGED <<mapVars, childVars, meddled, scan>>

AskLine(l, choice) ==
    /\ MayAsk
    /\ Ask("line", l, choice, LineTargets(l[1], l[2], choice))
    /\ UNCHANGED <<mapVars, childVars, meddled, scan>>

-----------------------------------------------------------------------------
Walking == NextFrame \/ LastFrame

Done == at = "aborted" /\ UNCHANGED lookingVars

Next ==
    \/ ChildRuns \/ AddressSpaceChanges
    \/ \E intact \in BOOLEAN : Start(intact) \/ ChildStops(intact)
    \/ Resume \/ Meddle \/ PrintBacktrace \/ Walking \/ Done
    \/ \E choice \in 0 .. 2 :
          \/ \E name \in Names : AskFunction(name, choice)
          \/ \E l \in Lines : AskLine(l, choice)

Spec == Init /\ [][Next]_lookingVars

(* The loop of printBacktrace runs without waiting for anyone.             *)
FairSpec == Spec /\ WF_lookingVars(Walking)

-----------------------------------------------------------------------------
(* What may be supposed of the debuggee: nothing below depends on it but   *)
(* what is said to.                                                        *)

(* The path of the debuggee has no blank, and no other name of a mapping   *)
(* reads as that of the executable: neither after its last blank nor as    *)
(* the word exec in brackets.                                              *)
Deleted == Exec \o <<" ", "(deleted)">>
KnownNames == {line.name : line \in ToSet(Loaded) \cup Extra} \cup {Deleted}
ReadsAsExec(name) == \E intact \in BOOLEAN : PathOf(Shown(name), intact) = "exec"
PlainNames ==
    /\ Shown(Exec) = Exec
    /\ \A name \in KnownNames : ReadsAsExec(name) => name = Exec

(* Where the debuggee is loaded.                                           *)
Base == Min({Loaded[i].low : i \in {j \in DOMAIN Loaded : Loaded[j].name = Exec}})

(* The units lie apart, with their functions and lines in them, and all    *)
(* their lines are code that is loaded.                                    *)
DescribesCode ==
    /\ \A u, v \in DOMAIN Units :
          u # v => Units[u].high <= Units[v].low \/ Units[v].high <= Units[u].low
    /\ \A u \in DOMAIN Units :
          /\ \A d \in ToSet(functionDies[u]) : Units[u].low <= d.low /\ d.high <= Units[u].high
          /\ \A k \in DOMAIN Units[u].lines :
                LET addr == Units[u].lines[k].addr
                IN  /\ Units[u].low <= addr /\ addr <= Units[u].high
                    /\ \E i \in DOMAIN Loaded :
                          /\ OutsideStack(Loaded[i]) /\ "x" \in Loaded[i].perms
                          /\ Covers(Loaded[i], addr + Base)

(* A function of the program has a die with its name and range, or none of *)
(* its name; other dies lie apart from it.                                 *)
Describes(d, f) == d.name = f.name /\ d.low + Base = f.low /\ d.high + Base = f.high
DescribesFuncs ==
    \A f \in DOMAIN Funcs : \A u \in DOMAIN Units : \A d \in ToSet(functionDies[u]) :
        /\ Describes(d, Funcs[f]) \/ d.high + Base <= Funcs[f].low \/ Funcs[f].high <= d.low + Base
        /\ d.name = Funcs[f].name =>
              \E v \in DOMAIN Units : \E e \in ToSet(functionDies[v]) : Describes(e, Funcs[f])

-----------------------------------------------------------------------------
(* Properties.                                                             *)

(* The word behind some unit's offsets was the offset of a later die.      *)
Stray == scan \in StrayScans

(* rbp is used as a frame pointer all the way up, and nobody wrote to the  *)
(* stack: what the build flags of the README are to ensure.                *)
Framed == ~meddled /\ \A i \in DOMAIN calls : calls[i].phase # "scratch"

Reaches(i) == i < Len(calls) /\ calls[i].phase = "framed"

NameOf(f) ==
    IF \E u \in DOMAIN Units : \E d \in ToSet(functionDies[u]) : d.name = Funcs[f].name
    THEN Funcs[f].name ELSE ""

(* A backtrace shows the function that is stopped and the callers of every *)
(* activation that has set up its frame, innermost first, each at its call *)
(* and under its name; it misses no one but the caller of an activation    *)
(* that has not set up rbp or has already put it back.                     *)
BacktraceIsCallChain ==
    (at = "done" /\ Framed /\ frames # <<>> /\ ~Stray) =>
        LET up == Kept([i \in DOMAIN calls |-> i], {i \in DOMAIN calls : Reaches(i)})
        IN  /\ Head(frames) = [func |-> NameOf(calls[1].func), pc |-> pc]
            /\ Tail(frames) =
                  SubSeq([k \in DOMAIN up |->
                             [func |-> NameOf(calls[up[k] + 1].func), pc |-> calls[up[k]].ret - 1]],
                         1, Min({MaxFrames - 1, Len(up)}))

(* A listed function around an offset that has DW_AT_ranges and no low_pc. *)
SplitAt(offset) ==
    \E u \in DOMAIN Units : \E d \in ToSet(functionDies[u]) :
        d.pc = "ranges" /\ In(offset, d)

(* A backtrace of such a stack does not end the debugger: no frame is read *)
(* outside the mappings, whatever the child has mapped since the last      *)
(* stop, and none is of a function printFrame throws for, unless one of    *)
(* the callers is a function that is described by DW_AT_ranges only.       *)
BacktraceSurvives ==
    (at = "aborted" /\ frames # <<>> /\ Framed) =>
        \/ Stray
        \/ \E i \in DOMAIN calls : Reaches(i) /\ SplitAt(Offset(calls[i].ret - 1))

(* From fp on, each saved frame pointer leads to another valid one.        *)
Circular ==
    \E S \in SUBSET {p \in DOMAIN word : IsValidFramePointer(p)} :
        fp \in S /\ \A p \in S : word[p] \in S

(* backtrace comes back, also from a stack that was written over, unless   *)
(* the frame pointers lead in a circle; there it goes on for ever.         *)
BacktraceEnds == at = "walk" ~> (at # "walk" \/ Circular)

(* No counter limits the walk: on a stack that nobody wrote to each frame  *)
(* pointer it goes on from lies above the one before it and in the stack,  *)
(* though functions without a frame may have been called in between.       *)
WalkClimbs ==
    [][(at = "walk" /\ at' = "walk" /\ Framed) =>
          (IsValidFramePointer(fp') => fp < fp' /\ fp' < StackTop)]_lookingVars

(* At the prompt the debugger sees the mappings as they are: every address *)
(* in its chunk with its permissions, and as part of the executable only   *)
(* what is.                                                                *)
ChunksAreCurrent ==
    AtPrompt =>
        \A i \in DOMAIN maps : \A addr \in {maps[i].low - 1, maps[i].low, maps[i].high - 1, maps[i].high} :
            LET c == ChunkAt(addr)
                m == SelectInSeq(maps, LAMBDA line : Covers(line, addr))
            IN  /\ c = 0 <=> m = 0
                /\ c # 0 => /\ chunks[c].perms = maps[m].perms
                            /\ chunks[c].path = "exec" <=> maps[m].name = Exec

(* A breakpoint on a function by name is at an address the debugger        *)
(* accepts one at, whatever was reloaded since, and in a function of that  *)
(* name if the function has lines at two addresses at least.               *)
BreakpointInFunction ==
    (asked.what = "function" /\ asked.addr # None) =>
        /\ Breakable(asked.addr)
        /\ \/ \E u \in DOMAIN Units : \E d \in ToSet(functionDies[u]) :
                 d.name = asked.key /\ (OneLine(d) \/ In(Offset(asked.addr), d))
           \/ Stray

(* A breakpoint on a source line is on a statement of that line, of that   *)
(* file unless the unit has the same line of a header before it.           *)
BreakpointOnLine ==
    (asked.what = "line" /\ asked.addr # None) =>
        \E u \in DOMAIN Units : \E k \in DOMAIN Units[u].lines :
            LET e == Units[u].lines[k]
            IN  /\ Units[u].file = asked.key[1] /\ e.line = asked.key[2] /\ e.stmt
                /\ Offset(asked.addr) = e.addr
                /\ e.file # asked.key[1] => FromHeader(u, asked.key[2])

(* A scan takes every listed die, once and in order, and nothing else      *)
(* unless the word behind the offsets happens to be that of a later die.   *)
ScansAreExact ==
    \/ scan = functionDies
    \/ /\ Stray
       /\ \A u \in DOMAIN Units : Kept(scan[u], ListedOf(Units[u].dies)) = functionDies[u]
=============================================================================
