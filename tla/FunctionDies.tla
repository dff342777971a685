---------------------------- MODULE FunctionDies ----------------------------
(***************************************************************************)
(* functionDies_ and the line tables: which function, which line and which *)
(* address a command means.  The DWARF information does not change while   *)
(* the debugger runs; all addresses in it are offsets in the executable.   *)
(***************************************************************************)
EXTENDS Integers, SequencesExt

CONSTANTS
    Units,   \* the compilation units: [file, low, high, dies, lines]
    Past     \* what may lie in memory behind the offsets of a unit

(* A die: its name, or "" without DW_AT_name, whether the name is reserved *)
(* (__x, _X), whether it has DW_AT_low_pc, only DW_AT_ranges or neither,   *)
(* and its range; FunctionAt below says "throws" for no name.  The entries *)
(* of a line table are by address.                                         *)
DieSet == [offset : Nat, tag : STRING, name : STRING \ {"throws"}, reserved : BOOLEAN,
           pc : {"none", "low", "ranges"}, low : Nat, high : Nat]
EntrySet == [addr : Nat, line : Nat, stmt : BOOLEAN, file : STRING]
UnitSet == [file : STRING, low : Nat, high : Nat, dies : Seq(DieSet), lines : Seq(EntrySet)]

ASSUME DwarfAssumption ==
    /\ Units \in Seq(UnitSet) /\ Past \subseteq Nat
    /\ \A u \in DOMAIN Units :
          /\ \A d, e \in DOMAIN Units[u].dies :
                d < e => Units[u].dies[d].offset < Units[u].dies[e].offset
          /\ \A k, l \in DOMAIN Units[u].lines :
                k < l => Units[u].lines[k].addr <= Units[u].lines[l].addr

In(pc, r) == r.low <= pc /\ pc < r.high

(* The elements of s that are in T, of the first k and of all.             *)
KeptOfFirst(s, T) ==
    LET kept[k \in 0 .. Len(s)] ==
            IF k = 0 THEN <<>>
            ELSE IF s[k] \in T THEN Append(kept[k - 1], s[k]) ELSE kept[k - 1]
    IN  kept

Kept(s, T) == KeptOfFirst(s, T)[Len(s)]

(* initializeFunctionDies: the dies of a unit that are listed.             *)
Listed(die) ==
    die.tag = "function" /\ die.name # "" /\ die.pc # "none" /\ ~die.reserved

ListedOf(dies) == {d \in ToSet(dies) : Listed(d)}
ListedDies(u) == Kept(u.dies, ListedOf(u.dies))
Offsets(u) == [i \in DOMAIN ListedDies(u) |-> ListedDies(u)[i].offset]

(* offset[count]; at the end of the vector it is whatever lies there.      *)
OffsetAt(u, count, past) ==
    IF count < Len(Offsets(u)) THEN Offsets(u)[count + 1]
    ELSE IF count = Len(Offsets(u)) THEN past ELSE 0

(* Mutant of Visited: count is not advanced past a match.                  *)
VisitedFirst(u, past) == Kept(u.dies, {d \in ToSet(u.dies) : d.offset = OffsetAt(u, 0, past)})

(* A scan takes a die for a listed one, where count is what it has taken.  *)
Take(u, past, taken, die) ==
    IF die.offset = OffsetAt(u, Len(taken), past) THEN Append(taken, die) ELSE taken

(* What a scan of a unit takes of the first k dies, and of all.            *)
VisitedOfFirst(u, past) ==
    LET taken[k \in 0 .. Len(u.dies)] ==
            IF k = 0 THEN <<>> ELSE Take(u, past, taken[k - 1], u.dies[k])
    IN  taken

Visited(u, past) == VisitedOfFirst(u, past)[Len(u.dies)]

(* functionDies_.                                                          *)
functionDies == [u \in DOMAIN Units |-> ListedDies(Units[u])]

(* What a scan takes, with the word past behind the offsets; a unit        *)
(* without listed dies is not scanned.                                     *)
Scan(past) ==
    [u \in DOMAIN Units |->
        IF functionDies[u] = <<>> THEN <<>> ELSE Visited(Units[u], past)]

(* The word behind the offsets is the offset of a die after the last one.  *)
Reached(past) ==
    \E u \in DOMAIN Units : \E k \in DOMAIN Units[u].dies :
        /\ Units[u].dies[k].offset = past /\ functionDies[u] # <<>>
        /\ \A l \in DOMAIN Units[u].dies : Listed(Units[u].dies[l]) => l < k

StrayScans == {Scan(past) : past \in {p \in Past : Reached(p)}}

(* What the properties below except: a function with one line address,     *)
(* and a line of a header that the unit includes.                          *)
OneLine(die) ==
    \A u \in DOMAIN Units : \A k, l \in DOMAIN Units[u].lines :
        In(Units[u].lines[k].addr, die) /\ In(Units[u].lines[l].addr, die) =>
            Units[u].lines[k].addr = Units[u].lines[l].addr

FromHeader(u, line) ==
    \E k \in DOMAIN Units[u].lines :
        Units[u].lines[k].line = line /\ Units[u].lines[k].file # Units[u].file

-----------------------------------------------------------------------------
(* What printFrame asks a die for: at_name and at_low_pc throw when it has *)
(* no such attribute.                                                      *)
ShownName(die) == IF die.pc = "low" /\ die.name # "" THEN die.name ELSE "throws"

(* getFunctionFromPCOffset, and the name shown of what it finds: a die     *)
(* that is no function is asked for its range, which throws as well.       *)
FunctionsAt(pc, scan) ==
    LET Hits(u) == {k \in DOMAIN scan[u] : scan[u][k].pc = "none" \/ In(pc, scan[u][k])}
    IN  {ShownName(scan[u][Min(Hits(u))]) :
            u \in {v \in DOMAIN Units : In(pc, Units[v]) /\ Hits(v) # {}}}

(* "" for no function.                                                     *)
FunctionAt(pc, scan) ==
    IF FunctionsAt(pc, scan) = {} THEN "" ELSE CHOOSE f \in FunctionsAt(pc, scan) : TRUE

(* getLineEntryFromPC: the entry that covers pc and its unit, if any.      *)
LineEntries(pc) ==
    {e \in UNION {{u} \X DOMAIN Units[u].lines : u \in DOMAIN Units} :
        LET lines == Units[e[1]].lines
        IN  /\ In(pc, Units[e[1]]) /\ e[2] < Len(lines)
            /\ lines[e[2]].addr <= pc /\ pc < lines[e[2] + 1].addr}

-----------------------------------------------------------------------------
(* The user's selection among several matches; what is no index aborts.    *)
Selected(matches, choice) ==
    IF Len(matches) = 1 THEN {matches[1]}
    ELSE IF choice \in DOMAIN matches THEN {matches[choice]} ELSE {}

(* Mutant of AfterPrologue: the second entry of the unit.                  *)
AfterPrologueOfUnit(die) ==
    {Units[e[1]].lines[2].addr : e \in LineEntries(die.low)}

(* The address of the line entry that follows the one at low_pc.           *)
AfterPrologue(die) ==
    {Units[e[1]].lines[e[2] + 1].addr : e \in LineEntries(die.low)}

(* setBreakpointAtFunctionName: of the dies a scan takes those so called;  *)
(* one without a name, which this scan passes over, is never among them.   *)
Named(name, scan) ==
    LET dies == FlattenSeq(scan) IN Kept(dies, {d \in ToSet(dies) : d.name = name})

(* handleDuplicateFunctionNames: at_low_pc throws for a match without one, *)
(* and a match without a line entry is a logic_error.                      *)
FunctionThrows(name, scan) ==
    \E i \in DOMAIN Named(name, scan) :
        Named(name, scan)[i].pc # "low" \/ LineEntries(Named(name, scan)[i].low) = {}

FunctionTargets(name, choice, scan) ==
    UNION {AfterPrologue(d) : d \in Selected(Named(name, scan), choice)}

(* Mutant of LineMatches: entries that begin no statement count as well.   *)
LineMatchesAny(file, line) ==
    LET First(u) == SelectInSeq(u.lines, LAMBDA e : e.line = line)
        Of(u) == IF u.file # file \/ First(u) = 0 THEN <<>> ELSE <<u.lines[First(u)]>>
    IN  FlattenSeq([u \in DOMAIN Units |-> Of(Units[u])])

(* setBreakpointAtSourceLine: for each unit of that file name its first    *)
(* statement with that line, from whatever file the entry is.              *)
LineMatches(file, line) ==
    LET First(u) == SelectInSeq(u.lines, LAMBDA e : e.line = line /\ e.stmt)
        Of(u) == IF u.file # file \/ First(u) = 0 THEN <<>> ELSE <<u.lines[First(u)]>>
    IN  FlattenSeq([u \in DOMAIN Units |-> Of(Units[u])])

LineTargets(file, line, choice) ==
    {e.addr : e \in Selected(LineMatches(file, line), choice)}
=============================================================================
