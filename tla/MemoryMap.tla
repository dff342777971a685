----------------------------- MODULE MemoryMap -----------------------------
(***************************************************************************)
(* memMap_: the address space of the child as the debugger last read it    *)
(* from /proc/pid/maps, beside the address space itself.  A pathname is a  *)
(* sequence of parts; the parts "/", "[", " ", "." and ".so" are the ones  *)
(* the parser looks for.                                                   *)
(***************************************************************************)
EXTENDS Integers, SequencesExt

CONSTANTS
    Exec,      \* exec_: the resolved path of the debuggee
    Loaded     \* the lines of /proc/pid/maps after execl

MapLine == [low : Nat, high : Nat, perms : SUBSET {"r", "w", "x"}, name : Seq(STRING)]

(* The kernel lists the mappings by address.                               *)
InOrder(lines) ==
    \A i \in DOMAIN lines :
        /\ lines[i].low < lines[i].high
        /\ \A j \in 1 .. i - 1 : lines[j].high <= lines[i].low

ASSUME MemoryMapAssumption ==
    /\ Exec # <<>> /\ Exec[1] = "/"
    /\ Loaded \in Seq(MapLine) /\ InOrder(Loaded)

VARIABLES
    maps,         \* the kernel's mappings of the child, by address
    chunks,       \* chunks_
    loadAddress   \* loadAddress_

mapVars == <<maps, chunks, loadAddress>>

Paths == {"stack", "stackTID", "heap", "vdso", "vvar", "vsyscall", "exec", "so", "mmap", "anon"}

-----------------------------------------------------------------------------
(* Classification of a line.                                               *)

(* What follows the last blank: a pathname with blanks loses its beginning.*)
Shown(name) == SubSeq(name, SelectLastInSeq(name, LAMBDA p : p = " ") + 1, Len(name))

(* The first ".so" ends the pathname or is followed by a dot.              *)
IsSharedObject(name) ==
    LET i == SelectInSeq(name, LAMBDA p : p = ".so")
    IN  i # 0 /\ (i = Len(name) \/ name[i + 1] \in {".", ".so"})

Descriptor(word) == IF word \in Paths THEN word ELSE "anon"

(* intact: whether the name between brackets, a view of a string that is   *)
(* already destroyed, still reads as it was.                               *)
PathOf(name, intact) ==
    CASE name = <<>> -> "anon"
      [] name # <<>> /\ name[1] = "/" ->
            IF IsSharedObject(name) THEN "so" ELSE IF name = Exec THEN "exec" ELSE "mmap"
      [] name # <<>> /\ name[1] = "[" ->
            IF intact THEN Descriptor(name[2]) ELSE "anon"
      [] OTHER -> IF Len(name) = 1 THEN Descriptor(name[1]) ELSE "anon"

(* Mutant of Chunk: what begins with the path of the executable is it.     *)
ChunkOfPrefix(line, intact) ==
    [low |-> line.low, high |-> line.high, perms |-> line.perms,
     path |-> IF IsPrefix(Exec, line.name) THEN "exec" ELSE PathOf(Shown(line.name), intact)]

Chunk(line, intact) ==
    [low |-> line.low, high |-> line.high, perms |-> line.perms,
     path |-> PathOf(Shown(line.name), intact)]

(* The constructor: one chunk for each line.                               *)
Parsed(intact) == [i \in DOMAIN maps |-> Chunk(maps[i], intact)]

-----------------------------------------------------------------------------
Covers(c, addr) == c.low <= addr /\ addr < c.high

(* getChunkFromAddr: the index of the chunk, or 0.                         *)
ChunkAt(addr) == SelectInSeq(chunks, LAMBDA c : Covers(c, addr))

CanRead(addr) == ChunkAt(addr) # 0 /\ "r" \in chunks[ChunkAt(addr)].perms

(* setBreakpointAtAddress accepts addr.                                    *)
Breakable(addr) ==
    /\ ChunkAt(addr) # 0
    /\ \/ "x" \in chunks[ChunkAt(addr)].perms
       \/ chunks[ChunkAt(addr)].path = "exec"

LowestExec(cs) ==
    LET lows == {cs[i].low : i \in {j \in DOMAIN cs : cs[j].path = "exec"}}
    IN  IF lows = {} THEN -1 ELSE Min(lows)

-----------------------------------------------------------------------------
MapsInit == maps = Loaded /\ chunks = <<>> /\ loadAddress = 0

(* initializeMapsAndLoadAddress of an ET_DYN debuggee.                     *)
InitializeMaps(intact) ==
    /\ LowestExec(Parsed(intact)) # -1
    /\ chunks' = Parsed(intact)
    /\ loadAddress' = LowestExec(chunks')
    /\ UNCHANGED maps

(* No chunk of the executable is recognised: the constructor throws.       *)
NoLoadAddress(intact) == LowestExec(Parsed(intact)) = -1

(* Mutant of Reload: the new chunks are appended to the old ones.          *)
ReloadAppends(intact) ==
    /\ chunks' = IF chunks = <<>> THEN chunks ELSE chunks \o Parsed(intact)
    /\ UNCHANGED <<maps, loadAddress>>

(* waitForSignal, once the map is initialized.                             *)
Reload(intact) ==
    /\ chunks' = IF chunks = <<>> THEN chunks ELSE Parsed(intact)
    /\ UNCHANGED <<maps, loadAddress>>

-----------------------------------------------------------------------------
(* What the child and others do to the mappings.                           *)
SetMaps(new) == maps' = new /\ UNCHANGED <<chunks, loadAddress>>

MapRegion(line) ==
    \E k \in 1 .. Len(maps) + 1 :
        /\ \A i \in 1 .. k - 1 : maps[i].high <= line.low
        /\ \A i \in k .. Len(maps) : line.high <= maps[i].low
        /\ SetMaps(InsertAt(maps, k, line))

UnmapRegion(line) ==
    \E k \in DOMAIN maps : maps[k] = line /\ SetMaps(RemoveAt(maps, k))

(* The file of the debuggee is replaced, by a build for instance.          *)
ReplaceExec ==
    /\ \E i \in DOMAIN maps : maps[i].name = Exec
    /\ SetMaps([i \in DOMAIN maps |->
                   IF maps[i].name = Exec
                   THEN [maps[i] EXCEPT !.name = Exec \o <<" ", "(deleted)">>]
                   ELSE maps[i]])
=============================================================================
