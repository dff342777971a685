-------------------------- MODULE BreakpointTable --------------------------
(***************************************************************************)
(* addrToBp_, the software breakpoints of a session (breakpoint.cpp and    *)
(* breakpointmanager.cpp), over the memory of the child.  An enabled       *)
(* breakpoint keeps the byte it replaced in data_ and an int3 in the       *)
(* child.  retAddrFromMain_ is a pointer to one entry of the table; here   *)
(* it is that entry's address, or Null.                                    *)
(*                                                                         *)
(* text, clobbered and intent are history: what the child's memory would   *)
(* hold had Peek no breakpoints, the enabled breakpoints the user wrote    *)
(* over with write_memory, and the addresses at which a breakpoint is      *)
(* meant to be armed.                                                      *)
(***************************************************************************)
EXTENDS Tracee

CONSTANT Breakable   \* addresses in an executable chunk or in the debuggee's file

ASSUME BreakableAssumption == Breakable \subseteq Addr

VARIABLES
    bp,          \* bp[a]: "none", or the entry's enabled_
    data,        \* data[a]: the entry's data_, 0 when there is no entry
    mainRet,     \* retAddrFromMain_
    text,
    clobbered,
    intent

tableVars == <<bp, data, mainRet, text, clobbered, intent>>

Present == {a \in Addr : bp[a] # "none"}
Enabled == {a \in Addr : bp[a] = "enabled"}

IsEnabled(a) == a \in Addr /\ bp[a] = "enabled"
IsMainRet(a) == mainRet # Null /\ mainRet = a

TableTypeOK ==
    /\ bp \in [Addr -> {"none", "disabled", "enabled"}]
    /\ data \in [Addr -> Byte]
    /\ mainRet \in Addr \cup {Null}
    /\ text \in [Addr -> Byte]
    /\ clobbered \subseteq Addr
    /\ intent \subseteq Addr

TableInit ==
    /\ bp = [a \in Addr |-> "none"]
    /\ data = [a \in Addr |-> 0]
    /\ mainRet = Null
    /\ text = mem
    /\ clobbered = {}
    /\ intent = {}

-----------------------------------------------------------------------------
(* Mutant of Enable: the byte is saved after the int3 was written.         *)
EnablePokesFirst(a) ==
    IF Pokable(a)
    THEN /\ data' = [data EXCEPT ![a] = Int3]
         /\ mem' = [mem EXCEPT ![a] = Int3]
         /\ bp' = [bp EXCEPT ![a] = "enabled"]
    ELSE /\ data' = [data EXCEPT ![a] = Ones]
         /\ UNCHANGED <<mem, bp>>

(* Breakpoint::enable.  When the peek or the poke fails, data_ has been    *)
(* overwritten with the low byte of the peeked -1 and enabled_ is as it    *)
(* was.                                                                    *)
Enable(a) ==
    IF Pokable(a)
    THEN /\ data' = [data EXCEPT ![a] = mem[a]]
         /\ mem' = [mem EXCEPT ![a] = Int3]
         /\ bp' = [bp EXCEPT ![a] = "enabled"]
    ELSE /\ data' = [data EXCEPT ![a] = Ones]
         /\ UNCHANGED <<mem, bp>>

(* Mutant of Disable: a disabled entry is erased from the table.           *)
DisableErases(a) ==
    IF Pokable(a)
    THEN /\ mem' = [mem EXCEPT ![a] = data[a]]
         /\ bp' = [bp EXCEPT ![a] = "none"]
         /\ UNCHANGED data
    ELSE UNCHANGED <<mem, bp, data>>

(* Breakpoint::disable: puts data_ back; on failure nothing changes.       *)
Disable(a) ==
    IF Pokable(a)
    THEN /\ mem' = [mem EXCEPT ![a] = data[a]]
         /\ bp' = [bp EXCEPT ![a] = "disabled"]
         /\ UNCHANGED data
    ELSE UNCHANGED <<mem, bp, data>>

(* The loop of cleanup: disable every breakpoint that is enabled.          *)
DisableAll ==
    LET done == {a \in Enabled : Pokable(a)}
    IN  /\ mem' = [a \in Addr |-> IF a \in done THEN data[a] ELSE mem[a]]
        /\ bp' = [a \in Addr |-> IF a \in done THEN "disabled" ELSE bp[a]]
        /\ UNCHANGED data

(* setBreakpointAtAddress inserts an entry and enables it: the memory map  *)
(* must know the address and the poke must succeed, else the table is left *)
(* as it was, as it is when the address has an entry already.              *)
Insertable(a, mapped) ==
    /\ mapped /\ a \in Breakable /\ bp[a] = "none"
    /\ Pokable(a)

(* Mutant of SetBreakpointAtAddress: the entry stays when enable failed.   *)
SetBreakpointKeepsEntry(a, mapped) ==
    IF mapped /\ a \in Breakable /\ bp[a] = "none"
    THEN /\ data' = [data EXCEPT ![a] = IF Pokable(a) THEN mem[a] ELSE Ones]
         /\ mem' = IF Pokable(a) THEN [mem EXCEPT ![a] = Int3] ELSE mem
         /\ bp' = [bp EXCEPT ![a] = IF Pokable(a) THEN "enabled" ELSE "disabled"]
         /\ intent' = intent \cup {a}
    ELSE UNCHANGED <<mem, bp, data, intent>>

SetBreakpointAtAddress(a, mapped) ==
    IF Insertable(a, mapped)
    THEN Enable(a) /\ intent' = intent \cup {a}
    ELSE UNCHANGED <<mem, bp, data, intent>>

(* removeBreakpoint(it) of an entry that is not main's return: disabled if *)
(* enabled and erased, even when the disable failed.                       *)
RemoveBreakpoint(a) ==
    /\ mem' = IF IsEnabled(a) /\ Pokable(a)
              THEN [mem EXCEPT ![a] = data[a]] ELSE mem
    /\ bp' = [bp EXCEPT ![a] = "none"]
    /\ data' = [data EXCEPT ![a] = 0]
    /\ intent' = intent \ {a}

-----------------------------------------------------------------------------
Overlay ==
    \A a \in Addr \ clobbered :
        IF bp[a] = "enabled"
        THEN mem[a] = Int3 /\ data[a] = text[a]
        ELSE mem[a] = text[a]

(* While the child exists its memory is the program as loaded and as the   *)
(* user rewrote it, with an int3 exactly where an enabled breakpoint is,   *)
(* and data_ holds the byte under each.  It holds across every disable,    *)
(* single step and enable of stepOverBreakpoint, unless the user has       *)
(* written over an enabled breakpoint.                                     *)
TextIsOverlay == child # "dead" => Overlay

(* Every entry lies on a word that ptrace reaches whole: one whose enable  *)
(* failed, with data_ already overwritten by the failed peek, is not kept, *)
(* so that in a live child no later enable or disable of an entry fails.   *)
Reachable == \A a \in Present : Word(a) \subseteq Addr

(* retAddrFromMain_ points at an entry of the table: no erase ever leaves  *)
(* it dangling.                                                            *)
MainRetLive == mainRet # Null => bp[mainRet] # "none"
=============================================================================
