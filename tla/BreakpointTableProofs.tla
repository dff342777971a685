------------------------ MODULE BreakpointTableProofs ------------------------
(***************************************************************************)
(* What each operation on the table of breakpoints does to the table and   *)
(* to the bytes of the child. The bytes of the child are those of the      *)
(* program under an overlay of int3s (Overlay), which every operation      *)
(* keeps as long as the pokes it makes succeed.                            *)
(***************************************************************************)
EXTENDS BreakpointTable, TLAPS

(* The part of the types the operations of the table touch.                *)
Bytes ==
    /\ mem \in [Addr -> Byte]
    /\ data \in [Addr -> Byte]
    /\ bp \in [Addr -> {"none", "disabled", "enabled"}]

(* Addresses are numbers and Null is none of them.                         *)
LEMMA AddrFacts == Addr \subseteq Nat /\ Null \notin Addr
  BY TraceeAssumption DEF Null

(* Breakpoint::enable writes bytes to bytes.                               *)
LEMMA EnableType ==
  ASSUME Bytes, NEW a \in Addr, Enable(a)
  PROVE  Bytes'
  BY DEF Bytes, Enable, Byte, Ones, Int3

(* Breakpoint::disable restores a byte.                                    *)
LEMMA DisableType ==
  ASSUME Bytes, NEW a \in Addr, Disable(a)
  PROVE  Bytes'
  BY DEF Bytes, Disable

(* removeBreakpoint restores a byte and erases the entry.                  *)
LEMMA RemoveType ==
  ASSUME Bytes, NEW a \in Addr, RemoveBreakpoint(a)
  PROVE  Bytes'
  BY DEF Bytes, RemoveBreakpoint, Byte

(* setBreakpointAtAddress, given any address and memory map, keeps the     *)
(* table and the wanted addresses well typed.                              *)
LEMMA SetType ==
  ASSUME Bytes, intent \subseteq Addr, NEW a, NEW m, SetBreakpointAtAddress(a, m)
  PROVE  Bytes' /\ (intent \subseteq Addr)'
  <1>1. CASE Insertable(a, m)
    <2>1. a \in Addr
      BY <1>1, BreakableAssumption DEF Insertable
    <2> QED
      BY <1>1, <2>1, EnableType DEF SetBreakpointAtAddress
  <1>2. CASE ~Insertable(a, m)
    BY <1>2 DEF SetBreakpointAtAddress, Bytes
  <1> QED
    BY <1>1, <1>2

(* The loop of cleanup keeps the bytes bytes.                              *)
LEMMA DisableAllType ==
  ASSUME Bytes, DisableAll
  PROVE  Bytes'
  BY DEF Bytes, DisableAll

-----------------------------------------------------------------------------

(* Enabling an entry that is not enabled arms exactly that address and,    *)
(* the text under the breakpoints being what the program holds, keeps it   *)
(* so.                                                                     *)
LEMMA EnableTable ==
  ASSUME Bytes, NEW a \in Addr, bp[a] # "enabled", Enable(a),
         UNCHANGED <<text, clobbered>>
  PROVE  /\ Present \cup {a} = Present => Present' = Present
         /\ Pokable(a) => /\ Present' = Present \cup {a}
                          /\ Enabled' = Enabled \cup {a}
                          /\ Overlay => Overlay'
  BY DEF Bytes, Enable, Present, Enabled, Overlay, Int3

(* Disabling an enabled entry disarms exactly that address and gives the   *)
(* child its byte back.                                                    *)
LEMMA DisableTable ==
  ASSUME Bytes, NEW a \in Addr, bp[a] = "enabled", Disable(a),
         UNCHANGED <<text, clobbered>>
  PROVE  /\ Present' = Present
         /\ Pokable(a) => /\ Enabled' = Enabled \ {a} /\ bp'[a] = "disabled"
                          /\ Overlay => Overlay'
  BY DEF Bytes, Disable, Present, Enabled, Overlay

(* setBreakpointAtAddress keeps the entries within the reach of ptrace,    *)
(* never drops one, wants what it arms, and keeps the overlay, whether or  *)
(* not it inserts anything.                                                *)
LEMMA SetTable ==
  ASSUME Bytes, NEW a, NEW m, SetBreakpointAtAddress(a, m),
         UNCHANGED <<text, clobbered>>
  PROVE  /\ Reachable => Reachable'
         /\ Present \subseteq Present'
         /\ Insertable(a, m) => a \in Present'
         /\ Enabled = intent => Enabled' = intent'
         /\ Overlay => Overlay'
  <1>1. CASE Insertable(a, m)
    <2>1. a \in Addr /\ bp[a] = "none" /\ Pokable(a) /\ Word(a) \subseteq Addr
      BY <1>1, BreakableAssumption DEF Insertable, Pokable
    <2>2. Enable(a) /\ intent' = intent \cup {a}
      BY <1>1 DEF SetBreakpointAtAddress
    <2> QED
      BY <2>1, <2>2, EnableTable DEF Reachable, Word
  <1>2. CASE ~Insertable(a, m)
    BY <1>2 DEF SetBreakpointAtAddress, Present, Enabled, Overlay, Reachable, Word
  <1> QED
    BY <1>1, <1>2

(* Removing an entry erases and disarms exactly it; the byte is back if    *)
(* the poke could be made.                                                 *)
LEMMA RemoveTable ==
  ASSUME Bytes, NEW a \in Addr, RemoveBreakpoint(a),
         UNCHANGED <<text, clobbered>>
  PROVE  /\ Present' = Present \ {a}
         /\ Enabled' = Enabled \ {a}
         /\ (Pokable(a) \/ ~IsEnabled(a)) /\ Overlay => Overlay'
  BY DEF Bytes, RemoveBreakpoint, Present, Enabled, IsEnabled, Overlay

(* cleanup erases no entry.                                                *)
LEMMA DisableAllTable ==
  ASSUME Bytes, DisableAll, UNCHANGED <<text, clobbered>>
  PROVE  Present' = Present
  BY DEF Bytes, DisableAll, Present, Enabled

(* When every enabled breakpoint can be reached, cleanup disarms all of    *)
(* them and the child holds the program again.                             *)
LEMMA DisableAllEnabled ==
  ASSUME Bytes, DisableAll, UNCHANGED <<text, clobbered>>,
         \A a \in Enabled : Pokable(a)
  PROVE  Enabled' = {} /\ (Overlay => Overlay')
  BY DEF Bytes, DisableAll, Enabled, Overlay
=============================================================================
