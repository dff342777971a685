---------------------------- MODULE MCBacktrace ----------------------------
(***************************************************************************)
(* A debuggee of two units at 20, the C library at 44, a heap of two words *)
(* and a stack of two pages.  The library calls main (4 .. 7, an offset),  *)
(* main calls f (8 .. 11), split (1 .. 3, described by DW_AT_ranges only)  *)
(* and qsort of the library, which calls f back and may keep anything in   *)
(* rbp.  The last call of main does not return.                            *)
(***************************************************************************)
EXTENDS Backtrace

Line(low, high, perms, name) == [low |-> low, high |-> high, perms |-> perms, name |-> name]

MCExec == <<"/", "prog">>
MCLoaded == <<
    Line(20, 38, {"r", "x"}, MCExec),
    Line(38, 40, {"r", "w"}, MCExec),
    Line(44, 52, {"r", "x"}, <<"/", "libc", ".so", ".", "6">>),
    Line(56, 60, {"r", "w"}, <<"[", "heap">>),
    Line(72, 80, {"r", "w"}, <<"[", "stack">>) >>
MCExtra == {Line(40, 42, {"x"}, <<"/", "prog", ".so", "urce">>)}

MCFuncs == <<
    [name |-> "start", low |-> 44, high |-> 48, framed |-> FALSE],
    [name |-> "main", low |-> 24, high |-> 28, framed |-> TRUE],
    [name |-> "f", low |-> 28, high |-> 32, framed |-> TRUE],
    [name |-> "qsort", low |-> 48, high |-> 52, framed |-> FALSE],
    [name |-> "split", low |-> 21, high |-> 24, framed |-> TRUE] >>
MCReturns == <<{47}, {27, 28}, {31}, {50}, {23}>>
MCCallGraph == {<<1, 2>>, <<2, 3>>, <<2, 4>>, <<4, 3>>, <<3, 3>>, <<2, 5>>, <<5, 3>>}
MCData == (56 :> 58 @@ 58 :> 26)
MCJunk == {56, -1}
MCWords == {74, 56}
MCPokeAddrs == {74}

Die(offset, tag, name, reserved, its, low, high) ==
    [offset |-> offset, tag |-> tag, name |-> name, reserved |-> reserved, pc |-> its,
     low |-> low, high |-> high]
Entry(addr, line, stmt, file) == [addr |-> addr, line |-> line, stmt |-> stmt, file |-> file]

MCUnits == <<
    [file |-> "a.cpp", low |-> 0, high |-> 12,
     dies |-> << Die(1, "other", "int", FALSE, "none", 0, 0),
                 Die(2, "function", "__init", TRUE, "low", 0, 1),
                 Die(3, "function", "split", FALSE, "ranges", 1, 4),
                 Die(4, "function", "main", FALSE, "low", 4, 8),
                 Die(5, "other", "Tree", FALSE, "none", 0, 0),
                 Die(6, "function", "f", FALSE, "low", 8, 12),
                 Die(7, "other", "List", FALSE, "none", 0, 0) >>,
     lines |-> << Entry(4, 1, TRUE, "a.cpp"), Entry(5, 2, FALSE, "a.cpp"),
                  Entry(6, 6, TRUE, "h.h"), Entry(7, 2, TRUE, "a.cpp"),
                  Entry(8, 5, TRUE, "a.cpp"), Entry(10, 6, TRUE, "a.cpp"),
                  Entry(12, 6, TRUE, "a.cpp") >>],
    [file |-> "a.cpp", low |-> 12, high |-> 18,
     dies |-> << Die(2, "function", "g", FALSE, "low", 12, 13),
                 Die(4, "function", "f", FALSE, "low", 13, 16),
                 Die(7, "function", "nolines", FALSE, "low", 16, 17),
                 Die(8, "function", "__fini", TRUE, "low", 17, 18) >>,
     lines |-> << Entry(12, 8, TRUE, "a.cpp"), Entry(13, 2, TRUE, "a.cpp"),
                  Entry(14, 9, TRUE, "a.cpp"), Entry(16, 9, TRUE, "a.cpp") >>] >>
MCPast == {0, 7}
MCNames == {"main", "f", "g", "nolines", "split"}
MCLines == {<<"a.cpp", 2>>, <<"a.cpp", 6>>, <<"a.cpp", 7>>}

ASSUME DebuggeeAssumption == PlainNames /\ DescribesCode /\ DescribesFuncs
=============================================================================
