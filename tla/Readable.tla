------------------------------ MODULE Readable ------------------------------
(***************************************************************************)
(* demangledToReadable: how a demangled name is made readable, one action  *)
(* for each iteration of its loops.  A name is a sequence of tokens; the   *)
(* blanks in it are left out, for nothing depends on them.  What begins    *)
(* like an entry of the lists is two tokens, std::less and _equal: the     *)
(* code searches for characters and finds such an entry as well.           *)
(***************************************************************************)
EXTENDS Integers, SequencesExt

CONSTANTS
    Names,   \* the names that are made readable
    Text     \* Text[n]: the tokens of n as the library demangles it

(* The angles open behind the i-th token: what the code counts, from where *)
(* it begins, in openAngleCount.                                           *)
Depth(text, i) ==
    Cardinality({k \in 1 .. i : text[k] = "<"}) - Cardinality({k \in 1 .. i : text[k] = ">"})

Balanced(text) ==
    /\ Depth(text, Len(text)) = 0
    /\ \A i \in DOMAIN text : text[i] = ">" => Depth(text, i) >= 0

ASSUME TextAssumption ==
    \A n \in Names : Text[n] \in Seq(ToSet(Text[n])) /\ Balanced(Text[n])

-----------------------------------------------------------------------------
(* The lists of the code.                                                  *)
Template(name, arguments) == <<name, "<">> \o arguments \o <<">">>

Chars(template) == Template(template, <<"char">>)

StringOf(template) ==
    Template(template, <<"char", ",">> \o Chars("std::char_traits") \o <<",">> \o Chars("std::allocator"))

StreamOf(template) == Template(template, <<"char", ",">> \o Chars("std::char_traits"))

verboseLists == <<
    [instance |-> StringOf("std::__cxx11::basic_string"), replace |-> <<"std::string">>],
    [instance |-> StringOf("std::basic_string"), replace |-> <<"std::string">>],
    [instance |-> StreamOf("std::basic_ostream"), replace |-> <<"std::ostream">>],
    [instance |-> StreamOf("std::basic_istream"), replace |-> <<"std::istream">>],
    [instance |-> StreamOf("std::basic_iostream"), replace |-> <<"std::iostream">>],
    [instance |-> Template("std::allocator", <<"std::string">>), replace |-> <<>>],
    [instance |-> <<"long", "unsigned", "int">>, replace |-> <<"uint64_t">>],
    [instance |-> <<"unsigned", "int">>, replace |-> <<"uint32_t">>],
    [instance |-> <<"unsigned", "long">>, replace |-> <<"uint64_t">>],
    [instance |-> <<"long", "int">>, replace |-> <<"int64_t">>],
    [instance |-> <<"char", "const", "*">>, replace |-> <<"const", "char", "*">>] >>

(* The tokens a readable name may hold.                                    *)
Tokens == UNION ({ToSet(Text[n]) : n \in Names} \cup {ToSet(v.replace) : v \in ToSet(verboseLists)})

deleteList == <<"std::allocator", "std::less", "std::equal_to", "std::hash">>

containerParameterList == <<
    [instance |-> "std::vector", count |-> 1], [instance |-> "std::unordered_map", count |-> 2],
    [instance |-> "std::map", count |-> 2], [instance |-> "std::stack", count |-> 1],
    [instance |-> "std::priority_queue", count |-> 1], [instance |-> "std::array", count |-> 1] >>

-----------------------------------------------------------------------------
VARIABLES
    demangled,  \* history: the name that was given
    readable,   \* the text so far
    pass,       \* "replace", "delete", "trim", "done", "threw"
    entry,      \* the entry of the list of that pass
    from        \* where the next search begins

readableVars == <<demangled, readable, pass, entry, from>>

ListOf(p) ==
    CASE p = "replace" -> verboseLists
      [] p = "delete" -> deleteList
      [] p = "trim" -> containerParameterList

Init ==
    /\ demangled \in Names /\ readable = Text[demangled]
    /\ pass = "replace" /\ entry = 1 /\ from = 1

(* find: the first place from which instance stands, or 0.                 *)
Find(instance, start) ==
    LET Hits == {i \in start .. Len(readable) - Len(instance) + 1 :
                    SubSeq(readable, i, i + Len(instance) - 1) = instance}
    IN  IF Hits = {} THEN 0 ELSE Min(Hits)

(* The angle that closes the one before i, or 0.                           *)
CloseAngle(i) ==
    LET outside == Depth(readable, i - 1)
        Closing == {j \in i .. Len(readable) : readable[j] = ">" /\ Depth(readable, j) < outside}
    IN  IF Closing = {} THEN 0 ELSE Min(Closing)

(* The comma behind count arguments of the template that opens before i,   *)
(* or 0.                                                                   *)
StartDeletion(i, count) ==
    LET close == CloseAngle(i)
        last == IF close = 0 THEN Len(readable) ELSE close
        within == Depth(readable, i - 1)
        Commas == {j \in i .. last : readable[j] = "," /\ Depth(readable, j) = within}
        Behind == {j \in Commas : Cardinality({k \in Commas : k <= j}) = count}
    IN  IF Behind = {} THEN 0 ELSE Min(Behind)

(* replace: the text from i to before j becomes new.                       *)
Substitute(i, j, new) ==
    readable' = SubSeq(readable, 1, i - 1) \o new \o SubSeq(readable, j, Len(readable))

(* A loop finds nothing more: the next entry of its list, the next list.   *)
NextEntry ==
    /\ IF entry < Len(ListOf(pass)) THEN entry' = entry + 1 /\ UNCHANGED pass
       ELSE /\ entry' = 1
            /\ pass' = CASE pass = "replace" -> "delete"
                         [] pass = "delete" -> "trim"
                         [] pass = "trim" -> "done"
    /\ from' = 1
    /\ UNCHANGED <<demangled, readable>>

Throw == pass' = "threw" /\ UNCHANGED <<demangled, readable, entry, from>>

(* Mutant of Replace: the search goes on behind as much as was replaced.   *)
ReplaceSkips ==
    /\ pass = "replace"
    /\ LET v == verboseLists[entry]
           index == Find(v.instance, from)
       IN  IF index = 0 THEN NextEntry
           ELSE /\ Substitute(index, index + Len(v.instance), v.replace)
                /\ from' = index + Len(v.instance)
                /\ UNCHANGED <<demangled, pass, entry>>

(* Mutant of Replace: the instance is left behind what replaces it.        *)
ReplaceInserts ==
    /\ pass = "replace"
    /\ LET v == verboseLists[entry]
           index == Find(v.instance, from)
       IN  IF index = 0 THEN NextEntry
           ELSE /\ Substitute(index, index, v.replace)
                /\ from' = index + Len(v.replace)
                /\ UNCHANGED <<demangled, pass, entry>>

Replace ==
    /\ pass = "replace"
    /\ LET v == verboseLists[entry]
           index == Find(v.instance, from)
       IN  IF index = 0 THEN NextEntry
           ELSE /\ Substitute(index, index + Len(v.instance), v.replace)
                /\ from' = index + Len(v.replace)
                /\ UNCHANGED <<demangled, pass, entry>>

(* Mutant of Delete: the closing angle is left.                            *)
DeleteOpenOnly ==
    /\ pass = "delete"
    /\ LET index == Find(<<deleteList[entry]>>, from)
           angle == index < Len(readable) /\ readable[index + 1] = "<"
           close == IF angle THEN CloseAngle(index + 2) ELSE index + 1
       IN  IF index = 0 THEN NextEntry
           ELSE IF close = 0 THEN Throw
           ELSE Substitute(index, close, <<>>) /\ UNCHANGED <<demangled, pass, entry, from>>

(* Mutant of Delete: the token behind goes as well.                        *)
DeleteOneMore ==
    /\ pass = "delete"
    /\ LET index == Find(<<deleteList[entry]>>, from)
           angle == index < Len(readable) /\ readable[index + 1] = "<"
           close == IF angle THEN CloseAngle(index + 2) ELSE index
       IN  IF index = 0 THEN NextEntry
           ELSE IF angle /\ close = 0 THEN Throw
           ELSE Substitute(index, close + 2, <<>>) /\ UNCHANGED <<demangled, pass, entry, from>>

(* An instance goes with its template arguments.                           *)
Delete ==
    /\ pass = "delete"
    /\ LET index == Find(<<deleteList[entry]>>, from)
           angle == index < Len(readable) /\ readable[index + 1] = "<"
           close == IF angle THEN CloseAngle(index + 2) ELSE index
       IN  IF index = 0 THEN NextEntry
           ELSE IF angle /\ close = 0 THEN Throw
           ELSE Substitute(index, close + 1, <<>>) /\ UNCHANGED <<demangled, pass, entry, from>>

(* The container at index opens its arguments at the next angle.           *)
OpenAngle(index) == Find(<<"<">>, index)

(* Mutant of Trim: the search begins where the instance was found.         *)
TrimStays ==
    /\ pass = "trim"
    /\ LET c == containerParameterList[entry]
       IN  \E index \in {Find(<<c.instance>>, from)} :
           IF index = 0 \/ OpenAngle(index) = 0 THEN NextEntry
           ELSE \E start \in {StartDeletion(OpenAngle(index) + 1, c.count)} :
                IF start # 0 /\ CloseAngle(start) = 0 THEN Throw
                ELSE /\ IF start = 0 THEN UNCHANGED readable
                        ELSE Substitute(start, CloseAngle(start), <<>>)
                     /\ from' = index /\ UNCHANGED <<demangled, pass, entry>>

(* Mutant of Trim: one argument too many is kept.                          *)
TrimKeepsOneMore ==
    /\ pass = "trim"
    /\ LET c == containerParameterList[entry]
       IN  \E index \in {Find(<<c.instance>>, from)} :
           IF index = 0 \/ OpenAngle(index) = 0 THEN NextEntry
           ELSE \E start \in {StartDeletion(OpenAngle(index) + 1, c.count + 1)} :
                IF start # 0 /\ CloseAngle(start) = 0 THEN Throw
                ELSE /\ IF start = 0 THEN UNCHANGED readable
                        ELSE Substitute(start, CloseAngle(start), <<>>)
                     /\ from' = index + 1 /\ UNCHANGED <<demangled, pass, entry>>

(* A container keeps its first arguments.                                  *)
Trim ==
    /\ pass = "trim"
    /\ LET c == containerParameterList[entry]
       IN  \E index \in {Find(<<c.instance>>, from)} :
           IF index = 0 \/ OpenAngle(index) = 0 THEN NextEntry
           ELSE \E start \in {StartDeletion(OpenAngle(index) + 1, c.count)} :
                IF start # 0 /\ CloseAngle(start) = 0 THEN Throw
                ELSE /\ IF start = 0 THEN UNCHANGED readable
                        ELSE Substitute(start, CloseAngle(start), <<>>)
                     /\ from' = index + 1 /\ UNCHANGED <<demangled, pass, entry>>

Done == pass \in {"done", "threw"} /\ UNCHANGED readableVars

Next == Replace \/ Delete \/ Trim \/ Done

Spec == Init /\ [][Next]_readableVars

(* The loops wait for nobody.                                              *)
FairSpec == Spec /\ WF_readableVars(Replace \/ Delete \/ Trim)

-----------------------------------------------------------------------------
(* Properties.                                                             *)

TypeOK ==
    /\ readable \in Seq(Tokens)
    /\ pass \in {"replace", "delete", "trim", "done", "threw"}
    /\ pass \in {"replace", "delete", "trim"} => entry \in DOMAIN ListOf(pass)
    /\ from \in 1 .. Len(readable) + 1

(* "should NEVER get here": the exceptions of both deletion loops.         *)
NeverThrows == pass # "threw"

(* No pass leaves the angles of a name unbalanced: the next one counts on  *)
(* them.                                                                   *)
AnglesBalanced == Balanced(readable)

(* What a loop still has to search; the deletions of the second pass       *)
(* search from the start again, and have what the text has.                *)
Left == IF pass = "delete" THEN Len(readable) ELSE Len(readable) + 1 - from

Stage(p) == CASE p = "replace" -> 1 [] p = "delete" -> 2 [] p = "trim" -> 3 [] OTHER -> 4

(* "guaranteed not to be infinite loop due to deletions", "increment index *)
(* to prevent infinite loop": each iteration of a loop leaves less to the  *)
(* next one, whatever it puts into the text, or hands over to a later      *)
(* entry or to a later pass.                                               *)
Progress ==
    \/ Stage(pass') > Stage(pass)
    \/ pass' = pass /\ entry' > entry
    \/ pass' = pass /\ entry' = entry /\ Left' \in 0 .. Left - 1

ReadableProgresses == [][Progress]_readableVars

(* Every loop of make_readable ends, those included that search from the   *)
(* start again, and so the call returns or throws.                         *)
ReadableEnds == <>(pass \in {"done", "threw"})
=============================================================================
