------------------------------ MODULE NameTrees -----------------------------
(***************************************************************************)
(* The names as trees of templates, and what demangledToReadable is to     *)
(* make of one: the reference for the passes of Readable over its text.    *)
(***************************************************************************)
EXTENDS Readable

(* A tree is a name with its template arguments, and the parameters that   *)
(* follow it: [head, args, params], three sequences.                       *)
RECURSIVE Flat(_)
Flat(t) ==
    LET Comma(trees) == FlattenSeq([i \in DOMAIN trees |->
                            (IF i = 1 THEN <<>> ELSE <<",">>) \o Flat(trees[i])])
    IN  t.head \o (IF t.args = <<>> THEN <<>> ELSE <<"<">> \o Comma(t.args) \o <<">">>)
               \o (IF t.params = <<>> THEN <<>> ELSE <<"(">> \o Comma(t.params) \o <<")">>)

(* The types of a head that have a shorter name.                           *)
RECURSIVE Replaced(_, _)
Replaced(head, v) ==
    IF v.instance \in SubSeqs(head)
    THEN Replaced(ReplaceFirstSubSeq(v.replace, v.instance, head), v) ELSE head

Rewritten(head) == FoldLeft(LAMBDA h, v : Replaced(h, v), head, verboseLists)

Containers(head) == {c \in Range(containerParameterList) : c.instance \in ToSet(head)}

(* The templates whose arguments make up a longer name for t.              *)
Aliases(t) ==
    {v \in Range(verboseLists) : t.args # <<>> /\ IsSuffix(v.instance, Flat([t EXCEPT !.params = <<>>]))}

(* What a tree is to become: a type with a short name gets it, a policy    *)
(* disappears with its arguments, a container shows the types it contains. *)
(* A name that only begins like a policy loses that beginning and keeps    *)
(* its arguments; one that begins like a container is shortened like it.   *)
RECURSIVE Short(_)
Short(t) ==
    LET All(trees) == [i \in DOMAIN trees |-> Short(trees[i])]
        Kind == IF Aliases(t) # {} THEN "alias"
                ELSE IF t.head # <<>> /\ Last(t.head) \in ToSet(deleteList) THEN "policy"
                ELSE IF Containers(t.head) # {} THEN "container" ELSE "other"
        Shown == CHOOSE c \in Containers(t.head) : TRUE
        Alias == CHOOSE v \in Aliases(t) : TRUE
    IN  [head |-> IF Kind = "alias" THEN Front(t.head) \o Alias.replace
                  ELSE SelectSeq(Rewritten(t.head), LAMBDA x : x \notin ToSet(deleteList)),
         args |-> CASE Kind \in {"alias", "policy"} -> <<>>
                    [] Kind = "container" -> All(SubSeq(t.args, 1, Min({Shown.count, Len(t.args)})))
                    [] Kind = "other" -> All(t.args),
         params |-> All(t.params)]

(* What Trim takes for the arguments of a container is not: the commas     *)
(* between the parameters of an argument, or the arguments of the next     *)
(* template, where a name without arguments begins like a container.       *)
RECURSIVE Misread(_)
Misread(t) ==
    \/ /\ Containers(t.head) # {}
       /\ t.args = <<>> \/ \E i \in DOMAIN t.args : Len(t.args[i].params) > 1
    \/ \E i \in DOMAIN t.args : Misread(t.args[i])
    \/ \E i \in DOMAIN t.params : Misread(t.params[i])

(* The passes over the text do to a name, however its templates are        *)
(* nested, what Short does to its tree: none cuts into a neighbour, or     *)
(* stops at an inner template that was already shortened.  Containers of   *)
(* functions with several parameters are the exception, and names without  *)
(* arguments that begin like a container, as std::stacktrace_entry does.   *)
ReadableIsShort == (pass = "done" /\ ~Misread(demangled)) => readable = Flat(Short(demangled))
=============================================================================
