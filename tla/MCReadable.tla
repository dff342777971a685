----------------------------- MODULE MCReadable -----------------------------
(***************************************************************************)
(* Names of functions whose parameters are types nested three deep, and    *)
(* of members of such types.                                               *)
(***************************************************************************)
EXTENDS NameTrees

Type(head, args) == [head |-> head, args |-> args, params |-> <<>>]
Plain(head) == Type(head, <<>>)
Integer == Plain(<<"int">>)
Char == Plain(<<"char">>)
Of(name, t) == Type(<<name>>, <<t>>)
Const(t) == [t EXCEPT !.head = IF t.args = <<>> THEN @ \o <<"const">> ELSE @]
Pair(t, u) == Type(<<"std::pair">>, <<t, u>>)
Allocator(t) == Of("std::allocator", t)

String == Type(<<"std::__cxx11::basic_string">>, <<Char, Of("std::char_traits", Char), Allocator(Char)>>)
WString == Type(<<"std::__cxx11::basic_string">>,
    <<Plain(<<"wchar_t">>), Of("std::char_traits", Plain(<<"wchar_t">>)), Allocator(Plain(<<"wchar_t">>))>>)
Vector(t) == Type(<<"std::vector">>, <<t, Allocator(t)>>)
List(t) == Type(<<"std::list">>, <<t, Allocator(t)>>)
Deque(t) == Type(<<"std::deque">>, <<t, Allocator(t)>>)
Stack(t) == Type(<<"std::stack">>, <<t, Deque(t)>>)
Array(t) == Type(<<"std::array">>, <<t, Plain(<<"5ul">>)>>)
Map(k, t) == Type(<<"std::map">>, <<k, t, Of("std::less", k), Allocator(Pair(Const(k), t))>>)
UnorderedMap(k, t) == Type(<<"std::unordered_map">>,
    <<k, t, Of("std::hash", k), Of("std::equal_to", k), Allocator(Pair(Const(k), t))>>)
PriorityQueue(t) == Type(<<"std::priority_queue">>, <<t, Vector(t), Of("std::less", t)>>)

Stream(name) == Type(<<name>>, <<Char, Of("std::char_traits", Char)>>)

Basic == {Integer, Plain(<<"unsigned", "long">>), Plain(<<"unsigned", "int">>), String, WString,
          Plain(<<"char", "const", "*">>),
          Stream("std::basic_ostream")}
Keys == {Integer, String}
Over(T) ==
    UNION {{Vector(t), List(t), Stack(t), Array(t), PriorityQueue(t)} : t \in T}
        \cup {Map(k, t) : k \in Keys, t \in T} \cup {UnorderedMap(k, t) : k \in Keys, t \in T}
Nested == Over(Basic) \cup Over(Over(Keys)) \cup {Map(Vector(k), Vector(t)) : k, t \in Keys}
Deep == {Vector(Vector(Map(Integer, List(t)))) : t \in Keys}

Function(name, params) == [head |-> name, args |-> <<>>, params |-> params]
Pointer == Function(<<"void(*)">>, <<Integer, Integer>>)
Pointers == {Vector(Pointer), Map(Integer, Pointer), Map(Integer, Vector(Pointer)), List(Pointer)}

(* Names that hold an entry of the lists as a part of a longer one.        *)
Longer == {
    Plain(<<"unsigned", "long", "long">>), Plain(<<"unsigned", "char", "const", "*">>),
    Of("std::hash", Integer), Type(<<"own::", "std::hash">>, <<Integer>>),
    Type(<<"std::less", "_equal">>, <<Integer>>), Type(<<"std::less", "_equal">>, <<String>>),
    Type(<<"std::allocator", "_traits">>, <<Allocator(Integer)>>),
    Type(<<"own::", "std::basic_string">>, String.args),
    Plain(<<"std::allocator", "_arg_t">>),
    Type(<<"std::stack", "_like">>, <<Integer, Integer>>),
    Plain(<<"std::stack", "trace_entry">>)}

MCNames ==
    {Function(<<"f">>, <<t>>) : t \in Nested \cup Deep \cup Pointers \cup {Allocator(t) : t \in Basic}
                                          \cup {Stream("std::basic_istream"), Stream("std::basic_iostream")}}
        \cup {Function(<<"f">>, <<t, u>>) : t \in Over(Keys), u \in Over({Integer})}
        \cup {Function(<<"f">>, <<t>>) : t \in Longer \cup Over(Longer)}
        \cup {Function(<<"f">>, <<t, u>>) : t \in Longer, u \in Over({Integer})}
        \cup {Function(<<"f">>, <<u, t>>) : t \in Longer, u \in Over({Integer})}
        \cup {[head |-> <<"g">>, args |-> <<t, u>>, params |-> <<t>>] : t, u \in Over(Keys)}

MCText == [t \in MCNames |-> Flat(t)]
=============================================================================
