---------------------------- MODULE SymbolCache -----------------------------
(***************************************************************************)
(* SymbolMap's cache of symbol lookups (symbolmap.cpp) and the record of   *)
(* use by which SymbolConfig (config.cpp) decides what it keeps.  The two  *)
(* live in different classes and are kept in step by their caller: an      *)
(* operation of one returns the keys the other must drop.                  *)
(***************************************************************************)
EXTENDS Integers, FiniteSets, SequencesExt

CONSTANTS
    Names, Symbols, Matching, Exact,   \* as in SymbolLookup
    Length,      \* Length[n]: the length of n
    Sizes,       \* cache sizes the user sets
    MinLengths   \* minimal key lengths the user sets

ASSUME CacheAssumption ==
    /\ Matching \in [Names -> SUBSET Symbols]
    /\ Exact \in [Names -> SUBSET Symbols]
    /\ \A n \in Names : Exact[n] \subseteq Matching[n]
    /\ Length \in [Names -> Nat \ {0}]
    /\ Sizes \subseteq Nat
    /\ MinLengths \subseteq Nat

VARIABLES
    cache,      \* nonStrictSymbolCache_: a function on the cached names
    lruList,    \* lruList_: least recently used first
    lruMap,     \* the keys of lruMap_
    symbolCacheSize,
    minCachedStringLength,
    answer,     \* the last lookup and its result
    warned,     \* a lookup reported the cache out of step with the record
    recency     \* history: every name ever looked up, the latest last

vars == <<cache, lruList, lruMap, symbolCacheSize, minCachedStringLength,
          answer, warned, recency>>

Promise == INSTANCE SymbolLookup

TypeOK ==
    /\ cache \in UNION {[D -> SUBSET Symbols] : D \in SUBSET Names}
    /\ lruList \in Seq(Names)
    /\ lruMap \subseteq Names
    /\ symbolCacheSize \in Nat
    /\ minCachedStringLength \in Nat
    /\ warned \in BOOLEAN

(* An empty cache with SymbolConfig's default limits.                      *)
Init ==
    /\ cache = [n \in {} |-> {}]
    /\ lruList = <<>>
    /\ lruMap = {}
    /\ symbolCacheSize = 7
    /\ minCachedStringLength = 3
    /\ answer = Promise!Unasked
    /\ warned = FALSE
    /\ recency = <<>>

-----------------------------------------------------------------------------
(* The list without what is erased from it, in the order it had; a         *)
(* recursive function, which unlike SelectSeq can be proved about.         *)
Without(list, gone) ==
    LET kept[i \in 0 .. Len(list)] ==
            IF i = 0 THEN <<>>
            ELSE IF list[i] \in gone THEN kept[i - 1] ELSE Append(kept[i - 1], list[i])
    IN  kept[Len(list)]

(* splice or push_back: n is the last one.                                 *)
ToBack(list, n) == Append(Without(list, {n}), n)

Drop(c, gone) == [n \in DOMAIN c \ gone |-> c[n]]
(* Mutant of Put: the key is listed with its symbols.                      *)
PutListsKey(c, n, symbols) ==
    [m \in DOMAIN c \cup {n} |-> IF m = n THEN symbols \cup {n} ELSE c[m]]

Put(c, n, symbols) == [m \in DOMAIN c \cup {n} |-> IF m = n THEN symbols ELSE c[m]]

(* Mutant of TouchKey: the list may grow one key beyond its size.          *)
TouchKeyOneMore(n) ==
    LET known == n \in lruMap
        list == ToBack(lruList, n)
        full == ~known /\ Len(list) > symbolCacheSize + 1
    IN  [list |-> IF full THEN Tail(list) ELSE list,
         map |-> IF full THEN (lruMap \cup {n}) \ {Head(list)} ELSE lruMap \cup {n},
         erase |-> IF full THEN {Head(list)} ELSE {}]

(* Mutant of TouchKey: a key that is known keeps its place in the list.    *)
TouchKeyInPlace(n) ==
    LET known == n \in lruMap
        list == IF known THEN lruList ELSE Append(lruList, n)
        full == ~known /\ Len(list) > symbolCacheSize
    IN  [list |-> IF full THEN Tail(list) ELSE list,
         map |-> IF full THEN (lruMap \cup {n}) \ {Head(list)} ELSE lruMap \cup {n},
         erase |-> IF full THEN {Head(list)} ELSE {}]

(* touchKey(n) moves n to the back of the list; a name new to the list may *)
(* push the front one out, which lru() then returns.                       *)
TouchKey(n) ==
    LET known == n \in lruMap
        list == ToBack(lruList, n)
        full == ~known /\ Len(list) > symbolCacheSize
    IN  [list |-> IF full THEN Tail(list) ELSE list,
         map |-> IF full THEN (lruMap \cup {n}) \ {Head(list)} ELSE lruMap \cup {n},
         erase |-> IF full THEN {Head(list)} ELSE {}]

(* Mutant of Hit: a strict lookup is given the whole cached list.          *)
HitUnfiltered(n, strict) ==
    /\ n \in DOMAIN cache
    /\ LET touched == TouchKey(n)
       IN  /\ lruList' = touched.list
           /\ lruMap' = touched.map
           /\ warned' = (warned \/ touched.erase # {})
    /\ answer' = Promise!Answer(n, strict, cache[n])
    /\ UNCHANGED cache

(* A lookup of a cached name, even one the record does not know.           *)
Hit(n, strict) ==
    /\ n \in DOMAIN cache
    /\ LET touched == TouchKey(n)
       IN  /\ lruList' = touched.list
           /\ lruMap' = touched.map
           /\ warned' = (warned \/ touched.erase # {})
    /\ answer' = Promise!Answer(n, strict,
           IF strict THEN cache[n] \cap Exact[n] ELSE cache[n])
    /\ UNCHANGED cache

(* The symbol tables are searched.  A name long enough is cached, if the   *)
(* caller wants it (keep), before the record says what to erase; a         *)
(* non-strict result is then taken from the cache with [], which inserts   *)
(* an empty list if the name is not there.                                 *)
Miss(n, strict, keep) ==
    /\ n \notin DOMAIN cache
    /\ IF keep /\ Length[n] >= minCachedStringLength
       THEN LET touched == TouchKey(n)
                kept == Drop(Put(cache, n, Matching[n]), touched.erase)
                listed == IF n \in DOMAIN kept THEN kept ELSE Put(kept, n, {})
            IN  /\ lruList' = touched.list
                /\ lruMap' = touched.map
                /\ cache' = IF strict THEN kept ELSE listed
                /\ answer' = Promise!Answer(n, strict,
                       IF strict THEN Exact[n] ELSE listed[n])
       ELSE /\ answer' = Promise!Answer(n, strict, Promise!Found(n, strict))
            /\ UNCHANGED <<cache, lruList, lruMap>>
    /\ UNCHANGED warned

GetSymbolListFromName(n, strict, keep) ==
    /\ Hit(n, strict) \/ Miss(n, strict, keep)
    /\ recency' = ToBack(recency, n)
    /\ UNCHANGED <<symbolCacheSize, minCachedStringLength>>

(* Mutant of Configure: the cache keeps the keys that became too short.    *)
ConfigureKeepsShort ==
    LET short == {n \in lruMap : Length[n] < minCachedStringLength'}
        long == Without(lruList, short)
        surplus == IF Len(long) > symbolCacheSize'
                   THEN Len(long) - symbolCacheSize' ELSE 0
        deletion == ToSet(SubSeq(long, 1, surplus))
    IN  /\ lruList' = SubSeq(long, surplus + 1, Len(long))
        /\ lruMap' = lruMap \ (short \cup deletion)
        /\ cache' = Drop(cache, deletion)
        /\ UNCHANGED <<answer, warned, recency>>

(* configureCache and configure: first the short keys go, then the least   *)
(* recently used ones until the list fits; every key dropped from the      *)
(* record is dropped from the cache if it is there.                        *)
Configure ==
    LET short == {n \in lruMap : Length[n] < minCachedStringLength'}
        long == Without(lruList, short)
        surplus == IF Len(long) > symbolCacheSize'
                   THEN Len(long) - symbolCacheSize' ELSE 0
        deletion == short \cup ToSet(SubSeq(long, 1, surplus))
    IN  /\ lruList' = SubSeq(long, surplus + 1, Len(long))
        /\ lruMap' = lruMap \ deletion
        /\ cache' = Drop(cache, deletion)
        /\ UNCHANGED <<answer, warned, recency>>

SetMaxSymbolCacheSize(size) ==
    /\ symbolCacheSize' = size
    /\ UNCHANGED minCachedStringLength
    /\ Configure

SetMinCachedStringLength(length) ==
    /\ minCachedStringLength' = length
    /\ UNCHANGED symbolCacheSize
    /\ Configure

ClearCache ==
    /\ lruList' = <<>> /\ lruMap' = {}
    /\ cache' = [n \in {} |-> {}]
    /\ UNCHANGED <<symbolCacheSize, minCachedStringLength, answer, warned, recency>>

(* symbol_lookup and breakpoint keep what they looked up; backtrace does   *)
(* not.                                                                    *)
Next ==
    \/ \E n \in Names, strict \in BOOLEAN : GetSymbolListFromName(n, strict, TRUE)
    \/ \E n \in Names : GetSymbolListFromName(n, FALSE, FALSE)
    \/ \E size \in Sizes : SetMaxSymbolCacheSize(size)
    \/ \E length \in MinLengths : SetMinCachedStringLength(length)
    \/ ClearCache

Spec == Init /\ [][Next]_vars

-----------------------------------------------------------------------------
(* The cache and the record of use, kept by two classes, never disagree on *)
(* what is cached, and the list holds each key once.                       *)
InStep ==
    /\ DOMAIN cache = lruMap
    /\ ToSet(lruList) = lruMap
    /\ Len(lruList) = Cardinality(lruMap)

(* Whatever sizes and lengths are set between lookups, the cache keeps     *)
(* within both.                                                            *)
WithinLimits ==
    /\ Cardinality(DOMAIN cache) <= symbolCacheSize
    /\ \A n \in DOMAIN cache : Length[n] >= minCachedStringLength

Since(n) == CHOOSE i \in DOMAIN recency : recency[i] = n

(* A name that leaves the cache while others stay is either too short now  *)
(* or was used before every one that stays: eviction is by use, across any *)
(* sequence of lookups and changes of size.                                *)
EvictsLeastRecent ==
    [][\A gone \in DOMAIN cache \ DOMAIN cache', stays \in DOMAIN cache' :
          \/ Length[gone] < minCachedStringLength'
          \/ Since(gone)' < Since(stays)']_vars

(* Caching is invisible: every lookup answers what a search of the symbol  *)
(* tables would.                                                           *)
Transparent == Promise!Spec

(* symbolmap.cpp:96-97 treats as a fault, and warns, that a cached name is *)
(* new to the record: "Cache is out of sync with LRU config".              *)
NeverOutOfSync == ~warned
=============================================================================
