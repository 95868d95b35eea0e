------------------------------ MODULE Lookups -------------------------------
(***************************************************************************)
(* The interleaved lookups of src/bench/prefetching_lookups_bench_/libseff.c: *)
(* a binary search per key, each a coroutine that asks for its next element   *)
(* and yields, and a loop that keeps up to `streams` of them in a queue of     *)
(* fixed size (libseff_infra.h) and counts their answers.                     *)
(***************************************************************************)
EXTENDS Integers, Sequences, FiniteSets

CONSTANTS
    Arrays,         \* the sorted arrays that are searched
    Keys,           \* the keys that are looked for
    MaxLookups,     \* bound: lookups
    StreamCounts,   \* what main takes from the command line
    capacity        \* of the queue, 256 in the code

Sorted(a) == \A i, j \in DOMAIN a : i < j => a[i] =< a[j]
LookupsConstants ==
    /\ \A a \in Arrays : a \in Seq(Int) /\ Sorted(a)
    /\ Keys \subseteq Int /\ StreamCounts \subseteq Int /\ {MaxLookups, capacity} \subseteq Nat

VARIABLES
    v, lookups, streams,            \* the arguments of SeffMultiLookup
    pc,                             \* where its loops are
    next_arg, limit, found_count, not_found_count,
    queue,                          \* the lookups whose coroutines are in the queue, oldest first
    search                          \* [lookups -> the locals of SeffBinarySearch]

arguments == <<v, lookups, streams>>
counts == <<found_count, not_found_count>>
vars == <<arguments, pc, next_arg, limit, counts, queue, search>>

Lookup == 1 .. Len(lookups)

Init ==
    /\ v \in Arrays
    /\ lookups \in UNION {[1 .. n -> Keys] : n \in 0 .. MaxLookups}
    /\ streams \in StreamCounts
    /\ pc = "next"
    /\ next_arg = 0
    /\ limit = streams
    /\ found_count = 0 /\ not_found_count = 0
    /\ queue = <<>>
    /\ search = [i \in Lookup |-> [at |-> "none", first |-> 0, len |-> 0]]

-----------------------------------------------------------------------------
(* coro_queue: what does not fit is dropped, and so is the answer that says so *)

coro_queue_enqueue(q, i) == IF Len(q) = capacity THEN q ELSE Append(q, i)

-----------------------------------------------------------------------------
(* SeffBinarySearch, from one resume to the next yield or return *)

\* The element asked for; arrays are counted from 0 in the code.
Middle(s) == s.first + s.len \div 2
Element(n) == v[n + 1]

\* Mutant: the lower half is one short.
LowerShort(s, x, key) ==
    LET half == s.len \div 2
    IN  IF x < key THEN [s EXCEPT !.first = @ + half + 1, !.len = @ - half - 1]
        ELSE [s EXCEPT !.len = half - 1]

\* The half that is left when x is what the middle holds.
Narrowed(s, x, key) ==
    LET half == s.len \div 2
    IN  IF x < key THEN [s EXCEPT !.first = @ + half + 1, !.len = @ - half - 1]
        ELSE [s EXCEPT !.len = half]

\* A search goes on while something is left of the array.
GoesOn(s) == [s EXCEPT !.at = IF s.len > 0 THEN "yielded" ELSE "not_found"]

SeffBinarySearch(s, key) ==
    IF s.at = "new" THEN GoesOn([s EXCEPT !.len = Len(v)])
    ELSE LET x == Element(Middle(s))
         IN  IF x = key THEN [Narrowed(s, x, key) EXCEPT !.at = "found"]
             ELSE GoesOn(Narrowed(s, x, key))

-----------------------------------------------------------------------------
(* SeffMultiLookup *)

\* The outer loop: more keys, or the searches that are still in the queue.
NextArgs ==
    /\ pc = "next"
    /\ pc' = IF next_arg < Len(lookups) THEN "fill" ELSE "finish"
    /\ UNCHANGED <<arguments, next_arg, limit, counts, queue, search>>

\* Coroutines are created as long as there are keys and free streams.
NewCoroutine ==
    /\ pc = "fill"
    /\ next_arg < Len(lookups) /\ limit > 0
    /\ limit' = limit - 1
    /\ next_arg' = next_arg + 1
    /\ queue' = coro_queue_enqueue(queue, next_arg + 1)
    /\ search' = [search EXCEPT ![next_arg + 1].at = "new"]
    /\ UNCHANGED <<arguments, pc, counts>>

Filled ==
    /\ pc = "fill"
    /\ next_arg < Len(lookups) => limit =< 0
    /\ pc' = "serve"
    /\ UNCHANGED <<arguments, next_arg, limit, counts, queue, search>>

Serving == pc = "serve" \/ (pc = "finish" /\ limit < streams)

\* One search is resumed: it yields, and goes to the end of the queue, or answers.
Served ==
    /\ Serving
    /\ queue # <<>>
    /\ LET i == Head(queue)
           s == SeffBinarySearch(search[i], lookups[i])
       IN  /\ search' = [search EXCEPT ![i] = s]
           /\ IF s.at = "yielded"
                THEN /\ queue' = coro_queue_enqueue(Tail(queue), i)
                     /\ UNCHANGED <<pc, limit, counts>>
                ELSE /\ queue' = Tail(queue)
                     /\ found_count' = found_count + IF s.at = "found" THEN 1 ELSE 0
                     /\ not_found_count' = not_found_count + IF s.at = "found" THEN 0 ELSE 1
                     /\ limit' = limit + 1
                     /\ pc' = IF pc = "serve" THEN "next" ELSE "finish"
    /\ UNCHANGED <<arguments, next_arg>>

\* An empty queue answers NULL, which is resumed.
NullResumed ==
    /\ Serving
    /\ queue = <<>>
    /\ pc' = "crashed"
    /\ UNCHANGED <<arguments, next_arg, limit, counts, queue, search>>

Finished ==
    /\ pc = "finish" /\ limit >= streams
    /\ pc' = "end"
    /\ UNCHANGED <<arguments, next_arg, limit, counts, queue, search>>

Next == NextArgs \/ NewCoroutine \/ Filled \/ Served \/ NullResumed \/ Finished

Spec == Init /\ [][Next]_vars

-----------------------------------------------------------------------------
(* Properties *)

At(what) == {i \in Lookup : search[i].at \in what}

\* No search is lost on its way through the queue: each that has begun and not
\* answered is in it once, and the free streams are those that are not in use, so
\* that the loops never resume a coroutine that an empty queue answered.
NoneLost ==
    streams \in 1 .. capacity =>
    /\ \A i \in At({"new", "yielded"}) : \E n \in DOMAIN queue : queue[n] = i
    /\ Len(queue) = streams - limit
    /\ pc # "crashed"

\* However the searches are interleaved and whatever the queue drops, an answer is
\* right, and when the program ends every key has been counted: what it calls a
\* bug of its own (libseff.c:97) does not happen.
AnswersAreRight ==
    /\ \A i \in At({"found"}) : \E n \in DOMAIN v : v[n] = lookups[i]
    /\ \A i \in At({"not_found"}) : \A n \in DOMAIN v : v[n] # lookups[i]
    /\ found_count = Cardinality(At({"found"}))
    /\ not_found_count = Cardinality(At({"not_found"}))
    /\ pc = "end" => found_count + not_found_count = Len(lookups)

\* With a number of streams that the queue can hold the program ends.
Ended == streams \in 1 .. capacity => pc = "end"
=============================================================================
