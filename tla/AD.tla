--------------------------------- MODULE AD ---------------------------------
(***************************************************************************)
(* Automatic differentiation with effects: the four programs of              *)
(* src/bench/ad_bench.  example computes with the effects r_*; handle, called  *)
(* once more for each operation, computes its value on the way in and adds to *)
(* the derivatives of its arguments on the way out; both use the effects e_*, *)
(* which evaluate answers.  The programs differ in where a derivative lives   *)
(* and how an answer travels.  Numbers are integers: rounding is left out.    *)
(***************************************************************************)
EXTENDS Integers, Sequences, SequencesExt

CONSTANTS
    MaxIters,   \* bound on iters, the argument of main
    Inputs      \* the values of x: the programs have 0.5

Programs == {"naive", "no_alloc", "indirect_prop_t", "ptr_dbl_cast"}

VARIABLES
    program, iters, vx,
    pc,         \* where control is: example, handle, evaluate ...
    frames,     \* Seq([op, args, v, dv]) the active calls of handle, the oldest first
    acc, prev,  \* example's variables: which call of handle made them
    dx,         \* the derivative of x
    request,    \* the e_* effect that is being performed
    value,      \* evaluate's answer: one cell, or the pointer itself
    part,       \* the argument handle adds to, on the way out
    term,       \* what it adds
    live        \* the blocks of memory and the stacks that numbers are kept in

example_locals == <<acc, prev>>
vars == <<program, iters, vx, pc, frames, acc, prev, dx, request, value, part, term, live>>
inputs == <<program, iters, vx>>

X == 0      \* x, among the results of the calls of handle
NoRequest == [op |-> "none", args |-> <<>>]
Garbage == 1000

\* Where the derivatives of x and of a call's result are kept: on the heap in
\* naive.c, else in the frames of example, which has returned by then but whose
\* stack is there, and of handle.
ExampleBlocks == IF program = "naive" THEN {<<"x", 0>>, <<"dx", 0>>} ELSE {<<"example", 0>>}
CallBlocks(n) == IF program = "naive" THEN {<<"dv", n>>, <<"r", n>>} ELSE {<<"handle", n>>}
Blocks(n) == IF n = X THEN ExampleBlocks ELSE CallBlocks(n)

Result == IF program = "naive" THEN {<<"result", 0>>} ELSE {}

Init ==
    /\ program \in Programs
    /\ iters \in 0 .. MaxIters
    /\ vx \in Inputs
    /\ pc = "example"
    /\ frames = <<>> /\ acc = X /\ prev = X
    /\ dx = 0
    /\ request = NoRequest /\ value = Garbage
    /\ part = 0 /\ term = 0
    /\ live = ExampleBlocks

Val(n) == IF n = X THEN vx ELSE frames[n].v
Der(n) == IF n = X THEN dx ELSE frames[n].dv

-----------------------------------------------------------------------------
(* example: 1 + p1 + ... + p_iters, with p_i = p_(i-1) * -(x + -1) and p_0 = 1 *)

Const(c) == [op |-> "c", args |-> <<>>, v |-> c, dv |-> 0]
Op(op, args) == [op |-> op, args |-> args, v |-> Garbage, dv |-> 0]

\* Its next operation, when n have been done.
Operation(n) ==
    IF n < 2 THEN Const(1)
    ELSE CASE n % 5 = 2 -> Const(-1)
           [] n % 5 = 3 -> Op("a", <<X, n>>)
           [] n % 5 = 4 -> Op("n", <<n>>)
           [] n % 5 = 0 -> Op("m", <<prev, n>>)
           [] n % 5 = 1 -> Op("a", <<acc, prev>>)

\* The results that example keeps once it has the answer to operation n.
Keeps(n) ==
    /\ acc' = IF n = 1 \/ (n > 2 /\ n % 5 = 2) THEN n ELSE acc
    /\ prev' = IF n = 2 \/ (n > 2 /\ n % 5 = 1) THEN n ELSE prev

\* PERFORM of an r_* effect: handle is called once more, and performs e_* in turn.
\* At the end *(result->dv) = 1.
example ==
    LET n == Len(frames)
    IN  /\ pc = "example"
        /\ IF n < 2 + 5 * iters
             THEN /\ frames' = Append(frames, Operation(n))
                  /\ request' = [op |-> Operation(n).op,
                                 args |-> IF Operation(n).op = "c" THEN <<Operation(n).v>>
                                          ELSE [i \in DOMAIN Operation(n).args |->
                                                    Val(Operation(n).args[i])]]
                  /\ pc' = "value"
                  /\ UNCHANGED <<part, live>>
             ELSE /\ frames' = [frames EXCEPT ![acc].dv = 1]
                  /\ pc' = "leave" /\ part' = 1
                  /\ live' = live \cup Result
                  /\ UNCHANGED request
        /\ UNCHANGED <<inputs, example_locals, dx, value, term>>

-----------------------------------------------------------------------------
(* evaluate: answers an e_* effect and resumes *)

evaluate ==
    /\ request # NoRequest
    /\ value' = LET args == request.args
                IN  CASE request.op = "c" -> args[1]
                      [] request.op = "n" -> -args[1]
                      [] request.op = "a" -> args[1] + args[2]
                      [] request.op = "m" -> args[1] * args[2]
    /\ request' = NoRequest
    /\ UNCHANGED <<inputs, pc, frames, example_locals, dx, part, term, live>>

Answered == request = NoRequest

-----------------------------------------------------------------------------
(* handle *)

\* The value is known: example is resumed with it.
Forward ==
    LET n == Len(frames)
    IN  /\ pc = "value" /\ Answered
        /\ frames' = [frames EXCEPT ![n].v = value]
        /\ Keeps(n)
        /\ live' = live \cup CallBlocks(n)
        /\ pc' = "example"
        /\ UNCHANGED <<inputs, dx, request, value, part, term>>

OtherValue(f, i) == Val(f.args[3 - i])

\* What the newest call adds to the derivative of its i-th argument: by itself
\* for a sum, else by an e_* effect of its own.
Term ==
    LET f == Last(frames)
    IN  /\ pc = "leave" /\ frames # <<>> /\ Answered /\ part <= Len(f.args)
        /\ IF f.op = "a"
             THEN term' = f.dv /\ pc' = "add" /\ UNCHANGED request
             ELSE /\ request' = IF f.op = "n" THEN [op |-> "n", args |-> <<f.dv>>]
                                ELSE [op |-> "m", args |-> <<OtherValue(f, part), f.dv>>]
                  /\ pc' = "term" /\ UNCHANGED term
        /\ UNCHANGED <<inputs, frames, example_locals, dx, value, part, live>>

TermIsKnown ==
    /\ pc = "term" /\ Answered
    /\ term' = value
    /\ pc' = "add"
    /\ UNCHANGED <<inputs, frames, example_locals, dx, request, value, part, live>>

Add ==
    LET arg == Last(frames).args[part]
    IN  /\ pc = "add"
        /\ request' = [op |-> "a", args |-> <<Der(arg), term>>]
        /\ pc' = "store"
        /\ UNCHANGED <<inputs, frames, example_locals, dx, value, part, term, live>>

StoreSum ==
    LET arg == Last(frames).args[part]
    IN  /\ pc = "store" /\ Answered
        /\ IF arg = X THEN dx' = value /\ UNCHANGED frames
           ELSE frames' = [frames EXCEPT ![arg].dv = value] /\ UNCHANGED dx
        /\ part' = part + 1
        /\ pc' = "leave"
        /\ UNCHANGED <<inputs, example_locals, request, value, term, live>>

\* The newest call returns, and its derivative is gone.
Leave ==
    /\ pc = "leave" /\ frames # <<>> /\ part > Len(Last(frames).args)
    /\ frames' = Front(frames)
    /\ live' = live \ CallBlocks(Len(frames))
    /\ part' = 1
    /\ UNCHANGED <<inputs, pc, example_locals, dx, request, value, term>>

\* reverse: the derivative is printed, then x and the coroutine are given back.
\* Mutant: in the other order.
PrintLate ==
    /\ pc = "leave" /\ frames = <<>>
    /\ pc' = "printed"
    /\ live' = live \ ExampleBlocks
    /\ UNCHANGED <<inputs, frames, example_locals, dx, request, value, part, term>>
PrintDerivative ==
    /\ pc = "leave" /\ frames = <<>>
    /\ pc' = "printed"
    /\ UNCHANGED <<inputs, frames, example_locals, dx, request, value, part, term, live>>

reverse ==
    /\ pc = "printed"
    /\ live' = live \ ExampleBlocks
    /\ pc' = "end"
    /\ UNCHANGED <<inputs, frames, example_locals, dx, request, value, part, term>>

Next ==
    \/ example \/ evaluate \/ Forward
    \/ Term \/ TermIsKnown \/ Add \/ StoreSum \/ Leave \/ PrintDerivative \/ reverse

Spec == Init /\ [][Next]_vars

-----------------------------------------------------------------------------
(* Properties *)

Power[x \in Int, n \in Nat] == IF n = 0 THEN 1 ELSE x * Power[x, n - 1]
Sum(term_(_), n) == FoldLeft(LAMBDA s, i : s + term_(i), 0, [i \in 1 .. n |-> i])

\* What is printed is the derivative, at x, of what example computes: the sum of
\* the powers of 1 - x, each of which is the one before times 1 - x.
GradientIsRight ==
    pc \in {"printed", "end"} => dx = Sum(LAMBDA i : -i * Power[1 - vx, i - 1], iters)

\* A derivative is added to, and printed, while the memory it is kept in is there:
\* a call's own results go when it leaves, after all calls made in it have left.
\* In the end only what naive.c keeps in `result` is left.
MemoryIsThere ==
    /\ pc = "store" => Blocks(Last(frames).args[part]) \subseteq live
    /\ pc = "printed" => ExampleBlocks \subseteq live
    /\ pc = "end" => live = Result
=============================================================================
