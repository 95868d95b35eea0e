---------------------------- MODULE Cooperation -----------------------------
(***************************************************************************)
(* The reference program of the chameneos benchmark, in src/bench/           *)
(* chameneos_bench/c_solution: threads that meet in pairs by three POSIX      *)
(* semaphores, for ever.  A step goes up to the next semaphore operation.     *)
(***************************************************************************)
EXTENDS Integers

CONSTANT tabColour      \* [threads -> colours], main's table
Threads == DOMAIN tabColour

VARIABLES
    AtMostTwo, Mutex, SemPriv,      \* the semaphores' values
    FirstCall, AColour, BColour,    \* the shared variables; a colour comes with whose it is
    pc,
    myColour, otherColour,          \* [Threads -> ...] local variables
    partner                         \* history: [Threads -> whose colour a thread took last]

semaphores == <<AtMostTwo, Mutex, SemPriv>>
shared == <<FirstCall, AColour, BColour>>
locals == <<myColour, otherColour, partner>>
vars == <<semaphores, shared, pc, locals>>

Nobody == [who |-> 0, col |-> 0]

\* initCooperation and main; static variables start at 0 but FirstCall at 1.
Init ==
    /\ AtMostTwo = 2 /\ Mutex = 1 /\ SemPriv = 0
    /\ FirstCall = TRUE /\ AColour = Nobody /\ BColour = Nobody
    /\ pc = [t \in Threads |-> "enter"]
    /\ myColour = tabColour
    /\ otherColour = [t \in Threads |-> 0]
    /\ partner = [t \in Threads |-> 0]

Goto(t, l) == pc' = [pc EXCEPT ![t] = l]
Takes(t, colour) ==
    /\ otherColour' = [otherColour EXCEPT ![t] = colour.col]
    /\ partner' = [partner EXCEPT ![t] = colour.who]
    /\ UNCHANGED myColour

complementaryColour(c1, c2) == IF c1 = c2 THEN c1 ELSE 3 - c1 - c2

-----------------------------------------------------------------------------
(* Cooperation *)

Enter(t) ==
    /\ pc[t] = "enter" /\ AtMostTwo > 0
    /\ AtMostTwo' = AtMostTwo - 1
    /\ Goto(t, "lock")
    /\ UNCHANGED <<Mutex, SemPriv, shared, locals>>

First(t) ==
    /\ pc[t] = "lock" /\ Mutex > 0 /\ FirstCall
    /\ Mutex' = Mutex - 1
    /\ AColour' = [who |-> t, col |-> myColour[t]]
    /\ FirstCall' = FALSE
    /\ Goto(t, "lend")
    /\ UNCHANGED <<AtMostTwo, SemPriv, BColour, locals>>

Lend(t) ==
    /\ pc[t] = "lend"
    /\ Mutex' = Mutex + 1
    /\ Goto(t, "await")
    /\ UNCHANGED <<AtMostTwo, SemPriv, shared, locals>>

\* The mutex is now this thread's: its mate did not give it back.
AwaitMate(t) ==
    /\ pc[t] = "await" /\ SemPriv > 0
    /\ SemPriv' = SemPriv - 1
    /\ Takes(t, BColour)
    /\ Goto(t, "unlock")
    /\ UNCHANGED <<AtMostTwo, Mutex, shared>>

Second(t) ==
    /\ pc[t] = "lock" /\ Mutex > 0 /\ ~FirstCall
    /\ Mutex' = Mutex - 1
    /\ FirstCall' = TRUE
    /\ BColour' = [who |-> t, col |-> myColour[t]]
    /\ Takes(t, AColour)
    /\ Goto(t, "pass")
    /\ UNCHANGED <<AtMostTwo, SemPriv, AColour>>

Pass(t) ==
    /\ pc[t] = "pass"
    /\ SemPriv' = SemPriv + 1
    /\ Goto(t, "adopt")
    /\ UNCHANGED <<AtMostTwo, Mutex, shared, locals>>

Unlock(t) ==
    /\ pc[t] = "unlock"
    /\ Mutex' = Mutex + 1
    /\ Goto(t, "allow")
    /\ UNCHANGED <<AtMostTwo, SemPriv, shared, locals>>

\* A new pair is allowed, one at a time.
\* Mutant: one of the two posts is left out.
AllowsOne(t) ==
    /\ pc[t] = "allow" /\ AtMostTwo' = AtMostTwo + 1 /\ Goto(t, "adopt")
    /\ UNCHANGED <<Mutex, SemPriv, shared, locals>>
Allow(t) ==
    /\ pc[t] \in {"allow", "allow_second"}
    /\ AtMostTwo' = AtMostTwo + 1
    /\ Goto(t, IF pc[t] = "allow" THEN "allow_second" ELSE "adopt")
    /\ UNCHANGED <<Mutex, SemPriv, shared, locals>>

\* chameneosCode, after Cooperation.
Adopt(t) ==
    /\ pc[t] = "adopt"
    /\ myColour' = [myColour EXCEPT ![t] = complementaryColour(@, otherColour[t])]
    /\ Goto(t, "enter")
    /\ UNCHANGED <<semaphores, shared, otherColour, partner>>

Thread(t) ==
    \/ Enter(t) \/ First(t) \/ Lend(t) \/ AwaitMate(t) \/ Second(t) \/ Pass(t)
    \/ Unlock(t) \/ Allow(t) \/ Adopt(t)

Next == \E t \in Threads : Thread(t)
Spec == Init /\ [][Next]_vars
FairSpec == Spec /\ \A t \in Threads : WF_vars(Thread(t))

-----------------------------------------------------------------------------
(* Properties *)

\* A meeting is mutual, whoever comes next while the pair is taking leave: when
\* the first of a pair goes, the one whose colour it took has taken its colour.
Mutual == \A t \in Threads :
    pc[t] = "unlock" => partner[t] \in Threads /\ partner[partner[t]] = t

\* There is always a meeting to come; which threads meet is up to the semaphores.
MeetingsGoOn == []<>(\E t \in Threads : pc[t] = "unlock")
=============================================================================
