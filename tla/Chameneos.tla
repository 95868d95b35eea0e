----------------------------- MODULE Chameneos ------------------------------
(***************************************************************************)
(* The creatures of src/bench/chameneos_bench that meet in pairs and change   *)
(* colour, in three programs: actors (chameneos_actor.c), actors that run a   *)
(* creature written with the effect meet (chameneos_effect_actors.c), and one *)
(* handler for all creatures (chameneos_effect_direct.c).  Actors run on one   *)
(* thread, so their mailboxes are queues whose operations are a step each.    *)
(***************************************************************************)
EXTENDS Integers, Sequences, SequencesExt, FiniteSetsExt

CONSTANTS
    creatureColours,    \* [1 .. N -> colours] one creature each
    MEETINGS,
    Capacity            \* DEFAULT_MAILBOX_CAPACITY

Creatures == DOMAIN creatureColours
Colours == {0, 1, 2}    \* Blue, Red, Yellow

ChameneosConstants ==
    /\ creatureColours \in Seq(Colours) /\ Len(creatureColours) > 1
    /\ MEETINGS \in Nat /\ Capacity \in Nat \ {0}

\* 3 ^ (a | b), bit by bit.
complement(a, b) ==
    LET flipped(bit) == IF 1 \in {(a \div bit) % 2, (b \div bit) % 2} THEN 0 ELSE bit
    IN  IF a = b THEN a ELSE flipped(1) + flipped(2)

VARIABLES
    program,    \* which of the three
    pc,         \* [Creatures -> ...] where a creature is
    col, met, self_met,     \* [Creatures -> ...] its colour and its counters
    mate,       \* [Creatures -> record] a meet effect's payload, or the answer to it
    mail,       \* [Creatures -> Seq] a creature's mailbox
    requests,   \* Seq, the broker's mailbox
    broker,     \* where the broker or the handler is
    count,      \* its loop counter
    held,       \* Seq, the requests it is pairing
    total       \* total_meetings

creature == <<pc, col, met, self_met, mate>>
brokerVars == <<broker, count, held, total>>
vars == <<program, creature, mail, requests, brokerVars>>

Nothing == [finish |-> FALSE, who |-> 0, col |-> 0]
End == [Nothing EXCEPT !.finish = TRUE]
Meet(c, colour) == [finish |-> FALSE, who |-> c, col |-> colour]

Init ==
    /\ program \in {"actor", "effect_actors", "effect_direct"}
    /\ pc = [c \in Creatures |-> "none"]
    /\ col = [c \in Creatures |-> 0]
    /\ met = [c \in Creatures |-> 0]
    /\ self_met = [c \in Creatures |-> 0]
    /\ mate = [c \in Creatures |-> Nothing]
    /\ mail = [c \in Creatures |-> <<>>]
    /\ requests = <<>>
    /\ broker = "spawn" /\ count = 0 /\ held = <<>> /\ total = 0

GoesTo(c, l) == pc' = [pc EXCEPT ![c] = l]
Actors == program # "effect_direct"
Send(c, m) == Len(mail[c]) < Capacity /\ mail' = [mail EXCEPT ![c] = Append(@, m)]

-----------------------------------------------------------------------------
(* The creature *)

\* What it does with a mate, up to its next request; an end message ends it.
Counts(c) == IF mate[c].finish THEN met[c] ELSE met[c] + 1

Told(c) ==
    /\ pc[c] = "told"
    /\ met' = [met EXCEPT ![c] = Counts(c)]
    /\ IF mate[c].finish
         THEN GoesTo(c, "return") /\ UNCHANGED <<col, self_met>>
         ELSE /\ col' = [col EXCEPT ![c] = complement(@, mate[c].col)]
              /\ self_met' = [self_met EXCEPT ![c] = IF mate[c].who = c THEN @ + 1 ELSE @]
              /\ GoesTo(c, "loop")
    /\ UNCHANGED <<program, mate, mail, requests, brokerVars>>

\* chameneos_effect.h: PERFORM(meet, self_id, self_col).
PerformMeet(c) ==
    /\ program # "actor" /\ pc[c] = "loop"
    /\ mate' = [mate EXCEPT ![c] = Meet(c, col[c])]
    /\ GoesTo(c, "performs")
    /\ UNCHANGED <<program, col, met, self_met, mail, requests, brokerVars>>

-----------------------------------------------------------------------------
(* The actors around it *)

\* The first message is its colour.
Born(c) ==
    /\ pc[c] = "born" /\ mail[c] # <<>>
    /\ col' = [col EXCEPT ![c] = Head(mail[c]).col]
    /\ mail' = [mail EXCEPT ![c] = Tail(@)]
    /\ GoesTo(c, "loop")
    /\ UNCHANGED <<program, met, self_met, mate, requests, brokerVars>>

Ask(c) ==
    /\ Len(requests) < Capacity
    /\ requests' = Append(requests, Meet(c, col[c]))
    /\ GoesTo(c, "waits")
    /\ UNCHANGED <<program, col, met, self_met, mate, mail, brokerVars>>

chameneos(c) == program = "actor" /\ pc[c] = "loop" /\ Ask(c)
chameneos_wrapper(c) == program = "effect_actors" /\ pc[c] = "performs" /\ Ask(c)

Receive(c) ==
    /\ pc[c] = "waits" /\ mail[c] # <<>>
    /\ mate' = [mate EXCEPT ![c] = Head(mail[c])]
    /\ mail' = [mail EXCEPT ![c] = Tail(@)]
    /\ GoesTo(c, "told")
    /\ UNCHANGED <<program, col, met, self_met, requests, brokerVars>>

\* The last message to the broker: the creature's counter.
Report(c) ==
    /\ Actors /\ pc[c] = "return"
    /\ Len(requests) < Capacity
    /\ requests' = Append(requests, [finish |-> TRUE, who |-> c, col |-> met[c]])
    /\ GoesTo(c, "done")
    /\ UNCHANGED <<program, col, met, self_met, mate, mail, brokerVars>>

-----------------------------------------------------------------------------
(* broker_fn *)

Turn(next, n) == broker' = next /\ count' = n

\* fork_actor and the first message, for each creature.
Spawn ==
    LET c == count + 1
        last == c = Cardinality(Creatures)
    IN  /\ Actors /\ broker = "spawn"
        /\ GoesTo(c, "born")
        /\ Send(c, Meet(0, creatureColours[c]))
        /\ Turn(IF last THEN "pair" ELSE "spawn", IF last THEN 0 ELSE c)
        /\ UNCHANGED <<program, col, met, self_met, mate, requests, held, total>>

Collect ==
    /\ Actors /\ broker = "pair" /\ count < MEETINGS
    /\ requests # <<>>
    /\ held' = Append(held, Head(requests))
    /\ requests' = Tail(requests)
    /\ Turn(IF held = <<>> THEN "pair" ELSE "answer", count)
    /\ UNCHANGED <<program, creature, mail, total>>

\* Mutant: each gets its own request back.
GetsOwn(i) == held[i]
GetsOther(i) == held[3 - i]

\* To the first with the second's request, and to the second with the first's.
AnswerPair ==
    LET i == IF broker = "answer" THEN 1 ELSE 2
    IN  /\ Actors /\ broker \in {"answer", "answer_second"}
        /\ Send(held[i].who, GetsOther(i))
        /\ IF i = 1 THEN Turn("answer_second", count) /\ UNCHANGED held
           ELSE Turn("pair", count + 1) /\ held' = <<>>
        /\ UNCHANGED <<program, creature, requests, total>>

IsLast(c) == c = Cardinality(Creatures)

Finalize ==
    LET c == count + 1
        first == broker = "pair"
    IN  /\ Actors
        /\ \/ first /\ count = MEETINGS /\ Turn("finalize", 0) /\ UNCHANGED mail
           \/ /\ broker = "finalize"
              /\ Send(c, End)
              /\ IF IsLast(c) THEN Turn("collect", c) ELSE Turn("finalize", c)
        /\ UNCHANGED <<program, creature, requests, held, total>>

IsFinal(m) == m.finish

\* Until all have reported, requests that nobody answers any more are freed.
AddUp ==
    LET m == Head(requests)
    IN  /\ Actors /\ broker = "collect" /\ requests # <<>>
        /\ requests' = Tail(requests)
        /\ IF IsFinal(m)
             THEN /\ total' = total + m.col
                  /\ Turn(IF count = 1 THEN "done" ELSE "collect", count - 1)
             ELSE UNCHANGED <<total, broker, count>>
        /\ UNCHANGED <<program, creature, mail, held>>

-----------------------------------------------------------------------------
(* chameneos_effect_direct.c: execute *)

\* No creature is running: control is with the handler.
Stopped == \A c \in Creatures : pc[c] \in {"none", "performs", "return", "done"}

Resume(c, answer) ==
    /\ mate' = [mate EXCEPT ![c] = answer]
    /\ GoesTo(c, "told")

\* The creatures are created and resumed once, in turn.
Create ==
    LET c == count + 1
        last == c = Cardinality(Creatures)
    IN  /\ ~Actors /\ broker = "spawn" /\ Stopped
        /\ col' = [col EXCEPT ![c] = creatureColours[c]]
        /\ GoesTo(c, "loop")
        /\ Turn(IF last THEN "pair" ELSE "spawn", IF last THEN 0 ELSE c)
        /\ UNCHANGED <<program, met, self_met, mate, mail, requests, held, total>>

\* Meeting i is between creatures 2 i and 2 i + 1, round and round; both requests
\* are read before the first creature is resumed.
ResumePair ==
    LET N == Cardinality(Creatures)
        a == ((2 * count) % N) + 1
        b == ((2 * count + 1) % N) + 1
    IN  /\ ~Actors /\ Stopped
        /\ \/ /\ broker = "pair" /\ count < MEETINGS
              /\ held' = <<mate[a], mate[b]>>
              /\ Resume(a, mate[b])
              /\ Turn("second", count)
           \/ /\ broker = "second"
              /\ Resume(b, held[1])
              /\ held' = <<>>
              /\ Turn("pair", count + 1)
        /\ UNCHANGED <<program, col, met, self_met, mail, requests, total>>

ResumeLast ==
    LET N == Cardinality(Creatures)
        n == IF broker = "pair" THEN 0 ELSE count
        c == n + 1
    IN  /\ ~Actors /\ Stopped
        /\ broker = "pair" => count = MEETINGS
        /\ \/ /\ broker \in {"pair", "last"} /\ n < N
              /\ Resume(c, End)
              /\ Turn("add", n)
              /\ UNCHANGED total
           \/ /\ broker = "add"
              /\ total' = total + met[count + 1]
              /\ GoesTo(count + 1, "done") /\ UNCHANGED mate
              /\ Turn(IF count + 1 = N THEN "done" ELSE "last", count + 1)
        /\ UNCHANGED <<program, col, met, self_met, mail, requests, held>>

-----------------------------------------------------------------------------
Creature(c) ==
    \/ Born(c) \/ chameneos(c) \/ PerformMeet(c) \/ chameneos_wrapper(c)
    \/ Receive(c) \/ Told(c) \/ Report(c)
Broker ==
    \/ Spawn \/ Collect \/ AnswerPair \/ Finalize \/ AddUp
    \/ Create \/ ResumePair \/ ResumeLast

Ended == broker = "done" /\ \A c \in Creatures : pc[c] = "done"

Next == (\E c \in Creatures : Creature(c)) \/ Broker
Spec == Init /\ [][Next]_vars
FairSpec == Spec /\ WF_vars(Broker) /\ \A c \in Creatures : WF_vars(Creature(c))

-----------------------------------------------------------------------------
(* Properties *)

\* "The sum of the number of meetings that each creature had (should be 2 * N)".
TotalIsTwice == broker = "done" => total = 2 * MEETINGS

\* "This should never happen": a creature is not paired with itself, because it
\* asks again only when it was answered.
NobodyMeetsItself == \A c \in Creatures : self_met[c] = 0

\* Every message was received, and freed, when the broker returns: a creature's
\* last message comes after the request it was not answered.
NothingLeft == broker = "done" => requests = <<>> /\ \A c \in Creatures : mail[c] = <<>>
=============================================================================
