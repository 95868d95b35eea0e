--------------------------- MODULE MailboxProofs ----------------------------
(***************************************************************************)
(* The mailbox of an actor for every capacity and number of messages.  With  *)
(* one sender, in either build: what is announced is there, no message is     *)
(* overwritten, and they arrive in order.  With any number of senders the     *)
(* last two in a debug build, which the assertion ends when the receiver has  *)
(* taken an empty slot; nothing is claimed of several senders in a release    *)
(* build, where such a place is given back and written late, perhaps over a   *)
(* message that has taken it since.                                         *)
(***************************************************************************)
EXTENDS Mailbox, FiniteSetTheorems, TLAPS

\* What the theorems on several senders are about.
Checked == ~NDEBUG \/ \E s : Senders = {s}

At(labels) == {s \in Senders : pc[s] \in labels}

\* The messages whose place the receiver has given back.
Freed == IF rpc \in {"clear", "free"} THEN start - 1 ELSE start

\* The messages of a sender that have a place: all it began, or all but the last.
Placed(s) == IF pc[s] \in {"load", "reserve", "claim"} THEN sent[s] - 1 ELSE sent[s]

Types ==
    /\ mailbox \in [0 .. mailbox_capacity - 1 -> Messages \cup {NULL}]
    /\ start \in Nat /\ write_loc \in Nat /\ reserved_size \in Int /\ ready_size \in Int
    /\ pc \in [Senders -> {"idle", "load", "reserve", "claim", "write", "ready"}]
    /\ old_size \in [Senders -> Int]
    /\ loc \in [Senders -> 0 .. mailbox_capacity - 1]
    /\ sent \in [Senders -> 0 .. MaxSent]
    /\ \A s \in Senders : pc[s] # "idle" => sent[s] > 0
    /\ rpc \in {"idle", "take", "read", "clear", "free"}
    /\ rold \in Int
    /\ result \in Messages \cup {NULL}
    /\ received \in Seq(Messages)
    /\ failed \in BOOLEAN

\* What the two counters count.
Claiming == Cardinality(At({"claim"}))
Unannounced == Cardinality(At({"write", "ready"}))
Counters ==
    /\ reserved_size = write_loc - Freed + Claiming
    /\ reserved_size =< mailbox_capacity
    /\ \A s \in Senders : pc[s] = "reserve" => old_size[s] < mailbox_capacity
    /\ write_loc - start =
          ready_size + Unannounced + IF rpc = "read" THEN 1 ELSE 0
    /\ ready_size >= 0
    /\ rpc = "take" => rold > 0

\* The assertion fails when nothing was read, and a debug build ends there.
Outcome ==
    /\ rpc \in {"clear", "free"} => start > 0
    /\ failed => rpc = "free" /\ ~NDEBUG
    /\ rpc = "free" => (failed <=> result = NULL)
    /\ rpc \in {"idle", "take", "read"} => result = NULL

\* Places in the order they were claimed: log[n] is the message the n-th is for.
Received(log) ==
    /\ Len(received) = Freed
    /\ \A i \in 1 .. Len(received) : received[i] = log[i - 1]
    /\ rpc \in {"clear", "free"} /\ result # NULL => result = log[start - 1]

Slots(log) ==
    /\ \A n \in start .. write_loc - 1 : mailbox[Slot(n)] \in {NULL, log[n]}
    /\ \A i \in 0 .. mailbox_capacity - 1 :
          mailbox[i] # NULL => \E n \in Freed .. write_loc - 1 : i = Slot(n)
    /\ rpc = "free" /\ ~failed => mailbox[Slot(start - 1)] = NULL

\* A sender about to write has an empty place of its own, which the receiver has
\* not passed, unless it found it empty.
Writers(log) ==
    \A s \in Senders : pc[s] = "write" =>
        \E n \in Freed .. write_loc - 1 :
            /\ loc[s] = Slot(n) /\ log[n] = <<s, sent[s]>>
            /\ mailbox[Slot(n)] = NULL
            /\ Freed # start /\ n = Freed => result = NULL

\* Each sender's messages have got their places in order, each one place.
Order(log) ==
    /\ \A n \in 0 .. write_loc - 1 : log[n][2] =< Placed(log[n][1])
    /\ \A m, n \in 0 .. write_loc - 1 :
          m < n /\ log[m][1] = log[n][1] => log[m][2] < log[n][2]
    /\ \A s \in Senders : \A k \in 1 .. Placed(s) : \E n \in 0 .. write_loc - 1 : log[n] = <<s, k>>

Tickets ==
    \E log \in [0 .. write_loc - 1 -> Messages] :
        Received(log) /\ Slots(log) /\ Writers(log) /\ Order(log)

IInv == Types /\ Counters /\ Outcome /\ Tickets

\* A release build depends on the receiver's finding what it takes.
Finds == NDEBUG /\ rpc = "clear" => result # NULL

\* With one sender only the last place can still be empty.
OneWriter ==
    /\ \A n \in start .. write_loc - 1 :
          mailbox[Slot(n)] = NULL => \E s \in Senders : pc[s] = "write" /\ loc[s] = Slot(n)
    /\ \A s \in Senders : pc[s] = "write" => loc[s] = Slot(write_loc - 1)
    /\ rpc \in {"clear", "free"} => result # NULL

-----------------------------------------------------------------------------
(* Arithmetic of places, and how many senders are where *)

LEMMA SlotRange == ASSUME NEW n \in Nat PROVE Slot(n) \in 0 .. mailbox_capacity - 1
  BY MailboxAssumption DEF Slot

\* Places less than the capacity apart are different slots.
LEMMA SlotsDiffer ==
    ASSUME NEW m \in Nat, NEW n \in Nat, m < n, n - m < mailbox_capacity
    PROVE  Slot(m) # Slot(n)
  <1> DEFINE c == mailbox_capacity
  <1> DEFINE p == m \div c
  <1> DEFINE q == n \div c
  <1>1. /\ c \in Nat \ {0} /\ p \in Nat /\ q \in Nat
        /\ m = c * p + Slot(m) /\ n = c * q + Slot(n)
        /\ Slot(m) \in Int /\ Slot(n) \in Int
    BY MailboxAssumption DEF Slot
  <1> SUFFICES ASSUME Slot(m) = Slot(n) PROVE FALSE
    OBVIOUS
  <1> HIDE DEF p, q, c
  <1>2. c * (q - p) = n - m
    <2>1. c * (q - p) = c * q - c * p
      BY <1>1
    <2>2. QED
      BY <2>1, <1>1
  <1>3. CASE q - p >= 1
    <2>1. c * (q - p) >= c
      BY <1>1, <1>3
    <2>2. QED
      BY <2>1, <1>2, <1>1 DEF c
  <1>4. CASE q - p =< 0
    <2>1. c * (p - q) >= 0
      BY <1>1, <1>4
    <2>2. c * (p - q) = c * p - c * q /\ c * (q - p) = c * q - c * p
      BY <1>1
    <2>3. c * p \in Nat /\ c * q \in Nat
      BY <1>1
    <2>4. QED
      BY <2>1, <2>2, <2>3, <1>2
  <1>5. QED
    BY <1>3, <1>4, <1>1

LEMMA AtFinite ==
    ASSUME NEW L PROVE IsFiniteSet(At(L)) /\ Cardinality(At(L)) \in Nat
  <1>1. At(L) \in SUBSET Senders
    BY DEF At
  <1>2. QED
    BY <1>1, SendersAssumption, FS_Subset, FS_CardinalityType

\* A sender that goes to another label is counted there.
LEMMA CardinalityMoves ==
    ASSUME NEW L, NEW s \in Senders, NEW l, DOMAIN pc = Senders, Goto(s, l)
    PROVE  Cardinality(At(L)') = Cardinality(At(L)) + (IF l \in L THEN 1 ELSE 0)
                                                   - (IF pc[s] \in L THEN 1 ELSE 0)
  <1>0. Cardinality(At(L)) \in Nat /\ IsFiniteSet(At(L))
    BY AtFinite
  <1>1. CASE l \in L /\ pc[s] \notin L
    <2>1. At(L)' = At(L) \cup {s} /\ s \notin At(L)
      BY <1>1 DEF At, Goto
    <2>2. Cardinality(At(L) \cup {s}) = Cardinality(At(L)) + 1
      BY <2>1, <1>0, FS_AddElement
    <2>3. QED
      BY <2>1, <2>2, <1>0, <1>1
  <1>2. CASE l \notin L /\ pc[s] \in L
    <2>1. At(L)' = At(L) \ {s} /\ s \in At(L)
      BY <1>2 DEF At, Goto
    <2>2. Cardinality(At(L) \ {s}) = Cardinality(At(L)) - 1
      BY <2>1, <1>0, FS_RemoveElement
    <2>3. QED
      BY <2>1, <2>2, <1>0, <1>2
  <1>3. CASE l \in L <=> pc[s] \in L
    <2>1. At(L)' = At(L)
      BY <1>3 DEF At, Goto
    <2>2. QED
      BY <2>1, <1>0, <1>3
  <1>4. QED
    BY <1>1, <1>2, <1>3

LEMMA CountsMove ==
    ASSUME NEW s \in Senders, NEW l, Types, Goto(s, l)
    PROVE  /\ Claiming \in Nat /\ Unannounced \in Nat
           /\ Claiming' = Claiming + (IF l = "claim" THEN 1 ELSE 0)
                                   - (IF pc[s] = "claim" THEN 1 ELSE 0)
           /\ Unannounced' = Unannounced + (IF l \in {"write", "ready"} THEN 1 ELSE 0)
                                   - (IF pc[s] \in {"write", "ready"} THEN 1 ELSE 0)
  <1>1. DOMAIN pc = Senders
    BY DEF Types
  <1>2. Claiming \in Nat /\ Unannounced \in Nat
    BY AtFinite DEF Claiming, Unannounced
  <1>3. Claiming' = Claiming + (IF l \in {"claim"} THEN 1 ELSE 0)
                             - (IF pc[s] \in {"claim"} THEN 1 ELSE 0)
    BY <1>1, CardinalityMoves DEF Claiming
  <1>4. Unannounced' = Unannounced + (IF l \in {"write", "ready"} THEN 1 ELSE 0)
                                   - (IF pc[s] \in {"write", "ready"} THEN 1 ELSE 0)
    BY <1>1, CardinalityMoves DEF Unannounced
  <1>5. QED
    BY <1>2, <1>3, <1>4

LEMMA CountsStay == UNCHANGED pc => UNCHANGED <<Claiming, Unannounced>>
  BY DEF Claiming, Unannounced, At

-----------------------------------------------------------------------------
(* The invariant *)

LEMMA InitInv == Init => IInv
  <1> SUFFICES ASSUME Init PROVE IInv
    OBVIOUS
  <1> USE DEF Init
  <1>1. Types
    <2>1. mailbox \in [0 .. mailbox_capacity - 1 -> Messages \cup {NULL}]
          /\ received \in Seq(Messages)
      OBVIOUS
    <2>2. sent \in [Senders -> 0 .. MaxSent] /\ loc \in [Senders -> 0 .. mailbox_capacity - 1]
      BY MailboxAssumption
    <2>3. pc \in [Senders -> {"idle", "load", "reserve", "claim", "write", "ready"}]
          /\ old_size \in [Senders -> Int] /\ \A s \in Senders : pc[s] = "idle"
      OBVIOUS
    <2>4. /\ start \in Nat /\ write_loc \in Nat /\ reserved_size \in Int /\ ready_size \in Int
          /\ rold \in Int /\ rpc \in {"idle", "take", "read", "clear", "free"}
      OBVIOUS
    <2>5. result \in Messages \cup {NULL} /\ failed \in BOOLEAN
      OBVIOUS
    <2> HIDE DEF Init
    <2>6. QED
      BY <2>1, <2>2, <2>3, <2>4, <2>5 DEF Types
  <1>2. Counters
    <2>1. At({"claim"}) = {} /\ At({"write", "ready"}) = {}
      BY DEF At
    <2>2. QED
      BY <2>1, FS_EmptySet, MailboxAssumption DEF Counters, Freed, Claiming, Unannounced
  <1>3. Outcome
    BY DEF Outcome
  <1>4. Tickets
    <2> DEFINE log == [n \in 0 .. -1 |-> NULL]
    <2>1. log \in [0 .. write_loc - 1 -> Messages]
      OBVIOUS
    <2>2. Received(log)
      BY DEF Received, Freed
    <2>3. Slots(log)
      BY DEF Slots
    <2>4. Writers(log)
      BY DEF Writers
    <2>5. Order(log)
      BY DEF Order, Placed
    <2>6. QED
      BY <2>1, <2>2, <2>3, <2>4, <2>5 DEF Tickets
  <1>5. QED
    BY <1>1, <1>2, <1>3, <1>4 DEF IInv

LEMMA StepTypes == Types /\ [Next]_vars => Types'
  <1> SUFFICES ASSUME Types, [Next]_vars PROVE Types'
    OBVIOUS
  <1>0. ASSUME NEW f, NEW S, NEW T, f \in [S -> T], NEW x \in S, NEW y \in T
        PROVE  [f EXCEPT ![x] = y] \in [S -> T]
    BY <1>0
  <1>1. ASSUME NEW s \in Senders, actor_send(s) PROVE Types'
    <2>1. sent[s] + 1 \in 0 .. MaxSent /\ sent[s] + 1 > 0
      BY <1>1, MailboxAssumption DEF actor_send, Types
    <2>2. QED
      BY <1>1, <2>1 DEF actor_send, Goto, Types, slots, receiver
  <1>2. ASSUME NEW s \in Senders, LoadReserved(s) PROVE Types'
    BY <1>2 DEF LoadReserved, Goto, Types, slots, receiver
  <1>3. ASSUME NEW s \in Senders, Reserve(s) PROVE Types'
    <2>1. PICK l \in {"claim", "load"} : Goto(s, l) /\ pc[s] = "reserve"
      BY <1>3 DEF Reserve
    <2>2. reserved_size' \in Int
      BY <1>3 DEF Reserve, Types
    <2>3. QED
      BY <1>3, <2>1, <2>2 DEF Reserve, Goto, Types, receiver
  <1>4. ASSUME NEW s \in Senders, Claim(s) PROVE Types'
    <2>1. Slot(write_loc) \in 0 .. mailbox_capacity - 1
      BY SlotRange DEF Types
    <2>2. QED
      BY <1>4, <2>1 DEF Claim, Goto, Types, receiver
  <1>5. ASSUME NEW s \in Senders, Write(s) PROVE Types'
    <2>1. <<s, sent[s]>> \in Messages
      <3>1. sent[s] \in 0 .. MaxSent /\ sent[s] > 0
        BY <1>5 DEF Write, Types
      <3>2. sent[s] \in 1 .. MaxSent
        BY <3>1, MailboxAssumption
      <3>3. QED
        BY <3>2 DEF Messages
    <2>2. mailbox' \in [0 .. mailbox_capacity - 1 -> Messages \cup {NULL}]
      BY <1>5, <2>1 DEF Write, Types
    <2>3. QED
      BY <1>5, <2>2 DEF Write, Goto, Types, receiver
  <1>6. ASSUME NEW s \in Senders, Announce(s) PROVE Types'
    BY <1>6 DEF Announce, Goto, Types, receiver
  <1>7. CASE LoadReady
    BY <1>7 DEF LoadReady, Types, slots, sender
  <1>8. CASE Take
    BY <1>8 DEF Take, Types, sender
  <1>9. CASE Read
    <2>1. mailbox[Slot(start)] \in Messages \cup {NULL}
      BY SlotRange DEF Types
    <2>2. QED
      BY <1>9, <2>1 DEF Read, Types, sender
  <1>10. CASE Clear
    <2>1. mailbox' \in [0 .. mailbox_capacity - 1 -> Messages \cup {NULL}]
      BY <1>10 DEF Clear, Types
    <2>2. QED
      BY <1>10, <2>1 DEF Clear, Types, sender
  <1>11. CASE Free
    <2>1. received' \in Seq(Messages)
      BY <1>11 DEF Free, Returned, Types
    <2>2. QED
      BY <1>11, <2>1 DEF Free, Types, sender
  <1>12. CASE UNCHANGED vars
    BY <1>12 DEF vars, Types, slots, sender, receiver
  <1>13. QED
    BY <1>1, <1>2, <1>3, <1>4, <1>5, <1>6, <1>7, <1>8, <1>9, <1>10, <1>11, <1>12
    DEF Next, Sends, Receives

LEMMA StepOutcome == Types /\ Outcome /\ Finds /\ [Next]_vars => Outcome'
  <1> SUFFICES ASSUME Types, Outcome, Finds, [Next]_vars PROVE Outcome'
    OBVIOUS
  <1> USE DEF Outcome, slots, sender, receiver
  <1>1. ASSUME NEW s \in Senders, actor_send(s) \/ Sends(s) PROVE Outcome'
    <2>1. UNCHANGED <<start, receiver>>
      BY <1>1 DEF actor_send, Sends, LoadReserved, Reserve, Claim, Write, Announce
    <2>2. QED
      BY <2>1
  <1>2. CASE LoadReady
    BY <1>2 DEF LoadReady
  <1>3. CASE Take
    BY <1>3 DEF Take
  <1>4. CASE Read
    BY <1>4 DEF Read, Types
  <1>5. CASE Clear
    BY <1>5, BuildAssumption DEF Clear, Finds, Types
  <1>6. CASE Running /\ Free
    BY <1>6 DEF Running, Free
  <1>7. CASE UNCHANGED vars
    BY <1>7 DEF vars
  <1>8. QED
    BY <1>1, <1>2, <1>3, <1>4, <1>5, <1>6, <1>7 DEF Next, Receives

\* The counters change with what they count.
LEMMA StepCounters == Types /\ Counters /\ [Next]_vars => Counters'
  <1> SUFFICES ASSUME Types, Counters, [Next]_vars PROVE Counters'
    OBVIOUS
  <1>0. Claiming \in Nat /\ Unannounced \in Nat
    BY AtFinite DEF Claiming, Unannounced
  <1>t. /\ start \in Nat /\ write_loc \in Nat /\ reserved_size \in Int /\ ready_size \in Int
        /\ rold \in Int /\ mailbox_capacity \in Nat
        /\ DOMAIN pc = Senders /\ old_size \in [Senders -> Int]
    BY MailboxAssumption DEF Types
  <1> USE DEF Counters, Freed
  <1>1. ASSUME NEW s \in Senders, actor_send(s) PROVE Counters'
    <2>1. Goto(s, "load") /\ pc[s] = "idle"
      BY <1>1 DEF actor_send
    <2>2. UNCHANGED <<Claiming, Unannounced>>
      BY <2>1, CountsMove
    <2>3. QED
      BY <1>1, <1>t, <2>2 DEF actor_send, Goto, slots, receiver
  <1>2. ASSUME NEW s \in Senders, LoadReserved(s) PROVE Counters'
    <2>1. PICK l \in {"load", "reserve"} : Goto(s, l) /\ pc[s] = "load"
                              /\ (l = "reserve" => reserved_size < mailbox_capacity)
      BY <1>2 DEF LoadReserved, HasSpace
    <2>2. UNCHANGED <<Claiming, Unannounced>>
      BY <2>1, CountsMove
    <2>3. QED
      BY <1>2, <1>t, <2>1, <2>2 DEF LoadReserved, Goto, slots, receiver
  <1>3. ASSUME NEW s \in Senders, Reserve(s) PROVE Counters'
    <2>1. CASE reserved_size = old_size[s]
      <3>1. Goto(s, "claim") /\ pc[s] = "reserve" /\ reserved_size' = reserved_size + 1
        BY <1>3, <2>1 DEF Reserve
      <3>2. Claiming' = Claiming + 1 /\ UNCHANGED Unannounced
        BY <3>1, CountsMove
      <3>3. QED
        BY <1>3, <1>0, <1>t, <2>1, <3>1, <3>2 DEF Reserve, Goto, receiver
    <2>2. CASE reserved_size # old_size[s]
      <3>1. Goto(s, "load") /\ pc[s] = "reserve" /\ UNCHANGED reserved_size
        BY <1>3, <2>2 DEF Reserve
      <3>2. UNCHANGED <<Claiming, Unannounced>>
        BY <3>1, CountsMove
      <3>3. QED
        BY <1>3, <1>t, <3>1, <3>2 DEF Reserve, Goto, receiver
    <2>3. QED
      BY <2>1, <2>2
  <1>4. ASSUME NEW s \in Senders, Claim(s) PROVE Counters'
    <2>1. Goto(s, "write") /\ pc[s] = "claim"
      BY <1>4 DEF Claim
    <2>2. Claiming' = Claiming - 1 /\ Unannounced' = Unannounced + 1
      BY <2>1, CountsMove
    <2>3. QED
      BY <1>4, <1>0, <1>t, <2>2 DEF Claim, Goto, receiver
  <1>5. ASSUME NEW s \in Senders, Write(s) PROVE Counters'
    <2>1. Goto(s, "ready") /\ pc[s] = "write"
      BY <1>5 DEF Write
    <2>2. UNCHANGED <<Claiming, Unannounced>>
      BY <2>1, CountsMove
    <2>3. QED
      BY <1>5, <1>t, <2>2 DEF Write, Goto, receiver
  <1>6. ASSUME NEW s \in Senders, Announce(s) PROVE Counters'
    <2>1. Goto(s, "idle") /\ pc[s] = "ready"
      BY <1>6 DEF Announce
    <2>2. UNCHANGED Claiming /\ Unannounced' = Unannounced - 1
      BY <2>1, CountsMove
    <2>3. QED
      BY <1>6, <1>0, <1>t, <2>2 DEF Announce, Goto, receiver
  <1>7. CASE LoadReady
    BY <1>7, CountsStay DEF LoadReady, slots, sender
  <1>8. CASE Take
    BY <1>8, <1>0, <1>t, CountsStay DEF Take, sender
  <1>9. CASE Read
    BY <1>9, <1>0, <1>t, CountsStay DEF Read, sender
  <1>10. CASE Clear
    BY <1>10, <1>t, CountsStay DEF Clear, sender
  <1>11. CASE Free
    BY <1>11, <1>0, <1>t, CountsStay DEF Free, sender
  <1>12. CASE UNCHANGED vars
    BY <1>12, CountsStay DEF vars, slots, sender, receiver
  <1>13. QED
    BY <1>1, <1>2, <1>3, <1>4, <1>5, <1>6, <1>7, <1>8, <1>9, <1>10, <1>11, <1>12
    DEF Next, Sends, Receives

\* What is known of the places in use.
LEMMA Window ==
    ASSUME Types, Counters, Outcome
    PROVE  /\ Freed \in Nat /\ Freed =< start /\ start =< write_loc
           /\ write_loc - Freed =< mailbox_capacity
           /\ \A s \in Senders : pc[s] = "claim" => write_loc - Freed < mailbox_capacity
           /\ rpc = "read" => start < write_loc
  <1>0. Claiming \in Nat /\ Unannounced \in Nat /\ mailbox_capacity \in Nat
    BY AtFinite, MailboxAssumption DEF Claiming, Unannounced
  <1>1. Freed \in Nat /\ Freed =< start
    BY DEF Freed, Outcome, Types
  <1>2. start =< write_loc /\ (rpc = "read" => start < write_loc)
    BY <1>0 DEF Counters, Types
  <1>3. write_loc - Freed =< mailbox_capacity
    BY <1>0, <1>1 DEF Counters, Types
  <1>4. ASSUME NEW s \in Senders, pc[s] = "claim" PROVE write_loc - Freed < mailbox_capacity
    <2>1. Claiming # 0
      <3>1. At({"claim"}) # {}
        BY <1>4 DEF At
      <3>2. QED
        BY <3>1, AtFinite, FS_EmptySet DEF Claiming
    <2>2. QED
      BY <2>1, <1>0, <1>1 DEF Counters, Types
  <1>5. QED
    BY <1>1, <1>2, <1>3, <1>4

\* Places in use are different slots.
LEMMA Apart ==
    ASSUME Types, Counters, Outcome,
           NEW m \in Freed .. write_loc - 1, NEW n \in Freed .. write_loc - 1, m # n
    PROVE  Slot(m) # Slot(n)
  <1>1. m \in Nat /\ n \in Nat /\ Freed \in Nat /\ write_loc \in Nat
    BY Window DEF Types
  <1>2. m < n \/ n < m
    BY <1>1
  <1>3. m - n < mailbox_capacity /\ n - m < mailbox_capacity
    BY <1>1, Window, MailboxAssumption
  <1>4. QED
    BY <1>1, <1>2, <1>3, SlotsDiffer

\* Steps that leave the slots and their history alone.
LEMMA TicketsStay ==
    ASSUME Types, Tickets, UNCHANGED <<mailbox, start, write_loc, result, received, failed>>,
           UNCHANGED Freed, rpc \in {"clear", "free"} => UNCHANGED rpc,
           rpc' = "free" => rpc = "free",
           \A s \in Senders : Placed(s)' = Placed(s),
           \A s \in Senders : pc'[s] = "write" =>
                                /\ pc[s] = "write" /\ loc'[s] = loc[s] /\ sent'[s] = sent[s],
           rpc' \in {"clear", "free"} => rpc \in {"clear", "free"}
    PROVE  Tickets'
  <1>1. PICK log \in [0 .. write_loc - 1 -> Messages] :
            Received(log) /\ Slots(log) /\ Writers(log) /\ Order(log)
    BY DEF Tickets
  <1>2. Received(log)'
    BY <1>1 DEF Received
  <1>3. Slots(log)'
    BY <1>1 DEF Slots
  <1>4. Writers(log)'
    BY <1>1 DEF Writers
  <1>5. Order(log)'
    <2>1. \A n \in 0 .. write_loc - 1 : log[n][1] \in Senders
      BY DEF Messages
    <2>2. QED
      BY <1>1, <2>1 DEF Order
  <1>6. QED
    BY <1>2, <1>3, <1>4, <1>5 DEF Tickets

LEMMA TicketsClaim ==
    ASSUME Types, Counters, Outcome, Tickets, NEW s \in Senders, Claim(s) PROVE Tickets'
  <1>1. PICK log \in [0 .. write_loc - 1 -> Messages] :
            Received(log) /\ Slots(log) /\ Writers(log) /\ Order(log)
    BY DEF Tickets
  <1>2. /\ pc[s] = "claim" /\ pc' = [pc EXCEPT ![s] = "write"]
        /\ loc' = [loc EXCEPT ![s] = Slot(write_loc)] /\ write_loc' = write_loc + 1
        /\ UNCHANGED <<mailbox, start, sent, rpc, result, received, failed, Freed>>
    BY DEF Claim, Goto, receiver, Freed
  <1>3. /\ write_loc \in Nat /\ Freed \in Nat /\ Freed =< start /\ start =< write_loc
        /\ start \in Nat
        /\ write_loc - Freed < mailbox_capacity
    BY <1>2, Window DEF Types
  <1>4. sent[s] \in 1 .. MaxSent /\ <<s, sent[s]>> \in Messages
    <2>1. sent[s] \in 0 .. MaxSent /\ sent[s] > 0
      BY <1>2 DEF Types
    <2>2. QED
      BY <2>1, MailboxAssumption DEF Messages
  <1>5. mailbox[Slot(write_loc)] = NULL
    <2>1. SUFFICES ASSUME mailbox[Slot(write_loc)] # NULL PROVE FALSE
      OBVIOUS
    <2>2. PICK n \in Freed .. write_loc - 1 : Slot(write_loc) = Slot(n)
      BY <1>1, <1>3, <2>1, SlotRange DEF Slots
    <2>3. n \in Nat /\ n < write_loc /\ write_loc - n < mailbox_capacity
      BY <1>3, MailboxAssumption
    <2>4. QED
      BY <2>2, <2>3, <1>3, SlotsDiffer
  <1>6. PICK log2 \in [0 .. write_loc -> Messages] :
            /\ \A n \in 0 .. write_loc - 1 : log2[n] = log[n]
            /\ log2[write_loc] = <<s, sent[s]>>
    <2> DEFINE l == [n \in 0 .. write_loc |-> IF n = write_loc THEN <<s, sent[s]>> ELSE log[n]]
    <2>1. l \in [0 .. write_loc -> Messages]
      BY <1>3, <1>4
    <2>2. /\ \A n \in 0 .. write_loc - 1 : l[n] = log[n]
          /\ l[write_loc] = <<s, sent[s]>>
      BY <1>3
    <2>3. QED
      BY <2>1, <2>2
  <1>7. Received(log2)'
    <2>1. Len(received) = Freed /\ \A i \in 1 .. Len(received) : received[i] = log[i - 1]
      BY <1>1 DEF Received
    <2>2. \A i \in 1 .. Freed : i - 1 \in 0 .. write_loc - 1
      BY <1>3
    <2>3. rpc \in {"clear", "free"} => start - 1 \in 0 .. write_loc - 1
      BY <1>3 DEF Outcome
    <2>4. QED
      BY <1>1, <1>2, <1>6, <2>1, <2>2, <2>3 DEF Received
  <1>8. Slots(log2)'
    <2>1. \A n \in start .. write_loc : mailbox[Slot(n)] \in {NULL, log2[n]}
      BY <1>1, <1>3, <1>5, <1>6 DEF Slots
    <2>2. \A n \in Freed .. write_loc - 1 : n \in Freed .. write_loc
      BY <1>3
    <2>3. write_loc' - 1 = write_loc
      BY <1>2, <1>3
    <2>4. QED
      BY <1>1, <1>2, <2>1, <2>2, <2>3 DEF Slots
  <1>9. Writers(log2)'
    <2>1. /\ write_loc \in Freed .. write_loc /\ log2[write_loc] = <<s, sent[s]>>
          /\ Freed # start => write_loc # Freed
      BY <1>3, <1>6 DEF Freed
    <2>2. \A n \in Freed .. write_loc - 1 : n \in Freed .. write_loc /\ log2[n] = log[n]
      BY <1>3, <1>6
    <2>3. write_loc' - 1 = write_loc
      BY <1>2, <1>3
    <2>4. DOMAIN loc = Senders /\ DOMAIN pc = Senders
      BY DEF Types
    <2>5. ASSUME NEW u \in Senders, pc'[u] = "write"
          PROVE \E n \in Freed .. write_loc :
                    /\ loc'[u] = Slot(n) /\ log2[n] = <<u, sent[u]>>
                    /\ mailbox[Slot(n)] = NULL
                    /\ Freed # start /\ n = Freed => result = NULL
      <3>1. CASE u = s
        BY <3>1, <1>2, <2>1, <2>4, <1>5
      <3>2. CASE u # s
        BY <3>2, <2>5, <1>1, <1>2, <2>2, <2>4 DEF Writers
      <3>3. QED
        BY <3>1, <3>2
    <2>6. QED
      BY <1>2, <2>3, <2>5 DEF Writers
  <1>10. Order(log2)'
    <2>1. Placed(s) = sent[s] - 1 /\ Placed(s)' = sent[s]
      BY <1>2 DEF Placed, Types
    <2>2. \A u \in Senders : u # s => Placed(u)' = Placed(u)
      BY <1>2 DEF Placed, Types
    <2>3. \A n \in 0 .. write_loc - 1 : log[n][1] \in Senders /\ log[n][2] \in Int
      BY DEF Messages
    <2>4. \A n \in 0 .. write_loc : n = write_loc \/ n \in 0 .. write_loc - 1
      BY <1>3
    <2>5. \A u \in Senders : Placed(u) \in Int
      BY DEF Placed, Types
    <2>6. \A n \in 0 .. write_loc : log2[n][2] =< Placed(log2[n][1])'
      BY <1>1, <1>4, <1>6, <2>1, <2>2, <2>3, <2>4, <2>5 DEF Order
    <2>7. ASSUME NEW m \in 0 .. write_loc, NEW n \in 0 .. write_loc,
                 m < n, log2[m][1] = log2[n][1]
          PROVE  log2[m][2] < log2[n][2]
      <3>1. m \in 0 .. write_loc - 1
        BY <2>7, <1>3
      <3>2. CASE n = write_loc
        <4>1. log[m][1] = s /\ log[m][2] =< sent[s] - 1
          BY <3>1, <3>2, <2>1, <2>7, <1>1, <1>6 DEF Order
        <4>2. QED
          BY <4>1, <3>1, <3>2, <2>3, <1>4, <1>6
      <3>3. CASE n \in 0 .. write_loc - 1
        BY <3>1, <3>3, <2>7, <1>1, <1>6 DEF Order
      <3>4. QED
        BY <3>2, <3>3, <2>4
    <2>8. ASSUME NEW u \in Senders, NEW k \in 1 .. Placed(u)'
          PROVE  \E n \in 0 .. write_loc : log2[n] = <<u, k>>
      <3>1. CASE k \in 1 .. Placed(u)
        <4>1. PICK n \in 0 .. write_loc - 1 : log[n] = <<u, k>>
          BY <3>1, <1>1 DEF Order
        <4>2. QED
          BY <4>1, <1>3, <1>6
      <3>2. CASE k \notin 1 .. Placed(u)
        <4>1. u = s /\ k = sent[s]
          BY <3>2, <2>1, <2>2, <1>4
        <4>2. QED
          BY <4>1, <1>3, <1>6
      <3>3. QED
        BY <3>1, <3>2
    <2>9. write_loc' - 1 = write_loc
      BY <1>2, <1>3
    <2>10. QED
      BY <1>2, <2>6, <2>7, <2>8, <2>9 DEF Order
  <1>11. QED
    <2>1. log2 \in [0 .. write_loc' - 1 -> Messages]
      BY <1>2, <1>3
    <2>2. QED
      BY <2>1, <1>7, <1>8, <1>9, <1>10 DEF Tickets

LEMMA TicketsWrite ==
    ASSUME Types, Counters, Outcome, Tickets, NEW s \in Senders, Write(s) PROVE Tickets'
  <1>1. PICK log \in [0 .. write_loc - 1 -> Messages] :
            Received(log) /\ Slots(log) /\ Writers(log) /\ Order(log)
    BY DEF Tickets
  <1>2. /\ pc[s] = "write" /\ pc' = [pc EXCEPT ![s] = "ready"]
        /\ mailbox' = [mailbox EXCEPT ![loc[s]] = <<s, sent[s]>>]
        /\ UNCHANGED <<start, write_loc, loc, sent, rpc, result, received, failed, Freed>>
    BY DEF Write, Goto, receiver, Freed
  <1>3. /\ write_loc \in Nat /\ Freed \in Nat /\ Freed =< start /\ start =< write_loc
        /\ start \in Nat
        /\ DOMAIN pc = Senders /\ DOMAIN mailbox = 0 .. mailbox_capacity - 1
    BY Window DEF Types
  <1>4. PICK p \in Freed .. write_loc - 1 :
            /\ loc[s] = Slot(p) /\ log[p] = <<s, sent[s]>>
            /\ Freed # start /\ p = Freed => result = NULL
    BY <1>1, <1>2 DEF Writers
  <1>5. Slot(p) \in 0 .. mailbox_capacity - 1
    BY <1>3, SlotRange
  <1>6. /\ mailbox'[Slot(p)] = log[p]
        /\ \A i \in 0 .. mailbox_capacity - 1 : i # Slot(p) => mailbox'[i] = mailbox[i]
    BY <1>2, <1>3, <1>4, <1>5
  <1>7. ASSUME NEW n \in Freed .. write_loc - 1, n # p
        PROVE  Slot(n) # Slot(p) /\ mailbox'[Slot(n)] = mailbox[Slot(n)]
    <2>1. Slot(n) # Slot(p)
      BY <1>7, Apart
    <2>2. Slot(n) \in 0 .. mailbox_capacity - 1
      BY <1>3, SlotRange
    <2>3. QED
      BY <2>1, <2>2, <1>6
  <1>8. Received(log)'
    BY <1>1, <1>2 DEF Received
  <1>9. Slots(log)'
    <2>1. \A n \in start .. write_loc - 1 : mailbox'[Slot(n)] \in {NULL, log[n]}
      <3>1. \A n \in start .. write_loc - 1 : n \in Freed .. write_loc - 1
        BY <1>3
      <3>2. QED
        BY <3>1, <1>1, <1>6, <1>7 DEF Slots
    <2>2. \A i \in 0 .. mailbox_capacity - 1 :
            mailbox'[i] # NULL => \E n \in Freed .. write_loc - 1 : i = Slot(n)
      BY <1>1, <1>6 DEF Slots
    <2>3. ASSUME rpc = "free", ~failed PROVE mailbox'[Slot(start - 1)] = NULL
      <3>1. result # NULL /\ Freed = start - 1 /\ Freed # start
        BY <2>3, <1>3 DEF Outcome, Freed
      <3>2. p # Freed /\ Freed \in Freed .. write_loc - 1
        BY <3>1, <1>3, <1>4
      <3>3. mailbox[Slot(start - 1)] = NULL
        BY <2>3, <1>1 DEF Slots
      <3>4. QED
        BY <3>1, <3>2, <3>3, <1>7
    <2>4. QED
      BY <1>2, <2>1, <2>2, <2>3 DEF Slots
  <1>10. Writers(log)'
    <2>1. ASSUME NEW u \in Senders, pc'[u] = "write"
          PROVE \E n \in Freed .. write_loc - 1 :
                    /\ loc[u] = Slot(n) /\ log[n] = <<u, sent[u]>>
                    /\ mailbox'[Slot(n)] = NULL
                    /\ Freed # start /\ n = Freed => result = NULL
      <3>1. u # s /\ pc[u] = "write"
        BY <2>1, <1>2, <1>3
      <3>2. PICK n \in Freed .. write_loc - 1 :
                    /\ loc[u] = Slot(n) /\ log[n] = <<u, sent[u]>>
                    /\ mailbox[Slot(n)] = NULL
                    /\ Freed # start /\ n = Freed => result = NULL
        BY <3>1, <1>1 DEF Writers
      <3>3. n # p
        BY <3>1, <3>2, <1>4
      <3>4. QED
        BY <3>2, <3>3, <1>7
    <2>2. QED
      BY <1>2, <2>1 DEF Writers
  <1>11. Order(log)'
    <2>1. \A u \in Senders : Placed(u)' = Placed(u)
      BY <1>2, <1>3 DEF Placed
    <2>2. \A n \in 0 .. write_loc - 1 : log[n][1] \in Senders
      BY DEF Messages
    <2>3. QED
      BY <1>1, <1>2, <2>1, <2>2 DEF Order
  <1>12. QED
    BY <1>2, <1>8, <1>9, <1>10, <1>11 DEF Tickets

LEMMA TicketsRead ==
    ASSUME Types, Counters, Outcome, Tickets, Read PROVE Tickets'
  <1>1. PICK log \in [0 .. write_loc - 1 -> Messages] :
            Received(log) /\ Slots(log) /\ Writers(log) /\ Order(log)
    BY DEF Tickets
  <1>2. /\ rpc = "read" /\ rpc' = "clear" /\ result' = mailbox[Slot(start)] /\ start' = start + 1
        /\ UNCHANGED <<mailbox, write_loc, pc, loc, sent, received, failed>>
    BY DEF Read, sender
  <1>3. /\ write_loc \in Nat /\ start \in Nat /\ start < write_loc /\ Freed = start
        /\ Freed' = start /\ start' - 1 = start
    BY <1>2, Window DEF Types, Freed
  <1>4. start \in start .. write_loc - 1
    BY <1>3
  <1>5. Received(log)'
    BY <1>1, <1>2, <1>3, <1>4 DEF Received, Slots
  <1>6. Slots(log)'
    <2>1. \A n \in start' .. write_loc - 1 : n \in start .. write_loc - 1
      BY <1>2, <1>3
    <2>2. QED
      BY <1>1, <1>2, <1>3, <2>1 DEF Slots
  <1>7. Writers(log)'
    <2>1. \A s \in Senders : pc[s] = "write" =>
            \E n \in start .. write_loc - 1 :
                /\ loc[s] = Slot(n) /\ log[n] = <<s, sent[s]>>
                /\ mailbox[Slot(n)] = NULL
                /\ n = start => result' = NULL
      BY <1>1, <1>2, <1>3 DEF Writers
    <2>2. QED
      BY <1>2, <1>3, <2>1 DEF Writers
  <1>8. Order(log)'
    BY <1>1, <1>2 DEF Order, Placed
  <1>9. QED
    BY <1>2, <1>5, <1>6, <1>7, <1>8 DEF Tickets

LEMMA TicketsClear ==
    ASSUME Types, Counters, Outcome, Tickets, Clear PROVE Tickets'
  <1>1. PICK log \in [0 .. write_loc - 1 -> Messages] :
            Received(log) /\ Slots(log) /\ Writers(log) /\ Order(log)
    BY DEF Tickets
  <1>2. /\ rpc = "clear" /\ rpc' = "free" /\ mailbox' = [mailbox EXCEPT ![Slot(start - 1)] = NULL]
        /\ UNCHANGED <<start, write_loc, pc, loc, sent, result, received>> /\ UNCHANGED Freed
    BY DEF Clear, sender, Freed
  <1>3. start - 1 \in Nat /\ Slot(start - 1) \in 0 .. mailbox_capacity - 1
    BY <1>2, SlotRange DEF Outcome, Types
  <1>4. /\ mailbox'[Slot(start - 1)] = NULL
        /\ \A i \in 0 .. mailbox_capacity - 1 : mailbox'[i] \in {NULL, mailbox[i]}
    BY <1>2, <1>3 DEF Types
  <1>5. ASSUME NEW n \in Freed .. write_loc - 1 PROVE Slot(n) \in 0 .. mailbox_capacity - 1
    <2>1. n \in Nat
      BY Window DEF Types
    <2>2. QED
      BY <2>1, SlotRange
  <1>6. Received(log)'
    BY <1>1, <1>2 DEF Received
  <1>7. Slots(log)'
    <2>1. \A n \in start .. write_loc - 1 : n \in Freed .. write_loc - 1
      BY Window DEF Types
    <2>2. QED
      BY <1>1, <1>2, <1>4, <1>5, <2>1 DEF Slots
  <1>8. Writers(log)'
    BY <1>1, <1>2, <1>4, <1>5 DEF Writers
  <1>9. Order(log)'
    BY <1>1, <1>2 DEF Order, Placed
  <1>10. QED
    BY <1>2, <1>6, <1>7, <1>8, <1>9 DEF Tickets

LEMMA TicketsFree ==
    ASSUME Types, Counters, Outcome, Tickets, Running, Free PROVE Tickets'
  <1>1. PICK log \in [0 .. write_loc - 1 -> Messages] :
            Received(log) /\ Slots(log) /\ Writers(log) /\ Order(log)
    BY DEF Tickets
  <1>2. /\ rpc = "free" /\ rpc' = "idle" /\ ~failed
        /\ received' = Append(received, result) /\ result' = NULL
        /\ UNCHANGED <<mailbox, start, write_loc, pc, loc, sent, failed>>
    BY DEF Running, Outcome, Free, Returned, sender
  <1>3. /\ write_loc \in Nat /\ start \in Nat /\ Freed = start - 1 /\ start > 0 /\ Freed' = start
        /\ result # NULL /\ result \in Messages /\ received \in Seq(Messages)
    BY <1>2 DEF Types, Freed, Outcome
  <1>4. mailbox[Slot(start - 1)] = NULL
    BY <1>1, <1>2 DEF Slots
  <1>5. \A n \in Freed .. write_loc - 1 : n = start - 1 \/ n \in start .. write_loc - 1
    BY <1>3
  <1>6. Received(log)'
    <2>1. /\ Len(received) = start - 1 /\ result = log[start - 1]
          /\ \A i \in 1 .. Len(received) : received[i] = log[i - 1]
      BY <1>1, <1>2, <1>3 DEF Received
    <2>2. /\ Len(received') = start
          /\ \A i \in 1 .. start : received'[i] = IF i = start THEN result ELSE received[i]
      BY <2>1, <1>2, <1>3
    <2>3. ASSUME NEW i \in 1 .. start PROVE received'[i] = log[i - 1]
      <3>1. i = start \/ i \in 1 .. start - 1
        BY <1>3
      <3>2. QED
        BY <2>1, <2>2, <3>1
    <2>4. QED
      BY <1>2, <1>3, <2>2, <2>3 DEF Received
  <1>7. Slots(log)'
    <2>1. \A i \in 0 .. mailbox_capacity - 1 :
            mailbox[i] # NULL => \E n \in start .. write_loc - 1 : i = Slot(n)
      BY <1>1, <1>4, <1>5 DEF Slots
    <2>2. QED
      BY <1>1, <1>2, <1>3, <2>1 DEF Slots
  <1>8. Writers(log)'
    <2>1. \A s \in Senders : pc[s] = "write" =>
            \E n \in start .. write_loc - 1 :
                /\ loc[s] = Slot(n) /\ log[n] = <<s, sent[s]>>
                /\ mailbox[Slot(n)] = NULL
      BY <1>1, <1>3, <1>5 DEF Writers
    <2>2. QED
      BY <1>2, <1>3, <2>1 DEF Writers
  <1>9. Order(log)'
    BY <1>1, <1>2 DEF Order, Placed
  <1>10. QED
    BY <1>2, <1>6, <1>7, <1>8, <1>9 DEF Tickets

LEMMA StepTickets == Types /\ Counters /\ Outcome /\ Tickets /\ [Next]_vars => Tickets'
  <1> SUFFICES ASSUME Types, Counters, Outcome, Tickets, [Next]_vars PROVE Tickets'
    OBVIOUS
  <1>0. DOMAIN pc = Senders /\ DOMAIN sent = Senders /\ \A s \in Senders : sent[s] \in Int
    BY DEF Types
  <1>1. ASSUME NEW s \in Senders, actor_send(s) PROVE Tickets'
    <2>1. \A u \in Senders : Placed(u)' = Placed(u)
      BY <1>0, <1>1 DEF actor_send, Goto, Placed
    <2>2. QED
      BY <1>0, <1>1, <2>1, TicketsStay DEF actor_send, Goto, Freed, slots, receiver
  <1>2. ASSUME NEW s \in Senders, LoadReserved(s) \/ Reserve(s) \/ Announce(s) PROVE Tickets'
    <2>1. PICK l \in {"load", "reserve", "claim", "idle"} : Goto(s, l) /\ pc[s] # "write"
                /\ (l = "idle" <=> pc[s] = "ready") /\ (l # "idle" => pc[s] \in {"load", "reserve"})
                /\ UNCHANGED <<mailbox, start, write_loc, loc, sent, receiver>>
      BY <1>2 DEF LoadReserved, Reserve, Announce, slots
    <2>2. \A u \in Senders : Placed(u)' = Placed(u)
      BY <1>0, <2>1 DEF Goto, Placed
    <2>3. QED
      BY <1>0, <2>1, <2>2, TicketsStay DEF Goto, Freed, receiver
  <1>3. ASSUME NEW s \in Senders, Claim(s) PROVE Tickets'
    BY <1>3, TicketsClaim
  <1>4. ASSUME NEW s \in Senders, Write(s) PROVE Tickets'
    BY <1>4, TicketsWrite
  <1>5. CASE LoadReady \/ Take
    BY <1>5, TicketsStay DEF LoadReady, Take, Placed, Freed, slots, sender
  <1>6. CASE Read
    BY <1>6, TicketsRead
  <1>7. CASE Clear
    BY <1>7, TicketsClear
  <1>8. CASE Running /\ Free
    BY <1>8, TicketsFree
  <1>9. CASE UNCHANGED vars
    BY <1>9, TicketsStay DEF vars, Placed, Freed, slots, sender, receiver
  <1>10. QED
    BY <1>1, <1>2, <1>3, <1>4, <1>5, <1>6, <1>7, <1>8, <1>9 DEF Next, Sends, Receives

-----------------------------------------------------------------------------
(* One sender *)

LEMMA InitOneWriter == Init => OneWriter
  BY DEF Init, OneWriter

\* The last place is the only one that can be empty, and then the sender, who is at
\* it, has not announced it: the receiver finds a message in every place it takes.
LEMMA StepOneWriter ==
    ASSUME NEW s, Senders = {s}, IInv, OneWriter, [Next]_vars
    PROVE  OneWriter'
  <1> USE DEF IInv
  <1>0. /\ Freed \in Nat /\ Freed =< start /\ start \in Nat /\ write_loc \in Nat
        /\ start =< write_loc
        /\ DOMAIN pc = Senders /\ DOMAIN loc = Senders /\ DOMAIN mailbox = 0 .. mailbox_capacity - 1
    BY Window DEF Types
  <1>n. \A n \in start .. write_loc - 1 : n \in Nat /\ n \in Freed .. write_loc - 1
    BY <1>0
  <1>1. ASSUME actor_send(s) \/ LoadReserved(s) \/ Reserve(s) PROVE OneWriter'
    <2>1. /\ pc[s] # "write" /\ pc'[s] # "write"
          /\ UNCHANGED <<mailbox, start, write_loc, loc, rpc, result>>
      BY <1>0, <1>1 DEF actor_send, LoadReserved, Reserve, Goto, slots, receiver
    <2>2. QED
      BY <2>1 DEF OneWriter
  <1>2. CASE Claim(s)
    <2>1. /\ pc'[s] = "write" /\ loc'[s] = Slot(write_loc) /\ write_loc' = write_loc + 1
          /\ write_loc' - 1 = write_loc /\ pc[s] # "write"
          /\ UNCHANGED <<mailbox, start, rpc, result>>
      BY <1>0, <1>2 DEF Claim, Goto, receiver
    <2>2. \A n \in start .. write_loc' - 1 : n = write_loc \/ n \in start .. write_loc - 1
      BY <1>0, <2>1
    <2>3. QED
      BY <2>1, <2>2 DEF OneWriter
  <1>3. CASE Write(s)
    <2>1. /\ pc[s] = "write" /\ pc'[s] = "ready"
          /\ mailbox' = [mailbox EXCEPT ![loc[s]] = <<s, sent[s]>>]
          /\ UNCHANGED <<start, write_loc, loc, rpc, result>>
      BY <1>0, <1>3 DEF Write, Goto, receiver
    <2>2. <<s, sent[s]>> # NULL
      <3>1. sent[s] \in 0 .. MaxSent /\ sent[s] > 0
        BY <2>1 DEF Types
      <3>2. sent[s] \in 1 .. MaxSent
        BY <3>1, MailboxAssumption
      <3>3. QED
        BY <3>2, NullAssumption
    <2>3. ASSUME NEW n \in start .. write_loc - 1 PROVE mailbox'[Slot(n)] # NULL
      <3>1. Slot(n) \in DOMAIN mailbox
        BY <1>0, <1>n, SlotRange
      <3>2. mailbox[Slot(n)] = NULL => loc[s] = Slot(n)
        BY DEF OneWriter
      <3>3. QED
        BY <2>1, <2>2, <3>1, <3>2
    <2>4. QED
      BY <2>1, <2>3 DEF OneWriter
  <1>4. CASE Announce(s)
    <2>1. /\ pc[s] = "ready" /\ pc'[s] = "idle"
          /\ UNCHANGED <<mailbox, start, write_loc, loc, rpc, result>>
      BY <1>0, <1>4 DEF Announce, Goto, receiver
    <2>2. QED
      BY <2>1 DEF OneWriter
  <1>5. CASE LoadReady \/ Take
    BY <1>5 DEF LoadReady, Take, OneWriter, slots, sender
  <1>6. CASE Read
    <2>1. /\ rpc = "read" /\ result' = mailbox[Slot(start)] /\ start' = start + 1
          /\ UNCHANGED <<mailbox, write_loc, pc, loc>>
      BY <1>6 DEF Read, sender
    <2>2. start < write_loc
      BY <2>1, Window
    <2>3. ASSUME mailbox[Slot(start)] = NULL PROVE FALSE
      <3>1. pc[s] = "write" /\ Slot(start) = Slot(write_loc - 1)
        BY <2>2, <2>3, <1>0 DEF OneWriter
      <3>2. Unannounced # 0
        <4>1. At({"write", "ready"}) # {}
          BY <3>1 DEF At
        <4>2. QED
          BY <4>1, AtFinite, FS_EmptySet DEF Unannounced
      <3>3. Unannounced \in Nat
        BY AtFinite DEF Unannounced
      <3>4. start # write_loc - 1
        BY <2>1, <3>2, <3>3, <1>0 DEF Counters, Types
      <3>5. start \in Freed .. write_loc - 1 /\ write_loc - 1 \in Freed .. write_loc - 1
        BY <1>0, <2>2
      <3>6. QED
        BY <3>1, <3>4, <3>5, Apart
    <2>4. \A n \in start' .. write_loc - 1 : n \in start .. write_loc - 1
      BY <1>0, <2>1
    <2>5. QED
      BY <2>1, <2>3, <2>4 DEF OneWriter
  <1>7. CASE Clear
    <2>1. /\ rpc = "clear" /\ mailbox' = [mailbox EXCEPT ![Slot(start - 1)] = NULL]
          /\ UNCHANGED <<start, write_loc, pc, loc, result>>
      BY <1>7 DEF Clear, sender
    <2>2. start - 1 = Freed /\ start > 0
      BY <2>1 DEF Freed, Outcome
    <2>3. ASSUME NEW n \in start .. write_loc - 1 PROVE mailbox'[Slot(n)] = mailbox[Slot(n)]
      <3>1. n # start - 1 /\ start - 1 \in Freed .. write_loc - 1
        BY <1>0, <2>2
      <3>2. Slot(n) # Slot(start - 1) /\ Slot(n) \in DOMAIN mailbox
        BY <3>1, <1>0, <1>n, Apart, SlotRange
      <3>3. QED
        BY <2>1, <3>2
    <2>4. QED
      BY <2>1, <2>3 DEF OneWriter
  <1>8. CASE Free
    BY <1>8 DEF Free, OneWriter, sender
  <1>9. CASE UNCHANGED vars
    BY <1>9 DEF vars, OneWriter, slots, sender, receiver
  <1>10. QED
    BY <1>1, <1>2, <1>3, <1>4, <1>5, <1>6, <1>7, <1>8, <1>9 DEF Next, Sends, Receives

-----------------------------------------------------------------------------
(* The theorems *)

LEMMA StepIInv == IInv /\ Finds /\ [Next]_vars => IInv'
  BY StepTypes, StepOutcome, StepCounters, StepTickets DEF IInv

\* The inductive invariant of actors.c, for one sender in either build, and for any
\* number of senders in a debug build, until assert(result) ends it (actors.c:79).
THEOREM InductiveInvariant == ASSUME Checked PROVE Spec => []IInv
  <1> DEFINE J == IInv /\ (NDEBUG => OneWriter)
  <1>1. Init => J
    BY InitInv, InitOneWriter
  <1>2. J /\ [Next]_vars => J'
    <2> SUFFICES ASSUME J, [Next]_vars PROVE J'
      OBVIOUS
    <2>1. CASE ~NDEBUG
      BY <2>1, StepIInv DEF Finds
    <2>2. CASE NDEBUG
      <3>1. PICK s : Senders = {s}
        BY <2>2 DEF Checked
      <3>2. Finds /\ OneWriter'
        BY <2>2, <3>1, StepOneWriter DEF Finds, OneWriter
      <3>3. QED
        BY <3>2, StepIInv
    <2>3. QED
      BY <2>1, <2>2
  <1>3. J => IInv
    OBVIOUS
  <1>4. QED
    BY <1>1, <1>2, <1>3, PTL DEF Spec

\* A sender writes into an empty slot: the place it reserved has been read and
\* emptied (actors.c:54).  So it is for one sender in either build, and for several
\* in a debug build, which ends when the receiver has taken an empty slot.
THEOREM NothingOverwritten == ASSUME Checked PROVE Spec => []NoOverwrite
  <1>1. IInv => NoOverwrite
    BY DEF IInv, Tickets, Writers, NoOverwrite
  <1>2. QED
    BY <1>1, InductiveInvariant, PTL

\* The messages of each sender are received in the order they were sent, each once:
\* with one sender in either build, with several in a debug build, until it ends.
THEOREM ReceivedInOrder == ASSUME Checked PROVE Spec => []InOrder
  <1>1. ASSUME IInv PROVE InOrder
    <2>1. PICK log \in [0 .. write_loc - 1 -> Messages] : Received(log) /\ Order(log)
      BY <1>1 DEF IInv, Tickets
    <2>2. /\ Freed \in Nat /\ Freed =< write_loc /\ write_loc \in Nat
          /\ DOMAIN received = 1 .. Freed
          /\ \A i \in 1 .. Freed : i - 1 \in 0 .. write_loc - 1 /\ received[i] = log[i - 1]
      <3>1. Freed \in Nat /\ Freed =< write_loc /\ write_loc \in Nat
        BY <1>1, Window DEF IInv, Types
      <3>2. received \in Seq(Messages) /\ Len(received) = Freed
        BY <1>1, <2>1 DEF IInv, Types, Received
      <3>3. DOMAIN received = 1 .. Freed
        BY <3>1, <3>2
      <3>4. QED
        BY <3>1, <3>2, <3>3, <2>1 DEF Received
    <2>3. \A n \in 0 .. write_loc - 1 : /\ log[n] = <<log[n][1], log[n][2]>>
                                        /\ log[n][1] \in Senders /\ log[n][2] \in 1 .. MaxSent
      BY DEF Messages
    <2>4. ASSUME NEW i \in 1 .. Freed, NEW j \in 1 .. i - 1, received[j][1] = received[i][1]
          PROVE  received[j][2] < received[i][2]
      <3>1. j \in 1 .. Freed /\ j - 1 < i - 1
        BY <2>2
      <3>2. QED
        BY <3>1, <2>1, <2>2, <2>4 DEF Order
    <2>5. ASSUME NEW i \in 1 .. Freed, NEW k \in 1 .. received[i][2] - 1
          PROVE  \E j \in 1 .. i - 1 : received[j] = <<received[i][1], k>>
      <3> DEFINE s == log[i - 1][1]
      <3> DEFINE n == log[i - 1][2]
      <3>1. i - 1 \in 0 .. write_loc - 1 /\ received[i] = <<s, n>> /\ s \in Senders
            /\ n \in 1 .. MaxSent
        BY <2>2, <2>3
      <3> HIDE DEF s, n
      <3>2. k \in Int /\ n \in Int /\ k >= 1 /\ k < n
        BY <3>1
      <3>3. n =< Placed(s)
        BY <2>1, <3>1 DEF Order, s, n
      <3>4. Placed(s) \in Int
        BY <1>1, <3>1 DEF IInv, Types, Placed
      <3>5. k \in 1 .. Placed(s)
        BY <3>2, <3>3, <3>4
      <3>6. PICK m \in 0 .. write_loc - 1 : log[m] = <<s, k>>
        BY <2>1, <3>1, <3>5 DEF Order
      <3>7. ~(i - 1 < m) /\ m # i - 1
        BY <2>1, <3>1, <3>2, <3>6 DEF Order, s, n
      <3>8. m + 1 \in 1 .. i - 1 /\ m + 1 \in 1 .. Freed /\ m + 1 - 1 = m
        BY <3>7, <2>2
      <3>9. received[m + 1] = <<s, k>>
        BY <3>6, <3>8, <2>2
      <3>10. QED
        BY <3>1, <3>8, <3>9
    <2>6. QED
      BY <2>2, <2>4, <2>5 DEF InOrder
  <1>2. QED
    BY <1>1, InductiveInvariant, PTL

\* With one sender the assertion of actors.c:79 holds, in a build that has it and in
\* one that has not: whatever ready_size announces is in its slot when the receiver
\* takes it.  With two senders it does not.
THEOREM AnnouncedIsWritten ==
    ASSUME NEW s, Senders = {s}
    PROVE  Spec => []AnnouncedIsThere
  <1>1. Checked
    BY DEF Checked
  <1>2. Spec => []IInv
    BY <1>1, InductiveInvariant
  <1>3. IInv /\ OneWriter /\ [Next]_vars => OneWriter'
    BY StepOneWriter
  <1>4. IInv /\ OneWriter => AnnouncedIsThere
    BY DEF IInv, Outcome, OneWriter, AnnouncedIsThere
  <1>5. QED
    BY <1>2, <1>3, <1>4, InitOneWriter, PTL DEF Spec
=============================================================================
