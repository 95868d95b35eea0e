------------------------------ MODULE Mailbox -------------------------------
(***************************************************************************)
(* The bounded mailbox of an actor (src/utils/actors.c): any task may send,  *)
(* one task receives.  A step is one atomic operation or one access to the   *)
(* mailbox array.  A sender or receiver that finds no room or no message     *)
(* polls and calls again.                                                   *)
(***************************************************************************)
EXTENDS Integers, Sequences, FiniteSets

CONSTANTS
    Senders,
    mailbox_capacity,
    MaxSent,        \* bound: messages each sender sends
    NDEBUG,         \* a release build: assertions are not compiled in
    NULL            \* an empty slot, no message

ASSUME MailboxAssumption == mailbox_capacity \in Nat \ {0} /\ MaxSent \in Nat
ASSUME BuildAssumption == NDEBUG \in BOOLEAN
ASSUME SendersAssumption == IsFiniteSet(Senders)
ASSUME NullAssumption == NULL \notin Senders \X (1 .. MaxSent)

VARIABLES
    mailbox,                            \* [0 .. capacity - 1 -> message]
    start, write_loc, reserved_size, ready_size,
    pc, old_size, loc,                  \* [Senders -> ...] a sender in actor_insert_msg
    sent,                               \* [Senders -> Nat] the messages begun
    rpc, rold, result,                  \* the receiver in actor_remove_msg
    received,                           \* history: what actor_recv has returned
    failed                              \* what assert(result) says was false once

slots == <<mailbox, start, write_loc, reserved_size, ready_size>>
sender == <<pc, old_size, loc, sent>>
receiver == <<rpc, rold, result, received, failed>>
vars == <<slots, sender, receiver>>

Messages == Senders \X (1 .. MaxSent)
Slot(n) == n % mailbox_capacity

\* actor_init
Init ==
    /\ mailbox = [i \in 0 .. mailbox_capacity - 1 |-> NULL]
    /\ start = 0 /\ write_loc = 0 /\ reserved_size = 0 /\ ready_size = 0
    /\ pc = [s \in Senders |-> "idle"]
    /\ old_size = [s \in Senders |-> 0]
    /\ loc = [s \in Senders |-> 0]
    /\ sent = [s \in Senders |-> 0]
    /\ rpc = "idle" /\ rold = 0 /\ result = NULL
    /\ received = <<>>
    /\ failed = FALSE

Goto(s, l) == pc' = [pc EXCEPT ![s] = l]

-----------------------------------------------------------------------------
(* actor_send: actor_insert_msg until it answers true *)

actor_send(s) ==
    /\ pc[s] = "idle"
    /\ sent[s] < MaxSent
    /\ sent' = [sent EXCEPT ![s] = @ + 1]
    /\ Goto(s, "load")
    /\ UNCHANGED <<slots, old_size, loc, receiver>>

\* Mutant: one message more than there are slots.
HasSpaceOneMore(n) == n =< mailbox_capacity

HasSpace(n) == n < mailbox_capacity

\* Without space the sender polls actor_has_space_poll and calls again.
LoadReserved(s) ==
    /\ pc[s] = "load"
    /\ old_size' = [old_size EXCEPT ![s] = reserved_size]
    /\ Goto(s, IF HasSpace(reserved_size) THEN "reserve" ELSE "load")
    /\ UNCHANGED <<slots, loc, sent, receiver>>

Reserve(s) ==
    /\ pc[s] = "reserve"
    /\ IF reserved_size = old_size[s]
         THEN reserved_size' = reserved_size + 1 /\ Goto(s, "claim")
         ELSE UNCHANGED reserved_size /\ Goto(s, "load")
    /\ UNCHANGED <<mailbox, start, write_loc, ready_size, old_size, loc, sent, receiver>>

Claim(s) ==
    /\ pc[s] = "claim"
    /\ loc' = [loc EXCEPT ![s] = Slot(write_loc)]
    /\ write_loc' = write_loc + 1
    /\ Goto(s, "write")
    /\ UNCHANGED <<mailbox, start, reserved_size, ready_size, old_size, sent, receiver>>

\* Mutant: the message is announced before it is written.
WriteLate(s) ==
    /\ pc[s] = "write"
    /\ ready_size' = ready_size + 1
    /\ Goto(s, "ready")
    /\ UNCHANGED <<mailbox, start, write_loc, reserved_size, old_size, loc, sent, receiver>>

Write(s) ==
    /\ pc[s] = "write"
    /\ mailbox' = [mailbox EXCEPT ![loc[s]] = <<s, sent[s]>>]
    /\ Goto(s, "ready")
    /\ UNCHANGED <<start, write_loc, reserved_size, ready_size, old_size, loc, sent, receiver>>

Announce(s) ==
    /\ pc[s] = "ready"
    /\ ready_size' = ready_size + 1
    /\ Goto(s, "idle")
    /\ UNCHANGED <<mailbox, start, write_loc, reserved_size, old_size, loc, sent, receiver>>

-----------------------------------------------------------------------------
(* actor_recv: actor_remove_msg until it answers a message *)

\* Without a message the receiver polls actor_has_msg_poll and calls again.
LoadReady ==
    /\ rpc = "idle"
    /\ ready_size > 0
    /\ rold' = ready_size
    /\ rpc' = "take"
    /\ UNCHANGED <<slots, sender, result, received, failed>>

Take ==
    /\ rpc = "take"
    /\ IF ready_size = rold
         THEN ready_size' = ready_size - 1 /\ rpc' = "read"
         ELSE UNCHANGED ready_size /\ rpc' = "idle"
    /\ UNCHANGED <<mailbox, start, write_loc, reserved_size, sender, rold, result, received, failed>>

Read ==
    /\ rpc = "read"
    /\ result' = mailbox[Slot(start)]
    /\ start' = start + 1
    /\ rpc' = "clear"
    /\ UNCHANGED <<mailbox, write_loc, reserved_size, ready_size, sender, rold, received, failed>>

\* The slot is emptied and assert(result) evaluated.
Clear ==
    /\ rpc = "clear"
    /\ mailbox' = [mailbox EXCEPT ![Slot(start - 1)] = NULL]
    /\ failed' = (failed \/ result = NULL)
    /\ rpc' = "free"
    /\ UNCHANGED <<start, write_loc, reserved_size, ready_size, sender, rold, result, received>>

\* What actor_recv has returned: without a message it polls and calls again.
Returned == IF result = NULL THEN received ELSE Append(received, result)

\* Mutant: the reserved place is not given back.
FreeForgotten ==
    /\ rpc = "free"
    /\ received' = Returned
    /\ result' = NULL
    /\ rpc' = "idle"
    /\ UNCHANGED <<slots, sender, rold, failed>>

Free ==
    /\ rpc = "free"
    /\ reserved_size' = reserved_size - 1
    /\ received' = Returned
    /\ result' = NULL
    /\ rpc' = "idle"
    /\ UNCHANGED <<mailbox, start, write_loc, ready_size, sender, rold, failed>>

-----------------------------------------------------------------------------
\* The assertion ends the program, in a build that has it.
Running == failed => NDEBUG

Sends(s) == Running /\ (LoadReserved(s) \/ Reserve(s) \/ Claim(s) \/ Write(s) \/ Announce(s))
Receives == Running /\ (LoadReady \/ Take \/ Read \/ Clear \/ Free)

Next == Receives \/ \E s \in Senders : (Running /\ actor_send(s)) \/ Sends(s)

Spec == Init /\ [][Next]_vars

\* The scheduler keeps running both tasks.
FairSpec == Spec /\ WF_vars(Receives) /\ \A s \in Senders : WF_vars(Sends(s))

-----------------------------------------------------------------------------
(* Properties *)

\* actors.c:79, assert(result): a message announced by ready_size is there.
AnnouncedIsThere == ~failed

\* A message is written into an empty slot: none is overwritten unread.  (With
\* several senders this holds until the receiver has taken an empty slot, which
\* ends a debug build: a release build gives that place back and goes on.)
NoOverwrite == \A s \in Senders : pc[s] = "write" => mailbox[loc[s]] = NULL

\* The messages of a sender arrive in the order they were sent, each once.
InOrder ==
    \A i \in DOMAIN received :
        LET s == received[i][1]
            n == received[i][2]
        IN  /\ \A j \in 1 .. i - 1 : received[j][1] = s => received[j][2] < n
            /\ \A k \in 1 .. n - 1 : \E j \in 1 .. i - 1 : received[j] = <<s, k>>

\* A message sent is received.
Delivered ==
    \A s \in Senders : \A n \in 1 .. MaxSent :
        sent[s] = n ~> \E i \in DOMAIN received : received[i] = <<s, n>>
=============================================================================
