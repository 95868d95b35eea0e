------------------------------- MODULE GenIds -------------------------------
(***************************************************************************)
(* Generative effect ids (src/src/seff.c): an id is the address of a cell    *)
(* {previous, handler, next} of a doubly linked list whose last cell is a    *)
(* static one, and the default handler of an id is kept in the word the id   *)
(* points to.  The cell's first word is its previous field.                 *)
(***************************************************************************)
EXTENDS Integers, FiniteSets

CONSTANTS
    Cells,      \* the addresses malloc may return
    Start,      \* &__seff_starting_struct
    Handlers,   \* what clients install: functions, NULL, what a call answered
    Null, Junk

ASSUME AddressesDistinct ==
    /\ Start \notin Cells /\ Null \notin Cells \cup {Start}
    /\ Junk \notin Cells \cup {Start, Null}

VARIABLES
    generated_ids,  \* _seff_generated_ids
    cell,           \* [Cells \cup {Start} -> [previous, handler, next]]
    live,           \* the ids allocated and not deallocated
    crashed,        \* a write through a pointer that is no cell
    installed,      \* history: the default handler each live id should have
    overwritten,    \* history: the ids whose first word a client wrote last
    lost            \* history: such a word has been followed as a link

history == <<installed, overwritten, lost>>
vars == <<generated_ids, cell, live, crashed, history>>

JunkCell == [previous |-> Junk, handler |-> Junk, next |-> Junk]

Init ==
    /\ generated_ids = Start
    /\ cell = [c \in Cells \cup {Start} |->
                 IF c = Start THEN [previous |-> Null, handler |-> Null, next |-> Null]
                 ELSE JunkCell]
    /\ live = {}
    /\ crashed = FALSE
    /\ installed = [c \in Cells |-> Null]
    /\ overwritten = {}
    /\ lost = FALSE

seff_alloc_gen_id(c) ==
    /\ ~crashed
    /\ c \notin live
    /\ cell' = [cell EXCEPT
            ![c] = [previous |-> Null, handler |-> Null, next |-> generated_ids],
            ![generated_ids].previous = c]
    /\ generated_ids' = c
    /\ live' = live \cup {c}
    /\ installed' = [installed EXCEPT ![c] = Null]
    /\ overwritten' = overwritten \ {generated_ids}
    /\ UNCHANGED <<crashed, lost>>

\* Mutant: the cell after the removed one keeps its previous field.
UnlinkOneWay(c, back, forward) ==
    [d \in DOMAIN cell |->
        IF d = c THEN JunkCell
        ELSE IF d = back THEN [cell[d] EXCEPT !.next = forward]
        ELSE cell[d]]

\* The list without cell c, whose neighbours are linked to each other.
Unlink(c, back, forward) ==
    [d \in DOMAIN cell |->
        IF d = c THEN JunkCell
        ELSE [cell[d] EXCEPT !.next = IF d = back THEN forward ELSE @,
                             !.previous = IF d = forward THEN back ELSE @]]

\* Mutant: the head of the list is left when its cell goes.
HeadKept(back, forward) == generated_ids

\* The head after a removal.
HeadAfter(back, forward) == IF back = Null THEN forward ELSE generated_ids

seff_dealloc_gen_id(c) ==
    LET back == cell[c].previous
        forward == cell[c].next
    IN  /\ ~crashed
        /\ c \in live
        /\ live' = live \ {c}
        /\ crashed' = (back \notin DOMAIN cell \cup {Null})
        /\ cell' = Unlink(c, back, forward)
        /\ generated_ids' = HeadAfter(back, forward)
        /\ installed' = [installed EXCEPT ![c] = Null]
        /\ overwritten' = overwritten \ {c, forward}
        /\ lost' = (lost \/ c \in overwritten)

\* *handler_loc = handler: the word written is the cell's first.
seff_set_default_handler(c, handler) ==
    /\ ~crashed
    /\ c \in live
    /\ cell' = [cell EXCEPT ![c].previous = handler]
    /\ installed' = [installed EXCEPT ![c] = handler]
    /\ overwritten' = overwritten \cup {c}
    /\ UNCHANGED <<generated_ids, live, crashed, lost>>

seff_get_default_handler(c) == cell[c].previous

Next ==
    \E c \in Cells :
        \/ seff_alloc_gen_id(c)
        \/ seff_dealloc_gen_id(c)
        \/ \E handler \in Handlers : seff_set_default_handler(c, handler)

Spec == Init /\ [][Next]_vars

-----------------------------------------------------------------------------
(* Properties *)

\* As long as no removal has followed a word a client has written over (a handler,
\* or NULL), every link of the list is to a cell that is still allocated, in
\* whatever order ids are freed, and each previous field no client has written
\* over agrees with the next fields; so no removal writes outside the list.
NoDangling ==
    ~lost =>
    /\ ~crashed
    /\ generated_ids \in live \cup {Start}
    /\ \A c \in live : cell[c].next \in live \cup {Start}
    /\ \A c \in (live \cup {Start}) \ overwritten :
        IF c = generated_ids THEN cell[c].previous = Null
        ELSE cell[c].previous \in live /\ cell[cell[c].previous].next = c

\* The cell n steps after the head.
After[n \in 0 .. Cardinality(live)] ==
    IF n = 0 THEN generated_ids
    ELSE IF After[n - 1] \in live THEN cell[After[n - 1]].next ELSE Null

\* The list from the head holds every live id and ends in the static cell, also
\* while clients install and uninstall handlers, as long as no removal has followed
\* a word they have written over.
ReachesAll ==
    ~lost =>
    /\ {After[n] : n \in 0 .. Cardinality(live)} = live \cup {Start}
    /\ After[Cardinality(live)] = Start

\* "effect IDs are also a pointer to the pointer to the default handler": what
\* an id points to is the default handler installed for it, NULL if none is.
HandlerKept == \A c \in live : seff_get_default_handler(c) = installed[c]
=============================================================================
