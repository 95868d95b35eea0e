--------------------------- MODULE GenIdsProofs -----------------------------
(***************************************************************************)
(* The list of generative effect ids, for any set of cells and whatever      *)
(* clients write into the word an id points to (a handler, NULL, the address  *)
(* of a cell): until a removal follows a word so written, the list reaches    *)
(* every live id, and its two directions agree wherever no client has written. *)
(***************************************************************************)
EXTENDS GenIds, FiniteSetTheorems, WellFoundedInduction, TLAPS

Addresses == Cells \cup {Start, Null, Junk} \cup Handlers

Types ==
    /\ generated_ids \in Cells \cup {Start}
    /\ cell \in [Cells \cup {Start} ->
                    [previous : Addresses, handler : Addresses, next : Addresses]]
    /\ live \in SUBSET Cells /\ IsFiniteSet(live)
    /\ \A c \in live : cell[c].next \in Cells \cup {Start}
    /\ crashed \in BOOLEAN
    /\ overwritten \in SUBSET live
    /\ lost \in BOOLEAN

\* f lists the cells from the head to the static one: each live one once.
Lists(f) ==
    /\ f[0] = generated_ids
    /\ f[Cardinality(live)] = Start
    /\ \A i \in 0 .. Cardinality(live) - 1 : f[i] \in live /\ cell[f[i]].next = f[i + 1]
    /\ \A i, j \in 0 .. Cardinality(live) : f[i] = f[j] => i = j
    /\ \A c \in live \cup {Start} : \E i \in 0 .. Cardinality(live) : f[i] = c

\* A cell's previous field is the cell before it, or what a client wrote over it.
BackLinks(f) ==
    \A i \in 0 .. Cardinality(live) :
        f[i] \notin overwritten => cell[f[i]].previous = IF i = 0 THEN Null ELSE f[i - 1]

Linked == \E f \in [0 .. Cardinality(live) -> live \cup {Start}] : Lists(f) /\ BackLinks(f)

IInv == Types /\ (lost \/ (~crashed /\ Linked))

-----------------------------------------------------------------------------

\* A set of naturals with 0 and each successor has them all.
LEMMA SetInduction ==
    ASSUME NEW S, 0 \in S, \A n \in Nat : n \in S => n + 1 \in S
    PROVE  \A n \in Nat : n \in S
  <1> DEFINE R == OpToRel(<, Nat)
  <1> DEFINE T == Nat \ S
  <1> SUFFICES ASSUME T # {} PROVE FALSE
    OBVIOUS
  <1>1. IsWellFoundedOn(R, Nat)
    BY NatLessThanWellFounded
  <1>2. T \subseteq Nat
    OBVIOUS
  <1> HIDE DEF R, T
  <1>3. PICK x \in T : \A y \in T : ~ (<<y, x>> \in R)
    BY <1>1, <1>2, WFMin
  <1>4. \A i, j \in Nat : i < j => <<i, j>> \in R
    BY DEF R, OpToRel
  <1>5. x # 0 /\ x \in Nat /\ x - 1 \in Nat
    BY <1>2 DEF T
  <1>6. x - 1 \notin T
    <2>1. <<x - 1, x>> \in R
      BY <1>4, <1>5
    <2>2. QED
      BY <2>1, <1>3
  <1>7. QED
    BY <1>5, <1>6 DEF T

LEMMA InitInv == Init => IInv
  <1> SUFFICES ASSUME Init PROVE IInv
    OBVIOUS
  <1>1. IsFiniteSet({}) /\ Cardinality({}) = 0
    BY FS_EmptySet
  <1>2. Types
    BY <1>1 DEF Init, Types, Addresses, JunkCell
  <1>3. Linked
    <2> DEFINE f == [i \in 0 .. 0 |-> Start]
    <2>1. Cardinality(live) = 0 /\ live = {} /\ generated_ids = Start
      BY <1>1 DEF Init
    <2>2. f \in [0 .. Cardinality(live) -> live \cup {Start}]
      BY <2>1
    <2>3. Lists(f)
      BY <2>1 DEF Lists
    <2>4. cell[Start].previous = Null
      BY DEF Init
    <2>5. BackLinks(f)
      BY <2>1, <2>4 DEF BackLinks
    <2>6. QED
      BY <2>2, <2>3, <2>5 DEF Linked
  <1>4. QED
    BY <1>2, <1>3 DEF IInv, Init

\* The types, also once the links are lost.
LEMMA StepTypes == Types /\ [Next]_vars => Types'
  <1> SUFFICES ASSUME Types, [Next]_vars PROVE Types'
    OBVIOUS
  <1> DEFINE Cell == [previous : Addresses, handler : Addresses, next : Addresses]
  <1> DEFINE Listed == Cells \cup {Start}
  <1>0. /\ generated_ids \in Listed /\ cell \in [Listed -> Cell] /\ DOMAIN cell = Listed
        /\ \A c \in live : cell[c].next \in Listed
        /\ Listed \subseteq Addresses /\ Null \in Addresses /\ Junk \in Addresses
        /\ live \in SUBSET Cells /\ IsFiniteSet(live) /\ overwritten \in SUBSET live
    BY DEF Types, Addresses
  <1>1. ASSUME NEW c \in Cells, seff_alloc_gen_id(c) PROVE Types'
    <2>1. /\ cell' = [cell EXCEPT
                ![c] = [previous |-> Null, handler |-> Null, next |-> generated_ids],
                ![generated_ids].previous = c]
          /\ generated_ids' = c /\ live' = live \cup {c}
          /\ overwritten' = overwritten \ {generated_ids} /\ UNCHANGED <<crashed, lost>>
      BY <1>1 DEF seff_alloc_gen_id
    <2>2. IsFiniteSet(live')
      BY <1>0, <2>1, FS_AddElement
    <2>3. cell' \in [Listed -> Cell]
      BY <1>0, <2>1
    <2>4. \A d \in live' : cell'[d].next \in Listed
      <3>1. \A d \in Cells : cell'[d].next = IF d = c THEN generated_ids ELSE cell[d].next
        BY <1>0, <2>1
      <3>2. QED
        BY <1>0, <2>1, <3>1
    <2>5. QED
      BY <1>0, <2>1, <2>2, <2>3, <2>4 DEF Types
  <1>2. ASSUME NEW c \in Cells, seff_dealloc_gen_id(c) PROVE Types'
    <2> DEFINE back == cell[c].previous
    <2> DEFINE forward == cell[c].next
    <2>1. /\ c \in live /\ live' = live \ {c}
          /\ crashed' = (back \notin DOMAIN cell \cup {Null})
          /\ cell' = [d \in Listed |->
                IF d = c THEN JunkCell
                ELSE [cell[d] EXCEPT !.next = IF d = back THEN forward ELSE @,
                                     !.previous = IF d = forward THEN back ELSE @]]
          /\ generated_ids' = (IF back = Null THEN forward ELSE generated_ids)
          /\ overwritten' = overwritten \ {c, forward}
          /\ lost' = (lost \/ c \in overwritten)
      BY <1>0, <1>2 DEF seff_dealloc_gen_id, Unlink, HeadAfter
    <2>2. back \in Addresses /\ forward \in Listed
      BY <1>0, <2>1
    <2>3. IsFiniteSet(live')
      BY <1>0, <2>1, FS_RemoveElement
    <2>4. JunkCell \in Cell
      BY DEF JunkCell, Addresses
    <2> HIDE DEF back, forward
    <2>5. ASSUME NEW d \in Listed, d # c
          PROVE  /\ cell'[d] \in Cell
                 /\ cell'[d].next = IF d = back THEN forward ELSE cell[d].next
      BY <1>0, <2>1, <2>2, <2>5
    <2>6. cell' \in [Listed -> Cell]
      <3>1. cell'[c] = JunkCell
        BY <2>1
      <3>2. \A d \in Listed : cell'[d] \in Cell
        BY <2>4, <2>5, <3>1
      <3>3. cell' = [d \in Listed |-> cell'[d]]
        BY <2>1
      <3>4. QED
        BY <3>2, <3>3
    <2>7. \A d \in live' : cell'[d].next \in Listed
      BY <1>0, <2>1, <2>2, <2>5
    <2>8. QED
      BY <1>0, <2>1, <2>2, <2>3, <2>6, <2>7 DEF Types
  <1>3. ASSUME NEW c \in Cells, NEW handler \in Handlers, seff_set_default_handler(c, handler)
        PROVE  Types'
    <2>1. /\ c \in live /\ cell' = [cell EXCEPT ![c].previous = handler]
          /\ overwritten' = overwritten \cup {c}
          /\ UNCHANGED <<generated_ids, live, crashed, lost>>
      BY <1>3 DEF seff_set_default_handler
    <2>2. handler \in Addresses
      BY DEF Addresses
    <2>3. cell' \in [Listed -> Cell] /\ \A d \in Cells : cell'[d].next = cell[d].next
      BY <1>0, <2>1, <2>2
    <2>4. QED
      BY <1>0, <2>1, <2>3 DEF Types
  <1>4. CASE UNCHANGED vars
    BY <1>4 DEF vars, history, Types
  <1>5. QED
    BY <1>1, <1>2, <1>3, <1>4 DEF Next

\* A new cell becomes the head of the list.
LEMMA AllocLinked ==
    ASSUME Types, Linked, NEW c \in Cells, seff_alloc_gen_id(c)
    PROVE  Linked'
  <1> DEFINE n == Cardinality(live)
  <1>1. PICK f \in [0 .. n -> live \cup {Start}] : Lists(f) /\ BackLinks(f)
    BY DEF Linked
  <1>2. /\ c \notin live /\ live' = live \cup {c} /\ generated_ids' = c
        /\ cell' = [cell EXCEPT
                ![c] = [previous |-> Null, handler |-> Null, next |-> generated_ids],
                ![generated_ids].previous = c]
        /\ overwritten' = overwritten \ {generated_ids} /\ UNCHANGED crashed
    BY DEF seff_alloc_gen_id
  <1>3. n \in Nat /\ IsFiniteSet(live') /\ Cardinality(live') = n + 1
    BY <1>2, FS_AddElement, FS_CardinalityType DEF Types
  <1>4. c # Start /\ c # generated_ids /\ generated_ids \in live \cup {Start}
    <2>1. f[0] = generated_ids /\ f[0] \in live \cup {Start}
      BY <1>1, <1>3 DEF Lists
    <2>2. QED
      BY <2>1, <1>2, AddressesDistinct
  <1>5. /\ cell'[c].previous = Null /\ cell'[c].next = generated_ids
        /\ cell'[generated_ids].previous = c /\ cell'[generated_ids].next = cell[generated_ids].next
        /\ \A d \in live \cup {Start} : d # generated_ids => cell'[d] = cell[d]
    BY <1>2, <1>4 DEF Types
  <1>7. PICK g \in [0 .. n + 1 -> live' \cup {Start}] :
            g[0] = c /\ \A i \in 1 .. n + 1 : g[i] = f[i - 1]
    <2> DEFINE h == [i \in 0 .. n + 1 |-> IF i = 0 THEN c ELSE f[i - 1]]
    <2>1. \A i \in 1 .. n + 1 : i - 1 \in 0 .. n
      BY <1>3
    <2>2. h \in [0 .. n + 1 -> live' \cup {Start}]
      BY <1>2, <1>3, <2>1
    <2>3. h[0] = c /\ \A i \in 1 .. n + 1 : h[i] = f[i - 1]
      BY <1>3
    <2>4. QED
      BY <2>2, <2>3
  <1> HIDE DEF n
  <1>f. /\ f[0] = generated_ids /\ f[n] = Start
        /\ \A i \in 0 .. n - 1 : f[i] \in live /\ cell[f[i]].next = f[i + 1]
        /\ \A i, j \in 0 .. n : f[i] = f[j] => i = j
        /\ \A d \in live \cup {Start} : \E i \in 0 .. n : f[i] = d
        /\ \A i \in 0 .. n : f[i] \notin overwritten =>
              cell[f[i]].previous = IF i = 0 THEN Null ELSE f[i - 1]
    BY <1>1 DEF Lists, BackLinks, n
  <1>8. \A i \in 1 .. n + 1 : /\ i - 1 \in 0 .. n /\ i - 1 + 1 = i
                              /\ i - 1 = 0 \/ i - 1 \in 1 .. n
    BY <1>3
  <1>9. /\ g[n + 1] = Start
        /\ \A i \in 0 .. n : g[i] \in live' /\ cell'[g[i]].next = g[i + 1]
    <2>1. g[n + 1] = Start
      BY <1>3, <1>7, <1>f
    <2>2. g[0] \in live' /\ cell'[g[0]].next = g[1]
      <3>1. 1 \in 1 .. n + 1 /\ 1 - 1 = 0
        BY <1>3
      <3>2. g[1] = f[0]
        BY <3>1, <1>7
      <3>3. g[0] = c /\ f[0] = generated_ids
        BY <1>7, <1>f
      <3>4. QED
        BY <3>2, <3>3, <1>2, <1>5
    <2>3. ASSUME NEW i \in 1 .. n PROVE g[i] \in live' /\ cell'[g[i]].next = g[i + 1]
      <3>1. /\ i - 1 \in 0 .. n - 1 /\ i \in 1 .. n + 1 /\ i + 1 \in 1 .. n + 1
            /\ i + 1 - 1 = i /\ i - 1 + 1 = i
        BY <1>3
      <3>2. g[i] = f[i - 1] /\ g[i + 1] = f[i] /\ f[i - 1] \in live /\ cell[f[i - 1]].next = f[i]
        BY <3>1, <1>7, <1>f
      <3>3. cell'[f[i - 1]].next = cell[f[i - 1]].next
        BY <3>2, <1>5
      <3>4. QED
        BY <3>2, <3>3, <1>2
    <2>4. \A i \in 0 .. n : i = 0 \/ i \in 1 .. n
      BY <1>3
    <2>5. 0 + 1 = 1
      OBVIOUS
    <2>6. QED
      BY <2>1, <2>2, <2>3, <2>4, <2>5
  <1>10. \A i, j \in 0 .. n + 1 : g[i] = g[j] => i = j
    <2>1. \A i \in 1 .. n + 1 : g[i] # c
      BY <1>2, <1>4, <1>7, <1>8
    <2>2. \A i \in 0 .. n + 1 : i = 0 \/ i \in 1 .. n + 1
      BY <1>3
    <2>3. ASSUME NEW i \in 1 .. n + 1, NEW j \in 1 .. n + 1, g[i] = g[j] PROVE i = j
      <3>1. i - 1 = j - 1
        BY <2>3, <1>7, <1>8, <1>f
      <3>2. QED
        BY <3>1, <1>3
    <2>4. QED
      BY <2>1, <2>2, <2>3, <1>7
  <1>11. ASSUME NEW d \in live' \cup {Start} PROVE \E i \in 0 .. n + 1 : g[i] = d
    <2>1. CASE d = c
      BY <2>1, <1>3, <1>7
    <2>2. CASE d \in live \cup {Start}
      <3>1. PICK i \in 0 .. n : f[i] = d
        BY <2>2, <1>f
      <3>2. i + 1 \in 1 .. n + 1 /\ i + 1 \in 0 .. n + 1 /\ i + 1 - 1 = i
        BY <1>3
      <3>3. QED
        BY <3>1, <3>2, <1>7
    <2>3. QED
      BY <2>1, <2>2, <1>2
  <1>12. ASSUME NEW i \in 0 .. n + 1
         PROVE  g[i] \notin overwritten' =>
                    cell'[g[i]].previous = IF i = 0 THEN Null ELSE g[i - 1]
    <2>1. CASE i = 0
      BY <2>1, <1>5, <1>7
    <2>2. CASE i = 1
      BY <2>2, <1>3, <1>5, <1>7, <1>f
    <2>3. CASE i \in 2 .. n + 1
      <3>1. /\ i \in 1 .. n + 1 /\ i - 1 \in 1 .. n + 1 /\ i - 1 \in 0 .. n /\ i # 0 /\ i - 1 # 0
            /\ 0 \in 0 .. n
        BY <2>3, <1>3
      <3>2. g[i] = f[i - 1] /\ g[i - 1] = f[i - 1 - 1] /\ f[i - 1] # f[0]
        BY <3>1, <1>7, <1>f
      <3>3. f[i - 1] \in live \cup {Start} /\ f[i - 1] # generated_ids
        BY <3>1, <3>2, <1>f
      <3>a. cell'[f[i - 1]] = cell[f[i - 1]] /\ f[i - 1] # c
        BY <3>3, <1>2, <1>4, <1>5
      <3>4. QED
        BY <3>1, <3>2, <3>3, <3>a, <1>2, <1>f
    <2>4. QED
      BY <2>1, <2>2, <2>3, <1>3
  <1>13. Cardinality(live)' = n + 1 /\ Cardinality(live)' - 1 = n
    BY <1>3 DEF n
  <1>14. Lists(g)' /\ BackLinks(g)'
    <2>1. Lists(g)'
      <3>1. g[0] = generated_ids'
        BY <1>2, <1>7
      <3>2. QED
        BY <3>1, <1>9, <1>10, <1>11, <1>13 DEF Lists
    <2>2. BackLinks(g)'
      BY <1>12, <1>13 DEF BackLinks
    <2>3. QED
      BY <2>1, <2>2
  <1>15. QED
    BY <1>7, <1>13, <1>14 DEF Linked

\* A cell whose previous field is a link is taken out of the list.
LEMMA DeallocLinked ==
    ASSUME Types, Linked, NEW c \in Cells, c \notin overwritten, seff_dealloc_gen_id(c)
    PROVE  Linked' /\ ~crashed'
  <1> DEFINE n == Cardinality(live)
  <1> DEFINE back == cell[c].previous
  <1> DEFINE forward == cell[c].next
  <1>1. PICK f \in [0 .. n -> live \cup {Start}] : Lists(f) /\ BackLinks(f)
    BY DEF Linked
  <1>2. /\ c \in live /\ live' = live \ {c} /\ crashed' = (back \notin DOMAIN cell \cup {Null})
        /\ generated_ids' = (IF back = Null THEN forward ELSE generated_ids)
        /\ overwritten' = overwritten \ {c, forward}
    BY DEF seff_dealloc_gen_id, HeadAfter
  <1>3. cell' = [d \in Cells \cup {Start} |->
                    IF d = c THEN JunkCell
                    ELSE [cell[d] EXCEPT !.next = IF d = back THEN forward ELSE @,
                                         !.previous = IF d = forward THEN back ELSE @]]
    BY DEF seff_dealloc_gen_id, Unlink, Types
  <1>4. /\ n \in Nat /\ IsFiniteSet(live') /\ Cardinality(live') = n - 1 /\ n # 0
    BY <1>2, FS_RemoveElement, FS_CardinalityType, FS_EmptySet DEF Types
  <1> HIDE DEF n
  <1>f. /\ f[0] = generated_ids /\ f[n] = Start
        /\ \A i \in 0 .. n - 1 : f[i] \in live /\ cell[f[i]].next = f[i + 1]
        /\ \A i, j \in 0 .. n : f[i] = f[j] => i = j
        /\ \A d \in live \cup {Start} : \E i \in 0 .. n : f[i] = d
        /\ \A i \in 0 .. n : f[i] \notin overwritten =>
              cell[f[i]].previous = IF i = 0 THEN Null ELSE f[i - 1]
    BY <1>1 DEF Lists, BackLinks, n
  <1>5. PICK k \in 0 .. n - 1 : f[k] = c
    <2>1. PICK k \in 0 .. n : f[k] = c
      BY <1>2, <1>f
    <2>2. k # n
      BY <2>1, <1>2, <1>f, AddressesDistinct DEF Types
    <2>3. QED
      BY <2>1, <2>2, <1>4
  <1>6. /\ k \in 0 .. n /\ k + 1 \in 0 .. n /\ forward = f[k + 1] /\ forward \in live \cup {Start}
        /\ forward \in Cells \cup {Start}
    BY <1>4, <1>5, <1>f DEF Types
  <1>9. back = IF k = 0 THEN Null ELSE f[k - 1]
    BY <1>5, <1>6, <1>f
  <1>10. Linked'
    <2>1. k # 0 => /\ k - 1 \in 0 .. n - 1 /\ k - 1 \in 0 .. n /\ back = f[k - 1] /\ back \in live
      BY <1>4, <1>9, <1>f
    <2>2. k = 0 => back = Null
      BY <1>9
    <2>3. \A j \in 0 .. n : j # k => f[j] \in live' \cup {Start} /\ f[j] # c
      BY <1>2, <1>5, <1>6, <1>f
    <2>4. ASSUME NEW j \in 0 .. n, j # k
          PROVE  /\ cell'[f[j]].next = IF j = k - 1 THEN forward ELSE cell[f[j]].next
                 /\ cell'[f[j]].previous = IF j = k + 1 THEN back ELSE cell[f[j]].previous
      <3>1. f[j] \in Cells \cup {Start} /\ f[j] # c
        BY <2>3, <2>4, <1>2, <1>4 DEF Types
      <3>2. f[j] = forward <=> j = k + 1
        BY <1>6, <1>f
      <3>3. f[j] = back <=> j = k - 1
        <4>1. CASE k = 0
          BY <4>1, <2>2, <3>1, AddressesDistinct
        <4>2. CASE k # 0
          BY <4>2, <2>1, <1>f
        <4>3. QED
          BY <4>1, <4>2
      <3>4. k - 1 # k + 1
        BY <1>5
      <3>5. cell[f[j]] \in [previous : Addresses, handler : Addresses, next : Addresses]
        BY <3>1 DEF Types
      <3>6. QED
        BY <1>3, <3>1, <3>2, <3>3, <3>4, <3>5
    <2>5. PICK g \in [0 .. n - 1 -> live' \cup {Start}] :
              /\ \A i \in 0 .. n - 1 : i < k => g[i] = f[i]
              /\ \A i \in 0 .. n - 1 : i >= k => g[i] = f[i + 1]
      <3> DEFINE h == [i \in 0 .. n - 1 |-> IF i < k THEN f[i] ELSE f[i + 1]]
      <3>1. ASSUME NEW i \in 0 .. n - 1
            PROVE  (IF i < k THEN f[i] ELSE f[i + 1]) \in live' \cup {Start}
        <4>1. i \in 0 .. n /\ i + 1 \in 0 .. n /\ (i < k => i # k) /\ (~(i < k) => i + 1 # k)
          BY <1>4, <1>5
        <4>2. QED
          BY <4>1, <2>3
      <3>2. h \in [0 .. n - 1 -> live' \cup {Start}]
        BY <3>1
      <3>3. /\ \A i \in 0 .. n - 1 : i < k => h[i] = f[i]
            /\ \A i \in 0 .. n - 1 : i >= k => h[i] = f[i + 1]
        BY <1>5
      <3>4. QED
        BY <3>2, <3>3
    <2>6. g[0] = generated_ids' /\ g[n - 1] = Start
      <3>1. n - 1 \in 0 .. n - 1 /\ n - 1 >= k /\ n - 1 + 1 = n /\ 0 \in 0 .. n - 1
        BY <1>4, <1>5
      <3>2. g[n - 1] = Start
        BY <3>1, <2>5, <1>f
      <3>3. CASE k = 0
        <4>1. 0 >= k /\ 0 + 1 = k + 1
          BY <3>3
        <4>2. g[0] = f[k + 1]
          BY <3>1, <4>1, <2>5
        <4>3. generated_ids' = f[k + 1]
          BY <3>3, <2>2, <1>2, <1>6
        <4>4. QED
          BY <3>2, <4>2, <4>3
      <3>4. CASE k # 0
        <4>1. 0 < k /\ back # Null
          BY <3>4, <1>5, <2>1, <1>2, AddressesDistinct DEF Types
        <4>2. QED
          BY <3>1, <4>1, <2>5, <1>2, <1>f
      <3>5. QED
        BY <3>2, <3>3, <3>4
    <2>7. ASSUME NEW i \in 0 .. n - 2 PROVE g[i] \in live' /\ cell'[g[i]].next = g[i + 1]
      <3>1. /\ i \in 0 .. n /\ i \in 0 .. n - 1 /\ i + 1 \in 0 .. n /\ i + 1 \in 0 .. n - 1
            /\ i + 2 \in 0 .. n /\ i + 1 + 1 = i + 2
        BY <1>4
      <3>2. CASE i < k
        <4>1. g[i] = f[i] /\ f[i] \in live'
          BY <3>1, <3>2, <1>2, <1>5, <1>f, <2>3, <2>5
        <4>2. CASE i + 1 < k
          <5>1. g[i + 1] = f[i + 1] /\ i # k /\ i # k - 1
            BY <3>1, <4>2, <1>5, <2>5
          <5>2. QED
            BY <3>1, <4>1, <5>1, <1>f, <2>4
        <4>3. CASE ~(i + 1 < k)
          <5>1. i = k - 1 /\ i # k /\ i + 2 = k + 1 /\ i + 1 >= k
            BY <3>1, <3>2, <4>3, <1>5
          <5>2. g[i + 1] = f[k + 1]
            BY <3>1, <5>1, <2>5
          <5>3. QED
            BY <3>1, <4>1, <5>1, <5>2, <1>6, <2>4
        <4>4. QED
          BY <4>2, <4>3
      <3>3. CASE ~(i < k)
        <4>1. i >= k /\ i + 1 >= k /\ i + 1 # k /\ i + 1 # k - 1
          BY <3>1, <3>3, <1>5
        <4>2. g[i] = f[i + 1] /\ g[i + 1] = f[i + 2] /\ f[i + 1] \in live
          BY <3>1, <4>1, <1>f, <2>5
        <4>3. cell'[f[i + 1]].next = cell[f[i + 1]].next /\ f[i + 1] # c
          BY <3>1, <4>1, <2>3, <2>4
        <4>4. QED
          BY <3>1, <4>2, <4>3, <1>2, <1>f
      <3>4. QED
        BY <3>2, <3>3
    <2>8. ASSUME NEW i \in 0 .. n - 1, NEW j \in 0 .. n - 1, g[i] = g[j] PROVE i = j
      <3>1. /\ i \in 0 .. n /\ j \in 0 .. n /\ i + 1 \in 0 .. n /\ j + 1 \in 0 .. n
        BY <1>4
      <3>2. /\ g[i] = IF i < k THEN f[i] ELSE f[i + 1]
            /\ g[j] = IF j < k THEN f[j] ELSE f[j + 1]
        BY <1>5, <2>5
      <3>3. QED
        BY <3>1, <3>2, <2>8, <1>5, <1>f
    <2>9. ASSUME NEW d \in live' \cup {Start} PROVE \E i \in 0 .. n - 1 : g[i] = d
      <3>1. PICK j \in 0 .. n : f[j] = d
        BY <1>2, <1>f
      <3>2. j # k
        BY <3>1, <1>2, <1>5, AddressesDistinct
      <3>3. CASE j < k
        <4>1. j \in 0 .. n - 1
          BY <3>3, <1>4, <1>5
        <4>2. QED
          BY <3>1, <3>3, <4>1, <2>5
      <3>4. CASE ~(j < k)
        <4>1. j - 1 \in 0 .. n - 1 /\ j - 1 >= k /\ j - 1 + 1 = j
          BY <3>2, <3>4, <1>4, <1>5
        <4>2. QED
          BY <3>1, <4>1, <2>5
      <3>5. QED
        BY <3>3, <3>4
    <2>10. ASSUME NEW i \in 0 .. n - 1
           PROVE  g[i] \notin overwritten' =>
                      cell'[g[i]].previous = IF i = 0 THEN Null ELSE g[i - 1]
      <3>1. i \in 0 .. n /\ i + 1 \in 0 .. n /\ (i # 0 => i - 1 \in 0 .. n - 1) /\ i + 1 - 1 = i
        BY <1>4
      <3>2. \A d : d \notin overwritten' /\ d # c /\ d # forward => d \notin overwritten
        BY <1>2
      <3>3. CASE i < k
        <4>1. g[i] = f[i] /\ i # k /\ i # k + 1 /\ (i # 0 => g[i - 1] = f[i - 1])
          BY <3>1, <3>3, <1>5, <2>5
        <4>2. cell'[f[i]].previous = cell[f[i]].previous /\ f[i] # c
          BY <3>1, <4>1, <2>3, <2>4
        <4>3. QED
          <5>1. f[i] # forward
            BY <3>1, <4>1, <1>6, <1>f
          <5>2. QED
            BY <3>1, <3>2, <4>1, <4>2, <5>1, <1>f
      <3>4. CASE i = k
        <4>1. /\ i >= k /\ i + 1 # k /\ i + 1 = k + 1
              /\ i # 0 => i - 1 < k /\ i - 1 = k - 1
          BY <3>4, <1>5
        <4>2. g[i] = f[i + 1] /\ (i # 0 => g[i - 1] = f[k - 1])
          BY <3>1, <4>1, <2>5
        <4>3. cell'[f[i + 1]].previous = back
          BY <3>1, <4>1, <2>4
        <4>4. QED
          BY <3>4, <4>2, <4>3, <1>9
      <3>5. CASE i > k
        <4>1. /\ i >= k /\ i + 1 # k /\ i + 1 # k + 1 /\ i # 0 /\ i - 1 >= k /\ i - 1 + 1 = i
              /\ i + 1 # 0
          BY <3>5, <1>5
        <4>2. g[i] = f[i + 1] /\ g[i - 1] = f[i]
          BY <3>1, <4>1, <2>5
        <4>3. cell'[f[i + 1]].previous = cell[f[i + 1]].previous /\ f[i + 1] # c
          BY <3>1, <4>1, <2>3, <2>4
        <4>4. f[i + 1] # forward
          BY <3>1, <4>1, <1>6, <1>f
        <4>5. QED
          BY <3>1, <3>2, <4>1, <4>2, <4>3, <4>4, <1>f
      <3>6. QED
        BY <3>3, <3>4, <3>5, <1>5
    <2>11. Cardinality(live)' = n - 1 /\ Cardinality(live)' - 1 = n - 2
      BY <1>4
    <2>12. Lists(g)'
      BY <2>6, <2>7, <2>8, <2>9, <2>11 DEF Lists
    <2>13. BackLinks(g)'
      BY <2>10, <2>11 DEF BackLinks
    <2>14. QED
      BY <2>5, <2>11, <2>12, <2>13 DEF Linked
  <1>11. ~crashed'
    <2>1. k # 0 => k - 1 \in 0 .. n /\ f[k - 1] \in Cells \cup {Start}
      BY <1>5, <1>4 DEF Types
    <2>2. DOMAIN cell = Cells \cup {Start}
      BY DEF Types
    <2>3. QED
      BY <2>1, <2>2, <1>2, <1>9
  <1>12. QED
    BY <1>10, <1>11

\* What a client writes leaves the list as it is, but for one previous field.
LEMMA SetHandlerLinked ==
    ASSUME Types, Linked, NEW c \in Cells, NEW handler \in Handlers,
           seff_set_default_handler(c, handler)
    PROVE  Linked'
  <1>1. PICK f \in [0 .. Cardinality(live) -> live \cup {Start}] : Lists(f) /\ BackLinks(f)
    BY DEF Linked
  <1>2. /\ c \in live /\ cell' = [cell EXCEPT ![c].previous = handler]
        /\ overwritten' = overwritten \cup {c}
        /\ UNCHANGED <<generated_ids, live, crashed>>
    BY DEF seff_set_default_handler
  <1>4. /\ \A d \in live \cup {Start} : cell'[d].next = cell[d].next
        /\ \A d \in live \cup {Start} : d # c => cell'[d].previous = cell[d].previous
    BY <1>2 DEF Types
  <1>5. \A i \in 0 .. Cardinality(live) : f[i] \in live \cup {Start}
    OBVIOUS
  <1>6. Lists(f)'
    BY <1>1, <1>2, <1>4 DEF Lists
  <1>7. BackLinks(f)'
    BY <1>1, <1>2, <1>4, <1>5 DEF BackLinks
  <1>8. QED
    BY <1>2, <1>6, <1>7 DEF Linked

\* The inductive invariant of the list in seff.c, whatever clients install: until a
\* removal follows a word they have written, nothing has been written outside the
\* list, which is a path through the live cells.
THEOREM InductiveInvariant == Spec => []IInv
  <1>1. ASSUME IInv, [Next]_vars PROVE IInv'
    <2>0. Types' /\ (lost => lost')
      <3>1. Types'
        BY <1>1, StepTypes DEF IInv
      <3>2. lost => lost'
        BY <1>1 DEF Next, vars, history, seff_alloc_gen_id, seff_dealloc_gen_id,
           seff_set_default_handler
      <3>3. QED
        BY <3>1, <3>2
    <2> SUFFICES ASSUME ~lost, ~crashed, Linked PROVE lost' \/ (~crashed' /\ Linked')
      BY <1>1, <2>0 DEF IInv
    <2>1. ASSUME NEW c \in Cells, seff_alloc_gen_id(c) PROVE ~crashed' /\ Linked'
      BY <1>1, <2>1, AllocLinked DEF IInv, seff_alloc_gen_id
    <2>2. ASSUME NEW c \in Cells, seff_dealloc_gen_id(c)
          PROVE  lost' \/ (~crashed' /\ Linked')
      <3>1. CASE c \in overwritten
        BY <2>2, <3>1 DEF seff_dealloc_gen_id
      <3>2. CASE c \notin overwritten
        BY <1>1, <2>2, <3>2, DeallocLinked DEF IInv
      <3>3. QED
        BY <3>1, <3>2
    <2>3. ASSUME NEW c \in Cells, NEW handler \in Handlers,
                 seff_set_default_handler(c, handler)
          PROVE  ~crashed' /\ Linked'
      BY <1>1, <2>3, SetHandlerLinked DEF IInv, seff_set_default_handler
    <2>4. CASE UNCHANGED vars
      <3>1. UNCHANGED <<generated_ids, cell, live, crashed, overwritten>>
        BY <2>4 DEF vars, history
      <3>2. PICK f \in [0 .. Cardinality(live) -> live \cup {Start}] : Lists(f) /\ BackLinks(f)
        BY DEF Linked
      <3>3. Lists(f)' /\ BackLinks(f)'
        BY <3>1, <3>2 DEF Lists, BackLinks
      <3>4. QED
        BY <3>1, <3>3 DEF Linked
    <2>5. QED
      BY <1>1, <2>1, <2>2, <2>3, <2>4 DEF Next
  <1>2. QED
    BY InitInv, <1>1, PTL DEF Spec

\* Until a removal follows a word a client has written, each next field and the head
\* point to an allocated cell or the static one, and the previous fields that no
\* client has written over agree with them: no removal writes into a freed cell
\* (seff.c:190) or through a handler's address (seff.c:193).
THEOREM NothingDangles == Spec => []NoDangling
  <1>1. ASSUME IInv PROVE NoDangling
    <2> SUFFICES ASSUME ~lost
                 PROVE  /\ ~crashed
                        /\ generated_ids \in live \cup {Start}
                        /\ \A c \in live : cell[c].next \in live \cup {Start}
                        /\ \A c \in (live \cup {Start}) \ overwritten :
                            IF c = generated_ids THEN cell[c].previous = Null
                            ELSE cell[c].previous \in live /\ cell[cell[c].previous].next = c
      BY DEF NoDangling
    <2> DEFINE n == Cardinality(live)
    <2>1. ~crashed /\ Linked
      BY <1>1 DEF IInv
    <2>a. PICK f \in [0 .. n -> live \cup {Start}] : Lists(f) /\ BackLinks(f)
      BY <2>1 DEF Linked
    <2>2. n \in Nat
      BY <1>1, FS_CardinalityType DEF IInv, Types
    <2> HIDE DEF n
    <2>3. /\ f[0] = generated_ids /\ f[n] = Start
          /\ \A i \in 0 .. n - 1 : f[i] \in live /\ cell[f[i]].next = f[i + 1]
          /\ \A i, j \in 0 .. n : f[i] = f[j] => i = j
          /\ \A c \in live \cup {Start} : \E i \in 0 .. n : f[i] = c
          /\ \A i \in 0 .. n : f[i] \notin overwritten =>
                cell[f[i]].previous = IF i = 0 THEN Null ELSE f[i - 1]
      BY <2>a DEF Lists, BackLinks, n
    <2>4. 0 \in 0 .. n /\ generated_ids \in live \cup {Start}
      BY <2>2, <2>3
    <2>5. ASSUME NEW c \in live PROVE cell[c].next \in live \cup {Start}
      <3>1. PICK i \in 0 .. n : f[i] = c
        BY <2>3
      <3>2. i # n
        BY <1>1, <2>3, <3>1, AddressesDistinct DEF IInv, Types
      <3>3. i \in 0 .. n - 1 /\ i + 1 \in 0 .. n
        BY <2>2, <3>2
      <3>4. QED
        BY <2>3, <3>1, <3>3
    <2>6. ASSUME NEW c \in (live \cup {Start}) \ overwritten
          PROVE  IF c = generated_ids THEN cell[c].previous = Null
                 ELSE cell[c].previous \in live /\ cell[cell[c].previous].next = c
      <3>1. PICK i \in 0 .. n : f[i] = c
        BY <2>3
      <3>2. CASE i = 0
        BY <2>3, <2>4, <3>1, <3>2
      <3>3. CASE i # 0
        <4>1. i - 1 \in 0 .. n - 1 /\ i - 1 + 1 = i /\ c # generated_ids
          BY <2>2, <2>3, <2>4, <3>1, <3>3
        <4>2. QED
          BY <2>3, <3>1, <3>3, <4>1
      <3>4. QED
        BY <3>2, <3>3
    <2>7. QED
      BY <2>1, <2>4, <2>5, <2>6
  <1>2. QED
    BY <1>1, InductiveInvariant, PTL

\* Following next from the head one meets each cell of the list in turn.
LEMMA AfterFollows ==
    ASSUME Types, NEW f \in [0 .. Cardinality(live) -> live \cup {Start}], Lists(f)
    PROVE  \A i \in 0 .. Cardinality(live) : After[i] = f[i]
  <1> DEFINE n == Cardinality(live)
  <1> DEFINE Recursive(g) ==
        g = [i \in 0 .. n |->
                IF i = 0 THEN generated_ids
                ELSE IF g[i - 1] \in live THEN cell[g[i - 1]].next ELSE Null]
  <1>1. n \in Nat
    BY FS_CardinalityType DEF Types
  <1>2. After = CHOOSE g : Recursive(g)
    BY DEF After
  <1> HIDE DEF n
  <1>3. Recursive(f)
    <2>1. \A i \in 0 .. n : i = 0 \/ (i - 1 \in 0 .. n - 1 /\ i - 1 + 1 = i)
      BY <1>1
    <2>2. \A i \in 0 .. n : f[i] = IF i = 0 THEN generated_ids
                                   ELSE IF f[i - 1] \in live THEN cell[f[i - 1]].next ELSE Null
      BY <2>1 DEF Lists, n
    <2>3. QED
      BY <2>2 DEF n
  <1>4. Recursive(After)
    BY <1>2, <1>3
  <1> DEFINE S == {i \in Nat : i =< n => After[i] = f[i]}
  <1>5. 0 \in S
    BY <1>1, <1>3, <1>4
  <1>6. ASSUME NEW i \in Nat, i \in S PROVE i + 1 \in S
    <2>1. CASE i + 1 =< n
      <3>1. i + 1 \in 0 .. n /\ i + 1 # 0 /\ i + 1 - 1 = i /\ i \in 0 .. n
        BY <2>1, <1>1
      <3>2. After[i] = f[i]
        BY <3>1, <1>6
      <3>3. QED
        BY <3>1, <3>2, <1>3, <1>4
    <2>2. CASE ~(i + 1 =< n)
      BY <2>2
    <2>3. QED
      BY <2>1, <2>2
  <1> HIDE DEF S
  <1>7. \A i \in Nat : i \in S
    BY <1>5, <1>6, SetInduction
  <1>8. QED
    BY <1>1, <1>7 DEF S, n

\* The list reaches every live id and ends in the static cell, also with handlers
\* installed and uninstalled, until a removal follows a word a client has written.
THEOREM EverythingReached == Spec => []ReachesAll
  <1>1. ASSUME IInv PROVE ReachesAll
    <2> SUFFICES ASSUME ~lost
                 PROVE  /\ {After[i] : i \in 0 .. Cardinality(live)} = live \cup {Start}
                        /\ After[Cardinality(live)] = Start
      BY DEF ReachesAll
    <2>1. PICK f \in [0 .. Cardinality(live) -> live \cup {Start}] : Lists(f)
      BY <1>1 DEF IInv, Linked
    <2>2. \A i \in 0 .. Cardinality(live) : After[i] = f[i] /\ f[i] \in live \cup {Start}
      BY <1>1, <2>1, AfterFollows DEF IInv
    <2>3. Cardinality(live) \in 0 .. Cardinality(live)
      BY <1>1, FS_CardinalityType DEF IInv, Types
    <2>4. QED
      BY <2>1, <2>2, <2>3 DEF Lists
  <1>2. QED
    BY <1>1, InductiveInvariant, PTL
=============================================================================
