-------------------------- MODULE TaskQueuesProofs --------------------------
(***************************************************************************)
(* The locked and the lock-free task queue behave as one atomic queue, the   *)
(* Chase-Lev queue as a deque, and no thread uses an array the locked queue  *)
(* has freed: for any number of thieves, any elements, any initial size, any *)
(* number of growths and any depth of the owner's store buffer.             *)
(***************************************************************************)
EXTENDS TaskQueues, SequenceTheorems, FiniteSetTheorems, TLAPS

-----------------------------------------------------------------------------
(* The ring and the sequence it holds *)

\* What circular_array_new and circular_array_resize return: places 0 .. size - 1.
IsRing(r) ==
    /\ Size(r) \in Nat \ {0}
    /\ DOMAIN r = 0 .. Size(r) - 1
    /\ r = [i \in DOMAIN r |-> r[i]]

\* The elements from index first to the one before index last, as a sequence.
Content(r, first, last) == [i \in 1 .. last - first |-> CA_GET(r, first + i - 1)]

\* Two indices less than a ring apart have places of their own.
LEMMA PlacesApart ==
    ASSUME NEW N \in Nat \ {0}, NEW x \in Nat, NEW y \in Nat,
           x - y < N, y - x < N, x % N = y % N
    PROVE  x = y
  <1>1. /\ x = N * (x \div N) + (x % N) /\ x \div N \in Int
        /\ y = N * (y \div N) + (y % N) /\ y \div N \in Int
    BY SMTT(30)
  <1>2. PICK a \in Int, b \in Int, c \in Int : x = N * a + c /\ y = N * b + c
    BY <1>1, x % N \in Int
  <1>3. x - y = N * (a - b)
    BY <1>2
  <1>4. x - y = 0
    BY <1>3, SMTT(30)
  <1>5. QED
    BY <1>4

\* The place of an index is a place of the ring.
LEMMA PlaceInRing ==
    ASSUME NEW N \in Nat \ {0}, NEW x \in Nat
    PROVE  x % N \in 0 .. N - 1
  BY SMTT(30)

\* A function on 0 .. n - 1 is a ring of size n.
LEMMA RingOfSize ==
    ASSUME NEW n \in Nat \ {0}, NEW r, DOMAIN r = 0 .. n - 1, r = [i \in DOMAIN r |-> r[i]]
    PROVE  IsRing(r) /\ Size(r) = n
  <1>1. Cardinality(0 .. n - 1) = n
    <2>1. PICK m \in Int : m = n - 1 /\ ~(0 > m) /\ m - 0 + 1 = n
      OBVIOUS
    <2>2. Cardinality(0 .. m) = IF 0 > m THEN 0 ELSE m - 0 + 1
      BY FS_Interval, 0 \in Int
    <2>3. QED
      BY <2>1, <2>2
  <1>2. QED
    BY <1>1 DEF IsRing, Size

\* circular_array_new makes a ring.
LEMMA NewRing == IsRing(circular_array_new(log_size))
  <1>1. PICK n \in Nat \ {0} : n = 2 ^ log_size
    BY BoundsAssumption
  <1>2. circular_array_new(log_size) = [i \in 0 .. n - 1 |-> Junk]
    BY <1>1 DEF circular_array_new
  <1>3. QED
    BY <1>2, RingOfSize

\* CA_SET changes what one index holds, and no index less than a ring away.
LEMMA SetRing ==
    ASSUME NEW r, IsRing(r), NEW idx \in Nat, NEW e
    PROVE  /\ IsRing(CA_SET(r, idx, e)) /\ Size(CA_SET(r, idx, e)) = Size(r)
           /\ CA_GET(CA_SET(r, idx, e), idx) = e
           /\ \A n \in Nat : n # idx /\ n - idx < Size(r) /\ idx - n < Size(r)
                => CA_GET(CA_SET(r, idx, e), n) = CA_GET(r, n)
  <1>1. PICK N \in Nat \ {0} : N = Size(r) /\ DOMAIN r = 0 .. N - 1 /\ r = [i \in DOMAIN r |-> r[i]]
    BY DEF IsRing
  <1>2. PICK p \in 0 .. N - 1 : p = idx % N
    BY PlaceInRing
  <1>3. PICK s : s = CA_SET(r, idx, e)
    OBVIOUS
  <1>4. s = [r EXCEPT ![p] = e]
    BY <1>1, <1>2, <1>3 DEF CA_SET
  <1>5. IsRing(s) /\ Size(s) = N
    BY <1>1, <1>4, RingOfSize
  <1>6. CA_GET(s, idx) = e
    BY <1>1, <1>2, <1>4, <1>5 DEF CA_GET
  <1>7. ASSUME NEW n \in Nat, n # idx, n - idx < N, idx - n < N
        PROVE  CA_GET(s, n) = CA_GET(r, n)
    <2>1. n % N \in 0 .. N - 1 /\ n % N # p
      BY <1>7, <1>2, PlacesApart, PlaceInRing
    <2>2. QED
      BY <2>1, <1>1, <1>4, <1>5 DEF CA_GET
  <1>8. QED
    BY <1>1, <1>3, <1>5, <1>6, <1>7

\* The ring circular_array_resize makes has twice the places, and the elements.
LEMMA ResizedRing ==
    ASSUME NEW r, IsRing(r), NEW bottom \in Nat, NEW top \in Nat, bottom - top =< Size(r)
    PROVE  /\ IsRing(circular_array_resize(r, bottom, top))
           /\ Size(circular_array_resize(r, bottom, top)) = 2 * Size(r)
           /\ \A n \in top .. bottom - 1 :
                CA_GET(circular_array_resize(r, bottom, top), n) = CA_GET(r, n)
  <1>1. PICK N \in Nat \ {0} : N = Size(r)
    BY DEF IsRing
  <1>2. PICK M \in Nat \ {0} : M = 2 * N
    OBVIOUS
  <1>3. PICK s : s = circular_array_resize(r, bottom, top)
    OBVIOUS
  <1>4. s = [i \in 0 .. M - 1 |->
              IF \E n \in top .. bottom - 1 : n % M = i
              THEN CA_GET(r, CHOOSE n \in top .. bottom - 1 : n % M = i)
              ELSE Junk]
    BY <1>1, <1>2, <1>3 DEF circular_array_resize, Copied
  <1>5. IsRing(s) /\ Size(s) = M
    <2>1. DOMAIN s = 0 .. M - 1 /\ s = [i \in DOMAIN s |-> s[i]]
      BY <1>4
    <2>2. QED
      BY <2>1, RingOfSize
  <1>6. ASSUME NEW n \in top .. bottom - 1 PROVE CA_GET(s, n) = CA_GET(r, n)
    <2>1. PICK p \in 0 .. M - 1 : p = n % M
      BY PlaceInRing, n \in Nat
    <2>2. \A m \in top .. bottom - 1 : m % M = p => m = n
      <3>1. SUFFICES ASSUME NEW m \in top .. bottom - 1, m % M = p PROVE m = n
        OBVIOUS
      <3>2. m \in Nat /\ n \in Nat /\ m - n < M /\ n - m < M
        BY <1>1, <1>2
      <3>3. QED
        BY <3>1, <3>2, <2>1, PlacesApart
    <2>3. (CHOOSE m \in top .. bottom - 1 : m % M = p) = n
      BY <2>1, <2>2
    <2>4. s[p] = CA_GET(r, n)
      BY <1>4, <2>1, <2>3
    <2>5. QED
      BY <2>4, <2>1, <1>5 DEF CA_GET
  <1>7. QED
    BY <1>1, <1>2, <1>3, <1>5, <1>6

\* What a ring may hold at all: elements put in, and what malloc left there.
HasElts(r) == \A n \in Nat : CA_GET(r, n) \in Elts \cup {Junk}

\* A new ring holds nothing yet.
LEMMA NewHasElts == HasElts(circular_array_new(log_size))
  <1>1. PICK N \in Nat \ {0} : N = 2 ^ log_size
    BY BoundsAssumption
  <1>2. PICK s : s = circular_array_new(log_size) /\ s = [i \in 0 .. N - 1 |-> Junk]
    BY <1>1 DEF circular_array_new
  <1>3. Size(s) = N
    BY <1>2, RingOfSize
  <1>4. QED
    BY <1>2, <1>3, PlaceInRing DEF HasElts, CA_GET

\* CA_SET puts an element among the elements.
LEMMA SetHasElts ==
    ASSUME NEW r, IsRing(r), HasElts(r), NEW idx \in Nat, NEW e \in Elts
    PROVE  HasElts(CA_SET(r, idx, e))
  <1>1. PICK N \in Nat \ {0} : N = Size(r) /\ DOMAIN r = 0 .. N - 1
    BY DEF IsRing
  <1>2. PICK s : s = CA_SET(r, idx, e) /\ Size(s) = N /\ s = [r EXCEPT ![idx % N] = e]
    BY <1>1, SetRing DEF CA_SET
  <1>3. ASSUME NEW n \in Nat PROVE CA_GET(s, n) \in Elts \cup {Junk}
    <2>1. n % N \in 0 .. N - 1
      BY PlaceInRing
    <2>2. r[n % N] \in Elts \cup {Junk}
      BY <1>1 DEF HasElts, CA_GET
    <2>3. QED
      BY <1>1, <1>2, <2>1, <2>2 DEF CA_GET
  <1>4. QED
    BY <1>2, <1>3 DEF HasElts

\* circular_array_resize takes what it copies from the ring it has.
LEMMA ResizedHasElts ==
    ASSUME NEW r, IsRing(r), HasElts(r), NEW bottom \in Nat, NEW top \in Nat,
           bottom - top =< Size(r)
    PROVE  HasElts(circular_array_resize(r, bottom, top))
  <1>1. PICK M \in Nat \ {0} : M = 2 * Size(r)
    BY DEF IsRing
  <1>2. PICK s : s = circular_array_resize(r, bottom, top)
    OBVIOUS
  <1>3. s = [i \in 0 .. M - 1 |->
              IF \E n \in top .. bottom - 1 : n % M = i
              THEN CA_GET(r, CHOOSE n \in top .. bottom - 1 : n % M = i)
              ELSE Junk]
    BY <1>1, <1>2 DEF circular_array_resize, Copied
  <1>4. Size(s) = M
    BY <1>1, <1>2, ResizedRing
  <1>5. ASSUME NEW i \in 0 .. M - 1 PROVE s[i] \in Elts \cup {Junk}
    <2>1. CASE \E n \in top .. bottom - 1 : n % M = i
      <3>1. PICK m : m = (CHOOSE n \in top .. bottom - 1 : n % M = i) /\ m \in top .. bottom - 1
        BY <2>1
      <3>2. s[i] = CA_GET(r, CHOOSE n \in top .. bottom - 1 : n % M = i)
        BY <1>3, <2>1
      <3>3. s[i] = CA_GET(r, m) /\ m \in Nat
        BY <3>1, <3>2
      <3>4. QED
        BY <3>3 DEF HasElts
    <2>2. CASE ~\E n \in top .. bottom - 1 : n % M = i
      BY <1>3, <2>2
    <2>3. QED
      BY <2>1, <2>2
  <1>6. QED
    BY <1>2, <1>4, <1>5, PlaceInRing DEF HasElts, CA_GET

-----------------------------------------------------------------------------

\* The content is a sequence of elements, as long as the indices are apart.
LEMMA ContentSeq ==
    ASSUME NEW r, NEW h \in Nat, NEW t \in Nat, h =< t, \A n \in h .. t - 1 : CA_GET(r, n) \in Elts
    PROVE  Content(r, h, t) \in Seq(Elts) /\ Len(Content(r, h, t)) = t - h
  <1>1. \A i \in 1 .. t - h : CA_GET(r, h + i - 1) \in Elts
    OBVIOUS
  <1>2. QED
    BY <1>1 DEF Content

\* Between an index and itself there is nothing.
LEMMA ContentEmpty ==
    ASSUME NEW r, NEW h \in Nat
    PROVE  Content(r, h, h) = << >>
  BY DEF Content

\* Rings that agree between the indices have the same content.
LEMMA ContentSame ==
    ASSUME NEW r, NEW s, NEW h \in Nat, NEW t \in Nat, \A n \in h .. t - 1 : CA_GET(r, n) = CA_GET(s, n)
    PROVE  Content(r, h, t) = Content(s, h, t)
  <1>1. \A i \in 1 .. t - h : CA_GET(r, h + i - 1) = CA_GET(s, h + i - 1)
    OBVIOUS
  <1>2. QED
    BY <1>1 DEF Content

\* The oldest element is at the first index; without it the rest is the content
\* from the next index on.
LEMMA ContentHead ==
    ASSUME NEW r, NEW h \in Nat, NEW t \in Nat, h < t, \A n \in h .. t - 1 : CA_GET(r, n) \in Elts
    PROVE  /\ Content(r, h, t) # << >>
           /\ Head(Content(r, h, t)) = CA_GET(r, h)
           /\ Tail(Content(r, h, t)) = Content(r, h + 1, t)
  <1>1. PICK c, d : c = Content(r, h, t) /\ d = Content(r, h + 1, t)
    OBVIOUS
  <1>2. /\ c \in Seq(Elts) /\ Len(c) = t - h
        /\ d \in Seq(Elts) /\ Len(d) = t - h - 1
    <2>1. \A n \in h + 1 .. t - 1 : CA_GET(r, n) \in Elts
      OBVIOUS
    <2>2. c \in Seq(Elts) /\ Len(c) = t - h
      BY <1>1, ContentSeq, h =< t
    <2>3. d \in Seq(Elts) /\ Len(d) = t - (h + 1)
      BY <1>1, <2>1, ContentSeq, h + 1 \in Nat, h + 1 =< t
    <2>4. QED
      BY <2>2, <2>3
  <1>3. c # << >> /\ Head(c) = CA_GET(r, h)
    <2>1. c[1] = CA_GET(r, h)
      BY <1>1 DEF Content
    <2>2. QED
      BY <1>2, <2>1
  <1>4. Tail(c) = d
    <2>1. Tail(c) \in Seq(Elts) /\ Len(Tail(c)) = t - h - 1
      BY <1>2, <1>3
    <2>2. \A i \in 1 .. t - h - 1 : Tail(c)[i] = d[i]
      <3>1. SUFFICES ASSUME NEW i \in 1 .. t - h - 1 PROVE Tail(c)[i] = d[i]
        OBVIOUS
      <3>2. Tail(c)[i] = c[i + 1]
        BY <1>2, <1>3
      <3>3. c[i + 1] = CA_GET(r, h + i) 
        <4>1. h + (i + 1) - 1 = h + i /\ i + 1 \in 1 .. t - h
          OBVIOUS
        <4>2. QED
          BY <1>1, <4>1 DEF Content
      <3>4. d[i] = CA_GET(r, h + i)
        <4>1. (h + 1) + i - 1 = h + i /\ i \in 1 .. t - (h + 1)
          OBVIOUS
        <4>2. QED
          BY <1>1, <4>1 DEF Content
      <3>5. QED
        BY <3>2, <3>3, <3>4
    <2>3. QED
      BY <1>2, <2>1, <2>2, SeqEqual
  <1>5. QED
    BY <1>1, <1>3, <1>4

\* One index more at the end is one element more at the end.
LEMMA ContentAppend ==
    ASSUME NEW r, NEW h \in Nat, NEW t \in Nat, h =< t,
           \A n \in h .. t : CA_GET(r, n) \in Elts
    PROVE  Content(r, h, t + 1) = Append(Content(r, h, t), CA_GET(r, t))
  <1>1. PICK c, d : c = Content(r, h, t) /\ d = Content(r, h, t + 1)
    OBVIOUS
  <1>2. /\ c \in Seq(Elts) /\ Len(c) = t - h
        /\ d \in Seq(Elts) /\ Len(d) = t - h + 1
    <2>1. \A n \in h .. t - 1 : CA_GET(r, n) \in Elts
      OBVIOUS
    <2>2. \A n \in h .. (t + 1) - 1 : CA_GET(r, n) \in Elts
      OBVIOUS
    <2>3. c \in Seq(Elts) /\ Len(c) = t - h
      BY <1>1, <2>1, ContentSeq
    <2>4. d \in Seq(Elts) /\ Len(d) = (t + 1) - h
      BY <1>1, <2>2, ContentSeq, t + 1 \in Nat, h =< t + 1
    <2>5. QED
      BY <2>3, <2>4
  <1>3. CA_GET(r, t) \in Elts
    OBVIOUS
  <1>4. /\ Append(c, CA_GET(r, t)) \in Seq(Elts)
        /\ Len(Append(c, CA_GET(r, t))) = t - h + 1
        /\ Append(c, CA_GET(r, t))[t - h + 1] = CA_GET(r, t)
        /\ \A i \in 1 .. t - h : Append(c, CA_GET(r, t))[i] = c[i]
    BY <1>2, <1>3
  <1>5. \A i \in 1 .. t - h : c[i] = d[i]
    BY <1>1 DEF Content
  <1>6. d[t - h + 1] = CA_GET(r, t)
    <2>1. h + (t - h + 1) - 1 = t /\ t - h + 1 \in 1 .. t + 1 - h
      OBVIOUS
    <2>2. QED
      BY <1>1, <2>1 DEF Content
  <1>7. \A i \in 1 .. t - h + 1 : d[i] = Append(c, CA_GET(r, t))[i]
    BY <1>4, <1>5, <1>6
  <1>8. QED
    BY <1>1, <1>2, <1>4, <1>7, SeqEqual

-----------------------------------------------------------------------------
(* tl_queue.c *)

\* The steps of a call between ACQUIRE_LOCK and RELEASE_LOCK.
TlPushLabels == {"push_load", "resize", "replace", "push_store", "push_tail", "push_unlock"}
TlTakeLabels == {"take_load", "take_read", "take_head", "take_unlock"}
TlLabels ==
    TlPushLabels \cup TlTakeLabels \cup {"idle", "exchange", "push_lock", "take_lock", "return"}
TlHolds(t) == l_pc[t] \in TlPushLabels \cup TlTakeLabels

\* The steps at which a thread has a copy of the array's address.
TlLoadedLabels == {"resize", "replace", "push_store", "take_read"}

\* The ring the queue's field array points to.
TlRing == l_memory[l_array]

TlTypes ==
    /\ l_locked \in BOOLEAN
    /\ l_head \in Nat /\ l_tail \in Nat
    /\ l_array \in Nat
    /\ l_buffer \in Elts \cup {None}
    /\ l_arg \in Elts \cup {None}
    /\ l_pc \in [Threads -> TlLabels]
    /\ l_local \in [Threads -> [arr : Nat, head : Nat, tail : Nat, elt : Elts \cup {None, EMPTY}]]

\* The lock is taken by one thread at a time.
TlMutualExclusion ==
    /\ \A t \in Threads : TlHolds(t) => l_locked
    /\ \A t, u \in Threads : TlHolds(t) /\ TlHolds(u) => t = u

\* Arrays are numbered in the order they were allocated; the queue's is the
\* last, what was freed came before it, and who holds the lock knows it.
TlArrayIsCurrent ==
    /\ \A a \in l_freed : a \in Nat /\ a < l_array
    /\ \A t \in Threads : l_pc[t] \in TlLoadedLabels => l_local[t].arr = l_array

\* What a call has in its hands at each of its steps; only the owner pushes.
TlHands ==
    /\ \A t \in Threads :
        l_local[t].elt = None <=> l_pc[t] \notin {"take_head", "take_unlock", "return"}
    /\ \A t \in Threads : l_pc[t] \in TlPushLabels \cup {"exchange", "push_lock"} => t = Owner
    /\ l_arg # None <=>
        l_pc[Owner] \in (TlPushLabels \ {"push_unlock"}) \cup {"exchange", "push_lock"}
    /\ l_pc[Owner] \in TlTakeLabels \cup {"take_lock"} => l_buffer = None

\* The elements between head and tail are in the ring, each in a place of its own.
TlElements ==
    /\ l_array \in DOMAIN l_memory
    /\ IsRing(TlRing)
    /\ l_head =< l_tail
    /\ l_tail - l_head =< Size(TlRing)
    /\ \A n \in l_head .. l_tail - 1 : CA_GET(TlRing, n) \in Elts

\* A push: what it has loaded is what the fields say; the larger ring has the
\* elements of the smaller; the place it writes is free, and has the element
\* before tail says so.
TlPush ==
    /\ l_pc[Owner] \in {"resize", "replace", "push_store", "push_tail"} =>
        l_local[Owner].head = l_head /\ l_local[Owner].tail = l_tail
    /\ l_pc[Owner] = "replace" =>
        /\ l_array + 1 \in DOMAIN l_memory
        /\ IsRing(l_memory[l_array + 1])
        /\ Size(l_memory[l_array + 1]) = 2 * Size(TlRing)
        /\ \A n \in l_head .. l_tail - 1 : CA_GET(l_memory[l_array + 1], n) = CA_GET(TlRing, n)
    /\ l_pc[Owner] \in {"push_store", "push_tail"} => l_tail - l_head < Size(TlRing)
    /\ l_pc[Owner] = "push_tail" => CA_GET(TlRing, l_tail) = l_arg

\* A pop or a steal: the element it has read is the oldest.
TlTake ==
    \A t \in Threads :
        /\ l_pc[t] \in {"take_read", "take_head"} => l_local[t].head = l_head /\ l_head < l_tail
        /\ l_pc[t] = "take_head" => l_local[t].elt = CA_GET(TlRing, l_head)

TlInv ==
    /\ TlTypes /\ TlMutualExclusion /\ TlArrayIsCurrent /\ TlHands
    /\ TlElements /\ TlPush /\ TlTake

\* The operators of CircularArray are the same seen through TlQueue.
LEMMA TlSame ==
    /\ tl!Threads = Threads
    /\ \A r, n, m, e : /\ tl!CA_GET(r, n) = CA_GET(r, n)
                       /\ tl!CA_SET(r, n, e) = CA_SET(r, n, e)
                       /\ tl!Size(r) = Size(r)
                       /\ tl!Allocated(r, n, e) = Allocated(r, n, e)
                       /\ tl!circular_array_resize(r, n, m) = circular_array_resize(r, n, m)
    /\ \A n : tl!circular_array_new(n) = circular_array_new(n)
  <1>1. tl!Threads = Threads
    BY DEF tl!Threads, Threads
  <1>2. \A S : tl!Cardinality(S) = Cardinality(S)
    BY DEF tl!Cardinality, Cardinality
  <1>3. \A r : tl!Size(r) = Size(r)
    BY <1>2 DEF tl!Size, Size
  <1>4. \A r, n : tl!CA_GET(r, n) = CA_GET(r, n)
    BY <1>3 DEF tl!CA_GET, CA_GET
  <1>5. \A r, n, e : tl!CA_SET(r, n, e) = CA_SET(r, n, e)
    BY <1>3 DEF tl!CA_SET, CA_SET
  <1>6. \A r, n, e : tl!Allocated(r, n, e) = Allocated(r, n, e)
    BY DEF tl!Allocated, Allocated
  <1>7. \A r, n, m : tl!circular_array_resize(r, n, m) = circular_array_resize(r, n, m)
    BY <1>3, <1>4, ZenonT(30) DEF tl!circular_array_resize, circular_array_resize, tl!Copied, Copied
  <1>8. \A n : tl!circular_array_new(n) = circular_array_new(n)
    BY DEF tl!circular_array_new, circular_array_new
  <1>9. QED
    BY <1>1, <1>3, <1>4, <1>5, <1>6, <1>7, <1>8

\* tl_queue_init leaves the lock free and the array allocated.
LEMMA TlInitInv == tl!Init => TlInv
  <1> SUFFICES ASSUME tl!Init PROVE TlInv
    OBVIOUS
  <1>o. Owner \in Threads
    BY DEF Threads
  <1>1. /\ l_locked = FALSE /\ l_head = 0 /\ l_tail = 0 /\ l_buffer = None /\ l_array = 0
        /\ l_memory = [a \in {0} |-> circular_array_new(log_size)]
        /\ l_freed = {} /\ l_arg = None
        /\ l_pc = [t \in Threads |-> "idle"]
        /\ l_local = [t \in Threads |-> [arr |-> 0, head |-> 0, tail |-> 0, elt |-> None]]
    BY TlSame DEF tl!Init, tl!NoLocals
  <1>2. TlTypes
    BY <1>1 DEF TlTypes, TlLabels
  <1>3. TlMutualExclusion /\ TlArrayIsCurrent /\ TlHands
    BY <1>1, <1>o DEF TlMutualExclusion, TlArrayIsCurrent, TlHands, TlHolds, TlPushLabels,
         TlTakeLabels, TlLoadedLabels
  <1>4. TlElements
    <2>1. TlRing = circular_array_new(log_size) /\ l_array \in DOMAIN l_memory
      BY <1>1 DEF TlRing
    <2>2. IsRing(TlRing)
      BY <2>1, NewRing
    <2>3. Size(TlRing) \in Nat
      BY <2>2 DEF IsRing
    <2>4. QED
      BY <1>1, <2>1, <2>2, <2>3 DEF TlElements
  <1>5. TlPush /\ TlTake
    BY <1>1, <1>o DEF TlPush, TlTake
  <1>6. QED
    BY <1>2, <1>3, <1>4, <1>5 DEF TlInv

\* Loading the fields leaves a thread with a copy of each.
LEMMA TlLoaded ==
    ASSUME NEW t \in Threads, TlTypes, tl!Load(t)
    PROVE  \E l \in [arr : Nat, head : Nat, tail : Nat, elt : Elts \cup {None, EMPTY}] :
            /\ l_local' = [l_local EXCEPT ![t] = l]
            /\ l.arr = l_array /\ l.head = l_head /\ l.tail = l_tail
            /\ l.elt = l_local[t].elt
  <1>1. l_local[t] \in [arr : Nat, head : Nat, tail : Nat, elt : Elts \cup {None, EMPTY}]
        /\ l_array \in Nat /\ l_head \in Nat /\ l_tail \in Nat
    BY DEF TlTypes
  <1>2. PICK l : l = [l_local[t] EXCEPT !.arr = l_array, !.head = l_head, !.tail = l_tail]
    OBVIOUS
  <1>3. /\ l \in [arr : Nat, head : Nat, tail : Nat, elt : Elts \cup {None, EMPTY}]
        /\ l.arr = l_array /\ l.head = l_head /\ l.tail = l_tail /\ l.elt = l_local[t].elt
    BY <1>1, <1>2
  <1>4. l_local' = [l_local EXCEPT ![t] = l]
    BY <1>2 DEF tl!Load, TlTypes
  <1>5. QED
    BY <1>3, <1>4

\* One step of any thread, and the stuttering step.
LEMMA TlStepInv == TlInv /\ [tl!Next]_tlVars => TlInv'
  <1> SUFFICES ASSUME TlInv, [tl!Next]_tlVars PROVE TlInv'
    OBVIOUS
  <1> USE DEF TlInv, tl!Goto, tl!fields, tl!NoLocals, TlRing
  <1>o. Owner \in Threads /\ Thieves \subseteq Threads /\ Owner \notin Thieves
        /\ None \notin Elts /\ EMPTY \notin Elts /\ None # EMPTY
    BY ThreadsAssumption, EltsAssumption DEF Threads
  <1>n. Size(TlRing) \in Nat \ {0} /\ l_tail \in Nat /\ l_head \in Nat
    BY DEF TlElements, IsRing, TlTypes
  <1>c. TlTypes /\ TlMutualExclusion /\ TlArrayIsCurrent /\ TlHands
    OBVIOUS
  <1>d. TlElements /\ TlPush /\ TlTake
    OBVIOUS
  <1>1. ASSUME NEW e \in Elts, tl!CallPush(e) \/ tl!CallPriorityPush(e) PROVE TlInv'
    <2>1. TlTypes' /\ TlMutualExclusion' /\ TlArrayIsCurrent' /\ TlHands'
      BY <1>1, <1>o, <1>c DEF tl!CallPush, tl!CallPriorityPush, TlTypes, TlMutualExclusion,
         TlArrayIsCurrent, TlHands, TlHolds, TlLabels, TlPushLabels, TlTakeLabels, TlLoadedLabels
    <2>2. TlElements' /\ TlPush' /\ TlTake'
      BY <1>1, <1>o, <1>c, <1>d DEF tl!CallPush, tl!CallPriorityPush, TlTypes, TlElements, TlPush, TlTake
    <2>3. QED
      BY <2>1, <2>2
  <1>2. CASE tl!CallPop
    <2>1. TlTypes' /\ TlMutualExclusion' /\ TlArrayIsCurrent' /\ TlHands'
      BY <1>2, <1>o, <1>c, SMTT(30) DEF tl!CallPop, TlTypes, TlMutualExclusion,
         TlArrayIsCurrent, TlHands, TlHolds, TlLabels, TlPushLabels, TlTakeLabels, TlLoadedLabels
    <2>2. TlElements' /\ TlPush' /\ TlTake'
      BY <1>2, <1>o, <1>c, <1>d DEF tl!CallPop, TlTypes, TlElements, TlPush, TlTake
    <2>3. QED
      BY <2>1, <2>2
  <1>3. ASSUME NEW t \in Threads, tl!CallSteal(t) PROVE TlInv'
    <2>1. TlTypes' /\ TlMutualExclusion' /\ TlArrayIsCurrent' /\ TlHands'
      BY <1>3, <1>o, <1>c DEF tl!CallSteal, TlTypes, TlMutualExclusion,
         TlArrayIsCurrent, TlHands, TlHolds, TlLabels, TlPushLabels, TlTakeLabels, TlLoadedLabels
    <2>2. TlElements' /\ TlPush' /\ TlTake'
      BY <1>3, <1>o, <1>c, <1>d DEF tl!CallSteal, TlTypes, TlElements, TlPush, TlTake
    <2>3. QED
      BY <2>1, <2>2
  <1>4. CASE tl!Exchange
    <2>1. TlTypes' /\ TlMutualExclusion' /\ TlArrayIsCurrent' /\ TlHands'
      BY <1>4, <1>o, <1>c DEF tl!Exchange, TlTypes, TlMutualExclusion,
         TlArrayIsCurrent, TlHands, TlHolds, TlLabels, TlPushLabels, TlTakeLabels, TlLoadedLabels
    <2>2. TlElements' /\ TlPush' /\ TlTake'
      BY <1>4, <1>o, <1>c, <1>d DEF tl!Exchange, TlTypes, TlElements, TlPush, TlTake
    <2>3. QED
      BY <2>1, <2>2
  <1>5. CASE tl!PushLock
    <2>1. TlTypes' /\ TlMutualExclusion' /\ TlArrayIsCurrent' /\ TlHands'
      BY <1>5, <1>o, <1>c DEF tl!PushLock, tl!ACQUIRE_LOCK, TlTypes, TlMutualExclusion,
         TlArrayIsCurrent, TlHands, TlHolds, TlLabels, TlPushLabels, TlTakeLabels, TlLoadedLabels
    <2>2. TlElements' /\ TlPush' /\ TlTake'
      BY <1>5, <1>o, <1>c, <1>d DEF tl!PushLock, tl!ACQUIRE_LOCK, TlTypes, TlElements, TlPush, TlTake
    <2>3. QED
      BY <2>1, <2>2
  <1>6. CASE tl!PushLoad
    <2>0. PICK l \in [arr : Nat, head : Nat, tail : Nat, elt : Elts \cup {None, EMPTY}] :
            /\ l_local' = [l_local EXCEPT ![Owner] = l]
            /\ l.arr = l_array /\ l.head = l_head /\ l.tail = l_tail
            /\ l.elt = l_local[Owner].elt
      BY <1>6, <1>c, <1>o, TlLoaded DEF tl!PushLoad
    <2>1. TlTypes' /\ TlMutualExclusion' /\ TlArrayIsCurrent' /\ TlHands'
      BY <1>6, <2>0, <1>o, <1>c DEF tl!PushLoad, TlTypes, TlMutualExclusion,
         TlArrayIsCurrent, TlHands, TlHolds, TlLabels, TlPushLabels, TlTakeLabels, TlLoadedLabels
    <2>2. TlElements' /\ TlPush' /\ TlTake'
      BY <1>6, <2>0, <1>o, <1>n, <1>c, <1>d, TlSame DEF tl!PushLoad, tl!Full, TlTypes, TlElements, TlPush, TlTake
    <2>3. QED
      BY <2>1, <2>2
  <1>7. CASE tl!Resize
    <2>1. TlTypes' /\ TlMutualExclusion' /\ TlArrayIsCurrent' /\ TlHands'
      BY <1>7, <1>o, <1>c DEF tl!Resize, TlTypes, TlMutualExclusion,
         TlArrayIsCurrent, TlHands, TlHolds, TlLabels, TlPushLabels, TlTakeLabels, TlLoadedLabels
    <2>2. PICK s : s = circular_array_resize(TlRing, l_tail, l_head)
      OBVIOUS
    <2>3. IsRing(s) /\ Size(s) = 2 * Size(TlRing)
          /\ \A n \in l_head .. l_tail - 1 : CA_GET(s, n) = CA_GET(TlRing, n)
      BY <2>2, <1>n, ResizedRing DEF TlElements
    <2>4. /\ DOMAIN l_memory' = DOMAIN l_memory \cup {l_array + 1}
          /\ l_memory'[l_array + 1] = s
          /\ l_memory'[l_array] = l_memory[l_array]
          /\ UNCHANGED <<l_head, l_tail, l_array, l_local, l_arg>>
          /\ l_pc' = [l_pc EXCEPT ![Owner] = "replace"] /\ l_pc[Owner] = "resize"
      <3>1. l_local[Owner].arr = l_array /\ l_local[Owner].head = l_head /\ l_local[Owner].tail = l_tail
        BY <1>7, <1>c, <1>d, <1>o DEF tl!Resize, TlArrayIsCurrent, TlPush, TlLoadedLabels
      <3>2. l_memory' = Allocated(l_memory, l_array + 1, s)
        BY <1>7, <2>2, <3>1, TlSame DEF tl!Resize
      <3>3. l_array + 1 # l_array /\ l_array \in DOMAIN l_memory
        BY <1>c, <1>d DEF TlTypes, TlElements
      <3>4. QED
        BY <1>7, <3>2, <3>3 DEF tl!Resize, Allocated
    <2>5. TlElements' /\ TlPush' /\ TlTake'
      BY <2>3, <2>4, <1>o, <1>n, <1>c, <1>d DEF TlTypes, TlElements, TlPush, TlTake
    <2>6. QED
      BY <2>1, <2>5
  <1>8. CASE tl!Replace
    <2>1. TlTypes' /\ TlMutualExclusion' /\ TlArrayIsCurrent' /\ TlHands'
      BY <1>8, <1>o, <1>c DEF tl!Replace, TlTypes, TlMutualExclusion,
         TlArrayIsCurrent, TlHands, TlHolds, TlLabels, TlPushLabels, TlTakeLabels, TlLoadedLabels
    <2>2. /\ l_pc[Owner] = "replace" /\ l_array' = l_array + 1
          /\ UNCHANGED <<l_head, l_tail, l_memory, l_arg>>
          /\ l_pc' = [l_pc EXCEPT ![Owner] = "push_store"]
          /\ l_local' = [l_local EXCEPT ![Owner].arr = l_array + 1]
      BY <1>8 DEF tl!Replace
    <2>3. TlElements' /\ TlPush'
      BY <2>2, <1>o, <1>n, <1>c, <1>d DEF TlTypes, TlElements, TlPush
    <2>4. \A t \in Threads : l_pc'[t] \notin {"take_read", "take_head"}
      BY <2>2, <1>o, <1>c DEF TlTypes, TlMutualExclusion, TlHolds, TlPushLabels, TlTakeLabels
    <2>5. TlTake'
      BY <2>4 DEF TlTake
    <2>6. QED
      BY <2>1, <2>3, <2>5
  <1>9. CASE tl!PushStore
    <2>1. TlTypes' /\ TlMutualExclusion' /\ TlArrayIsCurrent' /\ TlHands'
      BY <1>9, <1>o, <1>c DEF tl!PushStore, TlTypes, TlMutualExclusion,
         TlArrayIsCurrent, TlHands, TlHolds, TlLabels, TlPushLabels, TlTakeLabels, TlLoadedLabels
    <2>2. PICK s : s = CA_SET(TlRing, l_tail, l_arg)
      OBVIOUS
    <2>3. l_pc[Owner] = "push_store" /\ l_tail - l_head < Size(TlRing)
      BY <1>9, <1>d DEF tl!PushStore, TlPush
    <2>4. IsRing(s) /\ Size(s) = Size(TlRing) /\ CA_GET(s, l_tail) = l_arg
          /\ \A n \in l_head .. l_tail - 1 : CA_GET(s, n) = CA_GET(TlRing, n)
      <3>1. IsRing(TlRing) /\ l_tail \in Nat
        BY <1>c, <1>d DEF TlElements, TlTypes
      <3>2. \A n \in l_head .. l_tail - 1 : n \in Nat /\ n # l_tail /\ n - l_tail < Size(TlRing)
                                            /\ l_tail - n < Size(TlRing)
        BY <1>n, <2>3
      <3>3. QED
        BY <2>2, <3>1, <3>2, SetRing
    <2>5. /\ DOMAIN l_memory' = DOMAIN l_memory
          /\ l_memory'[l_array] = s
          /\ UNCHANGED <<l_head, l_tail, l_array, l_local, l_arg>>
          /\ l_pc' = [l_pc EXCEPT ![Owner] = "push_tail"]
      <3>1. l_local[Owner].arr = l_array /\ l_local[Owner].head = l_head /\ l_local[Owner].tail = l_tail
        BY <1>9, <1>c, <1>d, <1>o DEF tl!PushStore, TlArrayIsCurrent, TlPush, TlLoadedLabels
      <3>2. l_memory' = [l_memory EXCEPT ![l_array] = s]
        BY <1>9, <2>2, <3>1, TlSame DEF tl!PushStore
      <3>3. l_array \in DOMAIN l_memory
        BY <1>d DEF TlElements
      <3>4. QED
        BY <1>9, <3>2, <3>3 DEF tl!PushStore
    <2>6. TlElements' /\ TlPush'
      BY <2>3, <2>4, <2>5, <1>o, <1>n, <1>c, <1>d DEF TlTypes, TlElements, TlPush
    <2>7. \A t \in Threads : l_pc'[t] \notin {"take_read", "take_head"}
      BY <2>3, <2>5, <1>o, <1>c DEF TlTypes, TlMutualExclusion, TlHolds, TlPushLabels, TlTakeLabels
    <2>8. TlTake'
      BY <2>7 DEF TlTake
    <2>9. QED
      BY <2>1, <2>6, <2>8
  <1>10. CASE tl!PushTail
    <2>0. /\ l_pc[Owner] = "push_tail" /\ l_local[Owner].tail = l_tail
          /\ l_tail' = l_tail + 1 /\ l_arg' = None
          /\ l_pc' = [l_pc EXCEPT ![Owner] = "push_unlock"]
          /\ UNCHANGED <<l_locked, l_head, l_buffer, l_array, l_memory, l_freed, l_local>>
      BY <1>10, <1>d DEF tl!PushTail, TlPush
    <2>1. TlTypes' /\ TlMutualExclusion' /\ TlArrayIsCurrent' /\ TlHands'
      BY <2>0, <1>o, <1>c DEF TlTypes, TlMutualExclusion,
         TlArrayIsCurrent, TlHands, TlHolds, TlLabels, TlPushLabels, TlTakeLabels, TlLoadedLabels
    <2>2. l_arg \in Elts
      BY <2>0, <1>c DEF TlTypes, TlHands, TlPushLabels
    <2>3. l_tail - l_head < Size(TlRing) /\ CA_GET(TlRing, l_tail) = l_arg
      BY <2>0, <1>d DEF TlPush
    <2>4. TlElements'
      BY <2>0, <2>2, <2>3, <1>n, <1>d DEF TlElements
    <2>5. TlPush'
      BY <2>0, <1>o, <1>c DEF TlPush, TlTypes
    <2>6. \A t \in Threads : l_pc'[t] \notin {"take_read", "take_head"}
      BY <2>0, <1>o, <1>c DEF TlTypes, TlMutualExclusion, TlHolds, TlPushLabels, TlTakeLabels
    <2>7. TlTake'
      BY <2>6 DEF TlTake
    <2>8. QED
      BY <2>1, <2>4, <2>5, <2>7
  <1>11. ASSUME NEW t \in Threads, tl!TakeLock(t) PROVE TlInv'
    <2>1. TlTypes' /\ TlMutualExclusion' /\ TlArrayIsCurrent' /\ TlHands'
      BY <1>11, <1>o, <1>c DEF tl!TakeLock, tl!ACQUIRE_LOCK, TlTypes, TlMutualExclusion,
         TlArrayIsCurrent, TlHands, TlHolds, TlLabels, TlPushLabels, TlTakeLabels, TlLoadedLabels
    <2>2. TlElements' /\ TlPush' /\ TlTake'
      BY <1>11, <1>o, <1>c, <1>d DEF tl!TakeLock, tl!ACQUIRE_LOCK, TlTypes, TlElements, TlPush, TlTake
    <2>3. QED
      BY <2>1, <2>2
  <1>12. ASSUME NEW t \in Threads, tl!TakeLoad(t) PROVE TlInv'
    <2>0. PICK l \in [arr : Nat, head : Nat, tail : Nat, elt : Elts \cup {None, EMPTY}], next \in TlLabels :
            /\ l_local' = [l_local EXCEPT ![t] = l]
            /\ l_pc' = [l_pc EXCEPT ![t] = next]
            /\ \/ l.elt = EMPTY /\ next = "take_unlock"
               \/ /\ l.arr = l_array /\ l.head = l_head
                  /\ l.elt = l_local[t].elt /\ next = "take_read" /\ l_head # l_tail
      <3>1. CASE l_head = l_tail
        <4>1. l_local[t] \in [arr : Nat, head : Nat, tail : Nat, elt : Elts \cup {None, EMPTY}]
          BY <1>c DEF TlTypes
        <4>2. PICK l : l = [l_local[t] EXCEPT !.elt = EMPTY]
          OBVIOUS
        <4>3. l \in [arr : Nat, head : Nat, tail : Nat, elt : Elts \cup {None, EMPTY}] /\ l.elt = EMPTY
          BY <4>1, <4>2
        <4>4. l_local' = [l_local EXCEPT ![t] = l] /\ l_pc' = [l_pc EXCEPT ![t] = "take_unlock"]
          BY <1>12, <3>1, <4>2, <1>c DEF tl!TakeLoad, TlTypes
        <4>5. QED
          BY <4>3, <4>4 DEF TlLabels, TlTakeLabels
      <3>2. CASE l_head # l_tail
        <4>1. PICK l \in [arr : Nat, head : Nat, tail : Nat, elt : Elts \cup {None, EMPTY}] :
                /\ l_local' = [l_local EXCEPT ![t] = l]
                /\ l.arr = l_array /\ l.head = l_head /\ l.tail = l_tail
                /\ l.elt = l_local[t].elt
          BY <1>12, <3>2, <1>c, TlLoaded DEF tl!TakeLoad
        <4>2. l_pc' = [l_pc EXCEPT ![t] = "take_read"]
          BY <1>12, <3>2 DEF tl!TakeLoad
        <4>3. QED
          BY <3>2, <4>1, <4>2 DEF TlLabels, TlTakeLabels
      <3>3. QED
        BY <3>1, <3>2
    <2>a. /\ l_pc[t] = "take_load"
          /\ UNCHANGED <<l_locked, l_head, l_tail, l_buffer, l_array, l_memory, l_freed, l_arg>>
      BY <1>12 DEF tl!TakeLoad
    <2>1. TlTypes' /\ TlMutualExclusion' /\ TlArrayIsCurrent' /\ TlHands'
      BY <2>0, <2>a, <1>o, <1>c DEF TlTypes, TlMutualExclusion,
         TlArrayIsCurrent, TlHands, TlHolds, TlLabels, TlPushLabels, TlTakeLabels, TlLoadedLabels
    <2>2. TlElements' /\ TlPush' /\ TlTake'
      BY <2>0, <2>a, <1>o, <1>n, <1>c, <1>d DEF TlTypes, TlElements, TlPush, TlTake, TlHolds,
         TlTakeLabels, TlMutualExclusion, TlPushLabels
    <2>3. QED
      BY <2>1, <2>2
  <1>13. ASSUME NEW t \in Threads, tl!TakeRead(t) PROVE TlInv'
    <2>0. PICK x \in Elts :
            /\ x = CA_GET(TlRing, l_head)
            /\ l_local' = [l_local EXCEPT ![t].elt = x]
      <3>1. l_local[t].arr = l_array /\ l_local[t].head = l_head /\ l_head < l_tail
        BY <1>13, <1>c, <1>d DEF tl!TakeRead, TlTake, TlArrayIsCurrent, TlLoadedLabels
      <3>2. CA_GET(TlRing, l_head) \in Elts
        BY <3>1, <1>n, <1>d DEF TlElements
      <3>3. l_local' = [l_local EXCEPT ![t].elt = CA_GET(TlRing, l_head)]
        BY <1>13, <3>1, TlSame DEF tl!TakeRead
      <3>4. QED
        BY <3>2, <3>3
    <2>1. TlTypes' /\ TlMutualExclusion' /\ TlArrayIsCurrent' /\ TlHands'
      BY <1>13, <2>0, <1>o, <1>c DEF tl!TakeRead, TlTypes, TlMutualExclusion,
         TlArrayIsCurrent, TlHands, TlHolds, TlLabels, TlPushLabels, TlTakeLabels, TlLoadedLabels
    <2>2. TlElements' /\ TlPush' /\ TlTake'
      BY <1>13, <2>0, <1>o, <1>c, <1>d DEF tl!TakeRead, TlTypes, TlElements, TlPush, TlTake
    <2>3. QED
      BY <2>1, <2>2
  <1>14. ASSUME NEW t \in Threads, tl!TakeHead(t) PROVE TlInv'
    <2>0. /\ l_pc[t] = "take_head" /\ l_head < l_tail
          /\ l_head' = l_head + 1 /\ l_pc' = [l_pc EXCEPT ![t] = "take_unlock"]
          /\ UNCHANGED <<l_locked, l_tail, l_buffer, l_array, l_memory, l_freed, l_arg, l_local>>
      BY <1>14, <1>d DEF tl!TakeHead, TlTake
    <2>1. TlTypes' /\ TlMutualExclusion' /\ TlArrayIsCurrent' /\ TlHands'
      BY <2>0, <1>o, <1>c DEF TlTypes, TlMutualExclusion,
         TlArrayIsCurrent, TlHands, TlHolds, TlLabels, TlPushLabels, TlTakeLabels, TlLoadedLabels
    <2>2. TlElements'
      BY <2>0, <1>n, <1>d DEF TlElements
    <2>3. \A u \in Threads : l_pc'[u] \notin
            {"take_read", "take_head", "resize", "replace", "push_store", "push_tail"}
      BY <2>0, <1>o, <1>c DEF TlTypes, TlMutualExclusion, TlHolds, TlPushLabels, TlTakeLabels
    <2>4. TlPush' /\ TlTake'
      BY <2>3, <1>o DEF TlPush, TlTake
    <2>5. QED
      BY <2>1, <2>2, <2>4
  <1>15. ASSUME NEW t \in Threads, tl!Return(t) PROVE TlInv'
    <2>1. TlTypes' /\ TlMutualExclusion' /\ TlArrayIsCurrent' /\ TlHands'
      BY <1>15, <1>o, <1>c DEF tl!Return, TlTypes, TlMutualExclusion,
         TlArrayIsCurrent, TlHands, TlHolds, TlLabels, TlPushLabels, TlTakeLabels, TlLoadedLabels
    <2>2. TlElements' /\ TlPush' /\ TlTake'
      BY <1>15, <1>o, <1>c, <1>d DEF tl!Return, TlTypes, TlElements, TlPush, TlTake
    <2>3. QED
      BY <2>1, <2>2
  <1>16. ASSUME NEW t \in Threads, tl!RELEASE_LOCK(t) PROVE TlInv'
    <2>1. TlTypes' /\ TlMutualExclusion' /\ TlArrayIsCurrent' /\ TlHands'
      BY <1>16, <1>o, <1>c, ZenonT(30) DEF tl!RELEASE_LOCK, TlTypes, TlMutualExclusion,
         TlArrayIsCurrent, TlHands, TlHolds, TlLabels, TlPushLabels, TlTakeLabels, TlLoadedLabels
    <2>2. TlElements' /\ TlPush' /\ TlTake'
      BY <1>16, <1>o, <1>c, <1>d DEF tl!RELEASE_LOCK, TlTypes, TlElements, TlPush, TlTake
    <2>3. QED
      BY <2>1, <2>2
  <1>17. CASE UNCHANGED tlVars
    BY <1>17, <1>c, <1>d DEF tlVars, TlTypes, TlMutualExclusion, TlArrayIsCurrent, TlHands,
       TlHolds, TlElements, TlPush, TlTake
  <1>18. QED
    BY <1>1, <1>2, <1>3, <1>4, <1>5, <1>6, <1>7, <1>8, <1>9, <1>10, <1>11, <1>12,
       <1>13, <1>14, <1>15, <1>16, <1>17, TlSame DEF tl!Next, tl!Step, tl!PushStep, tl!TakeStep

-----------------------------------------------------------------------------
(* tl_queue.c behaves as one atomic queue *)

\* What the refinement mapping of TlQueue makes of its state.
LEMMA TlMapped ==
    /\ tl!Items = Content(TlRing, l_head, l_tail)
    /\ \A t \in Threads : tl!Hand(t) = IF l_pc[t] = "take_head" THEN None ELSE l_local[t].elt
  BY TlSame DEF tl!Items, Content, TlRing, tl!Hand

\* The same of the next state.
LEMMA TlMappedNext ==
    /\ tl!Items' = Content(TlRing', l_head', l_tail')
    /\ \A t \in Threads : tl!Hand(t)' = IF l_pc'[t] = "take_head" THEN None ELSE l_local'[t].elt
  BY TlSame DEF tl!Items, Content, TlRing, tl!Hand

\* tl_queue_init maps to the empty queue.
LEMMA TlInitMapped == tl!Init => tl!Abstract!Init
  <1> SUFFICES ASSUME tl!Init PROVE tl!Abstract!Init
    OBVIOUS
  <1>1. tl!Items = << >>
    BY TlMapped, ContentEmpty, 0 \in Nat DEF tl!Init
  <1>2. \A t \in Threads : tl!Hand(t) = None
    BY TlMapped DEF tl!Init, tl!NoLocals, tl!Threads, Threads
  <1>3. QED
    BY <1>1, <1>2, TlSame DEF tl!Init, tl!Abstract!Init

\* A step that the fields, the elements between them and the hands do not show.
LEMMA TlStutters ==
    ASSUME UNCHANGED <<l_buffer, l_arg, tl!Items>>, \A t \in Threads : tl!Hand(t)' = tl!Hand(t)
    PROVE  UNCHANGED tl!Abstract!queueVars
  BY TlSame DEF tl!Abstract!queueVars

\* A step of one thread changes the hand of no other.
LEMMA TlHandChanged ==
    ASSUME NEW t \in Threads, NEW e, tl!Hand(t)' = e,
           \A u \in Threads \ {t} : tl!Hand(u)' = tl!Hand(u)
    PROVE  tl!Abstract!Hold(t, e)
  BY TlSame DEF tl!Abstract!Hold

\* Steps that leave head, tail, the array and the ring alone leave the elements alone.
LEMMA TlItemsSame ==
    ASSUME UNCHANGED <<l_head, l_tail, TlRing>>
    PROVE  UNCHANGED tl!Items
  BY TlMapped, TlMappedNext

\* Each step is a step of the atomic queue, or changes nothing of it: a push
\* puts its element in when tail is stored, a pop or a steal takes it out when
\* head is, or finds the queue empty when it has loaded both.
LEMMA TlStepMapped ==
    TlInv /\ TlInv' /\ [tl!Next]_tlVars => [tl!Abstract!Next]_(tl!Abstract!queueVars)
  <1> SUFFICES ASSUME TlInv, TlInv', [tl!Next]_tlVars
               PROVE  [tl!Abstract!Next]_(tl!Abstract!queueVars)
    OBVIOUS
  <1> USE DEF tl!Goto, tl!fields, tl!NoLocals
  <1>o. Owner \in Threads /\ Thieves \subseteq Threads /\ Owner \notin Thieves
        /\ None \notin Elts /\ EMPTY \notin Elts /\ None # EMPTY
    BY ThreadsAssumption, EltsAssumption DEF Threads
  <1>t. TlTypes
    BY DEF TlInv
  <1>n. Size(TlRing) \in Nat \ {0} /\ l_tail \in Nat /\ l_head \in Nat /\ l_head =< l_tail
    BY DEF TlInv, TlElements, IsRing, TlTypes
  <1>1. ASSUME NEW e \in Elts, tl!CallPush(e) \/ tl!CallPriorityPush(e)
        PROVE  tl!Abstract!Offer(e)
    <2>1. /\ l_pc[Owner] = "idle" /\ l_arg = None /\ l_buffer # e
          /\ \A t \in Threads : l_local[t].elt # e
          /\ \A n \in l_head .. l_tail - 1 : CA_GET(TlRing, n) # e
      BY <1>1, <1>o, TlSame DEF TlInv, TlHands, TlPushLabels, tl!CallPush, tl!CallPriorityPush,
         tl!Outside, TlRing
    <2>2. /\ l_arg' = e /\ UNCHANGED <<l_head, l_tail, l_buffer, l_array, l_memory, l_local>>
          /\ \E l \in {"push_lock", "exchange"} : l_pc' = [l_pc EXCEPT ![Owner] = l]
      BY <1>1 DEF tl!CallPush, tl!CallPriorityPush
    <2>3. UNCHANGED tl!Items
      BY <2>2, TlItemsSame DEF TlRing
    <2>4. \A t \in Threads : tl!Hand(t)' = tl!Hand(t) /\ tl!Hand(t) # e
      BY <2>1, <2>2, <1>o, <1>t, TlMapped, TlMappedNext DEF TlTypes
    <2>5. tl!Hand(Owner) = None
      BY <2>1, <1>o, TlMapped DEF TlInv, TlHands
    <2>6. \A i \in DOMAIN tl!Items : tl!Items[i] # e
      <3>1. \A i \in 1 .. l_tail - l_head : l_head + i - 1 \in l_head .. l_tail - 1
        BY <1>n
      <3>2. QED
        BY <2>1, <3>1, TlMapped DEF Content
    <2>7. QED
      BY <2>1, <2>2, <2>3, <2>4, <2>5, <2>6, <1>o, TlSame DEF tl!Abstract!Offer
  <1>2. CASE tl!CallPop
    <2>1. l_pc[Owner] = "idle" /\ l_arg = None /\ tl!Hand(Owner) = None
      BY <1>2, <1>o, TlMapped DEF TlInv, TlHands, TlPushLabels, tl!CallPop
    <2>2. UNCHANGED tl!Items
      BY <1>2, TlItemsSame DEF TlRing, tl!CallPop
    <2>3. CASE l_buffer # None
      <3>1. tl!Abstract!Hold(Owner, l_buffer)
        <4>1. tl!Hand(Owner)' = l_buffer /\ \A u \in Threads \ {Owner} : tl!Hand(u)' = tl!Hand(u)
          BY <1>2, <2>3, <1>o, <1>t, TlMapped, TlMappedNext DEF tl!CallPop, TlTypes
        <4>2. QED
          BY <4>1, <1>o, TlHandChanged
      <3>2. QED
        BY <1>2, <2>1, <2>2, <2>3, <3>1, <1>o, TlSame DEF tl!CallPop, tl!Abstract!TakeSlot, tl!Abstract!Next
    <2>4. CASE l_buffer = None
      <3>1. \A t \in Threads : tl!Hand(t)' = tl!Hand(t)
        BY <1>2, <2>4, <1>o, <1>t, TlMapped, TlMappedNext DEF tl!CallPop, TlTypes
      <3>2. QED
        BY <1>2, <2>2, <2>4, <3>1, TlStutters DEF tl!CallPop
    <2>5. QED
      BY <2>3, <2>4
  <1>3. CASE tl!Exchange
    <2>1. l_arg # None
      BY <1>3 DEF TlInv, TlHands, tl!Exchange
    <2>2. UNCHANGED tl!Items
      BY <1>3, TlItemsSame DEF TlRing, tl!Exchange
    <2>3. \A t \in Threads : tl!Hand(t)' = tl!Hand(t)
      BY <1>3, <1>o, <1>t, TlMapped, TlMappedNext DEF tl!Exchange, TlTypes
    <2>4. QED
      BY <1>3, <2>1, <2>2, <2>3, TlSame DEF tl!Exchange, tl!Abstract!Exchange, tl!Abstract!Next
  <1>4. CASE tl!PushStore
    <2>1. l_pc[Owner] = "push_store" /\ l_tail - l_head < Size(TlRing)
      BY <1>4 DEF tl!PushStore, TlInv, TlPush
    <2>2. TlRing' = CA_SET(TlRing, l_tail, l_arg) /\ UNCHANGED <<l_head, l_tail, l_array>>
      BY <1>4, <1>o, TlSame DEF TlRing, tl!PushStore, TlInv, TlPush, TlArrayIsCurrent, TlLoadedLabels,
         TlElements
    <2>3. \A n \in l_head .. l_tail - 1 : n \in Nat /\ n # l_tail /\ n - l_tail < Size(TlRing)
                                          /\ l_tail - n < Size(TlRing)
      BY <1>n, <2>1
    <2>4. \A n \in l_head .. l_tail - 1 : CA_GET(TlRing', n) = CA_GET(TlRing, n)
      BY <2>2, <2>3, <1>n, SetRing DEF TlInv, TlElements
    <2>5. UNCHANGED tl!Items
      BY <2>2, <2>4, <1>n, TlMapped, TlMappedNext, ContentSame
    <2>6. \A t \in Threads : tl!Hand(t)' = tl!Hand(t)
      BY <1>4, <1>o, <1>t, TlMapped, TlMappedNext DEF tl!PushStore, TlTypes
    <2>7. QED
      BY <1>4, <2>5, <2>6, TlStutters DEF tl!PushStore
  <1>5. CASE tl!PushTail
    <2>1. /\ l_pc[Owner] = "push_tail" /\ l_tail' = l_tail + 1 /\ CA_GET(TlRing, l_tail) = l_arg
          /\ l_arg \in Elts
      BY <1>5, <1>o, <1>t DEF tl!PushTail, TlInv, TlPush, TlHands, TlTypes, TlPushLabels
    <2>2. \A n \in l_head .. l_tail : CA_GET(TlRing, n) \in Elts
      BY <2>1, <1>n DEF TlInv, TlElements
    <2>3. tl!Items' = Append(tl!Items, l_arg)
      <3>1. UNCHANGED <<l_head, TlRing>>
        BY <1>5 DEF tl!PushTail, TlRing
      <3>2. QED
        <4>1. Content(TlRing, l_head, l_tail + 1)
                = Append(Content(TlRing, l_head, l_tail), CA_GET(TlRing, l_tail))
          BY <2>2, <1>n, ContentAppend
        <4>2. QED
          BY <2>1, <3>1, <4>1, TlMapped, TlMappedNext
    <2>4. \A t \in Threads : tl!Hand(t)' = tl!Hand(t)
      BY <1>5, <1>o, <1>t, TlMapped, TlMappedNext DEF tl!PushTail, TlTypes
    <2>5. QED
      BY <1>5, <1>o, <2>1, <2>3, <2>4, TlSame DEF tl!PushTail, tl!Abstract!Put, tl!Abstract!Next
  <1>6. CASE tl!Replace
    <2>1. /\ UNCHANGED <<l_head, l_tail, l_buffer, l_arg>>
          /\ \A n \in l_head .. l_tail - 1 : CA_GET(TlRing, n) = CA_GET(TlRing', n)
      BY <1>6, <1>o DEF tl!Replace, TlInv, TlPush, TlRing
    <2>2. UNCHANGED tl!Items
      BY <2>1, <1>n, TlMapped, TlMappedNext, ContentSame
    <2>3. \A t \in Threads : tl!Hand(t)' = tl!Hand(t)
      BY <1>6, <1>o, <1>t, TlMapped, TlMappedNext DEF tl!Replace, TlTypes
    <2>4. QED
      BY <2>1, <2>2, <2>3, TlStutters
  <1>7. CASE tl!Resize
    <2>1. UNCHANGED <<l_head, l_tail, l_buffer, l_arg, TlRing>>
      <3>1. l_array \in DOMAIN l_memory /\ l_local[Owner].arr + 1 # l_array
        BY <1>7, <1>o, <1>t DEF tl!Resize, TlInv, TlElements, TlArrayIsCurrent, TlLoadedLabels, TlTypes
      <3>2. PICK a, r : l_memory' = Allocated(l_memory, a, r) /\ a = l_local[Owner].arr + 1
        BY <1>7, TlSame DEF tl!Resize
      <3>3. l_memory'[l_array] = l_memory[l_array]
        BY <3>1, <3>2 DEF Allocated
      <3>4. QED
        BY <1>7, <3>3 DEF tl!Resize, TlRing
    <2>2. \A t \in Threads : tl!Hand(t)' = tl!Hand(t)
      BY <1>7, <1>o, <1>t, TlMapped, TlMappedNext DEF tl!Resize, TlTypes
    <2>3. QED
      BY <2>1, <2>2, TlItemsSame, TlStutters
  <1>8. ASSUME NEW t \in Threads, tl!CallSteal(t) \/ tl!TakeLock(t)
        PROVE  UNCHANGED tl!Abstract!queueVars
    <2>1. /\ UNCHANGED <<l_head, l_tail, l_buffer, l_arg, l_array, l_memory, l_local>>
          /\ \E l \in {"take_lock", "take_load"} : l_pc' = [l_pc EXCEPT ![t] = l]
          /\ l_pc[t] # "take_head"
      BY <1>8 DEF tl!CallSteal, tl!TakeLock, tl!ACQUIRE_LOCK
    <2>2. \A u \in Threads : tl!Hand(u)' = tl!Hand(u)
      BY <2>1, <1>t, TlMapped, TlMappedNext DEF TlTypes
    <2>3. QED
      BY <2>1, <2>2, TlItemsSame, TlStutters DEF TlRing
  <1>9. CASE tl!PushLock \/ tl!PushLoad
    <2>1. /\ UNCHANGED <<l_head, l_tail, l_buffer, l_arg, l_array, l_memory>>
          /\ \E l \in {"push_load", "push_store", "resize"} : l_pc' = [l_pc EXCEPT ![Owner] = l]
          /\ l_pc[Owner] # "take_head"
      BY <1>9 DEF tl!PushLock, tl!PushLoad, tl!ACQUIRE_LOCK
    <2>2. \A u \in Threads : l_local'[u].elt = l_local[u].elt
      <3>1. CASE tl!PushLock
        BY <3>1 DEF tl!PushLock
      <3>2. CASE tl!PushLoad
        <4>1. PICK l : l_local' = [l_local EXCEPT ![Owner] = l] /\ l.elt = l_local[Owner].elt
          BY <3>2, <1>t, <1>o, TlLoaded DEF tl!PushLoad
        <4>2. QED
          BY <4>1, <1>t DEF TlTypes
      <3>3. QED
        BY <1>9, <3>1, <3>2
    <2>3. \A u \in Threads : tl!Hand(u)' = tl!Hand(u)
      BY <2>1, <2>2, <1>t, TlMapped, TlMappedNext DEF TlTypes
    <2>4. QED
      BY <2>1, <2>3, TlItemsSame, TlStutters DEF TlRing
  <1>10. ASSUME NEW t \in Threads, tl!TakeLoad(t)
         PROVE  tl!Abstract!FindEmpty(t) \/ UNCHANGED tl!Abstract!queueVars
    <2>1. /\ UNCHANGED <<l_head, l_tail, l_buffer, l_arg, TlRing>>
          /\ l_pc[t] = "take_load"
          /\ \A u \in Threads \ {t} : l_pc'[u] = l_pc[u] /\ l_local'[u] = l_local[u]
      BY <1>10, <1>t DEF tl!TakeLoad, tl!Load, TlRing, TlTypes
    <2>2. /\ tl!Hand(t) = None
          /\ t = Owner => l_buffer = None /\ l_arg = None
      BY <2>1, TlMapped DEF TlInv, TlHands, TlTakeLabels, TlPushLabels
    <2>3. \A u \in Threads \ {t} : tl!Hand(u)' = tl!Hand(u)
      BY <2>1, TlMapped, TlMappedNext
    <2>4. UNCHANGED tl!Items
      BY <2>1, TlItemsSame
    <2>5. CASE l_head = l_tail
      <3>1. tl!Hand(t)' = EMPTY
        BY <1>10, <2>5, <1>t, TlMappedNext DEF tl!TakeLoad, TlTypes
      <3>2. tl!Items = << >>
        BY <2>5, <1>n, TlMapped, ContentEmpty
      <3>3. tl!Abstract!Hold(t, EMPTY)
        BY <2>3, <3>1, TlHandChanged
      <3>4. QED
        BY <2>1, <2>2, <2>4, <3>2, <3>3, TlSame DEF tl!Abstract!FindEmpty
    <2>6. CASE l_head # l_tail
      <3>1. tl!Hand(t)' = tl!Hand(t)
        <4>1. l_local'[t].elt = l_local[t].elt
          BY <1>10, <2>6, <1>t, TlLoaded DEF tl!TakeLoad, TlTypes
        <4>2. l_pc'[t] = "take_read"
          BY <1>10, <2>6, <1>t DEF tl!TakeLoad, TlTypes
        <4>3. QED
          BY <2>1, <4>1, <4>2, TlMapped, TlMappedNext
      <3>2. QED
        BY <2>1, <2>3, <2>4, <3>1, TlStutters
    <2>7. QED
      BY <2>5, <2>6
  <1>11. ASSUME NEW t \in Threads, tl!TakeRead(t)
         PROVE  UNCHANGED tl!Abstract!queueVars
    <2>1. /\ UNCHANGED <<l_head, l_tail, l_buffer, l_arg, TlRing>>
          /\ l_pc[t] = "take_read" /\ l_pc'[t] = "take_head"
          /\ \A u \in Threads \ {t} : l_pc'[u] = l_pc[u] /\ l_local'[u] = l_local[u]
      BY <1>11, <1>t DEF tl!TakeRead, TlRing, TlTypes
    <2>2. \A u \in Threads : tl!Hand(u)' = tl!Hand(u)
      BY <2>1, TlMapped, TlMappedNext DEF TlInv, TlHands
    <2>3. QED
      BY <2>1, <2>2, TlItemsSame, TlStutters
  <1>12. ASSUME NEW t \in Threads, tl!TakeHead(t)
         PROVE  tl!Abstract!Take(t)
    <2>1. /\ UNCHANGED <<l_tail, l_buffer, l_arg, TlRing, l_local>>
          /\ l_pc[t] = "take_head" /\ l_head' = l_head + 1 /\ l_head < l_tail
          /\ l_pc' = [l_pc EXCEPT ![t] = "take_unlock"]
          /\ l_local[t].elt = CA_GET(TlRing, l_head)
      BY <1>12 DEF tl!TakeHead, TlRing, TlInv, TlTake
    <2>2. /\ tl!Hand(t) = None
          /\ t = Owner => l_buffer = None /\ l_arg = None
      BY <2>1, TlMapped DEF TlInv, TlHands, TlTakeLabels, TlPushLabels
    <2>3. tl!Hand(t)' = CA_GET(TlRing, l_head)
          /\ \A u \in Threads \ {t} : tl!Hand(u)' = tl!Hand(u)
      BY <2>1, <1>t, TlMapped, TlMappedNext DEF TlTypes
    <2>4. /\ tl!Items # << >> /\ Head(tl!Items) = CA_GET(TlRing, l_head)
          /\ Tail(tl!Items) = tl!Items'
      <3>1. \A n \in l_head .. l_tail - 1 : CA_GET(TlRing, n) \in Elts
        BY DEF TlInv, TlElements
      <3>2. QED
        <4>1. /\ Content(TlRing, l_head, l_tail) # << >>
              /\ Head(Content(TlRing, l_head, l_tail)) = CA_GET(TlRing, l_head)
              /\ Tail(Content(TlRing, l_head, l_tail)) = Content(TlRing, l_head + 1, l_tail)
          BY <2>1, <3>1, <1>n, ContentHead
        <4>2. QED
          BY <2>1, <4>1, TlMapped, TlMappedNext
    <2>5. tl!Abstract!Hold(t, CA_GET(TlRing, l_head))
      BY <2>3, TlHandChanged
    <2>6. QED
      BY <2>1, <2>2, <2>4, <2>5, TlSame DEF tl!Abstract!Take
  <1>13. ASSUME NEW t \in Threads, tl!RELEASE_LOCK(t)
         PROVE  UNCHANGED tl!Abstract!queueVars
    <2>1. /\ UNCHANGED <<l_head, l_tail, l_buffer, l_arg, TlRing>>
          /\ l_pc[t] \in {"push_unlock", "take_unlock"} /\ l_pc'[t] \in {"idle", "return"}
          /\ \A u \in Threads \ {t} : l_pc'[u] = l_pc[u] /\ l_local'[u] = l_local[u]
          /\ l_local'[t].elt = IF l_pc[t] = "push_unlock" THEN None ELSE l_local[t].elt
      BY <1>13, <1>t DEF tl!RELEASE_LOCK, TlRing, TlTypes
    <2>2. \A u \in Threads : tl!Hand(u)' = tl!Hand(u)
      BY <2>1, TlMapped, TlMappedNext DEF TlInv, TlHands
    <2>3. QED
      BY <2>1, <2>2, TlItemsSame, TlStutters
  <1>14. ASSUME NEW t \in Threads, tl!Return(t)
         PROVE  tl!Abstract!Done(t)
    <2>1. /\ UNCHANGED <<l_head, l_tail, l_buffer, l_arg, TlRing>>
          /\ l_pc[t] = "return" /\ l_pc'[t] = "idle" /\ l_local'[t].elt = None
          /\ \A u \in Threads \ {t} : l_pc'[u] = l_pc[u] /\ l_local'[u] = l_local[u]
      BY <1>14, <1>t DEF tl!Return, TlRing, TlTypes
    <2>2. /\ tl!Hand(t) # None /\ tl!Hand(t)' = None
          /\ \A u \in Threads \ {t} : tl!Hand(u)' = tl!Hand(u)
      BY <2>1, TlMapped, TlMappedNext DEF TlInv, TlHands
    <2>3. tl!Abstract!Hold(t, None)
      BY <2>2, TlHandChanged
    <2>4. QED
      BY <2>1, <2>2, <2>3, TlItemsSame, TlSame DEF tl!Abstract!Done
  <1>15. CASE UNCHANGED tlVars
    <2>1. UNCHANGED <<l_head, l_tail, l_buffer, l_arg, TlRing, l_pc, l_local>>
      BY <1>15 DEF tlVars, TlRing
    <2>2. \A u \in Threads : tl!Hand(u)' = tl!Hand(u)
      BY <2>1, TlMapped, TlMappedNext
    <2>3. QED
      BY <2>1, <2>2, TlItemsSame, TlStutters
  <1>16. QED
    BY <1>1, <1>2, <1>3, <1>4, <1>5, <1>6, <1>7, <1>8, <1>9, <1>10, <1>11, <1>12,
       <1>13, <1>14, <1>15, TlSame
       DEF tl!Next, tl!Step, tl!PushStep, tl!TakeStep, tl!Abstract!Next

\* tl_queue.c: what the lock protects, for any number of thieves, any initial
\* size and any number of growths.
THEOREM TlInvariant == Spec => []TlInv
  <1>1. Init => TlInv
    BY TlInitInv DEF Init
  <1>2. [Next]_vars => [tl!Next]_tlVars
    BY DEF Next, vars, tlVars, Tl, Tk, Cl
  <1>3. QED
    BY <1>1, <1>2, TlStepInv, PTL DEF Spec

\* The lock works: at most one thread is between ACQUIRE_LOCK and RELEASE_LOCK.
THEOREM LockIsExclusive == Spec => []TlMutualExclusion
  BY TlInvariant, PTL DEF TlInv

\* No thread reads or writes an array that a resize has freed (tl_queue.c:43).
THEOREM ArraysAreThere == Spec => []NoUseAfterFree
  <1>1. TlInv => NoUseAfterFree
    BY TlSame DEF TlInv, TlTypes, TlArrayIsCurrent, NoUseAfterFree, tl!NoUseAfterFree, TlLoadedLabels
  <1>2. QED
    BY <1>1, TlInvariant, PTL

\* Whatever the threads do, tl_queue.c is one atomic queue.
LEMMA TlRefinement == Spec => tl!ImplementsWorkQueue
  <1>1. Init => tl!Abstract!Init
    BY TlInitMapped DEF Init
  <1>2. [Next]_vars => [tl!Next]_tlVars
    BY DEF Next, vars, tlVars, Tl, Tk, Cl
  <1>3. TlInv /\ TlInv' /\ [Next]_vars => [tl!Abstract!Next]_(tl!Abstract!queueVars)
    BY <1>2, TlStepMapped
  <1>4. QED
    BY <1>1, <1>3, TlInvariant, PTL DEF Spec, tl!ImplementsWorkQueue, tl!Abstract!Spec

-----------------------------------------------------------------------------
(* tk_queue.c *)

TkPushLabels == {"exchange", "push", "push_grow", "push_store", "push_tail"}

\* The steps of a pop or a steal that has loaded the array, and the head.
TkArrayLabels == {"take_head", "take_tail", "take_read", "take_exchange"}
TkHeadLabels == {"take_tail", "take_read", "take_exchange"}
TkLabels == TkPushLabels \cup TkArrayLabels \cup {"idle", "take_array", "return"}

\* The ring the queue's field array points to.
TkRing == k_memory[k_array]

TkValues == Elts \cup {None, EMPTY, Junk}

TkTypes ==
    /\ k_head \in Nat /\ k_tail \in Nat
    /\ k_array \in Nat
    /\ k_buffer \in Elts \cup {None}
    /\ k_arg \in Elts \cup {None}
    /\ k_pc \in [Threads -> TkLabels]
    /\ k_local \in [Threads -> [arr : Nat, head : Nat, elt : TkValues]]

\* What a call has in its hands at each of its steps; only the owner pushes.
TkHands ==
    /\ \A t \in Threads : k_pc[t] \in TkPushLabels => t = Owner
    /\ k_arg # None <=> k_pc[Owner] \in TkPushLabels
    /\ k_pc[Owner] \in TkArrayLabels \cup {"take_array"} => k_buffer = None
    /\ \A t \in Threads : k_pc[t] = "return" => k_local[t].elt \in Elts \cup {EMPTY}

\* The elements between head and tail are in the ring, each in a place of its own.
TkElements ==
    /\ k_array \in DOMAIN k_memory
    /\ IsRing(TkRing) /\ HasElts(TkRing)
    /\ k_head =< k_tail
    /\ k_tail - k_head =< Size(TkRing)
    /\ \A n \in k_head .. k_tail - 1 : CA_GET(TkRing, n) \in Elts

\* A push: head has not moved while the array is copied, and the place it writes
\* is free whatever the thieves have taken since.
TkPush ==
    /\ k_tail - k_head >= Size(TkRing) /\ k_pc[Owner] \in {"exchange", "push", "push_grow"}
        => \A t \in Thieves : k_pc[t] = "idle"
    /\ k_pc[Owner] = "push_grow" =>
        k_tail - k_head >= Size(TkRing) /\ k_local[Owner].head = k_head
    /\ k_pc[Owner] \in {"push_store", "push_tail"} => k_tail - k_head < Size(TkRing)
    /\ k_pc[Owner] = "push_tail" => CA_GET(TkRing, k_tail) = k_arg

\* A pop or a steal: its array is the queue's, the head it has read is one the
\* queue had, and if it is the queue's still then what it has read there is
\* the oldest element.
TkTake ==
    \A t \in Threads :
        /\ k_pc[t] \in TkArrayLabels => k_local[t].arr = k_array
        /\ k_pc[t] \in TkHeadLabels => k_local[t].head =< k_head
        /\ k_pc[t] \in {"take_read", "take_exchange"} => k_local[t].head < k_tail
        /\ k_pc[t] = "take_exchange" /\ k_local[t].head = k_head =>
            k_local[t].elt = CA_GET(TkRing, k_head)

TkInv == TkTypes /\ TkHands /\ TkElements /\ TkPush /\ TkTake

\* The operators of CircularArray are the same seen through TkQueue.
LEMMA TkSame ==
    /\ tk!Threads = Threads
    /\ \A r, n, m, e : /\ tk!CA_GET(r, n) = CA_GET(r, n)
                       /\ tk!CA_SET(r, n, e) = CA_SET(r, n, e)
                       /\ tk!Size(r) = Size(r)
                       /\ tk!Allocated(r, n, e) = Allocated(r, n, e)
                       /\ tk!circular_array_resize(r, n, m) = circular_array_resize(r, n, m)
    /\ \A n : tk!circular_array_new(n) = circular_array_new(n)
  <1>1. tk!Threads = Threads
    BY DEF tk!Threads, Threads
  <1>2. \A S : tk!Cardinality(S) = Cardinality(S)
    BY DEF tk!Cardinality, Cardinality
  <1>3. \A r : tk!Size(r) = Size(r)
    BY <1>2 DEF tk!Size, Size
  <1>4. \A r, n : tk!CA_GET(r, n) = CA_GET(r, n)
    BY <1>3 DEF tk!CA_GET, CA_GET
  <1>5. \A r, n, e : tk!CA_SET(r, n, e) = CA_SET(r, n, e)
    BY <1>3 DEF tk!CA_SET, CA_SET
  <1>6. \A r, n, e : tk!Allocated(r, n, e) = Allocated(r, n, e)
    BY DEF tk!Allocated, Allocated
  <1>7. \A r, n, m : tk!circular_array_resize(r, n, m) = circular_array_resize(r, n, m)
    BY <1>3, <1>4, ZenonT(30) DEF tk!circular_array_resize, circular_array_resize, tk!Copied, Copied
  <1>8. \A n : tk!circular_array_new(n) = circular_array_new(n)
    BY DEF tk!circular_array_new, circular_array_new
  <1>9. QED
    BY <1>1, <1>3, <1>4, <1>5, <1>6, <1>7, <1>8

\* tk_queue_init leaves an empty queue over a new ring.
LEMMA TkInitInv == tk!Init => TkInv
  <1> SUFFICES ASSUME tk!Init PROVE TkInv
    OBVIOUS
  <1>o. Owner \in Threads /\ Thieves \subseteq Threads
    BY DEF Threads
  <1>1. /\ k_head = 0 /\ k_tail = 0 /\ k_buffer = None /\ k_array = 0
        /\ k_memory = [a \in {0} |-> circular_array_new(log_size)]
        /\ k_arg = None
        /\ k_pc = [t \in Threads |-> "idle"]
        /\ k_local = [t \in Threads |-> [arr |-> 0, head |-> 0, elt |-> None]]
    BY TkSame DEF tk!Init, tk!NoLocals
  <1>2. TkTypes
    BY <1>1 DEF TkTypes, TkLabels, TkValues
  <1>3. TkHands
    BY <1>1, <1>o DEF TkHands, TkPushLabels, TkArrayLabels
  <1>4. TkElements
    <2>1. TkRing = circular_array_new(log_size) /\ k_array \in DOMAIN k_memory
      BY <1>1 DEF TkRing
    <2>2. IsRing(TkRing) /\ HasElts(TkRing)
      BY <2>1, NewRing, NewHasElts
    <2>3. Size(TkRing) \in Nat
      BY <2>2 DEF IsRing
    <2>4. QED
      BY <1>1, <2>1, <2>2, <2>3 DEF TkElements
  <1>5. TkPush /\ TkTake
    BY <1>1, <1>o DEF TkPush, TkTake, TkArrayLabels, TkHeadLabels
  <1>6. QED
    BY <1>2, <1>3, <1>4, <1>5 DEF TkInv

\* One step of any thread, and the stuttering step.
LEMMA TkStepInv == TkInv /\ [tk!Next]_tkVars => TkInv'
  <1> SUFFICES ASSUME TkInv, [tk!Next]_tkVars PROVE TkInv'
    OBVIOUS
  <1> USE DEF TkInv, tk!Goto, tk!fields, tk!NoLocals
  <1>o. Owner \in Threads /\ Thieves \subseteq Threads /\ Owner \notin Thieves
        /\ Threads \ {Owner} \subseteq Thieves
        /\ None \notin Elts /\ EMPTY \notin Elts /\ Junk \notin Elts /\ None # EMPTY
    BY ThreadsAssumption, EltsAssumption DEF Threads
  <1>n. Size(TkRing) \in Nat \ {0} /\ k_tail \in Nat /\ k_head \in Nat /\ k_head =< k_tail
    BY DEF TkElements, IsRing, TkTypes
  <1>c. TkTypes /\ TkHands
    OBVIOUS
  <1>d. TkElements /\ TkPush /\ TkTake
    OBVIOUS
  <1>1. ASSUME NEW e \in Elts, tk!CallPush(e) \/ tk!CallPriorityPush(e) PROVE TkInv'
    <2>0. /\ k_pc[Owner] = "idle" /\ k_arg' = e
          /\ \E l \in {"push", "exchange"} : k_pc' = [k_pc EXCEPT ![Owner] = l]
          /\ k_tail - k_head >= Size(TkRing) => \A t \in Thieves : k_pc[t] = "idle"
          /\ UNCHANGED <<k_head, k_tail, k_buffer, k_array, k_memory, k_local, TkRing>>
      BY <1>1, TkSame DEF tk!CallPush, tk!CallPriorityPush, tk!PushAllowed, tk!NoFreePlace, TkRing
    <2>1. TkTypes' /\ TkHands'
      BY <2>0, <1>o, <1>c DEF TkTypes, TkHands, TkLabels, TkPushLabels, TkArrayLabels
    <2>2. TkElements' /\ TkPush' /\ TkTake'
      BY <2>0, <1>o, <1>c, <1>d DEF TkTypes, TkElements, TkPush, TkTake, TkArrayLabels, TkHeadLabels
    <2>3. QED
      BY <2>1, <2>2
  <1>2. CASE tk!Exchange
    <2>0. /\ k_pc[Owner] = "exchange" /\ k_buffer' = k_arg /\ k_arg' = k_buffer
          /\ k_pc' = [k_pc EXCEPT ![Owner] = IF k_buffer = None THEN "idle" ELSE "push"]
          /\ UNCHANGED <<k_head, k_tail, k_array, k_memory, k_local, TkRing>>
      BY <1>2 DEF tk!Exchange, TkRing
    <2>1. TkTypes' /\ TkHands'
      BY <2>0, <1>o, <1>c DEF TkTypes, TkHands, TkLabels, TkPushLabels, TkArrayLabels
    <2>2. TkElements' /\ TkPush' /\ TkTake'
      BY <2>0, <1>o, <1>c, <1>d DEF TkTypes, TkElements, TkPush, TkTake, TkArrayLabels, TkHeadLabels
    <2>3. QED
      BY <2>1, <2>2
  <1>3. CASE tk!CallPop
    <2>0. /\ k_pc[Owner] = "idle"
          /\ UNCHANGED <<k_head, k_tail, k_array, k_memory, k_arg, TkRing>>
          /\ \/ /\ k_buffer \in Elts /\ k_buffer' = None
                /\ k_local' = [k_local EXCEPT ![Owner].elt = k_buffer]
                /\ k_pc' = [k_pc EXCEPT ![Owner] = "return"]
             \/ /\ k_buffer = None /\ UNCHANGED <<k_buffer, k_local>>
                /\ k_pc' = [k_pc EXCEPT ![Owner] = "take_array"]
      BY <1>3, <1>c DEF tk!CallPop, TkRing, TkTypes
    <2>1. TkTypes' /\ TkHands'
      BY <2>0, <1>o, <1>c DEF TkTypes, TkHands, TkLabels, TkPushLabels, TkArrayLabels, TkValues
    <2>2. TkElements' /\ TkPush' /\ TkTake'
      BY <2>0, <1>o, <1>c, <1>d DEF TkTypes, TkElements, TkPush, TkTake, TkArrayLabels, TkHeadLabels
    <2>3. QED
      BY <2>1, <2>2
  <1>4. ASSUME NEW t \in Threads, tk!CallSteal(t) PROVE TkInv'
    <2>0. /\ t \in Thieves /\ k_pc[t] = "idle" /\ k_pc' = [k_pc EXCEPT ![t] = "take_array"]
          /\ k_tail - k_head >= Size(TkRing) => k_pc[Owner] \notin {"exchange", "push", "push_grow"}
          /\ UNCHANGED <<k_head, k_tail, k_buffer, k_array, k_memory, k_arg, k_local, TkRing>>
      BY <1>4, TkSame DEF tk!CallSteal, tk!StealAllowed, tk!NoFreePlace, TkRing
    <2>1. TkTypes' /\ TkHands'
      BY <2>0, <1>o, <1>c DEF TkTypes, TkHands, TkLabels, TkPushLabels, TkArrayLabels
    <2>2. TkElements' /\ TkPush' /\ TkTake'
      BY <2>0, <1>o, <1>c, <1>d DEF TkTypes, TkElements, TkPush, TkTake, TkArrayLabels, TkHeadLabels
    <2>3. QED
      BY <2>1, <2>2
  <1>5. CASE tk!PushHead
    <2>0. /\ k_pc[Owner] = "push"
          /\ k_pc' = [k_pc EXCEPT ![Owner] =
                        IF k_tail - k_head >= Size(TkRing) THEN "push_grow" ELSE "push_store"]
          /\ k_local' = [k_local EXCEPT ![Owner].head = k_head]
          /\ UNCHANGED <<k_head, k_tail, k_buffer, k_array, k_memory, k_arg, TkRing>>
      <3>1. tk!Full(k_head) <=> k_tail - k_head >= Size(TkRing)
        BY <1>n, TkSame DEF tk!Full, TkRing
      <3>2. QED
        BY <1>5, <3>1 DEF tk!PushHead, TkRing
    <2>1. TkTypes' /\ TkHands'
      BY <2>0, <1>o, <1>c DEF TkTypes, TkHands, TkLabels, TkPushLabels, TkArrayLabels
    <2>2. TkElements'
      BY <2>0, <1>d DEF TkElements
    <2>3. TkPush'
      BY <2>0, <1>o, <1>n, <1>c, <1>d DEF TkTypes, TkPush
    <2>4. TkTake'
      BY <2>0, <1>o, <1>c, <1>d DEF TkTypes, TkTake, TkArrayLabels, TkHeadLabels
    <2>5. QED
      BY <2>1, <2>2, <2>3, <2>4
  <1>6. CASE tk!PushGrow
    <2>1. /\ k_pc[Owner] = "push_grow" /\ k_local[Owner].head = k_head
          /\ k_pc' = [k_pc EXCEPT ![Owner] = "push_store"]
          /\ \A t \in Thieves : k_pc[t] = "idle"
          /\ k_array' = k_array + 1
          /\ UNCHANGED <<k_head, k_tail, k_buffer, k_arg, k_local>>
      BY <1>6, <1>d DEF tk!PushGrow, TkPush
    <2>2. PICK s : s = circular_array_resize(TkRing, k_tail, k_head)
      OBVIOUS
    <2>3. /\ IsRing(s) /\ HasElts(s) /\ Size(s) = 2 * Size(TkRing)
          /\ \A n \in k_head .. k_tail - 1 : CA_GET(s, n) = CA_GET(TkRing, n)
      BY <2>2, <1>n, ResizedRing, ResizedHasElts DEF TkElements
    <2>4. k_array' \in DOMAIN k_memory' /\ TkRing' = s
      <3>1. k_memory' = Allocated(k_memory, k_array + 1, s)
        BY <1>6, <2>1, <2>2, TkSame DEF tk!PushGrow, TkRing
      <3>2. QED
        BY <2>1, <3>1 DEF Allocated, TkRing
    <2>5. TkTypes' /\ TkHands'
      BY <2>1, <1>o, <1>c DEF TkTypes, TkHands, TkLabels, TkPushLabels, TkArrayLabels
    <2>6. TkElements'
      BY <2>1, <2>3, <2>4, <1>n, <1>d DEF TkElements
    <2>7. TkPush'
      BY <2>1, <2>3, <2>4, <1>n, <1>o, <1>c, <1>d DEF TkPush, TkTypes, TkElements
    <2>8. \A t \in Threads : k_pc'[t] \notin TkArrayLabels
      BY <2>1, <1>o, <1>c DEF TkTypes, TkArrayLabels
    <2>9. TkTake'
      BY <2>8 DEF TkTake, TkArrayLabels, TkHeadLabels
    <2>10. QED
      BY <2>5, <2>6, <2>7, <2>9
  <1>7. CASE tk!PushStore
    <2>1. /\ k_pc[Owner] = "push_store" /\ k_tail - k_head < Size(TkRing)
          /\ k_pc' = [k_pc EXCEPT ![Owner] = "push_tail"]
          /\ UNCHANGED <<k_head, k_tail, k_buffer, k_array, k_arg, k_local>>
          /\ k_arg \in Elts
      BY <1>7, <1>c, <1>d DEF tk!PushStore, TkPush, TkTypes, TkHands, TkPushLabels
    <2>2. PICK s : s = CA_SET(TkRing, k_tail, k_arg)
      OBVIOUS
    <2>3. k_array' \in DOMAIN k_memory' /\ TkRing' = s
      BY <1>7, <2>1, <2>2, <1>d, TkSame DEF tk!PushStore, TkRing, TkElements
    <2>4. /\ IsRing(s) /\ HasElts(s) /\ Size(s) = Size(TkRing) /\ CA_GET(s, k_tail) = k_arg
          /\ \A n \in k_head .. k_tail - 1 : CA_GET(s, n) = CA_GET(TkRing, n)
      <3>1. IsRing(TkRing) /\ HasElts(TkRing) /\ k_tail \in Nat
        BY <1>n, <1>d DEF TkElements
      <3>2. \A n \in k_head .. k_tail - 1 : n \in Nat /\ n # k_tail /\ n - k_tail < Size(TkRing)
                                            /\ k_tail - n < Size(TkRing)
        BY <1>n, <2>1
      <3>3. QED
        BY <2>1, <2>2, <3>1, <3>2, SetRing, SetHasElts
    <2>5. TkTypes' /\ TkHands'
      BY <2>1, <1>o, <1>c DEF TkTypes, TkHands, TkLabels, TkPushLabels, TkArrayLabels
    <2>6. TkElements'
      BY <2>1, <2>3, <2>4, <1>n, <1>d DEF TkElements
    <2>7. TkPush'
      BY <2>1, <2>3, <2>4, <1>n, <1>o, <1>c, <1>d DEF TkPush, TkTypes
    <2>8. TkTake'
      BY <2>1, <2>3, <2>4, <1>n, <1>o, <1>c, <1>d DEF TkTake, TkTypes, TkArrayLabels, TkHeadLabels
    <2>9. QED
      BY <2>5, <2>6, <2>7, <2>8
  <1>8. CASE tk!PushTail
    <2>1. /\ k_pc[Owner] = "push_tail" /\ k_tail - k_head < Size(TkRing)
          /\ CA_GET(TkRing, k_tail) = k_arg /\ k_arg \in Elts
          /\ k_tail' = k_tail + 1 /\ k_arg' = None
          /\ k_pc' = [k_pc EXCEPT ![Owner] = "idle"]
          /\ k_local' = [k_local EXCEPT ![Owner] = [arr |-> 0, head |-> 0, elt |-> None]]
          /\ UNCHANGED <<k_head, k_buffer, k_array, k_memory, TkRing>>
      BY <1>8, <1>c, <1>d DEF tk!PushTail, TkPush, TkTypes, TkHands, TkPushLabels, TkRing
    <2>2. TkTypes' /\ TkHands'
      BY <2>1, <1>o, <1>c DEF TkTypes, TkHands, TkLabels, TkPushLabels, TkArrayLabels, TkValues
    <2>3. TkElements'
      BY <2>1, <1>n, <1>d DEF TkElements
    <2>4. TkPush'
      BY <2>1, <1>o, <1>c DEF TkPush, TkTypes
    <2>5. TkTake'
      BY <2>1, <1>n, <1>o, <1>c, <1>d DEF TkTake, TkTypes, TkArrayLabels, TkHeadLabels
    <2>6. QED
      BY <2>2, <2>3, <2>4, <2>5
  <1>9. ASSUME NEW t \in Threads, tk!TakeArray(t) PROVE TkInv'
    <2>1. /\ k_pc[t] = "take_array" /\ k_pc' = [k_pc EXCEPT ![t] = "take_head"]
          /\ k_local' = [k_local EXCEPT ![t].arr = k_array]
          /\ UNCHANGED <<k_head, k_tail, k_buffer, k_array, k_memory, k_arg, TkRing>>
      BY <1>9 DEF tk!TakeArray, TkRing
    <2>2. TkTypes' /\ TkHands'
      BY <2>1, <1>o, <1>c DEF TkTypes, TkHands, TkLabels, TkPushLabels, TkArrayLabels
    <2>3. TkElements' /\ TkPush'
      BY <2>1, <1>o, <1>c, <1>d DEF TkTypes, TkElements, TkPush
    <2>4. TkTake'
      BY <2>1, <1>o, <1>c, <1>d DEF TkTypes, TkTake, TkArrayLabels, TkHeadLabels
    <2>5. QED
      BY <2>2, <2>3, <2>4
  <1>10. ASSUME NEW t \in Threads, tk!TakeHead(t) PROVE TkInv'
    <2>1. /\ k_pc[t] = "take_head" /\ k_pc' = [k_pc EXCEPT ![t] = "take_tail"]
          /\ k_local' = [k_local EXCEPT ![t].head = k_head]
          /\ UNCHANGED <<k_head, k_tail, k_buffer, k_array, k_memory, k_arg, TkRing>>
      BY <1>10 DEF tk!TakeHead, TkRing
    <2>2. TkTypes' /\ TkHands'
      BY <2>1, <1>o, <1>c DEF TkTypes, TkHands, TkLabels, TkPushLabels, TkArrayLabels
    <2>3. TkElements' /\ TkPush'
      BY <2>1, <1>o, <1>c, <1>d DEF TkTypes, TkElements, TkPush
    <2>4. TkTake'
      BY <2>1, <1>n, <1>o, <1>c, <1>d DEF TkTypes, TkTake, TkArrayLabels, TkHeadLabels
    <2>5. QED
      BY <2>2, <2>3, <2>4
  <1>11. ASSUME NEW t \in Threads, tk!TakeTail(t) PROVE TkInv'
    <2>1. /\ k_pc[t] = "take_tail" /\ k_local[t].head =< k_head /\ k_local[t].head \in Nat
          /\ UNCHANGED <<k_head, k_tail, k_buffer, k_array, k_memory, k_arg, TkRing>>
          /\ \/ /\ k_local' = [k_local EXCEPT ![t].elt = EMPTY]
                /\ k_pc' = [k_pc EXCEPT ![t] = "return"]
             \/ /\ k_local[t].head < k_tail /\ k_local' = k_local
                /\ k_pc' = [k_pc EXCEPT ![t] = "take_read"]
      BY <1>11, <1>n, <1>c, <1>d DEF tk!TakeTail, TkRing, TkTypes, TkTake, TkHeadLabels
    <2>2. TkTypes' /\ TkHands'
      BY <2>1, <1>o, <1>c DEF TkTypes, TkHands, TkLabels, TkPushLabels, TkArrayLabels, TkValues
    <2>3. TkElements' /\ TkPush'
      BY <2>1, <1>o, <1>c, <1>d DEF TkTypes, TkElements, TkPush
    <2>4. TkTake'
      BY <2>1, <1>n, <1>o, <1>c, <1>d DEF TkTypes, TkTake, TkArrayLabels, TkHeadLabels
    <2>5. QED
      BY <2>2, <2>3, <2>4
  <1>12. ASSUME NEW t \in Threads, tk!TakeRead(t) PROVE TkInv'
    <2>0. k_local[t].arr = k_array /\ k_local[t].head \in Nat
      BY <1>12, <1>c, <1>d DEF tk!TakeRead, TkTake, TkTypes, TkArrayLabels
    <2>1. PICK x \in Elts \cup {Junk} :
            /\ x = CA_GET(TkRing, k_local[t].head)
            /\ k_local' = [k_local EXCEPT ![t].elt = x]
      <3>1. CA_GET(TkRing, k_local[t].head) \in Elts \cup {Junk}
        BY <2>0, <1>d DEF TkElements, HasElts
      <3>2. k_local' = [k_local EXCEPT ![t].elt = CA_GET(TkRing, k_local[t].head)]
        BY <1>12, <2>0, TkSame DEF tk!TakeRead, TkRing
      <3>3. QED
        BY <3>1, <3>2
    <2>2. /\ k_pc[t] = "take_read" /\ k_pc' = [k_pc EXCEPT ![t] = "take_exchange"]
          /\ UNCHANGED <<k_head, k_tail, k_buffer, k_array, k_memory, k_arg, TkRing>>
      BY <1>12 DEF tk!TakeRead, TkRing
    <2>3. TkTypes' /\ TkHands'
      BY <2>1, <2>2, <1>o, <1>c DEF TkTypes, TkHands, TkLabels, TkPushLabels, TkArrayLabels, TkValues
    <2>4. TkElements' /\ TkPush'
      BY <2>1, <2>2, <1>o, <1>c, <1>d DEF TkTypes, TkElements, TkPush
    <2>5. TkTake'
      BY <2>1, <2>2, <1>n, <1>o, <1>c, <1>d DEF TkTypes, TkTake, TkArrayLabels, TkHeadLabels
    <2>6. QED
      BY <2>3, <2>4, <2>5
  <1>13. ASSUME NEW t \in Threads, tk!TakeExchange(t) PROVE TkInv'
    <2>1. /\ k_pc[t] = "take_exchange" /\ k_local[t].head < k_tail
          /\ UNCHANGED <<k_tail, k_buffer, k_array, k_memory, k_arg, k_local, TkRing>>
      BY <1>13, <1>d DEF tk!TakeExchange, TkRing, TkTake
    <2>2. CASE k_head = k_local[t].head
      <3>1. k_head' = k_head + 1 /\ k_pc' = [k_pc EXCEPT ![t] = "return"] /\ k_head < k_tail
        BY <1>13, <2>1, <2>2 DEF tk!TakeExchange
      <3>2. k_local[t].elt \in Elts
        BY <2>1, <2>2, <3>1, <1>n, <1>d DEF TkTake, TkElements
      <3>3. TkTypes' /\ TkHands'
        BY <2>1, <3>1, <3>2, <1>o, <1>c DEF TkTypes, TkHands, TkLabels, TkPushLabels, TkArrayLabels
      <3>4. TkElements'
        BY <2>1, <3>1, <1>n, <1>d DEF TkElements
      <3>5. k_pc[Owner] # "push_grow" /\ (t \in Thieves => k_pc[t] # "idle")
        BY <2>1, <1>o, <1>d DEF TkPush
      <3>6. TkPush'
        BY <2>1, <3>1, <3>5, <1>n, <1>o, <1>c, <1>d DEF TkPush, TkTypes
      <3>7. TkTake'
        BY <2>1, <3>1, <1>n, <1>o, <1>c, <1>d DEF TkTypes, TkTake, TkArrayLabels, TkHeadLabels
      <3>8. QED
        BY <3>3, <3>4, <3>6, <3>7
    <2>3. CASE k_head # k_local[t].head
      <3>1. k_head' = k_head /\ k_pc' = [k_pc EXCEPT ![t] = "take_head"]
        BY <1>13, <2>3 DEF tk!TakeExchange
      <3>2. TkTypes' /\ TkHands'
        BY <2>1, <3>1, <1>o, <1>c DEF TkTypes, TkHands, TkLabels, TkPushLabels, TkArrayLabels
      <3>3. TkElements' /\ TkPush'
        BY <2>1, <3>1, <1>o, <1>c, <1>d DEF TkTypes, TkElements, TkPush
      <3>4. TkTake'
        BY <2>1, <3>1, <1>o, <1>c, <1>d DEF TkTypes, TkTake, TkArrayLabels, TkHeadLabels
      <3>5. QED
        BY <3>2, <3>3, <3>4
    <2>4. QED
      BY <2>2, <2>3
  <1>14. ASSUME NEW t \in Threads, tk!Return(t) PROVE TkInv'
    <2>1. /\ k_pc[t] = "return" /\ k_pc' = [k_pc EXCEPT ![t] = "idle"]
          /\ k_local' = [k_local EXCEPT ![t] = [arr |-> 0, head |-> 0, elt |-> None]]
          /\ UNCHANGED <<k_head, k_tail, k_buffer, k_array, k_memory, k_arg, TkRing>>
      BY <1>14 DEF tk!Return, TkRing
    <2>2. TkTypes' /\ TkHands'
      BY <2>1, <1>o, <1>c DEF TkTypes, TkHands, TkLabels, TkPushLabels, TkArrayLabels, TkValues
    <2>3. TkElements' /\ TkPush'
      BY <2>1, <1>o, <1>c, <1>d DEF TkTypes, TkElements, TkPush
    <2>4. TkTake'
      BY <2>1, <1>o, <1>c, <1>d DEF TkTypes, TkTake, TkArrayLabels, TkHeadLabels
    <2>5. QED
      BY <2>2, <2>3, <2>4
  <1>15. CASE UNCHANGED tkVars
    BY <1>15, <1>c, <1>d DEF tkVars, TkTypes, TkHands, TkElements, TkPush, TkTake, TkRing
  <1>16. QED
    BY <1>1, <1>2, <1>3, <1>4, <1>5, <1>6, <1>7, <1>8, <1>9, <1>10, <1>11, <1>12,
       <1>13, <1>14, <1>15, TkSame DEF tk!Next, tk!PushStep, tk!TakeStep

-----------------------------------------------------------------------------
(* tk_queue.c behaves as one atomic queue *)

\* What the refinement mapping of TkQueue makes of its state.
LEMMA TkMapped ==
    /\ tk!Items = Content(TkRing, k_head, k_tail)
    /\ \A t \in Threads : tk!Hand(t) = IF k_pc[t] = "return" THEN k_local[t].elt ELSE None
  BY TkSame DEF tk!Items, Content, TkRing, tk!Hand

\* The same of the next state.
LEMMA TkMappedNext ==
    /\ tk!Items' = Content(TkRing', k_head', k_tail')
    /\ \A t \in Threads : tk!Hand(t)' = IF k_pc'[t] = "return" THEN k_local'[t].elt ELSE None
  BY TkSame DEF tk!Items, Content, TkRing, tk!Hand

\* tk_queue_init maps to the empty queue.
LEMMA TkInitMapped == tk!Init => tk!Abstract!Init
  <1> SUFFICES ASSUME tk!Init PROVE tk!Abstract!Init
    OBVIOUS
  <1>1. tk!Items = << >>
    BY TkMapped, ContentEmpty, 0 \in Nat DEF tk!Init
  <1>2. \A t \in Threads : tk!Hand(t) = None
    BY TkMapped DEF tk!Init, tk!Threads, Threads
  <1>3. QED
    BY <1>1, <1>2, TkSame DEF tk!Init, tk!Abstract!Init

\* A step that the fields, the elements between them and the hands do not show.
LEMMA TkStutters ==
    ASSUME UNCHANGED <<k_buffer, k_arg, tk!Items>>, \A t \in Threads : tk!Hand(t)' = tk!Hand(t)
    PROVE  UNCHANGED tk!Abstract!queueVars
  BY TkSame DEF tk!Abstract!queueVars

\* A step of one thread changes the hand of no other.
LEMMA TkHandChanged ==
    ASSUME NEW t \in Threads, NEW e, tk!Hand(t)' = e,
           \A u \in Threads \ {t} : tk!Hand(u)' = tk!Hand(u)
    PROVE  tk!Abstract!Hold(t, e)
  BY TkSame DEF tk!Abstract!Hold

\* Steps that leave head, tail, the array and the ring alone leave the elements alone.
LEMMA TkItemsSame ==
    ASSUME UNCHANGED <<k_head, k_tail, TkRing>>
    PROVE  UNCHANGED tk!Items
  BY TkMapped, TkMappedNext

\* Each step is a step of the atomic queue, or changes nothing of it: an element
\* goes in when tail is stored, comes out when the exchange of head succeeds, and
\* the queue is found empty when tail is what head was.
LEMMA TkStepMapped ==
    TkInv /\ TkInv' /\ [tk!Next]_tkVars => [tk!Abstract!Next]_(tk!Abstract!queueVars)
  <1> SUFFICES ASSUME TkInv, TkInv', [tk!Next]_tkVars
               PROVE  [tk!Abstract!Next]_(tk!Abstract!queueVars)
    OBVIOUS
  <1> USE DEF tk!Goto, tk!fields, tk!NoLocals
  <1>o. Owner \in Threads /\ Thieves \subseteq Threads /\ Owner \notin Thieves
        /\ None \notin Elts /\ EMPTY \notin Elts /\ None # EMPTY
    BY ThreadsAssumption, EltsAssumption DEF Threads
  <1>t. TkTypes
    BY DEF TkInv
  <1>n. Size(TkRing) \in Nat \ {0} /\ k_tail \in Nat /\ k_head \in Nat /\ k_head =< k_tail
    BY DEF TkInv, TkElements, IsRing, TkTypes
  <1>1. ASSUME NEW e \in Elts, tk!CallPush(e) \/ tk!CallPriorityPush(e)
        PROVE  tk!Abstract!Offer(e)
    <2>1. /\ k_pc[Owner] = "idle" /\ k_arg = None /\ k_buffer # e
          /\ \A t \in Threads : tk!Hand(t) # e
          /\ \A n \in k_head .. k_tail - 1 : CA_GET(TkRing, n) # e
      BY <1>1, <1>o, TkSame DEF TkInv, TkHands, TkPushLabels, tk!CallPush, tk!CallPriorityPush,
         tk!Outside, TkRing
    <2>2. /\ k_arg' = e /\ UNCHANGED <<k_head, k_tail, k_buffer, k_array, k_memory, k_local>>
          /\ \E l \in {"push", "exchange"} : k_pc' = [k_pc EXCEPT ![Owner] = l]
      BY <1>1 DEF tk!CallPush, tk!CallPriorityPush
    <2>3. UNCHANGED tk!Items
      BY <2>2, TkItemsSame DEF TkRing
    <2>4. \A t \in Threads : tk!Hand(t)' = tk!Hand(t)
      BY <2>1, <2>2, <1>o, <1>t, TkMapped, TkMappedNext DEF TkTypes
    <2>5. tk!Hand(Owner) = None
      BY <2>1, <1>o, TkMapped
    <2>6. \A i \in DOMAIN tk!Items : tk!Items[i] # e
      <3>1. \A i \in 1 .. k_tail - k_head : k_head + i - 1 \in k_head .. k_tail - 1
        BY <1>n
      <3>2. QED
        BY <2>1, <3>1, TkMapped DEF Content
    <2>7. QED
      BY <2>1, <2>2, <2>3, <2>4, <2>5, <2>6, <1>o, TkSame DEF tk!Abstract!Offer
  <1>2. CASE tk!CallPop
    <2>1. k_pc[Owner] = "idle" /\ k_arg = None /\ tk!Hand(Owner) = None
      BY <1>2, <1>o, TkMapped DEF TkInv, TkHands, TkPushLabels, tk!CallPop
    <2>2. UNCHANGED tk!Items
      BY <1>2, TkItemsSame DEF TkRing, tk!CallPop
    <2>3. CASE k_buffer # None
      <3>1. tk!Hand(Owner)' = k_buffer /\ \A u \in Threads \ {Owner} : tk!Hand(u)' = tk!Hand(u)
        BY <1>2, <2>3, <1>o, <1>t, TkMapped, TkMappedNext DEF tk!CallPop, TkTypes
      <3>2. tk!Abstract!Hold(Owner, k_buffer)
        BY <3>1, <1>o, TkHandChanged
      <3>3. QED
        BY <1>2, <2>1, <2>2, <2>3, <3>2, <1>o, TkSame DEF tk!CallPop, tk!Abstract!TakeSlot,
           tk!Abstract!Next
    <2>4. CASE k_buffer = None
      <3>1. \A t \in Threads : tk!Hand(t)' = tk!Hand(t)
        BY <1>2, <2>4, <1>o, <1>t, TkMapped, TkMappedNext DEF tk!CallPop, TkTypes
      <3>2. QED
        BY <1>2, <2>2, <2>4, <3>1, TkStutters DEF tk!CallPop
    <2>5. QED
      BY <2>3, <2>4
  <1>3. CASE tk!Exchange
    <2>1. k_arg # None
      BY <1>3 DEF TkInv, TkHands, TkPushLabels, tk!Exchange
    <2>2. UNCHANGED tk!Items
      BY <1>3, TkItemsSame DEF TkRing, tk!Exchange
    <2>3. \A t \in Threads : tk!Hand(t)' = tk!Hand(t)
      BY <1>3, <1>o, <1>t, TkMapped, TkMappedNext DEF tk!Exchange, TkTypes
    <2>4. QED
      BY <1>3, <2>1, <2>2, <2>3, TkSame DEF tk!Exchange, tk!Abstract!Exchange, tk!Abstract!Next
  <1>4. CASE tk!PushHead
    <2>1. /\ UNCHANGED <<k_head, k_tail, k_buffer, k_arg, TkRing>>
          /\ k_pc[Owner] = "push"
          /\ \E l \in {"push_grow", "push_store"} : k_pc' = [k_pc EXCEPT ![Owner] = l]
          /\ k_local' = [k_local EXCEPT ![Owner].head = k_head]
      BY <1>4 DEF tk!PushHead, TkRing
    <2>2. \A t \in Threads : tk!Hand(t)' = tk!Hand(t)
      BY <2>1, <1>o, <1>t, TkMapped, TkMappedNext DEF TkTypes
    <2>3. QED
      BY <2>1, <2>2, TkItemsSame, TkStutters
  <1>5. CASE tk!PushGrow
    <2>1. /\ UNCHANGED <<k_head, k_tail, k_buffer, k_arg, k_local>>
          /\ k_pc[Owner] = "push_grow" /\ k_pc' = [k_pc EXCEPT ![Owner] = "push_store"]
          /\ k_local[Owner].head = k_head
      BY <1>5 DEF tk!PushGrow, TkInv, TkPush
    <2>2. TkRing' = circular_array_resize(TkRing, k_tail, k_head)
      <3>1. PICK s : s = circular_array_resize(TkRing, k_tail, k_head)
        OBVIOUS
      <3>2. k_memory' = Allocated(k_memory, k_array + 1, s) /\ k_array' = k_array + 1
        BY <1>5, <2>1, <3>1, TkSame DEF tk!PushGrow, TkRing
      <3>3. QED
        BY <3>1, <3>2 DEF TkRing, Allocated
    <2>3. \A n \in k_head .. k_tail - 1 : CA_GET(TkRing', n) = CA_GET(TkRing, n)
      BY <2>2, <1>n, ResizedRing DEF TkInv, TkElements
    <2>4. UNCHANGED tk!Items
      BY <2>1, <2>3, <1>n, TkMapped, TkMappedNext, ContentSame
    <2>5. \A t \in Threads : tk!Hand(t)' = tk!Hand(t)
      BY <2>1, <1>o, <1>t, TkMapped, TkMappedNext DEF TkTypes
    <2>6. QED
      BY <2>1, <2>4, <2>5, TkStutters
  <1>6. CASE tk!PushStore
    <2>1. /\ UNCHANGED <<k_head, k_tail, k_buffer, k_arg, k_local>>
          /\ k_pc[Owner] = "push_store" /\ k_pc' = [k_pc EXCEPT ![Owner] = "push_tail"]
          /\ k_tail - k_head < Size(TkRing)
      BY <1>6 DEF tk!PushStore, TkInv, TkPush
    <2>2. TkRing' = CA_SET(TkRing, k_tail, k_arg)
      BY <1>6, TkSame DEF TkRing, tk!PushStore, TkInv, TkElements
    <2>3. \A n \in k_head .. k_tail - 1 : n \in Nat /\ n # k_tail /\ n - k_tail < Size(TkRing)
                                          /\ k_tail - n < Size(TkRing)
      BY <1>n, <2>1
    <2>4. \A n \in k_head .. k_tail - 1 : CA_GET(TkRing', n) = CA_GET(TkRing, n)
      BY <2>2, <2>3, <1>n, SetRing DEF TkInv, TkElements
    <2>5. UNCHANGED tk!Items
      BY <2>1, <2>4, <1>n, TkMapped, TkMappedNext, ContentSame
    <2>6. \A t \in Threads : tk!Hand(t)' = tk!Hand(t)
      BY <2>1, <1>o, <1>t, TkMapped, TkMappedNext DEF TkTypes
    <2>7. QED
      BY <2>1, <2>5, <2>6, TkStutters
  <1>7. CASE tk!PushTail
    <2>1. /\ k_pc[Owner] = "push_tail" /\ k_tail' = k_tail + 1 /\ CA_GET(TkRing, k_tail) = k_arg
          /\ k_arg \in Elts /\ k_arg' = None /\ k_pc' = [k_pc EXCEPT ![Owner] = "idle"]
          /\ UNCHANGED <<k_head, k_buffer, TkRing>>
          /\ \A u \in Threads \ {Owner} : k_local'[u] = k_local[u]
      BY <1>7, <1>o, <1>t DEF tk!PushTail, TkInv, TkPush, TkHands, TkTypes, TkPushLabels, TkRing
    <2>2. \A n \in k_head .. k_tail : CA_GET(TkRing, n) \in Elts
      BY <2>1, <1>n DEF TkInv, TkElements
    <2>3. tk!Items' = Append(tk!Items, k_arg)
      <3>1. Content(TkRing, k_head, k_tail + 1)
              = Append(Content(TkRing, k_head, k_tail), CA_GET(TkRing, k_tail))
        BY <2>2, <1>n, ContentAppend
      <3>2. QED
        BY <2>1, <3>1, TkMapped, TkMappedNext
    <2>4. \A t \in Threads : tk!Hand(t)' = tk!Hand(t)
      BY <2>1, <1>o, <1>t, TkMapped, TkMappedNext DEF TkTypes
    <2>5. QED
      BY <2>1, <1>o, <2>3, <2>4, TkSame DEF tk!Abstract!Put, tk!Abstract!Next
  <1>8. ASSUME NEW t \in Threads,
               tk!CallSteal(t) \/ tk!TakeArray(t) \/ tk!TakeHead(t) \/ tk!TakeRead(t)
        PROVE  UNCHANGED tk!Abstract!queueVars
    <2>1. /\ UNCHANGED <<k_head, k_tail, k_buffer, k_arg, TkRing>>
          /\ k_pc[t] # "return" /\ k_pc'[t] # "return"
          /\ \A u \in Threads \ {t} : k_pc'[u] = k_pc[u] /\ k_local'[u] = k_local[u]
      BY <1>8, <1>t DEF tk!CallSteal, tk!TakeArray, tk!TakeHead, tk!TakeRead, TkRing, TkTypes
    <2>2. \A u \in Threads : tk!Hand(u)' = tk!Hand(u)
      BY <2>1, TkMapped, TkMappedNext
    <2>3. QED
      BY <2>1, <2>2, TkItemsSame, TkStutters
  <1>9. ASSUME NEW t \in Threads, tk!TakeTail(t)
        PROVE  tk!Abstract!FindEmpty(t) \/ UNCHANGED tk!Abstract!queueVars
    <2>1. /\ UNCHANGED <<k_head, k_tail, k_buffer, k_arg, TkRing>>
          /\ k_pc[t] = "take_tail"
          /\ \A u \in Threads \ {t} : k_pc'[u] = k_pc[u] /\ k_local'[u] = k_local[u]
      BY <1>9, <1>t DEF tk!TakeTail, TkRing, TkTypes
    <2>2. /\ tk!Hand(t) = None
          /\ t = Owner => k_buffer = None /\ k_arg = None
      BY <2>1, TkMapped DEF TkInv, TkHands, TkArrayLabels, TkPushLabels
    <2>3. \A u \in Threads \ {t} : tk!Hand(u)' = tk!Hand(u)
      BY <2>1, TkMapped, TkMappedNext
    <2>4. UNCHANGED tk!Items
      BY <2>1, TkItemsSame
    <2>5. CASE k_local[t].head = k_tail
      <3>1. tk!Hand(t)' = EMPTY
        BY <1>9, <2>5, <1>t, TkMappedNext DEF tk!TakeTail, TkTypes
      <3>2. k_head = k_tail
        BY <2>1, <2>5, <1>n DEF TkInv, TkTake, TkHeadLabels
      <3>3. tk!Items = << >>
        BY <3>2, <1>n, TkMapped, ContentEmpty
      <3>4. tk!Abstract!Hold(t, EMPTY)
        BY <2>3, <3>1, TkHandChanged
      <3>5. QED
        BY <2>1, <2>2, <2>4, <3>3, <3>4, TkSame DEF tk!Abstract!FindEmpty
    <2>6. CASE k_local[t].head # k_tail
      <3>1. tk!Hand(t)' = tk!Hand(t)
        BY <1>9, <2>1, <2>6, <1>t, TkMapped, TkMappedNext DEF tk!TakeTail, TkTypes
      <3>2. QED
        BY <2>1, <2>3, <2>4, <3>1, TkStutters
    <2>7. QED
      BY <2>5, <2>6
  <1>10. ASSUME NEW t \in Threads, tk!TakeExchange(t)
         PROVE  tk!Abstract!Take(t) \/ UNCHANGED tk!Abstract!queueVars
    <2>1. /\ UNCHANGED <<k_tail, k_buffer, k_arg, TkRing, k_local>>
          /\ k_pc[t] = "take_exchange" /\ k_local[t].head < k_tail
          /\ \A u \in Threads \ {t} : k_pc'[u] = k_pc[u]
      BY <1>10, <1>t DEF tk!TakeExchange, TkRing, TkInv, TkTake, TkTypes
    <2>2. /\ tk!Hand(t) = None
          /\ t = Owner => k_buffer = None /\ k_arg = None
      BY <2>1, TkMapped DEF TkInv, TkHands, TkArrayLabels, TkPushLabels
    <2>3. \A u \in Threads \ {t} : tk!Hand(u)' = tk!Hand(u)
      BY <2>1, TkMapped, TkMappedNext
    <2>4. CASE k_head = k_local[t].head
      <3>1. /\ k_head' = k_head + 1 /\ k_pc'[t] = "return" /\ k_head < k_tail
            /\ k_local[t].elt = CA_GET(TkRing, k_head)
        BY <1>10, <1>t, <2>1, <2>4 DEF tk!TakeExchange, TkTypes, TkInv, TkTake
      <3>2. /\ tk!Items # << >> /\ Head(tk!Items) = CA_GET(TkRing, k_head)
            /\ Tail(tk!Items) = tk!Items'
        <4>1. \A n \in k_head .. k_tail - 1 : CA_GET(TkRing, n) \in Elts
          BY DEF TkInv, TkElements
        <4>2. /\ Content(TkRing, k_head, k_tail) # << >>
              /\ Head(Content(TkRing, k_head, k_tail)) = CA_GET(TkRing, k_head)
              /\ Tail(Content(TkRing, k_head, k_tail)) = Content(TkRing, k_head + 1, k_tail)
          BY <3>1, <4>1, <1>n, ContentHead
        <4>3. QED
          BY <2>1, <3>1, <4>2, TkMapped, TkMappedNext
      <3>3. tk!Abstract!Hold(t, CA_GET(TkRing, k_head))
        <4>1. tk!Hand(t)' = CA_GET(TkRing, k_head)
          BY <2>1, <3>1, TkMappedNext
        <4>2. QED
          BY <2>3, <4>1, TkHandChanged
      <3>4. QED
        BY <2>1, <2>2, <3>2, <3>3, TkSame DEF tk!Abstract!Take
    <2>5. CASE k_head # k_local[t].head
      <3>1. k_head' = k_head /\ k_pc'[t] = "take_head"
        BY <1>10, <1>t, <2>5 DEF tk!TakeExchange, TkTypes
      <3>2. tk!Hand(t)' = tk!Hand(t)
        BY <2>1, <3>1, TkMapped, TkMappedNext
      <3>3. QED
        BY <2>1, <2>3, <3>1, <3>2, TkItemsSame, TkStutters
    <2>6. QED
      BY <2>4, <2>5
  <1>11. ASSUME NEW t \in Threads, tk!Return(t)
         PROVE  tk!Abstract!Done(t)
    <2>1. /\ UNCHANGED <<k_head, k_tail, k_buffer, k_arg, TkRing>>
          /\ k_pc[t] = "return" /\ k_pc'[t] = "idle"
          /\ \A u \in Threads \ {t} : k_pc'[u] = k_pc[u] /\ k_local'[u] = k_local[u]
      BY <1>11, <1>t DEF tk!Return, TkRing, TkTypes
    <2>2. /\ tk!Hand(t) # None /\ tk!Hand(t)' = None
          /\ \A u \in Threads \ {t} : tk!Hand(u)' = tk!Hand(u)
      BY <2>1, <1>o, TkMapped, TkMappedNext DEF TkInv, TkHands
    <2>3. tk!Abstract!Hold(t, None)
      BY <2>2, TkHandChanged
    <2>4. QED
      BY <2>1, <2>2, <2>3, TkItemsSame, TkSame DEF tk!Abstract!Done
  <1>12. CASE UNCHANGED tkVars
    <2>1. UNCHANGED <<k_head, k_tail, k_buffer, k_arg, TkRing, k_pc, k_local>>
      BY <1>12 DEF tkVars, TkRing
    <2>2. \A u \in Threads : tk!Hand(u)' = tk!Hand(u)
      BY <2>1, TkMapped, TkMappedNext
    <2>3. QED
      BY <2>1, <2>2, TkItemsSame, TkStutters
  <1>13. QED
    BY <1>1, <1>2, <1>3, <1>4, <1>5, <1>6, <1>7, <1>8, <1>9, <1>10, <1>11, <1>12, TkSame
       DEF tk!Next, tk!PushStep, tk!TakeStep, tk!Abstract!Next

\* tk_queue.c: what the owner and the thieves rely on.
THEOREM TkInvariant == Spec => []TkInv
  <1>1. Init => TkInv
    BY TkInitInv DEF Init
  <1>2. [Next]_vars => [tk!Next]_tkVars
    BY DEF Next, vars, tkVars, Tl, Tk, Cl
  <1>3. QED
    BY <1>1, <1>2, TkStepInv, PTL DEF Spec

\* Whatever the threads do, tk_queue.c is one atomic queue, as long as no steal
\* meets a push that grows the array.
LEMMA TkRefinement == Spec => tk!ImplementsWorkQueue
  <1>1. Init => tk!Abstract!Init
    BY TkInitMapped DEF Init
  <1>2. [Next]_vars => [tk!Next]_tkVars
    BY DEF Next, vars, tkVars, Tl, Tk, Cl
  <1>3. TkInv /\ TkInv' /\ [Next]_vars => [tk!Abstract!Next]_(tk!Abstract!queueVars)
    BY <1>2, TkStepMapped
  <1>4. QED
    BY <1>1, <1>3, TkInvariant, PTL DEF Spec, tk!ImplementsWorkQueue, tk!Abstract!Spec

-----------------------------------------------------------------------------
(* cl_queue.c *)

ClPushLabels == {"push", "push_grow", "push_store", "push_bottom"}
ClPopLabels == {"pop_top", "pop_exchange", "pop_restore"}
ClStealLabels == {"steal_bottom", "steal_array", "steal_read", "steal_exchange"}
ClValues == Elts \cup {None, EMPTY, ABORT, Junk}

\* What the owner has stored, at one moment: arrays 0 to the queue's own.
Rings == UNION {[0 .. n - 1 -> Elts \cup {Junk}] : n \in Nat \ {0}}
Snapshots == UNION {[bottom : Int, array : {a}, memory : [0 .. a -> Rings]] : a \in Nat}

\* The ring the owner uses.
ClRing == cl!Mine.memory[cl!Mine.array]

\* Up to where a thief that sees the i-th of the owner's stores finds elements:
\* a pop that has lowered bottom has not taken anything yet.
ClEnd(i) == IF i = Len(c_writes) THEN cl!Bottom ELSE c_writes[i].bottom

ClTypes ==
    /\ c_top \in Nat
    /\ c_writes \in Seq(Snapshots) /\ Len(c_writes) # 0
    /\ c_arg \in Elts \cup {None}
    /\ c_local \in [Threads -> [top : Nat, arr : Nat, elt : ClValues]]
    /\ DOMAIN c_pc = Threads
    /\ c_pc[Owner] \in ClPushLabels \cup ClPopLabels \cup {"idle", "return"}
    /\ \A t \in Thieves : c_pc[t] \in ClStealLabels \cup {"idle", "return"}

\* What a call has in its hands at each of its steps.
ClHands ==
    /\ c_arg # None <=> c_pc[Owner] \in ClPushLabels
    /\ \A t \in Threads : c_pc[t] \in {"return", "pop_restore"} =>
        c_local[t].elt \in Elts \cup {EMPTY, ABORT}

\* The owner's stores reach memory one after another: arrays are replaced by newer
\* ones, and until a pop has waited for its fence bottom only rises.
ClStores ==
    /\ \A i, j \in 1 .. Len(c_writes) : i =< j =>
        c_writes[i].array =< c_writes[j].array /\ ClEnd(i) =< ClEnd(j)
    /\ c_pc[Owner] \in {"pop_exchange", "pop_restore"} => Len(c_writes) = 1

\* The elements between top and bottom are in the ring, and whoever sees an older
\* store finds the same elements there, also when the array has been replaced since.
ClElements ==
    /\ c_top =< cl!Bottom
    /\ cl!Bottom - c_top =< Size(ClRing)
    /\ \A k \in c_top .. cl!Bottom - 1 : CA_GET(ClRing, k) \in Elts
    /\ \A i, j \in 1 .. Len(c_writes) : i =< j =>
        \A k \in c_top .. ClEnd(i) - 1 :
            CA_GET(c_writes[j].memory[c_writes[i].array], k) = CA_GET(ClRing, k)

\* A push copies at most a ring, and writes a place that is free whatever the
\* thieves have taken since it read top.
ClPush ==
    /\ c_pc[Owner] = "push_grow" =>
        c_local[Owner].top =< c_top /\ cl!Mine.bottom - c_local[Owner].top =< Size(ClRing)
    /\ c_pc[Owner] \in {"push_store", "push_bottom"} => cl!Mine.bottom - c_top < Size(ClRing)
    /\ c_pc[Owner] = "push_bottom" => CA_GET(ClRing, cl!Mine.bottom) = c_arg

\* A pop races for the last element, or has found none, or has lost it.
ClPop ==
    /\ c_pc[Owner] = "pop_exchange" =>
        /\ c_local[Owner].top = cl!Mine.bottom /\ c_local[Owner].top =< c_top
        /\ c_local[Owner].elt \in Elts
        /\ c_local[Owner].elt = CA_GET(ClRing, cl!Mine.bottom)
    /\ c_pc[Owner] = "pop_restore" => c_top = cl!Bottom

\* A steal: the top it has read is one the queue had, and if it is the queue's
\* still then the oldest element is there, in the array the thief knows too.
ClSteal ==
    \A t \in Thieves :
        /\ c_pc[t] \in ClStealLabels => c_local[t].top =< c_top
        /\ c_pc[t] = "steal_read" => c_local[t].arr =< c_writes[1].array
        /\ c_pc[t] \in {"steal_array", "steal_read"} /\ c_local[t].top = c_top =>
            c_top < ClEnd(1)
        /\ c_pc[t] = "steal_read" /\ c_local[t].top = c_top =>
            \A j \in 1 .. Len(c_writes) :
                CA_GET(c_writes[j].memory[c_local[t].arr], c_top) = CA_GET(ClRing, c_top)
        /\ c_pc[t] = "steal_exchange" /\ c_local[t].top = c_top =>
            c_top < cl!Bottom /\ c_local[t].elt = CA_GET(ClRing, c_top)

ClInv == ClTypes /\ ClHands /\ ClStores /\ ClElements /\ ClPush /\ ClPop /\ ClSteal

\* The operators of CircularArray are the same seen through ClQueue.
LEMMA ClSame ==
    /\ cl!Threads = Threads
    /\ \A r, n, m, e : /\ cl!CA_GET(r, n) = CA_GET(r, n)
                       /\ cl!CA_SET(r, n, e) = CA_SET(r, n, e)
                       /\ cl!Size(r) = Size(r)
                       /\ cl!Allocated(r, n, e) = Allocated(r, n, e)
                       /\ cl!circular_array_resize(r, n, m) = circular_array_resize(r, n, m)
    /\ \A n : cl!circular_array_new(n) = circular_array_new(n)
  <1>1. cl!Threads = Threads
    BY DEF cl!Threads, Threads
  <1>2. \A S : cl!Cardinality(S) = Cardinality(S)
    BY DEF cl!Cardinality, Cardinality
  <1>3. \A r : cl!Size(r) = Size(r)
    BY <1>2 DEF cl!Size, Size
  <1>4. \A r, n : cl!CA_GET(r, n) = CA_GET(r, n)
    BY <1>3 DEF cl!CA_GET, CA_GET
  <1>5. \A r, n, e : cl!CA_SET(r, n, e) = CA_SET(r, n, e)
    BY <1>3 DEF cl!CA_SET, CA_SET
  <1>6. \A r, n, e : cl!Allocated(r, n, e) = Allocated(r, n, e)
    BY DEF cl!Allocated, Allocated
  <1>7. \A r, n, m : cl!circular_array_resize(r, n, m) = circular_array_resize(r, n, m)
    BY <1>3, <1>4, ZenonT(30) DEF cl!circular_array_resize, circular_array_resize, cl!Copied, Copied
  <1>8. \A n : cl!circular_array_new(n) = circular_array_new(n)
    BY DEF cl!circular_array_new, circular_array_new
  <1>9. QED
    BY <1>1, <1>3, <1>4, <1>5, <1>6, <1>7, <1>8

\* The set of rings is what IsRing and HasElts say.
LEMMA RingType ==
    ASSUME NEW r
    PROVE  r \in Rings <=> IsRing(r) /\ HasElts(r)
  <1>1. ASSUME r \in Rings PROVE IsRing(r) /\ HasElts(r)
    <2>1. PICK n \in Nat \ {0} : r \in [0 .. n - 1 -> Elts \cup {Junk}]
      BY <1>1 DEF Rings
    <2>2. IsRing(r) /\ Size(r) = n
      BY <2>1, RingOfSize
    <2>3. \A k \in Nat : k % n \in 0 .. n - 1
      BY PlaceInRing
    <2>4. QED
      BY <2>1, <2>2, <2>3 DEF HasElts, CA_GET
  <1>2. ASSUME IsRing(r), HasElts(r) PROVE r \in Rings
    <2>1. PICK n \in Nat \ {0} : n = Size(r) /\ DOMAIN r = 0 .. n - 1 /\ r = [i \in DOMAIN r |-> r[i]]
      BY <1>2 DEF IsRing
    <2>2. ASSUME NEW i \in 0 .. n - 1 PROVE r[i] \in Elts \cup {Junk}
      <3>1. i % n = i
        BY SMTT(30)
      <3>2. QED
        BY <1>2, <2>1, <3>1 DEF HasElts, CA_GET
    <2>3. r \in [0 .. n - 1 -> Elts \cup {Junk}]
      BY <2>1, <2>2
    <2>4. QED
      BY <2>3 DEF Rings
  <1>3. QED
    BY <1>1, <1>2

\* The parts of what the owner has stored.
LEMMA SnapType ==
    ASSUME NEW w \in Snapshots
    PROVE  /\ w.bottom \in Int /\ w.array \in Nat
           /\ DOMAIN w.memory = 0 .. w.array
           /\ \A a \in 0 .. w.array : w.memory[a] \in Rings
  BY DEF Snapshots

\* A record of what the owner has stored, part by part.
LEMMA SnapParts ==
    ASSUME NEW w \in Snapshots, NEW n, NEW m
    PROVE  /\ [w EXCEPT !.memory = m] = [bottom |-> w.bottom, array |-> w.array, memory |-> m]
           /\ [w EXCEPT !.memory = m, !.array = n] = [bottom |-> w.bottom, array |-> n, memory |-> m]
  <1>1. PICK a \in Nat : w \in [bottom : Int, array : {a}, memory : [0 .. a -> Rings]]
    BY DEF Snapshots
  <1>2. DOMAIN w = {"bottom", "array", "memory"} /\ w = [f \in DOMAIN w |-> w[f]]
    BY <1>1
  <1>3. [w EXCEPT !.memory = m] = [bottom |-> w.bottom, array |-> w.array, memory |-> m]
    BY <1>2
  <1>4. [w EXCEPT !.memory = m, !.array = n] = [bottom |-> w.bottom, array |-> n, memory |-> m]
    <2>1. PICK x : x = [bottom |-> w.bottom, array |-> w.array, memory |-> m]
      OBVIOUS
    <2>2. [x EXCEPT !.array = n] = [bottom |-> w.bottom, array |-> n, memory |-> m]
      BY <2>1
    <2>3. QED
      BY <1>3, <2>1, <2>2
  <1>5. QED
    BY <1>3, <1>4

\* A store of bottom.
LEMMA SnapBottom ==
    ASSUME NEW w \in Snapshots, NEW b \in Int, NEW v, v = [w EXCEPT !.bottom = b]
    PROVE  v \in Snapshots /\ v.bottom = b /\ v.array = w.array /\ v.memory = w.memory
  <1>1. PICK a \in Nat : w \in [bottom : Int, array : {a}, memory : [0 .. a -> Rings]]
    BY DEF Snapshots
  <1>2. v \in [bottom : Int, array : {a}, memory : [0 .. a -> Rings]]
    BY <1>1
  <1>3. QED
    BY <1>1, <1>2 DEF Snapshots

\* A store of the array's address, to an array not seen before.
LEMMA SnapGrow ==
    ASSUME NEW w \in Snapshots, NEW r \in Rings, NEW m, m = Allocated(w.memory, w.array + 1, r),
           NEW v, v = [bottom |-> w.bottom, array |-> w.array + 1, memory |-> m]
    PROVE  /\ v \in Snapshots
           /\ v.bottom = w.bottom /\ v.array = w.array + 1
           /\ v.memory[v.array] = r
           /\ \A a \in 0 .. w.array : v.memory[a] = w.memory[a]
  <1>1. PICK a \in Nat : w \in [bottom : Int, array : {a}, memory : [0 .. a -> Rings]]
    BY DEF Snapshots
  <1>2. m \in [0 .. a + 1 -> Rings] /\ m[a + 1] = r /\ \A b \in 0 .. a : m[b] = w.memory[b]
    <2>1. DOMAIN w.memory = 0 .. a /\ w.array = a /\ \A b \in 0 .. a : w.memory[b] \in Rings
      BY <1>1
    <2>2. (0 .. a) \cup {a + 1} = 0 .. a + 1
      OBVIOUS
    <2>3. m = [b \in 0 .. a + 1 |-> IF b = a + 1 THEN r ELSE w.memory[b]]
      BY <2>1, <2>2 DEF Allocated
    <2>4. QED
      BY <2>1, <2>3
  <1>3. /\ v.bottom = w.bottom /\ v.array = a + 1 /\ v.memory = m
        /\ v \in [bottom : Int, array : {a + 1}, memory : [0 .. a + 1 -> Rings]]
    BY <1>1, <1>2
  <1>4. v \in Snapshots
    BY <1>3, a + 1 \in Nat DEF Snapshots
  <1>5. QED
    BY <1>1, <1>2, <1>3, <1>4

\* A store to a place of the array.
LEMMA SnapSet ==
    ASSUME NEW w \in Snapshots, NEW r \in Rings,
           NEW m, m = Allocated(w.memory, w.array, r),
           NEW v, v = [bottom |-> w.bottom, array |-> w.array, memory |-> m]
    PROVE  /\ v \in Snapshots
           /\ v.bottom = w.bottom /\ v.array = w.array
           /\ v.memory[v.array] = r
           /\ \A a \in 0 .. w.array : a # w.array => v.memory[a] = w.memory[a]
  <1>1. PICK a \in Nat : w \in [bottom : Int, array : {a}, memory : [0 .. a -> Rings]]
    BY DEF Snapshots
  <1>2. /\ m \in [0 .. a -> Rings] /\ m[a] = r
        /\ \A b \in 0 .. a : b # a => m[b] = w.memory[b]
    <2>1. w.memory \in [0 .. a -> Rings] /\ w.array = a /\ (0 .. a) \cup {a} = 0 .. a
      BY <1>1
    <2>2. m = [b \in 0 .. a |-> IF b = a THEN r ELSE w.memory[b]]
      BY <2>1 DEF Allocated
    <2>3. QED
      BY <2>1, <2>2
  <1>3. /\ v.bottom = w.bottom /\ v.array = a /\ v.memory = m
        /\ v \in [bottom : Int, array : {a}, memory : [0 .. a -> Rings]]
    BY <1>1, <1>2
  <1>4. v \in Snapshots
    BY <1>3, a \in Nat DEF Snapshots
  <1>5. QED
    BY <1>1, <1>2, <1>3, <1>4

-----------------------------------------------------------------------------

\* What the owner sees, and what the others see.
LEMMA ClView ==
    ASSUME ClTypes
    PROVE  /\ Len(c_writes) \in Nat \ {0}
           /\ cl!Mine = c_writes[Len(c_writes)] /\ cl!Mine \in Snapshots
           /\ cl!Visible = c_writes[1]
           /\ \A i \in 1 .. Len(c_writes) : c_writes[i] \in Snapshots
           /\ cl!Bottom = cl!Mine.bottom + (IF c_pc[Owner] \in ClPopLabels THEN 1 ELSE 0)
           /\ cl!Bottom \in Int
           /\ IsRing(ClRing) /\ HasElts(ClRing) /\ Size(ClRing) \in Nat \ {0}
  <1>1. Len(c_writes) \in Nat \ {0} /\ \A i \in 1 .. Len(c_writes) : c_writes[i] \in Snapshots
    BY DEF ClTypes
  <1>2. cl!Mine = c_writes[Len(c_writes)] /\ cl!Mine \in Snapshots
    BY <1>1 DEF cl!Mine
  <1>3. cl!Visible = c_writes[1]
    BY DEF cl!Visible, ClTypes
  <1>4. cl!Mine.bottom \in Int /\ ClRing \in Rings
    BY <1>2, SnapType DEF ClRing
  <1>5. cl!Bottom = cl!Mine.bottom + (IF c_pc[Owner] \in ClPopLabels THEN 1 ELSE 0)
    BY <1>4 DEF cl!Bottom, ClPopLabels
  <1>6. IsRing(ClRing) /\ HasElts(ClRing) /\ Size(ClRing) \in Nat \ {0}
    BY <1>4, RingType DEF IsRing
  <1>7. QED
    BY <1>1, <1>2, <1>3, <1>4, <1>5, <1>6

\* The same of bottom in the next state.
LEMMA ClBottomNext ==
    ASSUME ClTypes'
    PROVE  /\ cl!Bottom' \in Int /\ cl!Mine' \in Snapshots
           /\ cl!Bottom' = cl!Mine'.bottom + (IF c_pc'[Owner] \in ClPopLabels THEN 1 ELSE 0)
  <1>1. Len(c_writes') \in Nat \ {0} /\ \A i \in 1 .. Len(c_writes') : c_writes'[i] \in Snapshots
    BY DEF ClTypes
  <1>2. cl!Mine' \in Snapshots
    BY <1>1 DEF cl!Mine
  <1>3. cl!Mine'.bottom \in Int
    BY <1>2, SnapType
  <1>4. cl!Bottom' = cl!Mine'.bottom + (IF c_pc'[Owner] \in ClPopLabels THEN 1 ELSE 0)
    BY <1>3 DEF cl!Bottom, ClPopLabels
  <1>5. QED
    BY <1>2, <1>3, <1>4

\* A store joins the owner's buffer.
LEMMA ClStored ==
    ASSUME ClTypes, NEW v \in Snapshots, c_writes' = Append(c_writes, v)
    PROVE  /\ c_writes' \in Seq(Snapshots) /\ Len(c_writes') # 0
           /\ Len(c_writes') = Len(c_writes) + 1
           /\ \A i \in 1 .. Len(c_writes) : c_writes'[i] = c_writes[i]
           /\ c_writes'[Len(c_writes) + 1] = v
           /\ cl!Mine' = v
  <1>1. c_writes \in Seq(Snapshots)
    BY DEF ClTypes
  <1>2. QED
    BY <1>1 DEF cl!Mine

\* The oldest store reaches memory.
LEMMA ClFlushed ==
    ASSUME ClTypes, Len(c_writes) # 1, c_writes' = Tail(c_writes)
    PROVE  /\ c_writes' \in Seq(Snapshots) /\ Len(c_writes') # 0
           /\ Len(c_writes') = Len(c_writes) - 1
           /\ \A i \in 1 .. Len(c_writes) - 1 : c_writes'[i] = c_writes[i + 1]
           /\ cl!Mine' = cl!Mine
  <1>0. c_writes \in Seq(Snapshots) /\ Len(c_writes) # 0
    BY DEF ClTypes
  <1>1. c_writes \in Seq(Snapshots) /\ Len(c_writes) \in Nat /\ Len(c_writes) > 1
    <2>1. PICK n \in Nat : n = Len(c_writes)
      BY <1>0, LenProperties
    <2>2. n > 1
      BY <1>0, <2>1
    <2>3. QED
      BY <1>0, <2>1, <2>2
  <1>2. /\ c_writes' \in Seq(Snapshots)
        /\ Len(c_writes') = Len(c_writes) - 1
        /\ \A i \in 1 .. Len(c_writes) - 1 : c_writes'[i] = c_writes[i + 1]
    BY <1>1
  <1>3. cl!Mine' = cl!Mine
    <2>1. c_writes'[Len(c_writes) - 1] = c_writes[Len(c_writes)]
      BY <1>1, <1>2, Len(c_writes) - 1 \in 1 .. Len(c_writes) - 1
    <2>2. QED
      BY <2>1, <1>2 DEF cl!Mine
  <1>4. Len(c_writes') # 0
    BY <1>1, <1>2
  <1>5. QED
    BY <1>2, <1>3, <1>4

\* cl_queue_init leaves an empty queue over a new ring, and an empty store buffer.
LEMMA ClInitInv == cl!Init => ClInv
  <1> SUFFICES ASSUME cl!Init PROVE ClInv
    OBVIOUS
  <1>o. Owner \in Threads /\ Thieves \subseteq Threads
    BY DEF Threads
  <1>1. PICK w : w = [bottom |-> 0, array |-> 0,
                      memory |-> [a \in {0} |-> circular_array_new(log_size)]]
    OBVIOUS
  <1>2. /\ c_top = 0 /\ c_writes = << w >> /\ c_arg = None
        /\ c_pc = [t \in Threads |-> "idle"]
        /\ c_local = [t \in Threads |-> [top |-> 0, arr |-> 0, elt |-> None]]
    BY <1>1, ClSame DEF cl!Init, cl!NoLocals
  <1>3. /\ w \in Snapshots /\ w.bottom = 0
        /\ w.memory[w.array] = circular_array_new(log_size)
    <2>1. circular_array_new(log_size) \in Rings
      BY NewRing, NewHasElts, RingType
    <2>2. 0 .. 0 = {0}
      OBVIOUS
    <2>3. w \in [bottom : Int, array : {0}, memory : [0 .. 0 -> Rings]]
      BY <1>1, <2>1, <2>2
    <2>4. QED
      BY <1>1, <2>3 DEF Snapshots
  <1>4. c_writes \in Seq(Snapshots) /\ Len(c_writes) = 1 /\ c_writes[1] = w
    BY <1>2, <1>3
  <1>5. ClTypes
    BY <1>2, <1>4, <1>o DEF ClTypes, ClValues
  <1>6. cl!Mine = w /\ cl!Bottom = 0
    BY <1>2, <1>3, <1>4, <1>5, <1>o, ClView DEF ClPopLabels
  <1>7. ClHands /\ ClPush /\ ClPop /\ ClSteal
    BY <1>2, <1>o DEF ClHands, ClPush, ClPop, ClSteal, ClPushLabels, ClStealLabels
  <1>8. ClStores
    BY <1>2, <1>3, <1>4, <1>6, <1>o, SnapType DEF ClStores, ClEnd
  <1>9. ClElements
    BY <1>2, <1>3, <1>4, <1>5, <1>6, ClView DEF ClElements, ClEnd
  <1>10. QED
    BY <1>5, <1>7, <1>8, <1>9 DEF ClInv

\* What a store of the owner leaves true of the elements and of the thieves: it
\* changes nothing at the indices at which there are elements, in no array.
LEMMA ClStoreKeeps ==
    ASSUME ClInv, NEW v \in Snapshots, c_writes' = Append(c_writes, v), c_top' = c_top,
           ClTypes',
           \A t \in Thieves : c_pc'[t] = c_pc[t] /\ c_local'[t] = c_local[t],
           cl!Mine.array =< v.array,
           cl!Mine.bottom = cl!Bottom \/ (Len(c_writes) = 1 /\ c_top = cl!Bottom),
           cl!Bottom =< cl!Bottom',
           cl!Bottom' - c_top =< Size(v.memory[v.array]),
           \A k \in c_top .. cl!Bottom' - 1 : CA_GET(v.memory[v.array], k) \in Elts,
           \A k \in c_top .. cl!Mine.bottom - 1 :
             /\ CA_GET(v.memory[v.array], k) = CA_GET(ClRing, k)
             /\ \A a \in 0 .. cl!Mine.array : CA_GET(v.memory[a], k) = CA_GET(cl!Mine.memory[a], k),
           c_pc'[Owner] \notin {"pop_exchange", "pop_restore"}
    PROVE  ClStores' /\ ClElements' /\ ClSteal'
  <1>1. PICK n \in Nat \ {0}, m \in Snapshots :
          /\ n = Len(c_writes) /\ m = cl!Mine /\ m = c_writes[n]
          /\ m.bottom \in Int /\ m.bottom =< cl!Bottom /\ cl!Bottom \in Int /\ m.array \in Nat
          /\ \A i \in 1 .. n : c_writes[i] \in Snapshots
          /\ ClRing = m.memory[m.array]
    BY ClView, SnapType DEF ClInv, ClRing
  <1>2. /\ Len(c_writes') = n + 1 /\ c_writes'[n + 1] = v /\ cl!Mine' = v
        /\ \A i \in 1 .. n : c_writes'[i] = c_writes[i]
    BY <1>1, ClStored DEF ClInv
  <1>3. c_top \in Nat /\ cl!Bottom' \in Int /\ v.array \in Nat /\ v.bottom \in Int
    BY ClBottomNext, SnapType DEF ClInv, ClTypes
  <1>4. \A i \in 1 .. n : c_writes[i].bottom \in Int /\ c_writes[i].array \in Nat
    BY <1>1, SnapType
  <1>5. /\ \A i \in 1 .. n : ClEnd(i) = IF i = n THEN cl!Bottom ELSE c_writes[i].bottom
        /\ \A i \in 1 .. n + 1 : ClEnd(i)' =
                IF i = n + 1 THEN cl!Bottom' ELSE IF i = n THEN m.bottom ELSE c_writes[i].bottom
    BY <1>1, <1>2 DEF ClEnd
  <1>6. \A i \in 1 .. n + 1 : ClEnd(i)' \in Int
    <2>1. ASSUME NEW i \in 1 .. n + 1 PROVE ClEnd(i)' \in Int
      <3>1. CASE i = n + 1
        BY <3>1, <1>3, <1>5
      <3>2. CASE i = n
        BY <3>2, <1>1, <1>5
      <3>3. CASE i # n + 1 /\ i # n
        <4>1. i \in 1 .. n
          BY <3>3
        <4>2. QED
          BY <3>3, <4>1, <1>4, <1>5
      <3>4. QED
        BY <3>1, <3>2, <3>3
    <2>2. QED
      BY <2>1
  <1>7. \A i, j \in 1 .. n : i =< j => c_writes[i].array =< c_writes[j].array /\ ClEnd(i) =< ClEnd(j)
    BY <1>1 DEF ClInv, ClStores
  <1>8. \A i \in 1 .. n : ClEnd(i)' =< m.bottom /\ ClEnd(i)' =< ClEnd(i) /\ c_writes[i].array =< m.array
    <2> SUFFICES ASSUME NEW i \in 1 .. n
                 PROVE  ClEnd(i)' =< m.bottom /\ ClEnd(i)' =< ClEnd(i) /\ c_writes[i].array =< m.array
      OBVIOUS
    <2>1. ClEnd(i) =< cl!Bottom /\ c_writes[i].array =< m.array
      BY <1>1, <1>5, <1>7, n \in 1 .. n, i =< n
    <2>2. CASE i = n
      BY <2>1, <2>2, <1>1, <1>5
    <2>3. CASE i # n
      BY <2>1, <2>3, <1>1, <1>4, <1>5
    <2>4. QED
      BY <2>1, <2>2, <2>3
  <1>9. ClStores'
    <2>1. ASSUME NEW i \in 1 .. n + 1, NEW j \in 1 .. n + 1, i =< j
          PROVE  c_writes'[i].array =< c_writes'[j].array /\ ClEnd(i)' =< ClEnd(j)'
      <3>1. CASE j = n + 1 /\ i = n + 1
        BY <3>1, <1>2, <1>3, <1>6
      <3>2. CASE j = n + 1 /\ i # n + 1
        <4>1. i \in 1 .. n
          BY <3>2
        <4>2. c_writes[i].array =< m.array /\ m.array =< v.array
          BY <4>1, <1>8, <1>1
        <4>3. ClEnd(i)' =< m.bottom /\ m.bottom =< cl!Bottom'
          BY <4>1, <1>1, <1>3, <1>8
        <4>4. QED
          <5>1. c_writes'[i].array =< c_writes'[j].array
            BY <3>2, <4>1, <4>2, <1>1, <1>2, <1>3, <1>4
          <5>2. ClEnd(j)' = cl!Bottom' /\ ClEnd(i)' \in Int
            BY <3>2, <1>5, <1>6
          <5>3. ClEnd(i)' =< ClEnd(j)'
            BY <4>3, <5>2, <1>1, <1>3
          <5>4. QED
            BY <5>1, <5>3
      <3>3. CASE j # n + 1
        <4>1. i \in 1 .. n /\ j \in 1 .. n
          BY <2>1, <3>3
        <4>2. c_writes[i].array =< c_writes[j].array
          BY <4>1, <2>1, <1>7
        <4>3. ClEnd(i)' =< ClEnd(j)'
          <5>1. CASE j = n
            BY <5>1, <4>1, <1>5, <1>8
          <5>2. CASE j # n
            BY <5>2, <4>1, <2>1, <1>5, <1>7
          <5>3. QED
            BY <5>1, <5>2
        <4>4. QED
          BY <4>1, <4>2, <4>3, <1>2
      <3>4. QED
        BY <3>1, <3>2, <3>3
    <2>2. QED
      BY <2>1, <1>2 DEF ClStores
  <1>10. ClElements'
    <2>1. /\ c_top' =< cl!Bottom'
          /\ cl!Bottom' - c_top' =< Size(ClRing')
          /\ \A k \in c_top' .. cl!Bottom' - 1 : CA_GET(ClRing', k) \in Elts
      BY <1>1, <1>2, <1>3 DEF ClInv, ClElements, ClRing
    <2>2. ASSUME NEW i \in 1 .. n + 1, NEW j \in 1 .. n + 1, i =< j,
                 NEW k \in c_top .. ClEnd(i)' - 1
          PROVE  CA_GET(c_writes'[j].memory[c_writes'[i].array], k) = CA_GET(ClRing', k)
      <3>1. ClRing' = v.memory[v.array]
        BY <1>2 DEF ClRing
      <3>2. CASE i = n + 1
        BY <2>2, <3>1, <3>2, <1>2
      <3>3. CASE i # n + 1
        <4>1. i \in 1 .. n /\ k \in c_top .. m.bottom - 1 /\ k \in c_top .. ClEnd(i) - 1
          <5>1. i \in 1 .. n /\ ClEnd(i)' =< m.bottom /\ ClEnd(i)' =< ClEnd(i)
            BY <3>3, <1>8
          <5>2. ClEnd(i) \in Int /\ ClEnd(i)' \in Int
            BY <5>1, <1>1, <1>4, <1>5, <1>6
          <5>3. QED
            <6>1. PICK p \in Int, q \in Int, b \in Int, s \in Int :
                    p = ClEnd(i) /\ q = ClEnd(i)' /\ b = m.bottom /\ s = c_top
              BY <5>2, <1>1, <1>3, SMTT(30)
            <6>2. k \in s .. q - 1 /\ q =< p /\ q =< b
              BY <2>2, <5>1, <6>1
            <6>3. k \in s .. p - 1 /\ k \in s .. b - 1
              BY <6>2
            <6>4. QED
              BY <5>1, <6>1, <6>3
        <4>2. CA_GET(ClRing', k) = CA_GET(ClRing, k)
          BY <4>1, <3>1, <1>1
        <4>3. CASE j = n + 1
          <5>1. CA_GET(c_writes[n].memory[c_writes[i].array], k) = CA_GET(ClRing, k)
            BY <4>1, <1>1, n \in 1 .. n, i =< n DEF ClInv, ClElements
          <5>2. CA_GET(v.memory[c_writes[i].array], k) = CA_GET(m.memory[c_writes[i].array], k)
            BY <4>1, <1>1, <1>4, <1>8
          <5>3. QED
            BY <4>1, <4>2, <4>3, <5>1, <5>2, <1>1, <1>2
        <4>4. CASE j # n + 1
          <5>1. j \in 1 .. n
            BY <4>4
          <5>2. CA_GET(c_writes[j].memory[c_writes[i].array], k) = CA_GET(ClRing, k)
            BY <4>1, <5>1, <2>2, <1>1 DEF ClInv, ClElements
          <5>3. QED
            BY <4>1, <4>2, <5>1, <5>2, <1>2
        <4>5. QED
          BY <4>3, <4>4
      <3>4. QED
        BY <3>2, <3>3
    <2>3. QED
      BY <2>1, <2>2, <1>2 DEF ClElements
  <1>11. ASSUME NEW t \in Thieves
         PROVE  /\ c_pc'[t] \in ClStealLabels => c_local'[t].top =< c_top'
                /\ c_pc'[t] = "steal_read" => c_local'[t].arr =< c_writes'[1].array
                /\ c_pc'[t] \in {"steal_array", "steal_read"} /\ c_local'[t].top = c_top' =>
                    c_top' < ClEnd(1)'
                /\ c_pc'[t] = "steal_read" /\ c_local'[t].top = c_top' =>
                    \A j \in 1 .. Len(c_writes') :
                        CA_GET(c_writes'[j].memory[c_local'[t].arr], c_top') = CA_GET(ClRing', c_top')
                /\ c_pc'[t] = "steal_exchange" /\ c_local'[t].top = c_top' =>
                    c_top' < cl!Bottom' /\ c_local'[t].elt = CA_GET(ClRing', c_top')
    <2>1. c_pc'[t] \in ClStealLabels => c_local'[t].top =< c_top'
      BY DEF ClInv, ClSteal
    <2>2. c_pc'[t] = "steal_read" => c_local'[t].arr =< c_writes'[1].array
      BY <1>1, <1>2 DEF ClInv, ClSteal
    <2>3. c_top < cl!Bottom => c_top < m.bottom /\ c_top \in c_top .. m.bottom - 1
                               /\ c_top < cl!Bottom'
      BY <1>1, <1>3
    <2>4. ClRing' = v.memory[v.array]
      BY <1>2 DEF ClRing
    <2>5. c_top < ClEnd(1) => c_top < ClEnd(1)' /\ c_top < cl!Bottom
      <3>1. ClEnd(1) =< cl!Bottom /\ ClEnd(1) \in Int
        BY <1>1, <1>4, <1>5, <1>7, 1 \in 1 .. n, n \in 1 .. n, 1 =< n
      <3>2. CASE n = 1
        BY <3>1, <3>2, <2>3, <1>5
      <3>3. CASE n # 1
        <4>1. 1 \in 1 .. n /\ 1 \in 1 .. n + 1 /\ 1 # n + 1
          BY <1>1
        <4>2. ClEnd(1)' = ClEnd(1)
          BY <3>3, <4>1, <1>5
        <4>3. QED
          BY <3>1, <4>2, <1>1, <1>3
      <3>4. QED
        BY <3>2, <3>3
    <2>6. c_pc[t] \in {"steal_array", "steal_read"} /\ c_local[t].top = c_top => c_top < ClEnd(1)
      BY DEF ClInv, ClSteal
    <2>7. ASSUME c_pc[t] = "steal_read", c_local[t].top = c_top, NEW j \in 1 .. n + 1
          PROVE  CA_GET(c_writes'[j].memory[c_local[t].arr], c_top) = CA_GET(ClRing', c_top)
      <3>1. c_top \in c_top .. m.bottom - 1
        BY <2>3, <2>5, <2>6, <2>7
      <3>2. c_local[t].arr \in 0 .. m.array
        <4>1. c_local[t].arr \in Nat /\ c_local[t].arr =< c_writes[1].array
          BY <2>7 DEF ClInv, ClTypes, ClSteal, Threads
        <4>2. c_writes[1].array =< m.array /\ c_writes[1].array \in Nat
          BY <1>1, <1>4, <1>8
        <4>3. QED
          BY <4>1, <4>2, <1>1
      <3>3. CA_GET(ClRing', c_top) = CA_GET(ClRing, c_top)
        BY <3>1, <2>4, <1>1
      <3>4. CASE j = n + 1
        <4>1. CA_GET(m.memory[c_local[t].arr], c_top) = CA_GET(ClRing, c_top)
          BY <2>7, <1>1, n \in 1 .. n DEF ClInv, ClSteal
        <4>2. CA_GET(v.memory[c_local[t].arr], c_top) = CA_GET(m.memory[c_local[t].arr], c_top)
          BY <3>1, <3>2, <1>1
        <4>3. QED
          BY <3>3, <3>4, <4>1, <4>2, <1>2
      <3>5. CASE j # n + 1
        <4>1. CA_GET(c_writes[j].memory[c_local[t].arr], c_top) = CA_GET(ClRing, c_top)
          BY <3>5, <2>7, <1>1 DEF ClInv, ClSteal
        <4>2. QED
          BY <3>3, <3>5, <4>1, <1>2
      <3>6. QED
        BY <3>4, <3>5
    <2>8. c_pc[t] = "steal_exchange" /\ c_local[t].top = c_top =>
            c_top < cl!Bottom' /\ c_local[t].elt = CA_GET(ClRing', c_top)
      BY <2>3, <2>4, <1>1 DEF ClInv, ClSteal
    <2>9. QED
      BY <2>1, <2>2, <2>5, <2>6, <2>7, <2>8, <1>2
  <1>12. ClSteal'
    BY <1>11 DEF ClSteal
  <1>13. QED
    BY <1>9, <1>10, <1>12

\* A step that stores nothing leaves what is seen; unless a pop ends, so is bottom.
LEMMA ClNotStored ==
    ASSUME c_writes' = c_writes
    PROVE  /\ cl!Mine' = cl!Mine /\ ClRing' = ClRing /\ cl!Visible' = cl!Visible
           /\ (c_pc'[Owner] \in ClPopLabels <=> c_pc[Owner] \in ClPopLabels) =>
                cl!Bottom' = cl!Bottom /\ \A i : ClEnd(i)' = ClEnd(i)
  BY DEF cl!Mine, ClRing, cl!Visible, cl!Bottom, ClEnd, ClPopLabels

\* A step of a thief that takes nothing and leaves the owner's state alone.
LEMMA ClThiefKeeps ==
    ASSUME ClInv, NEW t \in Thieves, NEW l, NEW p \in ClStealLabels \cup {"idle", "return"},
           l \in [top : Nat, arr : Nat, elt : ClValues],
           c_local' = [c_local EXCEPT ![t] = l], c_pc' = [c_pc EXCEPT ![t] = p],
           UNCHANGED <<c_top, c_writes, c_arg>>,
           p = "return" => l.elt \in Elts \cup {EMPTY, ABORT},
           p \in ClStealLabels => l.top =< c_top,
           p = "steal_read" => l.arr =< c_writes[1].array,
           p \in {"steal_array", "steal_read"} /\ l.top = c_top => c_top < ClEnd(1),
           p = "steal_read" /\ l.top = c_top =>
             \A j \in 1 .. Len(c_writes) :
                CA_GET(c_writes[j].memory[l.arr], c_top) = CA_GET(ClRing, c_top),
           p = "steal_exchange" /\ l.top = c_top =>
             c_top < cl!Bottom /\ l.elt = CA_GET(ClRing, c_top)
    PROVE  ClInv'
  <1>o. Owner \in Threads /\ t \in Threads /\ Owner # t /\ Thieves \subseteq Threads
    BY ThreadsAssumption DEF Threads
  <1>1. /\ c_pc'[Owner] = c_pc[Owner] /\ c_local'[Owner] = c_local[Owner]
        /\ c_pc'[t] = p /\ c_local'[t] = l
        /\ \A u \in Threads \ {t} : c_pc'[u] = c_pc[u] /\ c_local'[u] = c_local[u]
    BY <1>o DEF ClInv, ClTypes
  <1>2. /\ cl!Mine' = cl!Mine /\ ClRing' = ClRing
        /\ cl!Bottom' = cl!Bottom /\ \A i : ClEnd(i)' = ClEnd(i)
    BY <1>1, ClNotStored
  <1>3. ClTypes'
    BY <1>1, <1>o DEF ClInv, ClTypes
  <1>4. ClHands'
    BY <1>1, <1>o DEF ClInv, ClHands, ClStealLabels
  <1>5. ClStores' /\ ClElements' /\ ClPush' /\ ClPop'
    BY <1>1, <1>2 DEF ClInv, ClStores, ClElements, ClPush, ClPop
  <1>6. ClSteal'
    <2>1. ASSUME NEW u \in Thieves, u # t
          PROVE  /\ c_pc'[u] \in ClStealLabels => c_local'[u].top =< c_top'
                 /\ c_pc'[u] = "steal_read" => c_local'[u].arr =< c_writes'[1].array
                 /\ c_pc'[u] \in {"steal_array", "steal_read"} /\ c_local'[u].top = c_top' =>
                     c_top' < ClEnd(1)'
                 /\ c_pc'[u] = "steal_read" /\ c_local'[u].top = c_top' =>
                     \A j \in 1 .. Len(c_writes') :
                        CA_GET(c_writes'[j].memory[c_local'[u].arr], c_top') = CA_GET(ClRing', c_top')
                 /\ c_pc'[u] = "steal_exchange" /\ c_local'[u].top = c_top' =>
                     c_top' < cl!Bottom' /\ c_local'[u].elt = CA_GET(ClRing', c_top')
      BY <1>1, <1>2, <1>o, <2>1 DEF ClInv, ClSteal
    <2>2. QED
      BY <1>1, <1>2, <2>1 DEF ClSteal
  <1>7. QED
    BY <1>3, <1>4, <1>5, <1>6 DEF ClInv

\* A step that moves top past the oldest element.
LEMMA ClTaken ==
    ASSUME ClInv, c_top' = c_top + 1, c_top < cl!Bottom, UNCHANGED <<c_writes, c_arg>>,
           cl!Bottom' = cl!Bottom,
           \A t \in Thieves : c_pc'[t] \in ClStealLabels =>
             c_pc'[t] = c_pc[t] /\ c_local'[t] = c_local[t],
           c_pc'[Owner] \in {"pop_exchange", "pop_restore"} => Len(c_writes) = 1
    PROVE  ClStores' /\ ClElements' /\ ClSteal'
  <1>1. cl!Mine' = cl!Mine /\ ClRing' = ClRing /\ \A i : ClEnd(i)' = ClEnd(i)
    BY ClNotStored DEF ClEnd
  <1>2. /\ c_top \in Nat /\ cl!Bottom \in Int /\ Size(ClRing) \in Nat
        /\ \A t \in Thieves : c_local[t].top \in Nat
    BY ClView DEF ClInv, ClTypes, Threads
  <1>3. ClStores'
    BY <1>1 DEF ClInv, ClStores
  <1>4. ClElements'
    <2>1. \A i : c_top + 1 .. ClEnd(i) - 1 \subseteq c_top .. ClEnd(i) - 1
      BY <1>2
    <2>2. QED
      BY <1>1, <1>2, <2>1 DEF ClInv, ClElements
  <1>5. \A t \in Thieves : c_pc'[t] \in ClStealLabels =>
            c_local'[t].top < c_top' /\ c_local'[t].top # c_top'
    BY <1>2 DEF ClInv, ClSteal
  <1>6. ClSteal'
    BY <1>1, <1>2, <1>5 DEF ClInv, ClSteal, ClStealLabels
  <1>7. QED
    BY <1>3, <1>4, <1>6

\* One step of any thread, of the store buffer, and the stuttering step.
LEMMA ClStepInv == ClInv /\ [cl!Next]_clVars => ClInv'
  <1> SUFFICES ASSUME ClInv, [cl!Next]_clVars PROVE ClInv'
    OBVIOUS
  <1> USE DEF cl!Goto, cl!NoLocals
  <1>o. /\ Owner \in Threads /\ Thieves \subseteq Threads /\ Owner \notin Thieves
        /\ Threads \ {Owner} \subseteq Thieves
        /\ None \notin Elts /\ EMPTY \notin Elts /\ Junk \notin Elts /\ None # EMPTY
        /\ ABORT \notin Elts /\ ABORT # None
    BY ThreadsAssumption, EltsAssumption, TaskQueuesAssumption DEF Threads
  <1>i. ClTypes /\ ClHands /\ ClStores /\ ClElements /\ ClPush /\ ClPop /\ ClSteal
    BY DEF ClInv
  <1>n. /\ c_top \in Nat /\ cl!Mine.bottom \in Int /\ cl!Bottom \in Int /\ cl!Mine.array \in Nat
        /\ Size(ClRing) \in Nat \ {0} /\ IsRing(ClRing) /\ HasElts(ClRing)
        /\ cl!Mine \in Snapshots
        /\ cl!Bottom = cl!Mine.bottom + (IF c_pc[Owner] \in ClPopLabels THEN 1 ELSE 0)
        /\ c_top =< cl!Bottom /\ cl!Bottom - c_top =< Size(ClRing)
        /\ \A k \in c_top .. cl!Bottom - 1 : CA_GET(ClRing, k) \in Elts
    BY <1>i, ClView, SnapType DEF ClTypes, ClElements
  <1>1. ASSUME NEW e \in Elts, cl!CallPush(e) PROVE ClInv'
    <2>1. /\ c_pc[Owner] = "idle" /\ c_pc' = [c_pc EXCEPT ![Owner] = "push"] /\ c_arg' = e
          /\ UNCHANGED <<c_top, c_writes, c_local>>
      BY <1>1 DEF cl!CallPush
    <2>2. ClTypes' /\ ClHands'
      BY <2>1, <1>i, <1>o DEF ClTypes, ClHands, ClPushLabels
    <2>3. /\ cl!Mine' = cl!Mine /\ ClRing' = ClRing
          /\ cl!Bottom' = cl!Bottom /\ \A i : ClEnd(i)' = ClEnd(i)
      BY <2>1, <1>i, <1>o, ClNotStored DEF ClPopLabels, ClTypes
    <2>4. ClStores' /\ ClElements' /\ ClPush' /\ ClPop' /\ ClSteal'
      BY <2>1, <2>3, <1>i, <1>o DEF ClTypes, ClStores, ClElements, ClPush, ClPop, ClSteal
    <2>5. QED
      BY <2>2, <2>4 DEF ClInv
  <1>2. CASE cl!PushTop
    <2>1. /\ c_pc[Owner] = "push"
          /\ c_pc' = [c_pc EXCEPT ![Owner] =
                IF cl!Mine.bottom - c_top >= Size(ClRing) THEN "push_grow" ELSE "push_store"]
          /\ c_local' = [c_local EXCEPT ![Owner].top = c_top]
          /\ UNCHANGED <<c_top, c_writes, c_arg>>
      <3>1. cl!Full(cl!Mine.memory[cl!Mine.array], cl!Mine.bottom, c_top)
              <=> cl!Mine.bottom - c_top >= Size(ClRing)
        BY <1>n, ClSame DEF cl!Full, ClRing
      <3>2. QED
        BY <1>2, <3>1 DEF cl!PushTop
    <2>2. ClTypes' /\ ClHands'
      BY <2>1, <1>i, <1>o DEF ClTypes, ClHands, ClPushLabels
    <2>3. /\ cl!Mine' = cl!Mine /\ ClRing' = ClRing
          /\ cl!Bottom' = cl!Bottom /\ \A i : ClEnd(i)' = ClEnd(i)
      BY <2>1, <1>i, <1>o, ClNotStored DEF ClPopLabels, ClTypes
    <2>4. ClStores' /\ ClElements' /\ ClPop' /\ ClSteal'
      BY <2>1, <2>3, <1>i, <1>o DEF ClTypes, ClStores, ClElements, ClPop, ClSteal
    <2>5. ClPush'
      <3>1. c_local'[Owner].top = c_top /\ cl!Mine.bottom = cl!Bottom
            /\ c_pc'[Owner] = (IF cl!Mine.bottom - c_top >= Size(ClRing) THEN "push_grow" ELSE "push_store")
        BY <2>1, <1>i, <1>o, <1>n DEF ClTypes, ClPopLabels
      <3>2. QED
        BY <2>1, <2>3, <3>1, <1>n DEF ClPush
    <2>6. QED
      BY <2>2, <2>4, <2>5 DEF ClInv
  <1>3. CASE cl!PushGrow
    <2>1. /\ c_pc[Owner] = "push_grow" /\ c_pc' = [c_pc EXCEPT ![Owner] = "push_store"]
          /\ UNCHANGED <<c_top, c_arg, c_local>>
          /\ c_local[Owner].top =< c_top /\ cl!Mine.bottom - c_local[Owner].top =< Size(ClRing)
          /\ cl!Mine.bottom = cl!Bottom
      BY <1>3, <1>i, <1>n DEF cl!PushGrow, ClPush, ClPopLabels
    <2>2. PICK b \in Nat, s \in Nat : b = cl!Mine.bottom /\ s = c_local[Owner].top
      <3>1. c_local[Owner].top \in Nat
        BY <1>i, <1>o DEF ClTypes
      <3>2. cl!Mine.bottom \in Nat
        BY <2>1, <1>n
      <3>3. QED
        BY <3>1, <3>2
    <2>3. PICK r : r = circular_array_resize(ClRing, b, s)
      OBVIOUS
    <2>4. /\ r \in Rings /\ Size(r) = 2 * Size(ClRing)
          /\ \A n \in s .. b - 1 : CA_GET(r, n) = CA_GET(ClRing, n)
      BY <2>1, <2>2, <2>3, <1>n, ResizedRing, ResizedHasElts, RingType
    <2>5. PICK v : v = [cl!Mine EXCEPT !.memory = Allocated(@, cl!Mine.array + 1, r), !.array = @ + 1]
      OBVIOUS
    <2>6. /\ v \in Snapshots /\ v.bottom = b /\ v.array = cl!Mine.array + 1
          /\ v.memory[v.array] = r
          /\ \A a \in 0 .. cl!Mine.array : v.memory[a] = cl!Mine.memory[a]
      <3>1. PICK w \in Snapshots : w = cl!Mine
        BY <1>n
      <3>2. PICK m : m = Allocated(w.memory, w.array + 1, r)
        OBVIOUS
      <3>5. v = [bottom |-> w.bottom, array |-> w.array + 1, memory |-> m]
        <4>1. v = [w EXCEPT !.memory = m, !.array = w.array + 1]
          BY <2>5, <3>1, <3>2
        <4>2. QED
          BY <4>1, SnapParts
      <3>3. /\ v \in Snapshots
            /\ v.bottom = w.bottom /\ v.array = w.array + 1
            /\ v.memory[v.array] = r
            /\ \A a \in 0 .. w.array : v.memory[a] = w.memory[a]
        BY <2>4, <3>2, <3>5, SnapGrow
      <3>4. QED
        BY <2>2, <3>1, <3>3
    <2>7. c_writes' = Append(c_writes, v)
      <3>1. r = cl!circular_array_resize(cl!Mine.memory[cl!Mine.array], cl!Mine.bottom, c_local[Owner].top)
        BY <2>2, <2>3, ClSame DEF ClRing
      <3>2. c_writes' = Append(c_writes,
              [cl!Mine EXCEPT !.memory = cl!Allocated(@, cl!Mine.array + 1, r), !.array = @ + 1])
        BY <1>3, <3>1 DEF cl!PushGrow, cl!Store
      <3>3. QED
        BY <2>5, <3>2, ClSame
    <2>8. cl!Mine' = v /\ ClTypes' /\ ClHands' /\ ClRing' = r
      <3>1. /\ c_writes' \in Seq(Snapshots) /\ Len(c_writes') # 0 /\ cl!Mine' = v
        BY <2>6, <2>7, <1>i, ClStored
      <3>2. QED
        BY <2>1, <2>6, <3>1, <1>i, <1>o DEF ClTypes, ClHands, ClPushLabels, ClRing
    <2>9. cl!Bottom' = b
      BY <2>1, <2>2, <2>6, <2>8, <1>i, <1>o, ClBottomNext DEF ClTypes, ClPopLabels
    <2>10. ClStores' /\ ClElements' /\ ClSteal'
      <3>1. \A k \in c_top .. b - 1 : k \in s .. b - 1 /\ k \in c_top .. cl!Bottom - 1
        BY <2>1, <2>2, <1>n
      <3>2. \A k \in c_top .. b - 1 : CA_GET(r, k) = CA_GET(ClRing, k) /\ CA_GET(r, k) \in Elts
        BY <2>4, <3>1, <1>n
      <3>3. b - c_top =< Size(r)
        BY <2>1, <2>2, <2>4, <1>n
      <3>4. \A t \in Thieves : c_pc'[t] = c_pc[t] /\ c_local'[t] = c_local[t]
        BY <2>1, <1>i, <1>o DEF ClTypes
      <3>5. c_pc'[Owner] = "push_store"
        BY <2>1, <1>i, <1>o DEF ClTypes
      <3>6. cl!Mine.array =< v.array
        BY <2>6, <1>n
      <3>7. cl!Bottom =< cl!Bottom' /\ cl!Bottom' - c_top =< Size(v.memory[v.array])
        BY <2>1, <2>2, <2>6, <2>9, <3>3, <1>n
      <3>8. \A k \in c_top .. cl!Bottom' - 1 : CA_GET(v.memory[v.array], k) \in Elts
        BY <2>6, <2>9, <3>2
      <3>9. \A k \in c_top .. cl!Mine.bottom - 1 :
              /\ CA_GET(v.memory[v.array], k) = CA_GET(ClRing, k)
              /\ \A a \in 0 .. cl!Mine.array : CA_GET(v.memory[a], k) = CA_GET(cl!Mine.memory[a], k)
        BY <2>2, <2>6, <3>2
      <3>10. QED
        BY <2>1, <2>6, <2>7, <2>8, <3>4, <3>5, <3>6, <3>7, <3>8, <3>9, ClStoreKeeps
    <2>11. ClPush'
      <3>1. v.bottom - c_top < Size(r)
        BY <2>1, <2>2, <2>4, <2>6, <1>n
      <3>2. QED
        BY <2>1, <2>8, <3>1, <1>i, <1>o DEF ClPush, ClTypes
    <2>12. ClPop'
      BY <2>1, <1>i, <1>o DEF ClPop, ClTypes
    <2>13. QED
      BY <2>8, <2>10, <2>11, <2>12 DEF ClInv
  <1>4. CASE cl!PushStore
    <2>1. /\ c_pc[Owner] = "push_store" /\ c_pc' = [c_pc EXCEPT ![Owner] = "push_bottom"]
          /\ UNCHANGED <<c_top, c_arg, c_local>>
          /\ cl!Mine.bottom - c_top < Size(ClRing)
          /\ cl!Mine.bottom = cl!Bottom /\ c_arg \in Elts
      BY <1>4, <1>i, <1>n DEF cl!PushStore, ClPush, ClPopLabels, ClHands, ClTypes, ClPushLabels
    <2>2. PICK b \in Nat : b = cl!Mine.bottom
      BY <2>1, <1>n
    <2>3. PICK r : r = CA_SET(ClRing, b, c_arg)
      OBVIOUS
    <2>4. /\ Size(r) = Size(ClRing) /\ CA_GET(r, b) = c_arg
          /\ \A n \in c_top .. b - 1 : CA_GET(r, n) = CA_GET(ClRing, n)
      <3>1. \A n \in c_top .. b - 1 : n \in Nat /\ n # b /\ n - b < Size(ClRing)
                                      /\ b - n < Size(ClRing)
        BY <1>n, <2>1, <2>2
      <3>2. QED
        BY <2>3, <3>1, <1>n, SetRing
    <2>5. PICK v : v = [cl!Mine EXCEPT !.memory[cl!Mine.array] = CA_SET(@, b, c_arg)]
      OBVIOUS
    <2>6. /\ v \in Snapshots /\ v.bottom = b /\ v.array = cl!Mine.array
          /\ v.memory[v.array] = r
          /\ \A a \in 0 .. cl!Mine.array : a # cl!Mine.array => v.memory[a] = cl!Mine.memory[a]
      <3>1. PICK w \in Snapshots : w = cl!Mine
        BY <1>n
      <3>2. r = CA_SET(w.memory[w.array], b, c_arg)
        BY <2>3, <3>1 DEF ClRing
      <3>3. PICK m : m = Allocated(w.memory, w.array, r) /\ m = [w.memory EXCEPT ![w.array] = r]
        <4>1. PICK a \in Nat : a = w.array /\ w.memory \in [0 .. a -> Rings]
          BY DEF Snapshots
        <4>2. Allocated(w.memory, a, r) = [b0 \in 0 .. a |-> IF b0 = a THEN r ELSE w.memory[b0]]
          BY <4>1, (0 .. a) \cup {a} = 0 .. a DEF Allocated
        <4>3. [w.memory EXCEPT ![a] = r] = [b0 \in 0 .. a |-> IF b0 = a THEN r ELSE w.memory[b0]]
          BY <4>1
        <4>4. QED
          BY <4>1, <4>2, <4>3
      <3>4. v = [bottom |-> w.bottom, array |-> w.array, memory |-> m]
        <4>1. v = [w EXCEPT !.memory = m]
          BY <2>5, <3>1, <3>2, <3>3
        <4>2. QED
          BY <4>1, SnapParts
      <3>5. /\ v \in Snapshots
            /\ v.bottom = w.bottom /\ v.array = w.array
            /\ v.memory[v.array] = r
            /\ \A a \in 0 .. w.array : a # w.array => v.memory[a] = w.memory[a]
        <4>1. w.memory[w.array] \in Rings
          BY DEF Snapshots
        <4>2. r \in Rings
          BY <4>1, <3>2, <2>1, RingType, SetRing, SetHasElts
        <4>3. m = Allocated(w.memory, w.array, r)
          BY <3>3
        <4>4. QED
          BY <4>2, <4>3, <3>4, SnapSet
      <3>6. QED
        BY <2>2, <3>1, <3>5
    <2>7. c_writes' = Append(c_writes, v)
      BY <1>4, <2>2, <2>5, ClSame DEF cl!PushStore, cl!Store
    <2>8. cl!Mine' = v /\ ClTypes' /\ ClHands' /\ ClRing' = r
      <3>1. /\ c_writes' \in Seq(Snapshots) /\ Len(c_writes') # 0 /\ cl!Mine' = v
        BY <2>6, <2>7, <1>i, ClStored
      <3>2. QED
        BY <2>1, <2>6, <3>1, <1>i, <1>o DEF ClTypes, ClHands, ClPushLabels, ClRing
    <2>9. cl!Bottom' = b
      BY <2>1, <2>2, <2>6, <2>8, <1>i, <1>o, ClBottomNext DEF ClTypes, ClPopLabels
    <2>10. ClStores' /\ ClElements' /\ ClSteal'
      <3>1. \A k \in c_top .. b - 1 : CA_GET(r, k) \in Elts
        BY <2>1, <2>2, <2>4, <1>n
      <3>2. \A t \in Thieves : c_pc'[t] = c_pc[t] /\ c_local'[t] = c_local[t]
        BY <2>1, <1>i, <1>o DEF ClTypes
      <3>3. c_pc'[Owner] = "push_bottom"
        BY <2>1, <1>i, <1>o DEF ClTypes
      <3>4. cl!Bottom =< cl!Bottom' /\ cl!Bottom' - c_top =< Size(v.memory[v.array])
        BY <2>1, <2>2, <2>4, <2>6, <2>9, <1>n
      <3>5. \A k \in c_top .. cl!Bottom' - 1 : CA_GET(v.memory[v.array], k) \in Elts
        BY <2>6, <2>9, <3>1
      <3>6. ASSUME NEW k \in c_top .. cl!Mine.bottom - 1
            PROVE  /\ CA_GET(v.memory[v.array], k) = CA_GET(ClRing, k)
                   /\ \A a \in 0 .. cl!Mine.array : CA_GET(v.memory[a], k) = CA_GET(cl!Mine.memory[a], k)
        BY <2>2, <2>4, <2>6 DEF ClRing
      <3>7. cl!Mine.array =< v.array
        BY <2>6, <1>n
      <3>8. QED
        BY <2>1, <2>6, <2>7, <2>8, <3>2, <3>3, <3>4, <3>5, <3>6, <3>7, ClStoreKeeps
    <2>11. ClPush'
      BY <2>1, <2>2, <2>4, <2>6, <2>8, <1>i, <1>o DEF ClPush, ClTypes
    <2>12. ClPop'
      BY <2>1, <1>i, <1>o DEF ClPop, ClTypes
    <2>13. QED
      BY <2>8, <2>10, <2>11, <2>12 DEF ClInv
  <1>5. CASE cl!PushBottom
    <2>1. /\ c_pc[Owner] = "push_bottom" /\ c_pc' = [c_pc EXCEPT ![Owner] = "idle"]
          /\ c_local' = [c_local EXCEPT ![Owner] = [top |-> 0, arr |-> 0, elt |-> None]]
          /\ c_top' = c_top /\ c_arg' = None
          /\ cl!Mine.bottom - c_top < Size(ClRing)
          /\ cl!Mine.bottom = cl!Bottom /\ c_arg \in Elts
          /\ CA_GET(ClRing, cl!Mine.bottom) = c_arg
      BY <1>5, <1>i, <1>n DEF cl!PushBottom, ClPush, ClPopLabels, ClHands, ClTypes, ClPushLabels
    <2>2. PICK b \in Nat : b = cl!Mine.bottom
      BY <2>1, <1>n
    <2>3. PICK v : v = [cl!Mine EXCEPT !.bottom = b + 1]
      OBVIOUS
    <2>4. v \in Snapshots /\ v.bottom = b + 1 /\ v.array = cl!Mine.array /\ v.memory = cl!Mine.memory
      BY <2>3, <1>n, b + 1 \in Int, SnapBottom
    <2>5. c_writes' = Append(c_writes, v)
      BY <1>5, <2>2, <2>3 DEF cl!PushBottom, cl!Store
    <2>6. cl!Mine' = v /\ ClTypes' /\ ClHands'
      <3>1. /\ c_writes' \in Seq(Snapshots) /\ Len(c_writes') # 0 /\ cl!Mine' = v
        BY <2>4, <2>5, <1>i, ClStored
      <3>2. ClTypes'
        BY <2>1, <3>1, <1>i, <1>o DEF ClTypes, ClValues
      <3>3. ClHands'
        BY <2>1, <1>i, <1>o DEF ClTypes, ClHands, ClPushLabels
      <3>4. QED
        BY <3>1, <3>2, <3>3
    <2>7. cl!Bottom' = b + 1
      BY <2>1, <2>4, <2>6, <1>i, <1>o, ClBottomNext DEF ClTypes, ClPopLabels
    <2>8. ClStores' /\ ClElements' /\ ClSteal'
      <3>1. \A t \in Thieves : c_pc'[t] = c_pc[t] /\ c_local'[t] = c_local[t]
        BY <2>1, <1>i, <1>o DEF ClTypes
      <3>2. c_pc'[Owner] = "idle"
        BY <2>1, <1>i, <1>o DEF ClTypes
      <3>3. cl!Bottom =< cl!Bottom' /\ cl!Bottom' - c_top =< Size(v.memory[v.array])
        BY <2>1, <2>2, <2>4, <2>7, <1>n DEF ClRing
      <3>4. \A k \in c_top .. cl!Bottom' - 1 : CA_GET(v.memory[v.array], k) \in Elts
        <4>1. \A k \in c_top .. b : k \in c_top .. cl!Bottom - 1 \/ k = b
          BY <2>1, <2>2, <1>n
        <4>2. QED
          BY <2>1, <2>2, <2>4, <2>7, <4>1, <1>n DEF ClRing
      <3>5. cl!Mine.array =< v.array
        BY <2>4, <1>n
      <3>6. QED
        BY <2>1, <2>4, <2>5, <2>6, <3>1, <3>2, <3>3, <3>4, <3>5, ClStoreKeeps DEF ClRing
    <2>9. ClPush' /\ ClPop'
      BY <2>1, <1>i, <1>o DEF ClPush, ClPop, ClTypes
    <2>10. QED
      BY <2>6, <2>8, <2>9 DEF ClInv
  <1>6. CASE cl!PopBottom
    <2>1. /\ c_pc[Owner] = "idle" /\ c_pc' = [c_pc EXCEPT ![Owner] = "pop_top"]
          /\ UNCHANGED <<c_top, c_arg, c_local>>
          /\ cl!Mine.bottom = cl!Bottom
      BY <1>6, <1>n DEF cl!PopBottom, ClPopLabels
    <2>2. PICK b \in Nat : b = cl!Mine.bottom
      BY <2>1, <1>n
    <2>3. PICK v : v = [cl!Mine EXCEPT !.bottom = b - 1]
      OBVIOUS
    <2>4. v \in Snapshots /\ v.bottom = b - 1 /\ v.array = cl!Mine.array /\ v.memory = cl!Mine.memory
      BY <2>3, <1>n, b - 1 \in Int, SnapBottom
    <2>5. c_writes' = Append(c_writes, v)
      BY <1>6, <2>2, <2>3 DEF cl!PopBottom, cl!Store
    <2>6. cl!Mine' = v /\ ClTypes' /\ ClHands'
      <3>1. /\ c_writes' \in Seq(Snapshots) /\ Len(c_writes') # 0 /\ cl!Mine' = v
        BY <2>4, <2>5, <1>i, ClStored
      <3>2. QED
        BY <2>1, <3>1, <1>i, <1>o DEF ClTypes, ClHands, ClPushLabels, ClPopLabels
    <2>7. cl!Bottom' = b
      BY <2>1, <2>4, <2>6, <1>i, <1>o, ClBottomNext DEF ClTypes, ClPopLabels
    <2>8. ClStores' /\ ClElements' /\ ClSteal'
      <3>1. \A t \in Thieves : c_pc'[t] = c_pc[t] /\ c_local'[t] = c_local[t]
        BY <2>1, <1>i, <1>o DEF ClTypes
      <3>2. c_pc'[Owner] = "pop_top"
        BY <2>1, <1>i, <1>o DEF ClTypes
      <3>3. cl!Bottom =< cl!Bottom' /\ cl!Bottom' - c_top =< Size(v.memory[v.array])
        BY <2>1, <2>2, <2>4, <2>7, <1>n DEF ClRing
      <3>4. \A k \in c_top .. cl!Bottom' - 1 : CA_GET(v.memory[v.array], k) \in Elts
        BY <2>1, <2>2, <2>4, <2>7, <1>n DEF ClRing
      <3>5. cl!Mine.array =< v.array
        BY <2>4, <1>n
      <3>6. QED
        BY <2>1, <2>4, <2>5, <2>6, <3>1, <3>2, <3>3, <3>4, <3>5, ClStoreKeeps DEF ClRing
    <2>9. ClPush' /\ ClPop'
      BY <2>1, <1>i, <1>o DEF ClPush, ClPop, ClTypes
    <2>10. QED
      BY <2>6, <2>8, <2>9 DEF ClInv
  <1>7. CASE cl!PopRestore
    <2>1. /\ c_pc[Owner] = "pop_restore" /\ c_pc' = [c_pc EXCEPT ![Owner] = "return"]
          /\ UNCHANGED <<c_top, c_arg, c_local>>
          /\ cl!Mine.bottom + 1 = cl!Bottom /\ c_top = cl!Bottom /\ Len(c_writes) = 1
          /\ c_local[Owner].elt \in Elts \cup {EMPTY, ABORT}
      BY <1>7, <1>n, <1>i, <1>o DEF cl!PopRestore, ClPopLabels, ClPop, ClStores, ClHands
    <2>2. PICK b \in Int : b = cl!Mine.bottom
      BY <1>n
    <2>3. PICK v : v = [cl!Mine EXCEPT !.bottom = b + 1]
      OBVIOUS
    <2>4. v \in Snapshots /\ v.bottom = b + 1 /\ v.array = cl!Mine.array /\ v.memory = cl!Mine.memory
      BY <2>3, <1>n, b + 1 \in Int, SnapBottom
    <2>5. c_writes' = Append(c_writes, v)
      BY <1>7, <2>2, <2>3 DEF cl!PopRestore, cl!Store
    <2>6. cl!Mine' = v /\ ClTypes' /\ ClHands'
      <3>1. /\ c_writes' \in Seq(Snapshots) /\ Len(c_writes') # 0 /\ cl!Mine' = v
        BY <2>4, <2>5, <1>i, ClStored
      <3>2. QED
        BY <2>1, <3>1, <1>i, <1>o DEF ClTypes, ClHands, ClPushLabels
    <2>7. cl!Bottom' = b + 1
      BY <2>1, <2>4, <2>6, <1>i, <1>o, ClBottomNext DEF ClTypes, ClPopLabels
    <2>8. ClStores' /\ ClElements' /\ ClSteal'
      <3>1. \A t \in Thieves : c_pc'[t] = c_pc[t] /\ c_local'[t] = c_local[t]
        BY <2>1, <1>i, <1>o DEF ClTypes
      <3>2. c_pc'[Owner] = "return"
        BY <2>1, <1>i, <1>o DEF ClTypes
      <3>3. cl!Bottom =< cl!Bottom' /\ cl!Bottom' - c_top =< Size(v.memory[v.array])
        BY <2>1, <2>2, <2>4, <2>7, <1>n DEF ClRing
      <3>4. \A k \in c_top .. cl!Bottom' - 1 : CA_GET(v.memory[v.array], k) \in Elts
        BY <2>1, <2>2, <2>4, <2>7, <1>n DEF ClRing
      <3>5. cl!Mine.array =< v.array
        BY <2>4, <1>n
      <3>6. QED
        BY <2>1, <2>4, <2>5, <2>6, <3>1, <3>2, <3>3, <3>4, <3>5, ClStoreKeeps DEF ClRing
    <2>9. ClPush' /\ ClPop'
      BY <2>1, <1>i, <1>o DEF ClPush, ClPop, ClTypes
    <2>10. QED
      BY <2>6, <2>8, <2>9 DEF ClInv
  <1>8. CASE cl!PopTop
    <2>1. /\ c_pc[Owner] = "pop_top" /\ Len(c_writes) = 1
          /\ UNCHANGED <<c_top, c_writes, c_arg>>
          /\ cl!Bottom = cl!Mine.bottom + 1
      BY <1>8, <1>n DEF cl!PopTop, cl!Fenced, cl!Drained, ClPopLabels
    <2>2. PICK b \in Int : b = cl!Mine.bottom
      BY <1>n
    <2>3. PICK e : e = IF c_top =< b THEN CA_GET(ClRing, b) ELSE EMPTY
      OBVIOUS
    <2>4. PICK p : p = IF c_top < b THEN "return"
                       ELSE IF c_top = b THEN "pop_exchange" ELSE "pop_restore"
      OBVIOUS
    <2>5. PICK l : l = [c_local[Owner] EXCEPT !.top = c_top, !.elt = e]
      OBVIOUS
    <2>6. c_local' = [c_local EXCEPT ![Owner] = l] /\ c_pc' = [c_pc EXCEPT ![Owner] = p]
      <3>1. e = IF c_top =< cl!Mine.bottom
                THEN cl!CA_GET(cl!Mine.memory[cl!Mine.array], cl!Mine.bottom) ELSE EMPTY
        BY <2>2, <2>3, ClSame DEF ClRing
      <3>2. QED
        BY <1>8, <2>2, <2>4, <2>5, <3>1 DEF cl!PopTop
    <2>7. e \in Elts \cup {EMPTY} /\ (c_top =< b => e \in Elts /\ e = CA_GET(ClRing, b))
      <3>1. c_top =< b => b \in c_top .. cl!Bottom - 1
        BY <2>1, <2>2, <1>n
      <3>2. QED
        BY <2>3, <3>1, <1>n
    <2>8. l \in [top : Nat, arr : Nat, elt : ClValues] /\ l.top = c_top /\ l.elt = e
      <3>1. c_local[Owner] \in [top : Nat, arr : Nat, elt : ClValues]
        BY <1>i, <1>o DEF ClTypes
      <3>2. QED
        BY <2>5, <2>7, <3>1, <1>n DEF ClValues
    <2>9. /\ c_local'[Owner] = l /\ c_pc'[Owner] = p
          /\ \A t \in Thieves : c_pc'[t] = c_pc[t] /\ c_local'[t] = c_local[t]
      BY <2>6, <1>i, <1>o DEF ClTypes
    <2>10. ClTypes' /\ ClHands'
      <3>1. ClTypes'
        BY <2>1, <2>4, <2>6, <2>8, <1>i, <1>o DEF ClTypes, ClPopLabels
      <3>2. ASSUME NEW t \in Threads, c_pc'[t] \in {"return", "pop_restore"}
            PROVE  c_local'[t].elt \in Elts \cup {EMPTY, ABORT}
        BY <2>7, <2>8, <2>9, <3>2, <1>i, <1>o DEF ClHands
      <3>3. c_arg' # None <=> c_pc'[Owner] \in ClPushLabels
        BY <2>1, <2>4, <2>9, <1>i, <1>o DEF ClHands, ClPushLabels
      <3>4. QED
        BY <3>1, <3>2, <3>3 DEF ClHands
    <2>11. cl!Mine' = cl!Mine /\ ClRing' = ClRing
      BY <2>1, ClNotStored
    <2>12. cl!Bottom' = IF c_top < b THEN b ELSE b + 1
      BY <2>2, <2>4, <2>9, <2>10, <2>11, ClBottomNext DEF ClPopLabels
    <2>13. /\ c_top =< cl!Bottom' /\ cl!Bottom' =< cl!Bottom /\ cl!Bottom' \in Int
           /\ (c_top < cl!Bottom => c_top < cl!Bottom')
      BY <2>1, <2>2, <2>12, <1>n
    <2>14. ClEnd(1)' = cl!Bottom' /\ \A i \in 1 .. Len(c_writes) : i = 1
      BY <2>1 DEF ClEnd
    <2>15. ClStores'
      <3>1. ASSUME NEW i \in 1 .. Len(c_writes), NEW j \in 1 .. Len(c_writes)
            PROVE  c_writes'[i].array =< c_writes'[j].array /\ ClEnd(i)' =< ClEnd(j)'
        <4>1. i = 1 /\ j = 1 /\ c_writes'[1] = cl!Mine
          BY <2>1, <2>14, <1>i, ClView
        <4>2. QED
          BY <4>1, <2>13, <2>14, <1>n
      <3>2. QED
        BY <2>1, <3>1 DEF ClStores
    <2>16. ClElements'
      <3>1. \A i, j \in 1 .. Len(c_writes') : i =< j =>
              \A k \in c_top' .. ClEnd(i)' - 1 :
                CA_GET(c_writes'[j].memory[c_writes'[i].array], k) = CA_GET(ClRing', k)
        <4>1. c_writes[1] = cl!Mine
          BY <2>1, <1>i, ClView
        <4>2. QED
          BY <4>1, <2>1, <2>11, <2>14 DEF ClRing
      <3>2. \A k \in c_top .. cl!Bottom' - 1 : CA_GET(ClRing, k) \in Elts
        <4>1. PICK x \in Int, y \in Int : x = cl!Bottom' /\ y = cl!Bottom /\ x =< y
          BY <2>13, <1>n
        <4>2. \A k \in c_top .. x - 1 : k \in c_top .. y - 1
          <5>1. PICK h \in Nat : h = c_top
            BY <1>n
          <5>2. x =< y
            BY <4>1
          <5>3. \A k \in h .. x - 1 : k \in h .. y - 1
            BY <5>2
          <5>4. QED
            BY <5>1, <5>3
        <4>3. QED
          BY <4>1, <4>2, <1>n
      <3>3. cl!Bottom' - c_top =< Size(ClRing)
        BY <2>13, <1>n
      <3>4. QED
        <4>1. c_top' =< cl!Bottom' /\ cl!Bottom' - c_top' =< Size(ClRing')
          BY <2>1, <2>11, <2>13, <3>3
        <4>2. \A k \in c_top' .. cl!Bottom' - 1 : CA_GET(ClRing', k) \in Elts
          BY <2>1, <2>11, <3>2
        <4>3. QED
          BY <3>1, <4>1, <4>2 DEF ClElements
    <2>17. ClPush' /\ ClPop'
      <3>1. p = "pop_exchange" => c_top = b
        BY <2>4
      <3>2. p = "pop_restore" => c_top = cl!Bottom'
        BY <2>1, <2>2, <2>4, <2>12, <1>n
      <3>3. p \in {"return", "pop_exchange", "pop_restore"}
        BY <2>4
      <3>4. ClPush'
        BY <3>3, <2>9 DEF ClPush
      <3>5. ClPop'
        BY <3>1, <3>2, <2>1, <2>2, <2>7, <2>8, <2>9, <2>11, <1>n DEF ClPop
      <3>6. QED
        BY <3>4, <3>5
    <2>18. ClSteal'
      <3>1. ClEnd(1) = cl!Bottom
        BY <2>1 DEF ClEnd
      <3>2. QED
        BY <2>1, <2>9, <2>11, <2>13, <2>14, <3>1, <1>i, <1>o, ZenonT(30) DEF ClSteal
    <2>19. QED
      BY <2>10, <2>15, <2>16, <2>17, <2>18 DEF ClInv
  <1>9. CASE cl!PopExchange
    <2>1. /\ c_pc[Owner] = "pop_exchange" /\ c_pc' = [c_pc EXCEPT ![Owner] = "pop_restore"]
          /\ UNCHANGED <<c_writes, c_arg>> /\ Len(c_writes) = 1
          /\ cl!Bottom = cl!Mine.bottom + 1
          /\ c_local[Owner].top = cl!Mine.bottom /\ c_local[Owner].top =< c_top
          /\ c_local[Owner].elt \in Elts
      BY <1>9, <1>n, <1>i DEF cl!PopExchange, cl!Drained, ClPopLabels, ClPop
    <2>2. \/ c_top = c_local[Owner].top /\ c_top' = c_top + 1 /\ c_local' = c_local
          \/ /\ c_top # c_local[Owner].top /\ c_top' = c_top
             /\ c_local' = [c_local EXCEPT ![Owner].elt = EMPTY]
      BY <1>9 DEF cl!PopExchange
    <2>3. cl!Mine' = cl!Mine /\ ClRing' = ClRing
          /\ cl!Bottom' = cl!Bottom /\ \A i : ClEnd(i)' = ClEnd(i)
      BY <2>1, <1>i, <1>o, ClNotStored DEF ClPopLabels, ClTypes
    <2>4. c_top' \in Nat /\ c_top' = cl!Bottom'
      BY <2>1, <2>2, <2>3, <1>n
    <2>5. /\ c_pc'[Owner] = "pop_restore" /\ c_local'[Owner].elt \in Elts \cup {EMPTY}
          /\ \A t \in Thieves : c_pc'[t] = c_pc[t] /\ c_local'[t] = c_local[t]
          /\ c_local' \in [Threads -> [top : Nat, arr : Nat, elt : ClValues]]
      <3>1. CASE c_top = c_local[Owner].top
        BY <3>1, <2>1, <2>2, <1>i, <1>o DEF ClTypes
      <3>2. CASE c_top # c_local[Owner].top
        <4>1. c_pc'[Owner] = "pop_restore" /\ \A t \in Thieves : c_pc'[t] = c_pc[t]
          BY <2>1, <1>i, <1>o DEF ClTypes
        <4>2. /\ c_local \in [Threads -> [top : Nat, arr : Nat, elt : ClValues]]
              /\ c_local' = [c_local EXCEPT ![Owner].elt = EMPTY] /\ EMPTY \in ClValues
          BY <3>2, <2>2, <1>i DEF ClTypes, ClValues
        <4>3. c_local'[Owner].elt = EMPTY /\ \A t \in Thieves : c_local'[t] = c_local[t]
          BY <4>2, <1>o
        <4>4. c_local' \in [Threads -> [top : Nat, arr : Nat, elt : ClValues]]
          BY <4>2, <1>o
        <4>5. QED
          BY <4>1, <4>3, <4>4
      <3>3. QED
        BY <3>1, <3>2
    <2>6. ClTypes' /\ ClHands'
      <3>1. ClTypes'
        BY <2>1, <2>4, <2>5, <1>i, <1>o DEF ClTypes, ClPopLabels
      <3>2. ASSUME NEW t \in Threads, c_pc'[t] \in {"return", "pop_restore"}
            PROVE  c_local'[t].elt \in Elts \cup {EMPTY, ABORT}
        BY <2>5, <3>2, <1>i, <1>o DEF ClHands
      <3>3. c_arg' # None <=> c_pc'[Owner] \in ClPushLabels
        BY <2>1, <2>5, <1>i, <1>o DEF ClHands, ClPushLabels
      <3>4. QED
        BY <3>1, <3>2, <3>3 DEF ClHands
    <2>7. ClStores' /\ ClElements' /\ ClSteal'
      <3>1. CASE c_top = c_local[Owner].top
        <4>1. c_top < cl!Bottom
          BY <3>1, <2>1, <1>n
        <4>2. c_top' = c_top + 1
          BY <3>1, <2>2
        <4>3. QED
          BY <4>1, <4>2, <2>1, <2>3, <2>5, ClTaken
      <3>2. CASE c_top # c_local[Owner].top
        <4>1. c_top' = c_top
          BY <3>2, <2>2
        <4>2. QED
          BY <4>1, <2>1, <2>3, <2>5, <1>i DEF ClStores, ClElements, ClSteal
      <3>3. QED
        BY <3>1, <3>2
    <2>8. ClPush' /\ ClPop'
      BY <2>4, <2>5 DEF ClPush, ClPop
    <2>9. QED
      BY <2>6, <2>7, <2>8 DEF ClInv
  <1>10. CASE cl!Flush
    <2>1. /\ Len(c_writes) # 1 /\ c_writes' = Tail(c_writes)
          /\ UNCHANGED <<c_top, c_pc, c_arg, c_local>>
      BY <1>10 DEF cl!Flush, cl!Drained
    <2>2. PICK n \in Nat : n = Len(c_writes) /\ n > 1
      <3>1. PICK n \in Nat \ {0} : n = Len(c_writes)
        BY <1>i, ClView
      <3>2. n > 1
        BY <2>1, <3>1
      <3>3. QED
        BY <3>1, <3>2
    <2>3. /\ c_writes' \in Seq(Snapshots) /\ Len(c_writes') # 0
          /\ Len(c_writes') = n - 1
          /\ \A i \in 1 .. n - 1 : c_writes'[i] = c_writes[i + 1]
          /\ cl!Mine' = cl!Mine /\ ClRing' = ClRing /\ cl!Bottom' = cl!Bottom
      <3>1. /\ c_writes' \in Seq(Snapshots) /\ Len(c_writes') # 0
            /\ Len(c_writes') = n - 1
            /\ \A i \in 1 .. n - 1 : c_writes'[i] = c_writes[i + 1]
            /\ cl!Mine' = cl!Mine
        BY <2>1, <2>2, <1>i, ClFlushed
      <3>2. QED
        BY <2>1, <3>1 DEF ClRing, cl!Bottom
    <2>4. ASSUME NEW i \in 1 .. n - 1
          PROVE  i + 1 \in 1 .. n /\ c_writes'[i] = c_writes[i + 1] /\ ClEnd(i)' = ClEnd(i + 1)
      <3>1. i + 1 \in 1 .. n /\ c_writes'[i] = c_writes[i + 1] /\ (i = n - 1 <=> i + 1 = n)
        BY <2>2, <2>3
      <3>2. QED
        BY <2>2, <2>3, <3>1 DEF ClEnd
    <2>5. /\ \A i \in 1 .. n : c_writes[i].array \in Nat /\ ClEnd(i) \in Int
          /\ \A i \in 1 .. n : i >= 1 /\ 1 \in 1 .. n
      <3>1. \A i \in 1 .. n : c_writes[i] \in Snapshots
        BY <2>2, <1>i, ClView
      <3>2. QED
        BY <2>2, <3>1, <1>n, SnapType DEF ClEnd
    <2>6. ClTypes' /\ ClHands'
      BY <2>1, <2>3, <1>i DEF ClTypes, ClHands
    <2>7. ClStores'
      <3>1. ASSUME NEW i \in 1 .. n - 1, NEW j \in 1 .. n - 1, i =< j
            PROVE  c_writes'[i].array =< c_writes'[j].array /\ ClEnd(i)' =< ClEnd(j)'
        <4>1. /\ i + 1 \in 1 .. n /\ c_writes'[i] = c_writes[i + 1] /\ ClEnd(i)' = ClEnd(i + 1)
              /\ j + 1 \in 1 .. n /\ c_writes'[j] = c_writes[j + 1] /\ ClEnd(j)' = ClEnd(j + 1)
              /\ i + 1 =< j + 1
          BY <3>1, <2>4
        <4>2. QED
          BY <4>1, <2>2, <1>i DEF ClStores
      <3>2. c_pc'[Owner] \notin {"pop_exchange", "pop_restore"}
        BY <2>1, <1>i DEF ClStores
      <3>3. QED
        BY <2>3, <3>1, <3>2 DEF ClStores
    <2>8. ClElements'
      <3>1. ASSUME NEW i \in 1 .. n - 1, NEW j \in 1 .. n - 1, i =< j,
                   NEW k \in c_top .. ClEnd(i)' - 1
            PROVE  CA_GET(c_writes'[j].memory[c_writes'[i].array], k) = CA_GET(ClRing, k)
        <4>1. /\ i + 1 \in 1 .. n /\ c_writes'[i] = c_writes[i + 1] /\ ClEnd(i)' = ClEnd(i + 1)
              /\ j + 1 \in 1 .. n /\ c_writes'[j] = c_writes[j + 1]
              /\ i + 1 =< j + 1
          BY <3>1, <2>4
        <4>2. k \in c_top .. ClEnd(i + 1) - 1
          BY <3>1, <4>1
        <4>3. CA_GET(c_writes[j + 1].memory[c_writes[i + 1].array], k) = CA_GET(ClRing, k)
          BY <4>1, <4>2, <2>2, <1>i DEF ClElements
        <4>4. QED
          BY <4>1, <4>3
      <3>2. /\ c_top' =< cl!Bottom' /\ cl!Bottom' - c_top' =< Size(ClRing')
            /\ \A k \in c_top' .. cl!Bottom' - 1 : CA_GET(ClRing', k) \in Elts
        BY <2>1, <2>3, <1>i DEF ClElements
      <3>3. \A i, j \in 1 .. Len(c_writes') : i =< j =>
              \A k \in c_top' .. ClEnd(i)' - 1 :
                CA_GET(c_writes'[j].memory[c_writes'[i].array], k) = CA_GET(ClRing', k)
        BY <2>1, <2>3, <3>1
      <3>4. QED
        BY <3>2, <3>3 DEF ClElements
    <2>9. ClPush' /\ ClPop'
      BY <2>1, <2>3, <1>i DEF ClPush, ClPop
    <2>10. ASSUME NEW t \in Thieves
           PROVE  /\ c_pc'[t] \in ClStealLabels => c_local'[t].top =< c_top'
                  /\ c_pc'[t] = "steal_read" => c_local'[t].arr =< c_writes'[1].array
                  /\ c_pc'[t] \in {"steal_array", "steal_read"} /\ c_local'[t].top = c_top' =>
                      c_top' < ClEnd(1)'
                  /\ c_pc'[t] = "steal_read" /\ c_local'[t].top = c_top' =>
                      \A j \in 1 .. Len(c_writes') :
                         CA_GET(c_writes'[j].memory[c_local'[t].arr], c_top') = CA_GET(ClRing', c_top')
                  /\ c_pc'[t] = "steal_exchange" /\ c_local'[t].top = c_top' =>
                      c_top' < cl!Bottom' /\ c_local'[t].elt = CA_GET(ClRing', c_top')
      <3>1. /\ 1 \in 1 .. n /\ 2 \in 1 .. n /\ c_writes'[1] = c_writes[2] /\ ClEnd(1)' = ClEnd(2)
        <4>1. 1 \in 1 .. n - 1 /\ 1 + 1 = 2 /\ 2 \in 1 .. n
          BY <2>2
        <4>2. QED
          BY <4>1, <2>4
      <3>2. /\ c_writes[1].array =< c_writes[2].array /\ ClEnd(1) =< ClEnd(2)
        BY <3>1, <2>2, <1>i DEF ClStores
      <3>3. c_local[t].arr \in Nat
        BY <1>i, <1>o DEF ClTypes
      <3>4. /\ c_pc[t] = "steal_read" => c_local[t].arr =< c_writes[2].array
            /\ c_pc[t] \in {"steal_array", "steal_read"} /\ c_local[t].top = c_top =>
                  c_top < ClEnd(2)
        <4>1. PICK x \in Nat, y \in Nat, p \in Int, q \in Int :
                /\ x = c_writes[1].array /\ y = c_writes[2].array /\ x =< y
                /\ p = ClEnd(1) /\ q = ClEnd(2) /\ p =< q
          BY <3>1, <3>2, <2>5
        <4>2. c_pc[t] = "steal_read" => c_local[t].arr =< x
          BY <4>1, <1>i DEF ClSteal
        <4>3. c_pc[t] \in {"steal_array", "steal_read"} /\ c_local[t].top = c_top => c_top < p
          BY <4>1, <1>i DEF ClSteal
        <4>4. QED
          BY <4>1, <4>2, <4>3, <3>3, <1>n
      <3>5. ASSUME c_pc[t] = "steal_read", c_local[t].top = c_top, NEW j \in 1 .. n - 1
            PROVE  CA_GET(c_writes'[j].memory[c_local[t].arr], c_top) = CA_GET(ClRing, c_top)
        <4>1. j + 1 \in 1 .. n /\ c_writes'[j] = c_writes[j + 1]
          BY <2>4
        <4>2. QED
          BY <3>5, <4>1, <2>2, <1>i DEF ClSteal
      <3>6. QED
        BY <2>1, <2>3, <3>1, <3>4, <3>5, <1>i DEF ClSteal
    <2>11. ClSteal'
      BY <2>10 DEF ClSteal
    <2>12. QED
      BY <2>6, <2>7, <2>8, <2>9, <2>11 DEF ClInv
  <1>11. ASSUME NEW t \in Threads, cl!StealTop(t) PROVE ClInv'
    <2>1. t \in Thieves /\ c_local[t] \in [top : Nat, arr : Nat, elt : ClValues]
      BY <1>11, <1>i DEF cl!StealTop, ClTypes
    <2>2. PICK l : l = [c_local[t] EXCEPT !.top = c_top]
      OBVIOUS
    <2>3. /\ c_local' = [c_local EXCEPT ![t] = l] /\ c_pc' = [c_pc EXCEPT ![t] = "steal_bottom"]
          /\ UNCHANGED <<c_top, c_writes, c_arg>>
      BY <1>11, <2>2 DEF cl!StealTop
    <2>4. l \in [top : Nat, arr : Nat, elt : ClValues] /\ l.top = c_top
      BY <2>1, <2>2, <1>n
    <2>5. QED
      <3>1. l.top =< c_top
        BY <2>4, <1>n
      <3>2. QED
        BY <2>1, <2>3, <2>4, <3>1, ClThiefKeeps DEF ClStealLabels
  <1>12. ASSUME NEW t \in Threads, cl!StealBottom(t) PROVE ClInv'
    <2>1. /\ c_pc[t] = "steal_bottom" /\ t \in Thieves
          /\ c_local[t] \in [top : Nat, arr : Nat, elt : ClValues]
          /\ c_local[t].top =< c_top
      <3>1. c_pc[t] = "steal_bottom"
        BY <1>12 DEF cl!StealBottom
      <3>2. t # Owner
        BY <3>1, <1>i DEF ClTypes, ClPushLabels, ClPopLabels
      <3>3. QED
        BY <3>1, <3>2, <1>i, <1>o DEF ClTypes, ClSteal, ClStealLabels
    <2>2. UNCHANGED <<c_top, c_writes, c_arg>>
      BY <1>12 DEF cl!StealBottom
    <2>3. CASE c_local[t].top < cl!Visible.bottom
      <3>1. c_pc' = [c_pc EXCEPT ![t] = "steal_array"] /\ c_local' = c_local
        BY <1>12, <2>3 DEF cl!StealBottom, cl!NonEmpty
      <3>2. PICK l : l = c_local[t]
        OBVIOUS
      <3>3. c_local' = [c_local EXCEPT ![t] = l]
        BY <3>1, <3>2, <1>i DEF ClTypes
      <3>4. cl!Visible.bottom =< ClEnd(1) /\ cl!Visible.bottom \in Int /\ ClEnd(1) \in Int
        <4>1. cl!Visible = c_writes[1] /\ c_writes[1] \in Snapshots /\ cl!Mine.bottom =< cl!Bottom
              /\ (Len(c_writes) = 1 => cl!Mine = c_writes[1])
          BY <1>i, <1>n, ClView
        <4>2. QED
          BY <4>1, <1>n, SnapType DEF ClEnd
      <3>5. l.top = c_top => c_top < ClEnd(1)
        BY <2>3, <3>2, <3>4, <1>n
      <3>6. QED
        BY <2>1, <2>2, <3>1, <3>2, <3>3, <3>5, ClThiefKeeps DEF ClStealLabels
    <2>4. CASE ~(c_local[t].top < cl!Visible.bottom)
      <3>1. PICK l : l = [c_local[t] EXCEPT !.elt = EMPTY]
        OBVIOUS
      <3>2. c_pc' = [c_pc EXCEPT ![t] = "return"] /\ c_local' = [c_local EXCEPT ![t] = l]
        BY <1>12, <2>4, <3>1 DEF cl!StealBottom, cl!NonEmpty
      <3>3. l \in [top : Nat, arr : Nat, elt : ClValues] /\ l.elt = EMPTY
        BY <2>1, <3>1 DEF ClValues
      <3>4. QED
        BY <2>1, <2>2, <3>2, <3>3, ClThiefKeeps DEF ClStealLabels
    <2>5. QED
      BY <2>3, <2>4
  <1>13. ASSUME NEW t \in Threads, cl!StealArray(t) PROVE ClInv'
    <2>1. /\ c_pc[t] = "steal_array" /\ t \in Thieves
          /\ c_local[t] \in [top : Nat, arr : Nat, elt : ClValues]
          /\ c_local[t].top =< c_top
          /\ c_local[t].top = c_top => c_top < ClEnd(1)
      <3>1. c_pc[t] = "steal_array"
        BY <1>13 DEF cl!StealArray
      <3>2. t # Owner
        BY <3>1, <1>i DEF ClTypes, ClPushLabels, ClPopLabels
      <3>3. QED
        BY <3>1, <3>2, <1>i, <1>o DEF ClTypes, ClSteal, ClStealLabels
    <2>2. PICK l : l = [c_local[t] EXCEPT !.arr = cl!Visible.array]
      OBVIOUS
    <2>3. /\ c_local' = [c_local EXCEPT ![t] = l] /\ c_pc' = [c_pc EXCEPT ![t] = "steal_read"]
          /\ UNCHANGED <<c_top, c_writes, c_arg>>
      BY <1>13, <2>2 DEF cl!StealArray
    <2>4. /\ cl!Visible = c_writes[1] /\ c_writes[1].array \in Nat
          /\ Len(c_writes) \in Nat \ {0}
      BY <1>i, ClView, SnapType
    <2>5. /\ l \in [top : Nat, arr : Nat, elt : ClValues] /\ l.top = c_local[t].top
          /\ l.arr = c_writes[1].array
      BY <2>1, <2>2, <2>4
    <2>6. ASSUME l.top = c_top, NEW j \in 1 .. Len(c_writes)
          PROVE  CA_GET(c_writes[j].memory[l.arr], c_top) = CA_GET(ClRing, c_top)
      <3>1. c_top < ClEnd(1) /\ ClEnd(1) \in Int
        <4>1. c_writes[1].bottom \in Int
          BY <2>4, <1>i, ClView, SnapType, SMTT(30)
        <4>2. QED
          BY <2>1, <2>5, <2>6, <4>1, <1>n DEF ClEnd
      <3>2. c_top \in c_top .. ClEnd(1) - 1 /\ 1 \in 1 .. Len(c_writes) /\ 1 =< j
        BY <3>1, <2>4, <1>n
      <3>3. QED
        BY <2>5, <3>2, <1>i DEF ClElements
    <2>7. l.arr =< c_writes[1].array
      BY <2>4, <2>5
    <2>8. QED
      BY <2>1, <2>3, <2>5, <2>6, <2>7, ClThiefKeeps DEF ClStealLabels
  <1>14. ASSUME NEW t \in Threads, cl!StealRead(t) PROVE ClInv'
    <2>1. /\ c_pc[t] = "steal_read" /\ t \in Thieves
          /\ c_local[t] \in [top : Nat, arr : Nat, elt : ClValues]
          /\ c_local[t].top =< c_top /\ c_local[t].arr =< c_writes[1].array
          /\ c_local[t].top = c_top =>
                /\ c_top < ClEnd(1)
                /\ \A j \in 1 .. Len(c_writes) :
                     CA_GET(c_writes[j].memory[c_local[t].arr], c_top) = CA_GET(ClRing, c_top)
      <3>1. c_pc[t] = "steal_read"
        BY <1>14 DEF cl!StealRead
      <3>2. t # Owner
        BY <3>1, <1>i DEF ClTypes, ClPushLabels, ClPopLabels
      <3>3. QED
        BY <3>1, <3>2, <1>i, <1>o DEF ClTypes, ClSteal, ClStealLabels
    <2>2. PICK e : e = CA_GET(c_writes[1].memory[c_local[t].arr], c_local[t].top)
      OBVIOUS
    <2>3. PICK l : l = [c_local[t] EXCEPT !.elt = e]
      OBVIOUS
    <2>4. cl!Visible = c_writes[1] /\ c_writes[1] \in Snapshots /\ Len(c_writes) \in Nat \ {0}
          /\ 1 \in 1 .. Len(c_writes)
      BY <1>i, ClView
    <2>5. /\ c_local' = [c_local EXCEPT ![t] = l] /\ c_pc' = [c_pc EXCEPT ![t] = "steal_exchange"]
          /\ UNCHANGED <<c_top, c_writes, c_arg>>
      <3>1. e = cl!CA_GET(cl!Visible.memory[c_local[t].arr], c_local[t].top)
        BY <2>2, <2>4, ClSame
      <3>2. QED
        BY <1>14, <2>3, <3>1 DEF cl!StealRead
    <2>6. e \in Elts \cup {Junk}
      <3>1. c_local[t].arr \in 0 .. c_writes[1].array /\ c_local[t].top \in Nat
        BY <2>1, <2>4, SnapType
      <3>2. c_writes[1].memory[c_local[t].arr] \in Rings
        BY <2>4, <3>1, SnapType
      <3>3. QED
        BY <2>2, <3>1, <3>2, RingType DEF HasElts
    <2>7. /\ l \in [top : Nat, arr : Nat, elt : ClValues] /\ l.top = c_local[t].top /\ l.elt = e
      BY <2>1, <2>3, <2>6 DEF ClValues
    <2>8. l.top = c_top => c_top < cl!Bottom /\ l.elt = CA_GET(ClRing, c_top)
      <3>1. ClEnd(1) =< cl!Bottom /\ ClEnd(1) \in Int
        <4>1. PICK n \in Nat \ {0} : n = Len(c_writes)
          BY <2>4
        <4>2. 1 \in 1 .. n /\ n \in 1 .. n /\ 1 =< n
          BY <4>1
        <4>3. ClEnd(1) =< ClEnd(n) /\ ClEnd(n) = cl!Bottom
          BY <4>1, <4>2, <1>i DEF ClStores, ClEnd
        <4>4. c_writes[1].bottom \in Int
          BY <2>4, SnapType
        <4>5. QED
          BY <4>3, <4>4, <1>n DEF ClEnd
      <3>2. QED
        <4>1. PICK p \in Int, q \in Int : p = ClEnd(1) /\ q = cl!Bottom /\ p =< q
          BY <3>1, <1>n
        <4>2. c_local[t].top = c_top => c_top < q
          BY <2>1, <4>1, <1>n
        <4>3. c_local[t].top = c_top => e = CA_GET(ClRing, c_top)
          BY <2>1, <2>2, <2>4
        <4>4. QED
          BY <2>7, <4>1, <4>2, <4>3
    <2>9. QED
      BY <2>1, <2>5, <2>7, <2>8, ClThiefKeeps DEF ClStealLabels
  <1>15. ASSUME NEW t \in Threads, cl!StealExchange(t) PROVE ClInv'
    <2>1. /\ c_pc[t] = "steal_exchange" /\ t \in Thieves /\ t # Owner
          /\ c_local[t] \in [top : Nat, arr : Nat, elt : ClValues]
          /\ c_local[t].top =< c_top
          /\ c_local[t].top = c_top => c_top < cl!Bottom /\ c_local[t].elt = CA_GET(ClRing, c_top)
      <3>1. c_pc[t] = "steal_exchange"
        BY <1>15 DEF cl!StealExchange
      <3>2. t # Owner
        BY <3>1, <1>i DEF ClTypes, ClPushLabels, ClPopLabels
      <3>3. QED
        BY <3>1, <3>2, <1>i, <1>o DEF ClTypes, ClSteal, ClStealLabels
    <2>2. c_pc' = [c_pc EXCEPT ![t] = "return"] /\ UNCHANGED <<c_writes, c_arg>>
      BY <1>15 DEF cl!StealExchange
    <2>3. CASE c_top = c_local[t].top
      <3>1. c_top' = c_top + 1 /\ c_local' = c_local
        BY <1>15, <2>3 DEF cl!StealExchange
      <3>2. c_local[t].elt \in Elts /\ c_top < cl!Bottom
        BY <2>1, <2>3, <1>n, c_top \in c_top .. cl!Bottom - 1
      <3>3. /\ c_pc'[Owner] = c_pc[Owner] /\ c_pc'[t] = "return"
            /\ \A u \in Threads \ {t} : c_pc'[u] = c_pc[u]
        BY <2>1, <2>2, <1>i, <1>o DEF ClTypes
      <3>4. cl!Mine' = cl!Mine /\ ClRing' = ClRing /\ cl!Bottom' = cl!Bottom
        BY <2>2, <3>3, ClNotStored
      <3>5. ClTypes' /\ ClHands'
        BY <2>1, <2>2, <3>1, <3>2, <3>3, <1>i, <1>o, <1>n DEF ClTypes, ClHands
      <3>6. ClStores' /\ ClElements' /\ ClSteal'
        <4>1. \A u \in Thieves : c_pc'[u] \in ClStealLabels =>
                c_pc'[u] = c_pc[u] /\ c_local'[u] = c_local[u]
          BY <3>1, <3>3, <1>o DEF ClStealLabels
        <4>2. c_pc'[Owner] \in {"pop_exchange", "pop_restore"} => Len(c_writes) = 1
          BY <3>3, <1>i DEF ClStores
        <4>3. QED
          BY <2>2, <3>1, <3>2, <3>4, <4>1, <4>2, ClTaken
      <3>7. ClPush'
        <4>1. PICK b \in Int, s \in Nat, z \in Nat : 
                b = cl!Mine.bottom /\ s = c_top /\ z = Size(ClRing) /\ s + 1 = c_top'
          BY <3>1, <1>n
        <4>2. c_local'[Owner] = c_local[Owner] /\ c_local[Owner].top \in Nat
          BY <3>1, <1>i, <1>o DEF ClTypes
        <4>3. c_local[Owner].top =< s => c_local[Owner].top =< s + 1
          BY <4>2, <4>1
        <4>4. b - s < z => b - (s + 1) < z
          BY <4>1
        <4>5. QED
          BY <2>2, <3>3, <3>4, <4>1, <4>2, <4>3, <4>4, <1>i DEF ClPush
      <3>8. ClPop'
        <4>1. c_pc[Owner] # "pop_restore"
          BY <3>2, <1>i, <1>n DEF ClPop
        <4>2. c_local[Owner].top \in Nat
          BY <1>i, <1>o DEF ClTypes
        <4>3. QED
          BY <2>2, <3>1, <3>3, <3>4, <4>1, <4>2, <1>i, <1>n DEF ClPop
      <3>9. QED
        BY <3>5, <3>6, <3>7, <3>8 DEF ClInv
    <2>4. CASE c_top # c_local[t].top
      <3>1. PICK l : l = [c_local[t] EXCEPT !.elt = ABORT]
        OBVIOUS
      <3>2. c_top' = c_top /\ c_local' = [c_local EXCEPT ![t] = l]
        BY <1>15, <2>4, <3>1 DEF cl!StealExchange
      <3>3. l \in [top : Nat, arr : Nat, elt : ClValues] /\ l.elt = ABORT
        BY <2>1, <3>1 DEF ClValues
      <3>4. QED
        BY <2>1, <2>2, <3>2, <3>3, ClThiefKeeps DEF ClStealLabels
    <2>5. QED
      BY <2>3, <2>4
  <1>16. ASSUME NEW t \in Threads, cl!Return(t) PROVE ClInv'
    <2>1. PICK l : l = [top |-> 0, arr |-> 0, elt |-> None]
      OBVIOUS
    <2>2. /\ c_pc[t] = "return" /\ c_pc' = [c_pc EXCEPT ![t] = "idle"]
          /\ c_local' = [c_local EXCEPT ![t] = l]
          /\ UNCHANGED <<c_top, c_writes, c_arg>>
      BY <1>16, <2>1 DEF cl!Return
    <2>3. l \in [top : Nat, arr : Nat, elt : ClValues]
      BY <2>1 DEF ClValues
    <2>4. CASE t \in Thieves
      BY <2>2, <2>3, <2>4, ClThiefKeeps DEF ClStealLabels
    <2>5. CASE t = Owner
      <3>1. /\ c_pc'[Owner] = "idle"
            /\ \A u \in Thieves : c_pc'[u] = c_pc[u] /\ c_local'[u] = c_local[u]
        BY <2>2, <2>5, <1>i, <1>o DEF ClTypes
      <3>2. /\ cl!Mine' = cl!Mine /\ ClRing' = ClRing
            /\ cl!Bottom' = cl!Bottom /\ \A i : ClEnd(i)' = ClEnd(i)
        BY <2>2, <2>5, <3>1, <1>i, <1>o, ClNotStored DEF ClPopLabels
      <3>3. ClTypes'
        BY <2>2, <2>3, <2>5, <3>1, <1>i, <1>o DEF ClTypes
      <3>4. ClHands'
        <4>1. \A u \in Threads : u = Owner \/ u \in Thieves
          BY <1>o
        <4>2. c_arg' = None
          BY <2>2, <2>5, <1>i DEF ClHands, ClPushLabels
        <4>3. QED
          BY <3>1, <4>1, <4>2, <1>i, <1>o DEF ClHands, ClPushLabels
      <3>5. ClStores' /\ ClElements' /\ ClPush' /\ ClPop' /\ ClSteal'
        BY <2>2, <3>1, <3>2, <1>i DEF ClStores, ClElements, ClPush, ClPop, ClSteal
      <3>6. QED
        BY <3>3, <3>4, <3>5 DEF ClInv
    <2>6. QED
      BY <2>4, <2>5, <1>o
  <1>17. CASE UNCHANGED clVars
    <2>1. UNCHANGED <<c_top, c_writes, c_pc, c_arg, c_local>>
      BY <1>17 DEF clVars
    <2>2. /\ cl!Mine' = cl!Mine /\ ClRing' = ClRing
          /\ cl!Bottom' = cl!Bottom /\ \A i : ClEnd(i)' = ClEnd(i)
      BY <2>1, ClNotStored
    <2>3. QED
      BY <2>1, <2>2, <1>i
      DEF ClInv, ClTypes, ClHands, ClStores, ClElements, ClPush, ClPop, ClSteal
  <1>18. QED
    BY <1>1, <1>2, <1>3, <1>4, <1>5, <1>6, <1>7, <1>8, <1>9, <1>10, <1>11, <1>12, <1>13, <1>14,
       <1>15, <1>16, <1>17, ClSame
    DEF cl!Next, cl!PushStep, cl!PopStep, cl!StealStep

-----------------------------------------------------------------------------
(* cl_queue.c behaves as a deque *)

\* Its abstract deque has the same threads.
LEMMA ClDequeThreads == cl!Abstract!Threads = Threads /\ cl!Threads = Threads
  BY DEF cl!Abstract!Threads, cl!Threads, Threads

\* The deque a state of cl_queue.c stands for.
LEMMA ClMapped ==
    /\ cl!Items = Content(ClRing, c_top, cl!Bottom)
    /\ \A t \in Threads :
         cl!Hand(t) = IF c_pc[t] \in {"return", "pop_restore"} THEN c_local[t].elt ELSE None
  BY ClSame DEF cl!Items, Content, ClRing, cl!Hand

\* The same of the next state.
LEMMA ClMappedNext ==
    /\ cl!Items' = Content(ClRing', c_top', cl!Bottom')
    /\ \A t \in Threads :
         cl!Hand(t)' = IF c_pc'[t] \in {"return", "pop_restore"} THEN c_local'[t].elt ELSE None
  BY ClSame DEF cl!Items, Content, ClRing, cl!Hand

\* cl_queue_init maps to the empty deque.
LEMMA ClInitMapped == cl!Init => cl!Abstract!Init
  <1> SUFFICES ASSUME cl!Init PROVE cl!Abstract!Init
    OBVIOUS
  <1>1. \A t \in Threads : c_pc[t] = "idle"
    BY ClSame DEF cl!Init
  <1>2. cl!Bottom = 0 /\ c_top = 0
    BY <1>1 DEF cl!Init, cl!Bottom, cl!Mine, Threads
  <1>3. cl!Items = << >>
    BY <1>2, ClMapped, ContentEmpty, 0 \in Nat
  <1>4. \A t \in Threads : cl!Hand(t) = None
    BY <1>1, ClMapped
  <1>5. QED
    BY <1>3, <1>4, ClDequeThreads DEF cl!Init, cl!Abstract!Init

\* A step that the elements between top and bottom and the hands do not show.
LEMMA ClStutters ==
    ASSUME UNCHANGED <<c_arg, cl!Items>>, \A t \in Threads : cl!Hand(t)' = cl!Hand(t)
    PROVE  UNCHANGED cl!Abstract!dequeVars
  BY ClDequeThreads DEF cl!Abstract!dequeVars

\* A step of one thread changes the hand of no other.
LEMMA ClHandChanged ==
    ASSUME NEW t \in Threads, NEW e, cl!Hand(t)' = e,
           \A u \in Threads \ {t} : cl!Hand(u)' = cl!Hand(u)
    PROVE  cl!Abstract!Hold(t, e)
  BY ClDequeThreads DEF cl!Abstract!Hold

\* Taking the newest element undoes putting it in.
LEMMA NewestTaken ==
    ASSUME NEW s \in Seq(Elts), NEW e \in Elts, NEW u, u = Append(s, e)
    PROVE  u # << >> /\ u[Len(u)] = e /\ SubSeq(u, 1, Len(u) - 1) = s
  <1>1. PICK n \in Nat : n = Len(s)
    OBVIOUS
  <1>2. u \in Seq(Elts) /\ Len(u) = n + 1 /\ u[n + 1] = e /\ \A i \in 1 .. n : u[i] = s[i]
    BY <1>1
  <1>3. PICK v : v = SubSeq(u, 1, n)
    OBVIOUS
  <1>4. v \in Seq(Elts) /\ Len(v) = n /\ \A i \in 1 .. n : v[i] = u[i]
    BY <1>2, <1>3
  <1>5. v = s
    BY <1>1, <1>2, <1>4, SeqEqual
  <1>6. QED
    BY <1>2, <1>3, <1>5

\* The owner takes the newest of the elements between top and bottom.
LEMMA ContentLast ==
    ASSUME NEW r, NEW h \in Nat, NEW b \in Nat, h =< b,
           \A n \in h .. b : CA_GET(r, n) \in Elts,
           NEW u, u = Content(r, h, b + 1)
    PROVE  /\ u # << >> /\ u[Len(u)] = CA_GET(r, b)
           /\ SubSeq(u, 1, Len(u) - 1) = Content(r, h, b)
  <1>1. PICK s : s = Content(r, h, b)
    OBVIOUS
  <1>2. s \in Seq(Elts)
    <2>1. \A n \in h .. b - 1 : CA_GET(r, n) \in Elts
      OBVIOUS
    <2>2. QED
      BY <1>1, <2>1, ContentSeq
  <1>3. u = Append(s, CA_GET(r, b))
    BY <1>1, ContentAppend
  <1>4. CA_GET(r, b) \in Elts
    OBVIOUS
  <1>5. QED
    BY <1>1, <1>2, <1>3, <1>4, NewestTaken

\* Each step is a step of the deque, or changes nothing of it: an element goes in
\* when bottom is stored after it; the newest comes out when a pop has read top, or
\* when its exchange succeeds; the oldest when the exchange of a steal succeeds.
LEMMA ClStepMapped ==
    ClInv /\ ClInv' /\ [cl!Next]_clVars => [cl!Abstract!Next]_(cl!Abstract!dequeVars)
  <1> SUFFICES ASSUME ClInv, ClInv', [cl!Next]_clVars
               PROVE  [cl!Abstract!Next]_(cl!Abstract!dequeVars)
    OBVIOUS
  <1> USE DEF cl!Goto, cl!NoLocals
  <1>o. /\ Owner \in Threads /\ Thieves \subseteq Threads /\ Owner \notin Thieves
        /\ \A t \in Threads : t = Owner \/ t \in Thieves
        /\ None \notin Elts /\ EMPTY \notin Elts /\ None # EMPTY
        /\ ABORT \notin Elts /\ ABORT # None
    BY ThreadsAssumption, EltsAssumption, TaskQueuesAssumption DEF Threads
  <1>i. ClTypes /\ ClHands /\ ClStores /\ ClElements /\ ClPush /\ ClPop /\ ClSteal
    BY DEF ClInv
  <1>n. /\ c_top \in Nat /\ cl!Mine.bottom \in Int /\ cl!Bottom \in Nat
        /\ Size(ClRing) \in Nat \ {0} /\ IsRing(ClRing)
        /\ cl!Bottom = cl!Mine.bottom + (IF c_pc[Owner] \in ClPopLabels THEN 1 ELSE 0)
        /\ c_top =< cl!Bottom /\ cl!Bottom - c_top =< Size(ClRing)
        /\ \A k \in c_top .. cl!Bottom - 1 : CA_GET(ClRing, k) \in Elts
    <2>1. c_top \in Nat /\ cl!Bottom \in Int /\ c_top =< cl!Bottom
      BY <1>i, ClView DEF ClTypes, ClElements
    <2>2. cl!Mine.bottom \in Int
      BY <1>i, ClView, SnapType
    <2>3. QED
      BY <2>1, <2>2, <1>i, ClView DEF ClElements
  <1>m. /\ cl!Bottom' \in Int /\ c_top' \in Nat
        /\ cl!Bottom' = cl!Mine'.bottom + (IF c_pc'[Owner] \in ClPopLabels THEN 1 ELSE 0)
    BY ClBottomNext DEF ClInv, ClTypes
  <1>w. c_writes \in Seq(Snapshots) /\ cl!Mine \in Snapshots
    BY <1>i, ClView DEF ClTypes
  <1>1. ASSUME NEW e \in Elts, cl!CallPush(e) PROVE cl!Abstract!Offer(e)
    <2>1. /\ c_pc[Owner] = "idle" /\ c_pc' = [c_pc EXCEPT ![Owner] = "push"] /\ c_arg' = e
          /\ UNCHANGED <<c_top, c_writes, c_local>>
          /\ \A t \in Threads : cl!Hand(t) # e
          /\ \A i \in DOMAIN cl!Items : cl!Items[i] # e
      BY <1>1, ClSame DEF cl!CallPush
    <2>2. c_arg = None /\ cl!Hand(Owner) = None
      BY <2>1, <1>i, <1>o, ClMapped DEF ClHands, ClPushLabels
    <2>3. ClRing' = ClRing /\ cl!Bottom' = cl!Bottom
      BY <2>1, <1>i, <1>o, ClNotStored DEF ClPopLabels, ClTypes
    <2>4. UNCHANGED cl!Items
      BY <2>1, <2>3, ClMapped, ClMappedNext
    <2>5. \A t \in Threads : cl!Hand(t)' = cl!Hand(t)
      BY <2>1, <1>i, <1>o, ClMapped, ClMappedNext DEF ClTypes
    <2>6. QED
      BY <2>1, <2>2, <2>4, <2>5, <1>o, ClDequeThreads DEF cl!Abstract!Offer
  <1>2. CASE cl!PushTop
    <2>1. /\ c_pc[Owner] = "push"
          /\ c_pc' = [c_pc EXCEPT ![Owner] =
                IF cl!Full(cl!Mine.memory[cl!Mine.array], cl!Mine.bottom, c_top)
                THEN "push_grow" ELSE "push_store"]
          /\ c_local' = [c_local EXCEPT ![Owner].top = c_top]
          /\ UNCHANGED <<c_top, c_writes, c_arg>>
      BY <1>2 DEF cl!PushTop
    <2>2. ClRing' = ClRing /\ cl!Bottom' = cl!Bottom
      BY <2>1, <1>i, <1>o, ClNotStored DEF ClPopLabels, ClTypes
    <2>3. UNCHANGED cl!Items
      BY <2>1, <2>2, ClMapped, ClMappedNext
    <2>4. \A t \in Threads : cl!Hand(t)' = cl!Hand(t)
      BY <2>1, <1>i, <1>o, ClMapped, ClMappedNext DEF ClTypes
    <2>5. QED
      BY <2>1, <2>3, <2>4, ClStutters
  <1>3. CASE cl!PushGrow
    <2>1. /\ c_pc[Owner] = "push_grow" /\ c_pc' = [c_pc EXCEPT ![Owner] = "push_store"]
          /\ UNCHANGED <<c_top, c_arg, c_local>>
          /\ c_local[Owner].top =< c_top /\ cl!Mine.bottom - c_local[Owner].top =< Size(ClRing)
          /\ cl!Mine.bottom = cl!Bottom
      BY <1>3, <1>i, <1>n DEF cl!PushGrow, ClPush, ClPopLabels
    <2>2. PICK b \in Nat, s \in Nat : b = cl!Mine.bottom /\ s = c_local[Owner].top
      <3>1. c_local[Owner].top \in Nat
        BY <1>i, <1>o DEF ClTypes
      <3>2. QED
        BY <3>1, <2>1, <1>n
    <2>3. PICK r : r = circular_array_resize(ClRing, b, s)
      OBVIOUS
    <2>4. r \in Rings /\ \A n \in s .. b - 1 : CA_GET(r, n) = CA_GET(ClRing, n)
      <3>1. IsRing(ClRing) /\ HasElts(ClRing)
        BY <1>i, ClView
      <3>2. QED
        BY <2>1, <2>2, <2>3, <3>1, ResizedRing, ResizedHasElts, RingType
    <2>5. cl!Mine'.bottom = b /\ ClRing' = r
      <3>1. PICK w \in Snapshots : w = cl!Mine
        BY <1>w
      <3>2. PICK m : m = Allocated(w.memory, w.array + 1, r)
        OBVIOUS
      <3>3. PICK v : v = [w EXCEPT !.memory = m, !.array = w.array + 1]
        OBVIOUS
      <3>4. v = [bottom |-> w.bottom, array |-> w.array + 1, memory |-> m]
        BY <3>3, SnapParts
      <3>5. v \in Snapshots /\ v.bottom = w.bottom /\ v.memory[v.array] = r
        BY <2>4, <3>2, <3>4, SnapGrow
      <3>6. r = cl!circular_array_resize(cl!Mine.memory[cl!Mine.array], cl!Mine.bottom, c_local[Owner].top)
        BY <2>2, <2>3, ClSame DEF ClRing
      <3>7. c_writes' = Append(c_writes,
              [cl!Mine EXCEPT !.memory = cl!Allocated(@, cl!Mine.array + 1, r), !.array = @ + 1])
        BY <1>3, <3>6 DEF cl!PushGrow, cl!Store
      <3>8. c_writes' = Append(c_writes, v)
        BY <3>1, <3>2, <3>3, <3>7, ClSame, ZenonT(30)
      <3>9. cl!Mine' = v
        BY <3>5, <3>8, <1>i, ClStored
      <3>10. QED
        BY <2>2, <3>1, <3>5, <3>9 DEF ClRing
    <2>6. cl!Bottom' = b
      BY <2>1, <2>2, <2>5, <1>m, <1>i, <1>o DEF ClTypes, ClPopLabels
    <2>7. \A k \in c_top .. b - 1 : CA_GET(ClRing', k) = CA_GET(ClRing, k)
      <3>1. \A k \in c_top .. b - 1 : k \in s .. b - 1
        BY <2>1, <2>2, <1>n
      <3>2. QED
        BY <2>4, <2>5, <3>1
    <2>8. UNCHANGED cl!Items
      <3>1. Content(ClRing', c_top, b) = Content(ClRing, c_top, b)
        BY <2>7, <1>n, ContentSame
      <3>2. QED
        BY <2>1, <2>2, <2>6, <3>1, ClMapped, ClMappedNext
    <2>9. \A t \in Threads : cl!Hand(t)' = cl!Hand(t)
      BY <2>1, <1>i, <1>o, ClMapped, ClMappedNext DEF ClTypes
    <2>10. QED
      BY <2>1, <2>8, <2>9, ClStutters
  <1>4. CASE cl!PushStore
    <2>1. /\ c_pc[Owner] = "push_store" /\ c_pc' = [c_pc EXCEPT ![Owner] = "push_bottom"]
          /\ UNCHANGED <<c_top, c_arg, c_local>>
          /\ cl!Mine.bottom - c_top < Size(ClRing)
          /\ cl!Mine.bottom = cl!Bottom /\ c_arg \in Elts
      BY <1>4, <1>i, <1>n DEF cl!PushStore, ClPush, ClPopLabels, ClHands, ClTypes, ClPushLabels
    <2>2. PICK b \in Nat : b = cl!Mine.bottom
      BY <2>1, <1>n
    <2>3. PICK r : r = CA_SET(ClRing, b, c_arg)
      OBVIOUS
    <2>4. r \in Rings /\ \A n \in c_top .. b - 1 : CA_GET(r, n) = CA_GET(ClRing, n)
      <3>1. \A n \in c_top .. b - 1 : n \in Nat /\ n # b /\ n - b < Size(ClRing)
                                      /\ b - n < Size(ClRing)
        BY <1>n, <2>1, <2>2
      <3>2. IsRing(ClRing) /\ HasElts(ClRing)
        BY <1>i, ClView
      <3>3. QED
        BY <2>1, <2>3, <3>1, <3>2, SetRing, SetHasElts, RingType
    <2>5. cl!Mine'.bottom = b /\ ClRing' = r
      <3>1. PICK w \in Snapshots : w = cl!Mine
        BY <1>w
      <3>2. PICK m : m = Allocated(w.memory, w.array, r) /\ m = [w.memory EXCEPT ![w.array] = r]
        <4>1. PICK a \in Nat : a = w.array /\ w.memory \in [0 .. a -> Rings]
          BY DEF Snapshots
        <4>2. Allocated(w.memory, a, r) = [b0 \in 0 .. a |-> IF b0 = a THEN r ELSE w.memory[b0]]
          BY <4>1, (0 .. a) \cup {a} = 0 .. a DEF Allocated
        <4>3. [w.memory EXCEPT ![a] = r] = [b0 \in 0 .. a |-> IF b0 = a THEN r ELSE w.memory[b0]]
          BY <4>1
        <4>4. QED
          BY <4>1, <4>2, <4>3
      <3>3. PICK v : v = [w EXCEPT !.memory = m]
        OBVIOUS
      <3>4. v = [bottom |-> w.bottom, array |-> w.array, memory |-> m]
        BY <3>3, SnapParts
      <3>5. v \in Snapshots /\ v.bottom = w.bottom /\ v.memory[v.array] = r
        <4>1. m = Allocated(w.memory, w.array, r)
          BY <3>2
        <4>2. QED
          BY <2>4, <4>1, <3>4, SnapSet
      <3>6. r = cl!CA_SET(cl!Mine.memory[cl!Mine.array], cl!Mine.bottom, c_arg)
        BY <2>2, <2>3, ClSame DEF ClRing
      <3>7. c_writes' = Append(c_writes, [cl!Mine EXCEPT !.memory[cl!Mine.array] = r])
        BY <1>4, <3>6 DEF cl!PushStore, cl!Store
      <3>8. c_writes' = Append(c_writes, v)
        BY <3>1, <3>2, <3>3, <3>7
      <3>9. cl!Mine' = v
        BY <3>5, <3>8, <1>i, ClStored
      <3>10. QED
        BY <2>2, <3>1, <3>5, <3>9 DEF ClRing
    <2>6. cl!Bottom' = b
      BY <2>1, <2>2, <2>5, <1>m, <1>i, <1>o DEF ClTypes, ClPopLabels
    <2>7. UNCHANGED cl!Items
      <3>1. Content(ClRing', c_top, b) = Content(ClRing, c_top, b)
        BY <2>4, <2>5, <1>n, ContentSame
      <3>2. QED
        BY <2>1, <2>2, <2>6, <3>1, ClMapped, ClMappedNext
    <2>8. \A t \in Threads : cl!Hand(t)' = cl!Hand(t)
      BY <2>1, <1>i, <1>o, ClMapped, ClMappedNext DEF ClTypes
    <2>9. QED
      BY <2>1, <2>7, <2>8, ClStutters
  <1>5. CASE cl!PushBottom
    <2>1. /\ c_pc[Owner] = "push_bottom" /\ c_pc' = [c_pc EXCEPT ![Owner] = "idle"]
          /\ c_local' = [c_local EXCEPT ![Owner] = [top |-> 0, arr |-> 0, elt |-> None]]
          /\ c_top' = c_top /\ c_arg' = None
          /\ cl!Mine.bottom = cl!Bottom /\ c_arg \in Elts
          /\ CA_GET(ClRing, cl!Mine.bottom) = c_arg
      BY <1>5, <1>i, <1>n DEF cl!PushBottom, ClPush, ClPopLabels, ClHands, ClTypes, ClPushLabels
    <2>2. PICK b \in Nat : b = cl!Mine.bottom
      BY <2>1, <1>n
    <2>3. cl!Mine'.bottom = b + 1 /\ ClRing' = ClRing
      <3>1. PICK v : v = [cl!Mine EXCEPT !.bottom = b + 1]
        OBVIOUS
      <3>2. v \in Snapshots /\ v.bottom = b + 1 /\ v.array = cl!Mine.array /\ v.memory = cl!Mine.memory
        BY <3>1, <1>w, b + 1 \in Int, SnapBottom
      <3>3. c_writes' = Append(c_writes, v)
        BY <1>5, <2>2, <3>1 DEF cl!PushBottom, cl!Store
      <3>4. cl!Mine' = v
        BY <3>2, <3>3, <1>i, ClStored
      <3>5. QED
        BY <3>2, <3>4 DEF ClRing
    <2>4. cl!Bottom' = b + 1
      BY <2>1, <2>3, <1>m, <1>i, <1>o DEF ClTypes, ClPopLabels
    <2>5. cl!Items' = Append(cl!Items, c_arg)
      <3>1. \A k \in c_top .. b : k \in c_top .. cl!Bottom - 1 \/ k = b
        BY <2>1, <2>2, <1>n
      <3>2. \A k \in c_top .. b : CA_GET(ClRing, k) \in Elts
        BY <2>1, <2>2, <3>1, <1>n
      <3>3. c_top =< b
        BY <2>1, <2>2, <1>n
      <3>4. Content(ClRing, c_top, b + 1) = Append(Content(ClRing, c_top, b), CA_GET(ClRing, b))
        BY <3>2, <3>3, <1>n, ContentAppend
      <3>5. QED
        BY <2>1, <2>2, <2>3, <2>4, <3>4, ClMapped, ClMappedNext
    <2>6. \A t \in Threads : cl!Hand(t)' = cl!Hand(t)
      BY <2>1, <1>i, <1>o, ClMapped, ClMappedNext DEF ClTypes
    <2>7. QED
      BY <2>1, <2>5, <2>6, <1>o, ClDequeThreads DEF cl!Abstract!Put, cl!Abstract!Next
  <1>6. CASE cl!PopBottom \/ cl!PopRestore
    <2>1. PICK b \in Int : /\ b = cl!Mine.bottom
                           /\ cl!Bottom = b + (IF c_pc[Owner] \in ClPopLabels THEN 1 ELSE 0)
      BY <1>n
    <2>2. PICK d \in Int : d = IF c_pc[Owner] = "idle" THEN b - 1 ELSE b + 1
      OBVIOUS
    <2>3. /\ UNCHANGED <<c_top, c_arg, c_local>>
          /\ \/ c_pc[Owner] = "idle" /\ c_pc' = [c_pc EXCEPT ![Owner] = "pop_top"]
             \/ c_pc[Owner] = "pop_restore" /\ c_pc' = [c_pc EXCEPT ![Owner] = "return"]
      BY <1>6 DEF cl!PopBottom, cl!PopRestore
    <2>4. cl!Mine'.bottom = d /\ ClRing' = ClRing
      <3>1. PICK v : v = [cl!Mine EXCEPT !.bottom = d]
        OBVIOUS
      <3>2. v \in Snapshots /\ v.bottom = d /\ v.array = cl!Mine.array /\ v.memory = cl!Mine.memory
        BY <3>1, <1>w, SnapBottom
      <3>3. c_writes' = Append(c_writes, v)
        BY <1>6, <2>1, <2>2, <3>1 DEF cl!PopBottom, cl!PopRestore, cl!Store
      <3>4. cl!Mine' = v
        BY <3>2, <3>3, <1>i, ClStored
      <3>5. QED
        BY <3>2, <3>4 DEF ClRing
    <2>5. cl!Bottom' = cl!Bottom
      <3>1. CASE c_pc[Owner] = "idle"
        <4>1. c_pc'[Owner] = "pop_top"
          BY <2>3, <3>1, <1>i, <1>o DEF ClTypes
        <4>2. QED
          BY <2>1, <2>2, <2>4, <3>1, <4>1, <1>m DEF ClPopLabels
      <3>2. CASE c_pc[Owner] = "pop_restore"
        <4>1. c_pc'[Owner] = "return"
          BY <2>3, <3>2, <1>i, <1>o DEF ClTypes
        <4>2. QED
          BY <2>1, <2>2, <2>4, <3>2, <4>1, <1>m DEF ClPopLabels
      <3>3. QED
        BY <2>3, <3>1, <3>2
    <2>6. UNCHANGED cl!Items
      BY <2>3, <2>4, <2>5, ClMapped, ClMappedNext
    <2>7. \A t \in Threads : cl!Hand(t)' = cl!Hand(t)
      BY <2>3, <1>i, <1>o, ClMapped, ClMappedNext DEF ClTypes
    <2>8. QED
      BY <2>3, <2>6, <2>7, ClStutters
  <1>7. ASSUME cl!PopTop PROVE cl!Abstract!Pop \/ UNCHANGED cl!Abstract!dequeVars
    <2>1. /\ c_pc[Owner] = "pop_top" /\ c_arg = None
          /\ UNCHANGED <<c_top, c_writes, c_arg>>
      BY <1>7, <1>i DEF cl!PopTop, ClHands, ClPushLabels
    <2>2. PICK b \in Int : b = cl!Mine.bottom /\ cl!Bottom = b + 1
      BY <2>1, <1>n DEF ClPopLabels
    <2>3. PICK e : e = IF c_top =< b THEN CA_GET(ClRing, b) ELSE EMPTY
      OBVIOUS
    <2>4. PICK p : p = IF c_top < b THEN "return"
                       ELSE IF c_top = b THEN "pop_exchange" ELSE "pop_restore"
      OBVIOUS
    <2>5. c_pc'[Owner] = p /\ c_local'[Owner].elt = e
          /\ \A t \in Threads \ {Owner} : c_pc'[t] = c_pc[t] /\ c_local'[t] = c_local[t]
      <3>1. e = IF c_top =< cl!Mine.bottom
                THEN cl!CA_GET(cl!Mine.memory[cl!Mine.array], cl!Mine.bottom) ELSE EMPTY
        BY <2>2, <2>3, ClSame DEF ClRing
      <3>2. PICK l : l = [c_local[Owner] EXCEPT !.top = c_top, !.elt = e]
        OBVIOUS
      <3>3. c_local' = [c_local EXCEPT ![Owner] = l] /\ c_pc' = [c_pc EXCEPT ![Owner] = p]
        BY <1>7, <2>2, <2>4, <3>1, <3>2 DEF cl!PopTop
      <3>4. l.elt = e
        <4>1. c_local[Owner] \in [top : Nat, arr : Nat, elt : ClValues]
          BY <1>i, <1>o DEF ClTypes
        <4>2. QED
          BY <3>2, <4>1
      <3>5. QED
        BY <3>3, <3>4, <1>i, <1>o DEF ClTypes
    <2>6. cl!Hand(Owner) = None /\ \A u \in Threads \ {Owner} : cl!Hand(u)' = cl!Hand(u)
      BY <2>1, <2>5, <1>o, ClMapped, ClMappedNext
    <2>7. cl!Mine' = cl!Mine /\ ClRing' = ClRing
      BY <2>1, ClNotStored
    <2>8. cl!Bottom' = IF c_top < b THEN b ELSE b + 1
      BY <2>2, <2>4, <2>5, <2>7, <1>m DEF ClPopLabels
    <2>9. CASE c_top < b
      <3>1. PICK u : u = Content(ClRing, c_top, b + 1)
        OBVIOUS
      <3>2. \A k \in c_top .. b : CA_GET(ClRing, k) \in Elts
        BY <2>2, <1>n
      <3>3. b \in Nat /\ c_top =< b
        BY <2>9, <1>n
      <3>4. /\ u # << >> /\ u[Len(u)] = CA_GET(ClRing, b)
            /\ SubSeq(u, 1, Len(u) - 1) = Content(ClRing, c_top, b)
        BY <3>1, <3>2, <3>3, <1>n, ContentLast, SMTT(30)
      <3>5. cl!Items = u /\ cl!Items' = Content(ClRing, c_top, b)
        BY <2>1, <2>2, <2>7, <2>8, <2>9, <3>1, ClMapped, ClMappedNext
      <3>6. cl!Hand(Owner)' = CA_GET(ClRing, b)
        <4>1. p = "return" /\ e = CA_GET(ClRing, b)
          BY <2>3, <2>4, <2>9, <3>3
        <4>2. QED
          BY <2>5, <4>1, <1>o, ClMappedNext
      <3>7. cl!Abstract!Hold(Owner, CA_GET(ClRing, b))
        BY <2>6, <3>6, <1>o, ClHandChanged
      <3>8. QED
        BY <2>1, <2>6, <3>4, <3>5, <3>7, <1>o, ClDequeThreads DEF cl!Abstract!Pop
    <2>10. CASE c_top = b
      <3>1. p = "pop_exchange" /\ cl!Bottom' = cl!Bottom
        BY <2>2, <2>4, <2>8, <2>10, <1>n
      <3>2. UNCHANGED cl!Items
        BY <2>1, <2>7, <3>1, ClMapped, ClMappedNext
      <3>3. \A t \in Threads : cl!Hand(t)' = cl!Hand(t)
        BY <2>1, <2>5, <2>6, <3>1, <1>o, ClMapped, ClMappedNext
      <3>4. QED
        BY <2>1, <3>2, <3>3, ClStutters
    <2>11. CASE c_top > b
      <3>1. p = "pop_restore" /\ e = EMPTY /\ cl!Bottom' = cl!Bottom /\ cl!Bottom = c_top
        BY <2>2, <2>3, <2>4, <2>8, <2>11, <1>n
      <3>2. cl!Items = << >> /\ cl!Items' = << >>
        BY <2>1, <2>7, <3>1, <1>n, ClMapped, ClMappedNext, ContentEmpty
      <3>3. cl!Hand(Owner)' = EMPTY
        BY <2>5, <3>1, <1>o, ClMappedNext
      <3>4. cl!Abstract!Hold(Owner, EMPTY)
        BY <2>6, <3>3, <1>o, ClHandChanged
      <3>5. QED
        BY <2>1, <2>6, <3>2, <3>4, <1>o, ClDequeThreads DEF cl!Abstract!Pop
    <2>12. QED
      BY <2>9, <2>10, <2>11, <1>n
  <1>8. ASSUME cl!PopExchange PROVE cl!Abstract!Pop
    <2>1. /\ c_pc[Owner] = "pop_exchange" /\ c_pc' = [c_pc EXCEPT ![Owner] = "pop_restore"]
          /\ UNCHANGED <<c_writes, c_arg>> /\ c_arg = None
          /\ c_local[Owner].elt = CA_GET(ClRing, cl!Mine.bottom)
      BY <1>8, <1>i DEF cl!PopExchange, ClPop, ClHands, ClPushLabels
    <2>2. PICK b \in Nat : /\ b = cl!Mine.bottom /\ cl!Bottom = b + 1
                           /\ b = c_local[Owner].top /\ b =< c_top
      <3>1. c_local[Owner].top \in Nat
        BY <1>i, <1>o DEF ClTypes
      <3>2. QED
        BY <2>1, <3>1, <1>i, <1>n DEF ClPop, ClPopLabels
    <2>3. ClRing' = ClRing /\ cl!Bottom' = cl!Bottom
      BY <2>1, <1>i, <1>o, ClNotStored DEF ClPopLabels, ClTypes
    <2>4. cl!Hand(Owner) = None
      BY <2>1, <1>o, ClMapped
    <2>5. CASE c_top = b
      <3>1. c_top' = b + 1 /\ c_local' = c_local
        BY <1>8, <2>2, <2>5 DEF cl!PopExchange
      <3>2. PICK u : u = Content(ClRing, b, b + 1)
        OBVIOUS
      <3>3. \A k \in b .. b : CA_GET(ClRing, k) \in Elts
        BY <2>2, <2>5, <1>n
      <3>4. /\ u # << >> /\ u[Len(u)] = CA_GET(ClRing, b)
            /\ SubSeq(u, 1, Len(u) - 1) = << >>
        BY <3>2, <3>3, b =< b, ContentLast, ContentEmpty
      <3>5. cl!Items = u /\ cl!Items' = << >>
        <4>1. Content(ClRing, b + 1, b + 1) = << >>
          BY b + 1 \in Nat, ContentEmpty
        <4>2. QED
          BY <2>2, <2>3, <2>5, <3>1, <3>2, <4>1, ClMapped, ClMappedNext
      <3>6. /\ cl!Hand(Owner)' = CA_GET(ClRing, b)
            /\ \A t \in Threads \ {Owner} : cl!Hand(t)' = cl!Hand(t)
        BY <2>1, <2>2, <3>1, <1>i, <1>o, ClMapped, ClMappedNext DEF ClTypes
      <3>7. cl!Abstract!Hold(Owner, CA_GET(ClRing, b))
        BY <3>6, <1>o, ClHandChanged
      <3>8. QED
        BY <2>1, <2>4, <3>4, <3>5, <3>7, <1>o, ClDequeThreads DEF cl!Abstract!Pop
    <2>6. CASE c_top # b
      <3>1. c_top' = c_top /\ c_local' = [c_local EXCEPT ![Owner].elt = EMPTY]
        BY <1>8, <2>2, <2>6 DEF cl!PopExchange
      <3>2. c_top = cl!Bottom
        BY <2>2, <2>6, <1>n
      <3>3. cl!Items = << >> /\ cl!Items' = << >>
        BY <2>3, <3>1, <3>2, <1>n, ClMapped, ClMappedNext, ContentEmpty
      <3>4. /\ cl!Hand(Owner)' = EMPTY
            /\ \A t \in Threads \ {Owner} : cl!Hand(t)' = cl!Hand(t)
        BY <2>1, <3>1, <1>i, <1>o, ClMapped, ClMappedNext DEF ClTypes
      <3>5. cl!Abstract!Hold(Owner, EMPTY)
        BY <3>4, <1>o, ClHandChanged
      <3>6. QED
        BY <2>1, <2>4, <3>3, <3>5, <1>o, ClDequeThreads DEF cl!Abstract!Pop
    <2>7. QED
      BY <2>5, <2>6
  <1>9. CASE cl!Flush
    <2>1. /\ Len(c_writes) # 1 /\ c_writes' = Tail(c_writes)
          /\ UNCHANGED <<c_top, c_pc, c_arg, c_local>>
      BY <1>9 DEF cl!Flush, cl!Drained
    <2>2. cl!Mine' = cl!Mine
      BY <2>1, <1>i, ClFlushed
    <2>3. ClRing' = ClRing /\ cl!Bottom' = cl!Bottom
      BY <2>1, <2>2 DEF ClRing, cl!Bottom
    <2>4. UNCHANGED cl!Items
      BY <2>1, <2>3, ClMapped, ClMappedNext
    <2>5. \A t \in Threads : cl!Hand(t)' = cl!Hand(t)
      BY <2>1, ClMapped, ClMappedNext
    <2>6. QED
      BY <2>1, <2>4, <2>5, ClStutters
  <1>10. ASSUME NEW t \in Threads, cl!StealTop(t) \/ cl!StealArray(t) \/ cl!StealRead(t)
         PROVE  UNCHANGED cl!Abstract!dequeVars
    <2>1. /\ UNCHANGED <<c_top, c_writes, c_arg>> /\ t \in Thieves
          /\ c_pc[t] \notin {"return", "pop_restore"} /\ c_pc'[t] \notin {"return", "pop_restore"}
          /\ \A u \in Threads \ {t} : c_pc'[u] = c_pc[u] /\ c_local'[u] = c_local[u]
      <3>1. c_pc[t] \in {"steal_array", "steal_read"} => t # Owner
        BY <1>i DEF ClTypes, ClPushLabels, ClPopLabels
      <3>2. QED
        BY <1>10, <3>1, <1>i, <1>o DEF cl!StealTop, cl!StealArray, cl!StealRead, ClTypes
    <2>2. UNCHANGED cl!Items
      <3>1. c_pc'[Owner] = c_pc[Owner]
        BY <2>1, <1>o
      <3>2. ClRing' = ClRing /\ cl!Bottom' = cl!Bottom
        BY <2>1, <3>1, ClNotStored
      <3>3. QED
        BY <2>1, <3>2, ClMapped, ClMappedNext
    <2>3. \A u \in Threads : cl!Hand(u)' = cl!Hand(u)
      BY <2>1, ClMapped, ClMappedNext
    <2>4. QED
      BY <2>1, <2>2, <2>3, ClStutters
  <1>11. ASSUME NEW t \in Threads, cl!StealBottom(t)
         PROVE  t \in Thieves /\ (cl!Abstract!TurnAway(t) \/ UNCHANGED cl!Abstract!dequeVars)
    <2>1. /\ UNCHANGED <<c_top, c_writes, c_arg>> /\ t \in Thieves
          /\ c_pc[t] = "steal_bottom"
          /\ \A u \in Threads \ {t} : c_pc'[u] = c_pc[u] /\ c_local'[u] = c_local[u]
      <3>1. c_pc[t] = "steal_bottom" /\ t # Owner
        BY <1>11, <1>i DEF cl!StealBottom, ClTypes, ClPushLabels, ClPopLabels
      <3>2. QED
        BY <1>11, <3>1, <1>i, <1>o DEF cl!StealBottom, ClTypes
    <2>2. UNCHANGED cl!Items
      <3>1. c_pc'[Owner] = c_pc[Owner]
        BY <2>1, <1>o
      <3>2. ClRing' = ClRing /\ cl!Bottom' = cl!Bottom
        BY <2>1, <3>1, ClNotStored
      <3>3. QED
        BY <2>1, <3>2, ClMapped, ClMappedNext
    <2>3. cl!Hand(t) = None /\ \A u \in Threads \ {t} : cl!Hand(u)' = cl!Hand(u)
      BY <2>1, ClMapped, ClMappedNext
    <2>4. CASE cl!NonEmpty(c_local[t].top, cl!Visible.bottom)
      <3>1. c_pc'[t] = "steal_array"
        BY <1>11, <2>4, <1>i DEF cl!StealBottom, ClTypes
      <3>2. \A u \in Threads : cl!Hand(u)' = cl!Hand(u)
        BY <2>3, <3>1, ClMappedNext
      <3>3. QED
        BY <2>1, <2>2, <3>2, ClStutters
    <2>5. CASE ~cl!NonEmpty(c_local[t].top, cl!Visible.bottom)
      <3>1. c_pc'[t] = "return" /\ c_local'[t].elt = EMPTY
        BY <1>11, <2>5, <1>i DEF cl!StealBottom, ClTypes
      <3>2. cl!Hand(t)' = EMPTY
        BY <3>1, ClMappedNext
      <3>3. cl!Abstract!Hold(t, EMPTY)
        BY <2>3, <3>2, ClHandChanged
      <3>4. QED
        BY <2>1, <2>2, <2>3, <3>3, ClDequeThreads DEF cl!Abstract!TurnAway
    <2>6. QED
      BY <2>4, <2>5
  <1>12. ASSUME NEW t \in Threads, cl!StealExchange(t)
         PROVE  t \in Thieves /\ (cl!Abstract!Steal(t) \/ cl!Abstract!TurnAway(t))
    <2>1. /\ UNCHANGED <<c_writes, c_arg>> /\ t \in Thieves /\ c_pc[t] = "steal_exchange"
          /\ c_pc'[t] = "return"
          /\ \A u \in Threads \ {t} : c_pc'[u] = c_pc[u] /\ c_local'[u] = c_local[u]
      <3>1. c_pc[t] = "steal_exchange" /\ t # Owner
        BY <1>12, <1>i DEF cl!StealExchange, ClTypes, ClPushLabels, ClPopLabels
      <3>2. QED
        BY <1>12, <3>1, <1>i, <1>o DEF cl!StealExchange, ClTypes
    <2>2. ClRing' = ClRing /\ cl!Bottom' = cl!Bottom
      <3>1. c_pc'[Owner] = c_pc[Owner]
        BY <2>1, <1>o
      <3>2. QED
        BY <2>1, <3>1, ClNotStored
    <2>3. cl!Hand(t) = None /\ \A u \in Threads \ {t} : cl!Hand(u)' = cl!Hand(u)
      BY <2>1, ClMapped, ClMappedNext
    <2>4. CASE c_top = c_local[t].top
      <3>1. /\ c_top' = c_top + 1 /\ c_local' = c_local
            /\ c_top < cl!Bottom /\ c_local[t].elt = CA_GET(ClRing, c_top)
        BY <1>12, <2>1, <2>4, <1>i DEF cl!StealExchange, ClSteal
      <3>2. /\ cl!Items # << >> /\ Head(cl!Items) = CA_GET(ClRing, c_top)
            /\ Tail(cl!Items) = cl!Items'
        <4>1. /\ Content(ClRing, c_top, cl!Bottom) # << >>
              /\ Head(Content(ClRing, c_top, cl!Bottom)) = CA_GET(ClRing, c_top)
              /\ Tail(Content(ClRing, c_top, cl!Bottom)) = Content(ClRing, c_top + 1, cl!Bottom)
          BY <3>1, <1>n, ContentHead
        <4>2. QED
          BY <2>2, <3>1, <4>1, ClMapped, ClMappedNext
      <3>3. cl!Hand(t)' = CA_GET(ClRing, c_top)
        BY <2>1, <3>1, ClMappedNext
      <3>4. cl!Abstract!Hold(t, CA_GET(ClRing, c_top))
        BY <2>3, <3>3, ClHandChanged
      <3>5. QED
        BY <2>1, <2>3, <3>2, <3>4, ClDequeThreads DEF cl!Abstract!Steal
    <2>5. CASE c_top # c_local[t].top
      <3>1. c_top' = c_top /\ c_local'[t].elt = ABORT
        BY <1>12, <2>5, <1>i DEF cl!StealExchange, ClTypes
      <3>2. UNCHANGED cl!Items
        BY <2>2, <3>1, ClMapped, ClMappedNext
      <3>3. cl!Hand(t)' = ABORT
        BY <2>1, <3>1, ClMappedNext
      <3>4. cl!Abstract!Hold(t, ABORT)
        BY <2>3, <3>3, ClHandChanged
      <3>5. QED
        BY <2>1, <2>3, <3>2, <3>4, ClDequeThreads DEF cl!Abstract!TurnAway
    <2>6. QED
      BY <2>1, <2>4, <2>5
  <1>13. ASSUME NEW t \in Threads, cl!Return(t) PROVE cl!Abstract!Done(t)
    <2>1. /\ UNCHANGED <<c_top, c_writes, c_arg>>
          /\ c_pc[t] = "return" /\ c_pc' = [c_pc EXCEPT ![t] = "idle"]
          /\ c_pc'[t] = "idle"
          /\ \A u \in Threads \ {t} : c_pc'[u] = c_pc[u] /\ c_local'[u] = c_local[u]
      BY <1>13, <1>i DEF cl!Return, ClTypes
    <2>2. /\ cl!Hand(t) # None /\ cl!Hand(t)' = None
          /\ \A u \in Threads \ {t} : cl!Hand(u)' = cl!Hand(u)
      <3>1. c_local[t].elt # None
        BY <2>1, <1>i, <1>o DEF ClHands
      <3>2. QED
        BY <2>1, <3>1, ClMapped, ClMappedNext
    <2>3. ClRing' = ClRing /\ cl!Bottom' = cl!Bottom
      BY <2>1, <1>i, <1>o, ClNotStored DEF ClPopLabels, ClTypes
    <2>4. UNCHANGED cl!Items
      BY <2>1, <2>3, ClMapped, ClMappedNext
    <2>5. cl!Abstract!Hold(t, None)
      BY <2>2, ClHandChanged
    <2>6. QED
      BY <2>1, <2>2, <2>4, <2>5, ClDequeThreads DEF cl!Abstract!Done
  <1>14. CASE UNCHANGED clVars
    <2>1. UNCHANGED <<c_top, c_writes, c_pc, c_arg, c_local>>
      BY <1>14 DEF clVars
    <2>2. UNCHANGED cl!Items
      BY <2>1, ClNotStored, ClMapped, ClMappedNext
    <2>3. \A u \in Threads : cl!Hand(u)' = cl!Hand(u)
      BY <2>1, ClMapped, ClMappedNext
    <2>4. QED
      BY <2>1, <2>2, <2>3, ClStutters
  <1>15. QED
    <2>1. ASSUME NEW t \in Threads, cl!StealStep(t) \/ cl!Return(t)
          PROVE  [cl!Abstract!Next]_(cl!Abstract!dequeVars)
      BY <2>1, <1>10, <1>11, <1>12, <1>13, ClDequeThreads DEF cl!StealStep, cl!Abstract!Next
    <2>2. ASSUME NEW e \in Elts, cl!CallPush(e) PROVE cl!Abstract!Next
      BY <2>2, <1>1 DEF cl!Abstract!Next
    <2>3. ASSUME cl!PushStep \/ cl!PopBottom \/ cl!PopStep \/ cl!Flush
          PROVE  [cl!Abstract!Next]_(cl!Abstract!dequeVars)
      BY <2>3, <1>2, <1>3, <1>4, <1>5, <1>6, <1>7, <1>8, <1>9
      DEF cl!PushStep, cl!PopStep, cl!Abstract!Next
    <2>4. QED
      BY <2>1, <2>2, <2>3, <1>14, ClDequeThreads DEF cl!Next

\* cl_queue.c: what the owner and the thieves rely on.
THEOREM ClInvariant == Spec => []ClInv
  <1>1. Init => ClInv
    BY ClInitInv DEF Init
  <1>2. [Next]_vars => [cl!Next]_clVars
    BY DEF Next, vars, clVars, Tl, Tk, Cl
  <1>3. QED
    BY <1>1, <1>2, ClStepInv, PTL DEF Spec

\* Whatever the owner's store buffer holds back, and although a thief may read an
\* array that has been replaced, cl_queue.c is a deque out of which every element
\* comes once, and an owner that finds it empty is right (ImplementsWorkDeque).
THEOREM DequeIsAtomic == Spec => ImplementsWorkDeque
  <1>1. Init => cl!Abstract!Init
    BY ClInitMapped DEF Init
  <1>2. [Next]_vars => [cl!Next]_clVars
    BY DEF Next, vars, clVars, Tl, Tk, Cl
  <1>3. ClInv /\ ClInv' /\ [Next]_vars => [cl!Abstract!Next]_(cl!Abstract!dequeVars)
    BY <1>2, ClStepMapped
  <1>4. QED
    BY <1>1, <1>3, ClInvariant, PTL
    DEF Spec, ImplementsWorkDeque, cl!ImplementsWorkDeque, cl!Abstract!Spec

-----------------------------------------------------------------------------

\* The locked queue, and the lock-free one as long as no steal meets a push that
\* grows the array (StealsDuringGrowth is FALSE in TaskQueues), behave as one atomic
\* queue: whoever takes from it at the same time, in whatever order the steps come
\* (tl_queue.c, tk_queue.c; ImplementsWorkQueue).
THEOREM QueuesAreAtomic == Spec => ImplementsWorkQueue
  BY TlRefinement, TkRefinement, PTL DEF ImplementsWorkQueue
=============================================================================
