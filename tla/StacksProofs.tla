---------------------------- MODULE StacksProofs ----------------------------
(***************************************************************************)
(* Segmented stacks, for any sets of threads and coroutines, any frame and *)
(* parameter sizes: no segment is lost or shared, the limit in %fs:0x70 is *)
(* always that of the stack in use, and the frames stay in their segments. *)
(***************************************************************************)
EXTENDS Stacks, FiniteSetTheorems, SequenceTheorems, WellFoundedInduction, TLAPS

Frame == [sp : Int, more : BOOLEAN]

Types ==
    /\ heap \in [Segments -> Header \cup {NULL}]
    /\ frame_ptr \in [Coroutines -> Segments \cup {NULL}]
    /\ frames \in [Coroutines -> Seq(Frame)]
    /\ saved \in [Coroutines -> [stack_top : StackTop \cup {NULL},
                                 current : Coroutines \cup {NULL}]]
    /\ parent \in [Coroutines -> Coroutines \cup {NULL}]
    /\ inside \in [Coroutines -> BOOLEAN]
    /\ current \in [Threads -> Coroutines \cup {NULL}]
    /\ limit \in [Threads -> StackTop \cup {NULL}]
    /\ system_stack \in [Threads -> 0 .. 1]
    /\ main_sp \in [Threads -> 0 .. 1]
    /\ paused_top \in [Threads -> StackTop \cup {NULL}]
    /\ wrapped \in [Threads -> Seq({"switched", "direct"})]

NumMore(fs) == Cardinality({i \in DOMAIN fs : fs[i].more})

\* own says whose list an allocated segment is on, pos how many are before it
\* there, and last where the list ends.
Owned(own, pos, last) ==
    /\ \A s \in Segments : own[s] = NULL <=> heap[s] = NULL
    /\ \A k \in Coroutines : frame_ptr[k] # NULL => own[frame_ptr[k]] = k
    /\ \A s \in Segments : own[s] # NULL => frame_ptr[own[s]] # NULL /\ pos[s] =< last[own[s]]
    /\ \A s, u \in Segments : own[s] # NULL /\ own[s] = own[u] /\ pos[s] = pos[u] => s = u
    /\ \A s \in Segments : own[s] # NULL =>
        /\ heap[s].prev = NULL <=> pos[s] = 0
        /\ heap[s].prev # NULL =>
            /\ own[heap[s].prev] = own[s]
            /\ pos[s] = pos[heap[s].prev] + 1
            /\ heap[heap[s].prev].next = s
        /\ heap[s].next = NULL <=> pos[s] = last[own[s]]
        /\ heap[s].next # NULL =>
            /\ own[heap[s].next] = own[s]
            /\ pos[heap[s].next] = pos[s] + 1
            /\ heap[heap[s].next].prev = s
    /\ \A k \in Coroutines : frame_ptr[k] # NULL => pos[frame_ptr[k]] = NumMore(frames[k])

SegmentsOwned ==
    \E own \in [Segments -> Coroutines \cup {NULL}], pos \in [Segments -> Nat],
       last \in [Coroutines -> Nat] : Owned(own, pos, last)

\* Where a coroutine's frames wait: under a thread's running coroutine, in the
\* continuation held by a coroutine, or nowhere they can be resumed from.
On(t) == <<"on", t>>
In(k) == <<"in", k>>
Nowhere == <<"nowhere", NULL>>
Places == {On(t) : t \in Threads} \cup {In(k) : k \in Coroutines} \cup {Nowhere}

\* at gives every coroutine's place and dep how many of that place are above it.
Attached(at, dep) ==
    /\ \A j \in Coroutines : at[j] # Nowhere => frame_ptr[j] # NULL
    /\ \A t \in Threads : current[t] # NULL => at[current[t]] = On(t)
    /\ \A k \in Coroutines : saved[k].current # NULL =>
        at[saved[k].current] = In(k) /\ at[k] = In(k)
    /\ \A t \in Threads, j \in Coroutines : at[j] = On(t) =>
        /\ current[t] # NULL /\ dep[j] =< dep[current[t]]
        /\ parent[j] = NULL <=> dep[j] = 0
    /\ \A k, j \in Coroutines : at[j] = In(k) =>
        /\ saved[k].current # NULL /\ dep[j] =< dep[saved[k].current]
        /\ j = k <=> dep[j] = 0
    /\ \A j \in Coroutines : at[j] # Nowhere /\ dep[j] # 0 =>
        /\ parent[j] # NULL
        /\ at[parent[j]] = at[j]
        /\ dep[j] = dep[parent[j]] + 1
    /\ \A i, j \in Coroutines : at[i] # Nowhere /\ at[i] = at[j] /\ dep[i] = dep[j] => i = j

Limits(at) ==
    /\ \A t \in Threads : LimitOf(IF wrapped[t] = <<>> THEN current[t] ELSE NULL, limit[t])
    /\ \A t \in Threads : wrapped[t] # <<>> => LimitOf(current[t], paused_top[t])
    /\ \A j \in Coroutines :
        at[j] # Nowhere /\ at[j] # In(j) => LimitOf(parent[j], saved[j].stack_top)
    /\ \A j \in Coroutines : at[j] = In(j) => LimitOf(saved[j].current, saved[j].stack_top)

PlacesKept ==
    \E at \in [Coroutines -> Places], dep \in [Coroutines -> Nat] :
        Attached(at, dep) /\ Limits(at)

Wrapped ==
    \A t \in Threads :
        \/ wrapped[t] = <<>> /\ paused_top[t] = NULL
        \/ wrapped[t] \in {<<"direct">>, <<"direct", "direct">>} /\ current[t] = NULL
        \/ wrapped[t] \in {<<"switched">>, <<"switched", "direct">>} /\ current[t] # NULL

\* An alignment takes at most 15 bytes and __morestack's return address 8.
Fits == \A k \in Coroutines : \A i \in DOMAIN frames[k] : frames[k][i].sp >= -23

Begun == \A k \in Coroutines : frame_ptr[k] # NULL => frames[k] # <<>>

IInv ==
    /\ Types /\ Wrapped /\ Fits /\ Begun /\ SystemStackIsFree
    /\ SegmentsOwned
    /\ PlacesKept

-----------------------------------------------------------------------------
(* Operators of the model *)

\* A set of naturals with 0 and each successor has them all.
LEMMA SetInduction ==
    ASSUME NEW S, 0 \in S, \A n \in Nat : n \in S => n + 1 \in S
    PROVE  \A n \in Nat : n \in S
  <1> DEFINE R == OpToRel(<, Nat)
  <1> DEFINE T == Nat \ S
  <1> SUFFICES ASSUME T # {} PROVE FALSE
    OBVIOUS
  <1>1. IsWellFoundedOn(R, Nat) /\ T \subseteq Nat
    BY NatLessThanWellFounded
  <1> HIDE DEF R, T
  <1>2. PICK x \in T : \A y \in T : ~ (<<y, x>> \in R)
    BY <1>1, WFMin
  <1>3. \A i, j \in Nat : i < j => <<i, j>> \in R
    BY DEF R, OpToRel
  <1>4. x # 0 /\ x \in Nat /\ x - 1 \in Nat
    BY <1>1 DEF T
  <1>5. x - 1 \notin T
    <2>1. <<x - 1, x>> \in R
      BY <1>3, <1>4
    <2>2. QED
      BY <2>1, <1>2
  <1>6. QED
    BY <1>4, <1>5 DEF T

LEMMA MaxOfTwo ==
    ASSUME NEW a \in Int, NEW b \in Int
    PROVE  Max({a, b}) \in {a, b} /\ Max({a, b}) >= a /\ Max({a, b}) >= b
  <1>1. \E x \in {a, b} : \A y \in {a, b} : x >= y
    <2>1. a >= b \/ b >= a
      OBVIOUS
    <2>2. QED
      BY <2>1
  <1>2. QED
    BY <1>1 DEF Max

LEMMA AlignedDown ==
    ASSUME NEW a \in Int
    PROVE  Aligned(a) \in Int /\ a - 15 =< Aligned(a) /\ Aligned(a) =< a
  <1>1. (a % 16) \in 0 .. 15
    OBVIOUS
  <1>2. QED
    BY <1>1 DEF Aligned

LEMMA NewSegmentIsFree ==
    ASSUME HasRoom
    PROVE  NewSegment \in Segments /\ heap[NewSegment] = NULL
  <1> DEFINE R == OpToRel(<, Nat)
  <1>1. IsWellFoundedOn(R, Nat)
    BY NatLessThanWellFounded
  <1>2. FreeSegments \subseteq Nat /\ FreeSegments # {}
    BY BoundsAssumption DEF FreeSegments, Segments, HasRoom
  <1>3. \A i, j \in Nat : i < j => <<i, j>> \in R
    BY DEF R, OpToRel
  <1> HIDE DEF R
  <1>4. PICK x \in FreeSegments : \A y \in FreeSegments : ~ (<<y, x>> \in R)
    BY <1>1, <1>2, WFMin
  <1>5. ASSUME NEW y \in FreeSegments PROVE x =< y
    <2>1. x \in Nat /\ y \in Nat /\ ~ (<<y, x>> \in R)
      BY <1>2, <1>4
    <2>2. ~ (y < x)
      BY <2>1, <1>3
    <2>3. QED
      BY <2>1, <2>2
  <1>6. Min(FreeSegments) \in FreeSegments
    BY <1>5 DEF Min
  <1>7. QED
    BY <1>6 DEF NewSegment, FreeSegments

LEMMA OneMore ==
    ASSUME NEW fs \in Seq(Frame), NEW f \in Frame
    PROVE  NumMore(Append(fs, f)) = NumMore(fs) + (IF f.more THEN 1 ELSE 0)
  <1> DEFINE S == {i \in DOMAIN fs : fs[i].more}
  <1> DEFINE T == {i \in DOMAIN Append(fs, f) : Append(fs, f)[i].more}
  <1>1. T = IF f.more THEN S \cup {Len(fs) + 1} ELSE S
    OBVIOUS
  <1>2. Len(fs) \in Nat /\ DOMAIN fs = 1 .. Len(fs) /\ Len(fs) + 1 \notin S
    OBVIOUS
  <1> HIDE DEF T
  <1>3. IsFiniteSet(S)
    <2>1. IsFiniteSet(1 .. Len(fs)) /\ S \subseteq 1 .. Len(fs)
      BY <1>2, FS_Interval
    <2>2. QED
      BY <2>1, FS_Subset
  <1>4. NumMore(fs) = Cardinality(S) /\ NumMore(Append(fs, f)) = Cardinality(T)
    BY DEF NumMore, T
  <1> HIDE DEF S
  <1>5. Cardinality(S) \in Nat
    BY <1>3, FS_CardinalityType
  <1>6. CASE f.more
    <2>1. Cardinality(S \cup {Len(fs) + 1}) = Cardinality(S) + 1
      BY <1>2, <1>3, FS_AddElement
    <2>2. QED
      BY <1>1, <1>4, <1>6, <2>1
  <1>7. CASE ~f.more
    BY <1>1, <1>4, <1>5, <1>7
  <1>8. QED
    BY <1>6, <1>7

LEMMA OneLess ==
    ASSUME NEW fs \in Seq(Frame), fs # <<>>
    PROVE  /\ NumMore(fs) \in Nat
           /\ Last(fs).more => NumMore(fs) > 0 /\ NumMore(Front(fs)) = NumMore(fs) - 1
           /\ ~Last(fs).more => NumMore(Front(fs)) = NumMore(fs)
  <1>1. /\ Front(fs) \in Seq(Frame) /\ Last(fs) \in Frame
        /\ fs = Append(Front(fs), Last(fs))
    BY DEF Front, Last
  <1>2. NumMore(fs) = NumMore(Front(fs)) + (IF Last(fs).more THEN 1 ELSE 0)
    BY <1>1, OneMore
  <1>3. NumMore(Front(fs)) \in Nat
    <2>1. DOMAIN Front(fs) = 1 .. Len(Front(fs)) /\ Len(Front(fs)) \in Nat
      BY <1>1
    <2> DEFINE S == {i \in DOMAIN Front(fs) : Front(fs)[i].more}
    <2>2. IsFiniteSet(1 .. Len(Front(fs))) /\ S \subseteq 1 .. Len(Front(fs))
      BY <2>1, FS_Interval
    <2>3. IsFiniteSet(S)
      BY <2>2, FS_Subset
    <2>4. Cardinality(S) \in Nat
      BY <2>3, FS_CardinalityType
    <2>5. QED
      BY <2>4 DEF NumMore
  <1>4. QED
    BY <1>1, <1>2, <1>3 DEF Frame

-----------------------------------------------------------------------------
(* Chains of coroutines *)

\* parent_coroutine leads from the deepest of a set of coroutines, each of which
\* is one deeper than its parent, through all of them and no further.
LEMMA PathIs ==
    ASSUME NEW A \in SUBSET Coroutines, NEW d \in [Coroutines -> Nat], NEW stop, NEW j \in A,
           \A i \in A : d[i] =< d[j],
           \A i \in A : d[i] = 0 <=> (i = stop \/ parent[i] = NULL),
           \A i \in A : d[i] # 0 => parent[i] \in A /\ d[i] = d[parent[i]] + 1,
           \A i, h \in A : d[i] = d[h] => i = h,
           parent \in [Coroutines -> Coroutines \cup {NULL}]
    PROVE  Path(j, stop) = A
  <1> DEFINE Ends(i) == i = stop \/ parent[i] = NULL
  <1> DEFINE Closed(C) == \A y \in C : ~Ends(y) => parent[y] \in C
  <1> DEFINE Reach(i) == {x \in Coroutines : \A C \in SUBSET Coroutines :
                                                i \in C /\ Closed(C) => x \in C}
  <1> DEFINE Walks(g) == g = [i \in Coroutines |->
                                {i} \cup IF i = stop \/ parent[i] = NULL THEN {} ELSE g[parent[i]]]
  <1> DEFINE Up == CHOOSE g : Walks(g)
  <1>1. ASSUME NEW i \in Coroutines
        PROVE  Reach(i) = {i} \cup IF Ends(i) THEN {} ELSE Reach(parent[i])
    <2>1. Ends(i) => Reach(i) = {i}
      <3>1. Ends(i) => Closed({i})
        OBVIOUS
      <3>2. {i} \in SUBSET Coroutines
        OBVIOUS
      <3>3. i \in Reach(i)
        OBVIOUS
      <3>4. ASSUME Ends(i), NEW x \in Reach(i) PROVE x = i
        BY <3>1, <3>2, <3>4
      <3>5. QED
        BY <3>3, <3>4
    <2>2. ASSUME ~Ends(i) PROVE Reach(i) = {i} \cup Reach(parent[i])
      <3>1. parent[i] \in Coroutines
        BY <2>2
      <3>2. i \in Reach(i)
        OBVIOUS
      <3>3. ASSUME NEW x \in Reach(parent[i]) PROVE x \in Reach(i)
        <4>1. ASSUME NEW C \in SUBSET Coroutines, i \in C, Closed(C) PROVE x \in C
          <5>1. parent[i] \in C
            BY <4>1, <2>2
          <5>2. QED
            BY <5>1, <4>1, <3>3
        <4>2. QED
          BY <4>1
      <3>4. ASSUME NEW x \in Reach(i) PROVE x \in {i} \cup Reach(parent[i])
        <4> DEFINE D == {i} \cup Reach(parent[i])
        <4>1. D \in SUBSET Coroutines /\ i \in D
          OBVIOUS
        <4>2. ASSUME NEW y \in Reach(parent[i]), ~Ends(y) PROVE parent[y] \in Reach(parent[i])
          <5>1. parent[y] \in Coroutines
            BY <4>2
          <5>2. ASSUME NEW C \in SUBSET Coroutines, parent[i] \in C, Closed(C) PROVE parent[y] \in C
            BY <5>2, <4>2
          <5>3. QED
            BY <5>1, <5>2
        <4>3. parent[i] \in Reach(parent[i])
          BY <3>1
        <4>4. Closed(D)
          BY <4>2, <4>3
        <4>5. QED
          BY <3>4, <4>1, <4>4
      <3>5. QED
        BY <3>2, <3>3, <3>4
    <2>3. QED
      BY <2>1, <2>2
  <1>2. Walks(Up)
    <2> DEFINE g == [i \in Coroutines |-> Reach(i)]
    <2> HIDE DEF Reach, Closed
    <2>1. \A i \in Coroutines : ~Ends(i) => parent[i] \in Coroutines
      OBVIOUS
    <2>2. Walks(g)
      BY <1>1, <2>1
    <2>3. QED
      BY <2>2
  <1>3. Path(j, stop) = Up[j]
    BY NullAssumption DEF Path
  <1> HIDE DEF Up, Reach, Closed
  <1>4. \A i \in Coroutines : Up[i] = {i} \cup IF Ends(i) THEN {} ELSE Up[parent[i]]
    BY <1>2
  <1> HIDE DEF Walks
  <1> DEFINE S == {n \in Nat : \A i \in A : d[i] = n => Up[i] = {x \in A : d[x] =< n}}
  <1>5. 0 \in S
    <2>1. ASSUME NEW i \in A, d[i] = 0 PROVE Up[i] = {i}
      BY <2>1, <1>4
    <2>2. ASSUME NEW i \in A, d[i] = 0 PROVE {i} = {x \in A : d[x] =< 0}
      BY <2>2
    <2>3. QED
      BY <2>1, <2>2
  <1>6. ASSUME NEW n \in Nat, n \in S PROVE n + 1 \in S
    <2>1. ASSUME NEW i \in A, d[i] = n + 1 PROVE Up[i] = {x \in A : d[x] =< n + 1}
      <3>1. d[i] # 0 /\ parent[i] \in A /\ d[parent[i]] = n /\ ~Ends(i)
        BY <2>1
      <3>2. Up[parent[i]] = {x \in A : d[x] =< n}
        BY <1>6, <3>1
      <3>3. Up[i] = {i} \cup Up[parent[i]]
        BY <1>4, <3>1
      <3>4. \A x \in A : d[x] =< n + 1 <=> (d[x] =< n \/ x = i)
        BY <2>1
      <3>5. QED
        BY <3>2, <3>3, <3>4
    <2>2. QED
      BY <2>1
  <1> HIDE DEF S
  <1>7. d[j] \in S
    BY <1>5, <1>6, SetInduction
  <1>8. QED
    BY <1>3, <1>7 DEF S

-----------------------------------------------------------------------------
(* Lists of segments *)

\* The first segment, the segments after one and the number before it are what
\* the walks of seff_coroutine_release find.
LEMMA ListsWalked ==
    ASSUME Types, NEW own \in [Segments -> Coroutines \cup {NULL}],
           NEW pos \in [Segments -> Nat], NEW last \in [Coroutines -> Nat],
           Owned(own, pos, last)
    PROVE  /\ Allocated = {s \in Segments : own[s] # NULL}
           /\ \A s \in Allocated : Before[s] = pos[s]
           /\ \A k \in Coroutines : frame_ptr[k] # NULL =>
                Released(k) = {s \in Segments : own[s] = k}
  <1>1. Allocated = {s \in Segments : own[s] # NULL}
    BY DEF Owned, Allocated, FreeSegments
  <1>2. ASSUME NEW s \in Allocated
        PROVE  /\ s \in Segments /\ own[s] \in Coroutines /\ pos[s] \in Nat /\ last[own[s]] \in Nat
               /\ heap[s].prev = NULL <=> pos[s] = 0
               /\ heap[s].prev # NULL =>
                    /\ heap[s].prev \in Allocated /\ own[heap[s].prev] = own[s]
                    /\ pos[s] = pos[heap[s].prev] + 1
               /\ heap[s].next = NULL <=> pos[s] = last[own[s]]
               /\ heap[s].next # NULL =>
                    /\ heap[s].next \in Allocated /\ own[heap[s].next] = own[s]
                    /\ pos[heap[s].next] = pos[s] + 1
               /\ pos[s] =< last[own[s]]
    <2>1. s \in Segments /\ own[s] # NULL /\ own[s] \in Coroutines /\ heap[s] # NULL
      BY <1>1 DEF Owned
    <2>2. heap[s] \in Header
      BY <2>1 DEF Types
    <2>3. heap[s].prev \in Segments \cup {NULL} /\ heap[s].next \in Segments \cup {NULL}
      BY <2>2 DEF Header
    <2>4. pos[s] \in Nat /\ last[own[s]] \in Nat
      BY <2>1
    <2>5. QED
      BY <1>1, <2>1, <2>3, <2>4 DEF Owned
  <1>3. \A s, u \in Allocated : own[s] = own[u] /\ pos[s] = pos[u] => s = u
    BY <1>1 DEF Owned
  <1> DEFINE B(g) == g = [s \in Allocated |->
                              IF heap[s].prev = NULL THEN s ELSE g[heap[s].prev]]
  <1> DEFINE F(g) == g = [s \in Allocated |->
                              {s} \cup IF heap[s].next = NULL THEN {} ELSE g[heap[s].next]]
  <1> DEFINE N(g) == g = [s \in Allocated |->
                              IF heap[s].prev = NULL THEN 0 ELSE 1 + g[heap[s].prev]]
  <1> DEFINE From(s) == {u \in Allocated : own[u] = own[s] /\ pos[u] >= pos[s]}
  <1>4. ASSUME NEW s \in Allocated PROVE \E f \in Allocated : own[f] = own[s] /\ pos[f] = 0
    <2> DEFINE S == {n \in Nat : \A u \in Allocated : pos[u] = n =>
                        \E f \in Allocated : own[f] = own[u] /\ pos[f] = 0}
    <2>1. 0 \in S
      OBVIOUS
    <2>2. ASSUME NEW n \in Nat, n \in S PROVE n + 1 \in S
      <3>1. ASSUME NEW u \in Allocated, pos[u] = n + 1
            PROVE  \E f \in Allocated : own[f] = own[u] /\ pos[f] = 0
        <4>1. /\ heap[u].prev \in Allocated /\ own[heap[u].prev] = own[u]
              /\ pos[u] = pos[heap[u].prev] + 1
          BY <3>1, <1>2
        <4>2. pos[heap[u].prev] = n
          BY <3>1, <4>1, <1>2
        <4>3. QED
          BY <2>2, <4>1, <4>2
      <3>2. QED
        BY <3>1
    <2> HIDE DEF S
    <2>3. pos[s] \in S
      BY <1>2, <2>1, <2>2, SetInduction
    <2>4. QED
      BY <2>3 DEF S
  <1>5. B(Backward)
    <2> DEFINE Foremost(k) == CHOOSE f \in Allocated : own[f] = k /\ pos[f] = 0
    <2> DEFINE g == [s \in Allocated |-> Foremost(own[s])]
    <2>1. ASSUME NEW s \in Allocated
          PROVE  g[s] = IF heap[s].prev = NULL THEN s ELSE g[heap[s].prev]
      <3>1. g[s] \in Allocated /\ own[g[s]] = own[s] /\ pos[g[s]] = 0
        BY <1>4
      <3> HIDE DEF Foremost
      <3>2. CASE heap[s].prev = NULL
        BY <3>1, <3>2, <1>2, <1>3
      <3>3. CASE heap[s].prev # NULL
        <4>1. heap[s].prev \in Allocated /\ own[heap[s].prev] = own[s]
          BY <3>3, <1>2
        <4>2. g[s] = Foremost(own[s]) /\ g[heap[s].prev] = Foremost(own[heap[s].prev])
          BY <4>1
        <4>3. QED
          BY <3>3, <4>1, <4>2
      <3>4. QED
        BY <3>2, <3>3
    <2> HIDE DEF Foremost, Backward
    <2>2. g = [s \in Allocated |-> IF heap[s].prev = NULL THEN s ELSE g[heap[s].prev]]
      BY <2>1
    <2> HIDE DEF g
    <2>3. \E h : B(h)
      BY <2>2
    <2>4. Backward = CHOOSE h : B(h)
      BY DEF Backward
    <2>5. QED
      BY <2>3, <2>4
  <1>6. F(Forward)
    <2> DEFINE g == [s \in Allocated |-> From(s)]
    <2>1. ASSUME NEW s \in Allocated
          PROVE  g[s] = {s} \cup IF heap[s].next = NULL THEN {} ELSE g[heap[s].next]
      <3>1. CASE heap[s].next = NULL
        <4>1. \A u \in Allocated : own[u] = own[s] /\ pos[u] >= pos[s] => u = s
          BY <3>1, <1>2, <1>3
        <4>2. QED
          BY <3>1, <4>1, <1>2
      <3>2. CASE heap[s].next # NULL
        <4>1. /\ heap[s].next \in Allocated /\ own[heap[s].next] = own[s]
              /\ pos[heap[s].next] = pos[s] + 1
          BY <3>2, <1>2
        <4>2. \A u \in Allocated : own[u] = own[s] =>
                  (pos[u] >= pos[s] <=> (u = s \/ pos[u] >= pos[s] + 1))
          BY <1>2, <1>3
        <4>3. QED
          BY <3>2, <4>1, <4>2
      <3>3. QED
        BY <3>1, <3>2
    <2>2. g = [s \in Allocated |-> {s} \cup IF heap[s].next = NULL THEN {} ELSE g[heap[s].next]]
      BY <2>1
    <2> HIDE DEF g
    <2>3. \E h : F(h)
      BY <2>2
    <2>4. Forward = CHOOSE h : F(h)
      BY DEF Forward
    <2>5. QED
      BY <2>3, <2>4
  <1>7. N(Before)
    <2> DEFINE g == [s \in Allocated |-> pos[s]]
    <2>1. ASSUME NEW s \in Allocated
          PROVE  g[s] = IF heap[s].prev = NULL THEN 0 ELSE 1 + g[heap[s].prev]
      BY <1>2
    <2>2. g = [s \in Allocated |-> IF heap[s].prev = NULL THEN 0 ELSE 1 + g[heap[s].prev]]
      BY <2>1
    <2> HIDE DEF g
    <2>3. \E h : N(h)
      BY <2>2
    <2>4. Before = CHOOSE h : N(h)
      BY DEF Before
    <2>5. QED
      BY <2>3, <2>4
  <1>8. ASSUME NEW s \in Allocated
        PROVE  /\ Before[s] = pos[s]
               /\ Backward[s] \in Allocated /\ own[Backward[s]] = own[s] /\ pos[Backward[s]] = 0
    <2>e. \A u \in Allocated :
              /\ Backward[u] = IF heap[u].prev = NULL THEN u ELSE Backward[heap[u].prev]
              /\ Before[u] = IF heap[u].prev = NULL THEN 0 ELSE 1 + Before[heap[u].prev]
      BY <1>5, <1>7
    <2> HIDE DEF B, F, N
    <2> DEFINE Good(u) == /\ Before[u] = pos[u] /\ Backward[u] \in Allocated
                          /\ own[Backward[u]] = own[u] /\ pos[Backward[u]] = 0
    <2> DEFINE S == {n \in Nat : \A u \in Allocated : pos[u] = n => Good(u)}
    <2>1. 0 \in S
      BY <2>e, <1>2
    <2>2. ASSUME NEW n \in Nat, n \in S PROVE n + 1 \in S
      <3>1. ASSUME NEW u \in Allocated, pos[u] = n + 1 PROVE Good(u)
        <4>1. /\ heap[u].prev # NULL /\ heap[u].prev \in Allocated
              /\ own[heap[u].prev] = own[u] /\ pos[heap[u].prev] = n
          BY <3>1, <1>2
        <4>2. Good(heap[u].prev)
          BY <2>2, <4>1
        <4>3. QED
          BY <2>e, <3>1, <4>1, <4>2
      <3>2. QED
        BY <3>1
    <2> HIDE DEF S
    <2>3. pos[s] \in S
      BY <1>2, <2>1, <2>2, SetInduction
    <2>4. QED
      BY <2>3 DEF S
  <1>9. ASSUME NEW s \in Allocated PROVE Forward[s] = From(s)
    <2>e. \A u \in Allocated :
              Forward[u] = {u} \cup IF heap[u].next = NULL THEN {} ELSE Forward[heap[u].next]
      BY <1>6
    <2> HIDE DEF B, F, N
    <2> DEFINE S == {n \in Nat : \A u \in Allocated :
                                    last[own[u]] - pos[u] = n => Forward[u] = From(u)}
    <2>1. 0 \in S
      <3>1. ASSUME NEW u \in Allocated, last[own[u]] - pos[u] = 0 PROVE Forward[u] = From(u)
        <4>1. heap[u].next = NULL /\ Forward[u] = {u}
          BY <3>1, <1>2, <2>e
        <4>2. \A v \in Allocated : own[v] = own[u] /\ pos[v] >= pos[u] => v = u
          BY <3>1, <1>2, <1>3
        <4>3. QED
          BY <4>1, <4>2, <1>2
      <3>2. QED
        BY <3>1
    <2>2. ASSUME NEW n \in Nat, n \in S PROVE n + 1 \in S
      <3>1. ASSUME NEW u \in Allocated, last[own[u]] - pos[u] = n + 1
            PROVE  Forward[u] = From(u)
        <4> DEFINE v == heap[u].next
        <4>1. /\ v # NULL /\ v \in Allocated /\ own[v] = own[u] /\ pos[v] = pos[u] + 1
              /\ last[own[v]] - pos[v] = n
          <5>1. pos[u] # last[own[u]] /\ v # NULL
            BY <3>1, <1>2
          <5>2. v \in Allocated /\ own[v] = own[u] /\ pos[v] = pos[u] + 1
            BY <5>1, <1>2
          <5>3. last[own[v]] - pos[v] = n
            BY <5>2, <3>1, <1>2
          <5>4. QED
            BY <5>1, <5>2, <5>3
        <4>2. Forward[v] = From(v) /\ Forward[u] = {u} \cup Forward[v]
          BY <2>2, <4>1, <2>e
        <4>3. \A w \in Allocated : own[w] = own[u] =>
                  (pos[w] >= pos[u] <=> (w = u \/ pos[w] >= pos[u] + 1))
          BY <1>2, <1>3
        <4>4. QED
          BY <4>1, <4>2, <4>3
      <3>2. QED
        BY <3>1
    <2> HIDE DEF S
    <2>3. last[own[s]] - pos[s] \in Nat
      BY <1>2
    <2>4. last[own[s]] - pos[s] \in S
      BY <2>1, <2>2, <2>3, SetInduction
    <2>5. QED
      BY <2>4 DEF S
  <1>10. ASSUME NEW k \in Coroutines, frame_ptr[k] # NULL
         PROVE  Released(k) = {s \in Segments : own[s] = k}
    <2>1. frame_ptr[k] \in Allocated /\ own[frame_ptr[k]] = k
      BY <1>10, <1>1, NullAssumption DEF Owned, Types
    <2> DEFINE f == Backward[frame_ptr[k]]
    <2>2. f \in Allocated /\ own[f] = k /\ pos[f] = 0
      BY <2>1, <1>8
    <2> HIDE DEF f
    <2>3. Forward[f] = From(f)
      BY <2>2, <1>9
    <2>4. Released(k) = Forward[f]
      BY DEF Released, f
    <2>5. From(f) = {s \in Segments : own[s] = k}
      <3>1. \A s \in Segments : own[s] = k => s \in Allocated /\ pos[s] >= 0
        BY <1>1, <1>2, NullAssumption
      <3>2. QED
        BY <3>1, <1>2, <2>2
    <2>6. QED
      BY <2>3, <2>4, <2>5
  <1>11. QED
    BY <1>1, <1>8, <1>10

-----------------------------------------------------------------------------
(* Segments: creation and deletion *)

LEMMA CreatedOwned ==
    ASSUME Types, SegmentsOwned, Fits, Begun, NEW k \in Coroutines, seff_coroutine_init_sized(k)
    PROVE  Types' /\ SegmentsOwned' /\ Fits' /\ Begun'
  <1>s. PICK s : s = NewSegment
    OBVIOUS
  <1> DEFINE size == default_frame_size + 16
  <1> DEFINE header == [prev |-> NULL, next |-> NULL, size |-> size]
  <1> DEFINE frame == [sp |-> Aligned(size) - 8, more |-> FALSE]
  <1>1. PICK own \in [Segments -> Coroutines \cup {NULL}], pos \in [Segments -> Nat],
             last \in [Coroutines -> Nat] : Owned(own, pos, last)
    BY DEF SegmentsOwned
  <1>2. /\ frame_ptr[k] = NULL /\ HasRoom
        /\ heap' = [heap EXCEPT ![s] = header]
        /\ frame_ptr' = [frame_ptr EXCEPT ![k] = s]
        /\ frames' = [frames EXCEPT ![k] = <<frame>>]
        /\ saved' = [saved EXCEPT ![k] = [stack_top |-> [seg |-> s, off |-> 0], current |-> k]]
        /\ UNCHANGED <<parent, inside, current, limit, system_stack, main_sp, paused_top, wrapped>>
    BY <1>s DEF seff_coroutine_init_sized, init_segment, regs, calls
  <1>3. s \in Segments /\ heap[s] = NULL
    BY <1>s, <1>2, NewSegmentIsFree
  <1>4. size \in Nat
    BY SizesAssumption
  <1>5. frame \in Frame /\ frame.sp >= -23
    <2>1. Aligned(size) \in Int /\ size - 15 =< Aligned(size)
      BY <1>4, AlignedDown
    <2>2. QED
      BY <2>1, <1>4 DEF Frame
  <1> HIDE DEF size, frame
  <1>6. header \in Header
    BY <1>4 DEF Header
  <1>7. Types'
    <2>1. [seg |-> s, off |-> 0] \in StackTop
      BY <1>3 DEF StackTop
    <2>2. <<frame>> \in Seq(Frame)
      BY <1>5
    <2>3. heap' \in [Segments -> Header \cup {NULL}]
      BY <1>2, <1>6 DEF Types
    <2>4. frame_ptr' \in [Coroutines -> Segments \cup {NULL}]
      BY <1>2, <1>3 DEF Types
    <2>5. frames' \in [Coroutines -> Seq(Frame)]
      BY <1>2, <2>2 DEF Types
    <2>6. saved' \in [Coroutines -> [stack_top : StackTop \cup {NULL},
                                     current : Coroutines \cup {NULL}]]
      BY <1>2, <2>1 DEF Types
    <2>7. QED
      BY <1>2, <2>3, <2>4, <2>5, <2>6 DEF Types
  <1>8. Fits' /\ Begun'
    <2>1. /\ frames'[k] = <<frame>>
          /\ \A j \in Coroutines : j # k => frames'[j] = frames[j] /\ frame_ptr'[j] = frame_ptr[j]
      BY <1>2 DEF Types
    <2>2. DOMAIN <<frame>> = {1} /\ <<frame>>[1] = frame /\ <<frame>> # <<>>
      OBVIOUS
    <2>3. Fits'
      BY <2>1, <2>2, <1>5 DEF Fits
    <2>4. Begun'
      BY <2>1, <2>2 DEF Begun
    <2>5. QED
      BY <2>3, <2>4
  <1>9. SegmentsOwned'
    <2> DEFINE o == [own EXCEPT ![s] = k]
    <2> DEFINE p == [pos EXCEPT ![s] = 0]
    <2> DEFINE l == [last EXCEPT ![k] = 0]
    <2>1. /\ o \in [Segments -> Coroutines \cup {NULL}] /\ p \in [Segments -> Nat]
          /\ l \in [Coroutines -> Nat]
      OBVIOUS
    <2>2. /\ own[s] = NULL
          /\ \A u \in Segments : own[u] # k
          /\ k # NULL /\ s # NULL
      <3>1. k # NULL
        BY NullAssumption
      <3>2. s # NULL
        BY <1>3, BoundsAssumption, NullAssumption DEF Segments
      <3>3. own[s] = NULL
        BY <1>1, <1>3 DEF Owned
      <3>4. ASSUME NEW u \in Segments, own[u] = k PROVE FALSE
        BY <1>1, <1>2, <3>1, <3>4 DEF Owned
      <3>5. QED
        BY <3>1, <3>2, <3>3, <3>4
    <2>3. \A u \in Segments : u # s => heap'[u] = heap[u] /\ o[u] = own[u] /\ p[u] = pos[u]
      BY <1>2 DEF Types
    <2>4. heap'[s] = header /\ o[s] = k /\ p[s] = 0 /\ l[k] = 0
      BY <1>2, <1>3 DEF Types
    <2>5. header.prev = NULL /\ header.next = NULL /\ header # NULL
      BY <1>6, NullAssumption
    <2>6. \A j \in Coroutines : j # k => /\ frame_ptr'[j] = frame_ptr[j] /\ frames'[j] = frames[j]
                                         /\ l[j] = last[j]
      BY <1>2 DEF Types
    <2>7. frame_ptr'[k] = s /\ NumMore(frames'[k]) = 0
      <3>1. frame_ptr'[k] = s /\ frames'[k] = <<frame>>
        BY <1>2 DEF Types
      <3>2. {i \in DOMAIN <<frame>> : <<frame>>[i].more} = {}
        BY DEF frame
      <3>3. QED
        BY <3>1, <3>2, FS_EmptySet DEF NumMore
    <2>8. \A u \in Segments : own[u] # NULL =>
              /\ u # s /\ own[u] \in Coroutines /\ own[u] # k
              /\ heap[u].prev \in Segments \cup {NULL} /\ heap[u].next \in Segments \cup {NULL}
              /\ heap[u].prev # NULL => heap[u].prev # s /\ own[heap[u].prev] # NULL
              /\ heap[u].next # NULL => heap[u].next # s /\ own[heap[u].next] # NULL
      BY <1>1, <2>2 DEF Owned, Types, Header
    <2> HIDE DEF o, p, l
    <2>9. \A u \in Segments : o[u] = NULL <=> heap'[u] = NULL
      BY <1>1, <2>2, <2>3, <2>4, <2>5 DEF Owned
    <2>10. \A j \in Coroutines : frame_ptr'[j] # NULL =>
              o[frame_ptr'[j]] = j /\ p[frame_ptr'[j]] = NumMore(frames'[j])
      <3>1. ASSUME NEW j \in Coroutines, j # k, frame_ptr[j] # NULL
            PROVE  o[frame_ptr[j]] = j /\ p[frame_ptr[j]] = NumMore(frames[j])
        <4>1. frame_ptr[j] \in Segments /\ own[frame_ptr[j]] = j /\ j # NULL
              /\ pos[frame_ptr[j]] = NumMore(frames[j])
          BY <3>1, <1>1, NullAssumption DEF Owned, Types
        <4>2. QED
          BY <4>1, <2>2, <2>3
      <3>2. QED
        BY <3>1, <2>4, <2>6, <2>7
    <2>11. \A u \in Segments : o[u] # NULL => frame_ptr'[o[u]] # NULL /\ p[u] =< l[o[u]]
      BY <1>1, <2>2, <2>3, <2>4, <2>6, <2>7, <2>8 DEF Owned
    <2>12. \A u, v \in Segments : o[u] # NULL /\ o[u] = o[v] /\ p[u] = p[v] => u = v
      BY <1>1, <2>2, <2>3, <2>4 DEF Owned
    <2>13. ASSUME NEW u \in Segments, o[u] # NULL
           PROVE  /\ heap'[u].prev = NULL <=> p[u] = 0
                  /\ heap'[u].prev # NULL =>
                      /\ o[heap'[u].prev] = o[u]
                      /\ p[u] = p[heap'[u].prev] + 1
                      /\ heap'[heap'[u].prev].next = u
                  /\ heap'[u].next = NULL <=> p[u] = l[o[u]]
                  /\ heap'[u].next # NULL =>
                      /\ o[heap'[u].next] = o[u]
                      /\ p[heap'[u].next] = p[u] + 1
                      /\ heap'[heap'[u].next].prev = u
      <3>1. CASE u = s
        BY <3>1, <2>4, <2>5
      <3>2. CASE u # s
        <4>1. own[u] # NULL /\ heap'[u] = heap[u] /\ o[u] = own[u] /\ p[u] = pos[u]
              /\ l[o[u]] = last[own[u]]
          BY <3>2, <2>3, <2>6, <2>8, <2>13
        <4>2. heap[u].prev # NULL => /\ heap'[heap[u].prev] = heap[heap[u].prev]
                                     /\ o[heap[u].prev] = own[heap[u].prev]
                                     /\ p[heap[u].prev] = pos[heap[u].prev]
          BY <4>1, <2>3, <2>8
        <4>3. heap[u].next # NULL => /\ heap'[heap[u].next] = heap[heap[u].next]
                                     /\ o[heap[u].next] = own[heap[u].next]
                                     /\ p[heap[u].next] = pos[heap[u].next]
          BY <4>1, <2>3, <2>8
        <4>4. QED
          BY <1>1, <4>1, <4>2, <4>3 DEF Owned
      <3>3. QED
        BY <3>1, <3>2
    <2>14. Owned(o, p, l)'
      BY <2>9, <2>10, <2>11, <2>12, <2>13 DEF Owned
    <2>15. QED
      BY <2>1, <2>14 DEF SegmentsOwned, o, p, l
  <1>10. QED
    BY <1>7, <1>8, <1>9

LEMMA DeletedOwned ==
    ASSUME Types, SegmentsOwned, Fits, Begun, NEW k \in Coroutines, seff_coroutine_delete(k)
    PROVE  Types' /\ SegmentsOwned' /\ Fits' /\ Begun'
  <1>1. PICK own \in [Segments -> Coroutines \cup {NULL}], pos \in [Segments -> Nat],
             last \in [Coroutines -> Nat] : Owned(own, pos, last)
    BY DEF SegmentsOwned
  <1>2. /\ frame_ptr[k] # NULL
        /\ heap' = [s \in Segments |-> IF s \in Released(k) THEN NULL ELSE heap[s]]
        /\ frame_ptr' = [frame_ptr EXCEPT ![k] = NULL]
        /\ frames' = [frames EXCEPT ![k] = <<>>]
        /\ saved' = [saved EXCEPT ![k] = [stack_top |-> NULL, current |-> NULL]]
        /\ parent' = [parent EXCEPT ![k] = NULL]
        /\ inside' = [inside EXCEPT ![k] = FALSE]
        /\ UNCHANGED <<current, limit, system_stack, main_sp, paused_top, wrapped>>
    BY DEF seff_coroutine_delete, regs, calls
  <1>3. Released(k) = {s \in Segments : own[s] = k}
    BY <1>1, <1>2, ListsWalked
  <1>4. heap' = [s \in Segments |-> IF own[s] = k THEN NULL ELSE heap[s]]
    BY <1>2, <1>3
  <1>5. Types'
    <2>1. <<>> \in Seq(Frame)
      OBVIOUS
    <2>2. heap' \in [Segments -> Header \cup {NULL}]
      BY <1>4 DEF Types
    <2>3. frames' \in [Coroutines -> Seq(Frame)]
      BY <1>2, <2>1 DEF Types
    <2>4. QED
      BY <1>2, <2>2, <2>3 DEF Types
  <1>6. /\ frames'[k] = <<>> /\ frame_ptr'[k] = NULL
        /\ \A j \in Coroutines : j # k => frames'[j] = frames[j] /\ frame_ptr'[j] = frame_ptr[j]
    BY <1>2 DEF Types
  <1>7. Fits' /\ Begun'
    <2>1. DOMAIN <<>> = {}
      OBVIOUS
    <2>2. QED
      BY <2>1, <1>6 DEF Fits, Begun
  <1>8. SegmentsOwned'
    <2> DEFINE o == [s \in Segments |-> IF own[s] = k THEN NULL ELSE own[s]]
    <2>1. o \in [Segments -> Coroutines \cup {NULL}]
      OBVIOUS
    <2>2. \A s \in Segments : own[s] # k => o[s] = own[s] /\ heap'[s] = heap[s]
      BY <1>4
    <2>3. \A s \in Segments : own[s] = k => o[s] = NULL /\ heap'[s] = NULL
      BY <1>4
    <2>4. \A s \in Segments : o[s] # NULL =>
              /\ own[s] # k /\ own[s] # NULL /\ own[s] \in Coroutines
              /\ heap[s].prev \in Segments \cup {NULL} /\ heap[s].next \in Segments \cup {NULL}
      BY <1>1 DEF Owned, Types, Header
    <2> HIDE DEF o
    <2>5. \A s \in Segments : o[s] = NULL <=> heap'[s] = NULL
      BY <1>1, <2>2, <2>3 DEF Owned
    <2>6. \A j \in Coroutines : frame_ptr'[j] # NULL =>
              o[frame_ptr'[j]] = j /\ pos[frame_ptr'[j]] = NumMore(frames'[j])
      <3>1. ASSUME NEW j \in Coroutines, j # k, frame_ptr[j] # NULL
            PROVE  o[frame_ptr[j]] = j /\ pos[frame_ptr[j]] = NumMore(frames[j])
        BY <3>1, <1>1, <2>2 DEF Owned, Types
      <3>2. QED
        BY <3>1, <1>6
    <2>7. \A s \in Segments : o[s] # NULL => frame_ptr'[o[s]] # NULL /\ pos[s] =< last[o[s]]
      BY <1>1, <1>6, <2>2, <2>4 DEF Owned
    <2>8. \A s, u \in Segments : o[s] # NULL /\ o[s] = o[u] /\ pos[s] = pos[u] => s = u
      BY <1>1, <2>2, <2>3, <2>4 DEF Owned
    <2>9. ASSUME NEW s \in Segments, o[s] # NULL
          PROVE  /\ heap'[s].prev = NULL <=> pos[s] = 0
                 /\ heap'[s].prev # NULL =>
                     /\ o[heap'[s].prev] = o[s]
                     /\ pos[s] = pos[heap'[s].prev] + 1
                     /\ heap'[heap'[s].prev].next = s
                 /\ heap'[s].next = NULL <=> pos[s] = last[o[s]]
                 /\ heap'[s].next # NULL =>
                     /\ o[heap'[s].next] = o[s]
                     /\ pos[heap'[s].next] = pos[s] + 1
                     /\ heap'[heap'[s].next].prev = s
      <3>1. own[s] # k /\ own[s] # NULL /\ o[s] = own[s] /\ heap'[s] = heap[s]
        BY <2>2, <2>4, <2>9
      <3>2. heap[s].prev # NULL => /\ heap'[heap[s].prev] = heap[heap[s].prev]
                                   /\ o[heap[s].prev] = own[heap[s].prev]
        BY <1>1, <2>2, <2>4, <2>9, <3>1 DEF Owned
      <3>3. heap[s].next # NULL => /\ heap'[heap[s].next] = heap[heap[s].next]
                                   /\ o[heap[s].next] = own[heap[s].next]
        BY <1>1, <2>2, <2>4, <2>9, <3>1 DEF Owned
      <3>4. QED
        BY <1>1, <3>1, <3>2, <3>3 DEF Owned
    <2>10. Owned(o, pos, last)'
      BY <2>5, <2>6, <2>7, <2>8, <2>9 DEF Owned
    <2>11. QED
      BY <2>1, <2>10 DEF SegmentsOwned
  <1>9. QED
    BY <1>5, <1>7, <1>8

-----------------------------------------------------------------------------
(* Segments: calls and returns *)

\* h is the heap with the free segment s put on cur's list, right after cur.
InsertedAt(h, cur, s) ==
    LET next == heap[cur].next
    IN  /\ heap[s] = NULL /\ h[s] # NULL
        /\ h[s].prev = cur /\ h[s].next = next
        /\ h[cur] # NULL /\ h[cur].prev = heap[cur].prev /\ h[cur].next = s
        /\ next # NULL => h[next] # NULL /\ h[next].prev = s /\ h[next].next = heap[next].next
        /\ \A u \in Segments \ {s, cur, next} : h[u] = heap[u]

\* What seff_mem_allocate_frame returns has room for the frame and the parameters,
\* and is the next segment of the list or a new one inserted there.
LEMMA FrameAllocated ==
    ASSUME Types, NEW cur \in Segments, heap[cur] # NULL,
           NEW f \in Nat, NEW q \in Nat,
           heap[cur].next # NULL => heap[heap[cur].next] # NULL /\ heap[cur].next # cur,
           HasRoom \/ (heap[cur].next # NULL /\ Suits(heap[cur].next, f, q)),
           NEW got, got = seff_mem_allocate_frame(cur, f, q)
    PROVE  /\ got.seg \in Segments
           /\ got.heap \in [Segments -> Header \cup {NULL}]
           /\ got.heap[got.seg] \in Header /\ got.heap[got.seg].size >= f + q
           /\ \/ got.seg = heap[cur].next /\ got.heap = heap
              \/ InsertedAt(got.heap, cur, got.seg)
  <1> DEFINE next == heap[cur].next
  <1>s. PICK s : s = NewSegment
    OBVIOUS
  <1>m. PICK size : size = Max({f + q, min_segment_size})
    OBVIOUS
  <1> DEFINE header == [prev |-> NULL, next |-> NULL, size |-> size]
  <1> DEFINE grown == [heap EXCEPT ![s] = header]
  <1>1. size \in Nat /\ size >= f + q
    <2>1. min_segment_size \in Nat
      BY SizesAssumption
    <2> DEFINE a == f + q
    <2>2. a \in Nat /\ a \in Int /\ min_segment_size \in Int
      BY <2>1
    <2> HIDE DEF a
    <2>3. /\ Max({a, min_segment_size}) \in {a, min_segment_size}
          /\ Max({a, min_segment_size}) >= a
      BY <2>2, MaxOfTwo, Zenon
    <2>4. size \in Nat /\ size >= a
      BY <1>m, <2>1, <2>2, <2>3 DEF a
    <2>5. QED
      BY <2>4 DEF a
  <1>2. heap[cur] \in Header /\ next \in Segments \cup {NULL} /\ NULL \notin Segments
        /\ NULL \notin Header
    <2>1. NULL \notin Header /\ heap[cur] \in Header
      BY NullAssumption DEF Types
    <2>s. NULL \notin Segments
      BY NullAssumption, BoundsAssumption DEF Segments
    <2>2. next \in Segments \cup {NULL}
      BY <2>1 DEF Header
    <2>3. QED
      BY <2>1, <2>s, <2>2
  <1>3. header \in Header
    BY <1>1 DEF Header
  <1>4. CASE next # NULL /\ Suits(next, f, q)
    <2>1. got = [seg |-> next, heap |-> heap]
      BY <1>4 DEF seff_mem_allocate_frame
    <2>2. heap[next] \in Header /\ heap[next].size >= f + q
      BY <1>2, <1>4 DEF Types, Suits
    <2>3. QED
      BY <1>2, <1>4, <2>1, <2>2 DEF Types
  <1>5. CASE next = NULL
    <2>1. HasRoom /\ s \in Segments /\ heap[s] = NULL /\ s # cur
      BY <1>5, <1>s, NewSegmentIsFree
    <2>2. got.seg = s /\ got.heap = [grown EXCEPT ![cur].next = s, ![s].prev = cur]
      BY <1>5, <1>s, <1>m DEF seff_mem_allocate_frame, init_segment, LINK
    <2>3. grown \in [Segments -> Header \cup {NULL}] /\ grown[s] = header
          /\ grown[cur] = heap[cur] /\ \A u \in Segments : u # s => grown[u] = heap[u]
      BY <1>3, <2>1 DEF Types
    <2> HIDE DEF grown, header
    <2> DEFINE h == [grown EXCEPT ![cur].next = s, ![s].prev = cur]
    <2>4. /\ h[s] = [header EXCEPT !.prev = cur]
          /\ h[cur] = [heap[cur] EXCEPT !.next = s]
          /\ \A u \in Segments \ {s, cur} : h[u] = heap[u]
          /\ DOMAIN h = Segments
      BY <2>1, <2>3
    <2>5. h[s] \in Header /\ h[cur] \in Header
      BY <1>2, <1>3, <2>1, <2>4 DEF Header
    <2>6. /\ h[s].prev = cur /\ h[s].next = NULL /\ h[s].size = size
          /\ h[cur].prev = heap[cur].prev /\ h[cur].next = s
      BY <1>2, <1>3, <2>4 DEF Header, header
    <2>7. h \in [Segments -> Header \cup {NULL}]
      <3>1. \A u \in Segments : h[u] \in Header \cup {NULL}
        BY <2>4, <2>5 DEF Types
      <3>2. h = [u \in Segments |-> h[u]]
        <4> DEFINE g == [grown EXCEPT ![cur].next = s]
        <4>1. grown = [u \in Segments |-> grown[u]]
          BY <2>3
        <4>2. g = [u \in Segments |-> g[u]]
          BY <4>1
        <4> HIDE DEF g
        <4>3. h = [g EXCEPT ![s].prev = cur]
          BY DEF g
        <4>4. QED
          BY <4>2, <4>3
      <3>3. QED
        BY <3>1, <3>2
    <2>8. InsertedAt(h, cur, s)
      BY <1>2, <1>5, <2>1, <2>4, <2>5, <2>6 DEF InsertedAt
    <2>9. QED
      BY <1>1, <2>1, <2>2, <2>5, <2>6, <2>7, <2>8
  <1>6. CASE next # NULL /\ ~Suits(next, f, q)
    <2>1. HasRoom /\ s \in Segments /\ heap[s] = NULL /\ s # cur /\ next \in Segments
          /\ s # next /\ next # cur /\ heap[next] \in Header
      BY <1>2, <1>6, <1>s, NewSegmentIsFree DEF Types
    <2>2. got.seg = s /\ got.heap = [[grown EXCEPT ![s].next = next, ![next].prev = s]
                                        EXCEPT ![cur].next = s, ![s].prev = cur]
      BY <1>6, <1>s, <1>m DEF seff_mem_allocate_frame, init_segment, LINK, LinkBetween
    <2>3. grown \in [Segments -> Header \cup {NULL}] /\ grown[s] = header
          /\ grown[cur] = heap[cur] /\ grown[next] = heap[next]
          /\ \A u \in Segments : u # s => grown[u] = heap[u]
      BY <1>3, <2>1 DEF Types
    <2>n. PICK nx : nx = next
      OBVIOUS
    <2> HIDE DEF grown, header, next
    <2> DEFINE linked == [grown EXCEPT ![s].next = next, ![next].prev = s]
    <2> DEFINE h == [linked EXCEPT ![cur].next = s, ![s].prev = cur]
    <2>4. /\ linked[s] = [header EXCEPT !.next = next]
          /\ linked[next] = [heap[next] EXCEPT !.prev = s]
          /\ \A u \in Segments \ {s, next} : linked[u] = heap[u]
          /\ DOMAIN linked = Segments
      BY <2>1, <2>3
    <2> HIDE DEF linked
    <2>5. /\ h[s] = [linked[s] EXCEPT !.prev = cur]
          /\ h[cur] = [linked[cur] EXCEPT !.next = s]
          /\ \A u \in Segments \ {s, cur} : h[u] = linked[u]
          /\ DOMAIN h = Segments
      BY <2>1, <2>4
    <2>6. linked[s] \in Header /\ h[next] \in Header
      BY <1>2, <1>3, <2>1, <2>4, <2>5 DEF Header
    <2>7. h[s] \in Header /\ h[cur] \in Header
      BY <1>2, <2>1, <2>4, <2>5, <2>6 DEF Header
    <2>8. /\ h[s].prev = cur /\ h[s].next = next /\ h[s].size = size
          /\ h[cur].prev = heap[cur].prev /\ h[cur].next = s
          /\ h[next].prev = s /\ h[next].next = heap[next].next
      <3>1. linked[s].next = next /\ linked[s].size = size
        BY <1>3, <2>4 DEF Header, header
      <3>2. h[s].prev = cur /\ h[s].next = linked[s].next /\ h[s].size = linked[s].size
        BY <2>5, <2>6 DEF Header
      <3>3. h[cur].prev = heap[cur].prev /\ h[cur].next = s
        BY <1>2, <2>1, <2>4, <2>5 DEF Header
      <3>4. h[next].prev = s /\ h[next].next = heap[next].next
        BY <2>1, <2>4, <2>5 DEF Header
      <3>5. QED
        BY <3>1, <3>2, <3>3, <3>4
    <2>9. \A u \in Segments \ {s, cur, next} : h[u] = heap[u]
      BY <2>4, <2>5
    <2>10. h \in [Segments -> Header \cup {NULL}]
      <3>1. \A u \in Segments : h[u] \in Header \cup {NULL}
        BY <2>6, <2>7, <2>9 DEF Types
      <3>2. h = [u \in Segments |-> h[u]]
        BY <2>4, <2>5
      <3>3. QED
        BY <3>1, <3>2
    <2> HIDE DEF h
    <2>11. InsertedAt(h, cur, s)
      BY <1>2, <2>1, <2>6, <2>7, <2>8, <2>9 DEF InsertedAt, next
    <2>12. got.seg = s /\ got.heap = h
      BY <2>2 DEF h, linked
    <2>13. QED
      BY <1>1, <2>1, <2>12, <2>7, <2>8, <2>10, <2>11
  <1>7. QED
    BY <1>4, <1>5, <1>6

\* An insertion keeps every segment on exactly one list.
LEMMA InsertedOwned ==
    ASSUME Types, NEW own \in [Segments -> Coroutines \cup {NULL}],
           NEW pos \in [Segments -> Nat], NEW last \in [Coroutines -> Nat],
           Owned(own, pos, last),
           NEW k \in Coroutines, frame_ptr[k] # NULL, NEW s \in Segments,
           InsertedAt(heap', frame_ptr[k], s), frame_ptr' = [frame_ptr EXCEPT ![k] = s],
           NumMore(frames'[k]) = NumMore(frames[k]) + 1,
           \A j \in Coroutines : j # k => frames'[j] = frames[j]
    PROVE  SegmentsOwned'
  <1>c. PICK cur : cur = frame_ptr[k]
    OBVIOUS
  <1>x. PICK next : next = heap[cur].next
    OBVIOUS
  <1> DEFINE o == [own EXCEPT ![s] = k]
  <1> DEFINE p == [u \in Segments |->
                      IF u = s THEN pos[cur] + 1
                      ELSE IF own[u] = k /\ pos[u] > pos[cur] THEN pos[u] + 1 ELSE pos[u]]
  <1> DEFINE l == [last EXCEPT ![k] = @ + 1]
  <1>1. /\ cur \in Segments /\ own[cur] = k /\ k # NULL /\ heap[cur] \in Header
        /\ next \in Segments \cup {NULL} /\ NULL \notin Segments /\ pos[cur] =< last[k]
    BY <1>c, <1>x, NullAssumption DEF Owned, Types, Header, Segments
  <1>2. /\ heap[s] = NULL /\ heap'[s] # NULL /\ own[s] = NULL /\ s # cur
        /\ heap'[s].prev = cur /\ heap'[s].next = next
        /\ heap'[cur] # NULL /\ heap'[cur].prev = heap[cur].prev /\ heap'[cur].next = s
        /\ next # NULL => /\ heap'[next] # NULL /\ heap'[next].prev = s
                          /\ heap'[next].next = heap[next].next
        /\ \A u \in Segments \ {s, cur, next} : heap'[u] = heap[u]
    BY <1>c, <1>x, <1>1 DEF InsertedAt, Owned
  <1>3. next # NULL => own[next] = k /\ pos[next] = pos[cur] + 1 /\ next # cur /\ next # s
                       /\ heap[next].prev = cur
    BY <1>1, <1>2, <1>x DEF Owned
  <1>4. next = NULL <=> pos[cur] = last[k]
    BY <1>1, <1>x DEF Owned
  <1>5. /\ o \in [Segments -> Coroutines \cup {NULL}] /\ p \in [Segments -> Nat]
        /\ l \in [Coroutines -> Nat]
    BY <1>1
  <1>6. /\ o[s] = k /\ p[s] = pos[cur] + 1 /\ l[k] = last[k] + 1
        /\ o[cur] = k /\ p[cur] = pos[cur]
        /\ next # NULL => o[next] = k /\ p[next] = pos[cur] + 2
        /\ \A u \in Segments : u # s =>
            /\ o[u] = own[u]
            /\ own[u] # k => p[u] = pos[u]
            /\ own[u] = k /\ pos[u] > pos[cur] => p[u] = pos[u] + 1
            /\ own[u] = k /\ pos[u] =< pos[cur] => p[u] = pos[u]
        /\ \A j \in Coroutines : j # k => l[j] = last[j]
    BY <1>1, <1>2, <1>3
  <1> HIDE DEF o, p, l
  <1>7. \A u \in Segments : o[u] = NULL <=> heap'[u] = NULL
    <2>1. next # NULL => heap[next] # NULL
      BY <1>1, <1>3 DEF Owned
    <2>2. QED
      BY <1>1, <1>2, <1>3, <1>6, <2>1 DEF Owned
  <1>8. \A j \in Coroutines : frame_ptr'[j] # NULL =>
            o[frame_ptr'[j]] = j /\ p[frame_ptr'[j]] = NumMore(frames'[j])
    <2>1. /\ frame_ptr'[k] = s /\ pos[cur] = NumMore(frames[k])
      BY <1>c DEF Owned, Types
    <2>2. ASSUME NEW j \in Coroutines, j # k, frame_ptr[j] # NULL
          PROVE  o[frame_ptr[j]] = j /\ p[frame_ptr[j]] = NumMore(frames[j])
      <3>1. frame_ptr[j] \in Segments /\ own[frame_ptr[j]] = j /\ j # NULL
            /\ pos[frame_ptr[j]] = NumMore(frames[j])
        BY <2>2, NullAssumption DEF Owned, Types
      <3>2. QED
        BY <2>2, <3>1, <1>2, <1>6
    <2>3. \A j \in Coroutines : j # k => frame_ptr'[j] = frame_ptr[j]
      BY DEF Types
    <2>4. QED
      BY <2>1, <2>2, <2>3, <1>6
  <1>9. ASSUME NEW u \in Segments, o[u] # NULL PROVE frame_ptr'[o[u]] # NULL /\ p[u] =< l[o[u]]
    <2>1. /\ frame_ptr'[k] = s /\ s # NULL
          /\ \A j \in Coroutines : j # k => frame_ptr'[j] = frame_ptr[j]
      BY <1>1 DEF Types
    <2>2. CASE u = s
      BY <1>1, <1>6, <2>1, <2>2
    <2>3. CASE u # s
      <3>1. own[u] # NULL /\ own[u] \in Coroutines /\ o[u] = own[u]
            /\ frame_ptr[own[u]] # NULL /\ pos[u] =< last[own[u]]
        BY <1>6, <1>9, <2>3 DEF Owned
      <3>2. QED
        <4>1. CASE own[u] = k
          BY <1>1, <1>6, <2>1, <2>3, <3>1, <4>1
        <4>2. CASE own[u] # k
          BY <1>6, <2>1, <2>3, <3>1, <4>2
        <4>3. QED
          BY <4>1, <4>2
    <2>4. QED
      BY <2>2, <2>3
  <1>10. ASSUME NEW u \in Segments, NEW v \in Segments, o[u] # NULL, o[u] = o[v], p[u] = p[v]
         PROVE  u = v
    <2>1. \A w \in Segments : w # s /\ own[w] = k => p[w] # pos[cur] + 1
      BY <1>1, <1>6
    <2>2. CASE u = s \/ v = s
      BY <1>2, <1>6, <1>10, <2>1, <2>2
    <2>3. CASE u # s /\ v # s
      <3>1. own[u] # NULL /\ own[u] = own[v]
        BY <1>6, <1>10, <2>3
      <3>2. pos[u] = pos[v]
        BY <1>1, <1>6, <1>10, <2>3, <3>1
      <3>3. QED
        BY <3>1, <3>2 DEF Owned
    <2>4. QED
      BY <2>2, <2>3
  <1>11. ASSUME NEW u \in Segments, o[u] # NULL
         PROVE  /\ heap'[u].prev = NULL <=> p[u] = 0
                /\ heap'[u].prev # NULL =>
                    /\ o[heap'[u].prev] = o[u]
                    /\ p[u] = p[heap'[u].prev] + 1
                    /\ heap'[heap'[u].prev].next = u
                /\ heap'[u].next = NULL <=> p[u] = l[o[u]]
                /\ heap'[u].next # NULL =>
                    /\ o[heap'[u].next] = o[u]
                    /\ p[heap'[u].next] = p[u] + 1
                    /\ heap'[heap'[u].next].prev = u
    <2>1. CASE u = s
      BY <1>1, <1>2, <1>3, <1>4, <1>6, <2>1
    <2>u. ASSUME u # s
          PROVE  /\ own[u] # NULL /\ own[u] \in Coroutines /\ o[u] = own[u] /\ heap[u] \in Header
                 /\ heap[u].prev \in Segments \cup {NULL} /\ heap[u].next \in Segments \cup {NULL}
                 /\ heap[u].prev = NULL <=> pos[u] = 0
                 /\ heap[u].prev # NULL => /\ own[heap[u].prev] = own[u]
                                           /\ pos[u] = pos[heap[u].prev] + 1
                                           /\ heap[heap[u].prev].next = u
                                           /\ heap[u].prev # s
                 /\ heap[u].next = NULL <=> pos[u] = last[own[u]]
                 /\ heap[u].next # NULL => /\ own[heap[u].next] = own[u]
                                           /\ pos[heap[u].next] = pos[u] + 1
                                           /\ heap[heap[u].next].prev = u
                                           /\ heap[u].next # s
                 /\ pos[u] =< last[own[u]]
      <3>1. own[u] # NULL /\ own[u] \in Coroutines /\ o[u] = own[u] /\ heap[u] # NULL
        BY <1>6, <1>11, <2>u DEF Owned
      <3>2. heap[u] \in Header
        BY <3>1 DEF Types
      <3>3. heap[u].prev \in Segments \cup {NULL} /\ heap[u].next \in Segments \cup {NULL}
        BY <3>2 DEF Header
      <3>4. QED
        BY <3>1, <3>2, <3>3, <1>2 DEF Owned
    <2>2. CASE u = cur
      <3> DEFINE v == heap[cur].prev
      <3>1. v # NULL => v # cur /\ v # next /\ v # s /\ own[v] = k /\ pos[v] < pos[cur]
                        /\ heap'[v] = heap[v] /\ o[v] = k /\ p[v] = pos[v]
        BY <1>1, <1>2, <1>3, <1>6, <2>u, <2>2
      <3>2. QED
        BY <1>1, <1>2, <1>6, <2>u, <2>2, <3>1
    <2>3. CASE next # NULL /\ u = next
      <3> DEFINE w == heap[next].next
      <3>1. w # NULL => w # cur /\ w # next /\ w # s /\ own[w] = k /\ pos[w] = pos[cur] + 2
                        /\ heap'[w] = heap[w] /\ o[w] = k /\ p[w] = pos[w] + 1
        BY <1>1, <1>2, <1>3, <1>6, <2>u, <2>3
      <3>2. QED
        BY <1>1, <1>2, <1>3, <1>6, <2>u, <2>3, <3>1
    <2>4. CASE u \notin {s, cur, next}
      <3>1. heap'[u] = heap[u]
        BY <1>2, <2>4
      <3>2. own[u] = k => pos[u] # pos[cur] /\ pos[u] # pos[cur] + 1
        <4>1. own[u] = k => pos[u] # pos[cur]
          BY <1>1, <2>4 DEF Owned
        <4>2. next # NULL /\ own[u] = k => pos[u] # pos[cur] + 1
          BY <1>1, <1>3, <2>4 DEF Owned
        <4>3. next = NULL /\ own[u] = k => pos[u] # pos[cur] + 1
          BY <1>1, <1>4, <2>u, <2>4
        <4>4. QED
          BY <4>1, <4>2, <4>3
      <3>3. heap[u].prev # NULL =>
                /\ heap[u].prev # cur
                /\ heap'[heap[u].prev].next = u
                /\ o[heap[u].prev] = o[u]
                /\ p[u] = p[heap[u].prev] + 1
        <4> DEFINE v == heap[u].prev
        <4>1. CASE v # NULL
          <5>1. /\ v \in Segments /\ v # s /\ own[v] = own[u]
                /\ pos[u] = pos[v] + 1 /\ heap[v].next = u
            BY <4>1, <2>u, <2>4
          <5>2. v # cur
            <6>1. heap[v].next # heap[cur].next
              BY <5>1, <1>x, <2>4
            <6>2. QED
              BY <6>1
          <5>3. heap'[v].next = u
            <6>1. v = next => heap'[v].next = heap[v].next
              BY <5>1, <1>1, <1>2
            <6>2. v # next => heap'[v] = heap[v]
              BY <5>1, <5>2, <1>2
            <6>3. QED
              BY <5>1, <6>1, <6>2
          <5>4. p[u] = p[v] + 1
            BY <5>1, <3>2, <1>1, <1>6, <2>4
          <5>5. QED
            BY <5>1, <5>2, <5>3, <5>4, <1>6, <2>4
        <4>2. QED
          BY <4>1
      <3>4. heap[u].next # NULL =>
                /\ heap'[heap[u].next].prev = u
                /\ o[heap[u].next] = o[u]
                /\ p[heap[u].next] = p[u] + 1
        <4> DEFINE w == heap[u].next
        <4>1. CASE w # NULL
          <5>1. /\ w \in Segments /\ w # s /\ own[w] = own[u]
                /\ pos[w] = pos[u] + 1 /\ heap[w].prev = u
            BY <4>1, <2>u, <2>4
          <5>2. next # NULL => w # next
            BY <5>1, <1>3, <2>4
          <5>3. heap'[w].prev = u
            BY <5>1, <5>2, <1>1, <1>2, <2>4
          <5>4. p[w] = p[u] + 1
            BY <5>1, <3>2, <1>1, <1>6, <2>4
          <5>5. QED
            BY <5>1, <5>3, <5>4, <1>6, <2>4
        <4>2. QED
          BY <4>1
      <3>5. p[u] = 0 <=> pos[u] = 0
        BY <1>1, <1>6, <2>4
      <3>6. p[u] = l[o[u]] <=> pos[u] = last[own[u]]
        <4>1. CASE own[u] = k
          <5>1. pos[u] = last[k] => pos[u] > pos[cur]
            BY <1>1, <3>2, <4>1
          <5>2. p[u] = last[k] + 1 => pos[u] > pos[cur]
            BY <1>1, <1>6, <2>u, <2>4, <4>1
          <5>3. QED
            BY <1>1, <1>6, <2>4, <4>1, <5>1, <5>2
        <4>2. CASE own[u] # k
          BY <1>6, <2>u, <2>4, <4>2
        <4>3. QED
          BY <4>1, <4>2
      <3>7. /\ heap[u].prev = NULL <=> p[u] = 0
            /\ heap[u].next = NULL <=> p[u] = l[o[u]]
        BY <2>4, <2>u, <3>5, <3>6
      <3>8. QED
        BY <3>1, <3>3, <3>4, <3>7
    <2>5. QED
      BY <1>1, <2>1, <2>2, <2>3, <2>4
  <1>12. Owned(o, p, l)'
    BY <1>7, <1>8, <1>9, <1>10, <1>11 DEF Owned
  <1>13. QED
    BY <1>5, <1>12 DEF SegmentsOwned, o, p, l

\* The limit moves with frame_ptr: to where the new segment begins, or a little
\* above it.
LimitMoves(t, k) ==
    \/ UNCHANGED <<frame_ptr, limit>>
    \/ \E top \in StackTop :
        /\ top.seg # NULL /\ top.off \in -15 .. 0
        /\ limit' = [limit EXCEPT ![t] = top]
        /\ frame_ptr' = [frame_ptr EXCEPT ![k] = top.seg]

LEMMA CallOwned ==
    ASSUME Types, SegmentsOwned, Fits, Begun,
           NEW t \in Threads, NEW f \in FrameSizes, NEW q \in ParamSizes, NEW b \in BOOLEAN,
           Call(t, f, q, b), frame_ptr[current[t]] # NULL, limit[t].off \in -15 .. 0
    PROVE  Types' /\ SegmentsOwned' /\ Fits' /\ Begun' /\ LimitMoves(t, current[t])
  <1>k. PICK k : k = current[t]
    OBVIOUS
  <1>c. PICK cur : cur = frame_ptr[k]
    OBVIOUS
  <1>w. PICK wanted : wanted = f + IF b THEN syscall_segment_size ELSE 0
    OBVIOUS
  <1>1. PICK own \in [Segments -> Coroutines \cup {NULL}], pos \in [Segments -> Nat],
             last \in [Coroutines -> Nat] : Owned(own, pos, last)
    BY DEF SegmentsOwned
  <1>2. /\ k # NULL
        /\ IF Rsp(k) - 8 - wanted >= limit[t].off
             THEN /\ frames' = [frames EXCEPT ![k] =
                         Append(@, [sp |-> Rsp(k) - 8 - f, more |-> FALSE])]
                  /\ UNCHANGED <<heap, frame_ptr, limit>>
             ELSE MorestackAt(t, k, wanted, q, f)
        /\ UNCHANGED <<saved, parent, inside, current, system_stack, main_sp, paused_top, wrapped>>
    BY <1>k, <1>w DEF Call, OnCoroutine, links, calls
  <1>3. /\ k \in Coroutines /\ cur \in Segments /\ own[cur] = k /\ heap[cur] \in Header
        /\ frames[k] \in Seq(Frame) /\ frames[k] # <<>>
        /\ pos[cur] = NumMore(frames[k])
    BY <1>1, <1>2, <1>k, <1>c, NullAssumption DEF Owned, Types, Begun
  <1>4. f \in Nat /\ q \in Nat /\ wanted \in Nat /\ f =< wanted /\ limit[t].off \in Int
    <2>1. f \in Nat /\ q \in Nat /\ syscall_segment_size \in Nat
      BY SizesAssumption
    <2>2. wanted = f \/ wanted = f + syscall_segment_size
      BY <1>w, <2>1
    <2>3. QED
      BY <2>1, <2>2
  <1>5. Rsp(k) \in Int
    <2>1. /\ Len(frames[k]) \in Nat /\ Len(frames[k]) # 0
          /\ \A i \in 1 .. Len(frames[k]) : frames[k][i] \in Frame
      BY <1>3
    <2>2. Last(frames[k]) \in Frame
      BY <2>1 DEF Last
    <2>3. QED
      BY <2>2 DEF Rsp, Frame
  <1>6. ASSUME NEW g \in Frame, g.sp >= -23, frames' = [frames EXCEPT ![k] = Append(@, g)]
        PROVE  /\ frames' \in [Coroutines -> Seq(Frame)]
               /\ Fits'
               /\ (\A j \in Coroutines : frame_ptr'[j] # NULL => frame_ptr[j] # NULL \/ j = k)
                    => Begun'
    <2>1. Append(frames[k], g) \in Seq(Frame) /\ Append(frames[k], g) # <<>>
      <3>1. Append(frames[k], g) \in Seq(Frame) /\ Len(Append(frames[k], g)) = Len(frames[k]) + 1
            /\ Len(frames[k]) \in Nat
        BY <1>3, <1>6
      <3>2. Len(Append(frames[k], g)) # 0 /\ Len(<<>>) = 0
        BY <3>1
      <3>3. QED
        BY <3>1, <3>2
    <2>2. /\ frames'[k] = Append(frames[k], g)
          /\ \A j \in Coroutines : j # k => frames'[j] = frames[j]
      BY <1>3, <1>6 DEF Types
    <2>3. frames' \in [Coroutines -> Seq(Frame)]
      BY <1>6, <2>1 DEF Types
    <2>4. Fits'
      <3>1. \A i \in DOMAIN Append(frames[k], g) : Append(frames[k], g)[i].sp >= -23
        <4>1. ASSUME NEW i \in DOMAIN Append(frames[k], g)
              PROVE  Append(frames[k], g)[i].sp >= -23
          <5>1. \/ i \in DOMAIN frames[k] /\ Append(frames[k], g)[i] = frames[k][i]
                \/ Append(frames[k], g)[i] = g
            BY <1>3
          <5>2. QED
            BY <5>1, <1>3, <1>6 DEF Fits
        <4>2. QED
          BY <4>1
      <3>2. QED
        BY <2>2, <3>1 DEF Fits
    <2>5. QED
      BY <2>1, <2>2, <2>3, <2>4 DEF Begun
  <1>7. CASE Rsp(k) - 8 - wanted >= limit[t].off
    <2> DEFINE g == [sp |-> Rsp(k) - 8 - f, more |-> FALSE]
    <2>1. g \in Frame /\ g.sp >= -23 /\ g.more = FALSE
      BY <1>4, <1>5, <1>7 DEF Frame
    <2>2. frames' = [frames EXCEPT ![k] = Append(@, g)] /\ UNCHANGED <<heap, frame_ptr, limit>>
      BY <1>2, <1>7
    <2> HIDE DEF g
    <2>3. Types'
      BY <1>2, <1>6, <2>1, <2>2 DEF Types
    <2>4. Fits' /\ Begun'
      BY <1>6, <2>1, <2>2
    <2>5. /\ NumMore(frames'[k]) = NumMore(frames[k])
          /\ \A j \in Coroutines : j # k => frames'[j] = frames[j]
      <3>1. NumMore(Append(frames[k], g)) = NumMore(frames[k])
        BY <1>3, <2>1, OneMore, OneLess
      <3>2. QED
        BY <3>1, <2>2, <1>3 DEF Types
    <2>6. Owned(own, pos, last)'
      <3>1. \A j \in Coroutines : NumMore(frames'[j]) = NumMore(frames[j])
        BY <2>5
      <3>2. QED
        BY <1>1, <2>2, <3>1 DEF Owned
    <2>7. QED
      BY <1>k, <2>2, <2>3, <2>4, <2>6 DEF SegmentsOwned, LimitMoves
  <1>8. CASE ~ (Rsp(k) - 8 - wanted >= limit[t].off)
    <2>g. PICK got : got = seff_mem_allocate_frame(cur, wanted, q)
      OBVIOUS
    <2> DEFINE announced == got.heap[got.seg].size - q
    <2> DEFINE g == [sp |-> Aligned(announced) - 8 - f, more |-> TRUE]
    <2> DEFINE top == [seg |-> got.seg, off |-> Aligned(announced) - announced]
    <2>1. /\ HasRoom \/ (heap[cur].next # NULL /\ Suits(heap[cur].next, wanted, q))
          /\ heap' = got.heap
          /\ frame_ptr' = [frame_ptr EXCEPT ![k] = got.seg]
          /\ frames' = [frames EXCEPT ![k] = Append(@, g)]
          /\ limit' = [limit EXCEPT ![t] = top]
      BY <1>2, <1>8, <1>c, <2>g DEF MorestackAt
    <2>2. heap[cur].next # NULL =>
              /\ heap[heap[cur].next] # NULL /\ heap[cur].next # cur
              /\ heap[cur].next \in Segments /\ own[heap[cur].next] = k
              /\ pos[heap[cur].next] = pos[cur] + 1
      <3>1. heap[cur].next \in Segments \cup {NULL}
        BY <1>3 DEF Header
      <3>2. k # NULL /\ pos[cur] \in Nat
        BY <1>2, <1>3
      <3>3. QED
        BY <1>1, <1>3, <3>1, <3>2 DEF Owned
    <2>3. heap[cur] # NULL
      BY <1>3, NullAssumption
    <2>4. /\ got.seg \in Segments
          /\ got.heap \in [Segments -> Header \cup {NULL}]
          /\ got.heap[got.seg] \in Header /\ got.heap[got.seg].size >= wanted + q
          /\ \/ got.seg = heap[cur].next /\ got.heap = heap
             \/ InsertedAt(got.heap, cur, got.seg)
      BY <1>3, <1>4, <2>g, <2>1, <2>2, <2>3, FrameAllocated
    <2>5. announced \in Int /\ announced >= wanted
      <3>1. got.heap[got.seg].size \in Nat
        BY <2>4 DEF Header
      <3>2. QED
        BY <2>4, <3>1, <1>4
    <2> HIDE DEF announced
    <2>6. Aligned(announced) \in Int /\ announced - 15 =< Aligned(announced)
          /\ Aligned(announced) =< announced
      BY <2>5, AlignedDown
    <2>7. g \in Frame /\ g.sp >= -23 /\ g.more = TRUE
      BY <1>4, <2>5, <2>6 DEF Frame
    <2>8. top \in StackTop /\ top.seg # NULL /\ top.off \in -15 .. 0 /\ top.seg = got.seg
      <3>1. got.seg # NULL
        BY <2>4, NullAssumption, BoundsAssumption DEF Segments
      <3>2. QED
        BY <3>1, <2>4, <2>5, <2>6 DEF StackTop
    <2> HIDE DEF g, top
    <2>9. LimitMoves(t, current[t])
      BY <1>k, <2>1, <2>8 DEF LimitMoves
    <2>10. \A j \in Coroutines : frame_ptr'[j] # NULL => frame_ptr[j] # NULL \/ j = k
      BY <2>1 DEF Types
    <2>11. Fits' /\ Begun'
      BY <1>6, <2>1, <2>7, <2>10
    <2>12. Types'
      <3>1. heap' \in [Segments -> Header \cup {NULL}]
        BY <2>1, <2>4
      <3>2. frame_ptr' \in [Coroutines -> Segments \cup {NULL}]
        BY <2>1, <2>4 DEF Types
      <3>3. limit' \in [Threads -> StackTop \cup {NULL}]
        BY <2>1, <2>8 DEF Types
      <3>4. frames' \in [Coroutines -> Seq(Frame)]
        BY <1>6, <2>1, <2>7
      <3>5. QED
        BY <1>2, <3>1, <3>2, <3>3, <3>4 DEF Types
    <2>13. /\ NumMore(frames'[k]) = NumMore(frames[k]) + 1
           /\ \A j \in Coroutines : j # k => frames'[j] = frames[j]
      <3>1. NumMore(Append(frames[k], g)) = NumMore(frames[k]) + 1
        BY <1>3, <2>7, OneMore
      <3>2. QED
        BY <3>1, <2>1, <1>3 DEF Types
    <2>14. ASSUME got.seg = heap[cur].next, got.heap = heap PROVE SegmentsOwned'
      <3>1. heap' = heap /\ frame_ptr'[k] = heap[cur].next /\ heap[cur].next # NULL
            /\ \A j \in Coroutines : j # k => frame_ptr'[j] = frame_ptr[j]
        BY <1>3, <2>1, <2>4, <2>8, <2>14 DEF Types
      <3>2. \A j \in Coroutines : frame_ptr'[j] # NULL =>
                own[frame_ptr'[j]] = j /\ pos[frame_ptr'[j]] = NumMore(frames'[j])
        BY <1>1, <1>3, <2>2, <2>13, <3>1 DEF Owned
      <3>3. \A s \in Segments : own[s] # NULL => frame_ptr'[own[s]] # NULL
        BY <1>1, <3>1 DEF Owned
      <3>a. heap' = heap
        BY <3>1
      <3>4. Owned(own, pos, last)'
        BY <1>1, <3>a, <3>2, <3>3 DEF Owned
      <3>5. QED
        BY <3>4 DEF SegmentsOwned
    <2>15. ASSUME InsertedAt(got.heap, cur, got.seg) PROVE SegmentsOwned'
      <3>1. InsertedAt(heap', frame_ptr[k], got.seg) /\ frame_ptr[k] # NULL
        BY <2>1, <2>15, <1>c, <1>k DEF InsertedAt
      <3>2. QED
        BY <3>1, <1>1, <1>3, <2>1, <2>4, <2>13, InsertedOwned
    <2>16. QED
      BY <2>4, <2>9, <2>11, <2>12, <2>14, <2>15
  <1>9. QED
    BY <1>7, <1>8

LEMMA ReturnOwned ==
    ASSUME Types, SegmentsOwned, Fits, Begun, NEW t \in Threads,
           Return(t), frame_ptr[current[t]] # NULL
    PROVE  Types' /\ SegmentsOwned' /\ Fits' /\ Begun' /\ LimitMoves(t, current[t])
  <1>k. PICK k : k = current[t]
    OBVIOUS
  <1>c. PICK cur : cur = frame_ptr[k]
    OBVIOUS
  <1>1. PICK own \in [Segments -> Coroutines \cup {NULL}], pos \in [Segments -> Nat],
             last \in [Coroutines -> Nat] : Owned(own, pos, last)
    BY DEF SegmentsOwned
  <1>2. /\ k # NULL /\ Len(frames[k]) > 1
        /\ IF Last(frames[k]).more
             THEN /\ frame_ptr' = [frame_ptr EXCEPT ![k] = heap[@].prev]
                  /\ limit' = [limit EXCEPT ![t] = [seg |-> heap[cur].prev, off |-> 0]]
             ELSE UNCHANGED <<frame_ptr, limit>>
        /\ frames' = [frames EXCEPT ![k] = Front(@)]
        /\ UNCHANGED <<heap, saved, parent, inside>>
        /\ UNCHANGED <<current, system_stack, main_sp, paused_top, wrapped>>
    BY <1>k, <1>c DEF Return, OnCoroutine, seff_mem_release_frame, links, calls
  <1>3. /\ k \in Coroutines /\ cur \in Segments /\ own[cur] = k /\ heap[cur] \in Header
        /\ frames[k] \in Seq(Frame) /\ frames[k] # <<>>
        /\ pos[cur] = NumMore(frames[k])
    BY <1>1, <1>2, <1>k, <1>c, NullAssumption DEF Owned, Types, Begun
  <1>4. /\ Front(frames[k]) \in Seq(Frame) /\ Front(frames[k]) # <<>>
        /\ \A i \in DOMAIN Front(frames[k]) : i \in DOMAIN frames[k]
                                              /\ Front(frames[k])[i] = frames[k][i]
        /\ Last(frames[k]) \in Frame
    <2>1. /\ Len(frames[k]) \in Nat /\ DOMAIN frames[k] = 1 .. Len(frames[k])
          /\ Front(frames[k]) = [i \in 1 .. Len(frames[k]) - 1 |-> frames[k][i]]
          /\ \A i \in 1 .. Len(frames[k]) : frames[k][i] \in Frame
      BY <1>3 DEF Front
    <2>2. Front(frames[k]) \in Seq(Frame) /\ Len(Front(frames[k])) = Len(frames[k]) - 1
      BY <2>1, <1>2
    <2>3. Front(frames[k]) # <<>>
      <3>1. Len(Front(frames[k])) # 0
        <4> DEFINE n == Len(frames[k])
        <4>1. n > 1 /\ n \in Nat /\ Len(Front(frames[k])) = n - 1
          BY <2>1, <2>2, <1>2
        <4> HIDE DEF n
        <4>2. QED
          BY <4>1
      <3>2. Len(<<>>) = 0
        OBVIOUS
      <3>3. QED
        BY <3>1, <3>2
    <2>4. Last(frames[k]) \in Frame
      BY <2>1, <1>2 DEF Last
    <2>5. \A i \in DOMAIN Front(frames[k]) : i \in DOMAIN frames[k]
                                              /\ Front(frames[k])[i] = frames[k][i]
      BY <2>1
    <2>6. QED
      BY <2>2, <2>3, <2>4, <2>5
  <1>5. /\ frames'[k] = Front(frames[k])
        /\ \A j \in Coroutines : j # k => frames'[j] = frames[j]
        /\ frames' \in [Coroutines -> Seq(Frame)]
    BY <1>2, <1>3, <1>4 DEF Types
  <1>6. Fits'
    <2>1. \A i \in DOMAIN Front(frames[k]) : Front(frames[k])[i].sp >= -23
      BY <1>3, <1>4 DEF Fits
    <2>2. QED
      BY <2>1, <1>5 DEF Fits
  <1>7. CASE ~Last(frames[k]).more
    <2>1. UNCHANGED <<frame_ptr, limit>>
      BY <1>2, <1>7
    <2>2. Types' /\ Begun'
      BY <1>2, <1>4, <1>5, <2>1 DEF Types, Begun
    <2>3. \A j \in Coroutines : NumMore(frames'[j]) = NumMore(frames[j])
      <3>1. NumMore(Front(frames[k])) = NumMore(frames[k])
        BY <1>3, <1>7, OneLess
      <3>2. QED
        BY <3>1, <1>5
    <2>4. Owned(own, pos, last)'
      BY <1>1, <1>2, <2>1, <2>3 DEF Owned
    <2>5. QED
      BY <1>6, <2>1, <2>2, <2>4 DEF SegmentsOwned, LimitMoves
  <1>8. CASE Last(frames[k]).more
    <2> DEFINE v == heap[cur].prev
    <2> DEFINE top == [seg |-> v, off |-> 0]
    <2>1. NumMore(frames[k]) > 0 /\ NumMore(Front(frames[k])) = NumMore(frames[k]) - 1
          /\ NumMore(frames[k]) \in Nat
      BY <1>3, <1>8, OneLess
    <2>2. v \in Segments /\ own[v] = k /\ pos[cur] = pos[v] + 1 /\ v # NULL
      <3>1. v \in Segments \cup {NULL} /\ own[cur] # NULL
        BY <1>2, <1>3 DEF Header
      <3>2. v # NULL
        BY <1>1, <1>3, <2>1, <3>1 DEF Owned
      <3>3. QED
        BY <1>1, <1>3, <3>1, <3>2 DEF Owned
    <2>3. frame_ptr' = [frame_ptr EXCEPT ![k] = v] /\ limit' = [limit EXCEPT ![t] = top]
      BY <1>2, <1>8, <1>c
    <2>4. top \in StackTop /\ top.seg = v /\ top.off \in -15 .. 0
      BY <2>2 DEF StackTop
    <2> HIDE DEF top
    <2>5. LimitMoves(t, current[t])
      BY <1>k, <2>2, <2>3, <2>4 DEF LimitMoves
    <2>6. Types'
      <3>1. frame_ptr' \in [Coroutines -> Segments \cup {NULL}]
        BY <2>2, <2>3 DEF Types
      <3>2. limit' \in [Threads -> StackTop \cup {NULL}]
        BY <2>3, <2>4 DEF Types
      <3>3. QED
        BY <1>2, <1>5, <3>1, <3>2 DEF Types
    <2>7. /\ frame_ptr'[k] = v
          /\ \A j \in Coroutines : j # k => frame_ptr'[j] = frame_ptr[j]
      BY <1>3, <2>3 DEF Types
    <2>8. Begun'
      BY <1>4, <1>5, <2>7 DEF Begun
    <2>9. \A j \in Coroutines : frame_ptr'[j] # NULL =>
              own[frame_ptr'[j]] = j /\ pos[frame_ptr'[j]] = NumMore(frames'[j])
      <3>1. pos[v] = NumMore(frames'[k])
        BY <1>3, <1>5, <2>1, <2>2
      <3>2. ASSUME NEW j \in Coroutines, j # k, frame_ptr[j] # NULL
            PROVE  own[frame_ptr[j]] = j /\ pos[frame_ptr[j]] = NumMore(frames[j])
        BY <1>1, <3>2 DEF Owned
      <3>3. own[frame_ptr'[k]] = k /\ pos[frame_ptr'[k]] = NumMore(frames'[k])
        BY <2>2, <2>7, <3>1
      <3>4. ASSUME NEW j \in Coroutines, j # k
            PROVE  frame_ptr'[j] = frame_ptr[j] /\ frames'[j] = frames[j]
        BY <1>5, <2>7, <3>4
      <3>5. QED
        BY <3>2, <3>3, <3>4
    <2>10. \A s \in Segments : own[s] # NULL => frame_ptr'[own[s]] # NULL
      BY <1>1, <2>2, <2>7 DEF Owned
    <2>11. Owned(own, pos, last)'
      BY <1>1, <1>2, <2>9, <2>10 DEF Owned
    <2>12. QED
      BY <1>6, <2>5, <2>6, <2>8, <2>11 DEF SegmentsOwned
  <1>9. QED
    BY <1>7, <1>8

-----------------------------------------------------------------------------
(* Switches *)

LEMMA PlacesDistinct ==
    /\ \A t, u : On(t) = On(u) => t = u
    /\ \A j, k : In(j) = In(k) => j = k
    /\ \A t, k : On(t) # In(k)
    /\ \A t : On(t) # Nowhere /\ In(t) # Nowhere
    /\ \A t \in Threads : On(t) \in Places
    /\ \A k \in Coroutines : In(k) \in Places
    /\ Nowhere \in Places
  BY DEF On, In, Nowhere, Places

\* The running chains and the captured ones, as parent_coroutine links them.
LEMMA ChainsAre ==
    ASSUME Types, NEW at \in [Coroutines -> Places], NEW dep \in [Coroutines -> Nat],
           Attached(at, dep)
    PROVE  /\ \A t \in Threads : Path(current[t], NULL) = {j \in Coroutines : at[j] = On(t)}
           /\ \A k \in Coroutines : Captured(k) = {j \in Coroutines : at[j] = In(k)}
  <1>1. \A j \in Coroutines : parent[j] \in Coroutines \cup {NULL} /\ j # NULL
    BY NullAssumption DEF Types
  <1>2. ASSUME NEW t \in Threads
        PROVE  Path(current[t], NULL) = {j \in Coroutines : at[j] = On(t)}
    <2> DEFINE A == {j \in Coroutines : at[j] = On(t)}
    <2>1. CASE current[t] = NULL
      <3>1. A = {}
        BY <2>1 DEF Attached
      <3>2. Path(current[t], NULL) = {}
        BY <2>1 DEF Path
      <3>3. QED
        BY <3>1, <3>2
    <2>2. CASE current[t] # NULL
      <3>1. current[t] \in A
        BY <2>2 DEF Attached, Types
      <3>2. \A i \in A : dep[i] =< dep[current[t]]
        BY DEF Attached
      <3>3. \A i \in A : dep[i] = 0 <=> (i = NULL \/ parent[i] = NULL)
        BY <1>1 DEF Attached
      <3>4. \A i \in A : dep[i] # 0 => parent[i] \in A /\ dep[i] = dep[parent[i]] + 1
        BY <1>1, PlacesDistinct DEF Attached
      <3>5. \A i, h \in A : dep[i] = dep[h] => i = h
        BY PlacesDistinct DEF Attached
      <3>6. A \in SUBSET Coroutines /\ parent \in [Coroutines -> Coroutines \cup {NULL}]
        BY DEF Types
      <3> HIDE DEF A
      <3>7. Path(current[t], NULL) = A
        BY <3>1, <3>2, <3>3, <3>4, <3>5, <3>6, PathIs
      <3>8. QED
        BY <3>7 DEF A
    <2>3. QED
      BY <2>1, <2>2
  <1>3. ASSUME NEW k \in Coroutines
        PROVE  Captured(k) = {j \in Coroutines : at[j] = In(k)}
    <2> DEFINE A == {j \in Coroutines : at[j] = In(k)}
    <2> DEFINE leaf == saved[k].current
    <2>1. CASE leaf = NULL
      BY <2>1 DEF Attached, Captured
    <2>2. CASE leaf # NULL
      <3>1. leaf \in A /\ k \in A
        BY <2>2 DEF Attached, Types
      <3>2. \A i \in A : dep[i] =< dep[leaf]
        BY DEF Attached
      <3>3. \A i \in A : dep[i] # 0 =>
                parent[i] # NULL /\ parent[i] \in A /\ dep[i] = dep[parent[i]] + 1
        BY <1>1, PlacesDistinct DEF Attached
      <3>4. \A i \in A : dep[i] = 0 <=> i = k
        BY DEF Attached
      <3>5. \A i, h \in A : dep[i] = dep[h] => i = h
        BY PlacesDistinct DEF Attached
      <3>6. A \in SUBSET Coroutines /\ parent \in [Coroutines -> Coroutines \cup {NULL}]
        BY DEF Types
      <3>7. Captured(k) = Path(leaf, k)
        BY <2>2 DEF Captured
      <3> HIDE DEF A, leaf
      <3>8. \A i \in A : dep[i] = 0 <=> (i = k \/ parent[i] = NULL)
        BY <3>3, <3>4
      <3>9. Path(leaf, k) = A
        BY <3>1, <3>2, <3>3, <3>5, <3>6, <3>8, PathIs
      <3>10. QED
        BY <3>7, <3>9 DEF A
    <2>3. QED
      BY <2>1, <2>2
  <1>4. QED
    BY <1>2, <1>3

\* A coroutine whose limit moves is the deepest of its place: no other's saved
\* limit is for its stack.
LEMMA MovedPlaces ==
    ASSUME Types, PlacesKept, NEW t \in Threads, current[t] # NULL, wrapped[t] = <<>>,
           LimitMoves(t, current[t]),
           UNCHANGED <<saved, parent, current, paused_top, wrapped>>
    PROVE  PlacesKept'
  <1>k. PICK k : k = current[t]
    OBVIOUS
  <1>1. PICK at \in [Coroutines -> Places], dep \in [Coroutines -> Nat] :
            Attached(at, dep) /\ Limits(at)
    BY DEF PlacesKept
  <1>2. CASE UNCHANGED <<frame_ptr, limit>>
    <2>1. Attached(at, dep)'
      BY <1>1, <1>2 DEF Attached
    <2>2. Limits(at)'
      BY <1>1, <1>2 DEF Limits, LimitOf
    <2>3. QED
      BY <2>1, <2>2 DEF PlacesKept
  <1>3. CASE \E top \in StackTop :
                /\ top.seg # NULL /\ top.off \in -15 .. 0
                /\ limit' = [limit EXCEPT ![t] = top]
                /\ frame_ptr' = [frame_ptr EXCEPT ![k] = top.seg]
    <2>1. PICK top \in StackTop :
                /\ top.seg # NULL /\ top.off \in -15 .. 0
                /\ limit' = [limit EXCEPT ![t] = top]
                /\ frame_ptr' = [frame_ptr EXCEPT ![k] = top.seg]
      BY <1>3
    <2>2. /\ k \in Coroutines /\ k # NULL /\ at[k] = On(t) /\ top # NULL
          /\ limit'[t] = top /\ frame_ptr'[k] = top.seg
          /\ \A u \in Threads : u # t => limit'[u] = limit[u]
          /\ \A j \in Coroutines : j # k => frame_ptr'[j] = frame_ptr[j]
      BY <1>1, <1>k, <2>1, NullAssumption DEF Attached, Types
    <2>3. Attached(at, dep)'
      BY <1>1, <2>1, <2>2 DEF Attached
    <2>4. \A u \in Threads : u # t => current[u] # k
      BY <1>1, <2>2, PlacesDistinct DEF Attached
    <2>5. \A j \in Coroutines : at[j] # Nowhere /\ at[j] # In(j) => parent[j] # k
      <3>1. ASSUME NEW j \in Coroutines, at[j] # Nowhere, at[j] # In(j), parent[j] = k
            PROVE  FALSE
        <4>1. dep[j] = 0 => FALSE
          <5>1. (\E u \in Threads : at[j] = On(u)) \/ (\E h \in Coroutines : at[j] = In(h))
            BY <3>1 DEF Places
          <5>2. QED
            BY <1>1, <2>2, <3>1, <5>1 DEF Attached
        <4>2. at[j] = On(t) /\ dep[j] = dep[k] + 1
          BY <1>1, <2>2, <3>1, <4>1 DEF Attached
        <4>3. dep[j] =< dep[k]
          BY <1>1, <1>k, <4>2 DEF Attached
        <4>4. QED
          BY <2>2, <4>2, <4>3
      <3>2. QED
        BY <3>1
    <2>6. \A j \in Coroutines : at[j] = In(j) => saved[j].current # k
      BY <1>1, <2>2, PlacesDistinct DEF Attached
    <2>7. \A x \in Coroutines \cup {NULL} : \A y : x # k /\ LimitOf(x, y) =>
              IF x = NULL THEN y = NULL
              ELSE y # NULL /\ y.seg = frame_ptr'[x] /\ y.off \in -15 .. 0
      BY <2>2 DEF LimitOf
    <2>8. \A x \in Coroutines \cup {NULL} : x \in Coroutines \/ x = NULL
      OBVIOUS
    <2>9. /\ \A u \in Threads : current[u] \in Coroutines \cup {NULL}
          /\ \A j \in Coroutines : parent[j] \in Coroutines \cup {NULL}
                                   /\ saved[j].current \in Coroutines \cup {NULL}
      BY DEF Types
    <2>10. \A u \in Threads : LimitOf(IF wrapped[u] = <<>> THEN current[u] ELSE NULL, limit[u])'
      <3>1. ASSUME NEW u \in Threads, u # t
            PROVE  LimitOf(IF wrapped[u] = <<>> THEN current[u] ELSE NULL, limit[u])'
        <4>1. LimitOf(IF wrapped[u] = <<>> THEN current[u] ELSE NULL, limit[u])
          BY <1>1 DEF Limits
        <4>2. limit'[u] = limit[u] /\ wrapped'[u] = wrapped[u] /\ current'[u] = current[u]
          BY <2>2, <3>1
        <4>3. current[u] # k /\ NULL # k
          BY <2>2, <2>4, <3>1
        <4>4. QED
          BY <2>7, <2>9, <4>1, <4>2, <4>3 DEF LimitOf
      <3>2. LimitOf(IF wrapped[t] = <<>> THEN current[t] ELSE NULL, limit[t])'
        BY <1>k, <2>1, <2>2 DEF LimitOf
      <3>3. QED
        BY <3>1, <3>2
    <2>11. \A u \in Threads : wrapped'[u] # <<>> => LimitOf(current[u], paused_top[u])'
      <3>1. ASSUME NEW u \in Threads, wrapped'[u] # <<>> PROVE LimitOf(current[u], paused_top[u])'
        <4>1. u # t /\ LimitOf(current[u], paused_top[u])
          BY <1>1, <3>1 DEF Limits
        <4>2. QED
          BY <2>4, <2>7, <2>9, <4>1 DEF LimitOf
      <3>2. QED
        BY <3>1
    <2>12. \A j \in Coroutines :
              at[j] # Nowhere /\ at[j] # In(j) => LimitOf(parent[j], saved[j].stack_top)'
      <3>1. ASSUME NEW j \in Coroutines, at[j] # Nowhere, at[j] # In(j)
            PROVE  LimitOf(parent[j], saved[j].stack_top)'
        <4>1. LimitOf(parent[j], saved[j].stack_top) /\ parent[j] # k
          BY <1>1, <2>5, <3>1 DEF Limits
        <4>2. QED
          BY <2>7, <2>9, <4>1 DEF LimitOf
      <3>2. QED
        BY <3>1
    <2>13. \A j \in Coroutines : at[j] = In(j) => LimitOf(saved[j].current, saved[j].stack_top)'
      <3>1. ASSUME NEW j \in Coroutines, at[j] = In(j)
            PROVE  LimitOf(saved[j].current, saved[j].stack_top)'
        <4>1. LimitOf(saved[j].current, saved[j].stack_top) /\ saved[j].current # k
          BY <1>1, <2>6, <3>1 DEF Limits
        <4>2. QED
          BY <2>7, <2>9, <4>1 DEF LimitOf
      <3>2. QED
        BY <3>1
    <2>14. Limits(at)'
      BY <2>10, <2>11, <2>12, <2>13 DEF Limits
    <2>15. QED
      BY <2>3, <2>14 DEF PlacesKept
  <1>4. QED
    BY <1>k, <1>2, <1>3 DEF LimitMoves

\* LimitOf, of the frame pointers fp.
LimitFor(fp, k, top) ==
    IF k = NULL THEN top = NULL
    ELSE top # NULL /\ top.seg = fp[k] /\ top.off \in -15 .. 0

LEMMA ResumedPlaces ==
    ASSUME Types, PlacesKept, NEW t \in Threads, NEW k \in Coroutines, seff_resume(t, k)
    PROVE  PlacesKept'
  <1>l. PICK leaf : leaf = saved[k].current
    OBVIOUS
  <1>u. PICK under : under = current[t]
    OBVIOUS
  <1>1. PICK at \in [Coroutines -> Places], dep \in [Coroutines -> Nat] :
            Attached(at, dep) /\ Limits(at)
    BY DEF PlacesKept
  <1>2. /\ wrapped[t] = <<>> /\ leaf # NULL
        /\ saved' = [saved EXCEPT ![k] = [stack_top |-> limit[t], current |-> NULL]]
        /\ limit' = [limit EXCEPT ![t] = saved[k].stack_top]
        /\ parent' = [parent EXCEPT ![k] = under]
        /\ current' = [current EXCEPT ![t] = leaf]
        /\ UNCHANGED <<frame_ptr, paused_top, wrapped>>
    BY <1>l, <1>u DEF seff_resume, stack, calls
  <1>3. PICK d \in Nat : d = IF under = NULL THEN 0 ELSE dep[under] + 1
    BY <1>u DEF Types
  <1> DEFINE at2 == [j \in Coroutines |-> IF at[j] = In(k) THEN On(t) ELSE at[j]]
  <1> DEFINE dep2 == [j \in Coroutines |-> IF at[j] = In(k) THEN dep[j] + d ELSE dep[j]]
  <1>4. at2 \in [Coroutines -> Places] /\ dep2 \in [Coroutines -> Nat]
    BY PlacesDistinct
  <1>5. /\ \A j \in Coroutines : at[j] = In(k) => at2[j] = On(t) /\ dep2[j] = dep[j] + d
        /\ \A j \in Coroutines : at[j] # In(k) => at2[j] = at[j] /\ dep2[j] = dep[j]
    OBVIOUS
  <1> HIDE DEF at2, dep2
  <1>6. /\ leaf \in Coroutines /\ at[leaf] = In(k) /\ at[k] = In(k) /\ dep[k] = 0
        /\ \A j \in Coroutines : at[j] = In(k) => dep[j] =< dep[leaf]
        /\ \A j \in Coroutines : at[j] = In(k) /\ j # k => dep[j] # 0
        /\ under \in Coroutines \cup {NULL} /\ NULL \notin Coroutines
        /\ under # NULL => at[under] = On(t) /\ d = dep[under] + 1
        /\ under = NULL => d = 0
    BY <1>1, <1>2, <1>3, <1>l, <1>u, NullAssumption DEF Attached, Types
  <1>7. /\ saved'[k] = [stack_top |-> limit[t], current |-> NULL]
        /\ limit'[t] = saved[k].stack_top /\ parent'[k] = under /\ current'[t] = leaf
        /\ \A j \in Coroutines : j # k => saved'[j] = saved[j] /\ parent'[j] = parent[j]
        /\ \A u \in Threads : u # t => limit'[u] = limit[u] /\ current'[u] = current[u]
    BY <1>2 DEF Types
  <1>8. \A j \in Coroutines : dep[j] \in Nat /\ dep2[j] \in Nat
    BY <1>4
  <1>9. \A j \in Coroutines : at2[j] # Nowhere => frame_ptr'[j] # NULL
    BY <1>1, <1>2, <1>5, PlacesDistinct DEF Attached
  <1>10. \A u \in Threads : current'[u] # NULL => at2[current'[u]] = On(u)
    <2>1. ASSUME NEW u \in Threads, u # t, current[u] # NULL PROVE at2[current[u]] = On(u)
      BY <2>1, <1>1, <1>5, PlacesDistinct DEF Attached, Types
    <2>2. QED
      BY <2>1, <1>5, <1>6, <1>7
  <1>11. \A h \in Coroutines : saved'[h].current # NULL =>
            at2[saved'[h].current] = In(h) /\ at2[h] = In(h)
    <2>1. ASSUME NEW h \in Coroutines, h # k, saved[h].current # NULL
          PROVE  at2[saved[h].current] = In(h) /\ at2[h] = In(h)
      BY <2>1, <1>1, <1>5, PlacesDistinct DEF Attached, Types
    <2>2. QED
      BY <2>1, <1>7
  <1>12. ASSUME NEW u \in Threads, NEW j \in Coroutines, at2[j] = On(u)
         PROVE  /\ current'[u] # NULL /\ dep2[j] =< dep2[current'[u]]
                /\ parent'[j] = NULL <=> dep2[j] = 0
    <2>1. CASE at[j] = In(k)
      <3>1. u = t /\ current'[u] = leaf /\ dep2[j] =< dep2[leaf]
        BY <1>5, <1>6, <1>7, <1>8, <1>12, <2>1, PlacesDistinct
      <3>2. j # k => parent[j] # NULL /\ dep2[j] # 0
        BY <1>1, <1>5, <1>6, <1>8, <2>1, PlacesDistinct DEF Attached
      <3>3. j = k => (parent'[j] = NULL <=> dep2[j] = 0)
        BY <1>5, <1>6, <1>7, <1>8
      <3>4. QED
        BY <3>1, <3>2, <3>3, <1>6, <1>7
    <2>2. CASE at[j] # In(k)
      <3>1. at[j] = On(u) /\ j # k /\ dep2[j] = dep[j]
        BY <1>5, <1>6, <1>12, <2>2
      <3>2. current[u] # NULL /\ dep[j] =< dep[current[u]] /\ (parent[j] = NULL <=> dep[j] = 0)
            /\ at[current[u]] = On(u) /\ current[u] \in Coroutines
        BY <1>1, <3>1 DEF Attached, Types
      <3>3. CASE u = t
        <4>1. dep2[leaf] = dep[leaf] + d /\ current[u] = under
          BY <1>5, <1>6, <1>u, <3>3
        <4>2. dep2[j] =< dep2[leaf]
          BY <4>1, <1>6, <1>8, <3>1, <3>2
        <4>3. QED
          BY <4>2, <1>6, <1>7, <3>1, <3>2, <3>3
      <3>4. CASE u # t
        <4>1. current'[u] = current[u] /\ dep2[current[u]] = dep[current[u]]
          BY <1>5, <1>7, <3>2, <3>4, PlacesDistinct
        <4>2. QED
          BY <4>1, <1>7, <3>1, <3>2
      <3>5. QED
        BY <3>3, <3>4
    <2>3. QED
      BY <2>1, <2>2
  <1>13. ASSUME NEW h \in Coroutines, NEW j \in Coroutines, at2[j] = In(h)
         PROVE  /\ saved'[h].current # NULL /\ dep2[j] =< dep2[saved'[h].current]
                /\ j = h <=> dep2[j] = 0
    <2>1. at[j] = In(h) /\ h # k
      BY <1>5, <1>13, PlacesDistinct
    <2>2. /\ saved[h].current # NULL /\ dep[j] =< dep[saved[h].current] /\ (j = h <=> dep[j] = 0)
          /\ saved[h].current \in Coroutines /\ at[saved[h].current] = In(h)
      BY <1>1, <2>1 DEF Attached, Types
    <2>3. QED
      BY <2>1, <2>2, <1>5, <1>7, PlacesDistinct
  <1>14. ASSUME NEW j \in Coroutines, at2[j] # Nowhere, dep2[j] # 0
         PROVE  /\ parent'[j] # NULL
                /\ at2[parent'[j]] = at2[j]
                /\ dep2[j] = dep2[parent'[j]] + 1
    <2>1. CASE j = k
      <3>1. d # 0 /\ under # NULL /\ at[under] # In(k)
        BY <1>5, <1>6, <1>8, <1>14, <2>1, PlacesDistinct
      <3>2. QED
        BY <3>1, <1>5, <1>6, <1>7, <1>8, <2>1
    <2>2. CASE j # k
      <3>1. at[j] # Nowhere /\ dep[j] # 0
        BY <1>5, <1>6, <1>14, <2>2, PlacesDistinct
      <3>2. /\ parent[j] # NULL /\ parent[j] \in Coroutines
            /\ at[parent[j]] = at[j] /\ dep[j] = dep[parent[j]] + 1
        BY <1>1, <3>1 DEF Attached, Types
      <3>3. dep2[j] = dep2[parent[j]] + 1 /\ at2[parent[j]] = at2[j]
        <4>1. CASE at[j] = In(k)
          BY <4>1, <1>5, <1>8, <3>2
        <4>2. CASE at[j] # In(k)
          BY <4>2, <1>5, <3>2
        <4>3. QED
          BY <4>1, <4>2
      <3>4. QED
        BY <3>2, <3>3, <1>7, <2>2
    <2>3. QED
      BY <2>1, <2>2
  <1>15. ASSUME NEW i \in Coroutines, NEW j \in Coroutines,
                at2[i] # Nowhere, at2[i] = at2[j], dep2[i] = dep2[j]
         PROVE  i = j
    <2>1. ASSUME NEW x \in Coroutines, NEW y \in Coroutines, at[x] = In(k), at[y] # In(k),
                 at2[x] = at2[y]
          PROVE  dep2[x] # dep2[y]
      <3>1. at[y] = On(t) /\ dep2[y] = dep[y] /\ dep2[x] = dep[x] + d
        BY <2>1, <1>5
      <3>2. under # NULL /\ dep[y] =< dep[under]
        BY <3>1, <1>1, <1>u DEF Attached
      <3>3. QED
        BY <3>1, <3>2, <1>6, <1>8
    <2>2. CASE at[i] = In(k) /\ at[j] = In(k)
      <3>1. dep[i] = dep[j]
        BY <1>5, <1>8, <1>15, <2>2
      <3>2. QED
        BY <3>1, <1>1, <2>2, PlacesDistinct DEF Attached
    <2>3. CASE at[i] # In(k) /\ at[j] # In(k)
      BY <1>1, <1>5, <1>15, <2>3 DEF Attached
    <2>4. QED
      BY <2>1, <2>2, <2>3, <1>15
  <1>16. Attached(at2, dep2)'
    BY <1>9, <1>10, <1>11, <1>12, <1>13, <1>14, <1>15 DEF Attached
  <1>17. /\ \A u \in Threads :
              LimitFor(frame_ptr, IF wrapped[u] = <<>> THEN current[u] ELSE NULL, limit[u])
         /\ \A u \in Threads : wrapped[u] # <<>> => LimitFor(frame_ptr, current[u], paused_top[u])
         /\ \A j \in Coroutines : at[j] # Nowhere /\ at[j] # In(j) =>
              LimitFor(frame_ptr, parent[j], saved[j].stack_top)
         /\ \A j \in Coroutines : at[j] = In(j) =>
              LimitFor(frame_ptr, saved[j].current, saved[j].stack_top)
    BY <1>1 DEF Limits, LimitOf, LimitFor
  <1>18. \A u \in Threads :
            LimitFor(frame_ptr, IF wrapped[u] = <<>> THEN current'[u] ELSE NULL, limit'[u])
    <2>1. LimitFor(frame_ptr, leaf, saved[k].stack_top)
      BY <1>6, <1>17, <1>l
    <2>2. QED
      BY <2>1, <1>2, <1>7, <1>17
  <1>19. \A u \in Threads : wrapped[u] # <<>> => LimitFor(frame_ptr, current'[u], paused_top[u])
    BY <1>2, <1>7, <1>17
  <1>20. \A j \in Coroutines : at2[j] # Nowhere /\ at2[j] # In(j) =>
            LimitFor(frame_ptr, parent'[j], saved'[j].stack_top)
    <2>1. LimitFor(frame_ptr, under, limit[t])
      BY <1>2, <1>17, <1>u
    <2>2. \A j \in Coroutines : j # k /\ at2[j] # Nowhere /\ at2[j] # In(j) =>
              at[j] # Nowhere /\ at[j] # In(j)
      BY <1>5, <1>6, PlacesDistinct
    <2>3. QED
      BY <2>1, <2>2, <1>7, <1>17
  <1>21. \A j \in Coroutines : at2[j] = In(j) =>
            LimitFor(frame_ptr, saved'[j].current, saved'[j].stack_top)
    <2>1. \A j \in Coroutines : at2[j] = In(j) => j # k /\ at[j] = In(j)
      BY <1>5, <1>6, PlacesDistinct
    <2>2. QED
      BY <2>1, <1>7, <1>17
  <1>22. Limits(at2)'
    BY <1>2, <1>18, <1>19, <1>20, <1>21 DEF Limits, LimitOf, LimitFor
  <1>23. QED
    BY <1>4, <1>16, <1>22 DEF PlacesKept

LEMMA YieldedPlaces ==
    ASSUME Types, PlacesKept, NEW t \in Threads, NEW k \in Coroutines, seff_yield(t, k)
    PROVE  PlacesKept'
  <1>l. PICK leaf : leaf = current[t]
    OBVIOUS
  <1>u. PICK under : under = parent[k]
    OBVIOUS
  <1>1. PICK at \in [Coroutines -> Places], dep \in [Coroutines -> Nat] :
            Attached(at, dep) /\ Limits(at)
    BY DEF PlacesKept
  <1>2. /\ wrapped[t] = <<>> /\ leaf # NULL /\ k \in Path(current[t], NULL)
        /\ saved' = [saved EXCEPT ![k] = [stack_top |-> limit[t], current |-> leaf]]
        /\ limit' = [limit EXCEPT ![t] = saved[k].stack_top]
        /\ current' = [current EXCEPT ![t] = under]
        /\ UNCHANGED <<frame_ptr, parent, paused_top, wrapped>>
    BY <1>l, <1>u DEF seff_yield, OnCoroutine, stack, calls
  <1>3. at[k] = On(t)
    BY <1>1, <1>2, ChainsAre
  \* What is captured: k and what runs above it.
  <1> DEFINE Taken(j) == at[j] = On(t) /\ dep[j] >= dep[k]
  <1> DEFINE at2 == [j \in Coroutines |-> IF Taken(j) THEN In(k) ELSE at[j]]
  <1> DEFINE dep2 == [j \in Coroutines |-> IF Taken(j) THEN dep[j] - dep[k] ELSE dep[j]]
  <1>4. at2 \in [Coroutines -> Places] /\ dep2 \in [Coroutines -> Nat]
    BY PlacesDistinct
  <1>5. /\ \A j \in Coroutines : Taken(j) => at2[j] = In(k) /\ dep2[j] = dep[j] - dep[k]
        /\ \A j \in Coroutines : ~Taken(j) => at2[j] = at[j] /\ dep2[j] = dep[j]
        /\ \A j \in Coroutines : Taken(j) <=> at[j] = On(t) /\ dep[j] >= dep[k]
    OBVIOUS
  <1> HIDE DEF at2, dep2, Taken
  <1>6. /\ leaf \in Coroutines /\ at[leaf] = On(t) /\ dep[k] =< dep[leaf]
        /\ \A j \in Coroutines : at[j] = On(t) => dep[j] =< dep[leaf]
        /\ under = NULL <=> dep[k] = 0
        /\ under # NULL => under \in Coroutines /\ at[under] = On(t) /\ dep[k] = dep[under] + 1
        /\ NULL \notin Coroutines
        /\ \A u \in Threads : u # t /\ current[u] # NULL => at[current[u]] = On(u)
    <2>1. at[k] # Nowhere
      BY <1>3, PlacesDistinct
    <2>2. parent[k] # NULL => parent[k] \in Coroutines
      BY DEF Types
    <2>3. leaf \in Coroutines /\ NULL \notin Coroutines
      BY <1>2, <1>l, NullAssumption DEF Types
    <2>4. QED
      BY <1>1, <1>3, <1>l, <1>u, <2>1, <2>2, <2>3 DEF Attached
  <1>7. /\ saved'[k] = [stack_top |-> limit[t], current |-> leaf]
        /\ limit'[t] = saved[k].stack_top /\ current'[t] = under
        /\ \A j \in Coroutines : j # k => saved'[j] = saved[j]
        /\ \A u \in Threads : u # t => limit'[u] = limit[u] /\ current'[u] = current[u]
    BY <1>2 DEF Types
  <1>8. \A j \in Coroutines : dep[j] \in Nat /\ dep2[j] \in Nat
    BY <1>4
  <1>a. \A j \in Coroutines : at[j] # In(k)
    BY <1>1, <1>3, PlacesDistinct DEF Attached
  <1>9. \A j \in Coroutines : at2[j] # Nowhere => frame_ptr'[j] # NULL
    BY <1>1, <1>2, <1>5, PlacesDistinct DEF Attached
  <1>10. \A u \in Threads : current'[u] # NULL => at2[current'[u]] = On(u)
    <2>1. ASSUME NEW u \in Threads, u # t, current[u] # NULL PROVE at2[current[u]] = On(u)
      BY <2>1, <1>5, <1>6, PlacesDistinct DEF Types
    <2>2. under # NULL => at2[under] = On(t)
      BY <1>3, <1>5, <1>6, <1>8
    <2>3. QED
      BY <2>1, <2>2, <1>7
  <1>11. \A h \in Coroutines : saved'[h].current # NULL =>
            at2[saved'[h].current] = In(h) /\ at2[h] = In(h)
    <2>1. ASSUME NEW h \in Coroutines, h # k, saved[h].current # NULL
          PROVE  at2[saved[h].current] = In(h) /\ at2[h] = In(h)
      BY <2>1, <1>1, <1>5, PlacesDistinct DEF Attached, Types
    <2>2. at2[leaf] = In(k) /\ at2[k] = In(k)
      BY <1>3, <1>5, <1>6, <1>8
    <2>3. QED
      BY <2>1, <2>2, <1>7
  <1>12. ASSUME NEW u \in Threads, NEW j \in Coroutines, at2[j] = On(u)
         PROVE  /\ current'[u] # NULL /\ dep2[j] =< dep2[current'[u]]
                /\ parent'[j] = NULL <=> dep2[j] = 0
    <2>1. ~Taken(j) /\ at[j] = On(u) /\ dep2[j] = dep[j]
      BY <1>5, <1>12, PlacesDistinct
    <2>2. current[u] # NULL /\ dep[j] =< dep[current[u]] /\ (parent[j] = NULL <=> dep[j] = 0)
          /\ current[u] \in Coroutines
      BY <1>1, <2>1 DEF Attached, Types
    <2>3. CASE u = t
      <3>1. dep[j] < dep[k] /\ under # NULL /\ dep[under] = dep[k] - 1 /\ ~Taken(under)
        BY <1>5, <1>6, <1>8, <2>1, <2>3
      <3>2. QED
        BY <3>1, <1>2, <1>5, <1>6, <1>7, <1>8, <2>1, <2>2, <2>3
    <2>4. CASE u # t
      <3>1. dep2[current[u]] = dep[current[u]]
        BY <1>5, <1>6, <2>2, <2>4, PlacesDistinct
      <3>2. QED
        BY <3>1, <1>2, <1>7, <2>1, <2>2, <2>4
    <2>5. QED
      BY <2>3, <2>4
  <1>13. ASSUME NEW h \in Coroutines, NEW j \in Coroutines, at2[j] = In(h)
         PROVE  /\ saved'[h].current # NULL /\ dep2[j] =< dep2[saved'[h].current]
                /\ j = h <=> dep2[j] = 0
    <2>1. CASE Taken(j)
      <3>1. h = k /\ saved'[h].current = leaf /\ Taken(leaf)
        BY <1>5, <1>6, <1>7, <1>8, <1>13, <2>1, PlacesDistinct
      <3>2. dep2[j] =< dep2[leaf]
        BY <1>5, <1>6, <1>8, <2>1, <3>1
      <3>3. j = k <=> dep[j] = dep[k]
        BY <1>1, <1>3, <1>5, <2>1, PlacesDistinct DEF Attached
      <3>4. QED
        BY <3>1, <3>2, <3>3, <1>5, <1>6, <1>8, <2>1
    <2>2. CASE ~Taken(j)
      <3>1. at[j] = In(h) /\ h # k
        BY <1>5, <1>13, <1>a, <2>2
      <3>2. /\ saved[h].current # NULL /\ dep[j] =< dep[saved[h].current] /\ (j = h <=> dep[j] = 0)
            /\ saved[h].current \in Coroutines /\ at[saved[h].current] = In(h)
        BY <1>1, <3>1 DEF Attached, Types
      <3>3. QED
        BY <3>1, <3>2, <2>2, <1>5, <1>7, PlacesDistinct
    <2>3. QED
      BY <2>1, <2>2
  <1>14. ASSUME NEW j \in Coroutines, at2[j] # Nowhere, dep2[j] # 0
         PROVE  /\ parent'[j] # NULL
                /\ at2[parent'[j]] = at2[j]
                /\ dep2[j] = dep2[parent'[j]] + 1
    <2>1. at[j] # Nowhere /\ dep[j] # 0
      BY <1>5, <1>8, <1>14, PlacesDistinct
    <2>2. /\ parent[j] # NULL /\ parent[j] \in Coroutines
          /\ at[parent[j]] = at[j] /\ dep[j] = dep[parent[j]] + 1
      BY <1>1, <2>1 DEF Attached, Types
    <2>3. Taken(j) => dep[j] # dep[k] /\ Taken(parent[j])
      BY <1>5, <1>8, <1>14, <2>2, <1>3
    <2>4. ~Taken(j) => ~Taken(parent[j])
      BY <1>5, <1>8, <2>2, <1>3
    <2>5. QED
      BY <2>2, <2>3, <2>4, <1>2, <1>3, <1>5, <1>8
  <1>15. ASSUME NEW i \in Coroutines, NEW j \in Coroutines,
                at2[i] # Nowhere, at2[i] = at2[j], dep2[i] = dep2[j]
         PROVE  i = j
    <2>1. Taken(i) <=> Taken(j)
      BY <1>5, <1>15, <1>a
    <2>2. at[i] = at[j] /\ at[i] # Nowhere /\ dep[i] = dep[j]
      BY <2>1, <1>3, <1>5, <1>8, <1>15, PlacesDistinct
    <2>3. QED
      BY <1>1, <2>2 DEF Attached
  <1>16. Attached(at2, dep2)'
    BY <1>9, <1>10, <1>11, <1>12, <1>13, <1>14, <1>15 DEF Attached
  <1>17. /\ \A u \in Threads :
              LimitFor(frame_ptr, IF wrapped[u] = <<>> THEN current[u] ELSE NULL, limit[u])
         /\ \A u \in Threads : wrapped[u] # <<>> => LimitFor(frame_ptr, current[u], paused_top[u])
         /\ \A j \in Coroutines : at[j] # Nowhere /\ at[j] # In(j) =>
              LimitFor(frame_ptr, parent[j], saved[j].stack_top)
         /\ \A j \in Coroutines : at[j] = In(j) =>
              LimitFor(frame_ptr, saved[j].current, saved[j].stack_top)
    BY <1>1 DEF Limits, LimitOf, LimitFor
  <1>18. \A u \in Threads :
            LimitFor(frame_ptr, IF wrapped[u] = <<>> THEN current'[u] ELSE NULL, limit'[u])
    <2>1. LimitFor(frame_ptr, under, saved[k].stack_top)
      BY <1>3, <1>17, <1>u, PlacesDistinct
    <2>2. QED
      BY <2>1, <1>2, <1>7, <1>17
  <1>19. \A u \in Threads : wrapped[u] # <<>> => LimitFor(frame_ptr, current'[u], paused_top[u])
    BY <1>2, <1>7, <1>17
  <1>20. \A j \in Coroutines : at2[j] # Nowhere /\ at2[j] # In(j) =>
            LimitFor(frame_ptr, parent'[j], saved'[j].stack_top)
    <2>1. \A j \in Coroutines : at2[j] # Nowhere /\ at2[j] # In(j) =>
              at[j] # Nowhere /\ at[j] # In(j) /\ j # k
      BY <1>3, <1>5, <1>8, PlacesDistinct
    <2>2. QED
      BY <2>1, <1>2, <1>7, <1>17
  <1>21. \A j \in Coroutines : at2[j] = In(j) =>
            LimitFor(frame_ptr, saved'[j].current, saved'[j].stack_top)
    <2>1. LimitFor(frame_ptr, leaf, limit[t])
      BY <1>2, <1>17, <1>l
    <2>2. \A j \in Coroutines : j # k /\ at2[j] = In(j) => at[j] = In(j)
      BY <1>5, PlacesDistinct
    <2>3. QED
      BY <2>1, <2>2, <1>7, <1>17
  <1>22. Limits(at2)'
    BY <1>2, <1>18, <1>19, <1>20, <1>21 DEF Limits, LimitOf, LimitFor
  <1>23. QED
    BY <1>4, <1>16, <1>22 DEF PlacesKept

LEMMA ExitedPlaces ==
    ASSUME Types, PlacesKept, NEW t \in Threads, NEW k \in Coroutines, seff_exit(t, k)
    PROVE  PlacesKept'
  <1>l. PICK leaf : leaf = current[t]
    OBVIOUS
  <1>u. PICK under : under = parent[k]
    OBVIOUS
  <1>1. PICK at \in [Coroutines -> Places], dep \in [Coroutines -> Nat] :
            Attached(at, dep) /\ Limits(at)
    BY DEF PlacesKept
  <1>2. /\ wrapped[t] = <<>> /\ leaf # NULL /\ k \in Path(current[t], NULL)
        /\ limit' = [limit EXCEPT ![t] = saved[k].stack_top]
        /\ current' = [current EXCEPT ![t] = under]
        /\ UNCHANGED <<frame_ptr, saved, parent, paused_top, wrapped>>
    BY <1>l, <1>u DEF seff_exit, OnCoroutine, stack, calls
  <1>3. at[k] = On(t)
    BY <1>1, <1>2, ChainsAre
  \* What is left behind: k and what runs above it.
  <1> DEFINE Taken(j) == at[j] = On(t) /\ dep[j] >= dep[k]
  <1> DEFINE at2 == [j \in Coroutines |-> IF Taken(j) THEN Nowhere ELSE at[j]]
  <1>4. at2 \in [Coroutines -> Places]
    BY PlacesDistinct
  <1>5. /\ \A j \in Coroutines : Taken(j) => at2[j] = Nowhere
        /\ \A j \in Coroutines : ~Taken(j) => at2[j] = at[j]
        /\ \A j \in Coroutines : Taken(j) <=> at[j] = On(t) /\ dep[j] >= dep[k]
    OBVIOUS
  <1> HIDE DEF at2, Taken
  <1>6. /\ leaf \in Coroutines /\ at[leaf] = On(t) /\ dep[k] =< dep[leaf]
        /\ \A j \in Coroutines : at[j] = On(t) => dep[j] =< dep[leaf]
        /\ under = NULL <=> dep[k] = 0
        /\ under # NULL => under \in Coroutines /\ at[under] = On(t) /\ dep[k] = dep[under] + 1
        /\ NULL \notin Coroutines
        /\ \A u \in Threads : u # t /\ current[u] # NULL => at[current[u]] = On(u)
    <2>1. at[k] # Nowhere
      BY <1>3, PlacesDistinct
    <2>2. parent[k] # NULL => parent[k] \in Coroutines
      BY DEF Types
    <2>3. leaf \in Coroutines /\ NULL \notin Coroutines
      BY <1>2, <1>l, NullAssumption DEF Types
    <2>4. QED
      BY <1>1, <1>3, <1>l, <1>u, <2>1, <2>2, <2>3 DEF Attached
  <1>7. /\ limit'[t] = saved[k].stack_top /\ current'[t] = under
        /\ \A u \in Threads : u # t => limit'[u] = limit[u] /\ current'[u] = current[u]
    BY <1>2 DEF Types
  <1>8. \A j \in Coroutines : dep[j] \in Nat
    OBVIOUS
  <1>9. \A j \in Coroutines : at2[j] # Nowhere => frame_ptr'[j] # NULL
    BY <1>1, <1>2, <1>5 DEF Attached
  <1>10. \A u \in Threads : current'[u] # NULL => at2[current'[u]] = On(u)
    <2>1. ASSUME NEW u \in Threads, u # t, current[u] # NULL PROVE at2[current[u]] = On(u)
      BY <2>1, <1>5, <1>6, PlacesDistinct DEF Types
    <2>2. under # NULL => at2[under] = On(t)
      BY <1>3, <1>5, <1>6, <1>8
    <2>3. QED
      BY <2>1, <2>2, <1>7
  <1>11. \A h \in Coroutines : saved'[h].current # NULL =>
            at2[saved'[h].current] = In(h) /\ at2[h] = In(h)
    <2>1. ASSUME NEW h \in Coroutines, saved[h].current # NULL
          PROVE  at2[saved[h].current] = In(h) /\ at2[h] = In(h)
      BY <2>1, <1>1, <1>5, PlacesDistinct DEF Attached, Types
    <2>2. QED
      BY <2>1, <1>2
  <1>12. ASSUME NEW u \in Threads, NEW j \in Coroutines, at2[j] = On(u)
         PROVE  /\ current'[u] # NULL /\ dep[j] =< dep[current'[u]]
                /\ parent'[j] = NULL <=> dep[j] = 0
    <2>1. ~Taken(j) /\ at[j] = On(u)
      BY <1>5, <1>12, PlacesDistinct
    <2>2. current[u] # NULL /\ dep[j] =< dep[current[u]] /\ (parent[j] = NULL <=> dep[j] = 0)
      BY <1>1, <2>1 DEF Attached
    <2>3. CASE u = t
      <3>1. dep[j] < dep[k] /\ under # NULL /\ dep[under] = dep[k] - 1
        BY <1>5, <1>6, <1>8, <2>1, <2>3
      <3>2. QED
        BY <3>1, <1>2, <1>6, <1>7, <1>8, <2>2, <2>3
    <2>4. CASE u # t
      BY <1>2, <1>7, <2>2, <2>4
    <2>5. QED
      BY <2>3, <2>4
  <1>13. ASSUME NEW h \in Coroutines, NEW j \in Coroutines, at2[j] = In(h)
         PROVE  /\ saved'[h].current # NULL /\ dep[j] =< dep[saved'[h].current]
                /\ j = h <=> dep[j] = 0
    <2>1. at[j] = In(h)
      BY <1>5, <1>13, PlacesDistinct
    <2>2. QED
      BY <2>1, <1>1, <1>2 DEF Attached
  <1>14. ASSUME NEW j \in Coroutines, at2[j] # Nowhere, dep[j] # 0
         PROVE  /\ parent'[j] # NULL
                /\ at2[parent'[j]] = at2[j]
                /\ dep[j] = dep[parent'[j]] + 1
    <2>1. at[j] # Nowhere /\ ~Taken(j)
      BY <1>5, <1>14
    <2>2. /\ parent[j] # NULL /\ parent[j] \in Coroutines
          /\ at[parent[j]] = at[j] /\ dep[j] = dep[parent[j]] + 1
      BY <1>1, <1>14, <2>1 DEF Attached, Types
    <2>3. ~Taken(parent[j])
      BY <1>5, <1>8, <2>1, <2>2, <1>3
    <2>4. QED
      BY <2>1, <2>2, <2>3, <1>2, <1>5
  <1>15. ASSUME NEW i \in Coroutines, NEW j \in Coroutines,
                at2[i] # Nowhere, at2[i] = at2[j], dep[i] = dep[j]
         PROVE  i = j
    <2>1. at[i] = at[j] /\ at[i] # Nowhere
      BY <1>5, <1>15
    <2>2. QED
      BY <1>1, <1>15, <2>1 DEF Attached
  <1>16. Attached(at2, dep)'
    BY <1>9, <1>10, <1>11, <1>12, <1>13, <1>14, <1>15 DEF Attached
  <1>17. /\ \A u \in Threads :
              LimitFor(frame_ptr, IF wrapped[u] = <<>> THEN current[u] ELSE NULL, limit[u])
         /\ \A u \in Threads : wrapped[u] # <<>> => LimitFor(frame_ptr, current[u], paused_top[u])
         /\ \A j \in Coroutines : at[j] # Nowhere /\ at[j] # In(j) =>
              LimitFor(frame_ptr, parent[j], saved[j].stack_top)
         /\ \A j \in Coroutines : at[j] = In(j) =>
              LimitFor(frame_ptr, saved[j].current, saved[j].stack_top)
    BY <1>1 DEF Limits, LimitOf, LimitFor
  <1>18. \A u \in Threads :
            LimitFor(frame_ptr, IF wrapped[u] = <<>> THEN current'[u] ELSE NULL, limit'[u])
    <2>1. LimitFor(frame_ptr, under, saved[k].stack_top)
      BY <1>3, <1>17, <1>u, PlacesDistinct
    <2>2. QED
      BY <2>1, <1>2, <1>7, <1>17
  <1>19. \A u \in Threads : wrapped[u] # <<>> => LimitFor(frame_ptr, current'[u], paused_top[u])
    BY <1>2, <1>7, <1>17
  <1>20. /\ \A j \in Coroutines : at2[j] # Nowhere /\ at2[j] # In(j) =>
              LimitFor(frame_ptr, parent[j], saved[j].stack_top)
         /\ \A j \in Coroutines : at2[j] = In(j) =>
              LimitFor(frame_ptr, saved[j].current, saved[j].stack_top)
    BY <1>5, <1>17, PlacesDistinct
  <1>21. Limits(at2)'
    BY <1>2, <1>18, <1>19, <1>20 DEF Limits, LimitOf, LimitFor
  <1>22. QED
    BY <1>4, <1>16, <1>21 DEF PlacesKept

LEMMA CreatedPlaces ==
    ASSUME Types, PlacesKept, NEW k \in Coroutines, seff_coroutine_init_sized(k)
    PROVE  PlacesKept'
  <1>s. PICK s : s = NewSegment
    OBVIOUS
  <1>1. PICK at \in [Coroutines -> Places], dep \in [Coroutines -> Nat] :
            Attached(at, dep) /\ Limits(at)
    BY DEF PlacesKept
  <1> DEFINE top == [seg |-> s, off |-> 0]
  <1>2. /\ frame_ptr[k] = NULL /\ HasRoom
        /\ frame_ptr' = [frame_ptr EXCEPT ![k] = s]
        /\ saved' = [saved EXCEPT ![k] = [stack_top |-> top, current |-> k]]
        /\ UNCHANGED <<parent, current, limit, paused_top, wrapped>>
    BY <1>s DEF seff_coroutine_init_sized, regs, calls
  <1>3. s \in Segments /\ s # NULL /\ k # NULL /\ top # NULL /\ NULL \notin Coroutines
    <2>1. s \in Segments
      BY <1>s, <1>2, NewSegmentIsFree
    <2>2. s # NULL
      BY <2>1, NullAssumption, BoundsAssumption DEF Segments
    <2>3. top \in StackTop
      BY <2>1 DEF StackTop
    <2>4. QED
      BY <2>1, <2>2, <2>3, NullAssumption
  <1>4. at[k] = Nowhere /\ (\A j \in Coroutines : at[j] # In(k)) /\ saved[k].current = NULL
    BY <1>1, <1>2, PlacesDistinct DEF Attached
  <1>5. top.seg = s /\ top.off \in -15 .. 0
    OBVIOUS
  <1> HIDE DEF top
  <1> DEFINE at2 == [at EXCEPT ![k] = In(k)]
  <1> DEFINE dep2 == [dep EXCEPT ![k] = 0]
  <1>6. at2 \in [Coroutines -> Places] /\ dep2 \in [Coroutines -> Nat]
    BY PlacesDistinct
  <1>7. /\ at2[k] = In(k) /\ dep2[k] = 0
        /\ \A j \in Coroutines : j # k => at2[j] = at[j] /\ dep2[j] = dep[j]
    OBVIOUS
  <1> HIDE DEF at2, dep2
  <1>8. /\ saved'[k] = [stack_top |-> top, current |-> k] /\ frame_ptr'[k] = s
        /\ \A j \in Coroutines : j # k => saved'[j] = saved[j] /\ frame_ptr'[j] = frame_ptr[j]
    BY <1>2 DEF Types
  <1>9. \A u \in Threads : current[u] # NULL => current[u] \in Coroutines /\ current[u] # k
    BY <1>1, <1>4, PlacesDistinct DEF Attached, Types
  <1>10. \A j \in Coroutines : saved[j].current # NULL =>
            saved[j].current \in Coroutines /\ saved[j].current # k /\ j # k
    BY <1>1, <1>4, PlacesDistinct DEF Attached, Types
  <1>11. \A j \in Coroutines : at[j] # Nowhere /\ dep[j] # 0 =>
            parent[j] \in Coroutines /\ parent[j] # k
    BY <1>1, <1>4, PlacesDistinct DEF Attached, Types
  <1>12. \A j \in Coroutines : at2[j] # Nowhere => frame_ptr'[j] # NULL
    BY <1>1, <1>3, <1>7, <1>8 DEF Attached
  <1>13. \A u \in Threads : current'[u] # NULL => at2[current'[u]] = On(u)
    BY <1>1, <1>2, <1>7, <1>9 DEF Attached
  <1>14. \A h \in Coroutines : saved'[h].current # NULL =>
            at2[saved'[h].current] = In(h) /\ at2[h] = In(h)
    <2>1. ASSUME NEW h \in Coroutines, h # k, saved[h].current # NULL
          PROVE  at2[saved[h].current] = In(h) /\ at2[h] = In(h)
      BY <2>1, <1>1, <1>7, <1>10 DEF Attached
    <2>2. QED
      BY <2>1, <1>7, <1>8
  <1>15. ASSUME NEW u \in Threads, NEW j \in Coroutines, at2[j] = On(u)
         PROVE  /\ current'[u] # NULL /\ dep2[j] =< dep2[current'[u]]
                /\ parent'[j] = NULL <=> dep2[j] = 0
    <2>1. j # k /\ at[j] = On(u)
      BY <1>7, <1>15, PlacesDistinct
    <2>2. current[u] # NULL /\ dep[j] =< dep[current[u]] /\ (parent[j] = NULL <=> dep[j] = 0)
      BY <1>1, <2>1 DEF Attached
    <2>3. QED
      BY <2>1, <2>2, <1>2, <1>7, <1>9
  <1>16. ASSUME NEW h \in Coroutines, NEW j \in Coroutines, at2[j] = In(h)
         PROVE  /\ saved'[h].current # NULL /\ dep2[j] =< dep2[saved'[h].current]
                /\ j = h <=> dep2[j] = 0
    <2>1. CASE j = k
      <3>1. h = k
        BY <2>1, <1>7, <1>16, PlacesDistinct
      <3>2. QED
        BY <2>1, <3>1, <1>3, <1>7, <1>8
    <2>2. CASE j # k
      <3>1. at[j] = In(h) /\ h # k
        BY <2>2, <1>4, <1>7, <1>16
      <3>2. saved[h].current # NULL /\ dep[j] =< dep[saved[h].current] /\ (j = h <=> dep[j] = 0)
        BY <1>1, <3>1 DEF Attached
      <3>3. QED
        BY <2>2, <3>1, <3>2, <1>7, <1>8, <1>10
    <2>3. QED
      BY <2>1, <2>2
  <1>17. ASSUME NEW j \in Coroutines, at2[j] # Nowhere, dep2[j] # 0
         PROVE  /\ parent'[j] # NULL
                /\ at2[parent'[j]] = at2[j]
                /\ dep2[j] = dep2[parent'[j]] + 1
    <2>1. j # k /\ at[j] # Nowhere /\ dep[j] # 0
      BY <1>7, <1>17
    <2>2. parent[j] # NULL /\ at[parent[j]] = at[j] /\ dep[j] = dep[parent[j]] + 1
      BY <1>1, <2>1 DEF Attached
    <2>3. QED
      BY <2>1, <2>2, <1>2, <1>7, <1>11
  <1>18. ASSUME NEW i \in Coroutines, NEW j \in Coroutines,
                at2[i] # Nowhere, at2[i] = at2[j], dep2[i] = dep2[j]
         PROVE  i = j
    <2>1. i # k /\ j # k => i = j
      BY <1>1, <1>7, <1>18 DEF Attached
    <2>2. QED
      BY <2>1, <1>4, <1>7, <1>18
  <1>19. Attached(at2, dep2)'
    BY <1>12, <1>13, <1>14, <1>15, <1>16, <1>17, <1>18 DEF Attached
  <1>20. /\ \A u \in Threads :
              LimitFor(frame_ptr, IF wrapped[u] = <<>> THEN current[u] ELSE NULL, limit[u])
         /\ \A u \in Threads : wrapped[u] # <<>> => LimitFor(frame_ptr, current[u], paused_top[u])
         /\ \A j \in Coroutines : at[j] # Nowhere /\ at[j] # In(j) =>
              LimitFor(frame_ptr, parent[j], saved[j].stack_top)
         /\ \A j \in Coroutines : at[j] = In(j) =>
              LimitFor(frame_ptr, saved[j].current, saved[j].stack_top)
    BY <1>1 DEF Limits, LimitOf, LimitFor
  <1>21. \A x, top2 : x # k /\ LimitFor(frame_ptr, x, top2) /\ x \in Coroutines \cup {NULL}
                      => LimitFor(frame_ptr', x, top2)
    BY <1>8 DEF LimitFor
  <1>22. \A u \in Threads : current[u] # k /\ current[u] \in Coroutines \cup {NULL}
                            /\ NULL # k /\ NULL \in Coroutines \cup {NULL}
    BY <1>3, <1>9
  <1>23. /\ \A u \in Threads :
              LimitFor(frame_ptr', IF wrapped[u] = <<>> THEN current[u] ELSE NULL, limit[u])
         /\ \A u \in Threads : wrapped[u] # <<>> => LimitFor(frame_ptr', current[u], paused_top[u])
    BY <1>20, <1>21, <1>22
  <1>24. ASSUME NEW j \in Coroutines, at2[j] # Nowhere, at2[j] # In(j)
         PROVE  LimitFor(frame_ptr', parent'[j], saved'[j].stack_top)
    <2>1. j # k /\ at[j] # Nowhere /\ at[j] # In(j)
      BY <1>24, <1>7
    <2>2. parent[j] # k /\ parent[j] \in Coroutines \cup {NULL}
      <3>1. dep[j] = 0 => parent[j] = NULL
        <4>1. (\E u \in Threads : at[j] = On(u)) \/ (\E h \in Coroutines : at[j] = In(h))
          BY <2>1 DEF Places
        <4>2. QED
          BY <1>1, <2>1, <4>1 DEF Attached
      <3>2. QED
        BY <3>1, <2>1, <1>3, <1>11 DEF Types
    <2>3. QED
      BY <2>1, <2>2, <1>2, <1>8, <1>20, <1>21
  <1>25. ASSUME NEW j \in Coroutines, at2[j] = In(j)
         PROVE  LimitFor(frame_ptr', saved'[j].current, saved'[j].stack_top)
    <2>1. CASE j = k
      BY <2>1, <1>3, <1>5, <1>8 DEF LimitFor
    <2>2. CASE j # k
      <3>1. at[j] = In(j)
        BY <2>2, <1>7, <1>25
      <3>2. saved[j].current # NULL
        BY <1>1, <3>1 DEF Attached
      <3>3. QED
        BY <2>2, <3>1, <3>2, <1>8, <1>10, <1>20, <1>21
    <2>3. QED
      BY <2>1, <2>2
  <1>26. Limits(at2)'
    BY <1>2, <1>23, <1>24, <1>25 DEF Limits, LimitOf, LimitFor
  <1>27. QED
    BY <1>6, <1>19, <1>26 DEF PlacesKept

LEMMA DeletedPlaces ==
    ASSUME Types, PlacesKept, NEW k \in Coroutines, seff_coroutine_delete(k)
    PROVE  PlacesKept'
  <1>1. PICK at \in [Coroutines -> Places], dep \in [Coroutines -> Nat] :
            Attached(at, dep) /\ Limits(at)
    BY DEF PlacesKept
  <1>2. /\ k \notin Running /\ \A j \in Coroutines \ {k} : k \notin Captured(j)
        /\ frame_ptr' = [frame_ptr EXCEPT ![k] = NULL]
        /\ saved' = [saved EXCEPT ![k] = [stack_top |-> NULL, current |-> NULL]]
        /\ parent' = [parent EXCEPT ![k] = NULL]
        /\ UNCHANGED <<current, limit, paused_top, wrapped>>
    BY DEF seff_coroutine_delete, regs, calls
  <1>3. k # NULL /\ NULL \notin Coroutines
    BY NullAssumption
  <1>4. /\ \A t \in Threads : at[k] # On(t)
        /\ \A j \in Coroutines : j # k => at[k] # In(j)
    BY <1>1, <1>2, ChainsAre DEF Running
  <1> DEFINE at2 == [j \in Coroutines |-> IF j = k \/ at[j] = In(k) THEN Nowhere ELSE at[j]]
  <1>6. at2 \in [Coroutines -> Places]
    BY PlacesDistinct
  <1>5. /\ at2[k] = Nowhere
        /\ \A j \in Coroutines : at[j] = In(k) => at2[j] = Nowhere
        /\ \A j \in Coroutines : j # k /\ at[j] # In(k) => at2[j] = at[j]
    OBVIOUS
  <1> HIDE DEF at2
  <1>7. \A j \in Coroutines : at2[j] # Nowhere =>
            j # k /\ at[j] = at2[j] /\ at[j] # In(k) /\ at[j] # Nowhere
    BY <1>5
  <1>8. /\ saved'[k].current = NULL /\ frame_ptr'[k] = NULL
        /\ \A j \in Coroutines : j # k => /\ saved'[j] = saved[j] /\ parent'[j] = parent[j]
                                          /\ frame_ptr'[j] = frame_ptr[j]
    BY <1>2 DEF Types
  <1>9. \A u \in Threads : current[u] # NULL => current[u] \in Coroutines /\ current[u] # k
    BY <1>1, <1>4 DEF Attached, Types
  <1>10. \A j \in Coroutines : j # k /\ saved[j].current # NULL =>
            saved[j].current \in Coroutines /\ saved[j].current # k
    BY <1>1, <1>4 DEF Attached, Types
  <1>11. \A j \in Coroutines : at2[j] # Nowhere /\ dep[j] # 0 =>
            parent[j] \in Coroutines /\ parent[j] # k /\ at[parent[j]] # In(k)
    <2>1. ASSUME NEW j \in Coroutines, at2[j] # Nowhere, dep[j] # 0
          PROVE  parent[j] \in Coroutines /\ parent[j] # k /\ at[parent[j]] # In(k)
      <3>1. at[j] # In(k) /\ at[j] # Nowhere /\ at[parent[j]] = at[j] /\ parent[j] \in Coroutines
        BY <2>1, <1>1, <1>7 DEF Attached, Types
      <3>2. (\E u \in Threads : at[j] = On(u)) \/ (\E h \in Coroutines : at[j] = In(h))
        BY <3>1 DEF Places
      <3>3. QED
        BY <3>1, <3>2, <1>4
    <2>2. QED
      BY <2>1
  <1>12. \A j \in Coroutines : at2[j] # Nowhere => frame_ptr'[j] # NULL
    BY <1>1, <1>7, <1>8 DEF Attached
  <1>13. \A u \in Threads : current'[u] # NULL => at2[current'[u]] = On(u)
    BY <1>1, <1>2, <1>5, <1>9, PlacesDistinct DEF Attached
  <1>14. \A h \in Coroutines : saved'[h].current # NULL =>
            at2[saved'[h].current] = In(h) /\ at2[h] = In(h)
    <2>1. ASSUME NEW h \in Coroutines, h # k, saved[h].current # NULL
          PROVE  at2[saved[h].current] = In(h) /\ at2[h] = In(h)
      BY <2>1, <1>1, <1>5, <1>10, PlacesDistinct DEF Attached
    <2>2. QED
      BY <2>1, <1>8
  <1>15. ASSUME NEW u \in Threads, NEW j \in Coroutines, at2[j] = On(u)
         PROVE  /\ current'[u] # NULL /\ dep[j] =< dep[current'[u]]
                /\ parent'[j] = NULL <=> dep[j] = 0
    <2>1. j # k /\ at[j] = On(u)
      BY <1>7, <1>15, PlacesDistinct
    <2>2. current[u] # NULL /\ dep[j] =< dep[current[u]] /\ (parent[j] = NULL <=> dep[j] = 0)
      BY <1>1, <2>1 DEF Attached
    <2>3. QED
      BY <2>1, <2>2, <1>2, <1>8
  <1>16. ASSUME NEW h \in Coroutines, NEW j \in Coroutines, at2[j] = In(h)
         PROVE  /\ saved'[h].current # NULL /\ dep[j] =< dep[saved'[h].current]
                /\ j = h <=> dep[j] = 0
    <2>1. at[j] = In(h) /\ h # k
      BY <1>7, <1>16, PlacesDistinct
    <2>2. saved[h].current # NULL /\ dep[j] =< dep[saved[h].current] /\ (j = h <=> dep[j] = 0)
      BY <1>1, <2>1 DEF Attached
    <2>3. QED
      BY <2>1, <2>2, <1>8
  <1>17. ASSUME NEW j \in Coroutines, at2[j] # Nowhere, dep[j] # 0
         PROVE  /\ parent'[j] # NULL
                /\ at2[parent'[j]] = at2[j]
                /\ dep[j] = dep[parent'[j]] + 1
    <2>1. j # k /\ at[j] = at2[j] /\ at[j] # Nowhere
      BY <1>7, <1>17
    <2>2. parent[j] # NULL /\ at[parent[j]] = at[j] /\ dep[j] = dep[parent[j]] + 1
      BY <1>1, <1>17, <2>1 DEF Attached
    <2>3. QED
      BY <2>1, <2>2, <1>5, <1>8, <1>11, <1>17
  <1>18. ASSUME NEW i \in Coroutines, NEW j \in Coroutines,
                at2[i] # Nowhere, at2[i] = at2[j], dep[i] = dep[j]
         PROVE  i = j
    BY <1>1, <1>7, <1>18 DEF Attached
  <1>19. Attached(at2, dep)'
    BY <1>12, <1>13, <1>14, <1>15, <1>16, <1>17, <1>18 DEF Attached
  <1>20. /\ \A u \in Threads :
              LimitFor(frame_ptr, IF wrapped[u] = <<>> THEN current[u] ELSE NULL, limit[u])
         /\ \A u \in Threads : wrapped[u] # <<>> => LimitFor(frame_ptr, current[u], paused_top[u])
         /\ \A j \in Coroutines : at[j] # Nowhere /\ at[j] # In(j) =>
              LimitFor(frame_ptr, parent[j], saved[j].stack_top)
         /\ \A j \in Coroutines : at[j] = In(j) =>
              LimitFor(frame_ptr, saved[j].current, saved[j].stack_top)
    BY <1>1 DEF Limits, LimitOf, LimitFor
  <1>21. \A x, top2 : x # k /\ LimitFor(frame_ptr, x, top2) /\ x \in Coroutines \cup {NULL}
                      => LimitFor(frame_ptr', x, top2)
    BY <1>8 DEF LimitFor
  <1>22. \A u \in Threads : current[u] # k /\ current[u] \in Coroutines \cup {NULL}
                            /\ NULL # k /\ NULL \in Coroutines \cup {NULL}
    BY <1>3, <1>9
  <1>23. /\ \A u \in Threads :
              LimitFor(frame_ptr', IF wrapped[u] = <<>> THEN current[u] ELSE NULL, limit[u])
         /\ \A u \in Threads : wrapped[u] # <<>> => LimitFor(frame_ptr', current[u], paused_top[u])
    BY <1>20, <1>21, <1>22
  <1>24. ASSUME NEW j \in Coroutines, at2[j] # Nowhere, at2[j] # In(j)
         PROVE  LimitFor(frame_ptr', parent'[j], saved'[j].stack_top)
    <2>1. j # k /\ at[j] # Nowhere /\ at[j] # In(j)
      BY <1>24, <1>7
    <2>2. parent[j] # k /\ parent[j] \in Coroutines \cup {NULL}
      <3>1. dep[j] = 0 => parent[j] = NULL
        <4>1. (\E u \in Threads : at[j] = On(u)) \/ (\E h \in Coroutines : at[j] = In(h))
          BY <2>1 DEF Places
        <4>2. QED
          BY <1>1, <2>1, <4>1 DEF Attached
      <3>2. QED
        BY <3>1, <2>1, <1>3, <1>11, <1>24 DEF Types
    <2>3. QED
      BY <2>1, <2>2, <1>2, <1>8, <1>20, <1>21
  <1>25. ASSUME NEW j \in Coroutines, at2[j] = In(j)
         PROVE  LimitFor(frame_ptr', saved'[j].current, saved'[j].stack_top)
    <2>1. j # k /\ at[j] = In(j)
      BY <1>7, <1>25, PlacesDistinct
    <2>2. saved[j].current # NULL
      BY <1>1, <2>1 DEF Attached
    <2>3. QED
      BY <2>1, <2>2, <1>8, <1>10, <1>20, <1>21
  <1>26. Limits(at2)'
    BY <1>2, <1>23, <1>24, <1>25 DEF Limits, LimitOf, LimitFor
  <1>27. QED
    BY <1>6, <1>19, <1>26 DEF PlacesKept

-----------------------------------------------------------------------------
(* The wrappers, and what the switches leave alone *)

LEMMA ShortSequences ==
    ASSUME NEW S, NEW a \in S, NEW b \in S
    PROVE  /\ Append(<<>>, a) = <<a>> /\ Append(<<a>>, b) = <<a, b>>
           /\ Front(<<a>>) = <<>> /\ Front(<<a, b>>) = <<a>>
           /\ Last(<<a>>) = a /\ Last(<<a, b>>) = b
           /\ Len(<<>>) = 0 /\ Len(<<a>>) = 1 /\ Len(<<a, b>>) = 2
           /\ <<a>> # <<>> /\ <<a, b>> # <<>>
  <1>1. Len(<<>>) = 0 /\ Len(<<a>>) = 1 /\ Len(<<a, b>>) = 2
    OBVIOUS
  <1>2. Append(<<>>, a) = <<a>>
    OBVIOUS
  <1>3. Append(<<a>>, b) = <<a, b>>
    <2>1. <<a>> \in Seq(S) /\ <<a, b>> \in Seq(S) /\ <<a, b>>[1] = a /\ <<a, b>>[2] = b
      OBVIOUS
    <2>2. /\ Append(<<a>>, b) \in Seq(S) /\ Len(Append(<<a>>, b)) = 2
          /\ Append(<<a>>, b)[1] = a /\ Append(<<a>>, b)[2] = b
      BY <2>1
    <2>3. \A i \in 1 .. Len(<<a, b>>) : Append(<<a>>, b)[i] = <<a, b>>[i]
      BY <1>1, <2>1, <2>2
    <2>4. QED
      BY <1>1, <2>1, <2>2, <2>3, SeqEqual
  <1>4. Front(<<a>>) = <<>>
    <2>1. Front(<<a>>) \in Seq(S) /\ Len(Front(<<a>>)) = 0
      BY DEF Front
    <2>2. QED
      BY <2>1
  <1>5. Front(<<a, b>>) = <<a>>
    <2>1. Front(<<a, b>>) \in Seq(S) /\ Len(Front(<<a, b>>)) = 1 /\ Front(<<a, b>>)[1] = a
      BY DEF Front
    <2>3. <<a>> \in Seq(S) /\ Len(<<a>>) = 1 /\ <<a>>[1] = a
      OBVIOUS
    <2>2. QED
      BY <2>1, <2>3
  <1>6. Last(<<a>>) = a
    BY DEF Last
  <1>7. Last(<<a, b>>) = b
    BY DEF Last
  <1>8. <<a>> # <<>>
    BY <1>1
  <1>9. <<a, b>> # <<>>
    BY <1>1
  <1>10. QED
    BY <1>1, <1>2, <1>3, <1>4, <1>5, <1>6, <1>7, <1>8, <1>9

LEMMA StackKept ==
    ASSUME SegmentsOwned, Fits, Begun, UNCHANGED stack
    PROVE  SegmentsOwned' /\ Fits' /\ Begun'
  <1>1. PICK own \in [Segments -> Coroutines \cup {NULL}], pos \in [Segments -> Nat],
             last \in [Coroutines -> Nat] : Owned(own, pos, last)
    BY DEF SegmentsOwned
  <1>2. Owned(own, pos, last)'
    BY <1>1 DEF Owned, stack
  <1>3. SegmentsOwned'
    BY <1>2 DEF SegmentsOwned
  <1>4. QED
    BY <1>3 DEF Fits, Begun, stack

LEMMA SwitchTypes ==
    ASSUME Types, NEW t \in Threads, NEW k \in Coroutines,
           seff_resume(t, k) \/ seff_yield(t, k) \/ seff_exit(t, k)
    PROVE  Types' /\ UNCHANGED stack
  <1>1. /\ limit[t] \in StackTop \cup {NULL} /\ current[t] \in Coroutines \cup {NULL}
        /\ saved[k].stack_top \in StackTop \cup {NULL}
        /\ saved[k].current \in Coroutines \cup {NULL}
        /\ parent[k] \in Coroutines \cup {NULL} /\ main_sp[t] \in 0 .. 1
    BY DEF Types
  <1>2. CASE seff_resume(t, k)
    BY <1>1, <1>2 DEF seff_resume, Types, stack, calls
  <1>3. CASE seff_yield(t, k)
    BY <1>1, <1>3 DEF seff_yield, Types, stack, calls
  <1>4. CASE seff_exit(t, k)
    BY <1>1, <1>4 DEF seff_exit, Types, stack, calls
  <1>5. QED
    BY <1>2, <1>3, <1>4

\* A wrapped call saves the limit in paused_top when it is the first one made
\* on a coroutine, and on returning puts it back.
LEMMA WrapperKept ==
    ASSUME Types, Wrapped, PlacesKept, NEW t \in Threads,
           MAKE_SYSCALL_WRAPPER(t) \/ WrapperReturns(t)
    PROVE  Types' /\ Wrapped' /\ PlacesKept' /\ UNCHANGED <<stack, current, system_stack, main_sp>>
  <1> DEFINE S == {"switched", "direct"}
  <1>s. \A a, b \in S :
           /\ Append(<<>>, a) = <<a>> /\ Append(<<a>>, b) = <<a, b>>
           /\ Front(<<a>>) = <<>> /\ Front(<<a, b>>) = <<a>>
           /\ Last(<<a>>) = a /\ Last(<<a, b>>) = b
           /\ Len(<<>>) = 0 /\ Len(<<a>>) = 1 /\ Len(<<a, b>>) = 2
           /\ <<a>> # <<>> /\ <<a, b>> # <<>>
    BY ShortSequences
  <1>w. PICK w : w = wrapped[t]
    OBVIOUS
  <1>1. PICK at \in [Coroutines -> Places], dep \in [Coroutines -> Nat] :
            Attached(at, dep) /\ Limits(at)
    BY DEF PlacesKept
  <1>2. /\ LimitOf(IF w = <<>> THEN current[t] ELSE NULL, limit[t])
        /\ w # <<>> => LimitOf(current[t], paused_top[t])
        /\ limit[t] \in StackTop \cup {NULL} /\ paused_top[t] \in StackTop \cup {NULL}
    BY <1>1, <1>w DEF Limits, Types
  <1>3. /\ UNCHANGED <<stack, links, current, system_stack, main_sp>>
        /\ \A u \in Threads : u # t => /\ wrapped'[u] = wrapped[u] /\ limit'[u] = limit[u]
                                       /\ paused_top'[u] = paused_top[u]
    BY DEF MAKE_SYSCALL_WRAPPER, WrapperReturns, Types
  <1>4. \/ w = <<>> /\ paused_top[t] = NULL
        \/ w \in {<<"direct">>, <<"direct", "direct">>} /\ current[t] = NULL
        \/ w \in {<<"switched">>, <<"switched", "direct">>} /\ current[t] # NULL
    BY <1>w DEF Wrapped
  <1>5. /\ Types'
        /\ \/ wrapped'[t] = <<>> /\ paused_top'[t] = NULL
           \/ wrapped'[t] \in {<<"direct">>, <<"direct", "direct">>} /\ current[t] = NULL
           \/ wrapped'[t] \in {<<"switched">>, <<"switched", "direct">>} /\ current[t] # NULL
        /\ LimitOf(IF wrapped'[t] = <<>> THEN current[t] ELSE NULL, limit'[t])
        /\ wrapped'[t] # <<>> => LimitOf(current[t], paused_top'[t])
    <2>1. CASE MAKE_SYSCALL_WRAPPER(t) /\ limit[t] = NULL
      <3>1. /\ wrapped' = [wrapped EXCEPT ![t] = Append(@, "direct")]
            /\ wrapped'[t] = Append(w, "direct") /\ Len(w) < 2
            /\ UNCHANGED <<paused_top, limit>>
        BY <2>1, <1>w DEF MAKE_SYSCALL_WRAPPER, Types
      <3>2. w = <<>> => current[t] = NULL
        BY <1>2, <2>1 DEF LimitOf
      <3>3. \/ w = <<>> /\ current[t] = NULL /\ wrapped'[t] = <<"direct">>
            \/ w = <<"direct">> /\ current[t] = NULL /\ wrapped'[t] = <<"direct", "direct">>
            \/ w = <<"switched">> /\ current[t] # NULL /\ wrapped'[t] = <<"switched", "direct">>
        <4>1. w \notin {<<"direct", "direct">>, <<"switched", "direct">>}
          BY <3>1, <1>s
        <4>2. CASE w = <<>>
          BY <4>2, <3>1, <3>2, <1>s
        <4>3. CASE w = <<"direct">> /\ current[t] = NULL
          BY <4>3, <3>1, <1>s
        <4>4. CASE w = <<"switched">> /\ current[t] # NULL
          BY <4>4, <3>1, <1>s
        <4>5. QED
          BY <1>4, <4>1, <4>2, <4>3, <4>4
      <3>4. Types'
        <4>1. wrapped' \in [Threads -> Seq({"switched", "direct"})]
          BY <3>1 DEF Types
        <4>2. QED
          BY <4>1, <3>1, <1>3 DEF Types, stack, links
      <3>5. wrapped'[t] # <<>> /\ (wrapped'[t] # <<"direct">> => w # <<>>)
        BY <3>3, <1>s
      <3>6. LimitOf(NULL, limit[t]) /\ limit'[t] = limit[t] /\ paused_top'[t] = paused_top[t]
        BY <2>1, <3>1 DEF LimitOf
      <3>7. LimitOf(current[t], paused_top[t])
        <4>1. CASE w = <<>>
          BY <4>1, <1>4, <3>2 DEF LimitOf
        <4>2. CASE w # <<>>
          BY <4>2, <1>2
        <4>3. QED
          BY <4>1, <4>2
      <3>8. QED
        BY <3>3, <3>4, <3>5, <3>6, <3>7
    <2>2. CASE MAKE_SYSCALL_WRAPPER(t) /\ limit[t] # NULL
      <3>1. /\ wrapped' = [wrapped EXCEPT ![t] = Append(@, "switched")]
            /\ wrapped'[t] = Append(w, "switched")
            /\ paused_top' = [paused_top EXCEPT ![t] = limit[t]]
            /\ limit' = [limit EXCEPT ![t] = NULL]
            /\ paused_top'[t] = limit[t] /\ limit'[t] = NULL
        BY <2>2, <1>w DEF MAKE_SYSCALL_WRAPPER, Types
      <3>2. w = <<>> /\ current[t] # NULL
        BY <1>2, <2>2 DEF LimitOf
      <3>3. wrapped'[t] = <<"switched">>
        BY <3>1, <3>2, <1>s
      <3>4. Types'
        <4>1. wrapped' \in [Threads -> Seq({"switched", "direct"})]
          BY <3>1 DEF Types
        <4>2. QED
          BY <4>1, <3>1, <1>2, <1>3 DEF Types, stack, links
      <3>5. QED
        BY <3>1, <3>2, <3>3, <3>4, <1>2, <1>s DEF LimitOf
    <2>3. CASE WrapperReturns(t)
      <3>1. /\ w # <<>> /\ wrapped' = [wrapped EXCEPT ![t] = Front(@)]
            /\ wrapped'[t] = Front(w)
            /\ Last(w) = "switched" =>
                  /\ limit' = [limit EXCEPT ![t] = paused_top[t]]
                  /\ paused_top' = [paused_top EXCEPT ![t] = NULL]
                  /\ limit'[t] = paused_top[t] /\ paused_top'[t] = NULL
            /\ Last(w) # "switched" => UNCHANGED <<limit, paused_top>>
        BY <2>3, <1>w DEF WrapperReturns, RestoresLimit, Types
      <3>2. \/ current[t] = NULL /\ Last(w) = "direct" /\ wrapped'[t] \in {<<>>, <<"direct">>}
            \/ current[t] # NULL /\ Last(w) = "switched" /\ wrapped'[t] = <<>>
            \/ current[t] # NULL /\ Last(w) = "direct" /\ wrapped'[t] = <<"switched">>
        BY <1>4, <3>1, <1>s
      <3>3. Types'
        <4>1. Front(w) \in Seq({"switched", "direct"})
          BY <3>1, <1>w DEF Types, Front
        <4>2. wrapped' \in [Threads -> Seq({"switched", "direct"})]
          BY <3>1, <4>1 DEF Types
        <4>3. QED
          BY <4>2, <3>1, <1>2, <1>3 DEF Types, stack, links
      <3>4. LimitOf(current[t], paused_top[t]) /\ limit[t] = NULL
        BY <1>2, <3>1 DEF LimitOf
      <3>5. CASE current[t] = NULL /\ Last(w) = "direct" /\ wrapped'[t] \in {<<>>, <<"direct">>}
        BY <3>1, <3>3, <3>4, <3>5, <1>s DEF LimitOf
      <3>6. CASE current[t] # NULL /\ Last(w) = "switched" /\ wrapped'[t] = <<>>
        BY <3>1, <3>3, <3>4, <3>6
      <3>7. CASE current[t] # NULL /\ Last(w) = "direct" /\ wrapped'[t] = <<"switched">>
        BY <3>1, <3>3, <3>4, <3>7, <1>s DEF LimitOf
      <3>8. QED
        BY <3>2, <3>5, <3>6, <3>7
    <2>4. QED
      BY <2>1, <2>2, <2>3
  <1>6. Wrapped'
    BY <1>3, <1>5 DEF Wrapped
  <1>7. Attached(at, dep)'
    BY <1>1, <1>3 DEF Attached, stack, links
  <1>8. Limits(at)'
    <2>1. /\ \A u \in Threads :
              LimitFor(frame_ptr, IF wrapped[u] = <<>> THEN current[u] ELSE NULL, limit[u])
          /\ \A u \in Threads : wrapped[u] # <<>> => LimitFor(frame_ptr, current[u], paused_top[u])
          /\ \A j \in Coroutines : at[j] # Nowhere /\ at[j] # In(j) =>
              LimitFor(frame_ptr, parent[j], saved[j].stack_top)
          /\ \A j \in Coroutines : at[j] = In(j) =>
              LimitFor(frame_ptr, saved[j].current, saved[j].stack_top)
      BY <1>1 DEF Limits, LimitOf, LimitFor
    <2>2. /\ LimitFor(frame_ptr, IF wrapped'[t] = <<>> THEN current[t] ELSE NULL, limit'[t])
          /\ wrapped'[t] # <<>> => LimitFor(frame_ptr, current[t], paused_top'[t])
      BY <1>5 DEF LimitOf, LimitFor
    <2>3. /\ \A u \in Threads :
              LimitFor(frame_ptr, IF wrapped'[u] = <<>> THEN current[u] ELSE NULL, limit'[u])
          /\ \A u \in Threads :
              wrapped'[u] # <<>> => LimitFor(frame_ptr, current[u], paused_top'[u])
      BY <1>3, <2>1, <2>2
    <2>4. UNCHANGED <<frame_ptr, saved, parent, current>>
      BY <1>3 DEF stack, links
    <2>5. QED
      BY <2>1, <2>3, <2>4 DEF Limits, LimitOf, LimitFor
  <1>9. PlacesKept'
    BY <1>7, <1>8 DEF PlacesKept
  <1>10. QED
    BY <1>3, <1>5, <1>6, <1>9

-----------------------------------------------------------------------------
(* The invariant *)

LEMMA InitInv == ASSUME Init PROVE IInv
  <1>1. Types
    <2>1. <<>> \in Seq(Frame) /\ <<>> \in Seq({"switched", "direct"})
      OBVIOUS
    <2>2. QED
      BY <2>1 DEF Init, Types
  <1>2. Wrapped /\ Fits /\ Begun /\ SystemStackIsFree
    BY DEF Init, Wrapped, Fits, Begun, SystemStackIsFree
  <1>3. SegmentsOwned
    <2> DEFINE own == [s \in Segments |-> NULL]
    <2> DEFINE pos == [s \in Segments |-> 0]
    <2> DEFINE last == [k \in Coroutines |-> 0]
    <2>1. /\ own \in [Segments -> Coroutines \cup {NULL}]
          /\ pos \in [Segments -> Nat] /\ last \in [Coroutines -> Nat]
      OBVIOUS
    <2>2. Owned(own, pos, last)
      BY DEF Init, Owned
    <2>3. QED
      BY <2>1, <2>2 DEF SegmentsOwned
  <1>4. PlacesKept
    <2> DEFINE at == [k \in Coroutines |-> Nowhere]
    <2> DEFINE dep == [k \in Coroutines |-> 0]
    <2>1. at \in [Coroutines -> Places] /\ dep \in [Coroutines -> Nat]
      BY PlacesDistinct
    <2>2. \A k \in Coroutines : at[k] = Nowhere
      OBVIOUS
    <2> HIDE DEF at
    <2>3. \A k \in Coroutines : saved[k].current = NULL
      BY DEF Init
    <2>4. Attached(at, dep)
      BY <2>2, <2>3, PlacesDistinct DEF Init, Attached
    <2>5. Limits(at)
      BY <2>2, PlacesDistinct DEF Init, Limits, LimitOf
    <2>6. QED
      BY <2>1, <2>4, <2>5 DEF PlacesKept
  <1>5. QED
    BY <1>1, <1>2, <1>3, <1>4 DEF IInv

\* A coroutine that runs has a stack, and its limit is that stack's.
LEMMA RunningHasStack ==
    ASSUME Types, PlacesKept, NEW t \in Threads, OnCoroutine(t)
    PROVE  /\ current[t] \in Coroutines /\ frame_ptr[current[t]] # NULL
           /\ limit[t].off \in -15 .. 0
  <1>1. PICK at \in [Coroutines -> Places], dep \in [Coroutines -> Nat] :
            Attached(at, dep) /\ Limits(at)
    BY DEF PlacesKept
  <1>2. current[t] \in Coroutines /\ at[current[t]] # Nowhere
    BY <1>1, PlacesDistinct DEF OnCoroutine, Attached, Types
  <1>3. LimitOf(current[t], limit[t])
    BY <1>1 DEF OnCoroutine, Limits
  <1>4. QED
    BY <1>1, <1>2, <1>3 DEF OnCoroutine, Attached, LimitOf

LEMMA NextInv == ASSUME IInv, Next PROVE IInv'
  <1> USE DEF IInv
  <1>1. ASSUME NEW k \in Coroutines, seff_coroutine_init_sized(k) PROVE IInv'
    <2>1. UNCHANGED <<regs, calls>>
      BY <1>1 DEF seff_coroutine_init_sized
    <2>2. Wrapped' /\ SystemStackIsFree'
      BY <2>1 DEF Wrapped, SystemStackIsFree, regs, calls
    <2>3. QED
      BY <1>1, <2>2, CreatedOwned, CreatedPlaces
  <1>2. ASSUME NEW k \in Coroutines, seff_coroutine_delete(k) PROVE IInv'
    <2>1. UNCHANGED <<regs, calls>>
      BY <1>2 DEF seff_coroutine_delete
    <2>2. Wrapped' /\ SystemStackIsFree'
      BY <2>1 DEF Wrapped, SystemStackIsFree, regs, calls
    <2>3. QED
      BY <1>2, <2>2, DeletedOwned, DeletedPlaces
  <1>3. ASSUME NEW t \in Threads, NEW f \in FrameSizes, NEW p \in ParamSizes, NEW b \in BOOLEAN,
               Call(t, f, p, b)
        PROVE  IInv'
    <2>1. OnCoroutine(t) /\ UNCHANGED <<links, current, system_stack, calls>>
      BY <1>3 DEF Call
    <2>2. Wrapped' /\ SystemStackIsFree'
      BY <2>1 DEF Wrapped, SystemStackIsFree, calls
    <2>3. Types' /\ SegmentsOwned' /\ Fits' /\ Begun' /\ LimitMoves(t, current[t])
      BY <1>3, <2>1, RunningHasStack, CallOwned
    <2>4. PlacesKept'
      BY <2>1, <2>3, MovedPlaces DEF OnCoroutine, links, calls
    <2>5. QED
      BY <2>2, <2>3, <2>4
  <1>4. ASSUME NEW t \in Threads, Return(t) PROVE IInv'
    <2>1. OnCoroutine(t) /\ UNCHANGED <<links, current, system_stack, calls>>
      BY <1>4 DEF Return
    <2>2. Wrapped' /\ SystemStackIsFree'
      BY <2>1 DEF Wrapped, SystemStackIsFree, calls
    <2>3. Types' /\ SegmentsOwned' /\ Fits' /\ Begun' /\ LimitMoves(t, current[t])
      BY <1>4, <2>1, RunningHasStack, ReturnOwned
    <2>4. PlacesKept'
      BY <2>1, <2>3, MovedPlaces DEF OnCoroutine, links, calls
    <2>5. QED
      BY <2>2, <2>3, <2>4
  <1>5. ASSUME NEW t \in Threads, NEW k \in Coroutines,
               seff_resume(t, k) \/ seff_yield(t, k) \/ seff_exit(t, k)
        PROVE  IInv'
    <2>1. Types' /\ SegmentsOwned' /\ Fits' /\ Begun'
      BY <1>5, SwitchTypes, StackKept
    <2>2. PlacesKept'
      BY <1>5, ResumedPlaces, YieldedPlaces, ExitedPlaces
    <2>3. /\ wrapped[t] = <<>> /\ UNCHANGED calls
          /\ \A u \in Threads : u # t => current'[u] = current[u]
      BY <1>5 DEF seff_resume, seff_yield, seff_exit, OnCoroutine, Types
    <2>4. Wrapped'
      BY <2>3 DEF Wrapped, calls
    <2>5. SystemStackIsFree'
      <3>1. CASE seff_resume(t, k)
        BY <3>1 DEF seff_resume, NotesSystemStack, SystemStackIsFree, calls, Types
      <3>2. CASE seff_yield(t, k) \/ seff_exit(t, k)
        BY <3>2 DEF seff_yield, seff_exit, OnCoroutine, SystemStackIsFree, calls, Types
      <3>3. QED
        BY <1>5, <3>1, <3>2
    <2>6. QED
      BY <2>1, <2>2, <2>4, <2>5
  <1>6. ASSUME NEW t \in Threads, MainCall(t) PROVE IInv'
    <2>1. /\ current[t] = NULL /\ UNCHANGED <<stack, links, regs, paused_top, wrapped>>
          /\ main_sp' = [main_sp EXCEPT ![t] = 1 - @]
      BY <1>6 DEF MainCall
    <2>2. Types'
      <3>1. main_sp[t] \in 0 .. 1
        BY DEF Types
      <3>2. 1 - main_sp[t] \in 0 .. 1
        BY <3>1
      <3>3. main_sp' \in [Threads -> 0 .. 1]
        BY <2>1, <3>2 DEF Types
      <3>4. QED
        BY <2>1, <3>3 DEF Types, stack, links, regs
    <2>3. SegmentsOwned' /\ Fits' /\ Begun'
      BY <2>1, StackKept
    <2>4. Wrapped' /\ SystemStackIsFree'
      BY <2>1 DEF Wrapped, SystemStackIsFree, regs, Types
    <2>5. PlacesKept'
      <3>1. PICK at \in [Coroutines -> Places], dep \in [Coroutines -> Nat] :
                Attached(at, dep) /\ Limits(at)
        BY DEF PlacesKept
      <3>2. Attached(at, dep)' /\ Limits(at)'
        BY <2>1, <3>1 DEF Attached, Limits, LimitOf, stack, links, regs
      <3>3. QED
        BY <3>2 DEF PlacesKept
    <2>6. QED
      BY <2>2, <2>3, <2>4, <2>5
  <1>7. ASSUME NEW t \in Threads, MAKE_SYSCALL_WRAPPER(t) \/ WrapperReturns(t) PROVE IInv'
    <2>1. /\ Types' /\ Wrapped' /\ PlacesKept'
          /\ UNCHANGED <<stack, current, system_stack, main_sp>>
      BY <1>7, WrapperKept
    <2>2. SegmentsOwned' /\ Fits' /\ Begun'
      BY <2>1, StackKept
    <2>3. SystemStackIsFree'
      BY <2>1 DEF SystemStackIsFree
    <2>4. QED
      BY <2>1, <2>2, <2>3
  <1>8. QED
    BY <1>1, <1>2, <1>3, <1>4, <1>5, <1>6, <1>7 DEF Next

LEMMA StutterInv == ASSUME IInv, UNCHANGED vars PROVE IInv'
  <1>1. UNCHANGED <<stack, links, regs, calls>>
    BY DEF vars
  <1>2. SegmentsOwned' /\ Fits' /\ Begun'
    BY <1>1, StackKept DEF IInv
  <1>3. Types' /\ Wrapped' /\ SystemStackIsFree'
    BY <1>1 DEF IInv, Types, Wrapped, SystemStackIsFree, stack, links, regs, calls
  <1>4. PICK at \in [Coroutines -> Places], dep \in [Coroutines -> Nat] :
            Attached(at, dep) /\ Limits(at)
    BY DEF IInv, PlacesKept
  <1>5. Attached(at, dep)' /\ Limits(at)'
    BY <1>1, <1>4 DEF Attached, Limits, LimitOf, stack, links, regs, calls
  <1>6. QED
    BY <1>2, <1>3, <1>5 DEF IInv, PlacesKept

\* The places of the segments and of the coroutines are kept by every step:
\* creating, calling, returning, switching, deleting and system calls.
THEOREM InductiveInvariant == Spec => []IInv
  <1>1. Init => IInv
    BY InitInv
  <1>2. IInv /\ [Next]_vars => IInv'
    BY NextInv, StutterInv
  <1>3. QED
    BY <1>1, <1>2, PTL DEF Spec

-----------------------------------------------------------------------------
(* What it says of the properties *)

\* Each segment allocated is on exactly one coroutine's list, the links agree
\* both ways, and a list has as many segments before frame_ptr as the coroutine
\* has calls through __morestack in progress (seff_mem_segmented.c and
\* seff_coroutine_release).
THEOREM SegmentsOwnedOnce == Spec => []OwnedOnce
  <1>1. IInv => OwnedOnce
    <2> SUFFICES ASSUME IInv PROVE OwnedOnce
      OBVIOUS
    <2>1. PICK own \in [Segments -> Coroutines \cup {NULL}], pos \in [Segments -> Nat],
               last \in [Coroutines -> Nat] : Owned(own, pos, last)
      BY DEF IInv, SegmentsOwned
    <2>2. /\ Allocated = {s \in Segments : own[s] # NULL}
          /\ \A s \in Allocated : Before[s] = pos[s]
          /\ \A k \in Coroutines : frame_ptr[k] # NULL =>
                Released(k) = {s \in Segments : own[s] = k}
      BY <2>1, ListsWalked DEF IInv
    <2>3. NULL \notin Coroutines
      BY NullAssumption
    <2>4. Allocated = UNION {Released(k) : k \in Alive}
      <3>1. ASSUME NEW s \in Allocated PROVE s \in UNION {Released(k) : k \in Alive}
        <4>1. own[s] \in Alive /\ s \in Released(own[s])
          BY <2>1, <2>2, <3>1 DEF Owned, Alive
        <4>2. QED
          BY <4>1
      <3>2. ASSUME NEW s \in UNION {Released(k) : k \in Alive} PROVE s \in Allocated
        BY <2>2, <2>3, <3>2 DEF Alive
      <3>3. QED
        BY <3>1, <3>2
    <2>5. \A j, k \in Alive : j # k => Released(j) \cap Released(k) = {}
      BY <2>2 DEF Alive
    <2>6. \A s \in Allocated : heap[s].next # NULL => heap[heap[s].next].prev = s
      BY <2>1, <2>2 DEF Owned
    <2>7. ASSUME NEW k \in Alive
          PROVE  Before[frame_ptr[k]] = Cardinality({i \in DOMAIN frames[k] : frames[k][i].more})
      <3>1. k \in Coroutines /\ frame_ptr[k] # NULL /\ frame_ptr[k] \in Segments
        BY DEF Alive, IInv, Types
      <3>2. own[frame_ptr[k]] = k
        BY <2>1, <3>1 DEF Owned
      <3>3. frame_ptr[k] \in Allocated
        BY <2>2, <2>3, <3>1, <3>2
      <3>4. pos[frame_ptr[k]] = NumMore(frames[k])
        BY <2>1, <3>1 DEF Owned
      <3>5. QED
        BY <2>2, <3>3, <3>4 DEF NumMore
    <2>8. QED
      BY <2>4, <2>5, <2>6, <2>7 DEF OwnedOnce
  <1>2. QED
    BY <1>1, InductiveInvariant, PTL

\* The limit in %fs:0x70 is that of the running coroutine's last segment, or
\* zero on a system stack, and every limit that is saved is the one of the stack
\* it will be put back for (seff_resume, seff_yield, seff_exit, __morestack and
\* the system call wrappers).
THEOREM LimitIsTheStacks == Spec => []LimitMatchesStack
  <1>1. IInv => LimitMatchesStack
    <2> SUFFICES ASSUME IInv PROVE LimitMatchesStack
      OBVIOUS
    <2>1. PICK at \in [Coroutines -> Places], dep \in [Coroutines -> Nat] :
              Attached(at, dep) /\ Limits(at)
      BY DEF IInv, PlacesKept
    <2>2. ASSUME NEW t \in Threads
          PROVE  LimitOf(IF "switched" \in ToSet(wrapped[t]) THEN NULL ELSE current[t], limit[t])
      <3>1. \A a, b : /\ ToSet(<<>>) = {} /\ ToSet(<<a>>) = {a} /\ ToSet(<<a, b>>) = {a, b}
                      /\ <<a>> # <<>> /\ <<a, b>> # <<>>
        BY DEF ToSet
      <3>2. \/ wrapped[t] = <<>> /\ "switched" \notin ToSet(wrapped[t])
            \/ wrapped[t] # <<>> /\ "switched" \notin ToSet(wrapped[t]) /\ current[t] = NULL
            \/ wrapped[t] # <<>> /\ "switched" \in ToSet(wrapped[t])
        BY <3>1 DEF IInv, Wrapped
      <3>3. LimitOf(IF wrapped[t] = <<>> THEN current[t] ELSE NULL, limit[t])
        BY <2>1 DEF Limits
      <3>4. QED
        BY <3>2, <3>3
    <2>3. ASSUME NEW k \in Running PROVE LimitOf(parent[k], saved[k].stack_top)
      <3>1. PICK t \in Threads : k \in Path(current[t], NULL)
        BY DEF Running
      <3>2. k \in Coroutines /\ at[k] = On(t)
        BY <2>1, <3>1, ChainsAre DEF IInv
      <3>3. at[k] # Nowhere /\ at[k] # In(k)
        BY <3>2, PlacesDistinct
      <3>4. QED
        BY <2>1, <3>2, <3>3 DEF Limits
    <2>4. ASSUME NEW k \in Coroutines, saved[k].current # NULL
          PROVE  LimitOf(saved[k].current, saved[k].stack_top)
      <3>1. at[k] = In(k)
        BY <2>1, <2>4 DEF Attached
      <3>2. QED
        BY <2>1, <3>1 DEF Limits
    <2>5. QED
      BY <2>2, <2>3, <2>4 DEF LimitMatchesStack
  <1>2. QED
    BY <1>1, InductiveInvariant, PTL

\* Every frame begins above the padding by at least what __morestack pushes and
\* the red zone, when the red zone leaves the 23 bytes that an alignment and a
\* return address take (the padding of seff_stack_segment_t).
THEOREM FramesFit == ASSUME RedZone =< Padding - 23 PROVE Spec => []RedZoneFits
  <1>1. IInv => RedZoneFits
    <2> SUFFICES ASSUME IInv, NEW k \in Alive, NEW i \in DOMAIN frames[k]
                 PROVE  frames[k][i].sp - Max({16, RedZone}) >= -Padding
      BY DEF RedZoneFits
    <2>1. k \in Coroutines /\ frames[k] \in Seq(Frame)
      BY DEF IInv, Types, Alive
    <2>2. frames[k][i].sp \in Int /\ frames[k][i].sp >= -23
      <3>1. frames[k][i] \in Frame
        BY <2>1
      <3>2. frames[k][i].sp >= -23
        BY <2>1 DEF IInv, Fits
      <3>3. QED
        BY <3>1, <3>2 DEF Frame
    <2>3. RedZone \in Nat
      BY SizesAssumption
    <2>4. Max({16, RedZone}) \in {16, RedZone}
      <3>1. 16 \in Int /\ RedZone \in Int
        BY <2>3
      <3>2. QED
        BY <3>1, MaxOfTwo, Zenon
    <2>5. QED
      BY <2>2, <2>3, <2>4 DEF Padding
  <1>2. QED
    BY <1>1, InductiveInvariant, PTL

\* The stack that __morestack and the wrappers switch to begins where the
\* thread's own code is suspended (_seff_system_stack).
THEOREM SystemStackNoted == Spec => []SystemStackIsFree
  <1>1. IInv => SystemStackIsFree
    BY DEF IInv
  <1>2. QED
    BY <1>1, InductiveInvariant, PTL
=============================================================================
