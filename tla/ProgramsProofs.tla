--------------------------- MODULE ProgramsProofs ---------------------------
(***************************************************************************)
(* What the run of Programs checks of the programs, for every value of the    *)
(* constants.                                                                *)
(***************************************************************************)
EXTENDS Programs, BenchesProofs

-----------------------------------------------------------------------------
(* Each program beside the others *)

\* Each begins as it does alone.
LEMMA EachBegins == Init => http!Init /\ chameneos!Init /\ cooperation!Init /\ looking!Init
  BY DEF Init

\* A step of all is a step of one, and the others stay where they are.
LEMMA EachGoesOn ==
  [Next]_vars => /\ http!Next \/ UNCHANGED http_vars
                 /\ chameneos!Next \/ UNCHANGED chameneos_vars
                 /\ cooperation!Next \/ UNCHANGED cooperation_vars
                 /\ looking!Next \/ UNCHANGED lookups_vars
  BY DEF Next, worker_thread, NotTasks, HttpStep, MeetStep, ThreadStep, AdStep, LookupStep, vars

-----------------------------------------------------------------------------
(* Theorems *)

\* net.c answers -1 only for errors, closing never takes another connection's
\* descriptor with it, and the units of an answer are counted once: for any numbers
\* of listeners and clients, if there is a descriptor for each connection.
THEOREM SocketsCorrect == ASSUME EnoughDescriptors PROVE Spec => []SocketsAreRight
<1>1. Init => SocketsInv
  BY EachBegins, SocketsInit
<1>2. SocketsInv /\ [Next]_vars => SocketsInv'
  BY EachGoesOn, SocketsKept
<1>3. SocketsInv => SocketsAreRight
  BY SocketsRight DEF SocketsAreRight
<1> QED
  BY <1>1, <1>2, <1>3, PTL DEF Spec

\* Also when accept runs out of descriptors, which stops a listener, those given out
\* are apart and the units of an answer are counted once.
THEOREM StreamsCorrect == Spec => [](http!DescriptorsApart /\ http!StreamIntact)
<1>1. Init => SocketsInv
  BY EachBegins, SocketsInit
<1>2. SocketsInv /\ [Next]_vars => SocketsInv'
  BY EachGoesOn, SocketsKept
<1>3. SocketsInv => http!DescriptorsApart /\ http!StreamIntact
  BY SocketsRight
<1> QED
  BY <1>1, <1>2, <1>3, PTL DEF Spec

\* No interleaved search is lost, and each is counted once with the right answer,
\* for every sorted array, key, number of streams and capacity (libseff.c:57).
THEOREM LookupsCorrect == Spec => []LookupsAreRight
<1>1. Init => LookupsInv
  BY EachBegins, LookupsInit
<1>2. LookupsInv /\ [Next]_vars => LookupsInv'
  BY EachGoesOn, LookupsKept
<1>3. LookupsInv => LookupsAreRight
  BY RightThen DEF LookupsAreRight
<1> QED
  BY <1>1, <1>2, <1>3, PTL DEF Spec

\* The hand-over of the mutex in cooperation.c keeps one pair at a time.
LEMMA CooperationHolds == Spec => []CooperationInv
<1>1. Init => CooperationInv
  BY EachBegins, CooperationInit
<1>2. CooperationInv /\ [Next]_vars => CooperationInv'
  BY EachGoesOn, CooperationKept
<1> QED
  BY <1>1, <1>2, PTL DEF Spec

\* Nobody but its holder has the mutex, wherever it was handed to.
THEOREM OneMutex == Spec => []OneToken
  BY CooperationHolds, PTL DEF CooperationInv

\* In all three programs of creatures the meetings are counted twice in all, nobody
\* meets itself and nothing is left in a mailbox; and the threads of c_solution meet
\* mutually: when the first of a pair goes, the one whose colour it took has its.
THEOREM MeetingsCorrect == Spec => []MeetingsArePairs
<1>1. Init => MeetInv
  BY EachBegins, MeetInit
<1>2. MeetInv /\ [Next]_vars => MeetInv'
  BY EachGoesOn, MeetKept
<1>3. MeetInv /\ CooperationInv => MeetingsArePairs
  BY MeetingsRight DEF MeetingsArePairs, CooperationInv
<1> QED
  BY <1>1, <1>2, <1>3, CooperationHolds, PTL DEF Spec
=============================================================================
