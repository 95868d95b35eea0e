----------------------------- MODULE SeffProofs -----------------------------
(***************************************************************************)
(* The invariants of Seff, for any number of threads, coroutines and        *)
(* effects.  Each action is shown to keep TypeOK, then the chains, then the *)
(* position of a search; the properties follow from WellFormed.  Then the    *)
(* sequences of EffectHandlers are read off the chains, and every step of    *)
(* the runtime is shown to be one of its steps.                             *)
(***************************************************************************)
EXTENDS SeffImplements, FiniteSetTheorems, SequenceTheorems, WellFoundedInduction, TLAPS

USE NamesDisjoint

Chains == ChainLinks /\ RootContexts /\ ThreadContexts /\ PlacesDistinct

-----------------------------------------------------------------------------
(* Initial states *)

\* The initial state of the runtime is well typed and has no chains at all.
LEMMA InitialState == Init => TypeOK /\ WellFormed
<1> SUFFICES ASSUME Init PROVE TypeOK /\ WellFormed
  OBVIOUS
<1>1. TypeOK
  BY DEF Init, TypeOK, EffectSets, JunkSet, JunkContext, Places, Idle, NoRequest
<1>2. ChainLinks /\ RootContexts /\ PlacesDistinct
  BY DEF Init, ChainLinks, RootContexts, PlacesDistinct
<1>3. ThreadContexts
  BY DEF Init, ThreadContexts
<1>4. SearchPosition
  BY DEF Init, SearchPosition, Idle
<1> QED
  BY <1>1, <1>2, <1>3, <1>4 DEF WellFormed

-----------------------------------------------------------------------------
(* The context switches keep the chains *)

\* The part of TypeOK the chains are about.
Typed ==
    /\ current_coroutine \in [Threads -> Coroutines \cup {Null}]
    /\ stack_of \in [Threads -> Threads \cup Coroutines]
    /\ DOMAIN state = Coroutines
    /\ parent_coroutine \in [Coroutines -> Coroutines \cup {Null, Junk}]
    /\ resume_point \in [Coroutines ->
            [current_coroutine : Coroutines \cup {Null, Junk},
             stack : Threads \cup Coroutines \cup {Null, Junk}, at : Places]]
    /\ home \in [Coroutines -> Threads \cup Coroutines \cup {Null}]
    /\ depth \in [Coroutines -> Nat]

\* Entering a continuation puts its chain below the resumer's, wherever the
\* resumer runs.
LEMMA ResumeKeepsChains ==
  ASSUME Typed, Chains, NEW t \in Threads, NEW k \in Coroutines,
         NEW h, seff_resume(t, k, h)
  PROVE  Chains'
<1> USE DEF Typed
<1>a. PICK base \in Nat : base = IF current_coroutine[t] = Null THEN 0
                                 ELSE depth[current_coroutine[t]]
  OBVIOUS
<1>b. home[k] = k
  BY DEF seff_resume
<1>c. PICK last \in Coroutines : last = resume_point[k].current_coroutine
  BY <1>b DEF Chains, RootContexts
<1>1. /\ parent_coroutine' = [parent_coroutine EXCEPT ![k] = current_coroutine[t]]
      /\ current_coroutine' = [current_coroutine EXCEPT ![t] = last]
      /\ stack_of' = [stack_of EXCEPT ![t] = last]
      /\ resume_point' = [resume_point EXCEPT
              ![k] = [current_coroutine |-> last, stack |-> stack_of[t], at |-> "resume"]]
      /\ home' = [c \in Coroutines |-> IF home[c] = k THEN t ELSE home[c]]
      /\ depth' = [c \in Coroutines |-> IF home[c] = k THEN depth[c] + base ELSE depth[c]]
      /\ state' = state
  <2>1. resume_point[k].stack = last
    BY <1>b, <1>c DEF Chains, RootContexts
  <2>2. depth' = [c \in Coroutines |-> IF home[c] = k THEN depth[c] + base ELSE depth[c]]
    BY <1>a DEF seff_resume
  <2> QED
    BY <1>c, <2>1, <2>2 DEF seff_resume, ResumerContext, LinkedTo, EnteredAt
<1>2. /\ \A c \in Coroutines : home[c] = t => depth[c] =< base
      /\ current_coroutine[t] = Null => base = 0 /\ stack_of[t] = t
      /\ current_coroutine[t] # Null =>
            /\ stack_of[t] = current_coroutine[t]
            /\ home[current_coroutine[t]] = t
            /\ depth[current_coroutine[t]] = base
  BY <1>a DEF Chains, ThreadContexts
<1>3. /\ depth[k] = 1
      /\ home[last] = k
      /\ \A c \in Coroutines : home[c] = k => depth[c] =< depth[last]
  BY <1>b, <1>c DEF Chains, RootContexts
<1>4. PlacesDistinct'
  <2>1. ASSUME NEW c \in Coroutines, home'[c] # Null
        PROVE  /\ state'[c] = "PAUSED"
               /\ depth'[c] >= 1
               /\ home'[c] \in Coroutines => home'[home'[c]] = home'[c]
    <3>1. home[c] # Null
      BY <1>b, <1>1, <2>1
    <3>2. state'[c] = "PAUSED" /\ depth'[c] >= 1
      BY <1>b, <1>1, <1>2, <3>1 DEF Chains, PlacesDistinct
    <3>3. ASSUME home'[c] \in Coroutines
          PROVE  home'[home'[c]] = home'[c]
      <4>1. home[c] \in Coroutines /\ home[c] # k /\ home'[c] = home[c]
        BY <1>b, <1>1, <3>3
      <4>2. home[home[c]] = home[c]
        BY <3>1, <4>1 DEF Chains, PlacesDistinct
      <4> QED
        BY <1>b, <1>1, <4>1, <4>2
    <3> QED
      BY <3>2, <3>3
  <2>2. ASSUME NEW c \in Coroutines, NEW d \in Coroutines,
               home'[c] # Null, home'[c] = home'[d], depth'[c] = depth'[d]
        PROVE  c = d
    <3>1. /\ home[c] # Null
          /\ home[d] # Null
          /\ depth[c] \in Nat /\ depth[c] >= 1
          /\ depth[d] \in Nat /\ depth[d] >= 1
      BY <1>b, <1>1, <2>2 DEF Chains, PlacesDistinct
    <3>2. depth[c] = depth[d] /\ home[c] = home[d]
      <4>1. CASE home[c] = k /\ home[d] = k
        <5>1. depth[c] + base = depth[d] + base
          BY <1>1, <2>2, <4>1
        <5>2. \A x, y, z \in Nat : x + z = y + z => x = y
          OBVIOUS
        <5> QED
          BY <3>1, <4>1, <5>1, <5>2, Zenon
      <4>2. CASE home[c] # k /\ home[d] # k
        BY <1>b, <1>1, <2>2, <4>2
      <4>3. CASE home[c] = k /\ home[d] # k
        BY <1>b, <1>1, <1>2, <2>2, <3>1, <4>3
      <4>4. CASE home[c] # k /\ home[d] = k
        BY <1>b, <1>1, <1>2, <2>2, <3>1, <4>4
      <4> QED
        BY <4>1, <4>2, <4>3, <4>4
    <3> QED
      BY <3>1, <3>2 DEF Chains, PlacesDistinct
  <2> QED
    BY <2>1, <2>2 DEF PlacesDistinct
<1>5. ThreadContexts'
  <2> SUFFICES ASSUME NEW u \in Threads
               PROVE  ThreadContexts!(u)'
    BY DEF ThreadContexts
  <2>1. CASE u = t
    BY <1>b, <1>1, <1>2, <1>3, <2>1 DEF Chains, ThreadContexts, PlacesDistinct
  <2>2. CASE u # t
    BY <1>b, <1>1, <1>2, <1>3, <2>2 DEF Chains, ThreadContexts
  <2> QED
    BY <2>1, <2>2
<1>6. RootContexts'
  BY <1>b, <1>1 DEF Chains, RootContexts, PlacesDistinct
<1>7. ChainLinks'
  <2> SUFFICES ASSUME NEW c \in Coroutines, home'[c] \notin {c, Null}
               PROVE  ChainLinks!(c)!2'
    BY DEF ChainLinks
  <2> QED
    BY <1>b, <1>1, <1>2, <1>3 DEF Chains, ChainLinks, PlacesDistinct
<1> QED
  BY <1>4, <1>5, <1>6, <1>7 DEF Chains

\* Yielding to a coroutine of the chain cuts the chain there, and the part cut
\* off is a continuation with that coroutine as its root.
LEMMA YieldKeepsChains ==
  ASSUME Typed, Chains, NEW t \in Threads, NEW k \in Coroutines, NEW eff,
         home[k] = t, seff_yield(t, k, eff)
  PROVE  Chains'
<1> USE DEF Typed
<1>a. PICK b \in Nat : b = depth[k]
  OBVIOUS
<1>b. k # t /\ t # Null /\ k # Null /\ b >= 1
  BY <1>a DEF Chains, PlacesDistinct
<1>c. PICK last \in Coroutines : last = current_coroutine[t]
  BY DEF Chains, ThreadContexts
<1>1. /\ current_coroutine' = [current_coroutine EXCEPT ![t] = parent_coroutine[k]]
      /\ stack_of' = [stack_of EXCEPT ![t] = resume_point[k].stack]
      /\ resume_point' = [resume_point EXCEPT
              ![k] = [current_coroutine |-> last, stack |-> last, at |-> "yield"]]
      /\ home' = [c \in Coroutines |->
                    IF home[c] = t /\ depth[c] >= b THEN k ELSE home[c]]
      /\ depth' = [c \in Coroutines |->
                    IF home[c] = t /\ depth[c] >= b THEN depth[c] - b + 1 ELSE depth[c]]
      /\ state' = state
      /\ parent_coroutine' = parent_coroutine
  <2>1. stack_of[t] = last
    BY <1>b, <1>c DEF Chains, ThreadContexts
  <2>2. \A c \in Coroutines : c \in Nested(t, k) <=> home[c] = t /\ depth[c] >= b
    BY <1>a DEF Nested
  <2>3. home' = [c \in Coroutines |->
                    IF home[c] = t /\ depth[c] >= b THEN k ELSE home[c]]
    BY <2>2 DEF seff_yield
  <2>4. depth' = [c \in Coroutines |->
                    IF home[c] = t /\ depth[c] >= b THEN depth[c] - b + 1 ELSE depth[c]]
    BY <1>a, <2>2 DEF seff_yield
  <2> QED
    BY <1>c, <2>1, <2>3, <2>4 DEF seff_yield, SavedContext
<1>2. /\ home[last] = t
      /\ \A c \in Coroutines : home[c] = t => depth[c] =< depth[last]
  BY <1>b, <1>c DEF Chains, ThreadContexts
<1>3. /\ resume_point[k].at = "resume"
      /\ \/ parent_coroutine[k] = Null /\ b = 1 /\ resume_point[k].stack = t
         \/ /\ parent_coroutine[k] \in Coroutines
            /\ home[parent_coroutine[k]] = t
            /\ b = depth[parent_coroutine[k]] + 1
            /\ resume_point[k].stack = parent_coroutine[k]
  BY <1>a, <1>b DEF Chains, ChainLinks
<1>4. \A c \in Coroutines : home[c] # k
  BY <1>b DEF Chains, PlacesDistinct
<1>5. home'[k] = k /\ depth'[k] = 1
  BY <1>a, <1>1
<1>6. PlacesDistinct'
  <2>1. ASSUME NEW c \in Coroutines, home'[c] # Null
        PROVE  /\ state'[c] = "PAUSED"
               /\ depth'[c] >= 1
               /\ home'[c] \in Coroutines => home'[home'[c]] = home'[c]
    <3>1. home[c] # Null
      BY <1>b, <1>1, <2>1
    <3>2. state'[c] = "PAUSED" /\ depth'[c] >= 1
      BY <1>1, <3>1 DEF Chains, PlacesDistinct
    <3>3. ASSUME home'[c] \in Coroutines
          PROVE  home'[home'[c]] = home'[c]
      <4>1. CASE home'[c] = k
        BY <1>5, <4>1
      <4>2. CASE home'[c] # k
        <5>1. home[c] \in Coroutines /\ home'[c] = home[c] /\ home[home[c]] = home[c]
          BY <1>1, <3>1, <3>3, <4>2 DEF Chains, PlacesDistinct
        <5> QED
          BY <1>1, <5>1
      <4> QED
        BY <4>1, <4>2
    <3> QED
      BY <3>2, <3>3
  <2>2. ASSUME NEW c \in Coroutines, NEW d \in Coroutines,
               home'[c] # Null, home'[c] = home'[d], depth'[c] = depth'[d]
        PROVE  c = d
    <3>1. home[c] # Null /\ home[d] # Null
      BY <1>b, <1>1, <2>2
    <3>2. home[c] = home[d] /\ depth[c] = depth[d]
      <4>1. CASE home'[c] = k
        <5>1. /\ home[c] = t /\ home[d] = t
              /\ depth[c] - b + 1 = depth[d] - b + 1
          BY <1>1, <1>4, <2>2, <4>1
        <5>2. depth[c] \in Nat /\ depth[d] \in Nat
          OBVIOUS
        <5>3. \A x, y, z \in Nat : x - z + 1 = y - z + 1 => x = y
          OBVIOUS
        <5> QED
          BY <5>1, <5>2, <5>3, Zenon
      <4>2. CASE home'[c] # k
        BY <1>1, <2>2, <4>2
      <4> QED
        BY <4>1, <4>2
    <3> QED
      BY <3>1, <3>2 DEF Chains, PlacesDistinct
  <2> QED
    BY <2>1, <2>2 DEF PlacesDistinct
<1>7. ThreadContexts'
  <2> SUFFICES ASSUME NEW u \in Threads
               PROVE  ThreadContexts!(u)'
    BY DEF ThreadContexts
  <2>1. CASE u = t
    BY <1>a, <1>b, <1>1, <1>2, <1>3, <2>1 DEF Chains, PlacesDistinct
  <2>2. CASE u # t
    BY <1>1, <2>2 DEF Chains, ThreadContexts
  <2> QED
    BY <2>1, <2>2
<1>8. RootContexts'
  <2> SUFFICES ASSUME NEW r \in Coroutines, home'[r] = r
               PROVE  RootContexts!(r)!2'
    BY DEF RootContexts
  <2>1. CASE r = k
    BY <1>a, <1>1, <1>2, <1>4, <1>5, <2>1
  <2>2. CASE r # k
    BY <1>1, <2>2 DEF Chains, RootContexts
  <2> QED
    BY <2>1, <2>2
<1>9. ChainLinks'
  <2> SUFFICES ASSUME NEW c \in Coroutines, home'[c] \notin {c, Null}
               PROVE  ChainLinks!(c)!2'
    BY DEF ChainLinks
  <2>1. c # k /\ home[c] \notin {c, Null}
    BY <1>1, <1>5
  <2>2. CASE home[c] = t
    BY <1>a, <1>1, <2>1, <2>2 DEF Chains, ChainLinks, PlacesDistinct
  <2>3. CASE home[c] # t
    BY <1>1, <2>1, <2>3 DEF Chains, ChainLinks
  <2> QED
    BY <2>2, <2>3
<1> QED
  BY <1>6, <1>7, <1>8, <1>9 DEF Chains

\* Exiting a coroutine of the chain cuts the chain there and abandons the rest.
LEMMA ExitKeepsChains ==
  ASSUME Typed, Chains, NEW t \in Threads, NEW k \in Coroutines, NEW eff,
         home[k] = t, seff_exit(t, k, eff)
  PROVE  Chains'
<1> USE DEF Typed
<1>a. PICK b \in Nat : b = depth[k]
  OBVIOUS
<1>b. k # t /\ t # Null /\ k # Null /\ b >= 1
  BY <1>a DEF Chains, PlacesDistinct
<1>1. /\ current_coroutine' = [current_coroutine EXCEPT ![t] = parent_coroutine[k]]
      /\ stack_of' = [stack_of EXCEPT ![t] = resume_point[k].stack]
      /\ \A c \in Coroutines \ {k} :
            resume_point'[c] = resume_point[c] /\ state'[c] = state[c]
      /\ home' = [c \in Coroutines |->
                    IF home[c] = t /\ depth[c] >= b THEN Null ELSE home[c]]
      /\ depth' = [c \in Coroutines |->
                    IF home[c] = t /\ depth[c] >= b THEN 0 ELSE depth[c]]
      /\ parent_coroutine' = parent_coroutine
  <2>1. \A c \in Coroutines : c \in Nested(t, k) <=> home[c] = t /\ depth[c] >= b
    BY <1>a DEF Nested
  <2>2. home' = [c \in Coroutines |->
                    IF home[c] = t /\ depth[c] >= b THEN Null ELSE home[c]]
    BY <2>1 DEF seff_exit
  <2>3. depth' = [c \in Coroutines |->
                    IF home[c] = t /\ depth[c] >= b THEN 0 ELSE depth[c]]
    BY <2>1 DEF seff_exit
  <2>4. \A c \in Coroutines \ {k} :
            resume_point'[c] = resume_point[c] /\ state'[c] = state[c]
    BY DEF seff_exit
  <2> QED
    BY <2>2, <2>3, <2>4 DEF seff_exit
<1>2. /\ resume_point[k].at = "resume"
      /\ \/ parent_coroutine[k] = Null /\ b = 1 /\ resume_point[k].stack = t
         \/ /\ parent_coroutine[k] \in Coroutines
            /\ home[parent_coroutine[k]] = t
            /\ b = depth[parent_coroutine[k]] + 1
            /\ resume_point[k].stack = parent_coroutine[k]
  BY <1>a, <1>b DEF Chains, ChainLinks
<1>3. home'[k] = Null
  BY <1>a, <1>1
<1>4. PlacesDistinct'
  <2>1. ASSUME NEW c \in Coroutines, home'[c] # Null
        PROVE  home'[c] = home[c] /\ depth'[c] = depth[c] /\ state'[c] = state[c]
    BY <1>1, <1>3, <2>1
  <2>2. ASSUME NEW c \in Coroutines, home'[c] # Null, home'[c] \in Coroutines
        PROVE  home'[home'[c]] = home'[c]
    <3>1. home[home[c]] = home[c] /\ home[c] \in Coroutines
      BY <2>1, <2>2 DEF Chains, PlacesDistinct
    <3> QED
      BY <1>1, <2>1, <2>2, <3>1
  <2> QED
    BY <2>1, <2>2 DEF Chains, PlacesDistinct
<1>5. ThreadContexts'
  <2> SUFFICES ASSUME NEW u \in Threads
               PROVE  ThreadContexts!(u)'
    BY DEF ThreadContexts
  <2>1. CASE u = t
    BY <1>a, <1>b, <1>1, <1>2, <2>1 DEF Chains, PlacesDistinct
  <2>2. CASE u # t
    BY <1>1, <2>2 DEF Chains, ThreadContexts
  <2> QED
    BY <2>1, <2>2
<1>6. RootContexts'
  <2> SUFFICES ASSUME NEW r \in Coroutines, home'[r] = r
               PROVE  RootContexts!(r)!2'
    BY DEF RootContexts
  <2> QED
    BY <1>1, <1>3 DEF Chains, RootContexts
<1>7. ChainLinks'
  <2> SUFFICES ASSUME NEW c \in Coroutines, home'[c] \notin {c, Null}
               PROVE  ChainLinks!(c)!2'
    BY DEF ChainLinks
  <2>1. c # k /\ home[c] \notin {c, Null}
    BY <1>1, <1>3
  <2> QED
    BY <1>1, <2>1 DEF Chains, ChainLinks
<1> QED
  BY <1>4, <1>5, <1>6, <1>7 DEF Chains

\* A new coroutine is a chain of its own.
LEMMA NewKeepsChains ==
  ASSUME Typed, Chains, NEW t \in Threads, NEW k \in Coroutines,
         seff_coroutine_new(t, k)
  PROVE  Chains'
<1> USE DEF Typed
<1>1. /\ state[k] = "NONE"
      /\ state' = [state EXCEPT ![k] = "PAUSED"]
      /\ parent_coroutine' = [parent_coroutine EXCEPT ![k] = Junk]
      /\ resume_point' = [resume_point EXCEPT
              ![k] = [current_coroutine |-> k, stack |-> k, at |-> "prelude"]]
      /\ home' = [home EXCEPT ![k] = k]
      /\ depth' = [depth EXCEPT ![k] = 1]
      /\ current_coroutine' = current_coroutine
      /\ stack_of' = stack_of
  BY DEF seff_coroutine_new, FreshContext, machine
<1>2. home[k] = Null /\ \A c \in Coroutines : home[c] # k
  BY <1>1 DEF Chains, PlacesDistinct
<1>3. PlacesDistinct'
  BY <1>1, <1>2 DEF Chains, PlacesDistinct
<1>4. ThreadContexts'
  BY <1>1, <1>2 DEF Chains, ThreadContexts
<1>5. RootContexts'
  BY <1>1, <1>2 DEF Chains, RootContexts
<1>6. ChainLinks'
  BY <1>1, <1>2 DEF Chains, ChainLinks
<1> QED
  BY <1>3, <1>4, <1>5, <1>6 DEF Chains

\* Deleting a suspended coroutine removes its whole chain, deleting a dead one
\* touches no chain.
LEMMA DeleteKeepsChains ==
  ASSUME Typed, Chains, NEW t \in Threads, NEW k \in Coroutines,
         seff_coroutine_delete(t, k)
  PROVE  Chains'
<1> USE DEF Typed
<1>1. /\ home[k] \in {k, Null}
      /\ \A c \in Coroutines \ {k} :
            /\ state'[c] = state[c]
            /\ parent_coroutine'[c] = parent_coroutine[c]
            /\ resume_point'[c] = resume_point[c]
      /\ home' = [c \in Coroutines |-> IF home[c] = k THEN Null ELSE home[c]]
      /\ depth' = [c \in Coroutines |-> IF home[c] = k THEN 0 ELSE depth[c]]
      /\ current_coroutine' = current_coroutine
      /\ stack_of' = stack_of
  BY DEF seff_coroutine_delete, machine
<1>2. home'[k] = Null /\ k # Null
  BY <1>1
<1>3. \A c \in Coroutines : home'[c] # Null =>
          c # k /\ home[c] # k /\ home'[c] = home[c] /\ depth'[c] = depth[c]
  BY <1>1, <1>2
<1>4. PlacesDistinct'
  BY <1>1, <1>2, <1>3 DEF Chains, PlacesDistinct
<1>5. ThreadContexts'
  BY <1>1, <1>2, <1>3 DEF Chains, ThreadContexts
<1>6. RootContexts'
  BY <1>1, <1>2, <1>3 DEF Chains, RootContexts
<1>7. ChainLinks'
  BY <1>1, <1>2, <1>3 DEF Chains, ChainLinks
<1> QED
  BY <1>4, <1>5, <1>6, <1>7 DEF Chains

-----------------------------------------------------------------------------
(* Types *)

\* The types the chain lemmas use are part of TypeOK.
LEMMA TypedFromTypeOK == TypeOK => Typed
BY DEF TypeOK, Typed

\* What the chains say of an entered coroutine's way out.
LEMMA WayOut ==
  ASSUME Chains, NEW t \in Threads, NEW k \in Coroutines, home[k] = t
  PROVE  /\ parent_coroutine[k] \in Coroutines \cup {Null}
         /\ resume_point[k].stack \in Threads \cup Coroutines
         /\ current_coroutine[t] # Null
BY DEF Chains, ChainLinks, ThreadContexts

\* A yield to an entered coroutine keeps the types.
LEMMA YieldKeepsTypes ==
  ASSUME TypeOK, Chains, NEW t \in Threads, NEW k \in Coroutines,
         NEW eff \in Effects \cup {Return}, home[k] = t, seff_yield(t, k, eff),
         UNCHANGED <<default_handler, process>>,
         locate' = locate \/ locate' = [locate EXCEPT ![t] = Idle]
  PROVE  TypeOK'
<1>1. /\ parent_coroutine[k] \in Coroutines \cup {Null}
      /\ resume_point[k].stack \in Threads \cup Coroutines
  BY WayOut
<1>2. depth' \in [Coroutines -> Nat]
  <2>1. \A c \in Coroutines : c \in Nested(t, k) => depth[c] - depth[k] + 1 \in Nat
    BY DEF TypeOK, Nested
  <2> QED
    BY <2>1 DEF TypeOK, seff_yield
<1>3. /\ resume_point' \in [Coroutines ->
            [current_coroutine : Coroutines \cup {Null, Junk},
             stack : Threads \cup Coroutines \cup {Null, Junk}, at : Places]]
  BY DEF TypeOK, seff_yield, SavedContext, Places
<1>4. locate' \in [Threads -> [op : {"idle", "perform", "throw"},
                               eff : Effects \cup {Return}, at : Coroutines \cup {Null}]]
  BY SMTT(30) DEF TypeOK, Idle
<1>5. home' \in [Coroutines -> Threads \cup Coroutines \cup {Null}]
  BY DEF TypeOK, seff_yield
<1> QED
  BY <1>1, <1>2, <1>3, <1>4, <1>5 DEF TypeOK, seff_yield

\* So does the exit of an entered coroutine.
LEMMA ExitKeepsTypes ==
  ASSUME TypeOK, Chains, NEW t \in Threads, NEW k \in Coroutines,
         NEW eff \in Effects \cup {Return}, home[k] = t, seff_exit(t, k, eff),
         UNCHANGED <<default_handler, process>>,
         locate' = locate \/ locate' = [locate EXCEPT ![t] = Idle]
  PROVE  TypeOK'
<1>1. /\ parent_coroutine[k] \in Coroutines \cup {Null}
      /\ resume_point[k].stack \in Threads \cup Coroutines
  BY WayOut
<1>2. /\ resume_point' \in [Coroutines ->
            [current_coroutine : Coroutines \cup {Null, Junk},
             stack : Threads \cup Coroutines \cup {Null, Junk}, at : Places]]
  BY DEF TypeOK, seff_exit, ClearedContext, Places
<1>3. locate' \in [Threads -> [op : {"idle", "perform", "throw"},
                               eff : Effects \cup {Return}, at : Coroutines \cup {Null}]]
  BY SMTT(30) DEF TypeOK, Idle
<1>4. home' \in [Coroutines -> Threads \cup Coroutines \cup {Null}]
  BY DEF TypeOK, seff_exit
<1> QED
  BY <1>1, <1>2, <1>3, <1>4 DEF TypeOK, seff_exit

\* So does resuming the root of a continuation.
LEMMA ResumeKeepsTypes ==
  ASSUME TypeOK, Chains, NEW t \in Threads, NEW k \in Coroutines,
         NEW h \in ResumeSets, seff_resume(t, k, h)
  PROVE  TypeOK'
<1>1. home[k] = k
  BY DEF seff_resume
<1>2. /\ resume_point[k].current_coroutine \in Coroutines
      /\ resume_point[k].stack \in Coroutines
  BY <1>1 DEF Chains, RootContexts
<1>3. h \in EffectSets
  BY ClientConstants
<1>4. depth' \in [Coroutines -> Nat]
  BY DEF TypeOK, seff_resume
<1>5. /\ resume_point' \in [Coroutines ->
            [current_coroutine : Coroutines \cup {Null, Junk},
             stack : Threads \cup Coroutines \cup {Null, Junk}, at : Places]]
  BY DEF TypeOK, seff_resume, ResumerContext, Places
<1>6. home' \in [Coroutines -> Threads \cup Coroutines \cup {Null}]
  BY DEF TypeOK, seff_resume
<1> QED
  BY <1>2, <1>3, <1>4, <1>5, <1>6 DEF TypeOK, seff_resume, EnteredAt, LinkedTo, NoRequest

-----------------------------------------------------------------------------
(* The search for a handler *)

\* A search is disturbed by nothing that leaves its thread's chain alone.
LEMMA SearchFrame ==
  ASSUME NEW u \in Threads, SearchPosition, locate'[u] = locate[u],
         locate[u].at \in Coroutines \cup {Null},
         \A c \in Coroutines : home'[c] = u =>
            home[c] = u /\ depth'[c] = depth[c] /\ handled_effects'[c] = handled_effects[c],
         \A c \in Coroutines : home[c] = u => home'[c] = u /\ depth'[c] = depth[c]
  PROVE  SearchPosition!(u)'
BY DEF SearchPosition, seff_find_effect_in

\* A switch of an idle thread keeps every search where it is, and a search that
\* ends in a switch is over.
LEMMA SwitchKeepsSearch ==
  ASSUME TypeOK, SearchPosition, NEW t \in Threads,
         locate'[t].op = "idle",
         \A u \in Threads \ {t} : locate'[u] = locate[u],
         \A u \in Threads \ {t} : \A c \in Coroutines :
            /\ home'[c] = u <=> home[c] = u
            /\ home[c] = u => /\ depth'[c] = depth[c]
                              /\ handled_effects'[c] = handled_effects[c]
  PROVE  SearchPosition'
<1> SUFFICES ASSUME NEW u \in Threads
             PROVE  SearchPosition!(u)'
  BY DEF SearchPosition
<1>1. CASE u = t
  BY <1>1
<1>2. CASE u # t
  BY <1>2, SearchFrame DEF TypeOK
<1> QED
  BY <1>1, <1>2

\* seff_yield and seff_exit keep what TypeOK and WellFormed say.
LEMMA LeavingKeepsInvariant ==
  ASSUME TypeOK, WellFormed, NEW t \in Threads, NEW k \in Coroutines,
         NEW eff \in Effects \cup {Return}, home[k] = t,
         seff_yield(t, k, eff) \/ seff_exit(t, k, eff),
         UNCHANGED <<default_handler, process>>,
         \/ locate' = locate /\ locate[t].op = "idle"
         \/ locate' = [locate EXCEPT ![t] = Idle]
  PROVE  TypeOK' /\ WellFormed'
<1> USE TypedFromTypeOK
<1>1. Chains /\ SearchPosition
  BY DEF WellFormed, Chains
<1>2. TypeOK' /\ Chains'
  BY <1>1, YieldKeepsTypes, ExitKeepsTypes, YieldKeepsChains, ExitKeepsChains
<1>3. locate'[t].op = "idle" /\ \A u \in Threads \ {t} : locate'[u] = locate[u]
  BY DEF TypeOK, Idle
<1>4. ASSUME NEW u \in Threads \ {t}, NEW c \in Coroutines
      PROVE  /\ home'[c] = u <=> home[c] = u
             /\ home[c] = u => /\ depth'[c] = depth[c]
                               /\ handled_effects'[c] = handled_effects[c]
  BY DEF seff_yield, seff_exit, Nested
<1>5. SearchPosition'
  BY <1>1, <1>3, <1>4, SwitchKeepsSearch
<1> QED
  BY <1>2, <1>5 DEF WellFormed, Chains

\* Steps that only move a search, set a default handler or end the process.
LEMMA SearchingKeepsInvariant ==
  ASSUME TypeOK, WellFormed, NEW t \in Threads,
         \/ \E eff \in Effects : seff_perform(t, eff)
         \/ \E eff \in Effects \cup {Return} : seff_throw(t, eff)
         \/ seff_locate_handler(t)
         \/ NoHandler(t)
  PROVE  TypeOK' /\ WellFormed'
<1>1. /\ UNCHANGED <<machine, objects, default_handler, history>>
      /\ \A u \in Threads \ {t} : locate'[u] = locate[u]
  <2>1. \E new : locate' = [locate EXCEPT ![t] = new]
    BY DEF seff_perform, seff_throw, seff_locate_handler, NoHandler
  <2>2. UNCHANGED <<machine, objects, default_handler, history>>
    BY DEF seff_perform, seff_throw, seff_locate_handler, NoHandler
  <2>3. DOMAIN locate = Threads
    BY DEF TypeOK
  <2> QED
    BY <2>1, <2>2, <2>3
<1>2. Chains'
  BY <1>1 DEF WellFormed, Chains, machine, objects, history, ChainLinks, RootContexts,
              ThreadContexts, PlacesDistinct
<1>3. SearchPosition!(t)' /\ TypeOK'
  <2>1. ASSUME NEW eff \in Effects \cup {Return}, seff_perform(t, eff) \/ seff_throw(t, eff)
        PROVE  SearchPosition!(t)' /\ TypeOK'
    <3>a. PICK op \in {"perform", "throw"} :
            locate' = [locate EXCEPT
                ![t] = [op |-> op, eff |-> eff, at |-> current_coroutine[t]]]
      BY <2>1 DEF seff_perform, seff_throw, LocateFrom
    <3>b. /\ request' = [request EXCEPT ![t] = NoRequest]
          /\ UNCHANGED <<machine, objects, default_handler, process, history>>
      BY <2>1 DEF seff_perform, seff_throw
    <3>c. locate' \in [Threads -> [op : {"idle", "perform", "throw"},
                               eff : Effects \cup {Return}, at : Coroutines \cup {Null}]]
      BY <3>a DEF TypeOK
    <3>d. TypeOK'
      BY <3>b, <3>c DEF TypeOK, machine, objects, history, NoRequest
    <3>1. /\ locate'[t].at = current_coroutine[t]
          /\ locate'[t].eff = eff
          /\ TypeOK'
      BY <3>a, <3>d DEF TypeOK
    <3> QED
      BY <1>1, <3>1 DEF WellFormed, ThreadContexts, TypeOK, machine, history
  <2>2. CASE seff_locate_handler(t)
    <3> DEFINE at == locate[t].at
    <3>1. /\ at \in Coroutines
          /\ home[at] = t
          /\ ~seff_find_effect_in(locate[t].eff, handled_effects[at])
          /\ locate' = [locate EXCEPT ![t].at = parent_coroutine[at]]
          /\ UNCHANGED <<request, process>>
      BY <2>2 DEF seff_locate_handler, Locating, Stops, WellFormed, SearchPosition, TypeOK
    <3>2. \/ parent_coroutine[at] = Null /\ depth[at] = 1
          \/ /\ parent_coroutine[at] \in Coroutines
             /\ home[parent_coroutine[at]] = t
             /\ depth[at] = depth[parent_coroutine[at]] + 1
      BY <3>1 DEF WellFormed, ChainLinks
    <3>3. TypeOK'
      BY <1>1, <3>1, <3>2, SMTT(30) DEF TypeOK, machine, objects, history
    <3>4. \A c \in Coroutines : home[c] = t /\ depth[c] >= depth[at]
              => ~seff_find_effect_in(locate[t].eff, handled_effects[c])
      <4>1. \A c \in Coroutines : home[c] = t /\ depth[c] > depth[at]
              => ~seff_find_effect_in(locate[t].eff, handled_effects[c])
        BY <2>2, <3>1 DEF WellFormed, SearchPosition, seff_locate_handler, Locating
      <4>2. \A c \in Coroutines : home[c] = t /\ depth[c] = depth[at] => c = at
        BY <3>1 DEF WellFormed, PlacesDistinct
      <4>3. \A c \in Coroutines : depth[c] \in Nat
        BY DEF TypeOK
      <4> QED
        BY <3>1, <4>1, <4>2, <4>3
    <3>5. /\ locate'[t].eff = locate[t].eff
          /\ locate'[t].at = parent_coroutine[at]
      BY <3>1 DEF TypeOK
    <3>6. home' = home /\ depth' = depth /\ handled_effects' = handled_effects
      BY <1>1 DEF history, objects
    <3>7. \A c \in Coroutines : home[c] = t => depth[c] >= 1 /\ depth[c] \in Nat
      BY DEF WellFormed, PlacesDistinct, TypeOK
    <3>8. SearchPosition!(t)'
      BY <3>2, <3>4, <3>5, <3>6, <3>7 DEF TypeOK, seff_find_effect_in
    <3> QED
      BY <3>3, <3>8
  <2>3. CASE NoHandler(t)
    BY <1>1, <2>3 DEF NoHandler, TypeOK, Idle, machine, objects, history
  <2> QED
    BY <2>1, <2>2, <2>3
<1>4. ASSUME NEW u \in Threads \ {t}
      PROVE  SearchPosition!(u)'
  BY <1>1, SearchFrame DEF WellFormed, TypeOK, history, objects
<1>5. SearchPosition'
  BY <1>3, <1>4 DEF SearchPosition
<1> QED
  BY <1>2, <1>3, <1>5 DEF WellFormed, Chains

\* Creating, deleting and resuming keep the invariant.
LEMMA EnteringKeepsInvariant ==
  ASSUME TypeOK, WellFormed, NEW t \in Threads, NEW k \in Coroutines,
         \/ seff_coroutine_new(t, k)
         \/ seff_coroutine_delete(t, k)
         \/ \E handled \in ResumeSets : seff_resume(t, k, handled)
  PROVE  TypeOK' /\ WellFormed'
<1> USE TypedFromTypeOK
<1>1. Chains /\ SearchPosition
  BY DEF WellFormed, Chains
<1>2. Chains'
  BY <1>1, NewKeepsChains, DeleteKeepsChains, ResumeKeepsChains
<1>3. TypeOK'
  <2>1. CASE seff_coroutine_new(t, k)
    BY <2>1 DEF seff_coroutine_new, FreshContext, TypeOK, machine, Places, EffectSets,
                JunkSet, NoRequest
  <2>2. CASE seff_coroutine_delete(t, k)
    BY <2>2 DEF seff_coroutine_delete, JunkContext, TypeOK, machine, Places, EffectSets,
                JunkSet, NoRequest
  <2> QED
    BY <1>1, <2>1, <2>2, ResumeKeepsTypes
<1>4. locate[t].op = "idle" /\ locate' = locate
  BY DEF seff_coroutine_new, seff_coroutine_delete, seff_resume, InClient
<1>5. ASSUME NEW u \in Threads \ {t}, NEW c \in Coroutines
      PROVE  /\ home'[c] = u <=> home[c] = u
             /\ home[c] = u => /\ depth'[c] = depth[c]
                               /\ handled_effects'[c] = handled_effects[c]
  <2>1. CASE seff_coroutine_new(t, k)
    <3>1. home[k] = Null
      BY <1>1, <2>1 DEF Chains, PlacesDistinct, seff_coroutine_new
    <3> QED
      BY <2>1, <3>1 DEF seff_coroutine_new, TypeOK
  <2>2. CASE seff_coroutine_delete(t, k)
    BY <2>2 DEF seff_coroutine_delete, TypeOK
  <2>3. CASE \E handled \in ResumeSets : seff_resume(t, k, handled)
    BY <2>3 DEF seff_resume, TypeOK
  <2> QED
    BY <2>1, <2>2, <2>3
<1>6. SearchPosition'
  BY <1>1, <1>4, <1>5, SwitchKeepsSearch
<1> QED
  BY <1>2, <1>3, <1>6 DEF WellFormed, Chains

\* A step that changes nothing the invariant speaks of but these three.
LEMMA FrameKeepsInvariant ==
  ASSUME TypeOK, WellFormed,
         UNCHANGED <<machine, objects, locate, history>>,
         request' = request \/ \E t \in Threads : request' = [request EXCEPT ![t] = NoRequest],
         default_handler' \in [Effects -> BOOLEAN],
         process' \in {"running", "exited", "crashed"}
  PROVE  TypeOK' /\ WellFormed'
<1>1. TypeOK'
  BY DEF TypeOK, machine, objects, history, NoRequest
<1>2. WellFormed'
  BY DEF WellFormed, machine, objects, history, ChainLinks, RootContexts, ThreadContexts,
         PlacesDistinct, SearchPosition, seff_find_effect_in
<1> QED
  BY <1>1, <1>2

-----------------------------------------------------------------------------
(* The theorems *)

\* Every step of the runtime keeps the invariant.
LEMMA StepKeepsInvariant == TypeOK /\ WellFormed /\ [Next]_vars => TypeOK' /\ WellFormed'
<1> SUFFICES ASSUME TypeOK, WellFormed, [Next]_vars
             PROVE  TypeOK' /\ WellFormed'
  OBVIOUS
<1>1. CASE UNCHANGED vars
  <2>1. default_handler' \in [Effects -> BOOLEAN] /\ process' \in {"running", "exited", "crashed"}
    BY <1>1 DEF vars, TypeOK
  <2> QED
    BY <1>1, <2>1, FrameKeepsInvariant DEF vars
<1>2. ASSUME NEW t \in Threads, LibraryStep(t)
      PROVE  TypeOK' /\ WellFormed'
  <2>1. CASE HandlerFound(t)
    <3>1. /\ locate[t].at \in Coroutines
          /\ home[locate[t].at] = t
          /\ locate[t].eff \in Effects \cup {Return}
      BY <2>1 DEF HandlerFound, Locating, WellFormed, SearchPosition, TypeOK
    <3> QED
      BY <2>1, <3>1, LeavingKeepsInvariant DEF HandlerFound
  <2> QED
    BY <1>2, <2>1, SearchingKeepsInvariant DEF LibraryStep
<1>3. ASSUME NEW t \in Threads, ClientStep(t)
      PROVE  TypeOK' /\ WellFormed'
  <2>1. ASSUME NEW k \in Coroutines,
               \/ seff_coroutine_new(t, k)
               \/ seff_coroutine_delete(t, k)
               \/ \E handled \in ResumeSets : seff_resume(t, k, handled)
        PROVE  TypeOK' /\ WellFormed'
    BY <2>1, EnteringKeepsInvariant
  <2>2. ASSUME NEW k \in Coroutines, NEW eff \in Effects, YIELD(t, k, eff)
        PROVE  TypeOK' /\ WellFormed'
    <3>1. CASE process' = "crashed" /\ UNCHANGED <<machine, objects, request, history>>
      <4>1. UNCHANGED <<locate, default_handler>> /\ default_handler \in [Effects -> BOOLEAN]
        BY <2>2 DEF YIELD, TypeOK
      <4> QED
        BY <3>1, <4>1, FrameKeepsInvariant
    <3>2. CASE seff_yield(t, k, eff) /\ UNCHANGED process
      BY <2>2, <3>2, LeavingKeepsInvariant DEF YIELD, InClient, Active
    <3> QED
      BY <2>2, <3>1, <3>2 DEF YIELD
  <2>3. ASSUME NEW k \in Coroutines, NEW eff \in Effects, Exit(t, k, eff)
        PROVE  TypeOK' /\ WellFormed'
    BY <2>3, LeavingKeepsInvariant DEF Exit, InClient, Active
  <2>4. ASSUME NEW k \in Coroutines, NEW eff \in YieldIds, Yield(t, k, eff)
        PROVE  TypeOK' /\ WellFormed'
    BY <2>4, ClientConstants, LeavingKeepsInvariant DEF Yield, InClient, Active
  <2>5. CASE coroutine_prelude(t)
    <3>1. stack_of[t] \in Coroutines /\ home[stack_of[t]] = t
      BY <2>5 DEF coroutine_prelude, WellFormed, ThreadContexts
    <3> QED
      BY <2>5, <3>1, LeavingKeepsInvariant DEF coroutine_prelude, InClient
  <2>6. ASSUME NEW eff \in Effects, NEW installed \in BOOLEAN,
               seff_set_default_handler(t, eff, installed)
        PROVE  TypeOK' /\ WellFormed'
    <3>1. /\ default_handler' \in [Effects -> BOOLEAN]
          /\ process' \in {"running", "exited", "crashed"}
      BY <2>6 DEF seff_set_default_handler, TypeOK
    <3> QED
      BY <2>6, <3>1, FrameKeepsInvariant DEF seff_set_default_handler
  <2>7. ASSUME \/ \E eff \in Effects : seff_perform(t, eff)
               \/ \E eff \in Effects \cup {Return} : seff_throw(t, eff)
        PROVE  TypeOK' /\ WellFormed'
    BY <2>7, SearchingKeepsInvariant
  <2> QED
    BY <1>3, <2>1, <2>2, <2>3, <2>4, <2>5, <2>6, <2>7 DEF ClientStep
<1> QED
  BY <1>1, <1>2, <1>3 DEF Next

\* The runtime's state is always well typed.
THEOREM TypeCorrect == Spec => []TypeOK
<1>1. Spec => [](TypeOK /\ WellFormed)
  BY InitialState, StepKeepsInvariant, PTL DEF Spec
<1> QED
  BY <1>1, PTL

\* The pointers of the runtime always spell disjoint chains, through captures
\* of nested coroutines, resumptions on other threads, throws past live
\* coroutines and deletions.
THEOREM ChainsWellFormed == Spec => []WellFormed
<1>1. Spec => [](TypeOK /\ WellFormed)
  BY InitialState, StepKeepsInvariant, PTL DEF Spec
<1> QED
  BY <1>1, PTL

\* _seff_current_coroutine always names the stack a thread runs on.
THEOREM CurrentCorrect == Spec => []CurrentOwnsStack
<1>1. WellFormed => CurrentOwnsStack
  BY DEF WellFormed, ThreadContexts, CurrentOwnsStack
<1> QED
  BY <1>1, ChainsWellFormed, PTL

\* Leaving a coroutine always goes back to the one that resumed it last.
THEOREM LeavingCorrect == Spec => []LeavesToResumer
<1>1. WellFormed => LeavesToResumer
  BY DEF WellFormed, ChainLinks, LeavesToResumer
<1> QED
  BY <1>1, ChainsWellFormed, PTL

\* Continuations are one-shot: no stack can be entered twice.
THEOREM OneShot == Spec => []OneWayIn
<1>1. ASSUME TypeOK, WellFormed
      PROVE  OneWayIn
  <2>1. ASSUME NEW t \in Threads, NEW u \in Threads, t # u
        PROVE  stack_of[t] # stack_of[u]
    BY <1>1, <2>1 DEF WellFormed, ThreadContexts, TypeOK
  <2>2. ASSUME NEW k \in Coroutines, home[k] # Null, NEW t \in Threads
        PROVE  resume_point[k].stack # stack_of[t]
    <3>1. CASE home[k] = k
      BY <1>1, <3>1 DEF WellFormed, RootContexts, ThreadContexts, TypeOK
    <3>2. CASE home[k] # k
      BY <1>1, <2>2, <3>2 DEF WellFormed, ChainLinks, ThreadContexts, TypeOK
    <3> QED
      BY <3>1, <3>2
  <2>3. ASSUME NEW k \in Coroutines, NEW j \in Coroutines, home[k] # Null, home[j] # Null,
               resume_point[j].stack = resume_point[k].stack
        PROVE  j = k
    <3>1. CASE home[k] = k /\ home[j] = j
      BY <1>1, <2>3, <3>1 DEF WellFormed, RootContexts
    <3>2. CASE home[k] = k /\ home[j] # j
      BY <1>1, <2>3, <3>2 DEF WellFormed, RootContexts, ChainLinks, TypeOK
    <3>3. CASE home[k] # k /\ home[j] = j
      BY <1>1, <2>3, <3>3 DEF WellFormed, RootContexts, ChainLinks, TypeOK
    <3>4. CASE home[k] # k /\ home[j] # j
      BY <1>1, <2>3, <3>4 DEF WellFormed, ChainLinks, PlacesDistinct, TypeOK
    <3> QED
      BY <3>1, <3>2, <3>3, <3>4
  <2> QED
    BY <2>1, <2>2, <2>3 DEF OneWayIn
<1> QED
  BY <1>1, TypeCorrect, ChainsWellFormed, PTL

\* What a client may resume is alive and suspended.
THEOREM ResumableCorrect == Spec => []ResumableIsAlive
<1>1. WellFormed => ResumableIsAlive
  BY DEF WellFormed, RootContexts, PlacesDistinct, ResumableIsAlive
<1> QED
  BY <1>1, ChainsWellFormed, PTL

\* The handler found for an effect is always the innermost one.
THEOREM InnermostCorrect == Spec => []InnermostHandler
<1>1. WellFormed => InnermostHandler
  BY DEF WellFormed, SearchPosition, InnermostHandler, Active
<1> QED
  BY <1>1, ChainsWellFormed, PTL

\* The search for a handler ends: each turn of its loop goes outwards.
THEOREM SearchEnds == Spec => []SearchDescends
<1>1. ASSUME TypeOK, WellFormed
      PROVE  SearchDescends
  <2>1. ASSUME NEW t \in Threads, locate[t].op # "idle", locate[t].at # Null,
               parent_coroutine[locate[t].at] # Null
        PROVE  /\ home[parent_coroutine[locate[t].at]] = t
               /\ depth[parent_coroutine[locate[t].at]] < depth[locate[t].at]
    <3> DEFINE at == locate[t].at
               next == parent_coroutine[at]
    <3>1. at \in Coroutines /\ home[at] = t
      BY <1>1, <2>1 DEF TypeOK, WellFormed, SearchPosition
    <3>2. home[at] \notin {at, Null}
      BY <3>1, NamesDisjoint
    <3>3. next \in Coroutines /\ home[next] = home[at] /\ depth[at] = depth[next] + 1
      BY <1>1, <2>1, <3>1, <3>2 DEF WellFormed, ChainLinks
    <3>4. depth[next] \in Nat
      BY <1>1, <3>3 DEF TypeOK
    <3> QED
      BY <3>1, <3>3, <3>4
  <2> QED
    BY <2>1 DEF SearchDescends
<1> QED
  BY <1>1, TypeCorrect, ChainsWellFormed, PTL

-----------------------------------------------------------------------------
(* What the pointers spell *)

\* s is the chain at p, with the coroutines' homes h and depths d.
Spells(h, d, p, s) ==
    /\ s \in Seq(Coroutines)
    /\ \A i \in 1 .. Len(s) : h[s[i]] = p /\ d[s[i]] = i
    /\ \A c \in Coroutines : h[c] = p => d[c] \in 1 .. Len(s) /\ s[d[c]] = c

\* A set of naturals with 0 and each successor has them all.
LEMMA SetInduction ==
    ASSUME NEW S, 0 \in S, \A n \in Nat : n \in S => n + 1 \in S
    PROVE  \A n \in Nat : n \in S
<1> DEFINE R == OpToRel(<, Nat)
<1> DEFINE T == Nat \ S
<1> SUFFICES ASSUME T # {} PROVE FALSE
  OBVIOUS
<1>1. IsWellFoundedOn(R, Nat)
  BY NatLessThanWellFounded
<1>2. T \subseteq Nat
  OBVIOUS
<1> HIDE DEF R, T
<1>3. PICK x \in T : \A y \in T : ~ (<<y, x>> \in R)
  BY <1>1, <1>2, WFMin
<1>4. \A i, j \in Nat : i < j => <<i, j>> \in R
  BY DEF R, OpToRel
<1>5. x # 0 /\ x \in Nat /\ x - 1 \in Nat
  BY <1>2 DEF T
<1>6. x - 1 \notin T
  <2>1. <<x - 1, x>> \in R
    BY <1>4, <1>5
  <2> QED
    BY <2>1, <1>3
<1> QED
  BY <1>5, <1>6 DEF T

\* A place spells one chain only.
LEMMA SpelledOnce ==
  ASSUME NEW h, NEW d, NEW p, NEW r, NEW s, Spells(h, d, p, r), Spells(h, d, p, s)
  PROVE  r = s
<1>1. /\ r \in Seq(Coroutines) /\ Len(r) \in Nat
      /\ s \in Seq(Coroutines) /\ Len(s) \in Nat
  BY DEF Spells
<1>2. ASSUME NEW i \in 1 .. Len(r) PROVE i \in 1 .. Len(s) /\ s[i] = r[i]
  <2>1. r[i] \in Coroutines
    BY <1>1, ElementOfSeq
  <2> QED
    BY <2>1 DEF Spells
<1>3. ASSUME NEW i \in 1 .. Len(s) PROVE i \in 1 .. Len(r)
  <2>1. s[i] \in Coroutines
    BY <1>1, ElementOfSeq
  <2> QED
    BY <2>1 DEF Spells
<1>4. Len(r) = Len(s)
  <2>1. Len(r) > 0 => Len(r) \in 1 .. Len(s)
    BY <1>1, <1>2
  <2>2. Len(s) > 0 => Len(s) \in 1 .. Len(r)
    BY <1>1, <1>3
  <2> QED
    BY <1>1, <2>1, <2>2
<1> QED
  BY <1>1, <1>2, <1>4, SeqEqual

\* From the deepest coroutine at p, each step up meets the one above; D is how
\* many there are.
LEMMA PathSpells ==
  ASSUME TypeOK, NEW p, NEW c \in Coroutines \cup {Null}, NEW k, NEW D \in Nat,
         c = Null => D = 0,
         c # Null => D > 0 /\ home[c] = p /\ depth[c] = D,
         \A x \in Coroutines : home[x] = p => depth[x] \in 1 .. D,
         \A x, y \in Coroutines :
            home[x] = p /\ home[y] = p /\ depth[x] = depth[y] => x = y,
         \A x \in Coroutines : home[x] = p =>
            LET up == IF x \in {Null, Junk, k} THEN Null ELSE parent_coroutine[x]
            IN  IF depth[x] = 1 THEN up = Null
                ELSE up \in Coroutines /\ home[up] = p /\ depth[up] = depth[x] - 1
  PROVE  Spells(home, depth, p, PathUp(c, k))
<1> DEFINE N == Cardinality(Coroutines)
<1> DEFINE At(i) == {x \in Coroutines : home[x] = p /\ depth[x] = i}
<1>1. \A i \in 1 .. D : At(i) # {}
  <2> DEFINE S == {n \in Nat : n < D => At(D - n) # {}}
  <2>1. 0 \in S
    BY DEF TypeOK
  <2>2. ASSUME NEW n \in Nat, n \in S, n + 1 < D PROVE At(D - (n + 1)) # {}
    <3>1. n < D /\ D - n \in Nat /\ D - n # 1 /\ D - n - 1 = D - (n + 1)
      BY <2>2
    <3>2. PICK x \in Coroutines : home[x] = p /\ depth[x] = D - n
      BY <2>2, <3>1
    <3> QED
      BY <3>1, <3>2
  <2>3. \A n \in Nat : n \in S => n + 1 \in S
    BY <2>2
  <2> HIDE DEF S
  <2>4. \A n \in Nat : n \in S
    BY <2>1, <2>3, SetInduction
  <2>5. ASSUME NEW i \in 1 .. D PROVE At(i) # {}
    <3>1. D - i \in Nat /\ D - i < D /\ D - (D - i) = i
      OBVIOUS
    <3>2. D - i \in S
      BY <2>4, <3>1
    <3>3. At(D - (D - i)) # {}
      BY <3>1, <3>2 DEF S
    <3> QED
      BY <3>1, <3>3
  <2> QED
    BY <2>5
<1> DEFINE s == [i \in 1 .. D |-> CHOOSE x \in Coroutines : x \in At(i)]
<1>2. /\ s \in [1 .. D -> Coroutines]
      /\ \A i \in 1 .. D : home[s[i]] = p /\ depth[s[i]] = i
      /\ \A x \in Coroutines : home[x] = p => s[depth[x]] = x
  <2>1. ASSUME NEW i \in 1 .. D
        PROVE  s[i] \in Coroutines /\ home[s[i]] = p /\ depth[s[i]] = i
    <3>1. \E x \in Coroutines : x \in At(i)
      BY <1>1
    <3> QED
      BY <3>1
  <2>2. s \in [1 .. D -> Coroutines]
    BY <2>1
  <2> HIDE DEF s
  <2> QED
    BY <2>1, <2>2
<1> HIDE DEF s, At
<1>3. N \in Nat /\ D =< N
  <2>1. IsFiniteSet(1 .. D) /\ Cardinality(1 .. D) = D
    BY FS_Interval
  <2>2. s \in Injection(1 .. D, Coroutines)
    BY <1>2 DEF Injection, IsInjective
  <2> QED
    BY <2>1, <2>2, AddressesAssumption, FS_Injection, FS_CardinalityType
<1> HIDE DEF N
<1> DEFINE f == [n \in 0 .. N |-> IF n < D THEN s[D - n] ELSE Null]
<1> DEFINE Rec(g) == g = [n \in 0 .. N |->
                            IF n = 0 THEN c
                            ELSE IF g[n - 1] \in {Null, Junk, k} THEN Null
                            ELSE parent_coroutine[g[n - 1]]]
<1>4. Rec(f)
  <2>1. ASSUME NEW n \in 0 .. N
        PROVE  f[n] = IF n = 0 THEN c
                      ELSE IF f[n - 1] \in {Null, Junk, k} THEN Null
                      ELSE parent_coroutine[f[n - 1]]
    <3>1. CASE n = 0 /\ D = 0
      BY <1>3, <3>1
    <3>2. CASE n = 0 /\ D # 0
      BY <1>2, <1>3, <3>2
    <3>3. CASE n # 0 /\ n - 1 >= D
      BY <1>3, <3>3
    <3>4. CASE n # 0 /\ n - 1 < D
      <4>1. /\ n - 1 \in 0 .. N /\ D - (n - 1) \in 1 .. D
            /\ f[n - 1] = s[D - (n - 1)]
        BY <1>3, <3>4
      <4>2. PICK x \in Coroutines : x = s[D - (n - 1)]
        BY <1>2, <4>1
      <4>3. home[x] = p /\ depth[x] = D - (n - 1)
        BY <1>2, <4>1, <4>2
      <4>4. CASE n >= D
        BY <4>1, <4>2, <4>3, <4>4
      <4>5. CASE n < D
        <5>1. depth[x] # 1 /\ depth[x] - 1 = D - n /\ f[n] = s[D - n]
          BY <4>3, <4>5
        <5>2. PICK y \in Coroutines :
                /\ y = IF x \in {Null, Junk, k} THEN Null ELSE parent_coroutine[x]
                /\ home[y] = p /\ depth[y] = D - n
          BY <4>3, <5>1
        <5>3. s[D - n] = y
          BY <1>2, <5>2
        <5> QED
          BY <3>4, <4>1, <4>2, <5>1, <5>2, <5>3
      <4> QED
        BY <4>4, <4>5
    <3> QED
      BY <3>1, <3>2, <3>3, <3>4
  <2> QED
    BY <2>1
<1> DEFINE u == CHOOSE g : Rec(g)
<1>5. Rec(u)
  BY <1>4
<1>6. PathUp(c, k) = LET len == Cardinality({n \in DOMAIN u : u[n] # Null})
                     IN  [i \in 1 .. len |-> u[len - i]]
  BY DEF PathUp, N
<1>7. u = f
  <2> HIDE DEF u
  <2> DEFINE S == {n \in Nat : n =< N => u[n] = f[n]}
  <2>1. 0 \in S
    <3>1. 0 \in 0 .. N
      BY <1>3
    <3>2. u[0] = c /\ f[0] = c
      <4> HIDE DEF f
      <4> QED
        BY <1>4, <1>5, <3>1
    <3> QED
      BY <3>2
  <2>2. ASSUME NEW n \in Nat, n \in S, n + 1 =< N PROVE u[n + 1] = f[n + 1]
    <3>1. n + 1 \in 0 .. N /\ n + 1 # 0 /\ n + 1 - 1 = n /\ n \in 0 .. N
      BY <2>2, <1>3
    <3>2. u[n] = f[n]
      BY <2>2, <3>1
    <3> HIDE DEF f
    <3> QED
      BY <1>4, <1>5, <3>1, <3>2
  <2>3. ASSUME NEW n \in Nat, n \in S PROVE n + 1 \in S
    <3> HIDE DEF f, Rec
    <3> QED
      BY <2>2, <2>3
  <2> HIDE DEF S
  <2>4. \A n \in Nat : n \in S
    BY <2>1, <2>3, SetInduction
  <2>5. ASSUME NEW n \in 0 .. N PROVE u[n] = f[n]
    <3>1. n \in Nat /\ n =< N /\ n \in S
      BY <1>3, <2>4
    <3> HIDE DEF f
    <3> QED
      BY <3>1 DEF S
  <2>6. u = [n \in 0 .. N |-> u[n]] /\ f = [n \in 0 .. N |-> f[n]]
    BY <1>4, <1>5
  <2> QED
    BY <2>5, <2>6
<1> HIDE DEF u
<1>8. {n \in DOMAIN f : f[n] # Null} = 0 .. D - 1
  <2>1. ASSUME NEW n \in 0 .. N PROVE f[n] # Null <=> n < D
    <3>1. CASE n < D
      <4>1. D - n \in 1 .. D /\ f[n] = s[D - n]
        BY <3>1
      <4>2. s[D - n] \in Coroutines
        BY <1>2, <4>1
      <4> QED
        BY <3>1, <4>1, <4>2, NamesDisjoint
    <3> QED
      BY <3>1
  <2>2. DOMAIN f = 0 .. N
    OBVIOUS
  <2>3. \A n \in 0 .. D - 1 : n \in 0 .. N /\ n < D
    BY <1>3
  <2>4. \A n \in 0 .. N : n < D => n \in 0 .. D - 1
    BY <1>3
  <2> HIDE DEF f
  <2> QED
    BY <2>1, <2>2, <2>3, <2>4
<1>9. Cardinality(0 .. D - 1) = D
  BY FS_Interval
<1>10. PathUp(c, k) = [i \in 1 .. D |-> f[D - i]]
  <2> HIDE DEF f
  <2>1. Cardinality({n \in DOMAIN u : u[n] # Null}) = D
    BY <1>7, <1>8, <1>9
  <2> QED
    BY <1>6, <1>7, <2>1
<1>11. \A i \in 1 .. D : D - i \in 0 .. N /\ D - i < D /\ D - (D - i) = i
  BY <1>3
<1>12. PathUp(c, k) = s
  BY <1>2, <1>10, <1>11
<1>13. s \in Seq(Coroutines) /\ Len(s) = D
  BY <1>2, SeqDef, IsASeq
<1> QED
  BY <1>2, <1>12, <1>13 DEF Spells

\* What each place holds is what the pointers spell there.
Spelled(h, d, ch, co) ==
    /\ \A t \in Threads : Spells(h, d, t, ch[t])
    /\ \A k \in Coroutines : Spells(h, d, k, co[k])

\* Following parent_coroutine from the current coroutine spells a thread's chain.
LEMMA ThreadSpells ==
  ASSUME TypeOK, WellFormed, NEW t \in Threads
  PROVE  Spells(home, depth, t, chainOf[t])
<1> DEFINE c == current_coroutine[t]
<1> DEFINE D == IF c = Null THEN 0 ELSE depth[c]
<1>1. /\ c \in Coroutines \cup {Null}
      /\ c # Null => D > 0 /\ home[c] = t /\ depth[c] = D
      /\ D \in Nat
  BY NamesDisjoint DEF TypeOK, WellFormed, ThreadContexts, PlacesDistinct
<1>2. \A x \in Coroutines : home[x] = t => depth[x] \in 1 .. D
  BY NamesDisjoint DEF TypeOK, WellFormed, ThreadContexts, PlacesDistinct
<1>3. \A x, y \in Coroutines :
        home[x] = t /\ home[y] = t /\ depth[x] = depth[y] => x = y
  BY NamesDisjoint DEF WellFormed, PlacesDistinct
<1>4. ASSUME NEW x \in Coroutines, home[x] = t
      PROVE  /\ x \notin {Null, Junk}
             /\ IF depth[x] = 1 THEN parent_coroutine[x] = Null
                ELSE /\ parent_coroutine[x] \in Coroutines
                     /\ home[parent_coroutine[x]] = t
                     /\ depth[parent_coroutine[x]] = depth[x] - 1
  <2>1. home[x] \notin {x, Null} /\ x \notin {Null, Junk}
    BY <1>4, NamesDisjoint
  <2>2. depth[x] \in Nat
    BY DEF TypeOK
  <2>3. CASE parent_coroutine[x] = Null
    BY <1>4, <2>1, <2>3, NamesDisjoint DEF WellFormed, ChainLinks
  <2>4. CASE parent_coroutine[x] # Null
    <3>1. /\ parent_coroutine[x] \in Coroutines
          /\ home[parent_coroutine[x]] = t
          /\ depth[x] = depth[parent_coroutine[x]] + 1
      BY <1>4, <2>1, <2>4 DEF WellFormed, ChainLinks
    <3>2. depth[parent_coroutine[x]] \in Nat /\ depth[parent_coroutine[x]] >= 1
      BY <3>1, NamesDisjoint DEF TypeOK, WellFormed, PlacesDistinct
    <3> QED
      BY <2>1, <2>2, <3>1, <3>2
  <2> QED
    BY <2>3, <2>4
<1> HIDE DEF D, c
<1>5. Spells(home, depth, t, PathUp(c, Null))
  <2>1. c = Null => D = 0
    BY DEF D
  <2> QED
    BY <1>1, <1>2, <1>3, <1>4, <2>1, PathSpells
<1> QED
  BY <1>5 DEF chainOf, c

\* Following it from the innermost coroutine a continuation has saved spells that.
LEMMA ContinuationSpells ==
  ASSUME TypeOK, WellFormed, NEW k \in Coroutines
  PROVE  Spells(home, depth, k, contOf[k])
<1>1. CASE home[k] # k
  <2>1. \A x \in Coroutines : home[x] # k
    BY <1>1, NamesDisjoint DEF WellFormed, PlacesDistinct
  <2> QED
    BY <1>1, <2>1 DEF contOf, Spells
<1>2. CASE home[k] = k
  <2> DEFINE c == resume_point[k].current_coroutine
  <2> DEFINE D == depth[c]
  <2>1. /\ c \in Coroutines /\ home[c] = k /\ D \in Nat /\ D > 0 /\ depth[k] = 1 /\ k # Null
        /\ c # Null
    BY <1>2, NamesDisjoint DEF TypeOK, WellFormed, RootContexts, PlacesDistinct
  <2>2. \A x \in Coroutines : home[x] = k => depth[x] \in 1 .. D
    BY <1>2, <2>1 DEF TypeOK, WellFormed, RootContexts, PlacesDistinct
  <2>3. \A x, y \in Coroutines :
          home[x] = k /\ home[y] = k /\ depth[x] = depth[y] => x = y
    BY <2>1 DEF WellFormed, PlacesDistinct
  <2>4. ASSUME NEW x \in Coroutines, home[x] = k
        PROVE  LET up == IF x \in {Null, Junk, k} THEN Null ELSE parent_coroutine[x]
               IN  IF depth[x] = 1 THEN up = Null
                   ELSE up \in Coroutines /\ home[up] = k /\ depth[up] = depth[x] - 1
    <3>1. CASE x = k
      BY <2>1, <3>1
    <3>2. CASE x # k
      <4>1. /\ depth[x] # 1 /\ depth[x] \in Nat /\ x \notin {Null, Junk}
        BY <1>2, <2>1, <2>3, <2>4, <3>2, NamesDisjoint DEF TypeOK
      <4>2. /\ parent_coroutine[x] \in Coroutines
            /\ home[parent_coroutine[x]] = k
            /\ depth[x] = depth[parent_coroutine[x]] + 1
        BY <2>1, <2>4, <3>2, <4>1 DEF WellFormed, ChainLinks
      <4>3. depth[parent_coroutine[x]] \in Nat
        BY <4>2 DEF TypeOK
      <4> QED
        BY <3>2, <4>1, <4>2, <4>3
    <3> QED
      BY <3>1, <3>2
  <2> HIDE DEF D, c
  <2>5. Spells(home, depth, k, PathUp(c, k))
    <3>1. c \in Coroutines \cup {Null}
      BY <2>1
    <3>2. c # Null => D > 0 /\ home[c] = k /\ depth[c] = D
      BY <2>1 DEF D
    <3> QED
      BY <2>1, <2>2, <2>3, <2>4, <3>1, <3>2, PathSpells
  <2> QED
    BY <1>2, <2>5 DEF contOf, c
<1> QED
  BY <1>1, <1>2

\* The abstract state is what the homes and depths of the coroutines say.
LEMMA PointersSpell == TypeOK /\ WellFormed => Spelled(home, depth, chainOf, contOf)
  BY ThreadSpells, ContinuationSpells DEF Spelled

\* The same of the state after a step.
LEMMA PointersSpellNext ==
  TypeOK' /\ WellFormed' => Spelled(home', depth', chainOf', contOf')
<1>1. (TypeOK /\ WellFormed)' => Spelled(home, depth, chainOf, contOf)'
  BY PointersSpell, PTL
<1> QED
  BY <1>1 DEF Spelled, Spells

-----------------------------------------------------------------------------
(* Joining and cutting chains *)

\* A place whose coroutines keep their homes and depths spells the same.
LEMMA SpellsFrame ==
  ASSUME NEW h, NEW d, NEW hh, NEW dd, NEW p, NEW s, Spells(h, d, p, s),
         \A c \in Coroutines : (hh[c] = p <=> h[c] = p) /\ (h[c] = p => dd[c] = d[c])
  PROVE  Spells(hh, dd, p, s)
<1>1. s \in Seq(Coroutines) /\ Len(s) \in Nat
  BY DEF Spells
<1>2. ASSUME NEW i \in 1 .. Len(s) PROVE hh[s[i]] = p /\ dd[s[i]] = i
  <2>1. s[i] \in Coroutines
    BY <1>1, ElementOfSeq
  <2> QED
    BY <2>1 DEF Spells
<1> QED
  BY <1>1, <1>2 DEF Spells

\* Entering a continuation puts its chain after the resumer's.
LEMMA SpellsJoin ==
  ASSUME NEW h, NEW d, NEW hh, NEW dd, NEW t, NEW k, t # k,
         NEW r, NEW s, Spells(h, d, t, r), Spells(h, d, k, s),
         \A c \in Coroutines :
            /\ hh[c] = IF h[c] = k THEN t ELSE h[c]
            /\ dd[c] = IF h[c] = k THEN d[c] + Len(r) ELSE d[c]
  PROVE  Spells(hh, dd, t, r \o s)
<1>1. /\ r \in Seq(Coroutines) /\ Len(r) \in Nat
      /\ s \in Seq(Coroutines) /\ Len(s) \in Nat
  BY DEF Spells
<1>2. /\ r \o s \in Seq(Coroutines)
      /\ Len(r \o s) = Len(r) + Len(s)
      /\ \A i \in 1 .. Len(r) + Len(s) :
            (r \o s)[i] = IF i =< Len(r) THEN r[i] ELSE s[i - Len(r)]
  BY <1>1, ConcatProperties
<1>3. ASSUME NEW i \in 1 .. Len(r) + Len(s)
      PROVE  hh[(r \o s)[i]] = t /\ dd[(r \o s)[i]] = i
  <2>1. CASE i =< Len(r)
    <3>1. i \in 1 .. Len(r) /\ r[i] \in Coroutines /\ (r \o s)[i] = r[i]
      BY <1>1, <1>2, <2>1, ElementOfSeq
    <3>2. h[r[i]] = t /\ d[r[i]] = i
      BY <3>1 DEF Spells
    <3> QED
      BY <3>1, <3>2
  <2>2. CASE ~(i =< Len(r))
    <3> DEFINE j == i - Len(r)
    <3>1. j \in 1 .. Len(s) /\ j + Len(r) = i /\ (r \o s)[i] = s[j]
      BY <1>1, <1>2, <2>2
    <3>2. s[j] \in Coroutines
      BY <1>1, <3>1, ElementOfSeq
    <3>3. h[s[j]] = k /\ d[s[j]] = j
      BY <3>1 DEF Spells
    <3> HIDE DEF j
    <3> QED
      BY <3>1, <3>2, <3>3
  <2> QED
    BY <2>1, <2>2
<1>4. ASSUME NEW c \in Coroutines, hh[c] = t
      PROVE  dd[c] \in 1 .. Len(r) + Len(s) /\ (r \o s)[dd[c]] = c
  <2>1. CASE h[c] = k
    <3>1. d[c] \in 1 .. Len(s) /\ s[d[c]] = c /\ dd[c] = d[c] + Len(r)
      BY <2>1 DEF Spells
    <3> QED
      BY <1>1, <1>2, <3>1
  <2>2. CASE h[c] # k
    <3>1. h[c] = t /\ dd[c] = d[c]
      BY <1>4, <2>2
    <3>2. d[c] \in 1 .. Len(r) /\ r[d[c]] = c
      BY <3>1 DEF Spells
    <3> QED
      BY <1>1, <1>2, <3>1, <3>2
  <2> QED
    BY <2>1, <2>2
<1> QED
  BY <1>2, <1>3, <1>4 DEF Spells

\* Cutting a chain before its b-th coroutine leaves b - 1 of them.
LEMMA SpellsPrefix ==
  ASSUME NEW h, NEW d, NEW hh, NEW dd, NEW t, NEW r, NEW b \in 1 .. Len(r),
         Spells(h, d, t, r),
         \A c \in Coroutines :
            /\ hh[c] = t <=> h[c] = t /\ d[c] < b
            /\ h[c] = t /\ d[c] < b => dd[c] = d[c]
  PROVE  Spells(hh, dd, t, SubSeq(r, 1, b - 1))
<1> DEFINE s == SubSeq(r, 1, b - 1)
<1>1. r \in Seq(Coroutines) /\ Len(r) \in Nat
  BY DEF Spells
<1>2. /\ s \in Seq(Coroutines) /\ Len(s) = b - 1
      /\ \A i \in 1 .. b - 1 : s[i] = r[i]
  BY <1>1
<1> HIDE DEF s
<1>3. ASSUME NEW i \in 1 .. b - 1 PROVE hh[s[i]] = t /\ dd[s[i]] = i
  <2>1. i \in 1 .. Len(r) /\ i < b
    BY <1>1
  <2>2. r[i] \in Coroutines /\ h[r[i]] = t /\ d[r[i]] = i
    BY <1>1, <2>1, ElementOfSeq DEF Spells
  <2> QED
    BY <1>2, <2>1, <2>2
<1>4. ASSUME NEW c \in Coroutines, hh[c] = t
      PROVE  dd[c] \in 1 .. b - 1 /\ s[dd[c]] = c
  <2>1. h[c] = t /\ d[c] < b /\ dd[c] = d[c]
    BY <1>4
  <2>2. d[c] \in 1 .. Len(r) /\ r[d[c]] = c
    BY <2>1 DEF Spells
  <2> QED
    BY <1>2, <2>1, <2>2
<1>5. Spells(hh, dd, t, s)
  BY <1>2, <1>3, <1>4 DEF Spells
<1> QED
  BY <1>5 DEF s

\* The rest of it, from the b-th coroutine on, moves to a place of its own.
LEMMA SpellsSuffix ==
  ASSUME NEW h, NEW d, NEW hh, NEW dd, NEW t, NEW k, NEW r, NEW b \in 1 .. Len(r),
         Spells(h, d, t, r),
         \A c \in Coroutines :
            /\ hh[c] = k <=> h[c] = t /\ d[c] >= b
            /\ h[c] = t /\ d[c] >= b => dd[c] = d[c] - b + 1
  PROVE  Spells(hh, dd, k, SubSeq(r, b, Len(r)))
<1> DEFINE s == SubSeq(r, b, Len(r))
<1> DEFINE n == Len(r) - b + 1
<1>1. r \in Seq(Coroutines) /\ Len(r) \in Nat /\ n \in Nat
  BY DEF Spells
<1>2. /\ s \in Seq(Coroutines) /\ Len(s) = n
      /\ \A i \in 1 .. n : s[i] = r[b + i - 1]
  BY <1>1
<1> HIDE DEF s
<1>3. ASSUME NEW i \in 1 .. n PROVE hh[s[i]] = k /\ dd[s[i]] = i
  <2>1. b + i - 1 \in 1 .. Len(r) /\ b + i - 1 >= b /\ b + i - 1 - b + 1 = i
    BY <1>1
  <2>2. /\ r[b + i - 1] \in Coroutines
        /\ h[r[b + i - 1]] = t /\ d[r[b + i - 1]] = b + i - 1
    BY <1>1, <2>1, ElementOfSeq DEF Spells
  <2> HIDE DEF n
  <2> QED
    BY <1>2, <2>1, <2>2
<1>4. ASSUME NEW c \in Coroutines, hh[c] = k
      PROVE  dd[c] \in 1 .. n /\ s[dd[c]] = c
  <2>1. h[c] = t /\ d[c] >= b /\ dd[c] = d[c] - b + 1
    BY <1>4
  <2>2. d[c] \in 1 .. Len(r) /\ r[d[c]] = c
    BY <2>1 DEF Spells
  <2>3. dd[c] \in 1 .. n /\ b + dd[c] - 1 = d[c]
    BY <1>1, <2>1, <2>2
  <2> QED
    BY <1>2, <2>2, <2>3
<1>5. Spells(hh, dd, k, s)
  BY <1>2, <1>3, <1>4 DEF Spells
<1> QED
  BY <1>5 DEF s

-----------------------------------------------------------------------------
(* The switches, as the abstract specification has them *)

\* A thread outside a library call waits for no handler; a search for the return
\* id stops where it starts.
Requests ==
    \A t \in Threads :
        /\ locate[t].op = "idle" => locate[t].eff = Return
        /\ locate[t].op # "idle" /\ locate[t].eff = Return =>
            locate[t].at = current_coroutine[t]

\* What the pointers spell after a step is what the abstract state is then.
LEMMA MapsTo ==
  ASSUME TypeOK', WellFormed', NEW ch, NEW co,
         ch = [t \in Threads |-> ch[t]], co = [k \in Coroutines |-> co[k]],
         Spelled(home', depth', ch, co)
  PROVE  chainOf' = ch /\ contOf' = co
<1>1. Spelled(home', depth', chainOf', contOf')
  BY PointersSpellNext
<1>2. \A t \in Threads : chainOf'[t] = ch[t]
  BY <1>1, SpelledOnce DEF Spelled
<1>3. \A k \in Coroutines : contOf'[k] = co[k]
  BY <1>1, SpelledOnce DEF Spelled
<1>4. chainOf' = [t \in Threads |-> chainOf'[t]] /\ contOf' = [k \in Coroutines |-> contOf'[k]]
  BY DEF chainOf, contOf
<1> QED
  BY <1>2, <1>3, <1>4

\* A step that leaves homes and depths alone leaves the abstract chains alone.
LEMMA NothingMoves ==
  ASSUME TypeOK, WellFormed, TypeOK', WellFormed', home' = home, depth' = depth
  PROVE  chainOf' = chainOf /\ contOf' = contOf
<1>1. chainOf = [t \in Threads |-> chainOf[t]] /\ contOf = [k \in Coroutines |-> contOf[k]]
  BY DEF chainOf, contOf
<1> QED
  BY <1>1, PointersSpell, MapsTo

\* The innermost coroutine of a thread is as deep as its chain is long.
LEMMA ChainLength ==
  ASSUME TypeOK, WellFormed, NEW t \in Threads
  PROVE  Len(chainOf[t]) = IF current_coroutine[t] = Null THEN 0
                           ELSE depth[current_coroutine[t]]
<1> DEFINE s == chainOf[t]
<1>1. Spells(home, depth, t, s)
  BY ThreadSpells
<1> HIDE DEF s
<1>2. s \in Seq(Coroutines) /\ Len(s) \in Nat
  BY <1>1 DEF Spells
<1>3. Len(s) > 0 =>
        s[Len(s)] \in Coroutines /\ home[s[Len(s)]] = t /\ depth[s[Len(s)]] = Len(s)
  <2>1. Len(s) > 0 => Len(s) \in 1 .. Len(s)
    BY <1>2
  <2> QED
    BY <1>1, <1>2, <2>1, ElementOfSeq DEF Spells
<1>4. CASE current_coroutine[t] = Null
  <2>1. \A c \in Coroutines : home[c] # t
    BY <1>4 DEF WellFormed, ThreadContexts
  <2> QED
    BY <1>2, <1>3, <1>4, <2>1 DEF s
<1>5. CASE current_coroutine[t] # Null
  <2> DEFINE c == current_coroutine[t]
  <2>1. c \in Coroutines /\ home[c] = t /\ depth[c] \in Nat
    BY <1>5 DEF TypeOK, WellFormed, ThreadContexts
  <2>2. Len(s) > 0 => Len(s) =< depth[c]
    BY <1>3, <1>5 DEF WellFormed, ThreadContexts
  <2>3. depth[c] \in 1 .. Len(s)
    BY <1>1, <2>1 DEF Spells
  <2> QED
    BY <1>2, <1>5, <2>1, <2>2, <2>3 DEF s
<1> QED
  BY <1>4, <1>5

\* seff_resume is the abstract resume: the continuation goes to the end of the chain.
LEMMA ResumeMapped ==
  ASSUME TypeOK, WellFormed, TypeOK', WellFormed', Requests,
         NEW t \in Threads, NEW k \in Coroutines, NEW S, seff_resume(t, k, S)
  PROVE  Abstract!Resume(t, k, {e \in Effects : seff_find_effect_in(e, S)})
<1> DEFINE ch == [chainOf EXCEPT ![t] = @ \o contOf[k]]
<1> DEFINE co == [contOf EXCEPT ![k] = <<>>]
<1>1. /\ home \in [Coroutines -> Threads \cup Coroutines \cup {Null}]
      /\ depth \in [Coroutines -> Nat]
      /\ handled_effects \in [Coroutines -> EffectSets]
      /\ home[k] = k /\ t # k
  BY NamesDisjoint DEF TypeOK, seff_resume
<1>2. /\ chainOf = [u \in Threads |-> chainOf[u]]
      /\ contOf = [j \in Coroutines |-> contOf[j]]
  BY DEF chainOf, contOf
<1>3. /\ \A u \in Threads : Spells(home, depth, u, chainOf[u])
      /\ \A j \in Coroutines : Spells(home, depth, j, contOf[j])
  BY PointersSpell DEF Spelled
<1>4. /\ home' = [c \in Coroutines |-> IF home[c] = k THEN t ELSE home[c]]
      /\ depth' = [c \in Coroutines |->
                      IF home[c] = k THEN depth[c] + Len(chainOf[t]) ELSE depth[c]]
  <2>1. Len(chainOf[t]) = IF current_coroutine[t] = Null THEN 0
                          ELSE depth[current_coroutine[t]]
    BY ChainLength
  <2> QED
    BY <2>1 DEF seff_resume
<1>5. Spells(home', depth', t, chainOf[t] \o contOf[k]) /\ Spells(home', depth', k, <<>>)
  <2> DEFINE r == chainOf[t]
  <2> DEFINE s == contOf[k]
  <2>1. Spells(home, depth, t, r) /\ Spells(home, depth, k, s)
    BY <1>3
  <2>2. \A c \in Coroutines :
          /\ home'[c] = IF home[c] = k THEN t ELSE home[c]
          /\ depth'[c] = IF home[c] = k THEN depth[c] + Len(r) ELSE depth[c]
    BY <1>4
  <2> HIDE DEF r, s
  <2>3. Spells(home', depth', t, r \o s)
    BY <1>1, <2>1, <2>2, SpellsJoin
  <2>4. Spells(home', depth', k, <<>>)
    BY <1>1, <2>2 DEF Spells
  <2> QED
    BY <2>3, <2>4 DEF r, s
<1>6. ASSUME NEW p \in (Threads \cup Coroutines) \ {t, k}, NEW s, Spells(home, depth, p, s)
      PROVE  Spells(home', depth', p, s)
  <2>1. \A c \in Coroutines :
            (home'[c] = p <=> home[c] = p) /\ (home[c] = p => depth'[c] = depth[c])
    BY <1>4, <1>6
  <2> QED
    BY <1>6, <2>1, SpellsFrame
<1>7. Spelled(home', depth', ch, co)
  <2>1. ASSUME NEW u \in Threads PROVE Spells(home', depth', u, ch[u])
    <3>1. CASE u = t
      BY <1>2, <1>5, <3>1
    <3>2. CASE u # t
      <4>1. ch[u] = chainOf[u] /\ u # k
        BY <1>2, <3>2, NamesDisjoint
      <4> QED
        BY <1>3, <1>6, <3>2, <4>1
    <3> QED
      BY <3>1, <3>2
  <2>2. ASSUME NEW j \in Coroutines PROVE Spells(home', depth', j, co[j])
    <3>1. CASE j = k
      BY <1>2, <1>5, <3>1
    <3>2. CASE j # k
      <4>1. co[j] = contOf[j] /\ j # t
        BY <1>2, <3>2, NamesDisjoint
      <4> QED
        BY <1>3, <1>6, <3>2, <4>1
    <3> QED
      BY <3>1, <3>2
  <2> QED
    BY <2>1, <2>2 DEF Spelled
<1>8. ch = [u \in Threads |-> ch[u]] /\ co = [j \in Coroutines |-> co[j]]
  BY <1>2
<1>9. chainOf' = ch /\ contOf' = co
  <2> HIDE DEF ch, co
  <2> QED
    BY <1>7, <1>8, MapsTo
<1>10. contOf[k] # <<>>
  <2>1. depth[k] \in 1 .. Len(contOf[k])
    BY <1>1, <1>3 DEF Spells
  <2> QED
    BY <2>1
<1>11. handledBy' = [handledBy EXCEPT ![k] = {e \in Effects : seff_find_effect_in(e, S)}]
  <2>1. handled_effects' = [handled_effects EXCEPT ![k] = S]
    BY DEF seff_resume
  <2> QED
    BY <1>1, <2>1 DEF handledBy, seff_find_effect_in
<1>12. pendingOf[t] = Abstract!None /\ pendingOf' = pendingOf
  BY DEF seff_resume, InClient, Requests, pendingOf, Abstract!None
<1> QED
  BY <1>9, <1>10, <1>11, <1>12 DEF Abstract!Resume

\* The abstract place of a coroutine of a chain is its depth.
LEMMA PlaceIsDepth ==
  ASSUME TypeOK, WellFormed, NEW t \in Threads, NEW k \in Coroutines, home[k] = t
  PROVE  depth[k] \in 1 .. Len(chainOf[t]) /\ chainOf[t][depth[k]] = k
  BY ThreadSpells DEF Spells

\* seff_yield cuts the chain before the coroutine yielded to, which keeps the rest.
LEMMA YieldMapped ==
  ASSUME TypeOK, WellFormed, TypeOK', WellFormed',
         NEW t \in Threads, NEW k \in Coroutines, NEW eff,
         home[k] = t, seff_yield(t, k, eff)
  PROVE  Abstract!CutAndKeep(t, depth[k]) /\ handledBy' = handledBy
<1> DEFINE b == depth[k]
<1> DEFINE r == chainOf[t]
<1> DEFINE ch == [chainOf EXCEPT ![t] = SubSeq(r, 1, b - 1)]
<1> DEFINE co == [contOf EXCEPT ![k] = SubSeq(r, b, Len(r))]
<1>1. /\ b \in 1 .. Len(r) /\ r[b] = k
      /\ t # k /\ k # Null
  BY PlaceIsDepth, NamesDisjoint
<1>2. /\ chainOf = [u \in Threads |-> chainOf[u]]
      /\ contOf = [j \in Coroutines |-> contOf[j]]
  BY DEF chainOf, contOf
<1>3. /\ \A u \in Threads : Spells(home, depth, u, chainOf[u])
      /\ \A j \in Coroutines : Spells(home, depth, j, contOf[j])
  BY PointersSpell DEF Spelled
<1>4. ASSUME NEW c \in Coroutines
      PROVE  /\ home'[c] = IF home[c] = t /\ depth[c] >= b THEN k ELSE home[c]
             /\ depth'[c] = IF home[c] = t /\ depth[c] >= b THEN depth[c] - b + 1
                            ELSE depth[c]
             /\ depth[c] \in Nat
             /\ home[c] # k
  <2>1. home[c] # k
    BY <1>1 DEF WellFormed, PlacesDistinct
  <2> QED
    BY <2>1 DEF seff_yield, Nested, TypeOK
<1> HIDE DEF b, r
<1>5. Spells(home', depth', t, SubSeq(r, 1, b - 1))
  <2>1. Spells(home, depth, t, r)
    BY <1>3 DEF r
  <2>2. \A c \in Coroutines :
            /\ home'[c] = t <=> home[c] = t /\ depth[c] < b
            /\ home[c] = t /\ depth[c] < b => depth'[c] = depth[c]
    BY <1>1, <1>4
  <2> QED
    BY <1>1, <2>1, <2>2, SpellsPrefix
<1>6. Spells(home', depth', k, SubSeq(r, b, Len(r)))
  <2>1. Spells(home, depth, t, r)
    BY <1>3 DEF r
  <2>2. \A c \in Coroutines :
            /\ home'[c] = k <=> home[c] = t /\ depth[c] >= b
            /\ home[c] = t /\ depth[c] >= b => depth'[c] = depth[c] - b + 1
    BY <1>1, <1>4
  <2> QED
    BY <1>1, <2>1, <2>2, SpellsSuffix
<1>7. ASSUME NEW p \in (Threads \cup Coroutines) \ {t, k}, NEW s, Spells(home, depth, p, s)
      PROVE  Spells(home', depth', p, s)
  <2>1. \A c \in Coroutines :
            (home'[c] = p <=> home[c] = p) /\ (home[c] = p => depth'[c] = depth[c])
    BY <1>4, <1>7
  <2> QED
    BY <1>7, <2>1, SpellsFrame
<1>8. Spelled(home', depth', ch, co)
  <2>1. ASSUME NEW u \in Threads PROVE Spells(home', depth', u, ch[u])
    <3>1. CASE u = t
      BY <1>2, <1>5, <3>1
    <3>2. CASE u # t
      <4>1. ch[u] = chainOf[u] /\ u # k
        BY <1>2, <3>2, NamesDisjoint
      <4> QED
        BY <1>3, <1>7, <3>2, <4>1
    <3> QED
      BY <3>1, <3>2
  <2>2. ASSUME NEW j \in Coroutines PROVE Spells(home', depth', j, co[j])
    <3>1. CASE j = k
      BY <1>2, <1>6, <3>1
    <3>2. CASE j # k
      <4>1. co[j] = contOf[j] /\ j # t
        BY <1>2, <3>2, NamesDisjoint
      <4> QED
        BY <1>3, <1>7, <3>2, <4>1
    <3> QED
      BY <3>1, <3>2
  <2> QED
    BY <2>1, <2>2 DEF Spelled
<1>9. ch = [u \in Threads |-> ch[u]] /\ co = [j \in Coroutines |-> co[j]]
  BY <1>2
<1>10. chainOf' = ch /\ contOf' = co
  <2> HIDE DEF ch, co
  <2> QED
    BY <1>8, <1>9, MapsTo
<1>11. handledBy' = handledBy
  BY DEF seff_yield, handledBy
<1> QED
  BY <1>1, <1>10, <1>11 DEF Abstract!CutAndKeep, b, r

\* seff_exit cuts the chain there and drops the rest.
LEMMA ExitMapped ==
  ASSUME TypeOK, WellFormed, TypeOK', WellFormed',
         NEW t \in Threads, NEW k \in Coroutines, NEW eff,
         home[k] = t, seff_exit(t, k, eff)
  PROVE  Abstract!CutAndDrop(t, depth[k]) /\ handledBy' = handledBy
<1> DEFINE b == depth[k]
<1> DEFINE r == chainOf[t]
<1> DEFINE ch == [chainOf EXCEPT ![t] = SubSeq(r, 1, b - 1)]
<1>1. b \in 1 .. Len(r) /\ r[b] = k /\ t # Null
  BY PlaceIsDepth, NamesDisjoint
<1>2. /\ chainOf = [u \in Threads |-> chainOf[u]]
      /\ contOf = [j \in Coroutines |-> contOf[j]]
  BY DEF chainOf, contOf
<1>3. /\ \A u \in Threads : Spells(home, depth, u, chainOf[u])
      /\ \A j \in Coroutines : Spells(home, depth, j, contOf[j])
  BY PointersSpell DEF Spelled
<1>4. ASSUME NEW c \in Coroutines
      PROVE  /\ home'[c] = IF home[c] = t /\ depth[c] >= b THEN Null ELSE home[c]
             /\ depth'[c] = IF home[c] = t /\ depth[c] >= b THEN 0 ELSE depth[c]
             /\ depth[c] \in Nat
  BY DEF seff_exit, Nested, TypeOK
<1> HIDE DEF b, r
<1>5. Spells(home', depth', t, SubSeq(r, 1, b - 1))
  <2>1. Spells(home, depth, t, r)
    BY <1>3 DEF r
  <2>2. \A c \in Coroutines :
            /\ home'[c] = t <=> home[c] = t /\ depth[c] < b
            /\ home[c] = t /\ depth[c] < b => depth'[c] = depth[c]
    BY <1>1, <1>4
  <2>3. b \in 1 .. Len(r)
    BY <1>1
  <2> QED
    BY <2>1, <2>2, <2>3, SpellsPrefix
<1>6. ASSUME NEW p \in (Threads \cup Coroutines) \ {t}, NEW s, Spells(home, depth, p, s)
      PROVE  Spells(home', depth', p, s)
  <2>1. \A c \in Coroutines :
            (home'[c] = p <=> home[c] = p) /\ (home[c] = p => depth'[c] = depth[c])
    BY <1>4, <1>6, NamesDisjoint
  <2> QED
    BY <1>6, <2>1, SpellsFrame
<1>7. Spelled(home', depth', ch, contOf)
  <2>1. ASSUME NEW u \in Threads PROVE Spells(home', depth', u, ch[u])
    <3>1. CASE u = t
      BY <1>2, <1>5, <3>1
    <3>2. CASE u # t
      BY <1>2, <1>3, <1>6, <3>2
    <3> QED
      BY <3>1, <3>2
  <2>2. ASSUME NEW j \in Coroutines PROVE Spells(home', depth', j, contOf[j])
    <3>1. j \in (Threads \cup Coroutines) \ {t} /\ Spells(home, depth, j, contOf[j])
      BY <1>3, NamesDisjoint
    <3> QED
      BY <1>6, <3>1
  <2> QED
    BY <2>1, <2>2 DEF Spelled
<1>8. ch = [u \in Threads |-> ch[u]]
  BY <1>2
<1>9. chainOf' = ch /\ contOf' = contOf
  <2> HIDE DEF ch
  <2> QED
    BY <1>2, <1>7, <1>8, MapsTo
<1>10. handledBy' = handledBy
  BY DEF seff_exit, handledBy
<1> QED
  BY <1>9, <1>10 DEF Abstract!CutAndDrop, b, r

\* A new coroutine is a continuation of its own.
LEMMA NewMapped ==
  ASSUME TypeOK, WellFormed, TypeOK', WellFormed',
         NEW t \in Threads, NEW k \in Coroutines, seff_coroutine_new(t, k)
  PROVE  Abstract!New(k)
<1> DEFINE co == [contOf EXCEPT ![k] = <<k>>]
<1>1. home[k] = Null /\ k # Null
  BY NamesDisjoint DEF WellFormed, PlacesDistinct, seff_coroutine_new
<1>2. /\ chainOf = [u \in Threads |-> chainOf[u]]
      /\ contOf = [j \in Coroutines |-> contOf[j]]
  BY DEF chainOf, contOf
<1>3. /\ \A u \in Threads : Spells(home, depth, u, chainOf[u])
      /\ \A j \in Coroutines : Spells(home, depth, j, contOf[j])
  BY PointersSpell DEF Spelled
<1>4. ASSUME NEW c \in Coroutines
      PROVE  /\ home'[c] = IF c = k THEN k ELSE home[c]
             /\ depth'[c] = IF c = k THEN 1 ELSE depth[c]
  BY DEF seff_coroutine_new, TypeOK
<1>5. \A c \in Coroutines : home[c] # k
  BY <1>1 DEF WellFormed, PlacesDistinct
<1>6. Spells(home', depth', k, <<k>>)
  <2>1. <<k>> \in Seq(Coroutines) /\ Len(<<k>>) = 1 /\ <<k>>[1] = k
    OBVIOUS
  <2>2. \A i \in 1 .. 1 : i = 1
    OBVIOUS
  <2>3. \A c \in Coroutines : home'[c] = k => c = k
    BY <1>4, <1>5
  <2> QED
    BY <1>4, <2>1, <2>2, <2>3 DEF Spells
<1>7. ASSUME NEW p \in (Threads \cup Coroutines) \ {k}, NEW s, Spells(home, depth, p, s)
      PROVE  Spells(home', depth', p, s)
  <2>1. \A c \in Coroutines :
            (home'[c] = p <=> home[c] = p) /\ (home[c] = p => depth'[c] = depth[c])
    BY <1>1, <1>4, <1>7, NamesDisjoint
  <2> QED
    BY <1>7, <2>1, SpellsFrame
<1>8. Spelled(home', depth', chainOf, co)
  <2>1. ASSUME NEW u \in Threads PROVE Spells(home', depth', u, chainOf[u])
    <3>1. u \in (Threads \cup Coroutines) \ {k} /\ Spells(home, depth, u, chainOf[u])
      BY <1>3, NamesDisjoint
    <3> QED
      BY <1>7, <3>1
  <2>2. ASSUME NEW j \in Coroutines PROVE Spells(home', depth', j, co[j])
    <3>1. CASE j = k
      BY <1>2, <1>6, <3>1
    <3>2. CASE j # k
      BY <1>2, <1>3, <1>7, <3>2
    <3> QED
      BY <3>1, <3>2
  <2> QED
    BY <2>1, <2>2 DEF Spelled
<1>9. co = [j \in Coroutines |-> co[j]]
  BY <1>2
<1>10. chainOf' = chainOf /\ contOf' = co
  <2> HIDE DEF co
  <2> QED
    BY <1>2, <1>8, <1>9, MapsTo
<1>11. handledBy' = [handledBy EXCEPT ![k] = {}] /\ pendingOf' = pendingOf
  <2>1. /\ handled_effects' = [handled_effects EXCEPT ![k] = JunkSet]
        /\ DOMAIN handled_effects = Coroutines
        /\ locate' = locate
    BY DEF seff_coroutine_new, TypeOK
  <2>2. {e \in Effects : seff_find_effect_in(e, JunkSet)} = {}
    BY DEF seff_find_effect_in, JunkSet
  <2>3. handledBy' = [handledBy EXCEPT ![k] = {e \in Effects : seff_find_effect_in(e, JunkSet)}]
    BY <2>1 DEF handledBy
  <2> QED
    BY <2>1, <2>2, <2>3 DEF pendingOf
<1>12. k \notin Abstract!InUse
  <2>1. ASSUME NEW p \in Threads \cup Coroutines, NEW s, Spells(home, depth, p, s),
               NEW i \in 1 .. Len(s)
        PROVE  s[i] # k
    BY <1>1, <2>1, NamesDisjoint DEF Spells
  <2> QED
    BY <1>3, <2>1 DEF Abstract!InUse
<1> QED
  BY <1>10, <1>11, <1>12 DEF Abstract!New

\* Deleting a coroutine drops what it keeps.
LEMMA DeleteMapped ==
  ASSUME TypeOK, WellFormed, TypeOK', WellFormed',
         NEW t \in Threads, NEW k \in Coroutines, seff_coroutine_delete(t, k)
  PROVE  Abstract!Delete(k)
<1> DEFINE co == [contOf EXCEPT ![k] = <<>>]
<1>1. home[k] \in {k, Null} /\ k # Null
  BY NamesDisjoint DEF seff_coroutine_delete
<1>2. /\ chainOf = [u \in Threads |-> chainOf[u]]
      /\ contOf = [j \in Coroutines |-> contOf[j]]
  BY DEF chainOf, contOf
<1>3. /\ \A u \in Threads : Spells(home, depth, u, chainOf[u])
      /\ \A j \in Coroutines : Spells(home, depth, j, contOf[j])
  BY PointersSpell DEF Spelled
<1>4. ASSUME NEW c \in Coroutines
      PROVE  /\ home'[c] = IF home[c] = k THEN Null ELSE home[c]
             /\ depth'[c] = IF home[c] = k THEN 0 ELSE depth[c]
  BY DEF seff_coroutine_delete
<1>5. Spells(home', depth', k, <<>>)
  <2>1. \A c \in Coroutines : home'[c] # k
    BY <1>1, <1>4
  <2> QED
    BY <2>1 DEF Spells
<1>6. ASSUME NEW p \in (Threads \cup Coroutines) \ {k}, NEW s, Spells(home, depth, p, s)
      PROVE  Spells(home', depth', p, s)
  <2>1. \A c \in Coroutines :
            (home'[c] = p <=> home[c] = p) /\ (home[c] = p => depth'[c] = depth[c])
    BY <1>4, <1>6, NamesDisjoint
  <2> QED
    BY <1>6, <2>1, SpellsFrame
<1>7. Spelled(home', depth', chainOf, co)
  <2>1. ASSUME NEW u \in Threads PROVE Spells(home', depth', u, chainOf[u])
    <3>1. u \in (Threads \cup Coroutines) \ {k} /\ Spells(home, depth, u, chainOf[u])
      BY <1>3, NamesDisjoint
    <3> QED
      BY <1>6, <3>1
  <2>2. ASSUME NEW j \in Coroutines PROVE Spells(home', depth', j, co[j])
    <3>1. CASE j = k
      BY <1>2, <1>5, <3>1
    <3>2. CASE j # k
      BY <1>2, <1>3, <1>6, <3>2
    <3> QED
      BY <3>1, <3>2
  <2> QED
    BY <2>1, <2>2 DEF Spelled
<1>8. co = [j \in Coroutines |-> co[j]]
  BY <1>2
<1>9. chainOf' = chainOf /\ contOf' = co
  <2> HIDE DEF co
  <2> QED
    BY <1>2, <1>7, <1>8, MapsTo
<1>10. handledBy' = [handledBy EXCEPT ![k] = {}] /\ pendingOf' = pendingOf
  <2>1. /\ handled_effects' = [handled_effects EXCEPT ![k] = JunkSet]
        /\ DOMAIN handled_effects = Coroutines
        /\ locate' = locate
    BY DEF seff_coroutine_delete, TypeOK
  <2>2. {e \in Effects : seff_find_effect_in(e, JunkSet)} = {}
    BY DEF seff_find_effect_in, JunkSet
  <2>3. handledBy' = [handledBy EXCEPT ![k] = {e \in Effects : seff_find_effect_in(e, JunkSet)}]
    BY <2>1 DEF handledBy
  <2> QED
    BY <2>1, <2>2, <2>3 DEF pendingOf
<1>11. k \notin Abstract!InUse \/ contOf[k] # <<>>
  <2>1. CASE home[k] = Null
    <3>1. ASSUME NEW p \in Threads \cup Coroutines, NEW s, Spells(home, depth, p, s),
                 NEW i \in 1 .. Len(s)
          PROVE  s[i] # k
      BY <2>1, <3>1, NamesDisjoint DEF Spells
    <3> QED
      BY <1>3, <3>1 DEF Abstract!InUse
  <2>2. CASE home[k] = k
    <3>1. depth[k] \in 1 .. Len(contOf[k])
      BY <1>3, <2>2 DEF Spells
    <3> QED
      BY <3>1
  <2> QED
    BY <1>1, <2>1, <2>2
<1> QED
  BY <1>9, <1>10, <1>11 DEF Abstract!Delete

\* The handler a search has found is the innermost one of the abstract chain.
LEMMA HandlerMapped ==
  ASSUME TypeOK, WellFormed, TypeOK', WellFormed', Requests,
         NEW t \in Threads, HandlerFound(t)
  PROVE  \E i \in 1 .. Len(chainOf[t]) : Abstract!Handle(t, i)
<1> DEFINE k == locate[t].at
<1>1. /\ k \in Coroutines /\ home[k] = t
      /\ locate[t].op \in {"perform", "throw"}
      /\ locate[t].eff \in Effects \cup {Return}
  BY DEF HandlerFound, Locating, TypeOK, WellFormed, SearchPosition
<1>2. depth[k] \in 1 .. Len(chainOf[t]) /\ chainOf[t][depth[k]] = k
  BY <1>1, PlaceIsDepth
<1>3. /\ handledBy' = handledBy
      /\ IF locate[t].op = "perform" THEN Abstract!CutAndKeep(t, depth[k])
         ELSE Abstract!CutAndDrop(t, depth[k])
  BY <1>1, YieldMapped, ExitMapped DEF HandlerFound
<1>4. pendingOf[t] = [op |-> locate[t].op, eff |-> locate[t].eff] /\ pendingOf[t] # Abstract!None
  BY <1>1 DEF pendingOf, Abstract!None
<1>5. pendingOf' = [pendingOf EXCEPT ![t] = Abstract!None]
  BY DEF HandlerFound, pendingOf, Idle, Abstract!None, TypeOK
<1>6. Abstract!Handles(k, locate[t].eff)
  BY <1>1 DEF HandlerFound, Stops, Abstract!Handles, handledBy
<1>7. ASSUME NEW j \in depth[k] + 1 .. Len(chainOf[t])
      PROVE  ~Abstract!Handles(chainOf[t][j], locate[t].eff)
  <2> DEFINE c == chainOf[t][j]
  <2>1. Spells(home, depth, t, chainOf[t]) /\ depth[k] \in Nat /\ Len(chainOf[t]) \in Nat
    <3>1. Spells(home, depth, t, chainOf[t])
      BY ThreadSpells
    <3>2. Len(chainOf[t]) \in Nat
      BY <3>1 DEF Spells
    <3> QED
      BY <1>1, <3>1, <3>2 DEF TypeOK
  <2>2. j \in 1 .. Len(chainOf[t])
    BY <1>2, <2>1
  <2>3. c \in Coroutines
    BY <2>1, <2>2, ElementOfSeq DEF Spells
  <2>4. home[c] = t /\ depth[c] = j /\ depth[c] > depth[k]
    BY <2>1, <2>2 DEF Spells
  <2> HIDE DEF c
  <2>5. ~seff_find_effect_in(locate[t].eff, handled_effects[c])
    BY <1>1, <2>3, <2>4 DEF WellFormed, SearchPosition
  <2>6. locate[t].eff # Return
    <3>1. ASSUME locate[t].eff = Return PROVE k = current_coroutine[t]
      BY <1>1, <3>1 DEF Requests
    <3>2. k = current_coroutine[t] => depth[c] =< depth[k]
      BY <1>1, <2>3, <2>4, NamesDisjoint DEF WellFormed, ThreadContexts
    <3>3. depth[c] \in Nat
      BY <2>3 DEF TypeOK
    <3> QED
      BY <2>1, <2>4, <3>1, <3>2, <3>3
  <2> QED
    BY <2>3, <2>5, <2>6 DEF Abstract!Handles, handledBy, c
<1> HIDE DEF k
<1>8. Abstract!Handle(t, depth[k])
  BY <1>2, <1>3, <1>4, <1>5, <1>6, <1>7 DEF Abstract!Handle
<1> QED
  BY <1>2, <1>8

\* A search that finds nobody has passed every coroutine of the chain.
LEMMA DefaultMapped ==
  ASSUME TypeOK, WellFormed, TypeOK', WellFormed', Requests,
         NEW t \in Threads, NoHandler(t)
  PROVE  Abstract!Default(t)
<1>1. locate[t].op # "idle" /\ locate[t].at = Null
  BY DEF NoHandler, Locating
<1>2. chainOf' = chainOf /\ contOf' = contOf /\ handledBy' = handledBy
  BY NothingMoves DEF NoHandler, objects, history, handledBy
<1>3. /\ pendingOf[t] # Abstract!None /\ pendingOf[t].eff = locate[t].eff
      /\ pendingOf' = [pendingOf EXCEPT ![t] = Abstract!None]
  BY <1>1 DEF NoHandler, pendingOf, Idle, Abstract!None, TypeOK
<1>4. ASSUME NEW j \in 1 .. Len(chainOf[t])
      PROVE  ~Abstract!Handles(chainOf[t][j], locate[t].eff)
  <2> DEFINE c == chainOf[t][j]
  <2>1. Spells(home, depth, t, chainOf[t])
    BY ThreadSpells
  <2>2. c \in Coroutines /\ home[c] = t
    BY <2>1, ElementOfSeq DEF Spells
  <2> HIDE DEF c
  <2>3. ~seff_find_effect_in(locate[t].eff, handled_effects[c])
    BY <1>1, <2>2 DEF WellFormed, SearchPosition
  <2>4. locate[t].eff # Return
    BY <1>1, <2>2 DEF Requests, WellFormed, ThreadContexts
  <2> QED
    BY <2>2, <2>3, <2>4 DEF Abstract!Handles, handledBy, c
<1> QED
  BY <1>2, <1>3, <1>4 DEF Abstract!Default

\* Performing and throwing are what a thread then waits for.
LEMMA RequestMapped ==
  ASSUME TypeOK, WellFormed, TypeOK', WellFormed', Requests,
         NEW t \in Threads, NEW eff \in Effects \cup {Return}, NEW op \in {"perform", "throw"},
         InClient(t),
         locate' = [locate EXCEPT ![t] = [op |-> op, eff |-> eff, at |-> LocateFrom(t)]],
         UNCHANGED <<objects, history>>
  PROVE  Abstract!Request(t, op, eff)
<1>1. chainOf' = chainOf /\ contOf' = contOf /\ handledBy' = handledBy
  BY NothingMoves DEF objects, history, handledBy
<1>2. pendingOf[t] = Abstract!None
  BY DEF InClient, Requests, pendingOf, Abstract!None
<1>3. pendingOf' = [pendingOf EXCEPT ![t] = [op |-> op, eff |-> eff]]
  BY DEF pendingOf, TypeOK
<1> QED
  BY <1>1, <1>2, <1>3 DEF Abstract!Request

-----------------------------------------------------------------------------
(* Every step of the runtime is a step of the abstract effect handlers *)

\* Leaving from client code, by whichever entry point.
LEMMA ClientLeavesMapped ==
  ASSUME TypeOK, WellFormed, TypeOK', WellFormed', Requests,
         NEW t \in Threads, NEW k \in Coroutines, NEW eff,
         InClient(t), home[k] = t, locate' = locate,
         seff_yield(t, k, eff) \/ seff_exit(t, k, eff)
  PROVE  \E i \in 1 .. Len(chainOf[t]) : Abstract!YieldTo(t, i) \/ Abstract!ExitTo(t, i)
<1>1. depth[k] \in 1 .. Len(chainOf[t])
  BY PlaceIsDepth
<1>2. pendingOf[t] = Abstract!None /\ pendingOf' = pendingOf
  BY DEF InClient, Requests, pendingOf, Abstract!None
<1>3. CASE seff_yield(t, k, eff)
  BY <1>1, <1>2, <1>3, YieldMapped DEF Abstract!YieldTo
<1>4. CASE seff_exit(t, k, eff)
  BY <1>1, <1>2, <1>4, ExitMapped DEF Abstract!ExitTo
<1> QED
  BY <1>3, <1>4

\* A step that leaves the objects and what threads wait for alone is a stutter.
LEMMA Unseen ==
  ASSUME TypeOK, WellFormed, TypeOK', WellFormed', UNCHANGED <<objects, history>>,
         \A t \in Threads : locate'[t].op = locate[t].op /\ locate'[t].eff = locate[t].eff
  PROVE  UNCHANGED Abstract!absVars
<1>1. chainOf' = chainOf /\ contOf' = contOf
  BY NothingMoves DEF history
<1>2. handledBy' = handledBy /\ pendingOf' = pendingOf
  BY DEF handledBy, pendingOf, objects
<1> QED
  BY <1>1, <1>2 DEF Abstract!absVars

\* The steps of a search and what follows it.
LEMMA LibraryMapped ==
  ASSUME TypeOK, WellFormed, TypeOK', WellFormed', Requests,
         NEW t \in Threads, LibraryStep(t)
  PROVE  [Abstract!Next]_(Abstract!absVars)
<1>1. CASE seff_locate_handler(t)
  <2>1. \A u \in Threads : locate'[u].op = locate[u].op /\ locate'[u].eff = locate[u].eff
    BY <1>1 DEF seff_locate_handler, TypeOK
  <2> QED
    BY <1>1, <2>1, Unseen DEF seff_locate_handler
<1>2. CASE HandlerFound(t)
  BY <1>2, HandlerMapped DEF Abstract!Next
<1>3. CASE NoHandler(t)
  BY <1>3, DefaultMapped DEF Abstract!Next
<1> QED
  BY <1>1, <1>2, <1>3 DEF LibraryStep

\* The calls a client may make.
LEMMA ClientMapped ==
  ASSUME TypeOK, WellFormed, TypeOK', WellFormed', Requests,
         NEW t \in Threads, ClientStep(t)
  PROVE  [Abstract!Next]_(Abstract!absVars)
<1>1. ASSUME NEW k \in Coroutines, seff_coroutine_new(t, k)
      PROVE  Abstract!Next
  BY <1>1, NewMapped DEF Abstract!Next
<1>2. ASSUME NEW k \in Coroutines, seff_coroutine_delete(t, k)
      PROVE  Abstract!Next
  BY <1>2, DeleteMapped DEF Abstract!Next
<1>3. ASSUME NEW k \in Coroutines, NEW S \in ResumeSets, seff_resume(t, k, S)
      PROVE  Abstract!Next
  <2>1. {e \in Effects : seff_find_effect_in(e, S)} \in SUBSET Effects
    OBVIOUS
  <2> QED
    BY <1>3, <2>1, ResumeMapped DEF Abstract!Next
<1>4. ASSUME NEW k \in Coroutines, NEW eff,
             InClient(t), home[k] = t, locate' = locate,
             seff_yield(t, k, eff) \/ seff_exit(t, k, eff)
      PROVE  Abstract!Next
  BY <1>4, ClientLeavesMapped DEF Abstract!Next
<1>5. ASSUME NEW k \in Coroutines, NEW eff \in Effects, YIELD(t, k, eff)
      PROVE  [Abstract!Next]_(Abstract!absVars)
  <2>1. locate' = locate /\ InClient(t) /\ home[k] = t
    BY <1>5 DEF YIELD, Active
  <2>2. CASE UNCHANGED <<objects, history>>
    BY <2>1, <2>2, Unseen
  <2>3. CASE seff_yield(t, k, eff)
    BY <1>4, <2>1, <2>3
  <2> QED
    BY <1>5, <2>2, <2>3 DEF YIELD
<1>6. ASSUME NEW k \in Coroutines, NEW eff, Exit(t, k, eff) \/ Yield(t, k, eff)
      PROVE  Abstract!Next
  BY <1>4, <1>6 DEF Exit, Yield, Active
<1>7. ASSUME coroutine_prelude(t) PROVE Abstract!Next
  <2>1. stack_of[t] \in Coroutines /\ home[stack_of[t]] = t
    BY <1>7, NamesDisjoint DEF coroutine_prelude, WellFormed, ThreadContexts
  <2> QED
    BY <1>4, <1>7, <2>1 DEF coroutine_prelude
<1>8. ASSUME NEW eff \in Effects \cup {Return}, seff_perform(t, eff) \/ seff_throw(t, eff)
      PROVE  Abstract!Next
  <2>1. Abstract!Request(t, "perform", eff) \/ Abstract!Request(t, "throw", eff)
    BY <1>8, RequestMapped DEF seff_perform, seff_throw
  <2> QED
    BY <2>1 DEF Abstract!Next
<1>9. ASSUME NEW eff \in Effects, NEW installed \in BOOLEAN,
             seff_set_default_handler(t, eff, installed)
      PROVE  UNCHANGED Abstract!absVars
  BY <1>9, Unseen DEF seff_set_default_handler
<1> QED
  BY <1>1, <1>2, <1>3, <1>5, <1>6, <1>7, <1>8, <1>9, ClientConstants DEF ClientStep

\* Every step keeps what is said of searches.
LEMMA RequestsKept ==
  ASSUME TypeOK, Requests, [Next]_vars
  PROVE  Requests'
<1>1. CASE UNCHANGED vars
  BY <1>1 DEF vars, machine, Requests
<1>2. ASSUME NEW t \in Threads, ClientStep(t) \/ LibraryStep(t)
      PROVE  Requests'
  <2>1. \A u \in Threads \ {t} :
            locate'[u] = locate[u] /\ current_coroutine'[u] = current_coroutine[u]
    <3>1. CASE LibraryStep(t)
      BY <3>1 DEF LibraryStep, seff_locate_handler, HandlerFound, NoHandler, seff_yield,
                  seff_exit, machine, TypeOK
    <3>2. CASE ClientStep(t)
      BY <3>2 DEF ClientStep, seff_coroutine_new, seff_coroutine_delete, seff_resume, YIELD,
                  Exit, Yield, coroutine_prelude, seff_yield, seff_exit, seff_perform,
                  seff_throw, seff_set_default_handler, machine, TypeOK
    <3> QED
      BY <1>2, <3>1, <3>2
  <2>2. /\ locate'[t].op = "idle" => locate'[t].eff = Return
        /\ locate'[t].op # "idle" /\ locate'[t].eff = Return =>
            locate'[t].at = current_coroutine'[t]
    <3>1. CASE seff_locate_handler(t)
      BY <3>1 DEF seff_locate_handler, Locating, Stops, Requests, TypeOK, machine
    <3>2. CASE HandlerFound(t) \/ NoHandler(t)
      BY <3>2 DEF HandlerFound, NoHandler, Idle, TypeOK
    <3>3. CASE \E eff \in Effects \cup {Return} : seff_perform(t, eff) \/ seff_throw(t, eff)
      BY <3>3 DEF seff_perform, seff_throw, LocateFrom, machine, TypeOK
    <3>4. CASE locate' = locate /\ locate[t].op = "idle"
      BY <3>4 DEF Requests
    <3>5. ClientStep(t) =>
            \/ \E eff \in Effects \cup {Return} : seff_perform(t, eff) \/ seff_throw(t, eff)
            \/ locate' = locate /\ locate[t].op = "idle"
      BY DEF ClientStep, seff_coroutine_new, seff_coroutine_delete, seff_resume, YIELD,
             Exit, Yield, coroutine_prelude, seff_set_default_handler, InClient
    <3> QED
      BY <1>2, <3>1, <3>2, <3>3, <3>4, <3>5 DEF LibraryStep
  <2> QED
    BY <2>1, <2>2 DEF Requests
<1> QED
  BY <1>1, <1>2 DEF Next

\* At the start there are no chains and no continuations.
LEMMA InitialMapped == Init => Requests /\ Abstract!Init
<1> SUFFICES ASSUME Init PROVE Requests /\ Abstract!Init
  OBVIOUS
<1>1. TypeOK /\ WellFormed
  BY InitialState
<1>2. \A t \in Threads : chainOf[t] = <<>>
  <2>1. ASSUME NEW t \in Threads PROVE chainOf[t] = <<>>
    <3>1. Spells(home, depth, t, chainOf[t])
      BY <1>1, ThreadSpells
    <3>2. Len(chainOf[t]) = 0
      BY <1>1, ChainLength DEF Init
    <3> QED
      BY <3>1, <3>2 DEF Spells
  <2> QED
    BY <2>1
<1>3. \A k \in Coroutines : contOf[k] = <<>>
  BY NamesDisjoint DEF Init, contOf
<1>4. chainOf = [t \in Threads |-> <<>>] /\ contOf = [k \in Coroutines |-> <<>>]
  BY <1>2, <1>3 DEF chainOf, contOf
<1>5. /\ handledBy = [k \in Coroutines |-> {}]
      /\ pendingOf = [t \in Threads |-> Abstract!None]
      /\ Requests
  BY DEF Init, handledBy, seff_find_effect_in, JunkSet, pendingOf, Idle, Abstract!None,
         Requests
<1> QED
  BY <1>4, <1>5 DEF Abstract!Init

\* The runtime is what its clients take it for: shallow handlers over one-shot
\* continuations.  However the switches move the pointers (asm/seff.S), resuming
\* appends a continuation, performing and yielding cut the chain at the innermost
\* handler and keep the rest, throwing and returning drop it (ImplementsEffectHandlers).
THEOREM RuntimeIsHandlers == Spec => ImplementsEffectHandlers
<1>1. Init => TypeOK /\ WellFormed
  BY InitialState
<1>2. [Next]_vars /\ (TypeOK /\ WellFormed /\ Requests) =>
        (TypeOK /\ WellFormed /\ Requests)'
  BY StepKeepsInvariant, RequestsKept
<1>3. [Next]_vars /\ (TypeOK /\ WellFormed /\ Requests)
          /\ (TypeOK /\ WellFormed /\ Requests)' =>
        [Abstract!Next]_(Abstract!absVars)
  <2> SUFFICES ASSUME [Next]_vars, TypeOK, WellFormed, TypeOK', WellFormed', Requests
               PROVE  [Abstract!Next]_(Abstract!absVars)
    OBVIOUS
  <2>1. CASE UNCHANGED vars
    BY <2>1, Unseen DEF vars
  <2> QED
    BY <2>1, LibraryMapped, ClientMapped DEF Next
<1> QED
  BY <1>1, <1>2, <1>3, InitialMapped, PTL
  DEF Spec, ImplementsEffectHandlers, Abstract!Spec
=============================================================================
