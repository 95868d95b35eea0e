-------------------------------- MODULE Seff --------------------------------
(***************************************************************************)
(* The coroutine runtime: src/src/seff.c, the inline part of src/src/seff.h *)
(* and the context switches of src/asm/seff.S.                             *)
(*                                                                         *)
(* A coroutine is a stack plus a seff_coroutine_t.  What is kept of the     *)
(* machine is which stack a thread executes on (stack_of) and, per saved    *)
(* context, the stack it resumes on and the kind of call site it returns    *)
(* into; registers, payloads and stack contents are left out.              *)
(*                                                                         *)
(* Client code is the environment: at any point a thread may make any call *)
(* of the API whose contract holds.  The contract, which the library does  *)
(* not check, is that a coroutine is resumed only while it is itself the    *)
(* root of a suspended continuation.                                       *)
(***************************************************************************)
EXTENDS Integers

CONSTANTS
    Threads,       \* OS threads; also the names of their own C stacks
    Coroutines,    \* addresses of seff_coroutine_t; also the names of their stacks
    Effects,       \* effect ids made by DEFINE_EFFECT
    Return,        \* EFF_ID(return)
    ResumeSets,    \* the effect sets clients pass to seff_resume
    YieldIds,      \* the ids clients pass to a bare seff_yield
    Debug,         \* the build leaves NDEBUG undefined (Makefile, BUILD=debug)
    Null, Junk     \* NULL, and the content of memory nobody has written

(***************************************************************************)
(* An effect set is a pointer to a 0-terminated array: which object it      *)
(* points to, and the ids a scan of the array meets; NULL is treated as an  *)
(* empty array.  HANDLES_ALL points to an empty static array, one per       *)
(* translation unit that includes seff.h.                                  *)
(***************************************************************************)
HANDLES(S)  == [ptr |-> "array", ids |-> S]
HANDLES_ALL(unit) == [ptr |-> unit, ids |-> {}]
JunkSet     == [ptr |-> "junk", ids |-> {}]
EffectSets  == [ptr : {"array", "seff.c", "client.c", "junk"}, ids : SUBSET Effects]

ASSUME NamesDisjoint ==
    /\ Threads \cap Coroutines = {}
    /\ Null \notin Threads \cup Coroutines
    /\ Junk \notin Threads \cup Coroutines \cup {Null}
    /\ Return \notin Effects
ASSUME ClientConstants ==
    /\ ResumeSets \subseteq EffectSets
    /\ YieldIds \subseteq Effects \cup {Return}
    /\ Debug \in BOOLEAN

VARIABLES
    current_coroutine,  \* [Threads -> ...] the thread-local _seff_current_coroutine
    stack_of,           \* [Threads -> ...] the stack %rsp points into
    state,              \* k->state, "NONE" while no object is allocated at k
    parent_coroutine,   \* k->parent_coroutine
    handled_effects,    \* k->handled_effects
    resume_point,       \* k->resume_point
    locate,             \* [Threads -> ...] the frame of seff_locate_handler and its caller
    request,            \* [Threads -> ...] the seff_request_t the last seff_resume returned
    default_handler,    \* [Effects -> BOOLEAN] a default handler is installed
    process,            \* "running", "exited" or "crashed"
    home,               \* history: the thread a coroutine is active on, the root of the
                        \*   continuation that captured it, or Null
    depth               \* history: its position there, 1 for the outermost

machine == <<current_coroutine, stack_of>>
objects == <<state, parent_coroutine, handled_effects, resume_point>>
history == <<home, depth>>
vars == <<machine, objects, locate, request, default_handler, process, history>>

Places   == {"prelude", "yield", "resume", "null"}
Idle     == [op |-> "idle", eff |-> Return, at |-> Null]
JunkContext == [current_coroutine |-> Junk, stack |-> Junk, at |-> "null"]
NoRequest == [eff |-> Null, k |-> Null]

-----------------------------------------------------------------------------
Init ==
    /\ current_coroutine = [t \in Threads |-> Null]
    /\ stack_of = [t \in Threads |-> t]
    /\ state = [k \in Coroutines |-> "NONE"]
    /\ parent_coroutine = [k \in Coroutines |-> Junk]
    /\ handled_effects = [k \in Coroutines |-> JunkSet]
    /\ resume_point = [k \in Coroutines |-> JunkContext]
    /\ locate = [t \in Threads |-> Idle]
    /\ request = [t \in Threads |-> NoRequest]
    /\ default_handler = [e \in Effects |-> FALSE]
    /\ process = "running"
    /\ home = [k \in Coroutines |-> Null]
    /\ depth = [k \in Coroutines |-> 0]

\* The thread executes client code: it is not inside a library call.
InClient(t) == process = "running" /\ locate[t].op = "idle"

\* k is on the chain of coroutines the thread has entered and not left.
Active(t, k) == home[k] = t

\* The coroutines nested in k on the thread, k included.
Nested(t, k) == {c \in Coroutines : home[c] = t /\ depth[c] >= depth[k]}

-----------------------------------------------------------------------------
(* Creation and destruction *)

\* Mutant: the context does not say which coroutine it belongs to.
FreshContextUnowned(k) == [current_coroutine |-> Junk, stack |-> k, at |-> "prelude"]

\* A new coroutine enters coroutine_prelude on its own stack.
FreshContext(k) == [current_coroutine |-> k, stack |-> k, at |-> "prelude"]

\* seff_coroutine_new, seff_coroutine_init_sized: parent_coroutine and
\* handled_effects are left as malloc returned them.
seff_coroutine_new(t, k) ==
    /\ InClient(t)
    /\ state[k] = "NONE"
    /\ state' = [state EXCEPT ![k] = "PAUSED"]
    /\ parent_coroutine' = [parent_coroutine EXCEPT ![k] = Junk]
    /\ handled_effects' = [handled_effects EXCEPT ![k] = JunkSet]
    /\ resume_point' = [resume_point EXCEPT ![k] = FreshContext(k)]
    /\ home' = [home EXCEPT ![k] = k]
    /\ depth' = [depth EXCEPT ![k] = 1]
    /\ request' = [request EXCEPT ![t] = NoRequest]
    /\ UNCHANGED <<machine, locate, default_handler, process>>

\* seff_coroutine_delete frees the stack and the object, whose content is then
\* whatever the allocator leaves there.  The client deletes
\* no coroutine that is entered or captured inside another continuation;
\* deleting a suspended one loses the coroutines captured with it.
seff_coroutine_delete(t, k) ==
    /\ InClient(t)
    /\ state[k] # "NONE"
    /\ home[k] \in {k, Null}
    /\ state' = [state EXCEPT ![k] = "NONE"]
    /\ parent_coroutine' = [parent_coroutine EXCEPT ![k] = Junk]
    /\ handled_effects' = [handled_effects EXCEPT ![k] = JunkSet]
    /\ resume_point' = [resume_point EXCEPT ![k] = JunkContext]
    /\ home' = [c \in Coroutines |-> IF home[c] = k THEN Null ELSE home[c]]
    /\ depth' = [c \in Coroutines |-> IF home[c] = k THEN 0 ELSE depth[c]]
    /\ request' = [request EXCEPT ![t] = NoRequest]
    /\ UNCHANGED <<machine, locate, default_handler, process>>

-----------------------------------------------------------------------------
(* The context switches of asm/seff.S *)

\* Mutant: the resumed coroutine becomes current, not the one that yielded.
EnteredAtRoot(t, k) == k

\* The coroutine that becomes current when k's continuation is entered.
EnteredAt(t, k) == resume_point[k].current_coroutine

\* Mutants: the parent is set by the first resume only, or after the switch.
LinkedOnce(t, k) ==
    IF parent_coroutine[k] = Junk THEN current_coroutine[t] ELSE parent_coroutine[k]
LinkedAfterSwitch(t, k) == resume_point[k].current_coroutine

\* The coroutine a resumed one is linked to.
LinkedTo(t, k) == current_coroutine[t]

\* Mutants: the context saved is attributed to the coroutine yielded to, or
\* %rsp is loaded but not saved.
SavedContextOfRoot(t, k) ==
    [current_coroutine |-> k, stack |-> stack_of[t], at |-> "yield"]
SavedContextOldStack(t, k) ==
    [current_coroutine |-> current_coroutine[t], stack |-> resume_point[k].stack,
     at |-> "yield"]

\* The running context, as seff_yield saves it in k.
SavedContext(t, k) ==
    [current_coroutine |-> current_coroutine[t], stack |-> stack_of[t], at |-> "yield"]

\* The resumer's context, as seff_resume saves it in k; and what a debug build
\* leaves of a finished coroutine's.  Neither writes current_coroutine.
ResumerContext(t, k) ==
    [current_coroutine |-> resume_point[k].current_coroutine,
     stack |-> stack_of[t], at |-> "resume"]
ClearedContext(k) ==
    [current_coroutine |-> resume_point[k].current_coroutine,
     stack |-> Null, at |-> "null"]

\* seff_resume: no check of state is made.
seff_resume(t, k, handled) ==
    LET base == IF current_coroutine[t] = Null THEN 0
                ELSE depth[current_coroutine[t]]
    IN  /\ InClient(t)
        /\ home[k] = k
        /\ handled_effects' = [handled_effects EXCEPT ![k] = handled]
        /\ parent_coroutine' = [parent_coroutine EXCEPT ![k] = LinkedTo(t, k)]
        /\ current_coroutine' = [current_coroutine EXCEPT ![t] = EnteredAt(t, k)]
        /\ stack_of' = [stack_of EXCEPT ![t] = resume_point[k].stack]
        /\ resume_point' = [resume_point EXCEPT ![k] = ResumerContext(t, k)]
        /\ home' = [c \in Coroutines |-> IF home[c] = k THEN t ELSE home[c]]
        /\ depth' = [c \in Coroutines |->
                        IF home[c] = k THEN depth[c] + base ELSE depth[c]]
        /\ request' = [request EXCEPT ![t] = NoRequest]
        /\ UNCHANGED <<state, locate, default_handler, process>>

\* seff_yield(k, eff): the running context and k's resume point change places,
\* so the whole chain down to the caller is captured in k.
seff_yield(t, k, eff) ==
    /\ current_coroutine' = [current_coroutine EXCEPT ![t] = parent_coroutine[k]]
    /\ stack_of' = [stack_of EXCEPT ![t] = resume_point[k].stack]
    /\ resume_point' = [resume_point EXCEPT ![k] = SavedContext(t, k)]
    /\ request' = [request EXCEPT ![t] = [eff |-> eff, k |-> k]]
    /\ home' = [c \in Coroutines |-> IF c \in Nested(t, k) THEN k ELSE home[c]]
    /\ depth' = [c \in Coroutines |->
                    IF c \in Nested(t, k) THEN depth[c] - depth[k] + 1 ELSE depth[c]]
    /\ UNCHANGED <<state, parent_coroutine, handled_effects>>

\* seff_exit(k, eff): k is finished and the coroutines nested in it are
\* abandoned where they stand, their state still PAUSED.
seff_exit(t, k, eff) ==
    /\ state' = [state EXCEPT ![k] = "FINISHED"]
    /\ current_coroutine' = [current_coroutine EXCEPT ![t] = parent_coroutine[k]]
    /\ stack_of' = [stack_of EXCEPT ![t] = resume_point[k].stack]
    /\ resume_point' = IF Debug
            THEN [resume_point EXCEPT ![k] = ClearedContext(k)]
            ELSE resume_point
    /\ request' = [request EXCEPT ![t] = [eff |-> eff, k |-> k]]
    /\ home' = [c \in Coroutines |-> IF c \in Nested(t, k) THEN Null ELSE home[c]]
    /\ depth' = [c \in Coroutines |-> IF c \in Nested(t, k) THEN 0 ELSE depth[c]]
    /\ UNCHANGED <<parent_coroutine, handled_effects>>

\* The start function returns into coroutine_prelude, whose %r13 holds the
\* coroutine the stack belongs to, and falls through to seff_exit.
coroutine_prelude(t) ==
    /\ InClient(t)
    /\ stack_of[t] \in Coroutines
    /\ seff_exit(t, stack_of[t], Return)
    /\ UNCHANGED <<locate, default_handler, process>>

\* A client calls seff_yield itself, as the generators of tests/ and bench/ do.
Yield(t, k, eff) ==
    /\ InClient(t)
    /\ Active(t, k)
    /\ seff_yield(t, k, eff)
    /\ UNCHANGED <<locate, default_handler, process>>

\* A client calls seff_exit itself.
Exit(t, k, eff) ==
    /\ InClient(t)
    /\ Active(t, k)
    /\ seff_exit(t, k, eff)
    /\ UNCHANGED <<locate, default_handler, process>>

-----------------------------------------------------------------------------
(* Locating a handler *)

seff_find_effect_in(eff, handled) ==
    handled.ptr = "seff.c" \/ eff \in handled.ids

\* The YIELD macro: in a debug build a set that does not handle eff is an
\* assertion failure.
YIELD(t, k, eff) ==
    /\ InClient(t)
    /\ Active(t, k)
    /\ IF Debug /\ ~seff_find_effect_in(eff, handled_effects[k])
         THEN /\ process' = "crashed"
              /\ UNCHANGED <<machine, objects, request, history>>
         ELSE /\ seff_yield(t, k, eff)
              /\ UNCHANGED process
    /\ UNCHANGED <<locate, default_handler>>

\* Mutant: the search starts at the parent, skipping the performer.
LocateFromParent(t) ==
    IF current_coroutine[t] = Null THEN Null ELSE parent_coroutine[current_coroutine[t]]

\* Where the search starts.
LocateFrom(t) == current_coroutine[t]

\* seff_perform and seff_throw enter seff_locate_handler.
seff_perform(t, eff) ==
    /\ InClient(t)
    /\ locate' = [locate EXCEPT
            ![t] = [op |-> "perform", eff |-> eff, at |-> LocateFrom(t)]]
    /\ request' = [request EXCEPT ![t] = NoRequest]
    /\ UNCHANGED <<machine, objects, default_handler, process, history>>

seff_throw(t, eff) ==
    /\ InClient(t)
    /\ locate' = [locate EXCEPT
            ![t] = [op |-> "throw", eff |-> eff, at |-> LocateFrom(t)]]
    /\ request' = [request EXCEPT ![t] = NoRequest]
    /\ UNCHANGED <<machine, objects, default_handler, process, history>>

Locating(t) == process = "running" /\ locate[t].op # "idle"

\* Mutant: the search stops at the first coroutine it meets.
StopsAnywhere(t, k) == TRUE

\* The loop of seff_locate_handler stops at k.
Stops(t, k) ==
    \/ locate[t].eff = Return
    \/ seff_find_effect_in(locate[t].eff, handled_effects[k])

\* One turn of the loop.
seff_locate_handler(t) ==
    /\ Locating(t)
    /\ locate[t].at # Null
    /\ ~Stops(t, locate[t].at)
    /\ locate' = [locate EXCEPT ![t].at = parent_coroutine[locate[t].at]]
    /\ UNCHANGED <<machine, objects, request, default_handler, process, history>>

\* A handler is found: seff_perform yields to it, seff_throw exits it.
HandlerFound(t) ==
    /\ Locating(t)
    /\ locate[t].at # Null
    /\ Stops(t, locate[t].at)
    /\ locate' = [locate EXCEPT ![t] = Idle]
    /\ \/ /\ locate[t].op = "perform"
          /\ seff_yield(t, locate[t].at, locate[t].eff)
       \/ /\ locate[t].op = "throw"
          /\ seff_exit(t, locate[t].at, locate[t].eff)
    /\ UNCHANGED <<default_handler, process>>

\* None is found: the default handler runs in place; after a throw the process
\* exits; a missing handler, and the return id, are a jump through NULL.
NoHandler(t) ==
    /\ Locating(t)
    /\ locate[t].at = Null
    /\ locate' = [locate EXCEPT ![t] = Idle]
    /\ process' = IF locate[t].eff = Return \/ ~default_handler[locate[t].eff]
                    THEN "crashed"
                  ELSE IF locate[t].op = "throw" THEN "exited"
                  ELSE "running"
    /\ UNCHANGED <<machine, objects, request, default_handler, history>>

\* seff_set_default_handler, for an id made by DEFINE_EFFECT.
seff_set_default_handler(t, eff, installed) ==
    /\ InClient(t)
    /\ default_handler' = [default_handler EXCEPT ![eff] = installed]
    /\ request' = [request EXCEPT ![t] = NoRequest]
    /\ UNCHANGED <<machine, objects, locate, process, history>>

-----------------------------------------------------------------------------
ClientStep(t) ==
    \/ \E k \in Coroutines :
          \/ seff_coroutine_new(t, k)
          \/ seff_coroutine_delete(t, k)
          \/ \E handled \in ResumeSets : seff_resume(t, k, handled)
          \/ \E eff \in Effects : YIELD(t, k, eff) \/ Exit(t, k, eff)
          \/ \E eff \in YieldIds : Yield(t, k, eff)
    \/ coroutine_prelude(t)
    \/ \E eff \in Effects : seff_perform(t, eff)
    \/ \E eff \in Effects \cup {Return} : seff_throw(t, eff)
    \/ \E eff \in Effects, installed \in BOOLEAN :
          seff_set_default_handler(t, eff, installed)

LibraryStep(t) == seff_locate_handler(t) \/ HandlerFound(t) \/ NoHandler(t)

Next == \E t \in Threads : ClientStep(t) \/ LibraryStep(t)

Spec == Init /\ [][Next]_vars

-----------------------------------------------------------------------------
(* Properties *)

TypeOK ==
    /\ current_coroutine \in [Threads -> Coroutines \cup {Null}]
    /\ stack_of \in [Threads -> Threads \cup Coroutines]
    /\ state \in [Coroutines -> {"NONE", "PAUSED", "FINISHED"}]
    /\ parent_coroutine \in [Coroutines -> Coroutines \cup {Null, Junk}]
    /\ handled_effects \in [Coroutines -> EffectSets]
    /\ resume_point \in [Coroutines ->
            [current_coroutine : Coroutines \cup {Null, Junk},
             stack : Threads \cup Coroutines \cup {Null, Junk}, at : Places]]
    /\ locate \in [Threads -> [op : {"idle", "perform", "throw"},
                               eff : Effects \cup {Return}, at : Coroutines \cup {Null}]]
    /\ request \in [Threads -> [eff : Effects \cup {Return, Null}, k : Coroutines \cup {Null}]]
    /\ default_handler \in [Effects -> BOOLEAN]
    /\ process \in {"running", "exited", "crashed"}
    /\ home \in [Coroutines -> Threads \cup Coroutines \cup {Null}]
    /\ depth \in [Coroutines -> Nat]

\* The invariant the properties below follow from.  It says how the pointers
\* spell the chains: each entered or captured coroutine hangs below its parent
\* in the same chain, one deeper (ChainLinks); the root of a continuation knows
\* the innermost coroutine of it (RootContexts), as a running thread does
\* (ThreadContexts); no two coroutines share a place (PlacesDistinct); and a
\* search stands in the thread's own chain, past coroutines that do not handle
\* the effect (SearchPosition).
ChainLinks ==
    \A c \in Coroutines : home[c] \notin {c, Null} =>
        /\ resume_point[c].at = "resume"
        /\ \/ /\ parent_coroutine[c] = Null
              /\ home[c] \in Threads
              /\ depth[c] = 1
              /\ resume_point[c].stack = home[c]
           \/ /\ parent_coroutine[c] \in Coroutines
              /\ home[parent_coroutine[c]] = home[c]
              /\ depth[c] = depth[parent_coroutine[c]] + 1
              /\ resume_point[c].stack = parent_coroutine[c]
RootContexts ==
    \A k \in Coroutines : home[k] = k =>
        LET last == resume_point[k].current_coroutine IN
        /\ depth[k] = 1
        /\ resume_point[k].at \in {"prelude", "yield"}
        /\ last \in Coroutines
        /\ home[last] = k
        /\ resume_point[k].stack = last
        /\ \A c \in Coroutines : home[c] = k => depth[c] =< depth[last]
ThreadContexts ==
    \A t \in Threads :
        /\ current_coroutine[t] = Null =>
             /\ stack_of[t] = t
             /\ \A c \in Coroutines : home[c] # t
        /\ current_coroutine[t] # Null =>
             /\ stack_of[t] = current_coroutine[t]
             /\ home[current_coroutine[t]] = t
             /\ \A c \in Coroutines :
                  home[c] = t => depth[c] =< depth[current_coroutine[t]]
PlacesDistinct ==
    /\ \A c \in Coroutines : home[c] # Null =>
          /\ state[c] = "PAUSED"
          /\ depth[c] >= 1
          /\ home[c] \in Coroutines => home[home[c]] = home[c]
    /\ \A c, d \in Coroutines :
          home[c] # Null /\ home[c] = home[d] /\ depth[c] = depth[d] => c = d
SearchPosition ==
    \A t \in Threads : locate[t].op # "idle" =>
        LET at == locate[t].at IN
        /\ at # Null => home[at] = t
        /\ \A c \in Coroutines :
              home[c] = t /\ (at # Null => depth[c] > depth[at])
                => ~seff_find_effect_in(locate[t].eff, handled_effects[c])
WellFormed ==
    ChainLinks /\ RootContexts /\ ThreadContexts /\ PlacesDistinct /\ SearchPosition

\* The thread-local _seff_current_coroutine names the coroutine whose stack the
\* thread is executing on, and NULL exactly on the thread's own stack: what
\* every switch of asm/seff.S must keep when it moves the two separately.
CurrentOwnsStack ==
    \A t \in Threads :
        stack_of[t] = IF current_coroutine[t] = Null THEN t ELSE current_coroutine[t]

\* Leaving an entered coroutine, by yield, throw or return, goes back to the
\* stack of the coroutine (or thread) that parent_coroutine says resumed it,
\* and to the instruction after that seff_resume; this also holds for the
\* coroutines captured inside a suspended continuation, once it is resumed.
LeavesToResumer ==
    \A k \in Coroutines :
        home[k] \notin {k, Null} =>
            /\ resume_point[k].at = "resume"
            /\ resume_point[k].stack =
                 IF parent_coroutine[k] = Null THEN home[k] ELSE parent_coroutine[k]

\* One-shot continuations: no stack can be entered in two ways.  The stacks
\* threads are running on, and those the resume points of live coroutines hold,
\* are all different, whatever was captured, moved between threads or abandoned.
OneWayIn ==
    /\ \A t, u \in Threads : t # u => stack_of[t] # stack_of[u]
    /\ \A k \in Coroutines : home[k] # Null =>
          /\ \A t \in Threads : resume_point[k].stack # stack_of[t]
          /\ \A j \in Coroutines \ {k} :
                home[j] # Null => resume_point[j].stack # resume_point[k].stack

\* A coroutine a client may resume has a stack, an object and a context to
\* resume to; its state is PAUSED.
ResumableIsAlive ==
    \A k \in Coroutines :
        home[k] # Null =>
            /\ state[k] = "PAUSED"
            /\ home[k] = k => /\ resume_point[k].at \in {"prelude", "yield"}
                              /\ resume_point[k].stack = resume_point[k].current_coroutine
                              /\ home[resume_point[k].stack] = k

\* seff_locate_handler finds the innermost handler: every coroutine it has
\* passed is one nested deeper than where it stands, none of those handles the
\* effect, and it never leaves the chain of the thread it runs on.
InnermostHandler ==
    \A t \in Threads : locate[t].op # "idle" =>
        LET at == locate[t].at IN
        /\ at # Null => Active(t, at)
        /\ \A c \in Coroutines :
              Active(t, c) /\ (at # Null => depth[c] > depth[at])
                => ~seff_find_effect_in(locate[t].eff, handled_effects[c])

\* The search for a handler ends: wherever it stands, its next turn goes to a
\* coroutine less deep in the thread's own chain, although resume rewrites the
\* parent links it follows and continuations are captured and moved.
SearchDescends ==
    \A t \in Threads : locate[t].op # "idle" /\ locate[t].at # Null =>
        LET next == parent_coroutine[locate[t].at] IN
        next # Null => home[next] = t /\ depth[next] < depth[locate[t].at]
=============================================================================
