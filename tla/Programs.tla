------------------------------ MODULE Programs ------------------------------
(***************************************************************************)
(* The programs of src/bench that are written on the library, the scheduler  *)
(* and the actors, one at a time: `running` names the one that is run, and     *)
(* the variables of the others keep their initial values.                    *)
(***************************************************************************)
EXTENDS Skynet, Benches

CONSTANTS MaxIters, Inputs

VARIABLES
    running,
    d_program, iters, vx, d_pc, frames, acc, prev, dx, request, value, part, term, live   \* AD

async_tk == INSTANCE AsyncTk
async_cl == INSTANCE AsyncCl
sleeping == INSTANCE PromiseSleep
polling == INSTANCE PromisePoll
ad == INSTANCE AD WITH program <- d_program, pc <- d_pc

ad_vars == <<d_program, iters, vx, d_pc, frames, acc, prev, dx, request, value, part, term, live>>
vars == <<running, skynet_vars, http_vars, chameneos_vars, cooperation_vars, ad_vars,
          lookups_vars>>

TaskPrograms == {"libseff_async_tk", "libseff_async", "libseff_scheff_sleep", "libseff_scheff_poll"}

\* A program that is not run has some initial state or other.
Init ==
    /\ running \in TaskPrograms \cup {"http_server", "chameneos", "cooperation", "ad", "lookups"}
    /\ SkynetInit /\ http!Init /\ chameneos!Init /\ cooperation!Init /\ ad!Init /\ looking!Init
    /\ running # "chameneos" => m_program = "actor"
    /\ running # "ad" =>
          d_program = "naive" /\ iters = 0 /\ vx = CHOOSE v \in Inputs : TRUE
    /\ running # "lookups" =>
          sorted = (CHOOSE a \in Arrays : TRUE) /\ keys = <<>>
             /\ streams = CHOOSE n \in StreamCounts : TRUE

NotTasks == UNCHANGED <<running, http_vars, chameneos_vars, cooperation_vars, ad_vars,
                       lookups_vars>>

worker_thread(w) ==
    /\ \/ running = "libseff_async_tk" /\ async_tk!worker_thread(w)
       \/ running = "libseff_async" /\ async_cl!worker_thread(w)
       \/ running = "libseff_scheff_sleep" /\ sleeping!worker_thread(w)
       \/ running = "libseff_scheff_poll" /\ polling!worker_thread(w)
    /\ NotTasks

HttpStep(step) ==
    /\ running = "http_server" /\ step
    /\ UNCHANGED <<running, skynet_vars, chameneos_vars, cooperation_vars, ad_vars, lookups_vars>>
MeetStep(step) ==
    /\ running = "chameneos" /\ step
    /\ UNCHANGED <<running, skynet_vars, http_vars, cooperation_vars, ad_vars, lookups_vars>>
ThreadStep(step) ==
    /\ running = "cooperation" /\ step
    /\ UNCHANGED <<running, skynet_vars, http_vars, chameneos_vars, ad_vars, lookups_vars>>
AdStep ==
    /\ running = "ad" /\ ad!Next
    /\ UNCHANGED <<running, skynet_vars, http_vars, chameneos_vars, cooperation_vars, lookups_vars>>
LookupStep ==
    /\ running = "lookups" /\ looking!Next
    /\ UNCHANGED <<running, skynet_vars, http_vars, chameneos_vars, cooperation_vars, ad_vars>>

Exited == running \in TaskPrograms /\ \A w \in Workers : pc[w] = "exited"
Terminated ==
    \/ Exited
    \/ running = "http_server" /\ http!Finished
    \/ running = "chameneos" /\ chameneos!Ended
    \/ running = "ad" /\ d_pc = "end"
    \/ running = "lookups" /\ s_pc \in {"end", "crashed"}

Next ==
    \/ \E w \in Workers : worker_thread(w)
    \/ HttpStep(http!Next) \/ MeetStep(chameneos!Next) \/ ThreadStep(cooperation!Next)
    \/ AdStep \/ LookupStep
    \/ Terminated /\ UNCHANGED vars

Spec == Init /\ [][Next]_vars

\* Each thread keeps running, the scheduler resumes every task that can run, and a
\* client that waits for an answer reads what comes.
FairSpec ==
    /\ Spec
    /\ \A w \in Workers : WF_vars(worker_thread(w))
    /\ \A t \in Listeners \cup Conns : WF_vars(HttpStep(http!Server(t)))
    /\ \A c \in Conns : WF_vars(HttpStep(http!ReadOn(c)))
    /\ WF_vars(MeetStep(chameneos!Broker))
    /\ \A c \in DOMAIN creatureColours : WF_vars(MeetStep(chameneos!Creature(c)))
    /\ \A t \in DOMAIN tabColour : WF_vars(ThreadStep(cooperation!Thread(t)))
    /\ WF_vars(LookupStep)

-----------------------------------------------------------------------------
(* What the run checks of each program; the modules say what it means *)

\* Tasks: the counter covers the coroutines there are, and each is held once.
TasksAccounted == RemainingCovers /\ HeldOnce

\* No promise is written, and no lock of one released, in a frame that is gone.
\* In libseff_async.c this does not hold: its woken tasks can be stolen.
FramesAreThere ==
    /\ running = "libseff_async_tk" => async_tk!LocksAreThere
    /\ running = "libseff_scheff_sleep" => sleeping!LocksAreThere
    /\ running = "libseff_scheff_poll" => polling!WritesAreThere

\* A task that waits is resumed when its promise is fulfilled and not before, with
\* the child's answer: the assertions in the worker's loop of the two async programs,
\* nobody asleep on a promise that is fulfilled, and the root's total.
WaitersGetAnswers ==
    /\ running = "libseff_async_tk" => async_tk!ResumedWhenReady
    /\ running = "libseff_async" => async_cl!ResumedWhenReady
    /\ running = "libseff_scheff_sleep" => sleeping!NobodySleepsOn
    /\ TotalIsRight

\* net.c answers -1 only for errors, closing never takes another connection's
\* descriptor with it, and the units of an answer are counted once.
SocketsAreRight == http!ErrorsAreReal /\ http!DescriptorsApart /\ http!StreamIntact
\* Requests are answered, and connections whose client has gone are closed.
AllServed == running = "http_server" => http!AllServed

\* Creatures and threads meet in pairs, nobody meets itself, each meeting counts
\* for both and no message is left over.
MeetingsArePairs ==
    /\ chameneos!TotalIsTwice /\ chameneos!NobodyMeetsItself /\ chameneos!NothingLeft
    /\ cooperation!Mutual

\* The derivative is right and is kept where memory is.
DerivativeIsRight == ad!GradientIsRight /\ ad!MemoryIsThere

\* No interleaved search is lost on its way through the queue, and each is counted
\* once with the answer that is right for its key.
LookupsAreRight == looking!NoneLost /\ looking!AnswersAreRight

\* Every program that is meant to end does: the workers leave, creatures and broker
\* return, and the lookups are answered if the queue holds as many streams.  The
\* threads of c_solution meet for ever.
ProgramsGoOn ==
    /\ running \in TaskPrograms \cup {"chameneos", "lookups"} =>
          <>(Terminated /\ (running = "lookups" => looking!Ended))
    /\ running = "cooperation" => cooperation!MeetingsGoOn
=============================================================================
