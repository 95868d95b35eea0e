# A TLA+ model of libseff

This directory specifies libseff, a C library of effect handlers over one-shot
continuations, the scheduler, task queues, sockets and actors built on it, and
the concurrent programs written with them.  It holds the modules, the TLC
configurations that check them, and proofs for TLAPS.
Paths below are relative to the repository's `src/` directory unless they name
a file of this directory.  `PROJECT.json` maps each definition to the lines it
was translated from.

    tlc -config MCSeffNesting.cfg MCSeff.tla      # one model-checking run
    tlapm SeffProofs.tla                          # one module of proofs

## 1. The system

| Component | Source | State | Operations |
|---|---|---|---|
| coroutine runtime | `src/seff.c`, `src/seff.h`, `asm/seff.S` | per thread: `_seff_current_coroutine` and the stack `%rsp` points into; per coroutine: `state`, `parent_coroutine`, `handled_effects`, `resume_point` | new, delete, resume, yield, exit, return (the prelude), perform, throw, `YIELD`, locate a handler, set and get default handlers |
| generative effect ids | `src/seff.c:165-200` | a doubly linked list of cells; the default-handler word of each id | allocate, deallocate, set and get the handler |
| task scheduler | `scheduler/scheff.c` | a queue per worker, `remaining_tasks`, tasks with poll conditions | init, schedule, run; per worker: pop, steal, resume; per effect: fork, poll, sleep, wake |
| locked task queue | `utils/tl_queue.c` | spin lock, `head`, `tail`, ring, priority slot | push, priority push, pop, steal, grow |
| lock-free task queue | `utils/tk_queue.c` | the same fields without a lock | the same, by compare-and-exchange on `head` |
| Chase-Lev task queue | `utils/cl_queue.c` | `top`, `bottom`, ring | push, pop (newest), steal (oldest, may abort) |
| actor mailbox | `utils/actors.c` | ring of pointers, `reserved_size`, `ready_size`, `write_loc`, `start` | insert, remove, and send and receive that poll around them |
| stack memory | `src/mem/seff_mem_segmented.{c,S}` | per coroutine: a doubly linked list of stack segments and `frame_ptr` in it; per thread: the limit in `%fs:0x70` | init, delete, `__morestack` (with and without the room for code that does not split) and its return |
| syscall wrappers | `src/seff.h`, `asm/seff.S` | thread-local `_seff_system_stack` and the paused coroutine's stack and limit | switch to the system stack and back, or straight through |
| asynchronous sockets | `utils/net.c` | none of its own; the kernel's sockets | accept, receive, send, send all: each tries, polls, tries once more |
| HTTP server | `bench/http_server_bench_/libscheff.c`, `utils/http_response.c` | per connection: a buffer of what was received | listen, serve a connection, close |
| skynet task programs | `bench/skynet_bench/libseff_{async,async_tk,scheff_sleep,scheff_poll}.c` | tasks, promises with a spin lock or a flag, a queue per worker | fork, wait for a promise, fulfil it; the first two bring their own worker loop |
| chameneos | `bench/chameneos_bench/` | creatures, a broker or a handler, mailboxes; semaphores in the reference program | ask for a meeting, pair, answer, finish |
| automatic differentiation | `bench/ad_bench/` | the active handlers, values and derivatives | evaluate, propagate back |
| interleaved lookups | `bench/prefetching_lookups_bench_/libseff.c`, `libseff_infra.h` | a queue of coroutines of fixed size, the free streams, the counts of answers | start a lookup, resume the oldest one to its next yield, count its answer |
| declaration generator, unwinder tables, other benchmarks, tests | `decls/`, `asm/dwarf.S`, `bench/`, `tests/` | - | - |

How they interact.  A task of the scheduler is a coroutine; a worker resumes it
with the scheduler's four effects as its handled set and looks at the request it
gets back.  Workers share only the queues, the counter and what wakers hold, so
the scheduler rests on the runtime (a continuation may be resumed on another
thread than the one it was captured on) and on the queue it was compiled with
(a task comes out once).  Actors and the socket helpers are clients of the
scheduler: they perform `poll` with a condition and try again.  Promises are
clients of `sleep`, `wake` and `poll` and live in the stack frame of the task that
waits for them, so their users depend on when the scheduler lets a task run and
frees it.  Runtime and memory policy meet in the limit that prologues compare
`%rsp` with: every switch saves and loads it, `__morestack` moves it, and a wrapped
call sets it to zero.

Which behaviours are hard:

 * control that jumps between stacks, where the current coroutine, the stack
   pointer and the parent link are changed by separate instructions and must
   agree after every switch;
 * continuations that are captured with coroutines nested in them and resumed on
   another thread, or abandoned by a throw;
 * a task whose waker is published before its worker has let go of it;
 * growth of a ring while thieves hold a pointer to the old one; and relaxed or
   missing synchronisation in the lock-free queues;
 * unfairness: poll conditions that stay false, a spin lock that is not fair,
   thieves that abort;
 * a coroutine left, captured or deleted in the middle of its list of segments, and
   a limit that belongs to another stack than the one in use;
 * a promise fulfilled between a look at it and going to sleep, in a frame its
   owner may leave as soon as it is woken;
 * sockets that hang up, reset or deliver a request in pieces, and descriptors
   that are reused as soon as they are closed;
 * programs that wait for one another through bounded mailboxes or semaphores;
 * searches suspended half-way in a queue that drops what does not fit and answers
   NULL when it is empty.

What makes each component correct:

 * *runtime*: the pointers spell disjoint chains without cycles; every way out of
   a coroutine leads back to its latest resumer; no stack can be entered twice;
   the handler found is the innermost one; what a client may resume is alive;
 * *generative ids*: the list never points to freed memory and reaches every live
   id, as far as clients leave its links alone, and an id gives the default handler
   installed for it;
 * *scheduler*: no task is lost, run twice or used after it was freed; workers
   leave exactly when no task is left; queued tasks are taken; `scheff_run` returns;
 * *queues*: each is linearizable to the atomic queue its users assume; no freed
   array is touched; the lock comes back;
 * *mailbox*: messages are delivered, in order, none overwritten or announced early;
 * *stack memory*: each segment is on exactly one list, the limit is that of the
   stack in use, a frame and what runs below it fits the segment, and the borrowed
   system stack is not in use;
 * *sockets and server*: progress is counted only when there was any, -1 means an
   error, requests are answered and descriptors closed once;
 * *task programs*: a task is resumed when its promise is fulfilled, with the right
   answer, no frame is used after it is gone, and the workers leave at the end;
 * *chameneos*: meetings are between two different creatures and count for both, and
   everybody goes home;
 * *differentiation*: the derivative is right in each program, and is kept where
   there is memory;
 * *lookups*: each search answers right however they are interleaved, is counted once,
   and with a number of streams the queue can hold none is dropped and no empty queue
   is resumed.

## 2. Modules

| Module | Models | State and actions |
|---|---|---|
| `Seff` | the runtime | One action per entry point; `seff_yield` and `seff_exit` are the two switches that the client calls (`Yield`, `Exit`, `YIELD`), the prelude and the search's end share.  The loop of `seff_locate_handler` is one action per turn. |
| `EffectHandlers` | what the runtime promises | Chains and continuations as sequences; performing cuts a chain at the innermost handler. |
| `SeffImplements` | `Seff` implements `EffectHandlers` | The sequences are read off the `parent_coroutine` pointers. |
| `SeffProofs` | the theorems about `Seff` | - |
| `GenIds` | generative ids | The three operations on the list; the word written by `seff_set_default_handler` is the cell's first, `previous`; any function or NULL. The history variables `overwritten` and `lost` say whose word a client wrote last, and whether one has been followed. |
| `GenIdsProofs` | the theorems about `GenIds` | - |
| `Scheff` | scheduler | `pc[w]` is where a worker is in `scheff_worker_thread`; a step goes up to the next access to shared state.  A task returns or performs any of its effects. |
| `ScheffProofs` | the theorems about `Scheff` | - |
| `WorkQueue` | the queue `Scheff` assumes | Atomic steps: the items, the owner's slot, and what each thread holds. |
| `CircularArray` | `utils/circular_array.h` | The ring, its index masking and its growth, shared by the three queues. |
| `TaskQueue` | what the queue models share | Threads, elements and bounds. |
| `TlQueue` | locked queue | One action per access to a field, with the lock as a variable; freed arrays are remembered. |
| `TkQueue` | lock-free queue | One action per access to a shared field, sequentially consistent. |
| `WorkDeque`, `ClQueue` | Chase-Lev queue and its promise | As above, with the owner's store buffer (total store order) and the fence. |
| `TaskQueues` | the macro `QUEUE` of `scheduler/scheff.h` | One of the three queues, chosen in the initial state. |
| `TaskQueuesProofs` | the theorems about the three queues | - |
| `Mailbox` | actor mailbox | One action per atomic operation or access to the array; `NDEBUG` says whether `assert(result)` is compiled in. |
| `MailboxProofs` | the theorems about `Mailbox` | - |
| `Stacks` | segmented stacks, syscall wrappers | `Call` is a prologue, through `__morestack` when the limit says so; `Return`, the switches and the wrappers. Addresses are offsets in a segment. |
| `StacksProofs` | the theorems about `Stacks` | - |
| `Net` | `utils/net.c` | `call[t]` is the `await_*` call of a task; the kernel's sockets, hangups, resets and descriptors are external actions. |
| `HttpServer` | the HTTP server over `Net` | Listening tasks, a task per connection, clients that ask in pieces, wait, and may go. |
| `Skynet` | what the four task programs share | The tree of tasks, queues, the stealing loop, promises, freeing a task. |
| `AsyncAwait`, `AsyncTk`, `AsyncCl` | `libseff_async_tk.c`, `libseff_async.c` | Their worker loop and its three cases; the two programs differ in the queue and in whether new and woken tasks have priority. |
| `PromiseSleep`, `PromisePoll` | `libseff_scheff_sleep.c`, `libseff_scheff_poll.c` | The promises, over the scheduler's steps. |
| `Chameneos`, `Cooperation` | the three libseff programs; the reference program | A step goes up to the next mailbox or semaphore operation. |
| `AD` | the four programs of `bench/ad_bench` | The recursion of `handle` as a sequence of frames, on the way in and out. |
| `Lookups` | the interleaved lookups | `SeffMultiLookup`'s loops, `coro_queue`, and the binary search from one yield to the next. |
| `Benches` | the programs without tasks beside each other | Constants, variables and instances of `HttpServer`, `Chameneos`, `Cooperation` and `Lookups`. |
| `Programs` | the programs, one at a time | Extends `Skynet` and `Benches`; which one runs is chosen in the initial state. |
| `BenchesProofs`, `ProgramsProofs` | lemmas about the programs of `Benches`; the theorems about `Programs` | - |
| `MC*` | instances for TLC | Effect sets, tables and symmetry. |

How they compose: `Seff` => `EffectHandlers` (refinement); `TlQueue` and
`TkQueue` => `WorkQueue`, of which `Scheff`'s `ENQUEUE`, `ENQUEUE_PRIORITY`,
`PopBuffer`, `Take` and `PopEmpty` are the atomic steps; `ClQueue` => `WorkDeque`.
`Scheff` abstracts the runtime to the task's `state` and the effect it performs.
`Skynet` takes its queues as atomic too.  That is the one link of this chain which is an
assumption and no result: `libseff_async_tk.c` uses the lock-free queue, which is atomic only as
long as no steal meets a growth, as `tk_queue_growth` shows, and its queue does grow.
`HttpServer` takes the scheduler as something
that resumes a task whose condition holds, and `Chameneos` mailboxes as bounded
queues, which `Mailbox` shows of one sender at a time: its actors run on one thread.

Modelling decisions worth knowing:

 * *Names*.  A coroutine, its object and its stack have one name, and so have a
   thread and its stack.  Registers, payloads and stack contents are left out.
   A saved context is the stack it resumes on, the coroutine it belongs to and the
   kind of call site it returns into.
 * *The contract of clients* of `Seff`: a coroutine is resumed only while it is
   the root of a suspended continuation, and deleted only while it is not entered
   or captured inside another.  The library checks neither.  The history variables
   `home` and `depth` say which coroutines that is; the code has no such fields,
   and no action reads them except to express this contract.
 * *Memory malloc returns* is the constant `Junk`: `seff_coroutine_new` leaves
   `parent_coroutine` and `handled_effects` as they are, and so does the model.
 * *`HANDLES_ALL`* is a static array in the header, so each translation unit has its
   own; `seff_find_effect_in` knows only that of `seff.c`.  An effect set therefore
   says which object it points to.  Only `seff_resume_handling_all`, compiled into
   the library, passes it in this repository.
 * *Steps*.  Within one thread, straight-line code that only touches state no other
   thread sees is one step with the shared access before it.
 * *A failed malloc* ends the process in the code and is not modelled.
 * *Stack addresses*: `malloc` answers multiples of 16 and the segment header is one
   long, so an offset is aligned as its address is.  What code between two
   prologues pushes is part of its frame.  The compiler's shortcut for small frames,
   which compares `%rsp` itself with the limit, is left out: it needs the same
   padding again.
 * *The kernel* answers `poll` with a hangup when the peer has gone, with or without
   data left to read; `await_recv` then answers 0 and drops the data, as does
   `await_accept4`, whose caller takes 0 for a descriptor.  A listening socket does
   not hang up here, and `NFds` is at least the number of connections: any failing
   `accept4` ends the listening task for good.  `await_send_all` is never called
   with nothing to send; it would answer an uninitialised value.
 * *SIGPIPE*: `net.c` sends without `MSG_NOSIGNAL` and nothing changes how the signal is
   handled.  A client that closes its end and then resets the connection makes
   the next send answer EPIPE, which ends the process (`Net!SIGPIPE`); a reset without a
   close is ECONNRESET, an ordinary -1.  `AllServed` is stated up to that.
 * *Clients of the HTTP server* ask for one page at a time.  A request sent before
   the answer to the last one has come could be lost with the rest of the buffer,
   which the server starts anew for each.
 * *Forks* in the task programs: the parent goes to the queue and the child to the
   slot of the worker in one step, since only that worker reaches the child.

## 3. Runs

Each passing run's properties are broken by a mutant of the model (the
definitions commented "Mutant"), which shows that the property depends on the
code it is about.

| Run | Instance | Shows |
|---|---|---|
| `seff_nesting` | 1 thread, 3 coroutines, 2 effects, debug build | types, the inductive invariant and the six properties it implies |
| `seff_migration` | 2 threads, 2 coroutines, 1 effect, release build | refinement of `EffectHandlers`; it and the invariants are proved for any number of threads |
| `gen_ids` | 4 interchangeable cells, 1 handler and NULL | the list is intact, see `NoDangling`, `ReachesAll` |
| `gen_ids_handlers` | 2 cells, 1 handler and NULL | *violated*: an id gives its default handler |
| `scheff` | 2 workers, 3 tasks, 5 effects in all | safety and both liveness properties |
| `task_queues` | owner, 2 thieves, 2 elements, 3 pushes, initial size 1, one growth, 3 buffered stores | refinement of `WorkQueue` by `TlQueue` and by `TkQueue` when no steal meets a growing push, of `WorkDeque` by `ClQueue`; use after free, the lock, `AllTaken` |
| `tk_queue_growth` | owner, 1 thief | *violated*: the same without that restriction |
| `mailbox` | 1 sender, 5 messages, 2 places, release build | order, no overwriting, delivery |
| `mailbox_senders` | 2 senders, debug build | *violated*: what is announced is there |
| `stacks` | 2 threads, 2 coroutines, 3 segments, 4 frames deep | segments, the limit, the padding for functions without a red zone, the system stack |
| `stack_red_zone` | 1 thread, 1 coroutine, a red zone of 128 bytes | *violated*: the padding hosts the red zone |
| `programs` | see below | all programs of section 1 |

The bounds.  Three coroutines are the fewest with one between a handler and the
performer, captured or abandoned with it; the theorems then cover every number.
Two threads and two coroutines are the fewest for a continuation with a nested
coroutine captured on one thread and resumed on the other.  Four cells give a
removal at the head, in the middle and at the end, with a neighbour in the interior;
what clients install is a function or NULL there, and any address in the theorems.
(With three cells, every cell's address as a handler was checked by hand.)  Two workers and three tasks let a task be woken, stolen, run and
freed by one worker while another is still serving it, and a third one be
forked meanwhile; five effects are enough for a fork, a sleep, a poll and a wake
with one to spare.  A ring of one place with three pushes grows and wraps around,
also with elements moved across the new boundary.  `MaxBuffer` of three holds all
the stores of one push that grows.  A mailbox of two places and five messages
fills, wraps twice and makes the sender poll.

In `stacks`, frames of 56 bytes with 0 or 120 bytes of parameters, wrapped calls that
ask for 32 more, and a first segment of 32 bytes make calls fit, allocate,
insert a segment before one too small and reuse one; three segments are one more than
there are coroutines; and the two sizes differ in their alignment, so the 8 bytes lost
to it occur.  The sizes are scaled down from the code's (4 kB and more); the
header's 128 bytes of padding are not.

In `programs`: two workers and a binary tree of seven tasks in three layers, the
smallest with an inner node that is neither root nor last; one listening task and
two connections, two descriptors, requests of two pieces, an answer of three over a
send buffer of two, so that `await_send_all` has to loop, and two requests in all; three
creatures, two meetings and mailboxes of one place, so that one creature is left over;
three threads for the two places of a rendez-vous; up to three turns of the
differentiated loop for three inputs; and up to three lookups of four keys in five arrays of
zero to five elements, which is three turns of the search, over a queue of two with 0, 2 or 3
streams: none, as many as it holds, and one too many.  The programs share nothing, so their state
spaces add up.  Mailboxes of 2, 3 and 8 places were checked by hand with the same result.

`CHECK_DEADLOCK FALSE` is said where the system may stop: `Seff` (the process
exits or crashes), `GenIds` (a removal writes through a handler's address),
`TkQueue` and `Mailbox` (the bound on pushes or messages is used up, or an
assertion fails).  Where a program ends, `Programs` has a stuttering step, so that
TLC would report any other end as a deadlock.

### Fairness

 * `Scheff!FairSpec`: every worker thread is run by the operating system, and a
   task that has been resumed goes on to perform an effect or return.  Poll
   conditions are *not* assumed to come true, nor wakers to be used: `RunReturns`
   says that `scheff_run` returns unless from some time on there is always a sleeping
   task or a polling one.  `QueuedIsTaken` needs neither.
 * `TlQueue!FairSpec`: a thread inside a call keeps executing.  Acquiring the spin
   lock is not assumed to succeed ever; `LockReleased` does not need it.
 * `ClQueue!FairSpec`: stores reach memory, calls go on, and thieves look again, as
   idle workers do in their loop.  The owner need not pop.
 * `TaskQueues!FairSpec`: the above, for the queue that is chosen.
 * `Mailbox!FairSpec`: the scheduler runs both tasks.
 * `Programs!FairSpec`: worker threads, the reference program's threads, the actors,
   the server's tasks and the loops of the lookups run when they can, which the operating system and the scheduler
   give them (`scheff`: a queued task is taken); a client that waits for an answer reads
   what comes.  Clients need not ask, go on asking, or go away.  Threads waiting for
   a semaphore get no more than that: the semaphores are not assumed to be fair,
   and `MeetingsGoOn` says that there are meetings, not whose.

### What the violated runs found

 * **Generative ids share a word** (`src/seff.c:169`): the default handler is written
   where the id points, which is the cell's `previous` link and not its `handler`.
   The next allocation overwrites it, and `seff_get_default_handler` may answer the
   address of a cell.  A removal follows the word as a link: through a function's address
   it writes into code, and after a handler was uninstalled the NULL makes the head of the
   list skip the live cells in front.  `NoDangling` and `ReachesAll` are stated up to
   such a removal (`lost`).
 * **`tk_queue_steal` reads a stale array** (`utils/tk_queue.c:83`): it loads the array
   before its loop and validates `head` alone.  After the ring has grown it reads an
   old element at a newer head and its exchange succeeds: one task comes out twice
   and another never.
 * **Two senders** (`utils/actors.c:55`): `ready_size` counts messages, not which
   slots are ready, so a later sender announces while the earlier slot is still
   empty and `assert(result)` fails, which ends a debug build.  A release build gives the
   empty place back and `actor_recv` polls on; the late sender then writes into a place
   that may be another message's by now, so there `NoOverwrite` and `InOrder` fail too.
 * **The red zone** (`src/mem/seff_mem_segmented.c:107`): `decls/seff_types.py:122` has 128
   bytes of padding below a segment "to host the red zone".  A function that
   fills what it was announced has the alignment (up to 15 bytes) and the return
   address (8 bytes) below the end of it, so a red zone used in full reaches into
   the canary.  `tests/stack_red_zone.c` writes that far, but in a coroutine's first segment,
   where `seff_coroutine_init_sized` has 16 bytes to spare.

## 4. Proofs

Eight modules of proofs, for every value of the constants: one each about a component, and
two about the programs.

### The runtime: `SeffProofs`

For any number of threads, coroutines and effects, any effect sets and either build:

| Theorem | States |
|---|---|
| `TypeCorrect` | `Spec => []TypeOK` |
| `ChainsWellFormed` | `Spec => []WellFormed`, the inductive invariant |
| `CurrentCorrect` | `Spec => []CurrentOwnsStack` |
| `LeavingCorrect` | `Spec => []LeavesToResumer` |
| `OneShot` | `Spec => []OneWayIn` |
| `ResumableCorrect` | `Spec => []ResumableIsAlive` |
| `InnermostCorrect` | `Spec => []InnermostHandler` |
| `SearchEnds` | `Spec => []SearchDescends` |
| `RuntimeIsHandlers` | `Spec => ImplementsEffectHandlers`, the refinement |

*Assumptions*: `NamesDisjoint` (threads, coroutines, NULL and junk differ, and the
return id is no effect's), `ClientConstants` (the types of what clients
pass) and, for the refinement only, `AddressesAssumption` (there are finitely many
addresses).  TLC evaluates all three in every run of `MCSeff`.

*The argument.*  None of the properties is inductive alone: that the running stack
is the current coroutine's after a yield depends on what was saved in the
handler's resume point, possibly on another thread, and on the parent link of a
coroutine that has since been captured.  `WellFormed` says it of every chain at
once.  An entered or captured coroutine hangs below its parent in the same chain,
one deeper, and its resume point returns to the parent's stack (`ChainLinks`).  The
root of a continuation saved the innermost coroutine of it (`RootContexts`), as
the running thread knows its own (`ThreadContexts`).  No two coroutines share a
place (`PlacesDistinct`), so a cut leaves two chains that share nothing.  And a
search stands in its thread's chain, past coroutines that do not handle the effect
(`SearchPosition`).  Resume concatenates two chains, yield cuts one in two, exit cuts
one and drops the end; there is a lemma per switch and conjunct, and the actions
that reach a switch (a client's yield, `YIELD`, the end of a search, the
prelude) cite it.  The other actions leave the chains alone, or remove one.

*The refinement.*  `EffectHandlers` has chains and continuations as sequences; `chainOf` and
`contOf` read them off the `parent_coroutine` pointers.  `WellFormed` knows the same chains
by where each coroutine is (`home`, `depth`).  `PathSpells` joins the two: the path from the
innermost coroutine of a place up to its end is the sequence of the coroutines
there, one for each depth.  `SpelledOnce` says that a place spells one sequence only, so what
a switch does to places decides what it does to the sequences (`SpellsJoin` for a resume,
`SpellsPrefix` and `SpellsSuffix` for a cut), and `ResumeMapped`, `YieldMapped` and
`ExitMapped` are the three switches as steps of `EffectHandlers`.  The turns of a search
stutter; every other step has a lemma that names the abstract action it is.
A search hands over to a handler that the code found turn by turn; that it is the
innermost one of the chain, as the abstract step demands, is `SearchPosition`.  That
leaves the return id, which everybody handles: the invariant `Requests` (a search for it
ends where it starts) adds that a coroutine which returns is the innermost one itself.
The addresses must be finite because `PathUp` cuts a path that is longer than there are
coroutines: no chain is, as its members are distinct.

### The scheduler: `ScheffProofs`

For any number of workers and tasks, and any bound on the effects performed:

| Theorem | States |
|---|---|
| `InductiveInvariant` | `Spec => []IInv` |
| `Typed` | `Spec => []TypeOK` |
| `NoTaskIsLost` | `Spec => []OnePlace` |
| `CounterIsRight` | `Spec => []RemainingCounts` |
| `LeavesWhenDone` | `Spec => []ExitsWhenDone` |
| `DeadStaysDead` | `Spec => []NeverResumesDead` |

*Assumptions*: `WorkersAssumption` (there is a worker), `TasksAssumption` (`None` is no
task) and `BoundAssumption`, evaluated by TLC in the run `scheff`.

*The argument.*  `OnePlace` counts holders, which is no basis for an induction.
`Placed` says instead that there are two functions, `kind` and `at`, that give every
task its one place, and that every queue, slot, worker and set of wakers holds the
tasks placed there and no others; moreover no queue has a task twice.  An action
that moves a task has a lemma that gives the functions after it.  `Control` ties
what a worker holds to its label: a worker that runs, forks, wakes or finalizes has
a task, others have none.  With `FinishedIsHeld` (a finished task is still with its
worker) this rules out that a finished coroutine comes out of a queue.  `Counts`
is the counter; each step that changes it or what it counts changes both by one.
`Exited` needs all of this: a worker leaves when the counter is zero, so no task
exists, so no worker has one to run, so none is forked.

### The task queues: `TaskQueuesProofs`

For any number of thieves and elements, any initial size of the ring, any number of
pushes and growths, and for `ClQueue` any number of buffered stores:

| Theorem | States |
|---|---|
| `TlInvariant`, `TkInvariant`, `ClInvariant` | the inductive invariant of each queue |
| `LockIsExclusive` | `Spec => []TlMutualExclusion` |
| `ArraysAreThere` | `Spec => []NoUseAfterFree` |
| `QueuesAreAtomic` | `Spec => ImplementsWorkQueue` |
| `DequeIsAtomic` | `Spec => ImplementsWorkDeque` |

The last two are the linearizability of the queues: `WorkQueue` and `WorkDeque` are what
`Scheff` and its users take them for.

*Assumptions*: `ThreadsAssumption` (the owner is no thief), `EltsAssumption` and
`TaskQueuesAssumption` (the answers that are no elements differ from them and from
each other, and the store buffer holds at least one store) and `BoundsAssumption`.  The
code computes `1 << log_size` as an `int`, so `log_size` is at most 30 there.
`TaskQueues` fixes `StealsDuringGrowth` to `FALSE`: for `TkQueue` without that restriction
the theorem is false, which the run `tk_queue_growth` shows.

*The argument.*  Two indices less than a ring apart have places of their own in it
(`PlacesApart`), so a store at the tail leaves the elements from head to tail alone, and
`circular_array_resize`, which copies exactly those, keeps them.  On these rest the three parts.

`TlQueue`: the lock is taken whenever a thread is inside; arrays were freed before the
current one was allocated; and a thread inside that has loaded the array pointer has
loaded the current one.  Each operation takes effect where it changes `head`, `tail` or
the slot; everything else is a stutter.

`TkQueue`: the queue's elements are those from head to tail in the array that is current, as
long as no thief spans a growth.  The exchange on `head` succeeds only where the head a thread
read is still the head, so the element it read there is the oldest.

`ClQueue`: the hard part is the store buffer.  Memory lags behind the owner by a sequence
of stores, any prefix of which may have arrived.  The invariant (`ClStores`) speaks of every
prefix: the array, `bottom` and elements that are visible after it show, at the indices from
`top` on, the same elements as the owner sees, so that a thief's element is right whichever
moment it looks.  `ClPush`, `ClPop` and `ClSteal` say what each thread has read: a thief that
is about to exchange on `top` holds the element there, or `top` has moved on and the exchange fails;
an owner in `pop` has lowered `bottom` and, after the fence, every thief sees it.  The
race for the last element is then decided by the exchange.

### The actor mailbox: `MailboxProofs`

| Theorem | States | For |
|---|---|---|
| `InductiveInvariant` | `Spec => []IInv` | `Checked` |
| `NothingOverwritten` | `Spec => []NoOverwrite` | `Checked` |
| `ReceivedInOrder` | `Spec => []InOrder` | `Checked` |
| `AnnouncedIsWritten` | `Spec => []AnnouncedIsThere` | one sender, either build |

`Checked` is: there is one sender, or it is a debug build.  With several senders the receiver
may take an empty slot.  A debug build ends there, at `assert(result)`, so what the theorems say
of it is about everything up to that point.  A release build (`-DNDEBUG`, `Makefile:24` and
`bench/common.mk:25`) goes on, and nothing is claimed of several senders there: a
message can be overwritten by a sender that was passed.

*Assumptions*: `MailboxAssumption` (the mailbox has a place), `BuildAssumption` (`NDEBUG` is
a Boolean), `SendersAssumption` (finitely many) and `NullAssumption` (no message is NULL).

*The argument.*  The two counters count threads by where they are: `reserved_size` is the
places claimed and not given back plus the senders about to claim (`Counters`), and
`ready_size` the messages announced and not taken.  A sender that claims place `n` therefore
has `n` less than a capacity ahead of the receiver, and `Tickets`, which numbers the claims
and says which sender and message each belongs to, gives every claim a slot of its own.
What is in a slot is the message of the claim it belongs to, or nothing yet; `InOrder`
follows because a sender's claims rise.  All of this needs that the receiver gives back
only places it has found full (`Finds`).  In a debug build the assertion sees to it; with one
sender `OneWriter` does: only the last place claimed can still be empty, and then its sender
stands before it and has not announced it.

### Generative ids: `GenIdsProofs`

| Theorem | States |
|---|---|
| `InductiveInvariant` | `Spec => []IInv` |
| `NothingDangles` | `Spec => []NoDangling` |
| `EverythingReached` | `Spec => []ReachesAll` |

for any set of cells, and whatever clients install: functions, NULL, the address of a cell.
*Assumption*: `AddressesDistinct` (the cells, the static cell, NULL and what malloc leaves are
different addresses).  What the last two say holds until a removal follows a word that a
client has written over (`lost`).  That is a limit of the code and not of the proof: from
then on the list may skip live ids, or memory outside it be written.

*The argument.*  Reachability is not inductive in a list that is cut and joined.  `Linked`
says that a function lists the cells from the head to the static one, each live one once, and
that a cell's `previous` is the one before it unless a client wrote it last (`overwritten`).
An allocation puts a cell in front and writes the old head's link anew, whatever a client had
put there; a removal whose link is a link shifts what comes after it; what a client writes
changes no `next` field, which is why the list stays whole until the word is followed.

### Stack memory and wrappers: `StacksProofs`

| Theorem | States |
|---|---|
| `InductiveInvariant` | `Spec => []IInv` |
| `SegmentsOwnedOnce` | `Spec => []OwnedOnce` |
| `LimitIsTheStacks` | `Spec => []LimitMatchesStack` |
| `FramesFit` | `RedZone =< Padding - 23` implies `Spec => []RedZoneFits` |
| `SystemStackNoted` | `Spec => []SystemStackIsFree` |

for any threads, coroutines, sizes of frames and parameters, and bounds.
*Assumptions*: `SizesAssumption` (sizes are naturals), `BoundsAssumption` and
`NullAssumption`.  `FramesFit` needs its hypothesis: 15 bytes may be lost to the
alignment and 8 go to the return address, so 105 of the 128 bytes are left, and
the run `stack_red_zone` refutes the property for a full red zone.

*The argument.*  `SegmentsOwned` gives every allocated segment its coroutine and its position
on that coroutine's list; `frame_ptr` stands at the position that counts the frames which
`__morestack` has opened, so that its return is always to the segment before.
`PlacesKept` gives every coroutine the place where its frames wait (under a thread's running
coroutine, in a continuation, or nowhere they can be resumed from) and how deep; a
switch moves all that lie above the cut, and so no two places hold the same coroutine, and the
limit saved in each is that of the stack saved with it.

### The programs: `BenchesProofs` and `ProgramsProofs`

| Theorem | States | For any |
|---|---|---|
| `SocketsCorrect` | `EnoughDescriptors` implies `Spec => []SocketsAreRight` | listeners, clients, lengths, buffers |
| `StreamsCorrect` | its parts `DescriptorsApart` and `StreamIntact` without that condition | the same, and any number of descriptors |
| `LookupsCorrect` | `Spec => []LookupsAreRight` | sorted arrays, keys, streams, capacity |
| `OneMutex` | `Spec => []OneToken` | threads |
| `MeetingsCorrect` | `Spec => []MeetingsArePairs` | creatures (two at least), threads, colours, meetings, mailboxes |

*Assumptions*: `HttpAssumption`, `LookupsAssumption` and `ChameneosAssumption`, the
constants' assumptions of those programs; there are at least two creatures, as one has
nobody to meet.  `EnoughDescriptors` says that there is a descriptor for each of finitely many connections:
without it `accept4` fails and ends a listening task for good.

`Programs` runs one program and leaves the variables of the others alone, so an invariant
of one program that `Benches` instantiates is one of `Programs` (`EachBegins`, `EachGoesOn`).
`BenchesProofs` proves that each such invariant holds at first, is kept, and implies what the
run checks; it is a module of its own because it needs nothing of `Skynet` and `AD`, whose
definitions would only be in its way.

*Sockets* (`SocketsInv`).  A connection is in one backlog once or with one listener, and its
descriptor is its own.  What poll has announced is still there at the second try, since
only the task itself takes from its socket; that is why -1 means an error.  The units of a request
are in order across the buffer, the call and the socket (`InOrder`); and what a client has
got, what is on its way and what is yet to be sent make up the page it asked for
(`Answered`), so nothing is counted twice by `await_send_all`'s loop.

*Lookups* (`LookupsInv`).  The key is in the part of the array that a suspended search has
left, or nowhere (`Halves`).  The free streams and the searches under way make up `streams`
(`StreamsInUse`), so with as many streams as the queue can hold it drops nobody
(`NoneDropped`) and the loops always find somebody in it (`QueueServes`).  That answers are
right holds for any number of streams.

*The reference program* (`CooperationInv`).  The first of a pair takes the mutex and the
second gives it back, or hands it to the first through another semaphore; the invariant
follows it as a token (`OneToken`).  At most one thread waits for a mate and is the one named by
`AColour` (`OneWaits`), and while it waits after the mate has come nobody can overwrite
`BColour` (`MateHasCome`).

*Creatures* (`MeetInv`).  A request is in one place, with the broker or on its way, and its
creature waits for it (`OneRequest`); a creature's mailbox holds at most one answer and then the end
(`Mails`); its report is the last thing it sends and carries its counter (`ReportsLast`).  In the
programs with a handler every other creature is stopped in a `perform` (`Phases`).
With that, the meetings counted by creatures, under way in answers or already added up are two
for each that the broker has made (`MeetsCounted`).

### Only model-checked

 * Of `Programs`, the invariants about the task programs, `TasksAccounted`,
   `FramesAreThere` and `WaitersGetAnswers`, which are not proved yet; and
   `DerivativeIsRight`, which compares a run with a recursive definition of the derivative.
 * Every liveness property: `QueuedIsTaken`, `RunReturns`, `LockReleased`, `AllTaken`,
   `Delivered`, `AllServed` and `ProgramsGoOn`.  They rest on fairness and ENABLED,
   about which TLAPS does not reason.

## 5. Not modelled

 * *Memory models*: `ClQueue` has total store order (x86, which `asm/` is written
   for).  `TkQueue` is sequentially consistent; its finding does not depend on it.
   `Mailbox` and `Scheff` take their atomics as sequentially consistent too.
 * *Allocation and address reuse* inside the queues: `TkQueue` and `ClQueue` never free
   old rings, as the code does not.
 * *Index overflow*: queue indices are 64-bit and only grow; the bounds of the runs
   stand for them.
 * *Concurrent use of the generative ids*: the code has no lock; calls are atomic
   in `GenIds`.  Two threads that allocate or free at once are not covered.
 * *Concurrent use of the wrappers by signal handlers*, and code compiled without
   split stacks that runs on a coroutine's stack without a wrapper.
 * *The fixed stack policy*: it allocates one block per coroutine.
 * *`libseff_async.c` and its parent's frame* (`bench/skynet_bench/libseff_async.c:196`): a woken
   parent goes to a queue that thieves look at while the future's lock, which is in
   its frame, is still to be released; it can have returned by then.  `FramesAreThere` is
   therefore stated of the other three programs only.  The late release itself is taken as
   harmless (it writes nothing that others read), so `WaitersGetAnswers` and `ProgramsGoOn`
   say of that program what holds unless the write hits memory in use again.
 * *A full receive buffer* (`utils/net.c:181`): `await_recv` writes a 0 behind what it has read,
   one byte past a buffer that was filled to its size.  A buffer is a sequence of units here.
 * *Is a coroutine finished?*  `seff_finished` answers by the id of the last request, 0
   (`asm/seff.S:218`), which clients also yield (`tests/coroutine.c:14`).  `Seff` goes by the
   coroutine's state; what a client makes of the id is a hazard in the list.
 * *Floating point, printing, counters of debug builds, HTTP formatting and parsing,
   DWARF tables, the code generator*: no state that a property here is about.
 * *Sequential benchmarks and tests*: one generator or one handler each; `Seff` lets its
   client do what they do.
 * *Reference programs on other libraries* in `bench/`: not this code.
 * *The other lookups* (`bench/prefetching_lookups_bench_/libseff_effect_coro.c`): written for
   an interface that this `seff.h` does not have.

## 6. Plan

The order was: the runtime first, since everything runs on it; then the
scheduler and the queue it is built with by default, then the other queues and
the actors; then what sits below (stacks, wrappers, sockets) and above (the
programs).  All of it is done.  The proofs went the same way, and the queues'
refinements with the ring's lemmas and the refinement of `EffectHandlers` by `Seff` are done
too, and so are the sockets, the creatures and the lookups.  What is left, in this order: as
theorems, `TasksAccounted`, `FramesAreThere` and `WaitersGetAnswers` of the task programs; in
the model, the relaxed stores of `bench/skynet_bench/libseff_scheff_poll.c` and of
`scheduler/scheff.c` under a weaker memory model than program order, the lock-free queue in
`Skynet` as it is and not as an atomic one, and several servers over one descriptor.
