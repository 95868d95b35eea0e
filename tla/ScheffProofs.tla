---------------------------- MODULE ScheffProofs ----------------------------
(***************************************************************************)
(* No task is lost, run twice or used after it was freed, the counter counts *)
(* and the workers leave when they may: for any number of workers and tasks. *)
(***************************************************************************)
EXTENDS Scheff, FiniteSetTheorems, TLAPS

USE WorkersAssumption, TasksAssumption, BoundAssumption

\* TypeOK, but for the counter's sign, which follows from what it counts.
Types ==
    /\ queue \in [Workers -> Seq(Tasks)]
    /\ buffer \in [Workers -> Tasks \cup {None}]
    /\ remaining_tasks \in Int
    /\ state \in [Tasks -> {"FREE", "PAUSED", "FINISHED"}]
    /\ poll_condition \in [Tasks -> BOOLEAN]
    /\ wakers \subseteq Tasks
    /\ pc \in [Workers -> Labels]
    /\ current_task \in [Workers -> Tasks \cup {None}]
    /\ victim \in [Workers -> 0 .. n_workers]
    /\ new_task \in [Workers -> Tasks \cup {None}]
    /\ payload \in [Workers -> [wakers : SUBSET Tasks, resume : BOOLEAN]]
    /\ main \in {"setup", "starting", "worker", "returned"}
    /\ requests \in 0 .. MaxRequests

\* What a worker holds depends on where it is.
Control ==
    /\ main \in {"setup", "starting"} => pc[0] = "off"
    /\ \A w \in Workers :
          /\ current_task[w] # None <=> pc[w] \in {"check", "run", "fork", "wake", "finalize"}
          /\ new_task[w] # None <=> pc[w] = "fork_child"
          /\ pc[w] # "wake" => payload[w].wakers = {}
          /\ main = "setup" => pc[w] = "off"
          /\ pc[w] # "fatal"

\* Where a task is: a kind of place, and the worker it belongs to.
Kinds == {"none", "queue", "buffer", "current", "new", "waking", "waker"}
In(t, s) == \E i \in DOMAIN s : s[i] = t
States(kind) == \A t \in Tasks : state[t] = "FREE" <=> kind[t] = "none"
Wakers(kind) == \A t \in Tasks : t \in wakers <=> kind[t] = "waker"
Queues(kind, at) ==
    \A t \in Tasks, w \in Workers : In(t, queue[w]) <=> kind[t] = "queue" /\ at[t] = w
Buffers(kind, at) ==
    \A t \in Tasks, w \in Workers : buffer[w] = t <=> kind[t] = "buffer" /\ at[t] = w
Currents(kind, at) ==
    \A t \in Tasks, w \in Workers : current_task[w] = t <=> kind[t] = "current" /\ at[t] = w
News(kind, at) ==
    \A t \in Tasks, w \in Workers : new_task[w] = t <=> kind[t] = "new" /\ at[t] = w
Wakings(kind, at) ==
    \A t \in Tasks, w \in Workers :
        t \in payload[w].wakers <=> kind[t] = "waking" /\ at[t] = w
Fits(kind, at) ==
    /\ States(kind) /\ Wakers(kind) /\ Queues(kind, at) /\ Buffers(kind, at)
    /\ Currents(kind, at) /\ News(kind, at) /\ Wakings(kind, at)

Distinct(s) == \A i, j \in DOMAIN s : s[i] = s[j] => i = j

\* Every task has one place, and is there once.
Placed ==
    /\ \E kind \in [Tasks -> Kinds], at \in [Tasks -> Workers] : Fits(kind, at)
    /\ \A w \in Workers : Distinct(queue[w])

\* A task that is finished is still with the worker that ran it, about to be freed.
FinishedIsHeld ==
    \A t \in Tasks : state[t] = "FINISHED" =>
        \E w \in Workers : current_task[w] = t /\ pc[w] = "finalize"

Live == {t \in Tasks : state[t] # "FREE"}
Owed == {w \in Workers : pc[w] \in {"fork", "finalized"}}
Counts ==
    /\ IsFiniteSet(Live)
    /\ remaining_tasks = Cardinality(Live) + Cardinality(Owed)

Exited ==
    (\E w \in Workers : pc[w] = "exit") => main # "setup" /\ \A t \in Tasks : state[t] = "FREE"



-----------------------------------------------------------------------------
\* A task appended to a queue is in it, and once if it was not there.
LEMMA Appended ==
    ASSUME NEW s \in Seq(Tasks), NEW t \in Tasks
    PROVE  /\ Append(s, t) \in Seq(Tasks)
           /\ \A x : In(x, Append(s, t)) <=> In(x, s) \/ x = t
           /\ Distinct(s) /\ ~In(t, s) => Distinct(Append(s, t))
  <1>1. Append(s, t) \in Seq(Tasks)
    OBVIOUS
  <1>2. /\ DOMAIN Append(s, t) = 1 .. Len(s) + 1
        /\ DOMAIN s = 1 .. Len(s)
        /\ \A i \in 1 .. Len(s) : Append(s, t)[i] = s[i]
        /\ Append(s, t)[Len(s) + 1] = t
        /\ Len(s) \in Nat
    OBVIOUS
  <1>3. \A x : In(x, Append(s, t)) <=> In(x, s) \/ x = t
    BY <1>2 DEF In
  <1>4. ASSUME Distinct(s), ~In(t, s) PROVE Distinct(Append(s, t))
    BY <1>2, <1>4 DEF Distinct, In
  <1>5. QED
    BY <1>1, <1>3, <1>4

\* The head of a queue without repetitions is not in what is left of it.
LEMMA Tailed ==
    ASSUME NEW s \in Seq(Tasks), s # <<>>, Distinct(s)
    PROVE  /\ Head(s) \in Tasks
           /\ Tail(s) \in Seq(Tasks)
           /\ In(Head(s), s)
           /\ \A x : In(x, Tail(s)) <=> In(x, s) /\ x # Head(s)
           /\ Distinct(Tail(s))
  <1>1. Head(s) \in Tasks /\ Tail(s) \in Seq(Tasks)
    OBVIOUS
  <1>2. /\ Len(s) \in Nat \ {0}
        /\ DOMAIN s = 1 .. Len(s)
        /\ DOMAIN Tail(s) = 1 .. Len(s) - 1
        /\ \A i \in 1 .. Len(s) - 1 : Tail(s)[i] = s[i + 1]
        /\ Head(s) = s[1]
    OBVIOUS
  <1>3. In(Head(s), s)
    BY <1>2 DEF In
  <1>4. \A x : In(x, Tail(s)) => In(x, s) /\ x # Head(s)
    BY <1>2 DEF In, Distinct
  <1>5. ASSUME NEW x, In(x, s), x # Head(s) PROVE In(x, Tail(s))
    <2>1. PICK i \in DOMAIN s : s[i] = x
      BY <1>5 DEF In
    <2>2. i - 1 \in 1 .. Len(s) - 1 /\ Tail(s)[i - 1] = x
      BY <1>2, <1>5, <2>1
    <2>3. QED
      BY <1>2, <2>2 DEF In
  <1>6. Distinct(Tail(s))
    BY <1>2 DEF Distinct
  <1>7. QED
    BY <1>1, <1>3, <1>4, <1>5, <1>6


\* ENQUEUE adds one task to one queue.
LEMMA Enqueues ==
    ASSUME Types, NEW w \in Workers, NEW t \in Tasks, ENQUEUE(w, t),
           \A v \in Workers : Distinct(queue[v]), ~In(t, queue[w])
    PROVE  /\ queue' \in [Workers -> Seq(Tasks)]
           /\ buffer' = buffer
           /\ \A v \in Workers : \A x :
                 In(x, queue'[v]) <=> In(x, queue[v]) \/ (v = w /\ x = t)
           /\ \A v \in Workers : Distinct(queue'[v])
  <1>1. queue' = [queue EXCEPT ![w] = Append(queue[w], t)] /\ buffer' = buffer
    BY DEF ENQUEUE
  <1>2. /\ Append(queue[w], t) \in Seq(Tasks)
        /\ \A x : In(x, Append(queue[w], t)) <=> In(x, queue[w]) \/ x = t
        /\ Distinct(Append(queue[w], t))
    BY Appended DEF Types
  <1>3. QED
    BY <1>1, <1>2 DEF Types

\* ENQUEUE_PRIORITY moves the task in the slot to the queue.
LEMMA EnqueuesFirst ==
    ASSUME Types, NEW w \in Workers, NEW t \in Tasks, ENQUEUE_PRIORITY(w, t),
           \A v \in Workers : Distinct(queue[v]), ~In(buffer[w], queue[w])
    PROVE  /\ queue' \in [Workers -> Seq(Tasks)]
           /\ buffer' = [buffer EXCEPT ![w] = t]
           /\ \A v \in Workers : \A x \in Tasks :
                 In(x, queue'[v]) <=> In(x, queue[v]) \/ (v = w /\ x = buffer[w])
           /\ \A v \in Workers : Distinct(queue'[v])
  <1>1. buffer' = [buffer EXCEPT ![w] = t]
    BY DEF ENQUEUE_PRIORITY
  <1>2. CASE buffer[w] = None
    BY <1>1, <1>2 DEF ENQUEUE_PRIORITY, Types
  <1>3. CASE buffer[w] # None
    <2>1. queue' = [queue EXCEPT ![w] = Append(queue[w], buffer[w])]
      BY <1>3 DEF ENQUEUE_PRIORITY
    <2>2. /\ Append(queue[w], buffer[w]) \in Seq(Tasks)
          /\ \A x : In(x, Append(queue[w], buffer[w])) <=> In(x, queue[w]) \/ x = buffer[w]
          /\ Distinct(Append(queue[w], buffer[w]))
      BY <1>3, Appended DEF Types
    <2>3. QED
      BY <1>1, <2>1, <2>2 DEF Types
  <1>4. QED
    BY <1>2, <1>3

\* Pop and steal move one task from a queue to a worker.
LEMMA Takes ==
    ASSUME Types, NEW w \in Workers, NEW v \in Workers, Take(w, v),
           \A u \in Workers : Distinct(queue[u])
    PROVE  \E h \in Tasks :
           /\ In(h, queue[v])
           /\ current_task' = [current_task EXCEPT ![w] = h]
           /\ queue' \in [Workers -> Seq(Tasks)]
           /\ buffer' = buffer
           /\ \A u \in Workers : \A x :
                 In(x, queue'[u]) <=> In(x, queue[u]) /\ ~(u = v /\ x = h)
           /\ \A u \in Workers : Distinct(queue'[u])
  <1>1. /\ queue[v] # <<>> /\ queue[v] \in Seq(Tasks)
        /\ queue' = [queue EXCEPT ![v] = Tail(queue[v])]
        /\ current_task' = [current_task EXCEPT ![w] = Head(queue[v])]
        /\ buffer' = buffer
    BY DEF Take, Types
  <1>2. /\ Head(queue[v]) \in Tasks
        /\ Tail(queue[v]) \in Seq(Tasks)
        /\ In(Head(queue[v]), queue[v])
        /\ \A x : In(x, Tail(queue[v])) <=> In(x, queue[v]) /\ x # Head(queue[v])
        /\ Distinct(Tail(queue[v]))
    BY <1>1, Tailed
  <1>3. QED
    BY <1>1, <1>2 DEF Types

\* Queues hold tasks only.
LEMMA NoneNotIn ==
    ASSUME NEW s \in Seq(Tasks)
    PROVE  ~In(None, s)
  BY DEF In

-----------------------------------------------------------------------------
(* Where the tasks are.  A step that moves one has a lemma that says that each
   task still has one place. *)

Where == Types /\ Control /\ Placed /\ FinishedIsHeld
IInv == Where /\ Counts /\ Exited

\* To show Placed in the next state, give the new places.
LEMMA PlacedNext ==
    ASSUME NEW kind \in [Tasks -> Kinds], NEW at \in [Tasks -> Workers],
           Fits(kind, at)', \A w \in Workers : Distinct(queue'[w])
    PROVE  Placed'
  BY DEF Placed

\* What the lemmas below need of the types.
LEMMA Shape ==
    ASSUME Where
    PROVE  /\ buffer \in [Workers -> Tasks \cup {None}]
           /\ current_task \in [Workers -> Tasks \cup {None}]
           /\ new_task \in [Workers -> Tasks \cup {None}]
           /\ payload \in [Workers -> [wakers : SUBSET Tasks, resume : BOOLEAN]]
           /\ state \in [Tasks -> {"FREE", "PAUSED", "FINISHED"}]
           /\ wakers \subseteq Tasks
  BY DEF Where, Types

\* scheff_schedule: a new task is in the queue of worker 0.
LEMMA SchedulePlaces ==
    ASSUME Where, NEW t \in Tasks, scheff_schedule(t)
    PROVE  Placed'
  <1>a. Types
    BY DEF Where
  <1>b. PICK kind \in [Tasks -> Kinds], at \in [Tasks -> Workers] : Fits(kind, at)
    BY DEF Where, Placed
  <1>d. \A v \in Workers : Distinct(queue[v])
    BY DEF Where, Placed
  <1>1. 0 \in Workers
    BY DEF Workers
  <1>2. kind[t] = "none"
    BY <1>b DEF scheff_schedule, Allocate, Fresh, Fits, States
  <1>3. ~In(t, queue[0])
    BY <1>1, <1>2, <1>b DEF Fits, Queues
  <1>4. /\ queue' \in [Workers -> Seq(Tasks)]
        /\ buffer' = buffer
        /\ \A v \in Workers : \A x :
              In(x, queue'[v]) <=> In(x, queue[v]) \/ (v = 0 /\ x = t)
        /\ \A v \in Workers : Distinct(queue'[v])
    BY <1>1, <1>3, <1>a, <1>d, Enqueues DEF scheff_schedule
  <1>5. \A v \in Workers : \A x \in Tasks : In(x, queue'[v]) <=> In(x, queue[v]) \/ (v = 0 /\ x = t)
    BY <1>4
  <1>6. buffer' = buffer
    BY <1>4
  <1> DEFINE kind2 == [kind EXCEPT ![t] = "queue"]
         at2 == [at EXCEPT ![t] = 0]
  <1>7. /\ kind2 \in [Tasks -> Kinds] /\ at2 \in [Tasks -> Workers]
        /\ kind2[t] = "queue" /\ at2[t] = 0
        /\ \A x \in Tasks \ {t} : kind2[x] = kind[x] /\ at2[x] = at[x]
    BY <1>b, <1>1, <1>2, <1>3 DEF Kinds
  <1> HIDE DEF kind2, at2
  <1>8. Fits(kind2, at2)'
    <2>1. States(kind2)'
      BY SMTT(90), <1>b, Shape, <1>1, <1>2, <1>3, <1>7
         DEF scheff_schedule, Allocate, Fresh, Fits, States, sched, tasks, worker, Goto
    <2>2. Wakers(kind2)'
      BY SMTT(90), <1>b, Shape, <1>1, <1>2, <1>3, <1>7
         DEF scheff_schedule, Allocate, Fresh, Fits, Wakers, sched, tasks, worker, Goto
    <2>3. Queues(kind2, at2)'
      BY SMTT(90), <1>b, Shape, <1>1, <1>2, <1>3, <1>5, <1>7
         DEF scheff_schedule, Allocate, Fresh, Fits, Queues, sched, tasks, worker, Goto
    <2>4. Buffers(kind2, at2)'
      BY SMTT(90), <1>b, Shape, <1>1, <1>2, <1>3, <1>6, <1>7
         DEF scheff_schedule, Allocate, Fresh, Fits, Buffers, sched, tasks, worker, Goto
    <2>5. Currents(kind2, at2)'
      BY SMTT(90), <1>b, Shape, <1>1, <1>2, <1>3, <1>6, <1>7
         DEF scheff_schedule, Allocate, Fresh, Fits, Currents, sched, tasks, worker, Goto
    <2>6. News(kind2, at2)'
      BY SMTT(90), <1>b, Shape, <1>1, <1>2, <1>3, <1>7
         DEF scheff_schedule, Allocate, Fresh, Fits, News, sched, tasks, worker, Goto
    <2>7. Wakings(kind2, at2)'
      BY SMTT(90), <1>b, Shape, <1>1, <1>2, <1>3, <1>7
         DEF scheff_schedule, Allocate, Fresh, Fits, Wakings, sched, tasks, worker, Goto
    <2> QED
      BY <2>1, <2>2, <2>3, <2>4, <2>5, <2>6, <2>7 DEF Fits
  <1>9. \A v \in Workers : Distinct(queue'[v])
    BY <1>4
  <1> QED
    BY <1>7, <1>8, <1>9, PlacedNext

\* A task leaves the priority slot.
LEMMA PopBufferPlaces ==
    ASSUME Where, NEW w \in Workers, PopBuffer(w)
    PROVE  Placed'
  <1>a. Types
    BY DEF Where
  <1>b. PICK kind \in [Tasks -> Kinds], at \in [Tasks -> Workers] : Fits(kind, at)
    BY DEF Where, Placed
  <1>d. \A v \in Workers : Distinct(queue[v])
    BY DEF Where, Placed
  <1>1. PICK b \in Tasks : b = buffer[w]
    BY Shape DEF PopBuffer
  <1>2. kind[b] = "buffer" /\ at[b] = w
    BY <1>b, <1>1 DEF Fits, Buffers
  <1>3. current_task[w] = None
    BY DEF PopBuffer, Where, Control
  <1> DEFINE kind2 == [kind EXCEPT ![b] = "current"]
         at2 == [at EXCEPT ![b] = w]
  <1>4. /\ kind2 \in [Tasks -> Kinds] /\ at2 \in [Tasks -> Workers]
        /\ kind2[b] = "current" /\ at2[b] = w
        /\ \A x \in Tasks \ {b} : kind2[x] = kind[x] /\ at2[x] = at[x]
    BY <1>b, <1>1, <1>2, <1>3 DEF Kinds
  <1> HIDE DEF kind2, at2
  <1>5. Fits(kind2, at2)'
    <2>1. States(kind2)'
      BY SMTT(90), <1>b, Shape, <1>1, <1>2, <1>3, <1>4
         DEF PopBuffer, Fits, States, sched, tasks, worker, Goto
    <2>2. Wakers(kind2)'
      BY SMTT(90), <1>b, Shape, <1>1, <1>2, <1>3, <1>4
         DEF PopBuffer, Fits, Wakers, sched, tasks, worker, Goto
    <2>3. Queues(kind2, at2)'
      BY SMTT(90), <1>b, Shape, <1>1, <1>2, <1>3, <1>4
         DEF PopBuffer, Fits, Queues, sched, tasks, worker, Goto
    <2>4. Buffers(kind2, at2)'
      BY SMTT(90), <1>b, Shape, <1>1, <1>2, <1>3, <1>4
         DEF PopBuffer, Fits, Buffers, sched, tasks, worker, Goto
    <2>5. Currents(kind2, at2)'
      BY SMTT(90), <1>b, Shape, <1>1, <1>2, <1>3, <1>4
         DEF PopBuffer, Fits, Currents, sched, tasks, worker, Goto
    <2>6. News(kind2, at2)'
      BY SMTT(90), <1>b, Shape, <1>1, <1>2, <1>3, <1>4
         DEF PopBuffer, Fits, News, sched, tasks, worker, Goto
    <2>7. Wakings(kind2, at2)'
      BY SMTT(90), <1>b, Shape, <1>1, <1>2, <1>3, <1>4
         DEF PopBuffer, Fits, Wakings, sched, tasks, worker, Goto
    <2> QED
      BY <2>1, <2>2, <2>3, <2>4, <2>5, <2>6, <2>7 DEF Fits
  <1>6. \A v \in Workers : Distinct(queue'[v])
    BY <1>d DEF PopBuffer, sched, tasks, worker, Goto
  <1> QED
    BY <1>4, <1>5, <1>6, PlacedNext

\* A task leaves a queue, the worker's own or another's.
LEMMA TakePlaces ==
    ASSUME Where, NEW w \in Workers, NEW u \in Workers, Take(w, u),
           current_task[w] = None, UNCHANGED <<state, wakers, new_task, payload>>
    PROVE  Placed' /\ queue' \in [Workers -> Seq(Tasks)] /\ buffer' = buffer
           /\ \E h \in Tasks : current_task' = [current_task EXCEPT ![w] = h]
  <1>a. Types
    BY DEF Where
  <1>b. PICK kind \in [Tasks -> Kinds], at \in [Tasks -> Workers] : Fits(kind, at)
    BY DEF Where, Placed
  <1>d. \A v \in Workers : Distinct(queue[v])
    BY DEF Where, Placed
  <1>1. PICK h \in Tasks :
        /\ In(h, queue[u])
        /\ current_task' = [current_task EXCEPT ![w] = h]
        /\ queue' \in [Workers -> Seq(Tasks)]
        /\ buffer' = buffer
        /\ \A v \in Workers : \A x :
              In(x, queue'[v]) <=> In(x, queue[v]) /\ ~(v = u /\ x = h)
        /\ \A v \in Workers : Distinct(queue'[v])
    BY <1>a, <1>d, Takes
  <1>2. kind[h] = "queue" /\ at[h] = u
    BY <1>b, <1>1 DEF Fits, Queues
  <1>3. \A v \in Workers : \A x \in Tasks : In(x, queue'[v]) <=> In(x, queue[v]) /\ ~(v = u /\ x = h)
    BY <1>1
  <1>4. buffer' = buffer /\ current_task' = [current_task EXCEPT ![w] = h]
    BY <1>1
  <1> DEFINE kind2 == [kind EXCEPT ![h] = "current"]
         at2 == [at EXCEPT ![h] = w]
  <1>5. /\ kind2 \in [Tasks -> Kinds] /\ at2 \in [Tasks -> Workers]
        /\ kind2[h] = "current" /\ at2[h] = w
        /\ \A x \in Tasks \ {h} : kind2[x] = kind[x] /\ at2[x] = at[x]
    BY <1>b, <1>2 DEF Kinds
  <1> HIDE DEF kind2, at2
  <1>6. Fits(kind2, at2)'
    <2>1. States(kind2)'
      BY SMTT(90), <1>b, Shape, <1>2, <1>5 DEF Fits, States, sched, tasks, worker, Goto
    <2>2. Wakers(kind2)'
      BY SMTT(90), <1>b, Shape, <1>2, <1>5 DEF Fits, Wakers, sched, tasks, worker, Goto
    <2>3. Queues(kind2, at2)'
      BY SMTT(90), <1>b, Shape, <1>2, <1>3, <1>5 DEF Fits, Queues, sched, tasks, worker, Goto
    <2>4. Buffers(kind2, at2)'
      BY SMTT(90), <1>b, Shape, <1>2, <1>4, <1>5 DEF Fits, Buffers, sched, tasks, worker, Goto
    <2>5. Currents(kind2, at2)'
      BY SMTT(90), <1>b, Shape, <1>2, <1>4, <1>5 DEF Fits, Currents, sched, tasks, worker, Goto
    <2>6. News(kind2, at2)'
      BY SMTT(90), <1>b, Shape, <1>2, <1>5 DEF Fits, News, sched, tasks, worker, Goto
    <2>7. Wakings(kind2, at2)'
      BY SMTT(90), <1>b, Shape, <1>2, <1>5 DEF Fits, Wakings, sched, tasks, worker, Goto
    <2> QED
      BY <2>1, <2>2, <2>3, <2>4, <2>5, <2>6, <2>7 DEF Fits
  <1>7. \A v \in Workers : Distinct(queue'[v])
    BY <1>1
  <1> QED
    BY <1>5, <1>6, <1>7, PlacedNext, <1>2, <1>1

\* The current task goes back to the queue.
LEMMA PutBackPlaces ==
    ASSUME Where, NEW w \in Workers, PutBack(w), current_task[w] # None,
           UNCHANGED <<state, wakers>>
    PROVE  Placed' /\ queue' \in [Workers -> Seq(Tasks)] /\ buffer' = buffer
  <1>a. Types
    BY DEF Where
  <1>b. PICK kind \in [Tasks -> Kinds], at \in [Tasks -> Workers] : Fits(kind, at)
    BY DEF Where, Placed
  <1>d. \A v \in Workers : Distinct(queue[v])
    BY DEF Where, Placed
  <1>1. PICK c \in Tasks : c = current_task[w]
    BY Shape
  <1>2. kind[c] = "current" /\ at[c] = w
    BY <1>b, <1>1 DEF Fits, Currents
  <1>3. ~In(c, queue[w])
    BY <1>b, <1>2 DEF Fits, Queues
  <1>4. /\ queue' \in [Workers -> Seq(Tasks)]
        /\ buffer' = buffer
        /\ \A v \in Workers : \A x :
              In(x, queue'[v]) <=> In(x, queue[v]) \/ (v = w /\ x = c)
        /\ \A v \in Workers : Distinct(queue'[v])
    BY <1>1, <1>3, <1>a, <1>d, Enqueues DEF PutBack
  <1>5. \A v \in Workers : \A x \in Tasks : In(x, queue'[v]) <=> In(x, queue[v]) \/ (v = w /\ x = c)
    BY <1>4
  <1>6. buffer' = buffer
    BY <1>4
  <1> DEFINE kind2 == [kind EXCEPT ![c] = "queue"]
         at2 == [at EXCEPT ![c] = w]
  <1>7. /\ kind2 \in [Tasks -> Kinds] /\ at2 \in [Tasks -> Workers]
        /\ kind2[c] = "queue" /\ at2[c] = w
        /\ \A x \in Tasks \ {c} : kind2[x] = kind[x] /\ at2[x] = at[x]
    BY <1>b, <1>1, <1>2, <1>3 DEF Kinds
  <1> HIDE DEF kind2, at2
  <1>8. Fits(kind2, at2)'
    <2>1. States(kind2)'
      BY SMTT(90), <1>b, Shape, <1>1, <1>2, <1>3, <1>7
         DEF PutBack, Fits, States, sched, tasks, worker, Goto
    <2>2. Wakers(kind2)'
      BY SMTT(90), <1>b, Shape, <1>1, <1>2, <1>3, <1>7
         DEF PutBack, Fits, Wakers, sched, tasks, worker, Goto
    <2>3. Queues(kind2, at2)'
      BY SMTT(90), <1>b, Shape, <1>1, <1>2, <1>3, <1>5, <1>7
         DEF PutBack, Fits, Queues, sched, tasks, worker, Goto
    <2>4. Buffers(kind2, at2)'
      BY SMTT(90), <1>b, Shape, <1>1, <1>2, <1>3, <1>6, <1>7
         DEF PutBack, Fits, Buffers, sched, tasks, worker, Goto
    <2>5. Currents(kind2, at2)'
      BY SMTT(90), <1>b, Shape, <1>1, <1>2, <1>3, <1>6, <1>7
         DEF PutBack, Fits, Currents, sched, tasks, worker, Goto
    <2>6. News(kind2, at2)'
      BY SMTT(90), <1>b, Shape, <1>1, <1>2, <1>3, <1>7
         DEF PutBack, Fits, News, sched, tasks, worker, Goto
    <2>7. Wakings(kind2, at2)'
      BY SMTT(90), <1>b, Shape, <1>1, <1>2, <1>3, <1>7
         DEF PutBack, Fits, Wakings, sched, tasks, worker, Goto
    <2> QED
      BY <2>1, <2>2, <2>3, <2>4, <2>5, <2>6, <2>7 DEF Fits
  <1>9. \A v \in Workers : Distinct(queue'[v])
    BY <1>4
  <1> QED
    BY <1>7, <1>8, <1>9, PlacedNext, <1>1, <1>2, <1>3, <1>4

\* A sleeping task is where must_sleep left its waker.
LEMMA SleepPlaces ==
    ASSUME Where, NEW w \in Workers, SleepPublished(w)
    PROVE  Placed'
  <1>a. Types
    BY DEF Where
  <1>b. PICK kind \in [Tasks -> Kinds], at \in [Tasks -> Workers] : Fits(kind, at)
    BY DEF Where, Placed
  <1>d. \A v \in Workers : Distinct(queue[v])
    BY DEF Where, Placed
  <1>1. PICK c \in Tasks : c = current_task[w]
    BY Shape DEF SleepPublished, Performs, Where, Control
  <1>2. kind[c] = "current" /\ at[c] = w
    BY <1>b, <1>1 DEF Fits, Currents
  <1>3. queue' = queue /\ buffer' = buffer
    BY DEF SleepPublished, sched
  <1> DEFINE kind2 == [kind EXCEPT ![c] = "waker"]
         at2 == [at EXCEPT ![c] = w]
  <1>4. /\ kind2 \in [Tasks -> Kinds] /\ at2 \in [Tasks -> Workers]
        /\ kind2[c] = "waker" /\ at2[c] = w
        /\ \A x \in Tasks \ {c} : kind2[x] = kind[x] /\ at2[x] = at[x]
    BY <1>b, <1>1, <1>2, <1>3 DEF Kinds
  <1> HIDE DEF kind2, at2
  <1>5. Fits(kind2, at2)'
    <2>1. States(kind2)'
      BY SMTT(90), <1>b, Shape, <1>1, <1>2, <1>3, <1>4
         DEF SleepPublished, Performs, Fits, States, sched, tasks, worker, Goto
    <2>2. Wakers(kind2)'
      BY SMTT(90), <1>b, Shape, <1>1, <1>2, <1>3, <1>4
         DEF SleepPublished, Performs, Fits, Wakers, sched, tasks, worker, Goto
    <2>3. Queues(kind2, at2)'
      BY SMTT(90), <1>b, Shape, <1>1, <1>2, <1>3, <1>4
         DEF SleepPublished, Performs, Fits, Queues, sched, tasks, worker, Goto
    <2>4. Buffers(kind2, at2)'
      BY SMTT(90), <1>b, Shape, <1>1, <1>2, <1>3, <1>4
         DEF SleepPublished, Performs, Fits, Buffers, sched, tasks, worker, Goto
    <2>5. Currents(kind2, at2)'
      BY SMTT(90), <1>b, Shape, <1>1, <1>2, <1>3, <1>4
         DEF SleepPublished, Performs, Fits, Currents, sched, tasks, worker, Goto
    <2>6. News(kind2, at2)'
      BY SMTT(90), <1>b, Shape, <1>1, <1>2, <1>3, <1>4
         DEF SleepPublished, Performs, Fits, News, sched, tasks, worker, Goto
    <2>7. Wakings(kind2, at2)'
      BY SMTT(90), <1>b, Shape, <1>1, <1>2, <1>3, <1>4
         DEF SleepPublished, Performs, Fits, Wakings, sched, tasks, worker, Goto
    <2> QED
      BY <2>1, <2>2, <2>3, <2>4, <2>5, <2>6, <2>7 DEF Fits
  <1>6. \A v \in Workers : Distinct(queue'[v])
    BY <1>d DEF SleepPublished, Performs, sched, tasks, worker, Goto
  <1> QED
    BY <1>4, <1>5, <1>6, PlacedNext

\* wake: the wakers are with the worker that wakes them.
LEMMA WakePlaces ==
    ASSUME Where, NEW w \in Workers, NEW woken \in SUBSET wakers, NEW resume \in BOOLEAN,
           Wake(w, woken, resume)
    PROVE  Placed'
  <1>a. Types
    BY DEF Where
  <1>b. PICK kind \in [Tasks -> Kinds], at \in [Tasks -> Workers] : Fits(kind, at)
    BY DEF Where, Placed
  <1>d. \A v \in Workers : Distinct(queue[v])
    BY DEF Where, Placed
  <1>1. /\ payload'[w].wakers = woken
        /\ \A v \in Workers \ {w} : payload'[v] = payload[v]
    BY Shape DEF Wake, Performs
  <1>2. payload[w].wakers = {}
    BY DEF Wake, Performs, Where, Control
  <1>3. \A x \in woken : x \in Tasks /\ kind[x] = "waker"
    BY <1>b, Shape DEF Fits, Wakers
  <1> DEFINE kind2 == [x \in Tasks |-> IF x \in woken THEN "waking" ELSE kind[x]]
         at2 == [x \in Tasks |-> IF x \in woken THEN w ELSE at[x]]
  <1>4. /\ kind2 \in [Tasks -> Kinds] /\ at2 \in [Tasks -> Workers]
        /\ \A x \in woken : kind2[x] = "waking" /\ at2[x] = w
        /\ \A x \in Tasks \ woken : kind2[x] = kind[x] /\ at2[x] = at[x]
    BY <1>b, <1>1, <1>2, <1>3 DEF Kinds
  <1> HIDE DEF kind2, at2
  <1>5. Fits(kind2, at2)'
    <2>1. States(kind2)'
      BY SMTT(90), <1>b, Shape, <1>1, <1>2, <1>3, <1>4
         DEF Wake, Performs, Fits, States, sched, tasks, worker, Goto
    <2>2. Wakers(kind2)'
      BY SMTT(90), <1>b, Shape, <1>1, <1>2, <1>3, <1>4
         DEF Wake, Performs, Fits, Wakers, sched, tasks, worker, Goto
    <2>3. Queues(kind2, at2)'
      BY SMTT(90), <1>b, Shape, <1>1, <1>2, <1>3, <1>4
         DEF Wake, Performs, Fits, Queues, sched, tasks, worker, Goto
    <2>4. Buffers(kind2, at2)'
      BY SMTT(90), <1>b, Shape, <1>1, <1>2, <1>3, <1>4
         DEF Wake, Performs, Fits, Buffers, sched, tasks, worker, Goto
    <2>5. Currents(kind2, at2)'
      BY SMTT(90), <1>b, Shape, <1>1, <1>2, <1>3, <1>4
         DEF Wake, Performs, Fits, Currents, sched, tasks, worker, Goto
    <2>6. News(kind2, at2)'
      BY SMTT(90), <1>b, Shape, <1>1, <1>2, <1>3, <1>4
         DEF Wake, Performs, Fits, News, sched, tasks, worker, Goto
    <2>7. Wakings(kind2, at2)'
      BY SMTT(90), <1>b, Shape, <1>1, <1>2, <1>3, <1>4
         DEF Wake, Performs, Fits, Wakings, sched, tasks, worker, Goto
    <2> QED
      BY <2>1, <2>2, <2>3, <2>4, <2>5, <2>6, <2>7 DEF Fits
  <1>6. \A v \in Workers : Distinct(queue'[v])
    BY <1>d DEF Wake, Performs, sched, tasks, worker, Goto
  <1> QED
    BY <1>4, <1>5, <1>6, PlacedNext

\* A freed task is nowhere.
LEMMA FinalizePlaces ==
    ASSUME Where, NEW w \in Workers, Finalize(w)
    PROVE  Placed'
  <1>a. Types
    BY DEF Where
  <1>b. PICK kind \in [Tasks -> Kinds], at \in [Tasks -> Workers] : Fits(kind, at)
    BY DEF Where, Placed
  <1>d. \A v \in Workers : Distinct(queue[v])
    BY DEF Where, Placed
  <1>1. PICK c \in Tasks : c = current_task[w]
    BY Shape DEF Finalize, Where, Control
  <1>2. kind[c] = "current" /\ at[c] = w
    BY <1>b, <1>1 DEF Fits, Currents
  <1> DEFINE kind2 == [kind EXCEPT ![c] = "none"]
         at2 == [at EXCEPT ![c] = w]
  <1>3. /\ kind2 \in [Tasks -> Kinds] /\ at2 \in [Tasks -> Workers]
        /\ kind2[c] = "none" /\ at2[c] = w
        /\ \A x \in Tasks \ {c} : kind2[x] = kind[x] /\ at2[x] = at[x]
    BY <1>b, <1>1, <1>2 DEF Kinds
  <1> HIDE DEF kind2, at2
  <1>4. Fits(kind2, at2)'
    <2>1. States(kind2)'
      BY SMTT(90), <1>b, Shape, <1>1, <1>2, <1>3
         DEF Finalize, Fits, States, sched, tasks, worker, Goto
    <2>2. Wakers(kind2)'
      BY SMTT(90), <1>b, Shape, <1>1, <1>2, <1>3
         DEF Finalize, Fits, Wakers, sched, tasks, worker, Goto
    <2>3. Queues(kind2, at2)'
      BY SMTT(90), <1>b, Shape, <1>1, <1>2, <1>3
         DEF Finalize, Fits, Queues, sched, tasks, worker, Goto
    <2>4. Buffers(kind2, at2)'
      BY SMTT(90), <1>b, Shape, <1>1, <1>2, <1>3
         DEF Finalize, Fits, Buffers, sched, tasks, worker, Goto
    <2>5. Currents(kind2, at2)'
      BY SMTT(90), <1>b, Shape, <1>1, <1>2, <1>3
         DEF Finalize, Fits, Currents, sched, tasks, worker, Goto
    <2>6. News(kind2, at2)'
      BY SMTT(90), <1>b, Shape, <1>1, <1>2, <1>3
         DEF Finalize, Fits, News, sched, tasks, worker, Goto
    <2>7. Wakings(kind2, at2)'
      BY SMTT(90), <1>b, Shape, <1>1, <1>2, <1>3
         DEF Finalize, Fits, Wakings, sched, tasks, worker, Goto
    <2> QED
      BY <2>1, <2>2, <2>3, <2>4, <2>5, <2>6, <2>7 DEF Fits
  <1>5. \A v \in Workers : Distinct(queue'[v])
    BY <1>d DEF Finalize, sched, tasks, worker, Goto
  <1> QED
    BY <1>3, <1>4, <1>5, PlacedNext

\* fork: the parent is queued, the child is with the worker.
LEMMA ForkPlaces ==
    ASSUME Where, NEW w \in Workers, NEW t \in Tasks, ForkParent(w, t)
    PROVE  Placed'
  <1>a. Types
    BY DEF Where
  <1>b. PICK kind \in [Tasks -> Kinds], at \in [Tasks -> Workers] : Fits(kind, at)
    BY DEF Where, Placed
  <1>d. \A v \in Workers : Distinct(queue[v])
    BY DEF Where, Placed
  <1>1. PICK c \in Tasks : c = current_task[w]
    BY Shape DEF ForkParent, Where, Control
  <1>2. kind[c] = "current" /\ at[c] = w
    BY <1>b, <1>1 DEF Fits, Currents
  <1>3. ~In(c, queue[w])
    BY <1>b, <1>2 DEF Fits, Queues
  <1>4. kind[t] = "none" /\ t # c
    BY <1>2, <1>b DEF ForkParent, Allocate, Fresh, Fits, States
  <1>5. new_task[w] = None
    BY DEF ForkParent, Where, Control
  <1>6. /\ queue' \in [Workers -> Seq(Tasks)]
        /\ buffer' = buffer
        /\ \A v \in Workers : \A x :
              In(x, queue'[v]) <=> In(x, queue[v]) \/ (v = w /\ x = c)
        /\ \A v \in Workers : Distinct(queue'[v])
    BY <1>1, <1>3, <1>a, <1>d, Enqueues DEF ForkParent
  <1>7. \A v \in Workers : \A x \in Tasks : In(x, queue'[v]) <=> In(x, queue[v]) \/ (v = w /\ x = c)
    BY <1>6
  <1>8. buffer' = buffer
    BY <1>6
  <1> DEFINE kind2 == [x \in Tasks |-> CASE x = c -> "queue" [] x = t -> "new" [] OTHER -> kind[x]]
         at2 == [x \in Tasks |-> IF x \in {t, c} THEN w ELSE at[x]]
  <1>9. /\ kind2 \in [Tasks -> Kinds] /\ at2 \in [Tasks -> Workers]
        /\ kind2[c] = "queue" /\ at2[c] = w /\ kind2[t] = "new" /\ at2[t] = w
        /\ \A x \in Tasks \ {t, c} : kind2[x] = kind[x] /\ at2[x] = at[x]
    BY <1>b, <1>1, <1>2, <1>3, <1>4, <1>5 DEF Kinds
  <1> HIDE DEF kind2, at2
  <1>10. Fits(kind2, at2)'
    <2>1. States(kind2)'
      BY SMTT(90), <1>b, Shape, <1>1, <1>2, <1>3, <1>4, <1>5, <1>9
         DEF ForkParent, Allocate, Fresh, Fits, States, sched, tasks, worker, Goto
    <2>2. Wakers(kind2)'
      BY SMTT(90), <1>b, Shape, <1>1, <1>2, <1>3, <1>4, <1>5, <1>9
         DEF ForkParent, Allocate, Fresh, Fits, Wakers, sched, tasks, worker, Goto
    <2>3. Queues(kind2, at2)'
      BY SMTT(90), <1>b, Shape, <1>1, <1>2, <1>3, <1>4, <1>5, <1>7, <1>9
         DEF ForkParent, Allocate, Fresh, Fits, Queues, sched, tasks, worker, Goto
    <2>4. Buffers(kind2, at2)'
      BY SMTT(90), <1>b, Shape, <1>1, <1>2, <1>3, <1>4, <1>5, <1>8, <1>9
         DEF ForkParent, Allocate, Fresh, Fits, Buffers, sched, tasks, worker, Goto
    <2>5. Currents(kind2, at2)'
      BY SMTT(90), <1>b, Shape, <1>1, <1>2, <1>3, <1>4, <1>5, <1>8, <1>9
         DEF ForkParent, Allocate, Fresh, Fits, Currents, sched, tasks, worker, Goto
    <2>6. News(kind2, at2)'
      BY SMTT(90), <1>b, Shape, <1>1, <1>2, <1>3, <1>4, <1>5, <1>9
         DEF ForkParent, Allocate, Fresh, Fits, News, sched, tasks, worker, Goto
    <2>7. Wakings(kind2, at2)'
      BY SMTT(90), <1>b, Shape, <1>1, <1>2, <1>3, <1>4, <1>5, <1>9
         DEF ForkParent, Allocate, Fresh, Fits, Wakings, sched, tasks, worker, Goto
    <2> QED
      BY <2>1, <2>2, <2>3, <2>4, <2>5, <2>6, <2>7 DEF Fits
  <1>11. \A v \in Workers : Distinct(queue'[v])
    BY <1>6
  <1> QED
    BY <1>9, <1>10, <1>11, PlacedNext

\* The child takes the slot; the task that was there is queued.
LEMMA ForkChildPlaces ==
    ASSUME Where, NEW w \in Workers, ForkChild(w)
    PROVE  Placed'
  <1>a. Types
    BY DEF Where
  <1>b. PICK kind \in [Tasks -> Kinds], at \in [Tasks -> Workers] : Fits(kind, at)
    BY DEF Where, Placed
  <1>d. \A v \in Workers : Distinct(queue[v])
    BY DEF Where, Placed
  <1>1. PICK n \in Tasks : n = new_task[w]
    BY Shape DEF ForkChild, Where, Control
  <1>2. kind[n] = "new" /\ at[n] = w
    BY <1>b, <1>1 DEF Fits, News
  <1>3. PICK b \in Tasks \cup {None} : b = buffer[w]
    BY Shape
  <1>4. b # n /\ (b \in Tasks => kind[b] = "buffer" /\ at[b] = w)
    BY <1>2, <1>b, <1>3 DEF Fits, Buffers
  <1>5. ~In(b, queue[w])
    BY <1>a, <1>b, <1>3, <1>4, NoneNotIn DEF Fits, Queues, Types
  <1>6. /\ queue' \in [Workers -> Seq(Tasks)]
        /\ buffer' = [buffer EXCEPT ![w] = n]
        /\ \A v \in Workers : \A x \in Tasks :
              In(x, queue'[v]) <=> In(x, queue[v]) \/ (v = w /\ x = b)
        /\ \A v \in Workers : Distinct(queue'[v])
    BY <1>1, <1>3, <1>5, <1>a, <1>d, EnqueuesFirst DEF ForkChild
  <1>7. \A v \in Workers : \A x \in Tasks : In(x, queue'[v]) <=> In(x, queue[v]) \/ (v = w /\ x = b)
    BY <1>6
  <1>8. buffer' = [buffer EXCEPT ![w] = n]
    BY <1>6
  <1> DEFINE kind2 == [x \in Tasks |-> CASE x = n -> "buffer" [] x = b -> "queue" [] OTHER -> kind[x]]
         at2 == [x \in Tasks |-> IF x \in {n, b} THEN w ELSE at[x]]
  <1>9. /\ kind2 \in [Tasks -> Kinds] /\ at2 \in [Tasks -> Workers]
        /\ kind2[n] = "buffer" /\ at2[n] = w
        /\ \A x \in Tasks \ {n} : x = b => kind2[x] = "queue" /\ at2[x] = w
        /\ \A x \in Tasks \ {n, b} : kind2[x] = kind[x] /\ at2[x] = at[x]
    BY <1>b, <1>1, <1>2, <1>3, <1>4, <1>5 DEF Kinds
  <1> HIDE DEF kind2, at2
  <1>10. Fits(kind2, at2)'
    <2>1. States(kind2)'
      BY SMTT(90), <1>b, Shape, <1>1, <1>2, <1>3, <1>4, <1>5, <1>9
         DEF ForkChild, Fits, States, sched, tasks, worker, Goto
    <2>2. Wakers(kind2)'
      BY SMTT(90), <1>b, Shape, <1>1, <1>2, <1>3, <1>4, <1>5, <1>9
         DEF ForkChild, Fits, Wakers, sched, tasks, worker, Goto
    <2>3. Queues(kind2, at2)'
      BY SMTT(90), <1>b, Shape, <1>1, <1>2, <1>3, <1>4, <1>5, <1>7, <1>9
         DEF ForkChild, Fits, Queues, sched, tasks, worker, Goto
    <2>4. Buffers(kind2, at2)'
      BY SMTT(90), <1>b, Shape, <1>1, <1>2, <1>3, <1>4, <1>5, <1>8, <1>9
         DEF ForkChild, Fits, Buffers, sched, tasks, worker, Goto
    <2>5. Currents(kind2, at2)'
      BY SMTT(90), <1>b, Shape, <1>1, <1>2, <1>3, <1>4, <1>5, <1>8, <1>9
         DEF ForkChild, Fits, Currents, sched, tasks, worker, Goto
    <2>6. News(kind2, at2)'
      BY SMTT(90), <1>b, Shape, <1>1, <1>2, <1>3, <1>4, <1>5, <1>9
         DEF ForkChild, Fits, News, sched, tasks, worker, Goto
    <2>7. Wakings(kind2, at2)'
      BY SMTT(90), <1>b, Shape, <1>1, <1>2, <1>3, <1>4, <1>5, <1>9
         DEF ForkChild, Fits, Wakings, sched, tasks, worker, Goto
    <2> QED
      BY <2>1, <2>2, <2>3, <2>4, <2>5, <2>6, <2>7 DEF Fits
  <1>11. \A v \in Workers : Distinct(queue'[v])
    BY <1>6
  <1> QED
    BY <1>9, <1>10, <1>11, PlacedNext

\* A woken task takes the slot; the task that was there is queued.
LEMMA WakeOnePlaces ==
    ASSUME Where, NEW w \in Workers, NEW t \in Tasks, WakeOne(w, t)
    PROVE  Placed'
  <1>a. Types
    BY DEF Where
  <1>b. PICK kind \in [Tasks -> Kinds], at \in [Tasks -> Workers] : Fits(kind, at)
    BY DEF Where, Placed
  <1>d. \A v \in Workers : Distinct(queue[v])
    BY DEF Where, Placed
  <1>1. /\ payload'[w].wakers = payload[w].wakers \ {t}
        /\ \A v \in Workers \ {w} : payload'[v] = payload[v]
    BY Shape DEF WakeOne
  <1>2. kind[t] = "waking" /\ at[t] = w
    BY <1>b DEF WakeOne, Fits, Wakings
  <1>3. PICK b \in Tasks \cup {None} : b = buffer[w]
    BY Shape
  <1>4. b # t /\ (b \in Tasks => kind[b] = "buffer" /\ at[b] = w)
    BY <1>2, <1>b, <1>3 DEF Fits, Buffers
  <1>5. ~In(b, queue[w])
    BY <1>a, <1>b, <1>3, <1>4, NoneNotIn DEF Fits, Queues, Types
  <1>6. /\ queue' \in [Workers -> Seq(Tasks)]
        /\ buffer' = [buffer EXCEPT ![w] = t]
        /\ \A v \in Workers : \A x \in Tasks :
              In(x, queue'[v]) <=> In(x, queue[v]) \/ (v = w /\ x = b)
        /\ \A v \in Workers : Distinct(queue'[v])
    BY <1>1, <1>3, <1>5, <1>a, <1>d, EnqueuesFirst DEF WakeOne
  <1>7. \A v \in Workers : \A x \in Tasks : In(x, queue'[v]) <=> In(x, queue[v]) \/ (v = w /\ x = b)
    BY <1>6
  <1>8. buffer' = [buffer EXCEPT ![w] = t]
    BY <1>6
  <1> DEFINE kind2 == [x \in Tasks |-> CASE x = t -> "buffer" [] x = b -> "queue" [] OTHER -> kind[x]]
         at2 == [x \in Tasks |-> IF x \in {t, b} THEN w ELSE at[x]]
  <1>9. /\ kind2 \in [Tasks -> Kinds] /\ at2 \in [Tasks -> Workers]
        /\ kind2[t] = "buffer" /\ at2[t] = w
        /\ \A x \in Tasks \ {t} : x = b => kind2[x] = "queue" /\ at2[x] = w
        /\ \A x \in Tasks \ {t, b} : kind2[x] = kind[x] /\ at2[x] = at[x]
    BY <1>b, <1>1, <1>2, <1>3, <1>4, <1>5 DEF Kinds
  <1> HIDE DEF kind2, at2
  <1>10. Fits(kind2, at2)'
    <2>1. States(kind2)'
      BY SMTT(90), <1>b, Shape, <1>1, <1>2, <1>3, <1>4, <1>5, <1>9
         DEF WakeOne, Fits, States, sched, tasks, worker, Goto
    <2>2. Wakers(kind2)'
      BY SMTT(90), <1>b, Shape, <1>1, <1>2, <1>3, <1>4, <1>5, <1>9
         DEF WakeOne, Fits, Wakers, sched, tasks, worker, Goto
    <2>3. Queues(kind2, at2)'
      BY SMTT(90), <1>b, Shape, <1>1, <1>2, <1>3, <1>4, <1>5, <1>7, <1>9
         DEF WakeOne, Fits, Queues, sched, tasks, worker, Goto
    <2>4. Buffers(kind2, at2)'
      BY SMTT(90), <1>b, Shape, <1>1, <1>2, <1>3, <1>4, <1>5, <1>8, <1>9
         DEF WakeOne, Fits, Buffers, sched, tasks, worker, Goto
    <2>5. Currents(kind2, at2)'
      BY SMTT(90), <1>b, Shape, <1>1, <1>2, <1>3, <1>4, <1>5, <1>8, <1>9
         DEF WakeOne, Fits, Currents, sched, tasks, worker, Goto
    <2>6. News(kind2, at2)'
      BY SMTT(90), <1>b, Shape, <1>1, <1>2, <1>3, <1>4, <1>5, <1>9
         DEF WakeOne, Fits, News, sched, tasks, worker, Goto
    <2>7. Wakings(kind2, at2)'
      BY SMTT(90), <1>b, Shape, <1>1, <1>2, <1>3, <1>4, <1>5, <1>9
         DEF WakeOne, Fits, Wakings, sched, tasks, worker, Goto
    <2> QED
      BY <2>1, <2>2, <2>3, <2>4, <2>5, <2>6, <2>7 DEF Fits
  <1>11. \A v \in Workers : Distinct(queue'[v])
    BY <1>6
  <1> QED
    BY <1>9, <1>10, <1>11, PlacedNext

\* What ENQUEUE and ENQUEUE_PRIORITY leave well-typed.
LEMMA QueueTypes ==
    ASSUME Types, NEW w \in Workers, NEW t \in Tasks
    PROVE  /\ ENQUEUE(w, t) => queue' \in [Workers -> Seq(Tasks)] /\ buffer' = buffer
           /\ ENQUEUE_PRIORITY(w, t) =>
                 queue' \in [Workers -> Seq(Tasks)] /\ buffer' = [buffer EXCEPT ![w] = t]
  <1>1. \A x \in Tasks : Append(queue[w], x) \in Seq(Tasks)
    BY Appended DEF Types
  <1>2. ENQUEUE(w, t) => queue' \in [Workers -> Seq(Tasks)] /\ buffer' = buffer
    BY <1>1 DEF ENQUEUE, Types
  <1>3. ASSUME ENQUEUE_PRIORITY(w, t) PROVE queue' \in [Workers -> Seq(Tasks)]
    <2>1. CASE buffer[w] = None
      BY <1>3, <2>1 DEF ENQUEUE_PRIORITY, Types
    <2>2. CASE buffer[w] # None
      BY <1>1, <1>3, <2>2 DEF ENQUEUE_PRIORITY, Types
    <2>3. QED
      BY <2>1, <2>2
  <1>4. QED
    BY <1>2, <1>3 DEF ENQUEUE_PRIORITY

\* Every step keeps every task in one place.
LEMMA WhereStep == Where /\ [Next]_vars => Where'
  <1> SUFFICES ASSUME Where, [Next]_vars PROVE Where'
    OBVIOUS
  <1> USE DEF Goto, Labels, sched, tasks, worker
  <1>b. PICK kind \in [Tasks -> Kinds], at \in [Tasks -> Workers] : Fits(kind, at)
    BY DEF Where, Placed
  <1>d. \A w \in Workers : Distinct(queue[w])
    BY DEF Where, Placed
  <1>1. ASSUME NEW t \in Tasks, scheff_schedule(t) PROVE Where'
    <2>1. 0 \in Workers
      BY DEF Workers
    <2>2. queue' \in [Workers -> Seq(Tasks)] /\ buffer' = buffer
      BY <1>1, <2>1, QueueTypes DEF scheff_schedule, Where, Types
    <2>3. Types'
      BY <1>1, <2>1, <2>2 DEF scheff_schedule, Allocate, Fresh, Where, Types
    <2>4. Control'
      BY <1>1, <2>1, <2>2 DEF scheff_schedule, Allocate, Fresh, Where, Types, Control
    <2>5. FinishedIsHeld'
      BY <1>1, <2>1, <2>2
         DEF scheff_schedule, Allocate, Fresh, Where, Types, Control, FinishedIsHeld
    <2> QED
      BY <2>3, <2>4, <2>5, <1>1, SchedulePlaces DEF Where
  <1>2. ASSUME scheff_run PROVE Where'
    <2>1. Types'
      BY <1>2 DEF scheff_run, Where, Types
    <2>2. Control'
      BY <1>2 DEF scheff_run, Where, Types, Control
    <2>3. FinishedIsHeld'
      BY <1>2 DEF scheff_run, Where, Types, Control, FinishedIsHeld
    <2>4. Fits(kind, at)' /\ queue' = queue
      BY <1>2, <1>b
         DEF scheff_run, Fits, States, Wakers, Queues, Buffers, Currents, News, Wakings, Where,
             Types
    <2> QED
      BY <2>1, <2>2, <2>3, <2>4, <1>d, PlacedNext DEF Where
  <1>3. ASSUME NEW w \in Workers, StartWorker(w) PROVE Where'
    <2>1. Types'
      BY <1>3 DEF StartWorker, Where, Types
    <2>2. Control'
      BY <1>3 DEF StartWorker, Where, Types, Control
    <2>3. FinishedIsHeld'
      BY <1>3 DEF StartWorker, Where, Types, Control, FinishedIsHeld
    <2>4. Fits(kind, at)' /\ queue' = queue
      BY <1>3, <1>b
         DEF StartWorker, Fits, States, Wakers, Queues, Buffers, Currents, News, Wakings, Where,
             Types
    <2> QED
      BY <2>1, <2>2, <2>3, <2>4, <1>d, PlacedNext DEF Where
  <1>4. ASSUME BecomeWorker PROVE Where'
    <2>1. 0 \in Workers
      BY DEF Workers
    <2>2. Types'
      BY <1>4, <2>1 DEF BecomeWorker, Where, Types
    <2>3. Control'
      BY <1>4, <2>1 DEF BecomeWorker, Where, Types, Control
    <2>4. FinishedIsHeld'
      BY <1>4, <2>1 DEF BecomeWorker, Where, Types, Control, FinishedIsHeld
    <2>5. Fits(kind, at)' /\ queue' = queue
      BY <1>4, <2>1, <1>b
         DEF BecomeWorker, Fits, States, Wakers, Queues, Buffers, Currents, News, Wakings, Where,
             Types
    <2> QED
      BY <2>2, <2>3, <2>4, <2>5, <1>d, PlacedNext DEF Where
  <1>5. ASSUME JoinWorkers PROVE Where'
    <2>1. Types'
      BY <1>5 DEF JoinWorkers, Where, Types
    <2>2. Control'
      BY <1>5 DEF JoinWorkers, Where, Types, Control
    <2>3. FinishedIsHeld'
      BY <1>5 DEF JoinWorkers, Where, Types, Control, FinishedIsHeld
    <2>4. Fits(kind, at)' /\ queue' = queue
      BY <1>5, <1>b
         DEF JoinWorkers, Fits, States, Wakers, Queues, Buffers, Currents, News, Wakings, Where,
             Types
    <2> QED
      BY <2>1, <2>2, <2>3, <2>4, <1>d, PlacedNext DEF Where
  <1>6. ASSUME NEW w \in Workers, PopBuffer(w) PROVE Where'
    <2>1. Types'
      BY <1>6 DEF PopBuffer, Where, Types
    <2>2. Control'
      BY <1>6 DEF PopBuffer, Where, Types, Control
    <2>3. FinishedIsHeld'
      BY <1>6 DEF PopBuffer, Where, Types, Control, FinishedIsHeld
    <2> QED
      BY <2>1, <2>2, <2>3, <1>6, PopBufferPlaces DEF Where
  <1>7. ASSUME NEW w \in Workers, PopQueue(w) PROVE Where'
    <2>1. current_task[w] = None
      BY <1>7 DEF PopQueue, Where, Control
    <2>2. /\ Placed' /\ queue' \in [Workers -> Seq(Tasks)] /\ buffer' = buffer
          /\ \E h \in Tasks : current_task' = [current_task EXCEPT ![w] = h]
      BY <1>7, <2>1, TakePlaces DEF PopQueue
    <2>3. Types'
      BY <1>7, <2>1, <2>2 DEF PopQueue, Where, Types
    <2>4. Control'
      BY <1>7, <2>1, <2>2 DEF PopQueue, Where, Types, Control
    <2>5. FinishedIsHeld'
      BY <1>7, <2>1, <2>2 DEF PopQueue, Where, Types, Control, FinishedIsHeld
    <2> QED
      BY <2>3, <2>4, <2>5, <2>2 DEF Where
  <1>8. ASSUME NEW w \in Workers, PopEmpty(w) PROVE Where'
    <2>1. Types'
      BY <1>8 DEF PopEmpty, Where, Types
    <2>2. Control'
      BY <1>8 DEF PopEmpty, Where, Types, Control
    <2>3. FinishedIsHeld'
      BY <1>8 DEF PopEmpty, Where, Types, Control, FinishedIsHeld
    <2>4. Fits(kind, at)' /\ queue' = queue
      BY <1>8, <1>b
         DEF PopEmpty, Fits, States, Wakers, Queues, Buffers, Currents, News, Wakings, Where,
             Types
    <2> QED
      BY <2>1, <2>2, <2>3, <2>4, <1>d, PlacedNext DEF Where
  <1>9. ASSUME NEW w \in Workers, Steal(w) PROVE Where'
    <2>1. current_task[w] = None
      BY <1>9 DEF Steal, Where, Control
    <2>2. Victim(w) \in Workers
      BY DEF Victim, Workers, Where, Types
    <2>3. /\ Placed' /\ queue' \in [Workers -> Seq(Tasks)] /\ buffer' = buffer
          /\ \E h \in Tasks : current_task' = [current_task EXCEPT ![w] = h]
      BY <1>9, <2>1, <2>2, TakePlaces DEF Steal
    <2>4. Types'
      BY SMTT(90), <1>9, <2>1, <2>2, <2>3 DEF Steal, Where, Types
    <2>5. Control'
      BY <1>9, <2>1, <2>2, <2>3 DEF Steal, Where, Types, Control
    <2>6. FinishedIsHeld'
      BY <1>9, <2>1, <2>2, <2>3 DEF Steal, Where, Types, Control, FinishedIsHeld
    <2> QED
      BY <2>4, <2>5, <2>6, <2>3 DEF Where
  <1>10. ASSUME NEW w \in Workers, StealEmpty(w) PROVE Where'
    <2>1. Types'
      BY <1>10 DEF StealEmpty, Where, Types
    <2>2. Control'
      BY <1>10 DEF StealEmpty, Where, Types, Control
    <2>3. FinishedIsHeld'
      BY <1>10 DEF StealEmpty, Where, Types, Control, FinishedIsHeld
    <2>4. Fits(kind, at)' /\ queue' = queue
      BY <1>10, <1>b
         DEF StealEmpty, Fits, States, Wakers, Queues, Buffers, Currents, News, Wakings, Where,
             Types
    <2> QED
      BY <2>1, <2>2, <2>3, <2>4, <1>d, PlacedNext DEF Where
  <1>11. ASSUME NEW w \in Workers, NoTask(w) PROVE Where'
    <2>1. Types'
      BY <1>11 DEF NoTask, Where, Types
    <2>2. Control'
      BY <1>11 DEF NoTask, Where, Types, Control
    <2>3. FinishedIsHeld'
      BY <1>11 DEF NoTask, Where, Types, Control, FinishedIsHeld
    <2>4. Fits(kind, at)' /\ queue' = queue
      BY <1>11, <1>b
         DEF NoTask, Fits, States, Wakers, Queues, Buffers, Currents, News, Wakings, Where, Types
    <2> QED
      BY <2>1, <2>2, <2>3, <2>4, <1>d, PlacedNext DEF Where
  <1>12. ASSUME NEW w \in Workers, NotReady(w) PROVE Where'
    <2>1. current_task[w] # None
      BY <1>12 DEF NotReady, Where, Control
    <2>2. Placed' /\ queue' \in [Workers -> Seq(Tasks)] /\ buffer' = buffer
      BY <1>12, <2>1, PutBackPlaces DEF NotReady
    <2>3. Types'
      BY <1>12, <2>1, <2>2 DEF NotReady, PutBack, Where, Types
    <2>4. Control'
      BY <1>12, <2>1, <2>2 DEF NotReady, PutBack, Where, Types, Control
    <2>5. FinishedIsHeld'
      BY <1>12, <2>1, <2>2 DEF NotReady, PutBack, Where, Types, Control, FinishedIsHeld
    <2> QED
      BY <2>3, <2>4, <2>5, <2>2 DEF Where
  <1>13. ASSUME NEW w \in Workers, Resume(w) PROVE Where'
    <2>1. PICK c \in Tasks : c = current_task[w] /\ pc[w] = "check"
      BY <1>13 DEF Resume, Where, Types, Control
    <2>2. kind[c] = "current" /\ at[c] = w
      BY <2>1, <1>b DEF Fits, Currents
    <2>3. state[c] # "FREE"
      BY <2>2, <1>b DEF Fits, States
    <2>4. state[c] # "FINISHED"
      BY <2>1, <2>2, <1>b DEF Fits, Currents, Where, FinishedIsHeld
    <2>5. pc' = [pc EXCEPT ![w] = "run"] /\ poll_condition' = [poll_condition EXCEPT ![c] = FALSE]
      BY <2>1, <2>3, <2>4, <1>13 DEF Resume, Where, Types
    <2>6. Types'
      BY <1>13, <2>1, <2>2, <2>3, <2>4, <2>5 DEF Resume, Where, Types
    <2>7. Control'
      BY <1>13, <2>1, <2>2, <2>3, <2>4, <2>5 DEF Resume, Where, Types, Control
    <2>8. FinishedIsHeld'
      BY <1>13, <2>1, <2>2, <2>3, <2>4, <2>5 DEF Resume, Where, Types, Control, FinishedIsHeld
    <2>9. Fits(kind, at)' /\ queue' = queue
      BY <1>13, <2>1, <2>2, <2>3, <2>4, <2>5, <1>b
         DEF Resume, Fits, States, Wakers, Queues, Buffers, Currents, News, Wakings, Where, Types
    <2> QED
      BY <2>6, <2>7, <2>8, <2>9, <1>d, PlacedNext DEF Where
  <1>14. ASSUME NEW w \in Workers, Return(w) PROVE Where'
    <2>1. PICK c \in Tasks : c = current_task[w]
      BY <1>14 DEF Return, Where, Types, Control
    <2>2. state[c] # "FREE"
      BY <2>1, <1>b DEF Fits, States, Currents
    <2>3. Types'
      BY <1>14, <2>1, <2>2 DEF Return, Where, Types
    <2>4. Control'
      BY <1>14, <2>1, <2>2 DEF Return, Where, Types, Control
    <2>5. FinishedIsHeld'
      BY <1>14, <2>1, <2>2 DEF Return, Where, Types, Control, FinishedIsHeld
    <2>6. Fits(kind, at)' /\ queue' = queue
      BY <1>14, <2>1, <2>2, <1>b
         DEF Return, Fits, States, Wakers, Queues, Buffers, Currents, News, Wakings, Where, Types
    <2> QED
      BY <2>3, <2>4, <2>5, <2>6, <1>d, PlacedNext DEF Where
  <1>15. ASSUME NEW w \in Workers, Fork(w) PROVE Where'
    <2>1. Types'
      BY <1>15 DEF Fork, Performs, Where, Types
    <2>2. Control'
      BY <1>15 DEF Fork, Performs, Where, Types, Control
    <2>3. FinishedIsHeld'
      BY <1>15 DEF Fork, Performs, Where, Types, Control, FinishedIsHeld
    <2>4. Fits(kind, at)' /\ queue' = queue
      BY <1>15, <1>b
         DEF Fork, Performs, Fits, States, Wakers, Queues, Buffers, Currents, News, Wakings,
             Where, Types
    <2> QED
      BY <2>1, <2>2, <2>3, <2>4, <1>d, PlacedNext DEF Where
  <1>16. ASSUME NEW w \in Workers, Poll(w) PROVE Where'
    <2>1. current_task[w] # None
      BY <1>16 DEF Poll, Performs, Where, Control
    <2>2. Placed' /\ queue' \in [Workers -> Seq(Tasks)] /\ buffer' = buffer
      BY <1>16, <2>1, PutBackPlaces DEF Poll, Performs
    <2>3. requests' \in 0 .. MaxRequests
      BY <1>16 DEF Poll, Performs, Where, Types
    <2>4. Types'
      BY <1>16, <2>1, <2>2, <2>3 DEF Poll, Performs, PutBack, Where, Types
    <2>5. Control'
      BY <1>16, <2>1, <2>2, <2>3 DEF Poll, Performs, PutBack, Where, Types, Control
    <2>6. FinishedIsHeld'
      BY <1>16, <2>1, <2>2, <2>3 DEF Poll, Performs, PutBack, Where, Types, Control, FinishedIsHeld
    <2> QED
      BY <2>4, <2>5, <2>6, <2>2 DEF Where
  <1>17. ASSUME NEW w \in Workers, SleepPublished(w) PROVE Where'
    <2>1. requests' \in 0 .. MaxRequests
      BY <1>17 DEF SleepPublished, Performs, Where, Types
    <2>2. current_task[w] \in Tasks
      BY <1>17 DEF SleepPublished, Performs, Where, Types, Control
    <2>3. Types'
      BY <1>17, <2>1, <2>2 DEF SleepPublished, Performs, Where, Types
    <2>4. Control'
      BY <1>17, <2>1, <2>2 DEF SleepPublished, Performs, Where, Types, Control
    <2>5. FinishedIsHeld'
      BY <1>17, <2>1, <2>2 DEF SleepPublished, Performs, Where, Types, Control, FinishedIsHeld
    <2> QED
      BY <2>3, <2>4, <2>5, <1>17, SleepPlaces DEF Where
  <1>18. ASSUME NEW w \in Workers, SleepDeclined(w) PROVE Where'
    <2>1. current_task[w] # None
      BY <1>18 DEF SleepDeclined, Performs, Where, Control
    <2>2. Placed' /\ queue' \in [Workers -> Seq(Tasks)] /\ buffer' = buffer
      BY <1>18, <2>1, PutBackPlaces DEF SleepDeclined, Performs
    <2>3. requests' \in 0 .. MaxRequests
      BY <1>18 DEF SleepDeclined, Performs, Where, Types
    <2>4. Types'
      BY <1>18, <2>1, <2>2, <2>3 DEF SleepDeclined, Performs, PutBack, Where, Types
    <2>5. Control'
      BY <1>18, <2>1, <2>2, <2>3 DEF SleepDeclined, Performs, PutBack, Where, Types, Control
    <2>6. FinishedIsHeld'
      BY <1>18, <2>1, <2>2, <2>3
         DEF SleepDeclined, Performs, PutBack, Where, Types, Control, FinishedIsHeld
    <2> QED
      BY <2>4, <2>5, <2>6, <2>2 DEF Where
  <1>19. ASSUME NEW w \in Workers, NEW woken \in SUBSET wakers, NEW resume \in BOOLEAN,
              Wake(w, woken, resume)
        PROVE  Where'
    <2>1. [wakers |-> woken, resume |-> resume] \in [wakers : SUBSET Tasks, resume : BOOLEAN]
      BY DEF Where, Types
    <2>2. \A v \in Workers \ {w} : payload'[v] = payload[v]
      BY <1>19 DEF Wake, Performs, Where, Types
    <2>3. Types'
      BY <1>19, <2>1, <2>2 DEF Wake, Performs, Where, Types
    <2>4. Control'
      BY <1>19, <2>1, <2>2 DEF Wake, Performs, Where, Types, Control
    <2>5. FinishedIsHeld'
      BY <1>19, <2>1, <2>2 DEF Wake, Performs, Where, Types, Control, FinishedIsHeld
    <2> QED
      BY <2>3, <2>4, <2>5, <1>19, WakePlaces DEF Where
  <1>20. ASSUME NEW w \in Workers, Finalize(w) PROVE Where'
    <2>1. current_task[w] \in Tasks
      BY <1>20 DEF Finalize, Where, Types, Control
    <2>2. Types'
      BY <1>20, <2>1 DEF Finalize, Where, Types
    <2>3. Control'
      BY <1>20, <2>1 DEF Finalize, Where, Types, Control
    <2>4. FinishedIsHeld'
      BY <1>20, <2>1 DEF Finalize, Where, Types, Control, FinishedIsHeld
    <2> QED
      BY <2>2, <2>3, <2>4, <1>20, FinalizePlaces DEF Where
  <1>21. ASSUME NEW w \in Workers, Finalized(w) PROVE Where'
    <2>1. Types'
      BY <1>21 DEF Finalized, Where, Types
    <2>2. Control'
      BY <1>21 DEF Finalized, Where, Types, Control
    <2>3. FinishedIsHeld'
      BY <1>21 DEF Finalized, Where, Types, Control, FinishedIsHeld
    <2>4. Fits(kind, at)' /\ queue' = queue
      BY <1>21, <1>b
         DEF Finalized, Fits, States, Wakers, Queues, Buffers, Currents, News, Wakings, Where,
             Types
    <2> QED
      BY <2>1, <2>2, <2>3, <2>4, <1>d, PlacedNext DEF Where
  <1>22. ASSUME NEW w \in Workers, NEW t \in Tasks, ForkParent(w, t) PROVE Where'
    <2>1. current_task[w] \in Tasks /\ state[t] = "FREE"
      BY <1>22 DEF ForkParent, Allocate, Fresh, Where, Types, Control
    <2>2. queue' \in [Workers -> Seq(Tasks)] /\ buffer' = buffer
      BY <1>22, <2>1, QueueTypes DEF ForkParent, Where, Types
    <2>3. Types'
      BY <1>22, <2>1, <2>2 DEF ForkParent, Allocate, Fresh, Where, Types
    <2>4. Control'
      BY SMTT(90), <1>22, <2>1, <2>2 DEF ForkParent, Allocate, Fresh, Where, Types, Control
    <2>5. FinishedIsHeld'
      BY <1>22, <2>1, <2>2 DEF ForkParent, Allocate, Fresh, Where, Types, Control, FinishedIsHeld
    <2> QED
      BY <2>3, <2>4, <2>5, <1>22, ForkPlaces DEF Where
  <1>23. ASSUME NEW w \in Workers, ForkChild(w) PROVE Where'
    <2>1. new_task[w] \in Tasks
      BY <1>23 DEF ForkChild, Where, Types, Control
    <2>2. queue' \in [Workers -> Seq(Tasks)] /\ buffer' = [buffer EXCEPT ![w] = new_task[w]]
      BY <1>23, <2>1, QueueTypes DEF ForkChild, Where
    <2>3. Types'
      BY <1>23, <2>1, <2>2 DEF ForkChild, Where, Types
    <2>4. Control'
      BY <1>23, <2>1, <2>2 DEF ForkChild, Where, Types, Control
    <2>5. FinishedIsHeld'
      BY <1>23, <2>1, <2>2 DEF ForkChild, Where, Types, Control, FinishedIsHeld
    <2> QED
      BY <2>3, <2>4, <2>5, <1>23, ForkChildPlaces DEF Where
  <1>24. ASSUME NEW w \in Workers, NEW t \in Tasks, WakeOne(w, t) PROVE Where'
    <2>1. queue' \in [Workers -> Seq(Tasks)] /\ buffer' = [buffer EXCEPT ![w] = t]
      BY <1>24, QueueTypes DEF WakeOne, Where
    <2>2. payload' \in [Workers -> [wakers : SUBSET Tasks, resume : BOOLEAN]]
      BY <1>24 DEF WakeOne, Where, Types
    <2>3. \A v \in Workers \ {w} : payload'[v] = payload[v]
      BY <1>24 DEF WakeOne, Where, Types
    <2>4. Types'
      BY <1>24, <2>1, <2>2, <2>3 DEF WakeOne, Where, Types
    <2>5. Control'
      BY <1>24, <2>1, <2>2, <2>3 DEF WakeOne, Where, Types, Control
    <2>6. FinishedIsHeld'
      BY <1>24, <2>1, <2>2, <2>3 DEF WakeOne, Where, Types, Control, FinishedIsHeld
    <2> QED
      BY <2>4, <2>5, <2>6, <1>24, WakeOnePlaces DEF Where
  <1>25. ASSUME NEW w \in Workers, WakeResume(w) PROVE Where'
    <2>1. current_task[w] # None
      BY <1>25 DEF WakeResume, Where, Control
    <2>2. Placed' /\ queue' \in [Workers -> Seq(Tasks)] /\ buffer' = buffer
      BY <1>25, <2>1, PutBackPlaces DEF WakeResume
    <2>3. Types'
      BY <1>25, <2>1, <2>2 DEF WakeResume, PutBack, Where, Types
    <2>4. Control'
      BY <1>25, <2>1, <2>2 DEF WakeResume, PutBack, Where, Types, Control
    <2>5. FinishedIsHeld'
      BY <1>25, <2>1, <2>2 DEF WakeResume, PutBack, Where, Types, Control, FinishedIsHeld
    <2> QED
      BY <2>3, <2>4, <2>5, <2>2 DEF Where
  <1>26. ASSUME NEW w \in Workers, WakeFinal(w) PROVE Where'
    <2>1. Types'
      BY <1>26 DEF WakeFinal, Where, Types
    <2>2. Control'
      BY <1>26 DEF WakeFinal, Where, Types, Control
    <2>3. FinishedIsHeld'
      BY <1>26 DEF WakeFinal, Where, Types, Control, FinishedIsHeld
    <2>4. Fits(kind, at)' /\ queue' = queue
      BY <1>26, <1>b
         DEF WakeFinal, Fits, States, Wakers, Queues, Buffers, Currents, News, Wakings, Where,
             Types
    <2> QED
      BY <2>1, <2>2, <2>3, <2>4, <1>d, PlacedNext DEF Where
  <1>27. CASE UNCHANGED vars
    <2>1. Types' /\ Control' /\ FinishedIsHeld' /\ Fits(kind, at)' /\ queue' = queue
      BY <1>27, <1>b
         DEF vars, Fits, States, Wakers, Queues, Buffers, Currents, News, Wakings, Where, Types,
             Control, FinishedIsHeld
    <2> QED
      BY <1>d, <2>1, PlacedNext DEF Where
  <1> QED
    BY <1>1, <1>2, <1>3, <1>4, <1>5, <1>6, <1>7, <1>8, <1>9, <1>10, <1>11, <1>12, <1>13, <1>14,
       <1>15, <1>16, <1>17, <1>18, <1>19, <1>20, <1>21, <1>22, <1>23, <1>24, <1>25, <1>26, <1>27
       DEF Next, MainStep, Terminated, WorkerStep, Dispatch, TaskStep, Serve

-----------------------------------------------------------------------------
(* How many there are *)

\* There are finitely many workers.
LEMMA OwedIsFinite == IsFiniteSet(Owed) /\ IsFiniteSet(Owed')
  <1>1. IsFiniteSet(Workers)
    BY FS_Interval DEF Workers
  <1>2. Owed \subseteq Workers /\ Owed' \subseteq Workers
    BY DEF Owed
  <1>3. QED
    BY <1>1, <1>2, FS_Subset

\* Adding an element adds one.
LEMMA OneMore ==
    ASSUME NEW S, IsFiniteSet(S), NEW x, x \notin S
    PROVE  IsFiniteSet(S \cup {x}) /\ Cardinality(S \cup {x}) = Cardinality(S) + 1
  BY FS_AddElement

\* Removing an element takes one away.
LEMMA OneLess ==
    ASSUME NEW S, IsFiniteSet(S), NEW x \in S
    PROVE  IsFiniteSet(S \ {x}) /\ Cardinality(S \ {x}) = Cardinality(S) - 1
  BY FS_RemoveElement

\* A worker that runs, or is about to free, a task has one that is not free.
LEMMA CurrentIsLive ==
    ASSUME Where, NEW w \in Workers, current_task[w] # None
    PROVE  current_task[w] \in Live
  <1>1. PICK kind \in [Tasks -> Kinds], at \in [Tasks -> Workers] : Fits(kind, at)
    BY DEF Where, Placed
  <1>2. PICK c \in Tasks : c = current_task[w]
    BY DEF Where, Types
  <1>3. kind[c] = "current"
    BY <1>1, <1>2 DEF Fits, Currents
  <1>4. state[c] # "FREE"
    BY <1>1, <1>3 DEF Fits, States
  <1>5. QED
    BY <1>2, <1>4 DEF Live

\* Every step changes remaining_tasks by as much as what it counts.
LEMMA CountsStep == Where /\ Counts /\ [Next]_vars => Counts'
  <1> SUFFICES ASSUME Where, Counts, [Next]_vars PROVE Counts'
    OBVIOUS
  <1> USE DEF Goto
  <1>a. /\ pc \in [Workers -> Labels] /\ state \in [Tasks -> {"FREE", "PAUSED", "FINISHED"}]
        /\ remaining_tasks \in Int
    BY DEF Where, Types
  <1>b. IsFiniteSet(Live) /\ IsFiniteSet(Owed) /\ Cardinality(Live) \in Nat /\ Cardinality(Owed) \in Nat
    BY OwedIsFinite, FS_CardinalityType DEF Counts
  <1>c. remaining_tasks = Cardinality(Live) + Cardinality(Owed)
    BY DEF Counts
  <1>d. ASSUME Live' = Live, Owed' = Owed, remaining_tasks' = remaining_tasks PROVE Counts'
    BY <1>b, <1>c, <1>d DEF Counts
  <1>1. ASSUME NEW t \in Tasks, scheff_schedule(t) PROVE Counts'
    <2>1. Live' = Live \cup {t} /\ t \notin Live
      BY <1>1, <1>a DEF scheff_schedule, Allocate, Fresh, Live
    <2>2. Owed' = Owed /\ remaining_tasks' = remaining_tasks + 1
      BY <1>1 DEF scheff_schedule, Owed
    <2>3. QED
      BY <1>b, <1>c, <2>1, <2>2, OneMore DEF Counts
  <1>2. ASSUME NEW w \in Workers, Fork(w) PROVE Counts'
    <2>1. Owed' = Owed \cup {w} /\ w \notin Owed
      BY <1>2, <1>a DEF Fork, Performs, Owed
    <2>2. Live' = Live /\ remaining_tasks' = remaining_tasks + 1
      BY <1>2 DEF Fork, Live, tasks
    <2>3. QED
      BY <1>b, <1>c, <2>1, <2>2, OneMore DEF Counts
  <1>3. ASSUME NEW w \in Workers, NEW t \in Tasks, ForkParent(w, t) PROVE Counts'
    <2>1. Live' = Live \cup {t} /\ t \notin Live
      BY <1>3, <1>a DEF ForkParent, Allocate, Fresh, Live
    <2>2. Owed' = Owed \ {w} /\ w \in Owed /\ remaining_tasks' = remaining_tasks
      BY <1>3, <1>a DEF ForkParent, Owed
    <2>3. /\ IsFiniteSet(Live') /\ Cardinality(Live') = Cardinality(Live) + 1
          /\ Cardinality(Owed') = Cardinality(Owed) - 1
      BY <1>b, <2>1, <2>2, OneMore, OneLess
    <2>4. QED
      BY <1>b, <1>c, <2>2, <2>3 DEF Counts
  <1>4. ASSUME NEW w \in Workers, Finalize(w) PROVE Counts'
    <2>1. current_task[w] \in Live
      BY <1>4, CurrentIsLive DEF Finalize, Where, Control
    <2>2. Live' = Live \ {current_task[w]}
      BY <1>4, <1>a DEF Finalize, Live
    <2>3. Owed' = Owed \cup {w} /\ w \notin Owed /\ remaining_tasks' = remaining_tasks
      BY <1>4, <1>a DEF Finalize, Owed
    <2>4. /\ IsFiniteSet(Live') /\ Cardinality(Live') = Cardinality(Live) - 1
          /\ Cardinality(Owed') = Cardinality(Owed) + 1
      BY <1>b, <2>1, <2>2, <2>3, OneMore, OneLess
    <2>5. QED
      BY <1>b, <1>c, <2>3, <2>4 DEF Counts
  <1>5. ASSUME NEW w \in Workers, Finalized(w) PROVE Counts'
    <2>1. Owed' = Owed \ {w} /\ w \in Owed
      BY <1>5, <1>a DEF Finalized, Owed
    <2>2. Live' = Live /\ remaining_tasks' = remaining_tasks - 1
      BY <1>5 DEF Finalized, Live, tasks
    <2>3. QED
      BY <1>b, <1>c, <2>1, <2>2, OneLess DEF Counts
  <1>6. ASSUME NEW w \in Workers, Return(w) PROVE Counts'
    <2>1. current_task[w] \in Live
      BY <1>6, CurrentIsLive DEF Return, Where, Control
    <2>2. Live' = Live
      BY <1>6, <1>a, <2>1 DEF Return, Live
    <2>3. Owed' = Owed /\ remaining_tasks' = remaining_tasks
      BY <1>6, <1>a DEF Return, Owed
    <2>4. QED
      BY <1>d, <2>2, <2>3
  <1>7. ASSUME scheff_run PROVE Counts'
    BY <1>7, <1>a, <1>d DEF scheff_run, Live, Owed, tasks
  <1>8. ASSUME NEW w \in Workers, StartWorker(w) PROVE Counts'
    BY <1>8, <1>a, <1>d DEF StartWorker, Live, Owed, tasks
  <1>9. ASSUME BecomeWorker PROVE Counts'
    BY <1>9, <1>a, <1>d DEF BecomeWorker, Live, Owed, tasks, Where, Control
  <1>10. ASSUME JoinWorkers PROVE Counts'
    BY <1>10, <1>a, <1>d DEF JoinWorkers, Live, Owed, tasks
  <1>11. ASSUME NEW w \in Workers, PopBuffer(w) PROVE Counts'
    BY <1>11, <1>a, <1>d DEF PopBuffer, Live, Owed, tasks
  <1>12. ASSUME NEW w \in Workers, PopQueue(w) PROVE Counts'
    BY <1>12, <1>a, <1>d DEF PopQueue, Live, Owed, tasks
  <1>13. ASSUME NEW w \in Workers, PopEmpty(w) PROVE Counts'
    BY <1>13, <1>a, <1>d DEF PopEmpty, Live, Owed, tasks
  <1>14. ASSUME NEW w \in Workers, Steal(w) PROVE Counts'
    BY <1>14, <1>a, <1>d DEF Steal, Live, Owed, tasks
  <1>15. ASSUME NEW w \in Workers, StealEmpty(w) PROVE Counts'
    BY <1>15, <1>a, <1>d DEF StealEmpty, Live, Owed, tasks
  <1>16. ASSUME NEW w \in Workers, NoTask(w) PROVE Counts'
    BY <1>16, <1>a, <1>d DEF NoTask, Live, Owed, tasks
  <1>17. ASSUME NEW w \in Workers, NotReady(w) PROVE Counts'
    BY <1>17, <1>a, <1>d DEF NotReady, PutBack, Live, Owed, tasks
  <1>18. ASSUME NEW w \in Workers, Resume(w) PROVE Counts'
    BY <1>18, <1>a, <1>d DEF Resume, Live, Owed, tasks
  <1>19. ASSUME NEW w \in Workers, Poll(w) PROVE Counts'
    BY <1>19, <1>a, <1>d DEF Poll, Performs, PutBack, Live, Owed, tasks
  <1>20. ASSUME NEW w \in Workers, SleepPublished(w) PROVE Counts'
    BY <1>20, <1>a, <1>d DEF SleepPublished, Performs, Live, Owed, tasks
  <1>21. ASSUME NEW w \in Workers, SleepDeclined(w) PROVE Counts'
    BY <1>21, <1>a, <1>d DEF SleepDeclined, Performs, PutBack, Live, Owed, tasks
  <1>22. ASSUME NEW w \in Workers, NEW woken \in SUBSET wakers, NEW resume \in BOOLEAN,
              Wake(w, woken, resume)
        PROVE  Counts'
    BY <1>22, <1>a, <1>d DEF Wake, Performs, Live, Owed, tasks
  <1>23. ASSUME NEW w \in Workers, ForkChild(w) PROVE Counts'
    BY <1>23, <1>a, <1>d DEF ForkChild, Live, Owed, tasks
  <1>24. ASSUME NEW w \in Workers, NEW t \in Tasks, WakeOne(w, t) PROVE Counts'
    BY <1>24, <1>a, <1>d DEF WakeOne, Live, Owed, tasks
  <1>25. ASSUME NEW w \in Workers, WakeResume(w) PROVE Counts'
    BY <1>25, <1>a, <1>d DEF WakeResume, PutBack, Live, Owed, tasks
  <1>26. ASSUME NEW w \in Workers, WakeFinal(w) PROVE Counts'
    BY <1>26, <1>a, <1>d DEF WakeFinal, Live, Owed, tasks
  <1>27. CASE UNCHANGED vars
    BY <1>27, <1>d DEF vars, Live, Owed, tasks
  <1> QED
    BY <1>1, <1>2, <1>3, <1>4, <1>5, <1>6, <1>7, <1>8, <1>9, <1>10, <1>11, <1>12, <1>13, <1>14,
       <1>15, <1>16, <1>17, <1>18, <1>19, <1>20, <1>21, <1>22, <1>23, <1>24, <1>25, <1>26, <1>27
       DEF Next, MainStep, Terminated, WorkerStep, Dispatch, TaskStep, Serve

-----------------------------------------------------------------------------
(* Leaving the loop *)

\* When the counter is zero no task exists.
LEMMA NoLiveTask ==
    ASSUME Where, Counts, remaining_tasks = 0
    PROVE  Live = {}
  <1>1. Cardinality(Live) \in Nat /\ Cardinality(Owed) \in Nat /\ IsFiniteSet(Live)
    BY OwedIsFinite, FS_CardinalityType DEF Counts
  <1>2. Cardinality(Live) = 0
    BY <1>1 DEF Counts
  <1>3. QED
    BY <1>1, <1>2, FS_EmptySet

\* A worker leaves only when no task exists, and none comes to exist after that:
\* only a task that runs can fork.
LEMMA ExitedStep == Where /\ Counts /\ Exited /\ [Next]_vars => Exited'
  <1> SUFFICES ASSUME Where, Counts, Exited, [Next]_vars, NEW x \in Workers, pc'[x] = "exit"
               PROVE  main' # "setup" /\ \A t \in Tasks : state'[t] = "FREE"
    BY DEF Exited
  <1> USE DEF Goto
  <1>a. /\ pc \in [Workers -> Labels] /\ state \in [Tasks -> {"FREE", "PAUSED", "FINISHED"}]
    BY DEF Where, Types
  <1>b. \A w \in Workers : current_task[w] # None => current_task[w] \in Tasks /\ state[current_task[w]] # "FREE"
    BY CurrentIsLive DEF Live
  <1>c. ASSUME pc[x] = "exit" PROVE main # "setup" /\ \A t \in Tasks : state[t] = "FREE"
    BY <1>c DEF Exited
  <1>1. ASSUME NEW t \in Tasks, scheff_schedule(t) PROVE FALSE
    BY <1>1, <1>c DEF scheff_schedule
  <1>2. ASSUME NEW w \in Workers, NEW t \in Tasks, ForkParent(w, t) PROVE FALSE
    <2>1. current_task[w] # None
      BY <1>2 DEF ForkParent, Where, Control
    <2>2. pc[x] = "exit"
      BY <1>2, <1>a DEF ForkParent
    <2>3. QED
      BY <1>b, <1>c, <2>1, <2>2
  <1>3. ASSUME NEW w \in Workers, Return(w) PROVE FALSE
    <2>1. current_task[w] # None
      BY <1>3 DEF Return, Where, Control
    <2>2. pc[x] = "exit"
      BY <1>3, <1>a DEF Return
    <2>3. QED
      BY <1>b, <1>c, <2>1, <2>2
  <1>4. ASSUME NEW w \in Workers, Finalize(w)
        PROVE  main' # "setup" /\ \A t \in Tasks : state'[t] = "FREE"
    BY <1>4, <1>a, <1>c DEF Finalize
  <1>5. ASSUME NEW w \in Workers, NoTask(w)
        PROVE  main' # "setup" /\ \A t \in Tasks : state'[t] = "FREE"
    <2>1. main' = main /\ state' = state
      BY <1>5 DEF NoTask, tasks
    <2>2. CASE pc[x] = "exit"
      BY <1>c, <2>1, <2>2
    <2>3. CASE pc[x] # "exit"
      <3>1. remaining_tasks = 0 /\ pc[w] = "steal"
        BY <1>5, <1>a, <2>3 DEF NoTask
      <3>2. main # "setup"
        BY <3>1 DEF Where, Control
      <3>3. QED
        BY <2>1, <3>1, <3>2, NoLiveTask DEF Live
    <2>4. QED
      BY <2>2, <2>3
  <1>6. ASSUME scheff_run
        PROVE  pc[x] = "exit" /\ state' = state /\ main' # "setup"
    BY <1>6, <1>a, <1>c DEF scheff_run, tasks
  <1>7. ASSUME NEW w \in Workers, StartWorker(w)
        PROVE  pc[x] = "exit" /\ state' = state /\ main' # "setup"
    BY <1>7, <1>a, <1>c DEF StartWorker, tasks
  <1>8. ASSUME BecomeWorker
        PROVE  pc[x] = "exit" /\ state' = state /\ main' # "setup"
    BY <1>8, <1>a, <1>c DEF BecomeWorker, tasks
  <1>9. ASSUME JoinWorkers
        PROVE  pc[x] = "exit" /\ state' = state /\ main' # "setup"
    BY <1>9, <1>a, <1>c DEF JoinWorkers, tasks
  <1>10. ASSUME NEW w \in Workers, PopBuffer(w)
        PROVE  pc[x] = "exit" /\ state' = state /\ main' # "setup"
    BY <1>10, <1>a, <1>c DEF PopBuffer, tasks
  <1>11. ASSUME NEW w \in Workers, PopQueue(w)
        PROVE  pc[x] = "exit" /\ state' = state /\ main' # "setup"
    BY <1>11, <1>a, <1>c DEF PopQueue, tasks
  <1>12. ASSUME NEW w \in Workers, PopEmpty(w)
        PROVE  pc[x] = "exit" /\ state' = state /\ main' # "setup"
    BY <1>12, <1>a, <1>c DEF PopEmpty, tasks
  <1>13. ASSUME NEW w \in Workers, Steal(w)
        PROVE  pc[x] = "exit" /\ state' = state /\ main' # "setup"
    BY <1>13, <1>a, <1>c DEF Steal, tasks
  <1>14. ASSUME NEW w \in Workers, StealEmpty(w)
        PROVE  pc[x] = "exit" /\ state' = state /\ main' # "setup"
    BY <1>14, <1>a, <1>c DEF StealEmpty, tasks
  <1>15. ASSUME NEW w \in Workers, NotReady(w)
        PROVE  pc[x] = "exit" /\ state' = state /\ main' # "setup"
    BY <1>15, <1>a, <1>c DEF NotReady, PutBack, tasks
  <1>16. ASSUME NEW w \in Workers, Resume(w)
        PROVE  pc[x] = "exit" /\ state' = state /\ main' # "setup"
    BY <1>16, <1>a, <1>c DEF Resume, tasks
  <1>17. ASSUME NEW w \in Workers, Poll(w)
        PROVE  pc[x] = "exit" /\ state' = state /\ main' # "setup"
    BY <1>17, <1>a, <1>c DEF Poll, Performs, PutBack, tasks
  <1>18. ASSUME NEW w \in Workers, SleepPublished(w)
        PROVE  pc[x] = "exit" /\ state' = state /\ main' # "setup"
    BY <1>18, <1>a, <1>c DEF SleepPublished, Performs, tasks
  <1>19. ASSUME NEW w \in Workers, SleepDeclined(w)
        PROVE  pc[x] = "exit" /\ state' = state /\ main' # "setup"
    BY <1>19, <1>a, <1>c DEF SleepDeclined, Performs, PutBack, tasks
  <1>20. ASSUME NEW w \in Workers, NEW woken \in SUBSET wakers, NEW resume \in BOOLEAN, Wake(w, woken, resume)
        PROVE  pc[x] = "exit" /\ state' = state /\ main' # "setup"
    BY <1>20, <1>a, <1>c DEF Wake, Performs, tasks
  <1>21. ASSUME NEW w \in Workers, ForkChild(w)
        PROVE  pc[x] = "exit" /\ state' = state /\ main' # "setup"
    BY <1>21, <1>a, <1>c DEF ForkChild, tasks
  <1>22. ASSUME NEW w \in Workers, NEW t \in Tasks, WakeOne(w, t)
        PROVE  pc[x] = "exit" /\ state' = state /\ main' # "setup"
    BY <1>22, <1>a, <1>c DEF WakeOne, tasks
  <1>23. ASSUME NEW w \in Workers, WakeResume(w)
        PROVE  pc[x] = "exit" /\ state' = state /\ main' # "setup"
    BY <1>23, <1>a, <1>c DEF WakeResume, PutBack, tasks
  <1>24. ASSUME NEW w \in Workers, WakeFinal(w)
        PROVE  pc[x] = "exit" /\ state' = state /\ main' # "setup"
    BY <1>24, <1>a, <1>c DEF WakeFinal, tasks
  <1>25. ASSUME NEW w \in Workers, Fork(w)
        PROVE  pc[x] = "exit" /\ state' = state /\ main' # "setup"
    BY <1>25, <1>a, <1>c DEF Fork, Performs, tasks
  <1>26. ASSUME NEW w \in Workers, Finalized(w)
        PROVE  pc[x] = "exit" /\ state' = state /\ main' # "setup"
    BY <1>26, <1>a, <1>c DEF Finalized, tasks
  <1>27. ASSUME UNCHANGED vars
        PROVE  pc[x] = "exit" /\ state' = state /\ main' # "setup"
    BY <1>27, <1>c DEF vars, tasks
  <1> QED
    BY <1>c, <1>1, <1>2, <1>3, <1>4, <1>5, <1>6, <1>7, <1>8, <1>9, <1>10, <1>11, <1>12, <1>13,
       <1>14, <1>15, <1>16, <1>17, <1>18, <1>19, <1>20, <1>21, <1>22, <1>23, <1>24, <1>25, <1>26,
       <1>27
       DEF Next, MainStep, Terminated, WorkerStep, Dispatch, TaskStep, Serve

-----------------------------------------------------------------------------
\* scheff_init establishes the invariant.
LEMMA InitInv == Init => IInv
  <1> SUFFICES ASSUME Init PROVE IInv
    OBVIOUS
  <1>0. 0 \in Workers /\ <<>> \in Seq(Tasks)
    BY DEF Workers
  <1>1. Types
    BY <1>0 DEF Init, Types, Labels, NoPayload
  <1>2. Control /\ FinishedIsHeld /\ Exited
    BY <1>0 DEF Init, Control, FinishedIsHeld, Exited, NoPayload
  <1>3. Placed
    <2> DEFINE kind == [t \in Tasks |-> "none"]
               at == [t \in Tasks |-> 0]
    <2>1. /\ kind \in [Tasks -> Kinds] /\ at \in [Tasks -> Workers]
          /\ \A t \in Tasks : kind[t] = "none"
      BY <1>0 DEF Kinds
    <2> HIDE DEF kind, at
    <2>2. \A w \in Workers : queue[w] = <<>>
      BY DEF Init
    <2>3. \A t : ~In(t, <<>>)
      BY DEF In
    <2>4. Queues(kind, at)
      BY <2>1, <2>2, <2>3 DEF Queues
    <2>5. States(kind) /\ Wakers(kind) /\ Buffers(kind, at) /\ Currents(kind, at)
      BY <2>1 DEF Init, States, Wakers, Buffers, Currents
    <2>6. News(kind, at) /\ Wakings(kind, at)
      BY <2>1 DEF Init, News, Wakings, NoPayload
    <2>7. \A w \in Workers : Distinct(queue[w])
      BY <2>2 DEF Distinct
    <2>8. QED
      BY <2>1, <2>4, <2>5, <2>6, <2>7 DEF Placed, Fits
  <1>4. Counts
    <2>1. Live = {} /\ Owed = {} /\ remaining_tasks = 0
      BY DEF Init, Live, Owed
    <2>2. QED
      BY <2>1, FS_EmptySet DEF Counts
  <1>5. QED
    BY <1>1, <1>2, <1>3, <1>4 DEF IInv, Where

\* Each task has one place, the counter counts, and workers leave when nothing is left.
THEOREM InductiveInvariant == Spec => []IInv
  <1>1. IInv /\ [Next]_vars => IInv'
    BY WhereStep, CountsStep, ExitedStep DEF IInv
  <1>2. QED
    BY InitInv, <1>1, PTL DEF Spec

-----------------------------------------------------------------------------
(* The properties the run checks *)

\* TypeOK: the counter of scheff_worker_thread never goes below zero.
THEOREM Typed == Spec => []TypeOK
  <1>1. IInv => TypeOK
    <2> SUFFICES ASSUME IInv PROVE TypeOK
      OBVIOUS
    <2>1. Cardinality(Live) \in Nat /\ Cardinality(Owed) \in Nat
      BY OwedIsFinite, FS_CardinalityType DEF IInv, Counts
    <2>2. remaining_tasks \in Nat
      BY <2>1 DEF IInv, Counts
    <2>3. QED
      BY <2>2 DEF IInv, Where, Types, TypeOK
  <1>2. QED
    BY <1>1, InductiveInvariant, PTL

\* remaining_tasks is right for any number of workers, tasks, forks and wakes.
THEOREM CounterIsRight == Spec => []RemainingCounts
  <1>1. IInv => RemainingCounts
    BY DEF IInv, Counts, RemainingCounts, Live, Owed
  <1>2. QED
    BY <1>1, InductiveInvariant, PTL

\* A worker never takes a finished coroutine from a queue: the fatal error of
\* scheff_worker_thread is unreachable.
THEOREM DeadStaysDead == Spec => []NeverResumesDead
  <1>1. IInv => NeverResumesDead
    BY DEF IInv, Where, Control, NeverResumesDead
  <1>2. QED
    BY <1>1, InductiveInvariant, PTL

\* A queue in which no task is, is empty.
LEMMA NothingIn ==
    ASSUME NEW s \in Seq(Tasks), \A t \in Tasks : ~In(t, s)
    PROVE  s = <<>>
  <1>1. ASSUME s # <<>> PROVE FALSE
    <2>1. Len(s) \in Nat \ {0} /\ DOMAIN s = 1 .. Len(s) /\ s[1] \in Tasks
      BY <1>1
    <2>2. In(s[1], s)
      BY <2>1 DEF In
    <2>3. QED
      BY <2>1, <2>2
  <1>2. QED
    BY <1>1

\* A worker leaves its loop only when all tasks are freed and all queues are empty.
THEOREM LeavesWhenDone == Spec => []ExitsWhenDone
  <1>1. IInv => ExitsWhenDone
    <2> SUFFICES ASSUME IInv, \E w \in Workers : pc[w] = "exit"
                 PROVE  /\ \A t \in Tasks : state[t] = "FREE"
                        /\ \A w \in Workers : queue[w] = <<>> /\ buffer[w] = None
      BY DEF ExitsWhenDone
    <2>1. \A t \in Tasks : state[t] = "FREE"
      BY DEF IInv, Exited
    <2>2. PICK kind \in [Tasks -> Kinds], at \in [Tasks -> Workers] : Fits(kind, at)
      BY DEF IInv, Where, Placed
    <2>3. \A t \in Tasks : kind[t] = "none"
      BY <2>1, <2>2 DEF Fits, States
    <2>4. \A w \in Workers : buffer[w] = None
      BY <2>2, <2>3 DEF Fits, Buffers, IInv, Where, Types
    <2>5. \A w \in Workers : \A t \in Tasks : ~In(t, queue[w])
      BY <2>2, <2>3 DEF Fits, Queues
    <2>6. \A w \in Workers : queue[w] = <<>>
      BY <2>5, NothingIn DEF IInv, Where, Types
    <2>7. QED
      BY <2>1, <2>4, <2>6
  <1>2. QED
    BY <1>1, InductiveInvariant, PTL

\* One place means one holder.
LEMMA Held ==
    ASSUME IInv, NEW t \in Tasks
    PROVE  Cardinality(Holders(t)) = IF state[t] = "FREE" THEN 0 ELSE 1
  <1>1. PICK kind \in [Tasks -> Kinds], at \in [Tasks -> Workers] : Fits(kind, at)
    BY DEF IInv, Where, Placed
  <1>2. kind[t] \in Kinds /\ at[t] \in Workers
    OBVIOUS
  <1> DEFINE q == UNION {{<<"queue", w, i>> : i \in {j \in DOMAIN queue[w] : queue[w][j] = t}} : w \in Workers}
             b == {<<"buffer", w>> : w \in {v \in Workers : buffer[v] = t}}
             c == {<<"current", w>> : w \in {v \in Workers : current_task[v] = t}}
             n == {<<"new", w>> : w \in {v \in Workers : new_task[v] = t}}
             a == {<<"waking", w>> : w \in {v \in Workers : t \in payload[v].wakers}}
             k == {<<"waker">> : u \in wakers \cap {t}}
  <1>3. Holders(t) = q \cup b \cup c \cup n \cup a \cup k
    BY DEF Holders
  <1>4. \A w \in Workers : In(t, queue[w]) <=> kind[t] = "queue" /\ at[t] = w
    BY <1>1 DEF Fits, Queues
  <1>5. kind[t] # "queue" => q = {}
    BY <1>4 DEF In
  <1>6. kind[t] = "queue" => \E x : q = {x}
    <2> SUFFICES ASSUME kind[t] = "queue" PROVE \E x : q = {x}
      OBVIOUS
    <2>1. PICK i \in DOMAIN queue[at[t]] : queue[at[t]][i] = t
      BY <1>2, <1>4 DEF In
    <2>2. \A j \in DOMAIN queue[at[t]] : queue[at[t]][j] = t <=> j = i
      BY <1>2, <2>1 DEF IInv, Where, Placed, Distinct
    <2>3. \A w \in Workers : \A j \in DOMAIN queue[w] : queue[w][j] = t <=> w = at[t] /\ j = i
      BY <1>4, <2>2 DEF In
    <2>4. q = {<<"queue", at[t], i>>}
      BY <1>2, <2>1, <2>3
    <2>5. QED
      BY <2>4
  <1>7. b = IF kind[t] = "buffer" THEN {<<"buffer", at[t]>>} ELSE {}
    BY <1>1, <1>2 DEF Fits, Buffers
  <1>8. c = IF kind[t] = "current" THEN {<<"current", at[t]>>} ELSE {}
    BY <1>1, <1>2 DEF Fits, Currents
  <1>9. n = IF kind[t] = "new" THEN {<<"new", at[t]>>} ELSE {}
    BY <1>1, <1>2 DEF Fits, News
  <1>10. a = IF kind[t] = "waking" THEN {<<"waking", at[t]>>} ELSE {}
    BY <1>1, <1>2 DEF Fits, Wakings
  <1>11. k = IF kind[t] = "waker" THEN {<<"waker">>} ELSE {}
    BY <1>1 DEF Fits, Wakers
  <1> HIDE DEF q, b, c, n, a, k
  <1>12. CASE kind[t] = "none"
    <2>1. Holders(t) = {}
      BY <1>3, <1>5, <1>7, <1>8, <1>9, <1>10, <1>11, <1>12
    <2>2. QED
      BY <1>1, <1>12, <2>1, FS_EmptySet DEF Fits, States
  <1>13. CASE kind[t] # "none"
    <2>1. \E x : Holders(t) = {x}
      <3>1. CASE kind[t] = "queue"
        BY ZenonT(60), <1>3, <1>6, <1>7, <1>8, <1>9, <1>10, <1>11, <3>1
      <3>2. CASE kind[t] = "buffer"
        BY ZenonT(60), <1>3, <1>5, <1>7, <1>8, <1>9, <1>10, <1>11, <3>2
      <3>3. CASE kind[t] = "current"
        BY ZenonT(60), <1>3, <1>5, <1>7, <1>8, <1>9, <1>10, <1>11, <3>3
      <3>4. CASE kind[t] = "new"
        BY ZenonT(60), <1>3, <1>5, <1>7, <1>8, <1>9, <1>10, <1>11, <3>4
      <3>5. CASE kind[t] = "waking"
        BY ZenonT(60), <1>3, <1>5, <1>7, <1>8, <1>9, <1>10, <1>11, <3>5
      <3>6. CASE kind[t] = "waker"
        BY ZenonT(60), <1>3, <1>5, <1>7, <1>8, <1>9, <1>10, <1>11, <3>6
      <3>7. QED
        BY <1>2, <1>13, <3>1, <3>2, <3>3, <3>4, <3>5, <3>6 DEF Kinds
    <2>2. state[t] # "FREE"
      BY <1>1, <1>13 DEF Fits, States
    <2>3. QED
      BY <2>1, <2>2, FS_Singleton
  <1>14. QED
    BY <1>12, <1>13

\* No task_t is lost, run by two workers, or reachable after it was freed, for any
\* number of workers and tasks, whatever is stolen, forked or woken meanwhile.
THEOREM NoTaskIsLost == Spec => []OnePlace
  <1>1. IInv => OnePlace
    BY Held DEF OnePlace
  <1>2. QED
    BY <1>1, InductiveInvariant, PTL
=============================================================================
