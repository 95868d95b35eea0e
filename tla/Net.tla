-------------------------------- MODULE Net ---------------------------------
(***************************************************************************)
(* The socket calls of src/utils/net.c for tasks of the scheduler: try, park *)
(* the task on a poll condition when the socket would block, try once more.  *)
(* Sockets, poll and the system calls are the kernel's; a byte is a unit.    *)
(***************************************************************************)
EXTENDS Integers, Sequences, SequencesExt, FiniteSetsExt

CONSTANTS
    Listeners,  \* tasks with a listening socket of their own (SO_REUSEPORT)
    Conns,      \* connections clients open, and the tasks that serve them
    SndBuf,     \* units a socket's send buffer holds
    NFds        \* descriptors the process may have for connections

\* What is assumed of the constants.
NetConstants == SndBuf \in Nat \ {0} /\ NFds \in Nat /\ Listeners \cap Conns = {}

VARIABLES
    backlog,   \* [Listeners -> Seq(Conns)] connections not accepted yet
    peer,      \* [Conns -> {"none", "open", "fin", "reset", "broken"}] the client's
               \* end; "broken" is reset after it was closed
    inbox,     \* [Conns -> Seq(unit)] sent by the client, not yet received
    outbox,    \* [Conns -> 0 .. SndBuf] sent by the server, not yet read
    fd,        \* [Conns -> 0 .. NFds] the descriptor of an accepted socket
    killed,    \* SIGPIPE ended the process
    call       \* [tasks -> [op, step, size, n, data]] the await_* call of a task

kernel == <<backlog, peer, inbox, outbox, fd>>
Tasks == Listeners \cup Conns

NoCall == [op |-> "none", step |-> "done", size |-> 0, n |-> 0, data |-> <<>>]

NetInit ==
    /\ backlog = [l \in Listeners |-> <<>>]
    /\ peer = [c \in Conns |-> "none"]
    /\ inbox = [c \in Conns |-> <<>>]
    /\ outbox = [c \in Conns |-> 0]
    /\ fd = [c \in Conns |-> 0]
    /\ killed = FALSE
    /\ call = [t \in Tasks |-> NoCall]

Await(op, size) == [op |-> op, step |-> "try", size |-> size, n |-> 0, data |-> <<>>]

FreeFds == (1 .. NFds) \ {fd[c] : c \in Conns}

-----------------------------------------------------------------------------
(* The kernel's answers: n as the call returns it, and errno *)

EAGAIN == [n |-> -1, errno |-> "EAGAIN", data |-> <<>>]
Failure == [n |-> -1, errno |-> "other", data |-> <<>>]
Success(n, data) == [n |-> n, errno |-> "none", data |-> data]

accept4(l) ==
    IF backlog[l] = <<>> THEN EAGAIN
    ELSE IF FreeFds = {} THEN Failure
    ELSE Success(Min(FreeFds), <<Head(backlog[l])>>)

recv(c, size) ==
    LET k == Min({size, Len(inbox[c])})
    IN  IF inbox[c] # <<>> THEN Success(k, SubSeq(inbox[c], 1, k))
        ELSE CASE peer[c] = "fin" -> Success(0, <<>>)
               [] peer[c] \in {"reset", "broken"} -> Failure
               [] OTHER -> EAGAIN

send(c, size) ==
    IF peer[c] = "reset" THEN Failure
    ELSE IF outbox[c] = SndBuf THEN EAGAIN
    ELSE Success(Min({size, SndBuf - outbox[c]}), <<>>)

Answer(t) ==
    CASE call[t].op = "accept" -> accept4(t)
      [] call[t].op = "recv" -> recv(t, call[t].size)
      [] OTHER -> send(t, call[t].size)

\* What a call that succeeded did to the sockets.  The client's kernel resets
\* a connection on which data comes in after the client closed it: EPIPE, not
\* ECONNRESET, is the error then.
Effect(t, answer) ==
    CASE call[t].op = "accept" /\ answer.n > 0 ->
           /\ backlog' = [backlog EXCEPT ![t] = Tail(@)]
           /\ fd' = [fd EXCEPT ![answer.data[1]] = answer.n]
           /\ UNCHANGED <<peer, inbox, outbox>>
      [] call[t].op = "recv" /\ answer.n > 0 ->
           /\ inbox' = [inbox EXCEPT ![t] = SubSeq(@, answer.n + 1, Len(@))]
           /\ UNCHANGED <<backlog, peer, outbox, fd>>
      [] call[t].op = "send" /\ answer.n > 0 ->
           /\ outbox' = [outbox EXCEPT ![t] = @ + answer.n]
           /\ peer' = [peer EXCEPT ![t] = IF @ = "fin" THEN "broken" ELSE @]
           /\ UNCHANGED <<backlog, inbox, fd>>
      [] OTHER -> UNCHANGED kernel

\* poll: the events a socket has; a reset one has them all.
Revents(t) ==
    IF call[t].op = "accept" THEN IF backlog[t] # <<>> THEN {"READ"} ELSE {}
    ELSE IF peer[t] \in {"reset", "broken"} THEN {"READ", "WRITE", "HANGUP", "ERROR"}
    ELSE IF call[t].op = "recv" THEN IF inbox[t] # <<>> \/ peer[t] = "fin" THEN {"READ"} ELSE {}
    ELSE IF outbox[t] < SndBuf THEN {"WRITE"} ELSE {}

Awaited(t) == IF call[t].op = "send" THEN "WRITE" ELSE "READ"

-----------------------------------------------------------------------------
(* await_accept4, await_recv, await_send *)

Returns(t, n, data) == call' = [call EXCEPT ![t].step = "done", ![t].n = n, ![t].data = data]

\* net.c passes no MSG_NOSIGNAL and nobody handles SIGPIPE: a send that would
\* answer EPIPE ends the process.
Raises(t) == call[t].op = "send" /\ t \in Conns /\ peer[t] = "broken"
SIGPIPE(t) ==
    /\ call[t].step \in {"try", "again"} /\ Raises(t)
    /\ killed' = TRUE
    /\ UNCHANGED <<kernel, call>>

Try(t) ==
    LET answer == Answer(t)
    IN  /\ call[t].step = "try" /\ ~Raises(t)
        /\ IF answer.errno = "EAGAIN"
             THEN call' = [call EXCEPT ![t].step = "poll"]
             ELSE Returns(t, answer.n, answer.data)
        /\ Effect(t, answer)

\* Mutant: the task goes on at once.
PollsOnce(t) == TRUE
poll_await_condition(t) == Revents(t) # {}

\* The scheduler found the condition true and the task goes on with revents.
poll_await(t) ==
    /\ call[t].step = "poll"
    /\ poll_await_condition(t)
    /\ CASE "HANGUP" \in Revents(t) -> Returns(t, 0, <<>>)
         [] "HANGUP" \notin Revents(t) /\ Revents(t) # {} /\ Awaited(t) \notin Revents(t) ->
              Returns(t, -1, <<>>)
         [] OTHER -> call' = [call EXCEPT ![t].step = "again"]
    /\ UNCHANGED kernel

\* "There must be something here": the second answer is the result.
Again(t) ==
    LET answer == Answer(t)
    IN  /\ call[t].step = "again" /\ ~Raises(t)
        /\ Returns(t, answer.n, answer.data)
        /\ Effect(t, answer)

AwaitStep(t) ==
    \/ SIGPIPE(t)
    \/ (Try(t) \/ poll_await(t) \/ Again(t)) /\ UNCHANGED killed
=============================================================================
