----------------------------- MODULE HttpServer -----------------------------
(***************************************************************************)
(* The server of src/bench/http_server_bench_/libscheff.c over Net: tasks    *)
(* that accept and fork a task per connection, which reads requests and      *)
(* answers them.  A client asks for a page, in several units, and waits for   *)
(* the whole answer before it asks for another; it may go away at any time.   *)
(***************************************************************************)
EXTENDS Net

CONSTANTS
    RequestUnits,   \* units of a request
    ResponseUnits,  \* [pages -> Nat] units of the answer
    BUF_SIZE,       \* units in the server's two buffers
    MaxRequests     \* bound: requests of all clients together

HttpConstants ==
    /\ NetConstants
    /\ BUF_SIZE \in Nat /\ RequestUnits \in 1 .. BUF_SIZE
    /\ \A p \in DOMAIN ResponseUnits : ResponseUnits[p] \in 1 .. BUF_SIZE - 1
    /\ DOMAIN ResponseUnits \cap {"none", "bad", "part"} = {}

Pages == DOMAIN ResponseUnits

VARIABLES
    task,     \* [Conns -> {"none", "recv", "send", "closed"}] what connection_fun is at
    buffer,   \* [Conns -> Seq(unit)] msg_buffer up to buflen
    left,     \* [Conns -> Nat] bytesleft of await_send_all
    client    \* [Conns -> [asked, sent, page, got]] the client's side

server == <<task, buffer, left>>
vars == <<kernel, killed, call, server, client>>

NewClient == [asked |-> 0, sent |-> 0, page |-> "none", got |-> 0]

Init ==
    /\ NetInit
    /\ task = [c \in Conns |-> "none"]
    /\ buffer = [c \in Conns |-> <<>>]
    /\ left = [c \in Conns |-> 0]
    /\ client = [c \in Conns |-> NewClient]

-----------------------------------------------------------------------------
(* Clients *)

Connect(c, l) ==
    /\ peer[c] = "none"
    /\ peer' = [peer EXCEPT ![c] = "open"]
    /\ backlog' = [backlog EXCEPT ![l] = Append(@, c)]
    /\ UNCHANGED <<inbox, outbox, fd, call, server, client>>

\* The last unit of a request completes it and says which page it is for; a
\* malformed request ends in "bad".
Ask(c, page) ==
    /\ peer[c] = "open" /\ client[c].page = "none"
    /\ client[c].sent = 0 => MapThenSumSet(LAMBDA d : client[d].asked, Conns) < MaxRequests
    /\ LET last == client[c].sent + 1 = RequestUnits
       IN  /\ inbox' = [inbox EXCEPT ![c] = Append(@, IF last THEN page ELSE "part")]
           /\ client' = [client EXCEPT ![c].sent = IF last THEN 0 ELSE @ + 1,
                                       ![c].page = IF last THEN page ELSE @,
                                       ![c].asked = IF client[c].sent = 0 THEN @ + 1 ELSE @]
    /\ UNCHANGED <<backlog, peer, outbox, fd, call, server>>

Read(c) ==
    /\ peer[c] = "open" /\ outbox[c] > 0
    /\ outbox' = [outbox EXCEPT ![c] = @ - 1]
    /\ LET whole == client[c].page # "bad" /\ client[c].got + 1 = ResponseUnits[client[c].page]
       IN  client' = [client EXCEPT ![c].got = IF whole THEN 0 ELSE @ + 1,
                                    ![c].page = IF whole THEN "none" ELSE @]
    /\ UNCHANGED <<backlog, peer, inbox, fd, call, server>>

\* A client that closes with units still to be read resets the connection.
Leave(c) ==
    /\ peer[c] = "open"
    /\ \E how \in {"fin", "reset"} :
          /\ outbox[c] > 0 => how = "reset"
          /\ peer' = [peer EXCEPT ![c] = how]
          /\ inbox' = [inbox EXCEPT ![c] = IF how = "reset" THEN <<>> ELSE @]
    /\ outbox' = [outbox EXCEPT ![c] = 0]
    /\ client' = [client EXCEPT ![c] = [NewClient EXCEPT !.asked = client[c].asked]]
    /\ UNCHANGED <<backlog, fd, call, server>>

-----------------------------------------------------------------------------
(* listener_fun *)

\* Accept for ever, and stop at the first error.
listener_fun(l) ==
    /\ call[l].step = "done"
    /\ call[l].n # -1
    /\ LET forked == ToSet(call[l].data)
       IN  /\ task' = [c \in Conns |-> IF c \in forked THEN "recv" ELSE task[c]]
           /\ call' = [t \in Tasks |->
                  IF t = l THEN Await("accept", 0)
                  ELSE IF t \in forked THEN Await("recv", BUF_SIZE) ELSE call[t]]
    /\ UNCHANGED <<kernel, buffer, left, client>>

-----------------------------------------------------------------------------
(* connection_fun *)

\* phr_parse_request: done, an error, or incomplete.
phr_structed(buf) ==
    CASE buf = <<>> \/ ToSet(buf) = {"part"} -> -2
      [] Last(buf) \in Pages /\ Len(buf) = RequestUnits -> Len(buf)
      [] OTHER -> -1

build_response(page) == IF ResponseUnits[page] >= BUF_SIZE THEN -1 ELSE ResponseUnits[page]

Close(c) ==
    /\ fd' = [fd EXCEPT ![c] = 0]
    /\ task' = [task EXCEPT ![c] = "closed"]
    /\ buffer' = [buffer EXCEPT ![c] = <<>>]
    /\ call' = [call EXCEPT ![c] = NoCall]
    /\ UNCHANGED <<backlog, peer, inbox, outbox, left>>

\* The outer loop starts a request over with an empty buffer.
NextRequest(c) ==
    /\ task' = [task EXCEPT ![c] = "recv"]
    /\ buffer' = [buffer EXCEPT ![c] = <<>>]
    /\ left' = [left EXCEPT ![c] = 0]
    /\ call' = [call EXCEPT ![c] = Await("recv", BUF_SIZE)]

Respond(c, units) ==
    /\ task' = [task EXCEPT ![c] = "send"]
    /\ left' = [left EXCEPT ![c] = units]
    /\ buffer' = [buffer EXCEPT ![c] = <<>>]
    /\ call' = [call EXCEPT ![c] = Await("send", units)]

\* Mutant: the buffer is started over for each piece received.
Replaces(buf, data) == data
Appends(buf, data) == buf \o data

Ends(c) == call[c].n <= 0

RecvReturned(c) ==
    LET buf == Appends(buffer[c], call[c].data)
        parse_ret == phr_structed(buf)
    IN  /\ task[c] = "recv" /\ call[c].step = "done"
        /\ IF Ends(c) THEN Close(c)
           ELSE /\ CASE parse_ret > 0 /\ build_response(Last(buf)) >= 0 ->
                          Respond(c, build_response(Last(buf)))
                     [] parse_ret = -2 /\ Len(buf) < BUF_SIZE ->
                          /\ buffer' = [buffer EXCEPT ![c] = buf]
                          /\ call' = [call EXCEPT ![c] = Await("recv", BUF_SIZE - Len(buf))]
                          /\ UNCHANGED <<task, left>>
                     [] OTHER -> NextRequest(c)
                /\ UNCHANGED kernel
        /\ UNCHANGED client

\* What is left of an answer after the last call.
Rest(c) == left[c] - call[c].n

\* await_send_all, whose own answer connection_fun ignores.
await_send_all(c) ==
    /\ task[c] = "send" /\ call[c].step = "done"
    /\ IF call[c].n = -1 \/ left[c] = call[c].n
         THEN NextRequest(c)
         ELSE /\ left' = [left EXCEPT ![c] = Rest(c)]
              /\ call' = [call EXCEPT ![c] = Await("send", Rest(c))]
              /\ UNCHANGED <<task, buffer>>
    /\ UNCHANGED <<kernel, client>>

Server(t) ==
    /\ ~killed
    /\ \/ AwaitStep(t) /\ UNCHANGED <<server, client>>
       \/ t \in Listeners /\ listener_fun(t) /\ UNCHANGED killed
       \/ t \in Conns /\ (RecvReturned(t) \/ await_send_all(t)) /\ UNCHANGED killed

Client(c) ==
    /\ ~killed
    /\ \/ \E l \in Listeners : Connect(c, l)
       \/ \E page \in Pages \cup {"bad"} : Ask(c, page)
       \/ Leave(c)
    /\ UNCHANGED killed
ReadOn(c) == ~killed /\ Read(c) /\ UNCHANGED killed

Finished == killed \/ \A c \in Conns : peer[c] \in {"fin", "reset", "broken"} /\ task[c] = "closed"

Next ==
    \/ \E t \in Tasks : Server(t)
    \/ \E c \in Conns : Client(c) \/ ReadOn(c)
    \/ Finished /\ UNCHANGED vars

Spec == Init /\ [][Next]_vars

\* The scheduler resumes every task that can run, a client that waits for an
\* answer reads what comes, or it goes away; it need not ask again.
FairSpec ==
    /\ Spec
    /\ \A t \in Tasks : WF_vars(Server(t))
    /\ \A c \in Conns : WF_vars(ReadOn(c))

-----------------------------------------------------------------------------
(* Properties *)

\* A socket call answers -1 to a task only when its connection was reset, and never
\* to a listener, which would stop for good: what poll announced is still there when
\* the call is made again, or Again would turn a wait into an error.
ErrorsAreReal ==
    /\ \A c \in Conns : call[c].n = -1 => peer[c] \in {"reset", "broken"}
    /\ \A l \in Listeners : call[l].n # -1

\* The units of an answer are counted once: while the client is there, what it
\* got, what is on its way and what is left to send make up the page it asked for.
StreamIntact ==
    \A c \in Conns : peer[c] = "open" /\ task[c] = "send" =>
        LET rest == left[c] - IF call[c].step = "done" THEN call[c].n ELSE 0
        IN  rest + outbox[c] > 0 =>
                client[c].got + outbox[c] + rest = ResponseUnits[client[c].page]

\* No two connections share a descriptor, and one that is served has one: closing
\* never takes another connection's descriptor with it.
DescriptorsApart ==
    /\ \A c, d \in Conns : c # d /\ fd[c] # 0 => fd[c] # fd[d]
    /\ \A c \in Conns : (task[c] \in {"recv", "send"}) => fd[c] # 0

\* Again and again there is no well-formed request unanswered unless its client has
\* gone, and no connection open whose client has gone, in the middle of an answer
\* included: await_send counts a hangup as nothing sent, and the loop around it ends.
\* Unless SIGPIPE ended the server, which takes a client that closed its end before
\* it had all of its answer.
AllServed ==
    []<>(\/ killed
         \/ \A c \in Conns :
               /\ client[c].page \in Pages => peer[c] # "open"
               /\ peer[c] \in {"fin", "reset", "broken"} => fd[c] = 0 /\ task[c] = "closed")
=============================================================================
