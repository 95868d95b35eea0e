---------------------------- MODULE BenchesProofs ---------------------------
(***************************************************************************)
(* The sockets and the HTTP server on them, the interleaved lookups, and the  *)
(* meetings of threads and of creatures: an inductive invariant of each.     *)
(***************************************************************************)
EXTENDS Benches, FiniteSetTheorems, SequenceTheorems, NaturalsInduction, WellFoundedInduction, TLAPS

-----------------------------------------------------------------------------
(* Sets that differ in one element *)

\* Their cardinalities differ by that element.
LEMMA OneMoves ==
  ASSUME NEW S, NEW T, NEW i, IsFiniteSet(S), S \ {i} = T \ {i}
  PROVE  /\ IsFiniteSet(T) /\ Cardinality(S) \in Nat /\ Cardinality(T) \in Nat
         /\ Cardinality(T) = Cardinality(S) + (IF i \in T THEN 1 ELSE 0)
                                            - (IF i \in S THEN 1 ELSE 0)
<1> DEFINE R == S \ {i}
<1>1. IsFiniteSet(R) /\ Cardinality(S) \in Nat
      /\ Cardinality(S) = Cardinality(R) + (IF i \in S THEN 1 ELSE 0)
  BY FS_RemoveElement, FS_CardinalityType, FS_Subset, R = S \ {i}
<1>2. Cardinality(R) \in Nat /\ i \notin R
  BY <1>1, FS_CardinalityType
<1>3. T = R \/ T = R \cup {i}
  OBVIOUS
<1>4. CASE i \in T
  <2>1. T = R \cup {i}
    BY <1>3, <1>4
  <2>2. IsFiniteSet(T) /\ Cardinality(T) = Cardinality(R) + 1
    BY <1>1, <1>2, <2>1, FS_AddElement
  <2> HIDE DEF R
  <2> QED
    BY <1>1, <1>2, <1>4, <2>2
<1>5. CASE i \notin T
  <2>1. T = R
    BY <1>3, <1>5
  <2> HIDE DEF R
  <2> QED
    BY <1>1, <1>2, <1>5, <2>1
<1> QED
  BY <1>4, <1>5

-----------------------------------------------------------------------------
(* Sockets *)

\* An element appended to a queue comes after all the others.
LEMMA AppendedTo ==
  ASSUME NEW S, NEW q \in Seq(S), NEW e \in S, NEW r, r = Append(q, e)
  PROVE  /\ r \in Seq(S) /\ Len(r) = Len(q) + 1 /\ DOMAIN r = 1 .. Len(q) + 1
         /\ r[Len(q) + 1] = e /\ \A n \in 1 .. Len(q) : r[n] = q[n]
  OBVIOUS

Units == http!Pages \cup {"bad", "part"}
Gone == {"fin", "reset", "broken"}
Calls == [op : {"none", "accept", "recv", "send"}, step : {"try", "poll", "again", "done"},
          size : Int, n : Int, data : Seq(Units \cup Conns)]
Clients == [asked : Nat, sent : Nat, page : http!Pages \cup {"none", "bad"}, got : Nat]

SocketTypes ==
    /\ backlog \in [Listeners -> Seq(Conns)]
    /\ peer \in [Conns -> {"none", "open"} \cup Gone]
    /\ inbox \in [Conns -> Seq(Units)]
    /\ outbox \in [Conns -> 0 .. SndBuf]
    /\ fd \in [Conns -> 0 .. NFds]
    /\ call \in [http!Tasks -> Calls]
    /\ task \in [Conns -> {"none", "recv", "send", "closed"}]
    /\ buffer \in [Conns -> Seq(Units)]
    /\ left \in [Conns -> Nat]
    /\ client \in [Conns -> Clients]

\* A connection waits in one place of one backlog, then with one listener.
Backlogged(l, k, c) == k \in DOMAIN backlog[l] /\ backlog[l][k] = c
BackloggedOnce ==
    /\ \A c \in Conns, l, m \in Listeners, j, k \in Nat :
          Backlogged(l, j, c) /\ Backlogged(m, k, c) => l = m /\ j = k
    /\ \A c \in Conns, l \in Listeners, k \in Nat : Backlogged(l, k, c) =>
          peer[c] # "none" /\ fd[c] = 0 /\ task[c] = "none"
Accepts(l, c) == call[l].data = <<c>>
AcceptedOnce ==
    /\ \A c \in Conns, l, m \in Listeners : Accepts(l, c) /\ Accepts(m, c) => l = m
    /\ \A c \in Conns, l \in Listeners : Accepts(l, c) =>
          peer[c] # "none" /\ fd[c] # 0 /\ task[c] = "none"

\* A listener is in accept, which comes back with one connection.
ListenerCall(l) ==
    /\ call[l].step = "done" => call[l].data = <<>> \/ \E c \in Conns : Accepts(l, c)
    /\ call[l].step # "done" => call[l].op = "accept" /\ call[l].data = <<>> /\ call[l].n = 0
    /\ call[l].step = "again" => backlog[l] # <<>>

\* With a descriptor for each connection accept does not run out of them.
EnoughDescriptors == IsFiniteSet(Conns) /\ Cardinality(Conns) =< NFds
ListenersGoOn == EnoughDescriptors => \A l \in Listeners : call[l].n # -1

\* A task receives into the rest of its buffer, or sends what is left of an answer;
\* it is told to end only when the client has gone.
Receives(c) == task[c] = "recv" =>
    /\ call[c].op = "recv"
    /\ call[c].data \in Seq(Units)
    /\ call[c].size = BUF_SIZE - Len(buffer[c]) /\ call[c].size > 0
    /\ Len(call[c].data) =< call[c].size
    /\ call[c].step = "done" /\ call[c].n > 0 => call[c].n = Len(call[c].data)
    /\ call[c].step = "again" => inbox[c] # <<>> \/ peer[c] \in Gone
Sends(c) == task[c] = "send" =>
    /\ call[c].op = "send"
    /\ call[c].data = <<>> /\ buffer[c] = <<>>
    /\ left[c] > 0 /\ call[c].n =< left[c]
    /\ call[c].step # "done" => call[c].size = left[c]
    /\ call[c].step = "again" => outbox[c] < SndBuf \/ peer[c] \in {"reset", "broken"}
ConnectionCall(c) ==
    /\ Receives(c) /\ Sends(c)
    /\ call[c].step # "done" => call[c].n = 0 /\ call[c].data = <<>>
    /\ call[c].n =< 0 => call[c].data = <<>>
    /\ call[c].n = -1 => peer[c] \in {"reset", "broken"}
    /\ call[c].n >= -1
    /\ task[c] \in {"none", "closed"} => call[c] = http!NoCall /\ buffer[c] = <<>>
    /\ task[c] \in {"recv", "send"} =>
          fd[c] # 0 /\ peer[c] # "none"
          /\ (call[c].step = "done" /\ call[c].n =< 0 => peer[c] \in Gone)
    /\ task[c] = "closed" => peer[c] \in Gone
    /\ peer[c] = "none" => fd[c] = 0

\* No two connections have the same descriptor.
Apart == \A c, d \in Conns : c # d /\ fd[c] # 0 => fd[c] # fd[d]

\* The units of a request are in order in the buffer, the call and the socket.
UnitAt(c, p) == IF p = RequestUnits THEN client[c].page ELSE "part"
InBuffer(c) == Len(buffer[c])
InCall(c) == Len(call[c].data)
InSocket(c) == Len(inbox[c])
InOrder(c) ==
    /\ \A k \in 1 .. InBuffer(c) : buffer[c][k] = UnitAt(c, k)
    /\ \A k \in 1 .. InCall(c) : call[c].data[k] = UnitAt(c, InBuffer(c) + k)
    /\ \A k \in 1 .. InSocket(c) : inbox[c][k] = UnitAt(c, InBuffer(c) + InCall(c) + k)
Parts(c) == InBuffer(c) + InCall(c) + InSocket(c)

\* What the server has yet to send.
ToSend(c) ==
    IF task[c] = "send" THEN left[c] - (IF call[c].step = "done" THEN call[c].n ELSE 0) ELSE 0

\* A client is asking, has asked, gets its answer or waits for one that never comes.
Asking(c) ==
    /\ client[c].page = "none" /\ Parts(c) = client[c].sent /\ client[c].sent < RequestUnits
    /\ client[c].got = 0 /\ outbox[c] = 0 /\ ToSend(c) = 0
Asked(c) ==
    /\ client[c].page # "none" /\ Parts(c) = RequestUnits /\ client[c].sent = 0
    /\ client[c].got = 0 /\ outbox[c] = 0 /\ ToSend(c) = 0
Answered(c) ==
    /\ client[c].page \in http!Pages /\ Parts(c) = 0 /\ client[c].sent = 0
    /\ client[c].got + outbox[c] + ToSend(c) = ResponseUnits[client[c].page]
    /\ outbox[c] + ToSend(c) > 0
Refused(c) ==
    /\ client[c].page = "bad" /\ Parts(c) = 0 /\ client[c].sent = 0
    /\ client[c].got = 0 /\ outbox[c] = 0 /\ ToSend(c) = 0
Stream(c) == peer[c] \in {"none", "open"} =>
    InOrder(c) /\ (Asking(c) \/ Asked(c) \/ Answered(c) \/ Refused(c))

SocketsInv ==
    /\ SocketTypes /\ BackloggedOnce /\ AcceptedOnce /\ ListenersGoOn /\ Apart
    /\ \A l \in Listeners : ListenerCall(l)
    /\ \A c \in Conns : ConnectionCall(c) /\ Stream(c)

\* What the run checks of the sockets follows.
LEMMA SocketsRight ==
  SocketsInv => /\ http!DescriptorsApart /\ http!StreamIntact
                /\ EnoughDescriptors => http!ErrorsAreReal
<1> SUFFICES ASSUME SocketsInv
             PROVE  /\ http!DescriptorsApart /\ http!StreamIntact
                    /\ EnoughDescriptors => http!ErrorsAreReal
  OBVIOUS
<1>1. http!DescriptorsApart
  BY DEF SocketsInv, http!DescriptorsApart, ConnectionCall, Apart
<1>2. http!StreamIntact
  <2>1. SUFFICES ASSUME NEW c \in Conns, peer[c] = "open", task[c] = "send",
                        ToSend(c) + outbox[c] > 0
                 PROVE  client[c].got + outbox[c] + ToSend(c) = ResponseUnits[client[c].page]
    BY DEF http!StreamIntact, ToSend
  <2>2. Stream(c) /\ outbox[c] \in Int
    BY DEF SocketsInv, SocketTypes
  <2>3. ToSend(c) = 0 /\ outbox[c] = 0 => FALSE
    BY <2>1
  <2> QED
    BY <2>1, <2>2, <2>3 DEF Stream, Asking, Asked, Answered, Refused
<1>3. ASSUME EnoughDescriptors PROVE http!ErrorsAreReal
  BY <1>3 DEF SocketsInv, ListenersGoOn, ConnectionCall, http!ErrorsAreReal
<1> QED
  BY <1>1, <1>2, <1>3

\* At first no client has connected and no call is under way.
LEMMA SocketsInit == http!Init => SocketsInv
<1> SUFFICES ASSUME http!Init PROVE SocketsInv
  OBVIOUS
<1>1. /\ backlog = [l \in Listeners |-> <<>>] /\ peer = [c \in Conns |-> "none"]
      /\ inbox = [c \in Conns |-> <<>>] /\ outbox = [c \in Conns |-> 0]
      /\ fd = [c \in Conns |-> 0] /\ call = [t \in http!Tasks |-> http!NoCall]
      /\ task = [c \in Conns |-> "none"] /\ buffer = [c \in Conns |-> <<>>]
      /\ left = [c \in Conns |-> 0] /\ client = [c \in Conns |-> http!NewClient]
  BY DEF http!Init, http!NetInit
<1>2. /\ SndBuf \in Nat /\ NFds \in Nat /\ RequestUnits \in 1 .. BUF_SIZE
  BY HttpAssumption DEF http!HttpConstants, http!NetConstants
<1>3. http!NoCall \in Calls
  BY DEF http!NoCall, Calls
<1>4. http!NewClient \in Clients
  BY DEF http!NewClient, Clients
<1>5. SocketTypes
  BY <1>1, <1>2, <1>3, <1>4 DEF SocketTypes
<1>6. BackloggedOnce /\ AcceptedOnce /\ Apart
  <2>1. \A l \in Listeners, k \in Nat, c \in Conns : ~Backlogged(l, k, c)
    BY <1>1 DEF Backlogged
  <2>2. \A l \in Listeners : call[l].data = <<>>
    BY <1>1 DEF http!NoCall, http!Tasks
  <2>3. \A l \in Listeners, c \in Conns : ~Accepts(l, c)
    BY <2>2 DEF Accepts
  <2>4. Apart
    BY <1>1 DEF Apart
  <2> QED
    BY <2>1, <2>3, <2>4 DEF BackloggedOnce, AcceptedOnce
<1>7. ASSUME NEW l \in Listeners PROVE ListenerCall(l) /\ call[l].n # -1
  BY <1>1 DEF ListenerCall, http!NoCall, http!Tasks
<1>8. ASSUME NEW c \in Conns PROVE ConnectionCall(c) /\ Stream(c)
  <2>1. /\ call[c] = http!NoCall /\ buffer[c] = <<>> /\ inbox[c] = <<>> /\ outbox[c] = 0
        /\ task[c] = "none" /\ client[c] = http!NewClient
    BY <1>1 DEF http!Tasks
  <2>2. ConnectionCall(c)
    BY <1>1, <2>1 DEF ConnectionCall, Receives, Sends, http!NoCall
  <2>3. InOrder(c) /\ Asking(c)
    BY <1>2, <2>1 DEF InOrder, InBuffer, InCall, InSocket, Asking, Parts, ToSend, http!NewClient, http!NoCall
  <2> QED
    BY <2>2, <2>3 DEF Stream
<1> QED
  BY <1>5, <1>6, <1>7, <1>8 DEF SocketsInv, ListenersGoOn

\* The numbers of units are numbers.
LEMMA Lengths ==
  ASSUME SocketTypes, NEW c \in Conns
  PROVE  /\ InBuffer(c) \in Nat /\ InCall(c) \in Nat /\ InSocket(c) \in Nat
         /\ buffer[c] = <<>> <=> InBuffer(c) = 0
         /\ call[c].data = <<>> <=> InCall(c) = 0
         /\ inbox[c] = <<>> <=> InSocket(c) = 0
<1>1. buffer[c] \in Seq(Units) /\ inbox[c] \in Seq(Units) /\ call[c].data \in Seq(Units \cup Conns)
  BY DEF SocketTypes, http!Tasks, Calls
<1> QED
  BY <1>1 DEF InBuffer, InCall, InSocket

-----------------------------------------------------------------------------
(* What a step leaves alone *)

\* The part of the invariant about a connection speaks only of what it has.
LEMMA SameConnection ==
  ASSUME NEW c, peer'[c] = peer[c], inbox'[c] = inbox[c], outbox'[c] = outbox[c],
         fd'[c] = fd[c], call'[c] = call[c], task'[c] = task[c], buffer'[c] = buffer[c],
         left'[c] = left[c], client'[c] = client[c]
  PROVE  (ConnectionCall(c) /\ Stream(c)) => (ConnectionCall(c) /\ Stream(c))'
<1>1. ConnectionCall(c) => ConnectionCall(c)'
  BY DEF ConnectionCall, Receives, Sends
<1>2. InBuffer(c)' = InBuffer(c) /\ InCall(c)' = InCall(c) /\ InSocket(c)' = InSocket(c)
  BY DEF InBuffer, InCall, InSocket
<1>3. Parts(c)' = Parts(c) /\ ToSend(c)' = ToSend(c)
  BY <1>2 DEF Parts, ToSend
<1>5. InOrder(c) => InOrder(c)'
  BY <1>2 DEF InOrder, UnitAt
<1>4. Stream(c) => Stream(c)'
  BY <1>3, <1>5 DEF Stream, Asking, Asked, Answered, Refused
<1> QED
  BY <1>1, <1>4

\* A step of one connection's client or task leaves the places of connections alone.
LEMMA OneConnection ==
  ASSUME SocketsInv, SocketTypes', NEW c \in Conns, UNCHANGED backlog,
         \A t \in http!Tasks \ {c} : call'[t] = call[t],
         \A d \in Conns \ {c} :
            /\ peer'[d] = peer[d] /\ inbox'[d] = inbox[d] /\ outbox'[d] = outbox[d]
            /\ fd'[d] = fd[d] /\ task'[d] = task[d] /\ buffer'[d] = buffer[d]
            /\ left'[d] = left[d] /\ client'[d] = client[d],
         task[c] = "none" => task'[c] = "none" /\ fd'[c] = fd[c],
         fd'[c] \in {fd[c], 0}, peer[c] # "none" => peer'[c] # "none",
         (ConnectionCall(c) /\ Stream(c))'
  PROVE  SocketsInv'
<1>1. \A l \in Listeners : call'[l] = call[l]
  BY HttpAssumption DEF http!HttpConstants, http!NetConstants, http!Tasks
<1>2. \A d \in Conns : /\ (task[d] = "none" => task'[d] = "none" /\ fd'[d] = fd[d])
                        /\ (peer[d] # "none" => peer'[d] # "none")
  OBVIOUS
<1>3. BackloggedOnce'
  BY <1>2 DEF SocketsInv, BackloggedOnce, Backlogged
<1>4. AcceptedOnce'
  BY <1>1, <1>2 DEF SocketsInv, AcceptedOnce, Accepts
<1>5. ListenersGoOn'
  BY <1>1 DEF SocketsInv, ListenersGoOn, EnoughDescriptors
<1>6. Apart'
  <2>1. \A d \in Conns : fd'[d] # 0 => fd'[d] = fd[d]
    OBVIOUS
  <2> QED
    BY <2>1 DEF SocketsInv, Apart
<1>7. ASSUME NEW l \in Listeners PROVE ListenerCall(l)'
  BY <1>1 DEF SocketsInv, ListenerCall, Accepts
<1>8. ASSUME NEW d \in Conns, d # c PROVE ConnectionCall(d)' /\ Stream(d)'
  <2>1. call'[d] = call[d]
    BY <1>8 DEF http!Tasks
  <2> QED
    BY <1>8, <2>1, SameConnection DEF SocketsInv
<1> QED
  BY <1>3, <1>4, <1>5, <1>6, <1>7, <1>8 DEF SocketsInv

-----------------------------------------------------------------------------
(* Clients *)

\* A client that connects is last in one backlog.
LEMMA ConnectStep ==
  ASSUME SocketsInv, NEW c \in Conns, NEW l \in Listeners, http!Connect(c, l)
  PROVE  SocketsInv'
<1>1. /\ peer[c] = "none" /\ peer' = [peer EXCEPT ![c] = "open"]
      /\ backlog' = [backlog EXCEPT ![l] = Append(@, c)]
      /\ UNCHANGED <<inbox, outbox, fd, call, task, buffer, left, client>>
  BY DEF http!Connect, http!server
<1>2. backlog[l] \in Seq(Conns) /\ SocketTypes
  BY DEF SocketsInv, SocketTypes
<1>3. /\ backlog'[l] \in Seq(Conns) /\ DOMAIN backlog'[l] = 1 .. Len(backlog[l]) + 1
      /\ backlog'[l][Len(backlog[l]) + 1] = c
      /\ \A k \in 1 .. Len(backlog[l]) : backlog'[l][k] = backlog[l][k]
      /\ \A m \in Listeners \ {l} : backlog'[m] = backlog[m]
      /\ backlog' \in [Listeners -> Seq(Conns)]
  BY <1>1, <1>2, AppendedTo DEF SocketTypes
<1>4. SocketTypes'
  BY <1>1, <1>2, <1>3 DEF SocketTypes
<1>5. peer'[c] = "open" /\ \A d \in Conns \ {c} : peer'[d] = peer[d]
  BY <1>1, <1>2 DEF SocketTypes
<1>6. ConnectionCall(c) /\ Stream(c)
  BY DEF SocketsInv
<1>7. fd[c] = 0 /\ task[c] = "none"
  BY <1>1, <1>2, <1>6 DEF ConnectionCall, SocketTypes, Gone
<1>8. \A m \in Listeners, d \in Conns, k \in Nat :
         Backlogged(m, k, d)' <=> Backlogged(m, k, d) \/ (m = l /\ k = Len(backlog[l]) + 1 /\ d = c)
  <2>1. SUFFICES ASSUME NEW m \in Listeners, NEW d \in Conns, NEW k \in Nat
                 PROVE  Backlogged(m, k, d)' <=>
                          Backlogged(m, k, d) \/ (m = l /\ k = Len(backlog[l]) + 1 /\ d = c)
    OBVIOUS
  <2>2. CASE m # l
    BY <1>3, <2>2 DEF Backlogged
  <2>3. CASE m = l
    BY <1>2, <1>3, <2>3 DEF Backlogged
  <2> QED
    BY <2>2, <2>3
<1>9. BackloggedOnce'
  BY <1>1, <1>5, <1>7, <1>8 DEF SocketsInv, BackloggedOnce
<1>10. AcceptedOnce'
  BY <1>1, <1>5 DEF SocketsInv, AcceptedOnce, Accepts
<1>11. ListenersGoOn' /\ Apart'
  BY <1>1 DEF SocketsInv, ListenersGoOn, EnoughDescriptors, Apart
<1>12. ASSUME NEW m \in Listeners PROVE ListenerCall(m)'
  BY <1>1, <1>3 DEF SocketsInv, ListenerCall, Accepts
<1>13. ASSUME NEW d \in Conns PROVE ConnectionCall(d)' /\ Stream(d)'
  <2>1. CASE d # c
    BY <1>1, <1>5, <2>1, SameConnection DEF SocketsInv
  <2>2. CASE d = c
    <3>1. ConnectionCall(c)'
      BY <1>1, <1>5, <1>6, <1>7 DEF ConnectionCall, Receives, Sends
    <3>2. Stream(c)'
      BY <1>1, <1>5, <1>6 DEF Stream, InOrder, UnitAt, InBuffer, InCall, InSocket, Parts,
                              ToSend, Asking, Asked, Answered, Refused
    <3> QED
      BY <2>2, <3>1, <3>2
  <2> QED
    BY <2>1, <2>2
<1> QED
  BY <1>4, <1>9, <1>10, <1>11, <1>12, <1>13 DEF SocketsInv

\* A client adds the next unit of its request behind those it has sent.
LEMMA AskStep ==
  ASSUME SocketsInv, NEW c \in Conns, NEW page \in http!Pages \cup {"bad"}, http!Ask(c, page)
  PROVE  SocketsInv'
<1> DEFINE last == client[c].sent + 1 = RequestUnits
<1> DEFINE unit == IF last THEN page ELSE "part"
<1>1. /\ peer[c] = "open" /\ client[c].page = "none"
      /\ inbox' = [inbox EXCEPT ![c] = Append(@, unit)]
      /\ UNCHANGED <<backlog, peer, outbox, fd, call, task, buffer, left>>
  BY DEF http!Ask, http!server
<1>2. /\ SocketTypes /\ ConnectionCall(c) /\ Stream(c) /\ unit \in Units
      /\ inbox[c] \in Seq(Units) /\ client[c] \in Clients
  BY DEF SocketsInv, SocketTypes, Units
<1>3. /\ client'[c].sent = IF last THEN 0 ELSE client[c].sent + 1
      /\ client'[c].page = IF last THEN page ELSE "none"
      /\ client'[c].got = client[c].got
      /\ client' \in [Conns -> Clients]
      /\ \A d \in Conns \ {c} : client'[d] = client[d]
  <2> DEFINE sent == IF last THEN 0 ELSE client[c].sent + 1
  <2> DEFINE asks == IF last THEN page ELSE client[c].page
  <2> DEFINE asked == IF client[c].sent = 0 THEN client[c].asked + 1 ELSE client[c].asked
  <2>1. client' = [client EXCEPT ![c].sent = sent, ![c].page = asks, ![c].asked = asked]
    BY DEF http!Ask
  <2>2. /\ client \in [Conns -> Clients] /\ sent \in Nat /\ asked \in Nat
        /\ asks \in http!Pages \cup {"none", "bad"}
    BY <1>2 DEF SocketTypes, Clients
  <2>3. asks = IF last THEN page ELSE "none"
    BY <1>1
  <2> HIDE DEF sent, asks, asked
  <2>4. /\ client'[c].sent = sent /\ client'[c].page = asks
        /\ client'[c].got = client[c].got
        /\ client' \in [Conns -> Clients]
        /\ \A d \in Conns \ {c} : client'[d] = client[d]
    <3>1. client'[c] = [client[c] EXCEPT !.sent = sent, !.page = asks, !.asked = asked]
      BY <2>1, <2>2
    <3>2. client[c] \in Clients
      BY <2>2
    <3>3. /\ client'[c].sent = sent /\ client'[c].page = asks /\ client'[c].got = client[c].got
          /\ client'[c] \in Clients
      BY <2>2, <3>1, <3>2 DEF Clients
    <3>4. DOMAIN client' = Conns /\ \A d \in Conns \ {c} : client'[d] = client[d]
      BY <2>1, <2>2
    <3>5. client' = [d \in Conns |-> client'[d]]
      BY <2>1, <2>2
    <3> QED
      BY <2>2, <3>3, <3>4, <3>5
  <2> QED
    BY <2>3, <2>4 DEF sent
<1>4. /\ inbox'[c] \in Seq(Units) /\ Len(inbox'[c]) = Len(inbox[c]) + 1
      /\ inbox'[c][Len(inbox[c]) + 1] = unit
      /\ \A k \in 1 .. Len(inbox[c]) : inbox'[c][k] = inbox[c][k]
      /\ inbox' \in [Conns -> Seq(Units)]
      /\ \A d \in Conns \ {c} : inbox'[d] = inbox[d]
  <2>1. inbox'[c] = Append(inbox[c], unit)
    BY <1>1, <1>2 DEF SocketTypes
  <2> HIDE DEF unit
  <2> QED
    BY <1>1, <1>2, <2>1, AppendedTo DEF SocketTypes
<1>6. UNCHANGED <<backlog, peer, outbox, fd, call, task, buffer, left>>
  BY <1>1
<1>5. SocketTypes'
  BY <1>1, <1>2, <1>3, <1>4 DEF SocketTypes
<1>7. ConnectionCall(c)'
  BY <1>1, <1>2, <1>4 DEF ConnectionCall, Receives, Sends
<1>8. /\ InOrder(c) /\ Parts(c) = client[c].sent /\ client[c].sent < RequestUnits
      /\ client[c].got = 0 /\ outbox[c] = 0 /\ ToSend(c) = 0
  BY <1>1, <1>2, HttpAssumption DEF Stream, Asking, Asked, Answered, Refused, http!HttpConstants, http!Pages
<1>9. /\ InBuffer(c) \in Nat /\ InCall(c) \in Nat /\ InSocket(c) \in Nat
      /\ client[c].sent \in Nat /\ RequestUnits \in Nat
  BY <1>2, Lengths, HttpAssumption DEF Clients, http!HttpConstants
<1>10. /\ InBuffer(c)' = InBuffer(c) /\ InCall(c)' = InCall(c) /\ InSocket(c)' = InSocket(c) + 1
       /\ Parts(c)' = client[c].sent + 1 /\ ToSend(c)' = 0
  <2>1. ToSend(c)' = ToSend(c)
    BY <1>6 DEF ToSend
  <2>2. InBuffer(c)' = InBuffer(c) /\ InCall(c)' = InCall(c) /\ InSocket(c)' = InSocket(c) + 1
    BY <1>4, <1>6 DEF InBuffer, InCall, InSocket
  <2> QED
    BY <1>8, <1>9, <2>1, <2>2 DEF Parts
<1>11. InOrder(c)'
  <2>1. \A p \in 1 .. client[c].sent : UnitAt(c, p) = "part" /\ UnitAt(c, p)' = "part"
    BY <1>8, <1>9 DEF UnitAt
  <2>2. \A p : p = client[c].sent + 1 => UnitAt(c, p)' = unit
    BY <1>3 DEF UnitAt
  <2> HIDE DEF unit
  <2>3. ASSUME NEW k \in 1 .. InBuffer(c) PROVE buffer'[c][k] = UnitAt(c, k)'
    <3>1. k \in 1 .. client[c].sent
      BY <1>8, <1>9 DEF Parts
    <3> QED
      BY <1>8, <1>6, <2>1, <3>1 DEF InOrder
  <2>4. ASSUME NEW k \in 1 .. InCall(c), NEW p, p = InBuffer(c) + k
        PROVE  call'[c].data[k] = UnitAt(c, p)'
    <3>1. p \in 1 .. client[c].sent
      BY <1>8, <1>9, <2>4 DEF Parts
    <3> QED
      BY <1>8, <1>6, <2>1, <2>4, <3>1 DEF InOrder
  <2>5. ASSUME NEW k \in 1 .. InSocket(c) + 1, NEW p, p = InBuffer(c) + InCall(c) + k
        PROVE  inbox'[c][k] = UnitAt(c, p)'
    <3>1. CASE k \in 1 .. InSocket(c)
      <4>1. p \in 1 .. client[c].sent
        BY <1>8, <1>9, <2>5, <3>1 DEF Parts
      <4>2. inbox'[c][k] = inbox[c][k]
        BY <1>4, <3>1 DEF InSocket
      <4> QED
        BY <1>8, <2>1, <2>5, <3>1, <4>1, <4>2 DEF InOrder
    <3>2. CASE k = InSocket(c) + 1
      <4>1. p = client[c].sent + 1
        BY <1>8, <1>9, <2>5, <3>2 DEF Parts
      <4>2. inbox'[c][k] = unit
        BY <1>4, <3>2 DEF InSocket
      <4> QED
        BY <2>2, <4>1, <4>2
    <3> QED
      BY <1>9, <3>1, <3>2
  <2> QED
    BY <1>10, <2>3, <2>4, <2>5 DEF InOrder
<1>12. Stream(c)'
  <2>1. CASE last
    BY <1>1, <1>3, <1>8, <1>10, <1>11, <2>1, HttpAssumption
       DEF Stream, Asked, http!HttpConstants, http!Pages
  <2>2. CASE ~last
    BY <1>1, <1>3, <1>8, <1>9, <1>10, <1>11, <2>2 DEF Stream, Asking
  <2> QED
    BY <2>1, <2>2
<1> HIDE DEF unit, last
<1>13. \A t \in http!Tasks \ {c} : call'[t] = call[t]
  BY <1>6
<1> QED
  BY <1>3, <1>4, <1>5, <1>7, <1>12, <1>13, <1>6, OneConnection

\* A client that reads takes one unit of its answer, and asks again after the last.
LEMMA ReadStep == ASSUME SocketsInv, NEW c \in Conns, http!Read(c) PROVE SocketsInv'
<1> DEFINE whole == client[c].page # "bad" /\ client[c].got + 1 = ResponseUnits[client[c].page]
<1> DEFINE got == IF whole THEN 0 ELSE client[c].got + 1
<1> DEFINE page == IF whole THEN "none" ELSE client[c].page
<1>1. /\ peer[c] = "open" /\ outbox[c] > 0
      /\ UNCHANGED <<backlog, peer, inbox, fd, call, task, buffer, left>>
      /\ outbox' = [outbox EXCEPT ![c] = @ - 1]
  BY DEF http!Read, http!server
<1>2. client' = [client EXCEPT ![c].got = got, ![c].page = page]
  BY DEF http!Read
<1>3. /\ SocketTypes /\ ConnectionCall(c) /\ Stream(c) /\ client[c] \in Clients
      /\ outbox[c] \in 0 .. SndBuf /\ SndBuf \in Nat
  BY HttpAssumption DEF SocketsInv, SocketTypes, http!HttpConstants, http!NetConstants
<1>4. got \in Nat /\ page \in http!Pages \cup {"none", "bad"}
  BY <1>3 DEF Clients
<1>5. /\ client[c].page \in http!Pages /\ Parts(c) = 0 /\ client[c].sent = 0 /\ InOrder(c)
      /\ client[c].got + outbox[c] + ToSend(c) = ResponseUnits[client[c].page]
      /\ outbox[c] + ToSend(c) > 0
  BY <1>1, <1>3 DEF Stream, Asking, Asked, Answered, Refused
<1>6. whole <=> client[c].got + 1 = ResponseUnits[client[c].page]
  BY <1>5, HttpAssumption DEF http!HttpConstants, http!Pages
<1>7. /\ whole => got = 0 /\ page = "none"
      /\ ~whole => got = client[c].got + 1 /\ page = client[c].page
  OBVIOUS
<1> HIDE DEF got, page, whole
<1>8. /\ client'[c].got = got /\ client'[c].page = page /\ client'[c].sent = client[c].sent
      /\ client' \in [Conns -> Clients]
      /\ \A d \in Conns \ {c} : client'[d] = client[d]
  <2>1. client'[c] = [client[c] EXCEPT !.got = got, !.page = page]
    BY <1>2, <1>3 DEF SocketTypes
  <2>2. /\ client'[c].got = got /\ client'[c].page = page /\ client'[c].sent = client[c].sent
        /\ client'[c] \in Clients
    BY <1>3, <1>4, <2>1 DEF Clients
  <2>3. DOMAIN client' = Conns /\ \A d \in Conns \ {c} : client'[d] = client[d]
    BY <1>2, <1>3 DEF SocketTypes
  <2>4. client' = [d \in Conns |-> client'[d]]
    BY <1>2, <1>3 DEF SocketTypes
  <2> QED
    BY <1>3, <2>2, <2>3, <2>4 DEF SocketTypes
<1>9. outbox'[c] = outbox[c] - 1 /\ outbox' \in [Conns -> 0 .. SndBuf]
      /\ \A d \in Conns \ {c} : outbox'[d] = outbox[d]
  BY <1>1, <1>3 DEF SocketTypes
<1>10. UNCHANGED <<backlog, peer, inbox, fd, call, task, buffer, left>>
  BY <1>1
<1>11. SocketTypes'
  BY <1>3, <1>8, <1>9, <1>10 DEF SocketTypes
<1>12. ConnectionCall(c)'
  <2>1. SndBuf \in Nat /\ outbox[c] - 1 < SndBuf
    BY <1>3
  <2> QED
    BY <1>3, <1>9, <1>10, <2>1 DEF ConnectionCall, Receives, Sends
<1>13. /\ InBuffer(c) = 0 /\ InCall(c) = 0 /\ InSocket(c) = 0
       /\ InBuffer(c)' = 0 /\ InCall(c)' = 0 /\ InSocket(c)' = 0 /\ ToSend(c)' = ToSend(c)
  <2>1. InBuffer(c) = 0 /\ InCall(c) = 0 /\ InSocket(c) = 0
    BY <1>3, <1>5, Lengths DEF Parts
  <2>2. InBuffer(c)' = InBuffer(c) /\ InCall(c)' = InCall(c) /\ InSocket(c)' = InSocket(c)
        /\ ToSend(c)' = ToSend(c)
    BY <1>10 DEF InBuffer, InCall, InSocket, ToSend
  <2> QED
    BY <2>1, <2>2
<1>14. InOrder(c)'
  BY <1>13 DEF InOrder
<1>15. client[c].got \in Nat /\ ToSend(c) \in Int /\ RequestUnits \in Nat /\ RequestUnits > 0
  <2>1. call[c] \in Calls /\ left[c] \in Nat
    BY <1>3 DEF SocketTypes, http!Tasks
  <2> QED
    BY <1>3, <2>1, HttpAssumption DEF Clients, Calls, ToSend, http!HttpConstants
<1>16. ToSend(c) >= 0
  <2>1. left[c] \in Nat /\ call[c].n \in Int
    BY <1>3 DEF SocketTypes, http!Tasks, Calls
  <2> QED
    BY <1>3, <2>1 DEF ConnectionCall, Sends, ToSend
<1>17. ResponseUnits[client[c].page] \in Int
  BY <1>5, HttpAssumption DEF http!HttpConstants, http!Pages
<1>18. Stream(c)'
  <2>1. Parts(c)' = 0
    BY <1>13 DEF Parts
  <2>2. CASE whole
    <3>1. outbox'[c] = 0 /\ ToSend(c)' = 0
      BY <1>3, <1>5, <1>6, <1>9, <1>13, <1>15, <1>16, <1>17, <2>2
    <3>2. Asking(c)'
      BY <1>5, <1>7, <1>8, <1>15, <2>1, <2>2, <3>1 DEF Asking
    <3> QED
      BY <1>14, <3>2 DEF Stream
  <2>3. CASE ~whole
    <3>1. /\ client'[c].got + outbox'[c] + ToSend(c)' = ResponseUnits[client[c].page]
          /\ outbox'[c] + ToSend(c)' > 0
      <4>1. /\ client'[c].got = client[c].got + 1 /\ outbox'[c] = outbox[c] - 1
            /\ ToSend(c)' = ToSend(c) /\ client[c].got + 1 # ResponseUnits[client[c].page]
        BY <1>6, <1>7, <1>8, <1>9, <1>13, <2>3
      <4>2. /\ client[c].got + outbox[c] + ToSend(c) = ResponseUnits[client[c].page]
            /\ outbox[c] + ToSend(c) > 0
        BY <1>5
      <4>3. outbox[c] \in Int
        BY <1>3
      <4> HIDE DEF whole, got, page
      <4> QED
        BY <1>15, <1>17, <4>1, <4>2, <4>3
    <3>2. Answered(c)'
      BY <1>5, <1>7, <1>8, <2>1, <2>3, <3>1 DEF Answered
    <3> QED
      BY <1>14, <3>2 DEF Stream
  <2> QED
    BY <2>2, <2>3
<1>19. \A t \in http!Tasks \ {c} : call'[t] = call[t]
  BY <1>10
<1> QED
  BY <1>8, <1>9, <1>10, <1>11, <1>12, <1>18, <1>19, OneConnection

\* After a client has left, nothing is promised about its connection but its end.
LEMMA LeaveStep == ASSUME SocketsInv, NEW c \in Conns, http!Leave(c) PROVE SocketsInv'
<1>1. PICK how \in {"fin", "reset"} :
        /\ peer' = [peer EXCEPT ![c] = how]
        /\ inbox' = [inbox EXCEPT ![c] = IF how = "reset" THEN <<>> ELSE @]
  BY DEF http!Leave
<1>2. /\ peer[c] = "open" /\ UNCHANGED <<backlog, fd, call, task, buffer, left>>
      /\ outbox' = [outbox EXCEPT ![c] = 0]
      /\ client' = [client EXCEPT ![c] = [http!NewClient EXCEPT !.asked = client[c].asked]]
  BY DEF http!Leave, http!server
<1>3. /\ SocketTypes /\ ConnectionCall(c) /\ SndBuf \in Nat \ {0} /\ client[c] \in Clients
      /\ inbox[c] \in Seq(Units)
  BY HttpAssumption DEF SocketsInv, SocketTypes, http!HttpConstants, http!NetConstants
<1>4. [http!NewClient EXCEPT !.asked = client[c].asked] \in Clients
  BY <1>3 DEF http!NewClient, Clients
<1>5. /\ peer' \in [Conns -> {"none", "open"} \cup Gone]
      /\ inbox' \in [Conns -> Seq(Units)]
      /\ outbox' \in [Conns -> 0 .. SndBuf] /\ client' \in [Conns -> Clients]
  BY <1>1, <1>2, <1>3, <1>4 DEF SocketTypes, Gone
<1>6. SocketTypes'
  BY <1>2, <1>3, <1>5 DEF SocketTypes
<1>7. /\ peer'[c] \in {"fin", "reset"} /\ (peer'[c] = "fin" => inbox'[c] = inbox[c])
      /\ outbox'[c] = 0
      /\ \A d \in Conns \ {c} : /\ peer'[d] = peer[d] /\ inbox'[d] = inbox[d]
                                /\ outbox'[d] = outbox[d] /\ client'[d] = client[d]
  BY <1>1, <1>2, <1>3 DEF SocketTypes
<1>8. ConnectionCall(c)'
  <2>1. Receives(c)' /\ Sends(c)'
    BY <1>2, <1>3, <1>7 DEF ConnectionCall, Receives, Sends, Gone
  <2>2. call[c].n # -1
    BY <1>2, <1>3 DEF ConnectionCall
  <2> QED
    BY <1>2, <1>3, <1>7, <2>1, <2>2 DEF ConnectionCall, Gone
<1>9. Stream(c)'
  BY <1>7 DEF Stream
<1>10. \A t \in http!Tasks \ {c} : call'[t] = call[t]
  BY <1>2
<1>11. UNCHANGED <<backlog, fd, call, task, buffer, left>>
  BY <1>2
<1> QED
  BY <1>2, <1>6, <1>7, <1>8, <1>9, <1>10, <1>11, OneConnection

-----------------------------------------------------------------------------
(* The server's tasks *)

\* A new call has not been answered.
LEMMA AwaitIsCall ==
  ASSUME NEW op \in {"accept", "recv", "send"}, NEW size \in Int
  PROVE  /\ http!Await(op, size) \in Calls
         /\ http!Await(op, size).op = op /\ http!Await(op, size).step = "try"
         /\ http!Await(op, size).size = size /\ http!Await(op, size).n = 0
         /\ http!Await(op, size).data = <<>>
BY DEF http!Await, Calls

\* The listener forks a task for the connection it accepted, and accepts again.
LEMMA ListenerStep == ASSUME SocketsInv, NEW l \in Listeners, http!listener_fun(l) PROVE SocketsInv'
<1> DEFINE forked == http!ToSet(call[l].data)
<1>1. /\ call[l].step = "done"
      /\ task' = [c \in Conns |-> IF c \in forked THEN "recv" ELSE task[c]]
      /\ call' = [t \in http!Tasks |->
            IF t = l THEN http!Await("accept", 0)
            ELSE IF t \in forked THEN http!Await("recv", BUF_SIZE) ELSE call[t]]
      /\ UNCHANGED <<backlog, peer, inbox, outbox, fd, buffer, left, client>>
  BY DEF http!listener_fun, http!kernel
<1>2. /\ SocketTypes /\ BUF_SIZE \in Nat /\ BUF_SIZE > 0 /\ SndBuf \in Nat
      /\ \A m \in Listeners : m \in http!Tasks /\ m \notin Conns
      /\ \A c \in Conns : c \in http!Tasks /\ c \notin Listeners
  BY HttpAssumption DEF SocketsInv, http!HttpConstants, http!NetConstants, http!Tasks
<1>3. forked \subseteq Conns /\ \A c \in forked : Accepts(l, c)
  BY <1>1 DEF SocketsInv, ListenerCall, Accepts, http!ToSet
<1>4. \A c \in forked : c \in Conns /\ peer[c] # "none" /\ fd[c] # 0 /\ task[c] = "none"
  BY <1>3 DEF SocketsInv, AcceptedOnce
<1>5. \A m \in Listeners \ {l} : call'[m] = call[m]
  BY <1>1, <1>2, <1>3
<1> HIDE DEF forked
<1>6. call'[l] = http!Await("accept", 0)
  BY <1>1, <1>2
<1>7. call'[l].n = 0 /\ call'[l].data = <<>> /\ call'[l].step = "try" /\ call'[l].op = "accept"
  BY <1>6, AwaitIsCall
<1>8. /\ \A c \in forked : call'[c] = http!Await("recv", BUF_SIZE) /\ task'[c] = "recv"
      /\ \A c \in Conns \ forked : call'[c] = call[c] /\ task'[c] = task[c]
  <2>1. forked \subseteq Conns
    BY <1>3
  <2> QED
    BY <1>1, <1>2, <2>1
<1>9. SocketTypes'
  <2>1. http!Await("accept", 0) \in Calls /\ http!Await("recv", BUF_SIZE) \in Calls
    BY <1>2, AwaitIsCall
  <2>2. call' \in [http!Tasks -> Calls]
    BY <1>1, <1>2, <2>1 DEF SocketTypes
  <2>3. task' \in [Conns -> {"none", "recv", "send", "closed"}]
    BY <1>1, <1>2 DEF SocketTypes
  <2> QED
    BY <1>1, <1>2, <2>2, <2>3 DEF SocketTypes
<1>10. UNCHANGED <<backlog, peer, inbox, outbox, fd, buffer, left, client>>
  BY <1>1
<1>11. BackloggedOnce'
  BY <1>4, <1>8, <1>10 DEF SocketsInv, BackloggedOnce, Backlogged
<1>12. AcceptedOnce'
  <2>1. \A m \in Listeners, c \in Conns : Accepts(m, c)' => m # l /\ Accepts(m, c)
    BY <1>5, <1>7 DEF Accepts
  <2>2. \A m \in Listeners, c \in Conns : Accepts(m, c)' => c \notin forked
    BY <1>3, <2>1 DEF SocketsInv, AcceptedOnce
  <2> QED
    BY <1>8, <1>10, <2>1, <2>2 DEF SocketsInv, AcceptedOnce
<1>13. ListenersGoOn'
  BY <1>5, <1>7 DEF SocketsInv, ListenersGoOn, EnoughDescriptors
<1>14. Apart'
  BY <1>10 DEF SocketsInv, Apart
<1>15. ASSUME NEW m \in Listeners PROVE ListenerCall(m)'
  <2>1. CASE m = l
    BY <1>7, <2>1 DEF ListenerCall
  <2>2. CASE m # l
    BY <1>5, <1>10, <2>2 DEF SocketsInv, ListenerCall, Accepts
  <2> QED
    BY <2>1, <2>2
<1>16. ASSUME NEW c \in Conns PROVE ConnectionCall(c)' /\ Stream(c)'
  <2>1. CASE c \notin forked
    BY <1>8, <1>10, <2>1, SameConnection DEF SocketsInv
  <2>2. CASE c \in forked
    <3>1. /\ call'[c].n = 0 /\ call'[c].data = <<>> /\ call'[c].step = "try"
          /\ call'[c].op = "recv" /\ call'[c].size = BUF_SIZE /\ task'[c] = "recv"
      BY <1>2, <1>8, <2>2, AwaitIsCall
    <3>2. /\ ConnectionCall(c) /\ Stream(c) /\ peer[c] # "none" /\ fd[c] # 0 /\ task[c] = "none"
      BY <1>4, <2>2 DEF SocketsInv
    <3>3. buffer[c] = <<>> /\ call[c].data = <<>>
      BY <3>2 DEF ConnectionCall, http!NoCall
    <3>4. ConnectionCall(c)'
      BY <1>2, <1>10, <3>1, <3>2, <3>3 DEF ConnectionCall, Receives, Sends
    <3>5. /\ InBuffer(c)' = InBuffer(c) /\ InCall(c)' = InCall(c) /\ InSocket(c)' = InSocket(c)
          /\ ToSend(c) = 0 /\ ToSend(c)' = 0 /\ InCall(c) = 0
      BY <1>10, <3>1, <3>2, <3>3 DEF InBuffer, InCall, InSocket, ToSend
    <3>6. Parts(c)' = Parts(c)
      BY <3>5 DEF Parts
    <3>7. InOrder(c) => InOrder(c)'
      BY <1>10, <3>1, <3>3, <3>5 DEF InOrder, UnitAt
    <3>8. Stream(c)'
      BY <1>10, <3>2, <3>5, <3>6, <3>7 DEF Stream, Asking, Asked, Answered, Refused
    <3> QED
      BY <3>4, <3>8
  <2> QED
    BY <2>1, <2>2
<1> QED
  BY <1>9, <1>11, <1>12, <1>13, <1>14, <1>15, <1>16 DEF SocketsInv

\* A task that starts a request over has an empty buffer.
LEMMA NextRequestStep ==
  ASSUME SocketsInv, NEW c \in Conns, task[c] \in {"recv", "send"}, http!NextRequest(c),
         UNCHANGED <<backlog, peer, inbox, outbox, fd, client>>,
         peer[c] = "open" =>
            /\ ToSend(c) = 0
            /\ \/ InSocket(c) = Parts(c)
               \/ /\ InSocket(c) = 0 /\ client[c].page = "bad" /\ client[c].sent = 0
                  /\ client[c].got = 0 /\ outbox[c] = 0
  PROVE  SocketsInv'
<1>1. /\ task' = [task EXCEPT ![c] = "recv"]
      /\ buffer' = [buffer EXCEPT ![c] = <<>>] /\ left' = [left EXCEPT ![c] = 0]
      /\ call' = [call EXCEPT ![c] = http!Await("recv", BUF_SIZE)]
  BY DEF http!NextRequest
<1>2. /\ SocketTypes /\ ConnectionCall(c) /\ Stream(c) /\ BUF_SIZE \in Nat /\ BUF_SIZE > 0
      /\ c \in http!Tasks
  BY HttpAssumption DEF SocketsInv, http!HttpConstants, http!Tasks
<1>3. /\ task'[c] = "recv" /\ buffer'[c] = <<>> /\ call'[c] = http!Await("recv", BUF_SIZE)
      /\ \A d \in Conns \ {c} : /\ task'[d] = task[d] /\ buffer'[d] = buffer[d]
                                /\ left'[d] = left[d]
      /\ \A t \in http!Tasks \ {c} : call'[t] = call[t]
  BY <1>1, <1>2 DEF SocketTypes
<1>4. /\ call'[c].n = 0 /\ call'[c].data = <<>> /\ call'[c].step = "try"
      /\ call'[c].op = "recv" /\ call'[c].size = BUF_SIZE /\ call'[c] \in Calls
  BY <1>2, <1>3, AwaitIsCall
<1>5. SocketTypes'
  <2>1. call' \in [http!Tasks -> Calls]
    BY <1>1, <1>2, <1>3, <1>4 DEF SocketTypes
  <2>2. /\ task' \in [Conns -> {"none", "recv", "send", "closed"}]
        /\ buffer' \in [Conns -> Seq(Units)] /\ left' \in [Conns -> Nat]
    BY <1>1, <1>2 DEF SocketTypes
  <2> QED
    BY <1>2, <2>1, <2>2 DEF SocketTypes
<1>6. ConnectionCall(c)'
  <2>1. Receives(c)'
    <3>1. Len(buffer'[c]) = 0 /\ Len(call'[c].data) = 0 /\ call'[c].data \in Seq(Units)
      <4>1. Len(<<>>) = 0 /\ <<>> \in Seq(Units)
        BY EmptySeq
      <4>2. buffer'[c] = <<>> /\ call'[c].data = <<>>
        BY <1>3, <1>4
      <4> QED
        BY <4>1, <4>2, Zenon
    <3> QED
      BY <1>2, <1>3, <1>4, <3>1 DEF Receives
  <2>2. fd[c] # 0 /\ peer[c] # "none"
    BY <1>2 DEF ConnectionCall
  <2> QED
    BY <1>3, <1>4, <2>1, <2>2 DEF ConnectionCall, Sends
<1>7. /\ InBuffer(c)' = 0 /\ InCall(c)' = 0 /\ InSocket(c)' = InSocket(c) /\ ToSend(c)' = 0
  BY <1>3, <1>4 DEF InBuffer, InCall, InSocket, ToSend
<1>8. /\ InBuffer(c) \in Nat /\ InCall(c) \in Nat /\ InSocket(c) \in Nat
  BY <1>2, Lengths
<1>9. Parts(c)' = InSocket(c)
  BY <1>7, <1>8 DEF Parts
<1>10. Stream(c)'
  <2>1. SUFFICES ASSUME peer[c] = "open" PROVE Stream(c)'
    BY <1>2 DEF Stream, ConnectionCall
  <2>2. CASE InSocket(c) = Parts(c)
    <3>1. InBuffer(c) = 0 /\ InCall(c) = 0
      BY <1>8, <2>2 DEF Parts
    <3>2. InOrder(c)'
      BY <1>2, <1>7, <2>1, <3>1 DEF Stream, InOrder, UnitAt
    <3>3. Parts(c)' = Parts(c) /\ ToSend(c) = 0
      BY <1>9, <2>1, <2>2
    <3> QED
      BY <1>2, <1>7, <2>1, <3>2, <3>3 DEF Stream, Asking, Asked, Answered, Refused
  <2>3. CASE InSocket(c) # Parts(c)
    <3>1. InOrder(c)'
      BY <1>7, <2>1, <2>3 DEF InOrder
    <3>2. Refused(c)'
      BY <1>7, <1>9, <2>1, <2>3 DEF Refused
    <3> QED
      BY <3>1, <3>2 DEF Stream
  <2> QED
    BY <2>2, <2>3
<1> QED
  BY <1>3, <1>5, <1>6, <1>10, OneConnection

\* await_send_all sends the rest until nothing is left, then reads the next request.
LEMMA SendStep == ASSUME SocketsInv, NEW c \in Conns, http!await_send_all(c) PROVE SocketsInv'
<1>1. /\ task[c] = "send" /\ call[c].step = "done"
      /\ UNCHANGED <<backlog, peer, inbox, outbox, fd, client>>
  BY DEF http!await_send_all, http!kernel
<1>2. /\ SocketTypes /\ ConnectionCall(c) /\ Stream(c) /\ c \in http!Tasks
      /\ left[c] \in Nat /\ call[c] \in Calls /\ call[c].n \in Int /\ SndBuf \in Nat
  BY HttpAssumption
     DEF SocketsInv, SocketTypes, Calls, http!HttpConstants, http!NetConstants, http!Tasks
<1>3. /\ call[c].data = <<>> /\ buffer[c] = <<>> /\ call[c].n =< left[c] /\ fd[c] # 0
      /\ call[c].n =< 0 => peer[c] \in Gone /\ peer[c] # "none"
  BY <1>1, <1>2 DEF ConnectionCall, Sends
<1>4. InBuffer(c) = 0 /\ InCall(c) = 0 /\ InSocket(c) \in Nat
  BY <1>2, <1>3, Lengths
<1>5. CASE call[c].n = -1 \/ left[c] = call[c].n
  <2>1. http!NextRequest(c)
    BY <1>1, <1>5 DEF http!await_send_all
  <2>2. peer[c] = "open" => ToSend(c) = 0 /\ InSocket(c) = Parts(c)
    BY <1>1, <1>2, <1>3, <1>4, <1>5 DEF ToSend, Parts, Gone
  <2> QED
    BY <1>1, <2>1, <2>2, NextRequestStep
<1>6. CASE ~(call[c].n = -1 \/ left[c] = call[c].n)
  <2> DEFINE rest == left[c] - call[c].n
  <2>1. /\ left' = [left EXCEPT ![c] = rest]
        /\ call' = [call EXCEPT ![c] = http!Await("send", rest)]
        /\ UNCHANGED <<task, buffer>>
    BY <1>1, <1>6 DEF http!await_send_all, http!Rest
  <2>2. rest \in Nat /\ rest > 0 /\ ToSend(c) = rest
    BY <1>1, <1>2, <1>3, <1>6 DEF ToSend
  <2> HIDE DEF rest
  <2>3. /\ left'[c] = rest /\ call'[c] = http!Await("send", rest)
        /\ left' \in [Conns -> Nat]
        /\ \A d \in Conns \ {c} : left'[d] = left[d]
        /\ \A t \in http!Tasks \ {c} : call'[t] = call[t]
    BY <1>2, <2>1, <2>2 DEF SocketTypes
  <2>4. /\ call'[c].n = 0 /\ call'[c].data = <<>> /\ call'[c].step = "try"
        /\ call'[c].op = "send" /\ call'[c].size = rest /\ call'[c] \in Calls
    BY <2>2, <2>3, AwaitIsCall
  <2>5. SocketTypes'
    <3>1. call' \in [http!Tasks -> Calls]
      BY <1>2, <2>1, <2>3, <2>4 DEF SocketTypes
    <3> QED
      BY <1>1, <1>2, <2>1, <2>3, <3>1 DEF SocketTypes
  <2>6. ConnectionCall(c)'
    BY <1>1, <1>2, <1>3, <2>1, <2>2, <2>3, <2>4 DEF ConnectionCall, Receives, Sends
  <2>7. /\ InBuffer(c)' = 0 /\ InCall(c)' = 0 /\ InSocket(c)' = InSocket(c)
        /\ ToSend(c)' = rest
    BY <1>1, <1>3, <2>1, <2>2, <2>3, <2>4 DEF InBuffer, InCall, InSocket, ToSend
  <2>8. Parts(c)' = Parts(c) /\ ToSend(c)' = ToSend(c)
    BY <1>4, <2>2, <2>7 DEF Parts
  <2>9. InOrder(c) => InOrder(c)'
    BY <1>1, <1>4, <2>7 DEF InOrder, UnitAt
  <2>10. Stream(c)'
    BY <1>1, <1>2, <2>8, <2>9 DEF Stream, Asking, Asked, Answered, Refused
  <2> QED
    BY <1>1, <2>1, <2>3, <2>5, <2>6, <2>10, OneConnection
<1> QED
  BY <1>5, <1>6

\* What connection_fun has read of a request, and what the parser says of it.
LEMMA Parsed ==
  ASSUME SocketsInv, NEW c \in Conns, task[c] = "recv", call[c].step = "done", call[c].n > 0,
         NEW buf, buf = http!Appends(buffer[c], call[c].data)
  PROVE  /\ buf \in Seq(Units) /\ Len(buf) = InBuffer(c) + InCall(c)
         /\ InCall(c) > 0 /\ Len(buf) =< BUF_SIZE
         /\ http!phr_structed(buf) > 0 =>
               http!Last(buf) \in http!Pages /\ http!build_response(http!Last(buf)) > 0
               /\ http!build_response(http!Last(buf)) = ResponseUnits[http!Last(buf)]
               /\ ResponseUnits[http!Last(buf)] \in Nat
         /\ peer[c] = "open" =>
               /\ \A k \in 1 .. Len(buf) : buf[k] = UnitAt(c, k)
               /\ Len(buf) < RequestUnits => http!phr_structed(buf) = -2
               /\ Len(buf) = RequestUnits /\ client[c].page \in http!Pages =>
                     http!phr_structed(buf) > 0 /\ http!Last(buf) = client[c].page
               /\ Len(buf) = RequestUnits /\ client[c].page = "bad" =>
                     http!phr_structed(buf) = -1
<1>1. /\ SocketTypes /\ ConnectionCall(c) /\ Stream(c) /\ buffer[c] \in Seq(Units)
      /\ call[c].n \in Int /\ BUF_SIZE \in Nat /\ RequestUnits \in 1 .. BUF_SIZE
  BY HttpAssumption
     DEF SocketsInv, SocketTypes, Calls, http!HttpConstants, http!Tasks
<1>2. /\ call[c].data \in Seq(Units) /\ call[c].n = InCall(c)
      /\ InCall(c) =< BUF_SIZE - InBuffer(c)
  BY <1>1 DEF ConnectionCall, Receives, InCall, InBuffer
<1>3. InBuffer(c) \in Nat /\ InCall(c) \in Nat
  BY <1>1, Lengths
<1>4. /\ buf \in Seq(Units) /\ Len(buf) = InBuffer(c) + InCall(c)
      /\ \A k \in 1 .. InBuffer(c) + InCall(c) :
            buf[k] = IF k =< InBuffer(c) THEN buffer[c][k] ELSE call[c].data[k - InBuffer(c)]
  BY <1>1, <1>2, ConcatProperties DEF http!Appends, InBuffer, InCall
<1>5. InCall(c) > 0 /\ Len(buf) =< BUF_SIZE
  BY <1>1, <1>2, <1>3, <1>4
<1>6. /\ {"none", "bad", "part"} \cap http!Pages = {}
      /\ \A p \in http!Pages : ResponseUnits[p] \in 1 .. BUF_SIZE - 1
  BY HttpAssumption DEF http!HttpConstants, http!Pages
<1>7. Len(buf) \in Nat /\ Len(buf) > 0 /\ buf # <<>>
  BY <1>3, <1>4, <1>5
<1>8. http!phr_structed(buf) > 0 => http!Last(buf) \in http!Pages
  BY <1>7 DEF http!phr_structed
<1>9. ASSUME NEW p \in http!Pages
      PROVE  /\ http!build_response(p) = ResponseUnits[p] /\ ResponseUnits[p] \in Nat
             /\ ResponseUnits[p] > 0
  BY <1>1, <1>6 DEF http!build_response
<1>10. ASSUME peer[c] = "open"
       PROVE  /\ \A k \in 1 .. Len(buf) : buf[k] = UnitAt(c, k)
              /\ Len(buf) < RequestUnits => http!phr_structed(buf) = -2
              /\ Len(buf) = RequestUnits /\ client[c].page \in http!Pages =>
                    http!phr_structed(buf) > 0 /\ http!Last(buf) = client[c].page
              /\ Len(buf) = RequestUnits /\ client[c].page = "bad" =>
                    http!phr_structed(buf) = -1
  <2>1. InOrder(c)
    BY <1>1, <1>10 DEF Stream
  <2>2. ASSUME NEW k \in 1 .. Len(buf) PROVE buf[k] = UnitAt(c, k)
    <3>1. k \in 1 .. InBuffer(c) + InCall(c)
      BY <1>4
    <3>2. CASE k =< InBuffer(c)
      <4>1. k \in 1 .. InBuffer(c)
        BY <1>3, <3>1, <3>2
      <4>2. buffer[c][k] = UnitAt(c, k)
        BY <2>1, <4>1 DEF InOrder
      <4>3. buf[k] = buffer[c][k]
        BY <1>4, <3>1, <3>2
      <4> QED
        BY <4>2, <4>3
    <3>3. CASE ~(k =< InBuffer(c))
      <4>1. k - InBuffer(c) \in 1 .. InCall(c) /\ InBuffer(c) + (k - InBuffer(c)) = k
        BY <1>3, <3>1, <3>3
      <4>2. call[c].data[k - InBuffer(c)] = UnitAt(c, InBuffer(c) + (k - InBuffer(c)))
        BY <2>1, <4>1 DEF InOrder
      <4> QED
        BY <1>4, <3>1, <3>3, <4>1, <4>2
    <3> QED
      BY <3>2, <3>3
  <2>3. ASSUME Len(buf) < RequestUnits PROVE http!phr_structed(buf) = -2
    <3>1. \A k \in 1 .. Len(buf) : buf[k] = "part"
      BY <1>1, <1>7, <2>2, <2>3 DEF UnitAt
    <3>2. DOMAIN buf = 1 .. Len(buf) /\ 1 \in DOMAIN buf
      BY <1>4, <1>7
    <3>3. http!ToSet(buf) = {"part"}
      BY <3>1, <3>2 DEF http!ToSet
    <3>4. http!Last(buf) \notin http!Pages
      BY <1>6, <1>7, <3>1 DEF http!Last
    <3> QED
      BY <3>3, <3>4 DEF http!phr_structed
  <2>4. ASSUME Len(buf) = RequestUnits, client[c].page # "part"
        PROVE  http!Last(buf) = client[c].page /\ http!ToSet(buf) # {"part"}
    <3>1. buf[Len(buf)] = client[c].page
      BY <1>7, <2>2, <2>4 DEF UnitAt
    <3>2. Len(buf) \in DOMAIN buf
      BY <1>4, <1>7
    <3>3. client[c].page \in http!ToSet(buf)
      BY <3>1, <3>2 DEF http!ToSet
    <3> QED
      BY <2>4, <3>1, <3>3 DEF http!Last
  <2>5. ASSUME Len(buf) = RequestUnits, client[c].page \in http!Pages
        PROVE  http!phr_structed(buf) > 0 /\ http!Last(buf) = client[c].page
    BY <1>6, <1>7, <2>4, <2>5 DEF http!phr_structed
  <2>6. ASSUME Len(buf) = RequestUnits, client[c].page = "bad"
        PROVE  http!phr_structed(buf) = -1
    BY <1>6, <1>7, <2>4, <2>6 DEF http!phr_structed
  <2> QED
    BY <2>2, <2>3, <2>5, <2>6
<1> QED
  BY <1>4, <1>5, <1>8, <1>9, <1>10

\* The task closes its connection when the client has gone.
LEMMA CloseStep ==
  ASSUME SocketsInv, NEW c \in Conns, http!Close(c), UNCHANGED client,
         task[c] = "recv", peer[c] \in Gone
  PROVE  SocketsInv'
<1>1. /\ fd' = [fd EXCEPT ![c] = 0] /\ task' = [task EXCEPT ![c] = "closed"]
      /\ buffer' = [buffer EXCEPT ![c] = <<>>] /\ call' = [call EXCEPT ![c] = http!NoCall]
      /\ UNCHANGED <<backlog, peer, inbox, outbox, left>>
  BY DEF http!Close
<1>2. SocketTypes /\ c \in http!Tasks /\ http!NoCall \in Calls /\ NFds \in Nat
  BY HttpAssumption
     DEF SocketsInv, http!Tasks, http!NoCall, Calls, http!HttpConstants, http!NetConstants
<1>3. /\ fd'[c] = 0 /\ task'[c] = "closed" /\ buffer'[c] = <<>> /\ call'[c] = http!NoCall
      /\ \A d \in Conns \ {c} : /\ task'[d] = task[d] /\ buffer'[d] = buffer[d]
                                /\ fd'[d] = fd[d]
      /\ \A t \in http!Tasks \ {c} : call'[t] = call[t]
  BY <1>1, <1>2 DEF SocketTypes
<1>4. SocketTypes'
  BY <1>1, <1>2 DEF SocketTypes
<1>5. peer[c] # "none" /\ peer[c] # "open"
  BY DEF Gone
<1>6. ConnectionCall(c)'
  BY <1>1, <1>3, <1>5 DEF ConnectionCall, Receives, Sends, http!NoCall
<1>7. Stream(c)'
  BY <1>1, <1>5 DEF Stream
<1> QED
  BY <1>1, <1>3, <1>4, <1>5, <1>6, <1>7, OneConnection

\* A whole request is answered with the page it asks for.
LEMMA RespondStep ==
  ASSUME SocketsInv, NEW c \in Conns, NEW units \in Nat, http!Respond(c, units), units > 0,
         UNCHANGED <<backlog, peer, inbox, outbox, fd, client>>, task[c] = "recv",
         peer[c] = "open" => /\ Asked(c) /\ InSocket(c) = 0 /\ client[c].page \in http!Pages
                             /\ units = ResponseUnits[client[c].page]
  PROVE  SocketsInv'
<1>1. /\ task' = [task EXCEPT ![c] = "send"] /\ left' = [left EXCEPT ![c] = units]
      /\ buffer' = [buffer EXCEPT ![c] = <<>>]
      /\ call' = [call EXCEPT ![c] = http!Await("send", units)]
  BY DEF http!Respond
<1>2. SocketTypes /\ c \in http!Tasks /\ ConnectionCall(c)
  BY DEF SocketsInv, http!Tasks
<1>3. /\ task'[c] = "send" /\ left'[c] = units /\ buffer'[c] = <<>>
      /\ call'[c] = http!Await("send", units)
      /\ \A d \in Conns \ {c} : /\ task'[d] = task[d] /\ buffer'[d] = buffer[d]
                                /\ left'[d] = left[d]
      /\ \A t \in http!Tasks \ {c} : call'[t] = call[t]
  BY <1>1, <1>2 DEF SocketTypes
<1>4. /\ call'[c].n = 0 /\ call'[c].data = <<>> /\ call'[c].step = "try"
      /\ call'[c].op = "send" /\ call'[c].size = units /\ call'[c] \in Calls
  BY <1>3, AwaitIsCall
<1>5. SocketTypes'
  <2>1. call' \in [http!Tasks -> Calls]
    BY <1>1, <1>2, <1>3, <1>4 DEF SocketTypes
  <2>2. /\ task' \in [Conns -> {"none", "recv", "send", "closed"}]
        /\ buffer' \in [Conns -> Seq(Units)] /\ left' \in [Conns -> Nat]
    BY <1>1, <1>2 DEF SocketTypes
  <2> QED
    BY <1>2, <2>1, <2>2 DEF SocketTypes
<1>6. ConnectionCall(c)'
  <2>1. fd[c] # 0 /\ peer[c] # "none"
    BY <1>2 DEF ConnectionCall
  <2>2. Receives(c)' /\ Sends(c)'
    BY <1>3, <1>4 DEF Receives, Sends
  <2> QED
    BY <1>3, <1>4, <2>1, <2>2 DEF ConnectionCall
<1>7. /\ InBuffer(c)' = 0 /\ InCall(c)' = 0 /\ InSocket(c)' = InSocket(c) /\ ToSend(c)' = units
  BY <1>3, <1>4 DEF InBuffer, InCall, InSocket, ToSend
<1>8. Stream(c)'
  <2>1. SUFFICES ASSUME peer[c] = "open" PROVE InOrder(c)' /\ Answered(c)'
    BY <1>2 DEF Stream, ConnectionCall
  <2>2. InOrder(c)'
    BY <1>7, <2>1 DEF InOrder
  <2>3. Parts(c)' = 0
    BY <1>7, <2>1 DEF Parts
  <2>4. /\ client[c].sent = 0 /\ client[c].got = 0 /\ outbox[c] = 0
        /\ client[c].page \in http!Pages /\ units = ResponseUnits[client[c].page]
    BY <2>1 DEF Asked
  <2> QED
    BY <1>7, <2>2, <2>3, <2>4 DEF Answered
<1> QED
  BY <1>3, <1>5, <1>6, <1>8, OneConnection

\* connection_fun after async_recv: it goes on reading, answers, refuses or closes.
LEMMA RecvStep == ASSUME SocketsInv, NEW c \in Conns, http!RecvReturned(c) PROVE SocketsInv'
<1> DEFINE buf == http!Appends(buffer[c], call[c].data)
<1> DEFINE ret == http!phr_structed(buf)
<1>1. task[c] = "recv" /\ call[c].step = "done" /\ UNCHANGED client
  BY DEF http!RecvReturned
<1>2. /\ SocketTypes /\ ConnectionCall(c) /\ Stream(c) /\ c \in http!Tasks
      /\ call[c].n \in Int /\ BUF_SIZE \in Nat /\ RequestUnits \in 1 .. BUF_SIZE
  BY HttpAssumption DEF SocketsInv, SocketTypes, Calls, http!HttpConstants, http!Tasks
<1>3. CASE call[c].n =< 0
  <2>1. http!Close(c)
    BY <1>3 DEF http!RecvReturned, http!Ends
  <2>2. peer[c] \in Gone
    BY <1>1, <1>2, <1>3 DEF ConnectionCall
  <2> QED
    BY <1>1, <2>1, <2>2, CloseStep
<1>4. CASE call[c].n > 0
  <2>1. /\ \/ ret > 0 /\ http!build_response(http!Last(buf)) >= 0
                /\ http!Respond(c, http!build_response(http!Last(buf)))
           \/ /\ ret = -2 /\ Len(buf) < BUF_SIZE
              /\ buffer' = [buffer EXCEPT ![c] = buf]
              /\ call' = [call EXCEPT ![c] = http!Await("recv", BUF_SIZE - Len(buf))]
              /\ UNCHANGED <<task, left>>
           \/ /\ ~(ret > 0 /\ http!build_response(http!Last(buf)) >= 0)
              /\ ~(ret = -2 /\ Len(buf) < BUF_SIZE)
              /\ http!NextRequest(c)
        /\ UNCHANGED <<backlog, peer, inbox, outbox, fd>>
    <3>1. ~http!Ends(c)
      BY <1>2, <1>4 DEF http!Ends
    <3> QED
      BY <3>1 DEF http!RecvReturned, http!kernel
  <2>2. /\ buf \in Seq(Units) /\ Len(buf) = InBuffer(c) + InCall(c)
        /\ InCall(c) > 0 /\ Len(buf) =< BUF_SIZE
        /\ ret > 0 =>
              http!Last(buf) \in http!Pages /\ http!build_response(http!Last(buf)) > 0
              /\ http!build_response(http!Last(buf)) = ResponseUnits[http!Last(buf)]
              /\ ResponseUnits[http!Last(buf)] \in Nat
        /\ peer[c] = "open" =>
              /\ \A k \in 1 .. Len(buf) : buf[k] = UnitAt(c, k)
              /\ Len(buf) < RequestUnits => ret = -2
              /\ Len(buf) = RequestUnits /\ client[c].page \in http!Pages =>
                    ret > 0 /\ http!Last(buf) = client[c].page
              /\ Len(buf) = RequestUnits /\ client[c].page = "bad" => ret = -1
    BY <1>1, <1>4, Parsed
  <2> HIDE DEF buf, ret
  <2>3. InBuffer(c) \in Nat /\ InCall(c) \in Nat /\ InSocket(c) \in Nat
    BY <1>2, Lengths
  <2>4. peer[c] = "open" => (Asking(c) \/ Asked(c)) /\ InOrder(c)
    <3>1. Parts(c) # 0
      BY <2>2, <2>3 DEF Parts
    <3> QED
      BY <1>2, <3>1 DEF Stream, Answered, Refused
  <2>5. peer[c] = "open" /\ Asking(c) => Len(buf) < RequestUnits
    BY <1>2, <2>2, <2>3 DEF Asking, Parts
  <2>6. peer[c] = "open" /\ Asked(c) => Len(buf) + InSocket(c) = RequestUnits
    BY <2>2, <2>3 DEF Asked, Parts
  <2>7. client[c].page \in http!Pages \cup {"none", "bad"}
    BY <1>2 DEF SocketTypes, Clients
  <2>8. CASE ret > 0 /\ http!build_response(http!Last(buf)) >= 0
                /\ http!Respond(c, http!build_response(http!Last(buf)))
    <3>1. peer[c] = "open" => Asked(c) /\ Len(buf) = RequestUnits /\ InSocket(c) = 0
      BY <1>2, <2>2, <2>3, <2>4, <2>5, <2>6, <2>8
    <3>2. peer[c] = "open" => client[c].page \in http!Pages /\ http!Last(buf) = client[c].page
      BY <2>2, <2>7, <2>8, <3>1 DEF Asked
    <3> QED
      BY <1>1, <2>1, <2>2, <2>8, <3>1, <3>2, RespondStep
  <2>9. CASE /\ ~(ret > 0 /\ http!build_response(http!Last(buf)) >= 0)
             /\ ~(ret = -2 /\ Len(buf) < BUF_SIZE)
             /\ http!NextRequest(c)
    <3>1. peer[c] = "open" => Len(buf) = RequestUnits /\ Asked(c) /\ InSocket(c) = 0
      BY <1>2, <2>2, <2>3, <2>4, <2>5, <2>6, <2>9
    <3>2. ret > 0 => http!build_response(http!Last(buf)) >= 0
      BY <2>2
    <3>3. peer[c] = "open" => client[c].page = "bad"
      BY <2>2, <2>7, <2>9, <3>1, <3>2 DEF Asked
    <3> QED
      BY <1>1, <2>1, <2>9, <3>1, <3>3, NextRequestStep DEF Asked
  <2>10. CASE /\ ret = -2 /\ Len(buf) < BUF_SIZE
              /\ buffer' = [buffer EXCEPT ![c] = buf]
              /\ call' = [call EXCEPT ![c] = http!Await("recv", BUF_SIZE - Len(buf))]
              /\ UNCHANGED <<task, left>>
    <3> DEFINE room == BUF_SIZE - Len(buf)
    <3>1. Len(buf) \in Nat /\ room \in Nat /\ room > 0
      BY <1>2, <2>2, <2>10
    <3> HIDE DEF room
    <3>2. /\ buffer'[c] = buf /\ call'[c] = http!Await("recv", room)
          /\ buffer' \in [Conns -> Seq(Units)]
          /\ \A d \in Conns \ {c} : buffer'[d] = buffer[d]
          /\ \A t \in http!Tasks \ {c} : call'[t] = call[t]
      BY <1>2, <2>2, <2>10 DEF SocketTypes, room
    <3>3. /\ call'[c].n = 0 /\ call'[c].data = <<>> /\ call'[c].step = "try"
          /\ call'[c].op = "recv" /\ call'[c].size = room /\ call'[c] \in Calls
      BY <3>1, <3>2, AwaitIsCall
    <3>4. SocketTypes'
      <4>1. call' \in [http!Tasks -> Calls]
        BY <1>2, <2>10, <3>2, <3>3 DEF SocketTypes
      <4> QED
        BY <1>1, <1>2, <2>1, <2>10, <3>2, <4>1 DEF SocketTypes
    <3>5. InBuffer(c)' = Len(buf) /\ InCall(c)' = 0 /\ InSocket(c)' = InSocket(c)
      BY <2>1, <3>2, <3>3 DEF InBuffer, InCall, InSocket
    <3>6. Parts(c)' = Parts(c) /\ InBuffer(c)' + InCall(c)' = InBuffer(c) + InCall(c)
      BY <2>2, <2>3, <3>5 DEF Parts
    <3>7. ToSend(c)' = ToSend(c)
      BY <1>1, <2>10 DEF ToSend
    <3>8. ConnectionCall(c)'
      <4>1. fd[c] # 0 /\ peer[c] # "none"
        BY <1>1, <1>2 DEF ConnectionCall
      <4>2. Len(buffer'[c]) = Len(buf) /\ Len(call'[c].data) = 0 /\ call'[c].data \in Seq(Units)
        <5>1. Len(<<>>) = 0 /\ <<>> \in Seq(Units)
          BY EmptySeq
        <5> QED
          BY <3>2, <3>3, <5>1, Zenon
      <4>3. task'[c] = "recv" /\ fd'[c] = fd[c] /\ peer'[c] = peer[c]
        BY <1>1, <2>1, <2>10
      <4>4. Receives(c)'
        BY <3>1, <3>3, <4>2, <4>3 DEF Receives, room
      <4> QED
        BY <3>3, <4>1, <4>3, <4>4 DEF ConnectionCall, Sends
    <3>9. peer[c] = "open" => InOrder(c)'
      <4>1. SUFFICES ASSUME peer[c] = "open" PROVE InOrder(c)'
        OBVIOUS
      <4>2. \A k \in 1 .. Len(buf) : buf[k] = UnitAt(c, k)
        BY <2>2, <4>1
      <4>4. \A k \in 1 .. InSocket(c) : inbox[c][k] = UnitAt(c, InBuffer(c) + InCall(c) + k)
        BY <2>4, <4>1 DEF InOrder
      <4>3. client'[c].page = client[c].page /\ buffer'[c] = buf /\ inbox'[c] = inbox[c]
        BY <1>1, <2>1, <3>2
      <4>5. \A k \in 1 .. InBuffer(c)' : buffer'[c][k] = UnitAt(c, k)'
        BY <3>5, <4>2, <4>3 DEF UnitAt
      <4>6. \A k \in 1 .. InSocket(c)' :
               inbox'[c][k] = UnitAt(c, InBuffer(c) + InCall(c) + k)'
        BY <3>5, <3>6, <4>3, <4>4 DEF UnitAt
      <4> QED
        BY <3>5, <4>5, <4>6 DEF InOrder
    <3>10. Stream(c)'
      <4>1. SUFFICES ASSUME peer[c] = "open" PROVE Stream(c)'
        BY <1>2, <2>1, <1>1 DEF Stream, ConnectionCall
      <4> QED
        BY <1>1, <2>1, <2>4, <3>6, <3>7, <3>9, <4>1 DEF Stream, Asking, Asked
    <3> QED
      BY <1>1, <2>1, <2>10, <3>2, <3>4, <3>8, <3>10, OneConnection
  <2> QED
    BY <2>1, <2>8, <2>9, <2>10
<1> QED
  BY <1>2, <1>3, <1>4

-----------------------------------------------------------------------------
(* Socket calls *)

\* A call that comes back, or goes on, is still the call it was.
LEMMA ReturnsTo ==
  ASSUME SocketTypes, NEW t \in http!Tasks, NEW n \in Int, NEW data \in Seq(Units \cup Conns),
         http!Returns(t, n, data)
  PROVE  /\ call' \in [http!Tasks -> Calls]
         /\ call'[t].step = "done" /\ call'[t].n = n /\ call'[t].data = data
         /\ call'[t].op = call[t].op /\ call'[t].size = call[t].size
         /\ \A u \in http!Tasks \ {t} : call'[u] = call[u]
<1>1. call' = [call EXCEPT ![t].step = "done", ![t].n = n, ![t].data = data]
  BY DEF http!Returns
<1>2. call \in [http!Tasks -> Calls] /\ call[t] \in Calls
  BY DEF SocketTypes
<1>3. call'[t] = [call[t] EXCEPT !.step = "done", !.n = n, !.data = data]
  BY <1>1, <1>2
<1>4. DOMAIN call' = http!Tasks /\ \A u \in http!Tasks \ {t} : call'[u] = call[u]
  BY <1>1, <1>2
<1>5. call' = [u \in http!Tasks |-> call'[u]]
  BY <1>1, <1>2
<1>6. /\ call'[t].step = "done" /\ call'[t].n = n /\ call'[t].data = data
      /\ call'[t].op = call[t].op /\ call'[t].size = call[t].size /\ call'[t] \in Calls
  BY <1>2, <1>3 DEF Calls
<1> QED
  BY <1>2, <1>4, <1>5, <1>6

\* A call that goes on, to poll or to its second try, is not answered yet.
LEMMA GoesOnTo ==
  ASSUME SocketTypes, NEW t \in http!Tasks, NEW s \in {"poll", "again"},
         call' = [call EXCEPT ![t].step = s]
  PROVE  /\ call' \in [http!Tasks -> Calls]
         /\ call'[t].step = s /\ call'[t].n = call[t].n /\ call'[t].data = call[t].data
         /\ call'[t].op = call[t].op /\ call'[t].size = call[t].size
         /\ \A u \in http!Tasks \ {t} : call'[u] = call[u]
<1>1. call \in [http!Tasks -> Calls] /\ call[t] \in Calls
  BY DEF SocketTypes
<1>2. call'[t] = [call[t] EXCEPT !.step = s]
  BY <1>1
<1>3. DOMAIN call' = http!Tasks /\ \A u \in http!Tasks \ {t} : call'[u] = call[u]
  BY <1>1
<1>4. call' = [u \in http!Tasks |-> call'[u]]
  BY <1>1
<1>5. /\ call'[t].step = s /\ call'[t].n = call[t].n /\ call'[t].data = call[t].data
      /\ call'[t].op = call[t].op /\ call'[t].size = call[t].size /\ call'[t] \in Calls
  BY <1>1, <1>2 DEF Calls
<1> QED
  BY <1>1, <1>3, <1>4, <1>5

\* The smaller of two numbers.
LEMMA MinOfTwo ==
  ASSUME NEW a \in Int, NEW b \in Int
  PROVE  http!Min({a, b}) = IF a =< b THEN a ELSE b
<1>1. PICK m \in {a, b} : m = IF a =< b THEN a ELSE b
  OBVIOUS
<1>2. m \in {a, b} /\ \A y \in {a, b} : m =< y
  BY <1>1
<1>3. \A x \in {a, b} : (\A y \in {a, b} : x =< y) => x = m
  BY <1>1
<1> QED
  BY <1>1, <1>2, <1>3 DEF http!Min

\* A call under way is the one its task is at.
LEMMA CallOf ==
  ASSUME SocketsInv, NEW c \in Conns, call[c].step # "done"
  PROVE  /\ call[c].op \in {"recv", "send"} /\ call[c].n = 0 /\ call[c].data = <<>>
         /\ task[c] = call[c].op /\ fd[c] # 0 /\ peer[c] # "none"
         /\ SocketTypes /\ c \in http!Tasks /\ Receives(c) /\ Sends(c) /\ Stream(c)
         /\ inbox[c] \in Seq(Units) /\ outbox[c] \in 0 .. SndBuf /\ SndBuf \in Nat \ {0}
         /\ call[c].size \in Int
<1>1. SocketTypes /\ ConnectionCall(c) /\ c \in http!Tasks /\ Stream(c)
  BY DEF SocketsInv, http!Tasks
<1>2. task[c] \in {"recv", "send"}
  BY <1>1 DEF ConnectionCall, SocketTypes, http!NoCall
<1>3. call[c].op = task[c]
  BY <1>1, <1>2 DEF ConnectionCall, Receives, Sends
<1>4. inbox[c] \in Seq(Units) /\ outbox[c] \in 0 .. SndBuf /\ call[c].size \in Int
  BY <1>1 DEF SocketTypes, Calls
<1>5. SndBuf \in Nat \ {0}
  BY HttpAssumption DEF http!HttpConstants, http!NetConstants
<1> QED
  BY <1>1, <1>2, <1>3, <1>4, <1>5 DEF ConnectionCall

\* A call that is not answered yet changes nothing but its step.
LEMMA WaitStep ==
  ASSUME SocketsInv, NEW c \in Conns, call[c].step # "done", NEW s \in {"poll", "again"},
         call' = [call EXCEPT ![c].step = s],
         UNCHANGED <<backlog, peer, inbox, outbox, fd, task, buffer, left, client>>,
         s = "again" /\ call[c].op = "recv" => inbox[c] # <<>> \/ peer[c] \in Gone,
         s = "again" /\ call[c].op = "send" =>
            outbox[c] < SndBuf \/ peer[c] \in {"reset", "broken"}
  PROVE  SocketsInv'
<1>1. /\ call[c].op \in {"recv", "send"} /\ call[c].n = 0 /\ call[c].data = <<>>
      /\ task[c] = call[c].op /\ fd[c] # 0 /\ peer[c] # "none"
      /\ SocketTypes /\ c \in http!Tasks /\ Receives(c) /\ Sends(c) /\ Stream(c)
  BY CallOf
<1>2. /\ call' \in [http!Tasks -> Calls]
      /\ call'[c].step = s /\ call'[c].n = 0 /\ call'[c].data = <<>>
      /\ call'[c].op = call[c].op /\ call'[c].size = call[c].size
      /\ \A u \in http!Tasks \ {c} : call'[u] = call[u]
  BY <1>1, GoesOnTo
<1>3. SocketTypes'
  BY <1>1, <1>2 DEF SocketTypes
<1>4. ConnectionCall(c)'
  <2>1. Receives(c)'
    BY <1>1, <1>2 DEF Receives
  <2>2. Sends(c)'
    BY <1>1, <1>2 DEF Sends
  <2> QED
    BY <1>1, <1>2, <2>1, <2>2 DEF ConnectionCall
<1>5. InBuffer(c)' = InBuffer(c) /\ InCall(c)' = InCall(c) /\ InSocket(c)' = InSocket(c)
  BY <1>1, <1>2 DEF InBuffer, InCall, InSocket
<1>6. Parts(c)' = Parts(c) /\ ToSend(c)' = ToSend(c)
  BY <1>1, <1>2, <1>5 DEF Parts, ToSend
<1>7. InOrder(c) => InOrder(c)'
  BY <1>1, <1>2, <1>5 DEF InOrder, UnitAt
<1>8. Stream(c)'
  BY <1>1, <1>6, <1>7 DEF Stream, Asking, Asked, Answered, Refused
<1> QED
  BY <1>2, <1>3, <1>4, <1>8, OneConnection

\* A call that is answered without any units: the client has gone.
LEMMA EndStep ==
  ASSUME SocketsInv, NEW c \in Conns, call[c].step # "done", NEW n \in {0, -1},
         http!Returns(c, n, <<>>), peer[c] \in Gone,
         n = -1 => peer[c] \in {"reset", "broken"},
         UNCHANGED <<backlog, peer, inbox, outbox, fd, task, buffer, left, client>>
  PROVE  SocketsInv'
<1>1. /\ call[c].op \in {"recv", "send"} /\ call[c].n = 0 /\ call[c].data = <<>>
      /\ task[c] = call[c].op /\ fd[c] # 0 /\ peer[c] # "none"
      /\ SocketTypes /\ c \in http!Tasks /\ Receives(c) /\ Sends(c) /\ Stream(c)
  BY CallOf
<1>2. /\ call' \in [http!Tasks -> Calls]
      /\ call'[c].step = "done" /\ call'[c].n = n /\ call'[c].data = <<>>
      /\ call'[c].op = call[c].op /\ call'[c].size = call[c].size
      /\ \A u \in http!Tasks \ {c} : call'[u] = call[u]
  <2>1. <<>> \in Seq(Units \cup Conns) /\ n \in Int
    OBVIOUS
  <2> QED
    BY <1>1, <2>1, ReturnsTo
<1>3. SocketTypes'
  BY <1>1, <1>2 DEF SocketTypes
<1>4. ConnectionCall(c)'
  <2>1. left[c] \in Nat
    BY <1>1 DEF SocketTypes
  <2>2. Receives(c)'
    <3>1. Len(<<>>) = 0 /\ <<>> \in Seq(Units)
      BY EmptySeq
    <3> QED
      BY <1>1, <1>2, <3>1 DEF Receives
  <2>3. Sends(c)'
    BY <1>1, <1>2, <2>1 DEF Sends
  <2> QED
    BY <1>1, <1>2, <2>2, <2>3 DEF ConnectionCall, Gone
<1>5. Stream(c)'
  BY DEF Stream, Gone
<1> QED
  BY <1>1, <1>2, <1>3, <1>4, <1>5, OneConnection

\* Units that are received move from the socket to the call.
LEMMA ReceivedStep ==
  ASSUME SocketsInv, NEW c \in Conns, call[c].step # "done", call[c].op = "recv",
         NEW k \in 1 .. Len(inbox[c]), k =< call[c].size,
         http!Returns(c, k, SubSeq(inbox[c], 1, k)),
         inbox' = [inbox EXCEPT ![c] = SubSeq(@, k + 1, Len(@))],
         UNCHANGED <<backlog, peer, outbox, fd, task, buffer, left, client>>
  PROVE  SocketsInv'
<1> DEFINE data == SubSeq(inbox[c], 1, k)
<1> DEFINE rest == SubSeq(inbox[c], k + 1, Len(inbox[c]))
<1>1. /\ call[c].n = 0 /\ call[c].data = <<>> /\ inbox[c] \in Seq(Units)
      /\ task[c] = "recv" /\ fd[c] # 0 /\ peer[c] # "none"
      /\ SocketTypes /\ c \in http!Tasks /\ Receives(c) /\ Stream(c)
  BY CallOf
<1>2. /\ data \in Seq(Units) /\ Len(data) = k
      /\ \A i \in 1 .. k : data[i] = inbox[c][i]
      /\ rest \in Seq(Units) /\ Len(rest) = Len(inbox[c]) - k
      /\ \A i \in 1 .. Len(inbox[c]) - k : rest[i] = inbox[c][k + i]
  <2>1. /\ k \in Int /\ k > 0 /\ k =< Len(inbox[c]) /\ Len(inbox[c]) \in Nat
        /\ \A i \in 1 .. Len(inbox[c]) : inbox[c][i] \in Units
    BY <1>1
  <2>2. \A i \in 1 .. k : inbox[c][i] \in Units
    BY <2>1
  <2>3. \A i \in k + 1 .. Len(inbox[c]) : inbox[c][i] \in Units
    BY <2>1
  <2>4. /\ data \in Seq(Units) /\ Len(data) = k
        /\ \A i \in 1 .. k : data[i] = inbox[c][i]
    <3>1. /\ data \in Seq(Units) /\ Len(data) = IF 1 =< k THEN k - 1 + 1 ELSE 0
          /\ \A i \in 1 .. k - 1 + 1 : data[i] = inbox[c][1 + i - 1]
      BY <2>1, <2>2, SubSeqProperties
    <3> HIDE DEF data
    <3>2. k - 1 + 1 = k /\ \A i \in 1 .. k : 1 + i - 1 = i
      BY <2>1
    <3> QED
      BY <2>1, <3>1, <3>2
  <2>5. /\ rest \in Seq(Units) /\ Len(rest) = Len(inbox[c]) - k
        /\ \A i \in 1 .. Len(inbox[c]) - k : rest[i] = inbox[c][k + i]
    <3> DEFINE l == Len(inbox[c])
    <3>1. l \in Nat /\ k =< l /\ k + 1 \in Int
      BY <2>1
    <3>2. /\ rest \in Seq(Units) /\ Len(rest) = IF k + 1 =< l THEN l - (k + 1) + 1 ELSE 0
          /\ \A i \in 1 .. l - (k + 1) + 1 : rest[i] = inbox[c][k + 1 + i - 1]
      BY <2>3, <3>1, SubSeqProperties
    <3> HIDE DEF rest, l
    <3>3. l - (k + 1) + 1 = l - k /\ \A i \in 1 .. l - k : k + 1 + i - 1 = k + i
      BY <2>1, <3>1
    <3>4. /\ rest \in Seq(Units) /\ Len(rest) = l - k
          /\ \A i \in 1 .. l - k : rest[i] = inbox[c][k + i]
      BY <2>1, <3>1, <3>2, <3>3
    <3> QED
      BY <3>4 DEF l
  <2> QED
    BY <2>4, <2>5
<1>3. inbox'[c] = rest /\ \A d \in Conns \ {c} : inbox'[d] = inbox[d]
  BY <1>1 DEF SocketTypes
<1>4. http!Returns(c, k, data)
  OBVIOUS
<1> HIDE DEF data, rest
<1>5. data \in Seq(Units \cup Conns)
  <2>1. Units \subseteq Units \cup Conns
    OBVIOUS
  <2> QED
    BY <1>2, <2>1, SeqMonotonic
<1>6. /\ call' \in [http!Tasks -> Calls]
      /\ call'[c].step = "done" /\ call'[c].n = k /\ call'[c].data = data
      /\ call'[c].op = call[c].op /\ call'[c].size = call[c].size
      /\ \A u \in http!Tasks \ {c} : call'[u] = call[u]
  <2>1. k \in Int
    OBVIOUS
  <2> QED
    BY <1>1, <1>4, <1>5, <2>1, ReturnsTo
<1>7. inbox' \in [Conns -> Seq(Units)]
  <2>1. inbox \in [Conns -> Seq(Units)]
    BY <1>1 DEF SocketTypes
  <2>2. inbox' = [inbox EXCEPT ![c] = rest]
    BY DEF rest
  <2> QED
    BY <1>2, <2>1, <2>2
<1>8. SocketTypes'
  BY <1>1, <1>6, <1>7 DEF SocketTypes
<1>9. k > 0 /\ k \in Int
  OBVIOUS
<1>10. ConnectionCall(c)'
  <2>1. Receives(c)'
    BY <1>1, <1>2, <1>6, <1>9 DEF Receives
  <2> QED
    BY <1>1, <1>2, <1>6, <1>9, <2>1 DEF ConnectionCall, Sends
<1>11. InBuffer(c) \in Nat /\ InCall(c) = 0 /\ InSocket(c) \in Nat
  BY <1>1, Lengths
<1>12. InBuffer(c)' = InBuffer(c) /\ InCall(c)' = k /\ InSocket(c)' = InSocket(c) - k
  BY <1>2, <1>3, <1>6 DEF InBuffer, InCall, InSocket
<1>13. Parts(c)' = Parts(c) /\ ToSend(c)' = ToSend(c)
  <2>1. Parts(c)' = Parts(c)
    BY <1>9, <1>11, <1>12 DEF Parts
  <2> QED
    BY <1>1, <2>1 DEF ToSend
<1>14. InOrder(c) => InOrder(c)'
  <2>1. SUFFICES ASSUME InOrder(c) PROVE InOrder(c)'
    OBVIOUS
  <2>2. client'[c].page = client[c].page /\ buffer'[c] = buffer[c]
    OBVIOUS
  <2>3. \A i \in 1 .. InSocket(c) : inbox[c][i] = UnitAt(c, InBuffer(c) + i)
    BY <1>11, <2>1 DEF InOrder
  <2>4. InSocket(c) = Len(inbox[c])
    BY DEF InSocket
  <2>5. ASSUME NEW i \in 1 .. k PROVE call'[c].data[i] = UnitAt(c, InBuffer(c) + i)'
    <3>1. i \in 1 .. InSocket(c)
      BY <1>9, <1>11, <2>4
    <3> QED
      BY <1>2, <1>6, <1>12, <2>2, <2>3, <3>1 DEF UnitAt
  <2>6. ASSUME NEW i \in 1 .. InSocket(c) - k, NEW p, p = InBuffer(c) + k + i
        PROVE  inbox'[c][i] = UnitAt(c, p)'
    <3>1. k + i \in 1 .. InSocket(c) /\ p = InBuffer(c) + (k + i)
      BY <1>9, <1>11, <2>6
    <3>2. inbox'[c][i] = inbox[c][k + i]
      BY <1>2, <1>3, <2>4
    <3> QED
      BY <2>2, <2>3, <3>1, <3>2 DEF UnitAt
  <2>7. \A i \in 1 .. InBuffer(c) : buffer'[c][i] = UnitAt(c, i)'
    BY <2>1, <2>2 DEF InOrder, UnitAt
  <2>8. \A i \in 1 .. InCall(c)' : call'[c].data[i] = UnitAt(c, InBuffer(c) + i)'
    BY <1>12, <2>5
  <2>9. \A i \in 1 .. InSocket(c)' :
           inbox'[c][i] = UnitAt(c, InBuffer(c) + InCall(c) + i)'
    <3>1. SUFFICES ASSUME NEW i \in 1 .. InSocket(c) - k
                   PROVE  inbox'[c][i] = UnitAt(c, InBuffer(c) + InCall(c) + i)'
      BY <1>12
    <3>2. (InBuffer(c) + InCall(c) + i)' = InBuffer(c) + k + i
      BY <1>12
    <3> QED
      BY <2>6, <3>2 DEF UnitAt
  <2> QED
    BY <1>12, <2>7, <2>8, <2>9 DEF InOrder
<1>15. Stream(c)'
  BY <1>1, <1>13, <1>14 DEF Stream, Asking, Asked, Answered, Refused
<1> QED
  BY <1>1, <1>3, <1>6, <1>8, <1>10, <1>15, OneConnection

\* Units that are sent wait for the client, if it is still there.
LEMMA SentStep ==
  ASSUME SocketsInv, NEW c \in Conns, call[c].step # "done", call[c].op = "send",
         NEW n \in 1 .. call[c].size, outbox[c] + n =< SndBuf,
         http!Returns(c, n, <<>>),
         outbox' = [outbox EXCEPT ![c] = @ + n],
         peer' = [peer EXCEPT ![c] = IF @ = "fin" THEN "broken" ELSE @],
         UNCHANGED <<backlog, inbox, fd, task, buffer, left, client>>
  PROVE  SocketsInv'
<1>1. /\ call[c].n = 0 /\ call[c].data = <<>> /\ outbox[c] \in 0 .. SndBuf
      /\ task[c] = "send" /\ fd[c] # 0 /\ peer[c] # "none" /\ SndBuf \in Nat
      /\ SocketTypes /\ c \in http!Tasks /\ Sends(c) /\ Stream(c) /\ call[c].size \in Int
  BY CallOf
<1>2. /\ call' \in [http!Tasks -> Calls]
      /\ call'[c].step = "done" /\ call'[c].n = n /\ call'[c].data = <<>>
      /\ call'[c].op = call[c].op /\ call'[c].size = call[c].size
      /\ \A u \in http!Tasks \ {c} : call'[u] = call[u]
  <2>1. <<>> \in Seq(Units \cup Conns) /\ n \in Int
    OBVIOUS
  <2> QED
    BY <1>1, <2>1, ReturnsTo
<1>3. /\ outbox'[c] = outbox[c] + n /\ outbox' \in [Conns -> 0 .. SndBuf]
      /\ peer'[c] = (IF peer[c] = "fin" THEN "broken" ELSE peer[c])
      /\ peer' \in [Conns -> {"none", "open"} \cup Gone]
      /\ \A d \in Conns \ {c} : outbox'[d] = outbox[d] /\ peer'[d] = peer[d]
  BY <1>1 DEF SocketTypes, Gone
<1>4. SocketTypes'
  BY <1>1, <1>2, <1>3 DEF SocketTypes
<1>5. call[c].size = left[c] /\ left[c] > 0 /\ buffer[c] = <<>> /\ left[c] \in Nat
  BY <1>1 DEF Sends, SocketTypes
<1>6. n > 0 /\ n \in Int /\ n =< left[c]
  BY <1>1, <1>5
<1>7. peer'[c] # "none" /\ (peer[c] \in Gone => peer'[c] \in Gone)
      /\ (peer[c] \in {"reset", "broken"} => peer'[c] \in {"reset", "broken"})
      /\ (peer'[c] = "open" => peer[c] = "open")
  BY <1>1, <1>3 DEF Gone
<1>8. ConnectionCall(c)'
  <2>1. Sends(c)'
    BY <1>1, <1>2, <1>5, <1>6 DEF Sends
  <2>2. Receives(c)'
    BY <1>1 DEF Receives
  <2> QED
    BY <1>1, <1>2, <1>6, <1>7, <2>1, <2>2 DEF ConnectionCall
<1>9. InBuffer(c)' = InBuffer(c) /\ InCall(c)' = InCall(c) /\ InSocket(c)' = InSocket(c)
  BY <1>1, <1>2 DEF InBuffer, InCall, InSocket
<1>10. Parts(c)' = Parts(c) /\ ToSend(c) = left[c] /\ ToSend(c)' = left[c] - n
  <2>1. Parts(c)' = Parts(c)
    BY <1>9 DEF Parts
  <2>2. call[c].step # "done"
    OBVIOUS
  <2> QED
    BY <1>1, <1>2, <1>5, <2>1, <2>2 DEF ToSend
<1>11. InOrder(c) => InOrder(c)'
  BY <1>1, <1>2, <1>9 DEF InOrder, UnitAt
<1>12. peer[c] = "open" => Answered(c) /\ InOrder(c)
  BY <1>1, <1>5, <1>10 DEF Stream, Asking, Asked, Refused
<1>13. Stream(c)'
  <2>1. SUFFICES ASSUME peer[c] = "open" PROVE Answered(c)' /\ InOrder(c)'
    BY <1>7 DEF Stream
  <2>2. client[c].got \in Nat
    BY <1>1 DEF SocketTypes, Clients
  <2>3. /\ client[c].got + outbox'[c] + ToSend(c)' = client[c].got + outbox[c] + ToSend(c)
        /\ outbox'[c] + ToSend(c)' > 0
    BY <1>1, <1>3, <1>5, <1>6, <1>10, <2>2
  <2> QED
    BY <1>10, <1>11, <1>12, <2>1, <2>3 DEF Answered
<1> QED
  BY <1>1, <1>2, <1>3, <1>4, <1>7, <1>8, <1>13, OneConnection

\* A first or a second recv takes what is there, learns that the client has gone, or
\* waits; the second finds what poll announced.
LEMMA RecvTries ==
  ASSUME SocketsInv, NEW c \in Conns, call[c].op = "recv", http!Try(c) \/ http!Again(c),
         UNCHANGED <<task, buffer, left, client>>
  PROVE  SocketsInv'
<1> DEFINE answer == http!recv(c, call[c].size)
<1>1. call[c].step \in {"try", "again"}
  BY DEF http!Try, http!Again
<1>2. /\ SocketTypes /\ Receives(c) /\ task[c] = "recv" /\ peer[c] # "none"
      /\ inbox[c] \in Seq(Units) /\ call[c].size \in Int
  BY <1>1, CallOf
<1>3. http!Answer(c) = answer
  BY DEF http!Answer
<1>4. /\ \/ answer.errno = "EAGAIN" /\ call[c].step = "try"
                /\ call' = [call EXCEPT ![c].step = "poll"]
         \/ /\ call[c].step = "again" \/ answer.errno # "EAGAIN"
            /\ http!Returns(c, answer.n, answer.data)
      /\ http!Effect(c, answer)
  BY <1>3 DEF http!Try, http!Again
<1>5. CASE inbox[c] # <<>>
  <2> DEFINE k == http!Min({call[c].size, Len(inbox[c])})
  <2>1. Len(inbox[c]) \in Nat /\ Len(inbox[c]) > 0 /\ call[c].size > 0
    BY <1>2, <1>5 DEF Receives
  <2>2. k \in 1 .. Len(inbox[c]) /\ k =< call[c].size
    BY <1>2, <2>1, MinOfTwo
  <2>3. answer = [n |-> k, errno |-> "none", data |-> SubSeq(inbox[c], 1, k)]
    BY <1>5 DEF http!recv, http!Success
  <2> HIDE DEF k, answer
  <2>4. answer.n = k /\ answer.data = SubSeq(inbox[c], 1, k) /\ answer.errno = "none"
    BY <2>3
  <2>5. http!Returns(c, k, SubSeq(inbox[c], 1, k))
    BY <1>4, <2>4
  <2>6. /\ inbox' = [inbox EXCEPT ![c] = SubSeq(@, k + 1, Len(@))]
        /\ UNCHANGED <<backlog, peer, outbox, fd>>
    <3>1. answer.n > 0
      BY <2>2, <2>4
    <3> QED
      BY <1>4, <2>4, <3>1 DEF http!Effect
  <2> QED
    BY <1>1, <2>2, <2>5, <2>6, ReceivedStep
<1>6. CASE inbox[c] = <<>> /\ peer[c] \in Gone
  <2>1. /\ answer.errno # "EAGAIN" /\ answer.data = <<>> /\ answer.n \in {0, -1}
        /\ answer.n = -1 => peer[c] \in {"reset", "broken"}
    BY <1>6 DEF http!recv, http!Success, http!Failure, Gone
  <2>2. UNCHANGED <<backlog, peer, inbox, outbox, fd>>
    BY <1>4, <2>1 DEF http!Effect, http!kernel
  <2> HIDE DEF answer
  <2>3. http!Returns(c, answer.n, <<>>)
    BY <1>4, <2>1
  <2> QED
    BY <1>1, <1>6, <2>1, <2>2, <2>3, EndStep
<1>7. CASE inbox[c] = <<>> /\ peer[c] \notin Gone
  <2>1. answer.errno = "EAGAIN" /\ answer.n = -1
    BY <1>7 DEF http!recv, http!EAGAIN, Gone
  <2>2. call[c].step # "again"
    BY <1>2, <1>7 DEF Receives
  <2>3. UNCHANGED <<backlog, peer, inbox, outbox, fd>>
    BY <1>4, <2>1 DEF http!Effect, http!kernel
  <2>4. call' = [call EXCEPT ![c].step = "poll"]
    BY <1>4, <2>1, <2>2
  <2> QED
    BY <1>1, <2>3, <2>4, WaitStep
<1> QED
  BY <1>5, <1>6, <1>7

\* Both tries of async_send: what is sent waits for the client, or the task waits.
LEMMA SendTries ==
  ASSUME SocketsInv, NEW c \in Conns, call[c].op = "send", http!Try(c) \/ http!Again(c),
         UNCHANGED <<task, buffer, left, client>>
  PROVE  SocketsInv'
<1> DEFINE answer == http!send(c, call[c].size)
<1>1. call[c].step \in {"try", "again"} /\ peer[c] # "broken"
  BY DEF http!Try, http!Again, http!Raises
<1>2. /\ SocketTypes /\ Sends(c) /\ task[c] = "send" /\ peer[c] # "none"
      /\ outbox[c] \in 0 .. SndBuf /\ call[c].size \in Int /\ SndBuf \in Nat \ {0}
  BY <1>1, CallOf
<1>3. http!Answer(c) = answer
  BY DEF http!Answer
<1>4. /\ \/ answer.errno = "EAGAIN" /\ call[c].step = "try"
                /\ call' = [call EXCEPT ![c].step = "poll"]
         \/ /\ call[c].step = "again" \/ answer.errno # "EAGAIN"
            /\ http!Returns(c, answer.n, answer.data)
      /\ http!Effect(c, answer)
  BY <1>3 DEF http!Try, http!Again
<1>5. CASE peer[c] = "reset"
  <2>1. answer.errno # "EAGAIN" /\ answer.data = <<>> /\ answer.n = -1
    BY <1>5 DEF http!send, http!Failure
  <2>2. UNCHANGED <<backlog, peer, inbox, outbox, fd>>
    BY <1>4, <2>1 DEF http!Effect, http!kernel
  <2> HIDE DEF answer
  <2>3. http!Returns(c, answer.n, <<>>)
    BY <1>4, <2>1
  <2> QED
    BY <1>1, <1>5, <2>1, <2>2, <2>3, EndStep DEF Gone
<1>6. CASE peer[c] # "reset" /\ outbox[c] # SndBuf
  <2> DEFINE n == http!Min({call[c].size, SndBuf - outbox[c]})
  <2>1. call[c].size > 0 /\ SndBuf - outbox[c] > 0 /\ SndBuf - outbox[c] \in Int
    BY <1>1, <1>2, <1>6 DEF Sends
  <2>2. n \in 1 .. call[c].size /\ n =< SndBuf - outbox[c]
    BY <1>2, <2>1, MinOfTwo
  <2>3. answer = [n |-> n, errno |-> "none", data |-> <<>>]
    BY <1>6 DEF http!send, http!Success
  <2> HIDE DEF n, answer
  <2>4. answer.n = n /\ answer.data = <<>> /\ answer.errno = "none"
    BY <2>3
  <2>5. http!Returns(c, n, <<>>)
    BY <1>4, <2>4
  <2>6. /\ outbox' = [outbox EXCEPT ![c] = @ + n]
        /\ peer' = [peer EXCEPT ![c] = IF @ = "fin" THEN "broken" ELSE @]
        /\ UNCHANGED <<backlog, inbox, fd>>
    <3>1. answer.n > 0
      BY <1>2, <2>2, <2>4
    <3> QED
      BY <1>4, <2>4, <3>1 DEF http!Effect
  <2>7. outbox[c] + n =< SndBuf
    BY <1>2, <2>2
  <2> QED
    BY <1>1, <2>2, <2>5, <2>6, <2>7, SentStep
<1>7. CASE peer[c] # "reset" /\ outbox[c] = SndBuf
  <2>1. answer.errno = "EAGAIN" /\ answer.n = -1
    BY <1>7 DEF http!send, http!EAGAIN
  <2>2. call[c].step # "again"
    BY <1>1, <1>2, <1>7 DEF Sends
  <2>3. UNCHANGED <<backlog, peer, inbox, outbox, fd>>
    BY <1>4, <2>1 DEF http!Effect, http!kernel
  <2>4. call' = [call EXCEPT ![c].step = "poll"]
    BY <1>4, <2>1, <2>2
  <2> QED
    BY <1>1, <2>3, <2>4, WaitStep
<1> QED
  BY <1>5, <1>6, <1>7

\* The task goes on when its socket has what it waits for, or nobody behind it.
LEMMA PollStep ==
  ASSUME SocketsInv, NEW c \in Conns, http!poll_await(c), UNCHANGED <<task, buffer, left, client>>
  PROVE  SocketsInv'
<1>1. call[c].step = "poll" /\ UNCHANGED <<backlog, peer, inbox, outbox, fd>>
  BY DEF http!poll_await, http!kernel
<1>2. /\ SocketTypes /\ call[c].op \in {"recv", "send"} /\ peer[c] # "none"
      /\ outbox[c] \in 0 .. SndBuf
  BY <1>1, CallOf
<1>3. CASE peer[c] \in {"reset", "broken"}
  <2>1. http!Revents(c) = {"READ", "WRITE", "HANGUP", "ERROR"}
    <3>1. call[c].op # "accept" /\ peer[c] \in {"reset", "broken"}
      BY <1>2, <1>3
    <3> QED
      BY <3>1 DEF http!Revents
  <2>2. http!Returns(c, 0, <<>>)
    BY <2>1 DEF http!poll_await
  <2> QED
    BY <1>1, <1>3, <2>2, EndStep DEF Gone
<1>4. CASE peer[c] \notin {"reset", "broken"}
  <2>1. http!Revents(c) # {}
    BY DEF http!poll_await, http!poll_await_condition
  <2>2. CASE call[c].op = "recv"
    <3>1. http!Revents(c) = IF inbox[c] # <<>> \/ peer[c] = "fin" THEN {"READ"} ELSE {}
      BY <1>4, <2>2 DEF http!Revents
    <3>2. http!Revents(c) = {"READ"} /\ (inbox[c] # <<>> \/ peer[c] \in Gone)
      BY <2>1, <3>1 DEF Gone
    <3>3. call' = [call EXCEPT ![c].step = "again"]
      BY <2>2, <3>2 DEF http!poll_await, http!Awaited
    <3> QED
      BY <1>1, <2>2, <3>2, <3>3, WaitStep
  <2>3. CASE call[c].op = "send"
    <3>1. http!Revents(c) = IF outbox[c] < SndBuf THEN {"WRITE"} ELSE {}
      BY <1>4, <2>3 DEF http!Revents
    <3>2. http!Revents(c) = {"WRITE"} /\ outbox[c] < SndBuf
      BY <2>1, <3>1
    <3>3. call' = [call EXCEPT ![c].step = "again"]
      BY <2>3, <3>2 DEF http!poll_await, http!Awaited
    <3> QED
      BY <1>1, <2>3, <3>2, <3>3, WaitStep
  <2> QED
    BY <1>2, <2>2, <2>3
<1> QED
  BY <1>3, <1>4

\* Whatever the call of a connection does next keeps the invariant.
LEMMA ConnectionAwaits ==
  ASSUME SocketsInv, NEW c \in Conns, http!AwaitStep(c), UNCHANGED <<task, buffer, left, client>>
  PROVE  SocketsInv'
<1>1. CASE http!SIGPIPE(c)
  <2>1. UNCHANGED <<backlog, peer, inbox, outbox, fd, call>>
    BY <1>1 DEF http!SIGPIPE, http!kernel
  <2>2. SocketTypes /\ ConnectionCall(c) /\ Stream(c)
    BY DEF SocketsInv
  <2>3. SocketTypes'
    BY <2>1, <2>2 DEF SocketTypes
  <2>4. (ConnectionCall(c) /\ Stream(c))'
    BY <2>1, <2>2, SameConnection
  <2> QED
    BY <2>1, <2>3, <2>4, OneConnection
<1>2. CASE http!Try(c) \/ http!Again(c)
  <2>1. call[c].step # "done"
    BY <1>2 DEF http!Try, http!Again
  <2>2. call[c].op \in {"recv", "send"}
    BY <2>1, CallOf
  <2> QED
    BY <1>2, <2>2, RecvTries, SendTries
<1>3. CASE http!poll_await(c)
  BY <1>3, PollStep
<1> QED
  BY <1>1, <1>2, <1>3 DEF http!AwaitStep

\* While a connection has no descriptor, and each may have one, there is one free.
LEMMA FdIsFree ==
  ASSUME SocketTypes, EnoughDescriptors, NEW c \in Conns, fd[c] = 0
  PROVE  http!FreeFds # {}
<1> DEFINE used == [d \in Conns \ {c} |-> fd[d]]
<1> DEFINE values == {fd[d] : d \in Conns \ {c}}
<1> SUFFICES ASSUME http!FreeFds = {} PROVE FALSE
  OBVIOUS
<1>1. /\ IsFiniteSet(Conns) /\ Cardinality(Conns) =< NFds /\ NFds \in Nat
      /\ Cardinality(Conns) \in Nat
  BY FS_CardinalityType, HttpAssumption
     DEF EnoughDescriptors, http!HttpConstants, http!NetConstants
<1>2. 1 .. NFds \subseteq values
  <2>1. ASSUME NEW i \in 1 .. NFds PROVE i \in values
    <3>1. PICK d \in Conns : fd[d] = i
      BY DEF http!FreeFds
    <3>2. d # c
      BY <1>1, <3>1
    <3> QED
      BY <3>1, <3>2
  <2> QED
    BY <2>1
<1>3. IsFiniteSet(Conns \ {c}) /\ Cardinality(Conns \ {c}) = Cardinality(Conns) - 1
  BY <1>1, FS_RemoveElement
<1>4. used \in Surjection(Conns \ {c}, values)
  BY DEF Surjection
<1>5. IsFiniteSet(values) /\ Cardinality(values) =< Cardinality(Conns) - 1
  <2> HIDE DEF used, values
  <2> QED
    BY <1>3, <1>4, FS_Surjection
<1>6. Cardinality(1 .. NFds) = NFds
  <2>1. Cardinality(1 .. NFds) = IF 1 > NFds THEN 0 ELSE NFds - 1 + 1
    BY <1>1, FS_Interval
  <2> QED
    BY <1>1, <2>1
<1>7. Cardinality(1 .. NFds) =< Cardinality(values)
  <2> HIDE DEF values
  <2> QED
    BY <1>2, <1>5, FS_Subset
<1>8. Cardinality(values) \in Nat
  <2> HIDE DEF values
  <2> QED
    BY <1>5, FS_CardinalityType
<1> HIDE DEF values
<1> QED
  BY <1>1, <1>5, <1>6, <1>7, <1>8

\* The kernel gives out the smallest free descriptor.
LEMMA SmallestFd ==
  ASSUME http!FreeFds # {}
  PROVE  http!Min(http!FreeFds) \in http!FreeFds
<1> DEFINE R == OpToRel(<, Nat)
<1>1. http!FreeFds \subseteq Nat
  BY HttpAssumption DEF http!FreeFds, http!HttpConstants, http!NetConstants
<1>2. IsWellFoundedOn(R, Nat)
  BY NatLessThanWellFounded
<1>3. \A i, j \in Nat : i < j => <<i, j>> \in R
  BY DEF OpToRel
<1> HIDE DEF R
<1>4. PICK x \in http!FreeFds : \A y \in http!FreeFds : ~ (<<y, x>> \in R)
  BY <1>1, <1>2, WFMin
<1>5. \A y \in http!FreeFds : x =< y
  <2>1. SUFFICES ASSUME NEW y \in http!FreeFds PROVE x =< y
    OBVIOUS
  <2>2. x \in Nat /\ y \in Nat /\ ~ (y < x)
    BY <1>1, <1>3, <1>4
  <2> QED
    BY <2>2
<1> QED
  BY <1>5 DEF http!Min

\* A step of a listener that accepts nobody.
LEMMA AloneStep ==
  ASSUME SocketsInv, NEW l \in Listeners,
         UNCHANGED <<backlog, peer, inbox, outbox, fd, task, buffer, left, client>>,
         call' \in [http!Tasks -> Calls],
         \A u \in http!Tasks \ {l} : call'[u] = call[u],
         call'[l].data = <<>>, EnoughDescriptors => call'[l].n # -1, ListenerCall(l)'
  PROVE  SocketsInv'
<1>1. SocketTypes /\ \A c \in Conns : c \in http!Tasks \ {l}
  BY HttpAssumption DEF SocketsInv, http!Tasks, http!HttpConstants, http!NetConstants
<1>2. \A m \in Listeners \ {l} : call'[m] = call[m]
  BY DEF http!Tasks
<1>3. SocketTypes'
  BY <1>1 DEF SocketTypes
<1>4. BackloggedOnce'
  BY DEF SocketsInv, BackloggedOnce, Backlogged
<1>5. AcceptedOnce'
  <2>1. \A m \in Listeners, c \in Conns : Accepts(m, c)' => Accepts(m, c)
    BY <1>2 DEF Accepts
  <2> QED
    BY <2>1 DEF SocketsInv, AcceptedOnce
<1>6. ListenersGoOn' /\ Apart'
  BY <1>2 DEF SocketsInv, ListenersGoOn, EnoughDescriptors, Apart
<1>7. ASSUME NEW m \in Listeners PROVE ListenerCall(m)'
  <2>1. CASE m # l
    BY <1>2, <2>1 DEF SocketsInv, ListenerCall, Accepts
  <2> QED
    BY <2>1
<1>8. ASSUME NEW c \in Conns PROVE (ConnectionCall(c) /\ Stream(c))'
  BY <1>1, SameConnection DEF SocketsInv
<1> QED
  BY <1>3, <1>4, <1>5, <1>6, <1>7, <1>8 DEF SocketsInv

\* The connection that is accepted leaves the backlog and gets a descriptor of its own.
LEMMA AcceptStep ==
  ASSUME SocketsInv, NEW l \in Listeners, backlog[l] # <<>>, NEW f \in http!FreeFds,
         http!Returns(l, f, <<Head(backlog[l])>>),
         backlog' = [backlog EXCEPT ![l] = Tail(@)],
         fd' = [fd EXCEPT ![Head(backlog[l])] = f],
         UNCHANGED <<peer, inbox, outbox, task, buffer, left, client>>
  PROVE  SocketsInv'
<1> DEFINE c == Head(backlog[l])
<1>1. /\ SocketTypes /\ l \in http!Tasks /\ backlog[l] \in Seq(Conns)
      /\ \A d \in Conns : d \in http!Tasks \ {l}
      /\ f \in 1 .. NFds /\ NFds \in Nat /\ \A d \in Conns : fd[d] # f
  BY HttpAssumption
     DEF SocketsInv, SocketTypes, http!Tasks, http!FreeFds, http!HttpConstants,
         http!NetConstants
<1>2. /\ c \in Conns /\ Backlogged(l, 1, c)
      /\ Tail(backlog[l]) \in Seq(Conns) /\ Len(Tail(backlog[l])) = Len(backlog[l]) - 1
      /\ \A k \in 1 .. Len(Tail(backlog[l])) : Tail(backlog[l])[k] = backlog[l][k + 1]
  BY <1>1, HeadTailProperties DEF Backlogged
<1> HIDE DEF c
<1>3. /\ peer[c] # "none" /\ fd[c] = 0 /\ task[c] = "none"
      /\ \A m \in Listeners, k \in Nat : Backlogged(m, k, c) => m = l /\ k = 1
  BY <1>2 DEF SocketsInv, BackloggedOnce
<1>4. /\ call' \in [http!Tasks -> Calls]
      /\ call'[l].step = "done" /\ call'[l].n = f /\ call'[l].data = <<c>>
      /\ \A u \in http!Tasks \ {l} : call'[u] = call[u]
  <2>1. <<c>> \in Seq(Units \cup Conns) /\ f \in Int
    BY <1>1, <1>2
  <2>2. http!Returns(l, f, <<c>>)
    BY DEF c
  <2> QED
    BY <1>1, <2>1, <2>2, ReturnsTo
<1>5. /\ fd'[c] = f /\ fd' \in [Conns -> 0 .. NFds]
      /\ \A d \in Conns \ {c} : fd'[d] = fd[d]
  <2>1. fd' = [fd EXCEPT ![c] = f]
    BY DEF c
  <2> QED
    BY <1>1, <1>2, <2>1 DEF SocketTypes
<1>6. /\ backlog'[l] = Tail(backlog[l]) /\ backlog' \in [Listeners -> Seq(Conns)]
      /\ \A m \in Listeners \ {l} : backlog'[m] = backlog[m]
  BY <1>1, <1>2 DEF SocketTypes
<1>7. \A m \in Listeners, d \in Conns, k \in Nat :
        Backlogged(m, k, d)' =>
            IF m = l THEN Backlogged(l, k + 1, d) ELSE Backlogged(m, k, d)
  <2>1. SUFFICES ASSUME NEW m \in Listeners, NEW d \in Conns, NEW k \in Nat,
                        k \in DOMAIN backlog'[m], backlog'[m][k] = d
                 PROVE  IF m = l THEN Backlogged(l, k + 1, d) ELSE Backlogged(m, k, d)
    BY DEF Backlogged
  <2>2. CASE m = l
    <3>1. k \in 1 .. Len(Tail(backlog[l])) /\ Tail(backlog[l])[k] = d
      BY <1>2, <1>6, <2>1, <2>2
    <3>2. k + 1 \in DOMAIN backlog[l] /\ backlog[l][k + 1] = d
      BY <1>1, <1>2, <3>1
    <3> QED
      BY <2>2, <3>2 DEF Backlogged
  <2>3. CASE m # l
    BY <1>6, <2>1, <2>3 DEF Backlogged
  <2> QED
    BY <2>2, <2>3
<1>8. SocketTypes'
  BY <1>1, <1>4, <1>5, <1>6 DEF SocketTypes
<1>9. \A m \in Listeners, d \in Conns, k \in Nat : Backlogged(m, k, d)' =>
          d # c /\ \E j \in Nat : Backlogged(m, j, d) /\ (m = l => j = k + 1) /\ (m # l => j = k)
  <2>1. SUFFICES ASSUME NEW m \in Listeners, NEW d \in Conns, NEW k \in Nat,
                        Backlogged(m, k, d)'
                 PROVE  d # c /\ \E j \in Nat : Backlogged(m, j, d) /\ (m = l => j = k + 1)
                                              /\ (m # l => j = k)
    OBVIOUS
  <2>2. CASE m = l
    <3>1. Backlogged(l, k + 1, d) /\ k + 1 \in Nat /\ k \in DOMAIN backlog'[l]
      BY <1>7, <2>1, <2>2 DEF Backlogged
    <3>2. k # 0
      BY <1>2, <1>6, <3>1
    <3>3. d # c
      BY <1>3, <3>1, <3>2
    <3> QED
      BY <2>2, <3>1, <3>3
  <2>3. CASE m # l
    BY <1>3, <1>7, <2>1, <2>3
  <2> QED
    BY <2>2, <2>3
<1>10. BackloggedOnce'
  <2>1. ASSUME NEW d \in Conns, NEW m \in Listeners, NEW n \in Listeners, NEW j \in Nat,
               NEW k \in Nat, Backlogged(m, j, d)', Backlogged(n, k, d)'
        PROVE  m = n /\ j = k
    <3>1. PICK i \in Nat : Backlogged(m, i, d) /\ (m = l => i = j + 1) /\ (m # l => i = j)
      BY <1>9, <2>1
    <3>2. PICK h \in Nat : Backlogged(n, h, d) /\ (n = l => h = k + 1) /\ (n # l => h = k)
      BY <1>9, <2>1
    <3>3. m = n /\ i = h
      BY <3>1, <3>2 DEF SocketsInv, BackloggedOnce
    <3> QED
      BY <3>1, <3>2, <3>3
  <2>2. ASSUME NEW d \in Conns, NEW m \in Listeners, NEW k \in Nat, Backlogged(m, k, d)'
        PROVE  peer'[d] # "none" /\ fd'[d] = 0 /\ task'[d] = "none"
    <3>1. PICK i \in Nat : d # c /\ Backlogged(m, i, d)
      BY <1>9, <2>2
    <3> QED
      BY <1>5, <3>1 DEF SocketsInv, BackloggedOnce
  <2> QED
    BY <2>1, <2>2 DEF BackloggedOnce
<1>11. AcceptedOnce'
  <2>1. ASSUME NEW m \in Listeners, NEW d \in Conns, Accepts(m, d)'
        PROVE  (m = l /\ d = c) \/ (m # l /\ d # c /\ Accepts(m, d))
    <3>1. CASE m = l
      <4>1. <<c>> = <<d>>
        BY <1>4, <2>1, <3>1 DEF Accepts
      <4> QED
        BY <3>1, <4>1
    <3>2. CASE m # l
      <4>1. call'[m] = call[m]
        BY <1>4, <3>2 DEF http!Tasks
      <4>2. Accepts(m, d)
        BY <2>1, <4>1 DEF Accepts
      <4> QED
        BY <1>3, <3>2, <4>2 DEF SocketsInv, AcceptedOnce
    <3> QED
      BY <3>1, <3>2
  <2>2. f # 0
    BY <1>1
  <2> QED
    BY <1>3, <1>5, <2>1, <2>2 DEF SocketsInv, AcceptedOnce
<1>12. ListenersGoOn'
  <2>1. \A m \in Listeners : m # l => call'[m] = call[m]
    BY <1>4 DEF http!Tasks
  <2>2. call'[l].n # -1
    BY <1>1, <1>4
  <2> QED
    BY <2>1, <2>2 DEF SocketsInv, ListenersGoOn, EnoughDescriptors
<1>13. Apart'
  BY <1>1, <1>5 DEF SocketsInv, Apart
<1>14. ASSUME NEW m \in Listeners PROVE ListenerCall(m)'
  <2>1. CASE m = l
    BY <1>2, <1>4, <2>1 DEF ListenerCall, Accepts
  <2>2. CASE m # l
    <3>1. call'[m] = call[m] /\ backlog'[m] = backlog[m]
      BY <1>4, <1>6, <2>2 DEF http!Tasks
    <3> QED
      BY <3>1 DEF SocketsInv, ListenerCall, Accepts
  <2> QED
    BY <2>1, <2>2
<1>15. ASSUME NEW d \in Conns PROVE (ConnectionCall(d) /\ Stream(d))'
  <2>1. call'[d] = call[d]
    BY <1>1, <1>4
  <2>2. CASE d # c
    BY <1>5, <2>1, <2>2, SameConnection DEF SocketsInv
  <2>3. CASE d = c
    <3>1. ConnectionCall(d) /\ Stream(d)
      BY DEF SocketsInv
    <3>2. ConnectionCall(d)'
      BY <1>3, <1>5, <2>1, <2>3, <3>1 DEF ConnectionCall, Receives, Sends
    <3>3. InBuffer(d)' = InBuffer(d) /\ InCall(d)' = InCall(d) /\ InSocket(d)' = InSocket(d)
      BY <1>5, <2>1 DEF InBuffer, InCall, InSocket
    <3>4. Parts(d)' = Parts(d) /\ ToSend(d)' = ToSend(d)
      BY <1>5, <2>1, <3>3 DEF Parts, ToSend
    <3>5. InOrder(d) => InOrder(d)'
      BY <1>5, <2>1, <3>3 DEF InOrder, UnitAt
    <3>6. Stream(d)'
      BY <1>5, <3>1, <3>4, <3>5 DEF Stream, Asking, Asked, Answered, Refused
    <3> QED
      BY <3>2, <3>6
  <2> QED
    BY <2>2, <2>3
<1> QED
  BY <1>8, <1>10, <1>11, <1>12, <1>13, <1>14, <1>15 DEF SocketsInv

\* Whatever the accept of a listener does next keeps the invariant.
LEMMA ListenerAwaits ==
  ASSUME SocketsInv, NEW l \in Listeners, http!AwaitStep(l), UNCHANGED <<task, buffer, left, client>>
  PROVE  SocketsInv'
<1>1. /\ SocketTypes /\ l \in http!Tasks /\ l \notin Conns /\ ListenerCall(l)
      /\ backlog[l] \in Seq(Conns)
  BY HttpAssumption
     DEF SocketsInv, SocketTypes, http!Tasks, http!HttpConstants, http!NetConstants
<1>2. ~http!SIGPIPE(l)
  BY <1>1 DEF http!SIGPIPE, http!Raises
<1>3. CASE http!Try(l) \/ http!Again(l)
  <2> DEFINE answer == http!accept4(l)
  <2>1. call[l].step \in {"try", "again"}
    BY <1>3 DEF http!Try, http!Again
  <2>2. call[l].op = "accept" /\ call[l].data = <<>> /\ call[l].n = 0
    BY <1>1, <2>1 DEF ListenerCall
  <2>3. http!Answer(l) = answer
    BY <2>2 DEF http!Answer
  <2>4. /\ \/ answer.errno = "EAGAIN" /\ call[l].step = "try"
                /\ call' = [call EXCEPT ![l].step = "poll"]
           \/ /\ call[l].step = "again" \/ answer.errno # "EAGAIN"
              /\ http!Returns(l, answer.n, answer.data)
        /\ http!Effect(l, answer)
    BY <1>3, <2>3 DEF http!Try, http!Again
  <2>5. CASE backlog[l] = <<>>
    <3>1. answer.errno = "EAGAIN" /\ answer.n = -1
      BY <2>5 DEF http!accept4, http!EAGAIN
    <3>2. call[l].step # "again"
      BY <1>1, <2>5 DEF ListenerCall
    <3>3. call' = [call EXCEPT ![l].step = "poll"] /\ UNCHANGED <<backlog, peer, inbox, outbox, fd>>
      BY <2>4, <3>1, <3>2 DEF http!Effect, http!kernel
    <3>4. /\ call' \in [http!Tasks -> Calls]
          /\ call'[l].step = "poll" /\ call'[l].n = 0 /\ call'[l].data = <<>>
          /\ call'[l].op = "accept" /\ \A u \in http!Tasks \ {l} : call'[u] = call[u]
      BY <1>1, <2>2, <3>3, GoesOnTo
    <3>5. ListenerCall(l)'
      BY <3>4 DEF ListenerCall
    <3> QED
      BY <3>3, <3>4, <3>5, AloneStep
  <2>6. CASE backlog[l] # <<>> /\ http!FreeFds = {}
    <3>1. answer.errno = "other" /\ answer.n = -1 /\ answer.data = <<>>
      BY <2>6 DEF http!accept4, http!Failure
    <3>2. http!Returns(l, -1, <<>>) /\ UNCHANGED <<backlog, peer, inbox, outbox, fd>>
      BY <2>4, <3>1 DEF http!Effect, http!kernel
    <3>3. /\ call' \in [http!Tasks -> Calls]
          /\ call'[l].step = "done" /\ call'[l].n = -1 /\ call'[l].data = <<>>
          /\ \A u \in http!Tasks \ {l} : call'[u] = call[u]
      <4>1. <<>> \in Seq(Units \cup Conns) /\ -1 \in Int
        OBVIOUS
      <4> QED
        BY <1>1, <3>2, <4>1, ReturnsTo
    <3>4. ListenerCall(l)'
      BY <3>3 DEF ListenerCall
    <3>5. ~EnoughDescriptors
      <4>1. Backlogged(l, 1, backlog[l][1]) /\ backlog[l][1] \in Conns
        BY <1>1, <2>6 DEF Backlogged
      <4>2. fd[backlog[l][1]] = 0
        BY <4>1 DEF SocketsInv, BackloggedOnce
      <4> QED
        BY <1>1, <2>6, <4>1, <4>2, FdIsFree
    <3> QED
      BY <3>2, <3>3, <3>4, <3>5, AloneStep
  <2>7. CASE backlog[l] # <<>> /\ http!FreeFds # {}
    <3> DEFINE f == http!Min(http!FreeFds)
    <3>1. f \in http!FreeFds /\ f > 0
      BY <2>7, SmallestFd DEF http!FreeFds
    <3>2. answer = [n |-> f, errno |-> "none", data |-> <<Head(backlog[l])>>]
      BY <2>7 DEF http!accept4, http!Success
    <3> HIDE DEF f, answer
    <3>3. answer.n = f /\ answer.data = <<Head(backlog[l])>> /\ answer.errno = "none"
      BY <3>2
    <3>4. http!Returns(l, f, <<Head(backlog[l])>>)
      BY <2>4, <3>3
    <3>5. /\ backlog' = [backlog EXCEPT ![l] = Tail(@)]
          /\ fd' = [fd EXCEPT ![Head(backlog[l])] = f]
          /\ UNCHANGED <<peer, inbox, outbox>>
      <4>1. answer.n > 0 /\ answer.data[1] = Head(backlog[l])
        BY <3>1, <3>3
      <4> QED
        BY <2>2, <2>4, <3>3, <4>1 DEF http!Effect
    <3> QED
      BY <2>7, <3>1, <3>4, <3>5, AcceptStep
  <2> QED
    BY <2>5, <2>6, <2>7
<1>4. CASE http!poll_await(l)
  <2>1. call[l].step = "poll" /\ UNCHANGED <<backlog, peer, inbox, outbox, fd>>
    BY <1>4 DEF http!poll_await, http!kernel
  <2>2. call[l].op = "accept" /\ call[l].data = <<>> /\ call[l].n = 0
    BY <1>1, <2>1 DEF ListenerCall
  <2>3. http!Revents(l) = (IF backlog[l] # <<>> THEN {"READ"} ELSE {}) /\ http!Revents(l) # {}
    BY <1>4, <2>2 DEF http!Revents, http!poll_await, http!poll_await_condition
  <2>4. call' = [call EXCEPT ![l].step = "again"] /\ backlog[l] # <<>>
    BY <1>4, <2>2, <2>3 DEF http!poll_await, http!Awaited
  <2>5. /\ call' \in [http!Tasks -> Calls]
        /\ call'[l].step = "again" /\ call'[l].n = 0 /\ call'[l].data = <<>>
        /\ call'[l].op = "accept" /\ \A u \in http!Tasks \ {l} : call'[u] = call[u]
    BY <1>1, <2>2, <2>4, GoesOnTo
  <2>6. ListenerCall(l)'
    BY <2>1, <2>4, <2>5 DEF ListenerCall
  <2> QED
    BY <2>1, <2>5, <2>6, AloneStep
<1> QED
  BY <1>2, <1>3, <1>4 DEF http!AwaitStep

-----------------------------------------------------------------------------
\* Every step of the server, and of the programs beside it, keeps the invariant.
LEMMA SocketsKept == SocketsInv /\ (http!Next \/ UNCHANGED http_vars) => SocketsInv'
<1> SUFFICES ASSUME SocketsInv, http!Next \/ UNCHANGED http_vars PROVE SocketsInv'
  OBVIOUS
<1>2. CASE UNCHANGED http_vars
  <2>1. UNCHANGED <<backlog, peer, inbox, outbox, fd, call, task, buffer, left, client>>
    BY <1>2 DEF http_vars
  <2>2. SocketTypes' /\ BackloggedOnce' /\ AcceptedOnce' /\ ListenersGoOn' /\ Apart'
    <3>1. SocketTypes'
      BY <2>1 DEF SocketsInv, SocketTypes
    <3>2. BackloggedOnce'
      BY <2>1 DEF SocketsInv, BackloggedOnce, Backlogged
    <3>3. AcceptedOnce'
      BY <2>1 DEF SocketsInv, AcceptedOnce, Accepts
    <3>4. ListenersGoOn' /\ Apart'
      BY <2>1 DEF SocketsInv, ListenersGoOn, EnoughDescriptors, Apart
    <3> QED
      BY <3>1, <3>2, <3>3, <3>4
  <2>3. \A l \in Listeners : ListenerCall(l)'
    BY <2>1 DEF SocketsInv, ListenerCall, Accepts
  <2>4. ASSUME NEW c \in Conns PROVE (ConnectionCall(c) /\ Stream(c))'
    BY <2>1, SameConnection DEF SocketsInv
  <2> QED
    BY <2>2, <2>3, <2>4 DEF SocketsInv
<1>3. CASE http!Next
  <2>1. CASE \E t \in http!Tasks : http!Server(t)
    <3>1. PICK t \in http!Tasks : http!Server(t)
      BY <2>1
    <3>2. CASE t \in Listeners /\ http!listener_fun(t)
      BY <3>2, ListenerStep
    <3>3. CASE t \in Conns /\ (http!RecvReturned(t) \/ http!await_send_all(t))
      BY <3>3, RecvStep, SendStep
    <3>4. CASE http!AwaitStep(t) /\ UNCHANGED <<task, buffer, left, client>>
      BY <3>4, ListenerAwaits, ConnectionAwaits DEF http!Tasks
    <3> QED
      BY <3>1, <3>2, <3>3, <3>4 DEF http!Server, http!server
  <2>2. CASE \E c \in Conns : http!Client(c) \/ http!ReadOn(c)
    BY <2>2, ConnectStep, AskStep, LeaveStep, ReadStep DEF http!Client, http!ReadOn
  <2>3. CASE UNCHANGED http!vars
    <3>1. UNCHANGED http_vars
      BY <2>3 DEF http!vars, http!kernel, http!server, http_vars
    <3> QED
      BY <1>2, <3>1
  <2> QED
    BY <1>3, <2>1, <2>2, <2>3 DEF http!Next
<1> QED
  BY <1>2, <1>3

-----------------------------------------------------------------------------
(* Interleaved lookups *)

Lookup == looking!Lookup
Searches == [at : {"none", "new", "yielded", "found", "not_found"}, first : Nat, len : Nat]
Active == looking!At({"new", "yielded"})

LookupTypes ==
    /\ sorted \in Seq(Int) /\ looking!Sorted(sorted)
    /\ keys \in Seq(Int) /\ streams \in Int
    /\ s_pc \in {"next", "fill", "serve", "finish", "end", "crashed"}
    /\ next_arg \in 0 .. Len(keys) /\ limit \in Int
    /\ found_count \in Nat /\ not_found_count \in Nat
    /\ s_queue \in Seq(Lookup)
    /\ search \in [Lookup -> Searches]

\* What is in the queue has begun and not answered, and is there once.
QueuedOnce ==
    /\ \A m, n \in DOMAIN s_queue : s_queue[m] = s_queue[n] => m = n
    /\ \A n \in DOMAIN s_queue : s_queue[n] \in Active

\* The searches that have begun are the first next_arg, from the array's start.
Begun == \A i \in Lookup :
    /\ search[i].at = "none" <=> i > next_arg
    /\ search[i].at \in {"none", "new"} => search[i].first = 0

\* What a search has left behind, on both sides of its half, is not its key.
Outside(s, key) ==
    /\ \A n \in 1 .. s.first : sorted[n] # key
    /\ \A n \in s.first + s.len + 1 .. Len(sorted) : sorted[n] # key
Halves == \A i \in Lookup : search[i].at = "yielded" =>
    /\ search[i].len > 0 /\ search[i].first + search[i].len =< Len(sorted)
    /\ Outside(search[i], keys[i])

\* Each stream in use is a search that has begun and not answered, also when the
\* queue has dropped it; and each answer was counted.
StreamsInUse == limit + Cardinality(Active) = streams
Counted ==
    /\ found_count = Cardinality(looking!At({"found"}))
    /\ not_found_count = Cardinality(looking!At({"not_found"}))

\* When all keys have been given out only the streams in use are left.
LoopsEnd ==
    /\ s_pc \in {"finish", "end"} => next_arg = Len(keys)
    /\ s_pc = "end" => limit >= streams

\* An answer that was given is right for its key.
Answers == \A i \in Lookup :
    /\ search[i].at = "found" => \E n \in DOMAIN sorted : sorted[n] = keys[i]
    /\ search[i].at = "not_found" => \A n \in DOMAIN sorted : sorted[n] # keys[i]

\* With as many streams as the queue can hold it drops nobody, and the loop that
\* serves finds somebody.
NoneDropped ==
    streams \in 1 .. capacity =>
        /\ \A i \in Active : \E n \in DOMAIN s_queue : s_queue[n] = i
        /\ Len(s_queue) = streams - limit
QueueServes ==
    streams \in 1 .. capacity =>
        /\ limit \in 0 .. streams /\ s_pc # "crashed"
        /\ s_pc = "fill" => next_arg < Len(keys) \/ limit < streams
        /\ s_pc = "serve" => limit < streams

LookupsInv ==
    /\ LookupTypes /\ QueuedOnce /\ Begun /\ Halves /\ StreamsInUse /\ Counted
    /\ LoopsEnd /\ Answers /\ NoneDropped /\ QueueServes

\* Who is where, in terms of one search that moves.
LEMMA MovesAt ==
  ASSUME LookupTypes, NEW i \in Lookup, NEW W, keys' = keys,
         search' \in [Lookup -> Searches],
         \A j \in Lookup \ {i} : search'[j].at = search[j].at
  PROVE  /\ IsFiniteSet(looking!At(W)) /\ Cardinality(looking!At(W)) \in Nat
         /\ Cardinality(looking!At(W)') \in Nat
         /\ Cardinality(looking!At(W)') =
                Cardinality(looking!At(W)) + (IF search'[i].at \in W THEN 1 ELSE 0)
                                           - (IF search[i].at \in W THEN 1 ELSE 0)
<1>1. IsFiniteSet(Lookup)
  BY FS_Interval DEF LookupTypes, Lookup, looking!Lookup
<1>2. IsFiniteSet(looking!At(W))
  BY <1>1, FS_Subset DEF looking!At, Lookup
<1>3. Lookup' = Lookup
  BY DEF Lookup, looking!Lookup
<1>4. looking!At(W) \ {i} = looking!At(W)' \ {i}
  BY <1>3 DEF looking!At, Lookup
<1>5. (i \in looking!At(W) <=> search[i].at \in W) /\ (i \in looking!At(W)' <=> search'[i].at \in W)
  BY <1>3 DEF looking!At, Lookup
<1> QED
  BY <1>2, <1>4, <1>5, OneMoves

\* One resume of a search keeps its half of the array, and answers rightly.
LEMMA SearchRight ==
  ASSUME LookupTypes, NEW key \in Int, NEW s \in Searches, s.at \in {"new", "yielded"},
         s.at = "new" => s.first = 0,
         s.at = "yielded" =>
            s.len > 0 /\ s.first + s.len =< Len(sorted) /\ Outside(s, key),
         NEW r, r = looking!SeffBinarySearch(s, key)
  PROVE  /\ r \in Searches /\ r.at \in {"yielded", "found", "not_found"}
         /\ r.at = "yielded" =>
                r.len > 0 /\ r.first + r.len =< Len(sorted) /\ Outside(r, key)
         /\ r.at = "found" => \E n \in DOMAIN sorted : sorted[n] = key
         /\ r.at = "not_found" => \A n \in DOMAIN sorted : sorted[n] # key
<1> DEFINE L == Len(sorted)
<1>0. /\ L \in Nat /\ DOMAIN sorted = 1 .. L /\ \A n \in 1 .. L : sorted[n] \in Int
      /\ s.first \in Nat /\ s.len \in Nat
      /\ s = [at |-> s.at, first |-> s.first, len |-> s.len]
  BY DEF LookupTypes, Searches
<1>1. CASE s.at = "new"
  <2>1. r = [at |-> IF L > 0 THEN "yielded" ELSE "not_found", first |-> 0, len |-> L]
    BY <1>0, <1>1 DEF looking!SeffBinarySearch, looking!GoesOn
  <2>2. r.at = (IF L > 0 THEN "yielded" ELSE "not_found") /\ r.first = 0 /\ r.len = L
    BY <2>1
  <2>3. r \in Searches
    BY <1>0, <2>1 DEF Searches
  <2> HIDE DEF L
  <2> QED
    BY <1>0, <2>2, <2>3 DEF Outside, L
<1>2. CASE s.at = "yielded"
  <2> DEFINE half == s.len \div 2
             mid == s.first + half + 1
             x == sorted[mid]
  <2>1. half \in Nat /\ half < s.len
    BY <1>0, <1>2
  <2>2. /\ mid \in 1 .. L /\ mid > s.first /\ mid =< s.first + s.len
        /\ mid = s.first + half + 1
    <3> HIDE DEF half
    <3> QED
      BY <1>0, <1>2, <2>1
  <2>3. x \in Int /\ sorted[mid] = x /\ looking!Element(looking!Middle(s)) = x
    BY <1>0, <2>2 DEF looking!Element, looking!Middle
  <2> DEFINE first == IF x < key THEN s.first + half + 1 ELSE s.first
             len == IF x < key THEN s.len - half - 1 ELSE half
  <2>4. looking!Narrowed(s, x, key) = [at |-> "yielded", first |-> first, len |-> len]
    BY <1>0, <1>2 DEF looking!Narrowed
  <2>5. r = [at |-> IF x = key THEN "found" ELSE IF len > 0 THEN "yielded" ELSE "not_found",
             first |-> first, len |-> len]
    BY <1>2, <2>3, <2>4 DEF looking!SeffBinarySearch, looking!GoesOn
  <2> HIDE DEF half, mid, x, L
  <2>6. /\ x < key => first = mid /\ len = s.first + s.len - mid
        /\ ~(x < key) => first = s.first /\ len = mid - s.first - 1
    BY <1>0, <2>1, <2>2
  <2> HIDE DEF first, len
  <2>7. first \in Nat /\ len \in Nat /\ first + len =< L
    <3>1. s.first + s.len =< L
      BY <1>2 DEF L
    <3> QED
      BY <1>0, <2>2, <2>6, <3>1
  <2>8. r.first = first /\ r.len = len /\ r \in Searches
        /\ r.at = IF x = key THEN "found" ELSE IF len > 0 THEN "yielded" ELSE "not_found"
    BY <2>5, <2>7 DEF Searches
  <2>9. \A m, n \in 1 .. L : m < n => sorted[m] =< sorted[n]
    BY <1>0 DEF looking!Sorted, LookupTypes
  <2>10. ASSUME x # key, NEW n \in 1 .. L, n =< first \/ n > first + len
         PROVE  sorted[n] # key
    <3>1. CASE n =< s.first \/ n > s.first + s.len
      BY <1>0, <1>2, <3>1 DEF Outside, L
    <3>2. CASE n > s.first /\ n =< s.first + s.len /\ x < key
      <4>1. n =< mid
        BY <1>0, <2>2, <2>6, <2>10, <3>2
      <4>2. sorted[n] =< x
        BY <1>0, <2>2, <2>3, <2>9, <4>1
      <4> QED
        BY <1>0, <2>3, <3>2, <4>2
    <3>3. CASE n > s.first /\ n =< s.first + s.len /\ ~(x < key)
      <4>1. n >= mid
        BY <1>0, <2>2, <2>6, <2>10, <3>3
      <4>2. x =< sorted[n]
        BY <1>0, <2>2, <2>3, <2>9, <4>1
      <4> QED
        BY <1>0, <2>3, <2>10, <3>3, <4>2
    <3> QED
      BY <1>0, <3>1, <3>2, <3>3
  <2>11. CASE x = key
    BY <1>0, <2>2, <2>3, <2>8, <2>11
  <2>12. CASE x # key
    <3>1. Outside(r, key)
      <4>1. \A n \in 1 .. first : n \in 1 .. L
        BY <1>0, <2>7
      <4>2. \A n \in first + len + 1 .. L : n \in 1 .. L /\ n > first + len
        BY <1>0, <2>7
      <4>3. \A n \in 1 .. first : sorted[n] # key
        BY <2>10, <2>12, <4>1
      <4>4. \A n \in first + len + 1 .. L : sorted[n] # key
        BY <2>10, <2>12, <4>2
      <4> QED
        BY <2>8, <4>3, <4>4 DEF Outside, L
    <3>2. len = 0 => \A n \in 1 .. L : n =< first \/ n > first + len
      BY <1>0, <2>7
    <3>3. len = 0 => \A n \in 1 .. L : sorted[n] # key
      BY <2>10, <2>12, <3>2
    <3> QED
      BY <1>0, <2>7, <2>8, <2>12, <3>1, <3>3 DEF L
  <2> QED
    BY <2>11, <2>12
<1> QED
  BY <1>1, <1>2

\* Lookups has its own instance of Cardinality.
LEMMA SameCardinality == \A S : looking!Cardinality(S) = Cardinality(S)
  BY DEF looking!Cardinality, Cardinality

\* When the program ends each key has one answer or the other.
LEMMA RightThen == LookupsInv => looking!NoneLost /\ looking!AnswersAreRight
<1> SUFFICES ASSUME LookupsInv PROVE looking!NoneLost /\ looking!AnswersAreRight
  OBVIOUS
<1>1. IsFiniteSet(Lookup) /\ Cardinality(Lookup) = Len(keys)
  <2>1. Len(keys) \in Nat
    BY DEF LookupsInv, LookupTypes
  <2> QED
    BY <2>1, FS_Interval DEF Lookup, looking!Lookup
<1>2. looking!NoneLost
  BY DEF LookupsInv, NoneDropped, QueueServes, Active, looking!NoneLost
<1>3. ASSUME s_pc = "end" PROVE found_count + not_found_count = Len(keys)
  <2> DEFINE F == looking!At({"found"})
             N == looking!At({"not_found"})
  <2>1. IsFiniteSet(Active) /\ Cardinality(Active) \in Nat
    BY <1>1, FS_Subset, FS_CardinalityType DEF Active, looking!At, Lookup
  <2>2. Active = {}
    <3>1. Cardinality(Active) = 0
      BY <1>3, <2>1 DEF LookupsInv, LoopsEnd, StreamsInUse, LookupTypes
    <3> QED
      BY <2>1, <3>1, FS_EmptySet
  <2>3. \A i \in Lookup : search[i].at # "none"
    BY <1>3 DEF LookupsInv, LoopsEnd, Begun, Lookup, looking!Lookup
  <2>4. Lookup = F \cup N /\ F \cap N = {}
    BY <2>2, <2>3 DEF LookupsInv, LookupTypes, Searches, Active, looking!At, Lookup
  <2>5. IsFiniteSet(F) /\ IsFiniteSet(N)
    BY <1>1, <2>4, FS_Subset
  <2> HIDE DEF F, N
  <2>6. /\ Cardinality(F \cup N) = Cardinality(F) + Cardinality(N) - Cardinality(F \cap N)
        /\ Cardinality(F) \in Nat /\ Cardinality(N) \in Nat /\ Cardinality(F \cap N) = 0
    BY <2>4, <2>5, FS_Union, FS_CardinalityType, FS_EmptySet
  <2> QED
    BY <1>1, <2>4, <2>6 DEF LookupsInv, Counted, F, N
<1>4. looking!AnswersAreRight
  <2>1. /\ \A i \in looking!At({"found"}) : \E n \in DOMAIN sorted : sorted[n] = keys[i]
        /\ \A i \in looking!At({"not_found"}) : \A n \in DOMAIN sorted : sorted[n] # keys[i]
    BY DEF LookupsInv, Answers, looking!At, Lookup
  <2> QED
    BY <1>3, <2>1, SameCardinality DEF LookupsInv, Counted, looking!AnswersAreRight
<1> QED
  BY <1>2, <1>4

\* At first no search has begun.
LEMMA LookupsInit == looking!Init => LookupsInv
<1> SUFFICES ASSUME looking!Init PROVE LookupsInv
  OBVIOUS
<1>1. /\ sorted \in Arrays /\ streams \in StreamCounts
      /\ keys \in UNION {[1 .. n -> Keys] : n \in 0 .. MaxLookups}
      /\ s_pc = "next" /\ next_arg = 0 /\ limit = streams
      /\ found_count = 0 /\ not_found_count = 0 /\ s_queue = <<>>
      /\ search = [i \in Lookup |-> [at |-> "none", first |-> 0, len |-> 0]]
  BY DEF looking!Init, Lookup
<1>2. sorted \in Seq(Int) /\ looking!Sorted(sorted) /\ streams \in Int /\ Keys \subseteq Int
  BY <1>1, LookupsAssumption DEF looking!LookupsConstants
<1>3. keys \in Seq(Int) /\ Len(keys) \in Nat
  <2>1. PICK n \in 0 .. MaxLookups : keys \in [1 .. n -> Keys]
    BY <1>1
  <2>2. n \in Nat
    BY LookupsAssumption DEF looking!LookupsConstants
  <2>3. keys \in Seq(Int)
    <3>1. keys \in [1 .. n -> Int]
      BY <1>2, <2>1
    <3> QED
      BY <2>2, <3>1, SeqDef
  <2> QED
    BY <2>3
<1>4. LookupTypes /\ \A i \in Lookup : search[i].at = "none" /\ search[i].first = 0
  BY <1>1, <1>2, <1>3 DEF LookupTypes, Searches
<1>5. \A W : "none" \notin W => looking!At(W) = {}
  BY <1>4 DEF looking!At, Lookup
<1>6. Cardinality({}) = 0
  BY FS_EmptySet
<1>7. StreamsInUse /\ Counted /\ Active = {}
  <2>1. Active = {} /\ looking!At({"found"}) = {} /\ looking!At({"not_found"}) = {}
    BY <1>5 DEF Active
  <2> QED
    <3>1. Counted
      BY <1>1, <1>6, <2>1 DEF Counted
    <3>2. StreamsInUse
      BY <1>1, <1>2, <1>6, <2>1 DEF StreamsInUse
    <3> QED
      BY <2>1, <3>1, <3>2
<1>8. QueuedOnce /\ Begun /\ Halves /\ Answers
  BY <1>1, <1>3, <1>4 DEF QueuedOnce, Begun, Halves, Answers, Lookup, looking!Lookup
<1>9. LoopsEnd /\ NoneDropped /\ QueueServes
  BY <1>1, <1>2, <1>7 DEF LoopsEnd, NoneDropped, QueueServes
<1> QED
  BY <1>4, <1>7, <1>8, <1>9 DEF LookupsInv

\* Steps that only move the loops.
LEMMA LoopMoves ==
  ASSUME LookupsInv, s_pc' \in {"next", "fill", "serve", "finish", "end", "crashed"},
         UNCHANGED <<sorted, keys, streams, next_arg, limit, found_count, not_found_count,
                     s_queue, search>>
  PROVE  LookupTypes' /\ QueuedOnce' /\ Begun' /\ Halves' /\ StreamsInUse' /\ Counted'
         /\ Answers' /\ NoneDropped'
<1>1. Lookup' = Lookup /\ \A W : looking!At(W)' = looking!At(W)
  BY DEF Lookup, looking!Lookup, looking!At
<1>2. Active' = Active
  BY <1>1 DEF Active
<1>3. \A s, key : Outside(s, key)' <=> Outside(s, key)
  BY DEF Outside
<1>4. LookupTypes' /\ QueuedOnce' /\ Begun'
  BY <1>1, <1>2 DEF LookupsInv, LookupTypes, QueuedOnce, Begun, looking!Sorted
<1>5. Halves'
  BY <1>1, <1>3 DEF LookupsInv, Halves, Outside
<1>6. StreamsInUse' /\ Counted' /\ Answers' /\ NoneDropped'
  BY <1>1, <1>2 DEF LookupsInv, StreamsInUse, Counted, Answers, NoneDropped, looking!At, looking!Lookup, Active
<1> QED
  BY <1>4, <1>5, <1>6

\* Every step of the main loop but those that resume a search.
LEMMA LoopStep ==
  ASSUME LookupsInv,
         looking!NextArgs \/ looking!Filled \/ looking!NullResumed \/ looking!Finished
  PROVE  LookupsInv'
<1>1. /\ s_pc' \in {"next", "fill", "serve", "finish", "end", "crashed"}
      /\ UNCHANGED <<sorted, keys, streams, next_arg, limit, found_count, not_found_count,
                     s_queue, search>>
  BY DEF looking!NextArgs, looking!Filled, looking!NullResumed, looking!Finished,
         looking!arguments, looking!counts
<1>2. LoopsEnd'
  BY <1>1 DEF LookupsInv, LookupTypes, LoopsEnd,
     looking!NextArgs, looking!Filled, looking!NullResumed, looking!Finished
<1>3. ASSUME streams \in 1 .. capacity PROVE s_queue = <<>> <=> limit = streams
  BY <1>3 DEF LookupsInv, LookupTypes, NoneDropped
<1>4. QueueServes'
  BY <1>1, <1>3 DEF LookupsInv, LookupTypes, QueueServes, looking!Serving,
     looking!NextArgs, looking!Filled, looking!NullResumed, looking!Finished
<1> QED
  BY <1>1, <1>2, <1>4, LoopMoves DEF LookupsInv

\* What has begun is counted by the streams, and in the queue if it can be.
LEMMA NewStep == ASSUME LookupsInv, looking!NewCoroutine PROVE LookupsInv'
<1> DEFINE i == next_arg + 1
<1>1. /\ s_pc = "fill" /\ next_arg < Len(keys) /\ limit > 0 /\ limit' = limit - 1
      /\ next_arg' = next_arg + 1
      /\ s_queue' = IF Len(s_queue) = capacity THEN s_queue ELSE Append(s_queue, i)
      /\ search' = [search EXCEPT ![i].at = "new"]
      /\ UNCHANGED <<sorted, keys, streams, s_pc, found_count, not_found_count>>
  BY DEF looking!NewCoroutine, looking!coro_queue_enqueue, looking!arguments, looking!counts
<1>2. /\ next_arg \in Nat /\ Len(keys) \in Nat /\ i \in Lookup /\ Lookup' = Lookup
      /\ i \in Nat /\ Lookup = 1 .. Len(keys)
  BY <1>1 DEF LookupsInv, LookupTypes, Lookup, looking!Lookup
<1>3. search[i].at = "none" /\ search[i].first = 0 /\ search[i] \in Searches
  <2>1. i > next_arg
    BY <1>2
  <2>2. search[i].at = "none"
    BY <1>2, <2>1 DEF LookupsInv, Begun
  <2>3. search[i] \in Searches
    BY <1>2 DEF LookupsInv, LookupTypes
  <2> QED
    BY <1>2, <2>2, <2>3 DEF LookupsInv, Begun
<1>4. /\ search'[i].at = "new" /\ search'[i].first = 0 /\ search' \in [Lookup -> Searches]
      /\ \A j \in Lookup \ {i} : search'[j] = search[j]
  BY <1>1, <1>2, <1>3 DEF LookupsInv, LookupTypes, Searches
<1>5. \A W : looking!At(W)' = IF "new" \in W THEN looking!At(W) \cup {i} ELSE looking!At(W) \ {i}
  BY <1>2, <1>4 DEF looking!At, Lookup
<1>6. i \notin Active /\ Active' = Active \cup {i}
  BY <1>3, <1>5 DEF Active, looking!At
<1>7. \A n \in DOMAIN s_queue : s_queue[n] # i
  BY <1>6 DEF LookupsInv, QueuedOnce
<1>8. s_queue \in Seq(Lookup) /\ Len(s_queue) \in Nat /\ DOMAIN s_queue = 1 .. Len(s_queue)
  BY DEF LookupsInv, LookupTypes
<1>9. ASSUME Len(s_queue) # capacity
      PROVE  /\ Len(s_queue') = Len(s_queue) + 1 /\ DOMAIN s_queue' = 1 .. Len(s_queue) + 1
             /\ \A n \in DOMAIN s_queue : s_queue'[n] = s_queue[n]
             /\ s_queue'[Len(s_queue) + 1] = i /\ s_queue' \in Seq(Lookup)
  <2>1. s_queue' = Append(s_queue, i) /\ s_queue \in Seq(Lookup) /\ i \in Lookup
    BY <1>1, <1>2, <1>8, <1>9
  <2> HIDE DEF i
  <2>2. /\ Len(s_queue') = Len(s_queue) + 1 /\ DOMAIN s_queue' = 1 .. Len(s_queue) + 1
        /\ \A n \in 1 .. Len(s_queue) : s_queue'[n] = s_queue[n]
        /\ s_queue'[Len(s_queue) + 1] = i /\ s_queue' \in Seq(Lookup)
    BY <2>1, AppendedTo
  <2> QED
    BY <1>8, <2>2, Zenon
<1> HIDE DEF i
<1>10. LookupTypes'
  <2>1. s_queue' \in Seq(Lookup)
    BY <1>1, <1>8, <1>9
  <2>2. next_arg' \in 0 .. Len(keys') /\ limit' \in Int
    <3>1. limit \in Int
      BY DEF LookupsInv, LookupTypes
    <3> HIDE DEF i
    <3> QED
      BY <1>1, <1>2, <3>1
  <2>3. looking!Sorted(sorted)'
    BY <1>1 DEF LookupsInv, LookupTypes, looking!Sorted
  <2> QED
    BY <1>1, <1>2, <1>4, <2>1, <2>2, <2>3 DEF LookupsInv, LookupTypes
<1>11. QueuedOnce'
  <2>1. CASE Len(s_queue) = capacity
    BY <1>1, <1>6, <2>1 DEF LookupsInv, QueuedOnce
  <2>2. CASE Len(s_queue) # capacity
    BY <1>6, <1>7, <1>8, <1>9, <2>2 DEF LookupsInv, QueuedOnce
  <2> QED
    BY <2>1, <2>2
<1>12. Begun'
  BY <1>1, <1>2, <1>4 DEF LookupsInv, Begun, i
<1>13. Halves' /\ Answers'
  <2>1. \A j \in Lookup : search'[j].at \in {"yielded", "found", "not_found"} => search'[j] = search[j]
    BY <1>4
  <2> QED
    BY <1>1, <1>2, <2>1 DEF LookupsInv, Halves, Answers, Outside
<1>14. StreamsInUse' /\ Counted'
  <2>1. \A j \in Lookup \ {i} : search'[j].at = search[j].at
    BY <1>4
  <2>2. ASSUME NEW W
        PROVE  /\ Cardinality(looking!At(W)) \in Nat /\ Cardinality(looking!At(W)') \in Nat
               /\ Cardinality(looking!At(W)') =
                    Cardinality(looking!At(W)) + (IF "new" \in W THEN 1 ELSE 0)
                                               - (IF "none" \in W THEN 1 ELSE 0)
    BY <1>1, <1>2, <1>3, <1>4, <2>1, MovesAt DEF LookupsInv
  <2>3. Cardinality(Active) \in Nat /\ Cardinality(Active') = Cardinality(Active) + 1
    BY <2>2 DEF Active
  <2>4. /\ Cardinality(looking!At({"found"})') = Cardinality(looking!At({"found"}))
        /\ Cardinality(looking!At({"not_found"})') = Cardinality(looking!At({"not_found"}))
    BY <2>2
  <2> QED
    BY <1>1, <2>3, <2>4 DEF LookupsInv, LookupTypes, StreamsInUse, Counted
<1>15. LoopsEnd'
  BY <1>1 DEF LookupsInv, LoopsEnd
<1>16. ASSUME streams \in 1 .. capacity
       PROVE  /\ \A j \in Active' : \E n \in DOMAIN s_queue' : s_queue'[n] = j
              /\ Len(s_queue') = streams - limit' /\ limit' \in 0 .. streams /\ limit' < streams
  <2>1. Len(s_queue) = streams - limit /\ limit \in 0 .. streams
        /\ \A j \in Active : \E n \in DOMAIN s_queue : s_queue[n] = j
    BY <1>16 DEF LookupsInv, NoneDropped, QueueServes
  <2>2. Len(s_queue) # capacity
    BY <1>1, <1>16, <2>1
  <2> QED
    BY <1>1, <1>6, <1>8, <1>9, <1>16, <2>1, <2>2
<1>17. NoneDropped' /\ QueueServes'
  BY <1>1, <1>16 DEF LookupsInv, NoneDropped, QueueServes
<1> QED
  BY <1>10, <1>11, <1>12, <1>13, <1>14, <1>15, <1>17 DEF LookupsInv

\* Whoever is served goes back to the queue or answers, and frees its stream then.
LEMMA ServedStep == ASSUME LookupsInv, looking!Served PROVE LookupsInv'
<1> DEFINE i == Head(s_queue)
           s == looking!SeffBinarySearch(search[i], keys[i])
           rest == Tail(s_queue)
<1>1. /\ looking!Serving /\ s_queue # <<>> /\ search' = [search EXCEPT ![i] = s]
      /\ IF s.at = "yielded"
           THEN /\ s_queue' = IF Len(rest) = capacity THEN rest ELSE Append(rest, i)
                /\ UNCHANGED <<s_pc, limit, found_count, not_found_count>>
           ELSE /\ s_queue' = rest
                /\ found_count' = found_count + IF s.at = "found" THEN 1 ELSE 0
                /\ not_found_count' = not_found_count + IF s.at = "found" THEN 0 ELSE 1
                /\ limit' = limit + 1
                /\ s_pc' = IF s_pc = "serve" THEN "next" ELSE "finish"
      /\ UNCHANGED <<sorted, keys, streams, next_arg>>
  BY DEF looking!Served, looking!coro_queue_enqueue, looking!arguments, looking!counts
<1>2. /\ s_queue \in Seq(Lookup) /\ Len(s_queue) \in Nat \ {0} /\ DOMAIN s_queue = 1 .. Len(s_queue)
      /\ i = s_queue[1] /\ i \in Lookup
      /\ rest \in Seq(Lookup) /\ Len(rest) = Len(s_queue) - 1 /\ DOMAIN rest = 1 .. Len(s_queue) - 1
      /\ \A n \in 1 .. Len(s_queue) - 1 : rest[n] = s_queue[n + 1]
  BY <1>1 DEF LookupsInv, LookupTypes
<1>3. Lookup' = Lookup /\ keys[i] \in Int /\ search[i] \in Searches
  BY <1>1, <1>2 DEF LookupsInv, LookupTypes, Lookup, looking!Lookup
<1>4. i \in Active /\ search[i].at \in {"new", "yielded"}
  BY <1>2 DEF LookupsInv, QueuedOnce, Active, looking!At
<1>5. /\ s \in Searches /\ s.at \in {"yielded", "found", "not_found"}
      /\ s.at = "yielded" => s.len > 0 /\ s.first + s.len =< Len(sorted) /\ Outside(s, keys[i])
      /\ s.at = "found" => \E n \in DOMAIN sorted : sorted[n] = keys[i]
      /\ s.at = "not_found" => \A n \in DOMAIN sorted : sorted[n] # keys[i]
  <2>1. search[i].at = "new" => search[i].first = 0
    BY <1>2 DEF LookupsInv, Begun
  <2>2. search[i].at = "yielded" => search[i].len > 0
          /\ search[i].first + search[i].len =< Len(sorted) /\ Outside(search[i], keys[i])
    BY <1>2 DEF LookupsInv, Halves
  <2> HIDE DEF i
  <2> QED
    BY <1>3, <1>4, <2>1, <2>2, SearchRight DEF LookupsInv
<1> HIDE DEF s
<1>6. /\ search'[i] = s /\ search' \in [Lookup -> Searches]
      /\ \A j \in Lookup \ {i} : search'[j] = search[j]
  BY <1>1, <1>2, <1>5 DEF LookupsInv, LookupTypes
<1>7. \A W : looking!At(W)' = IF s.at \in W THEN looking!At(W) \cup {i} ELSE looking!At(W) \ {i}
  BY <1>2, <1>3, <1>6 DEF looking!At, Lookup
<1>8. \A n \in DOMAIN rest : rest[n] # i /\ rest[n] \in Active
  BY <1>2 DEF LookupsInv, QueuedOnce
<1>9. \A m, n \in DOMAIN rest : rest[m] = rest[n] => m = n
  BY <1>2 DEF LookupsInv, QueuedOnce
<1> HIDE DEF i, rest
<1>10. ASSUME s.at = "yielded", Len(rest) # capacity
       PROVE  /\ Len(s_queue') = Len(s_queue) /\ DOMAIN s_queue' = 1 .. Len(s_queue)
              /\ \A n \in DOMAIN rest : s_queue'[n] = rest[n]
              /\ s_queue'[Len(s_queue)] = i /\ s_queue' \in Seq(Lookup)
  <2>1. s_queue' = Append(rest, i)
    BY <1>1, <1>10
  <2>2. /\ rest \in Seq(Lookup) /\ Len(rest) + 1 = Len(s_queue) /\ DOMAIN rest = 1 .. Len(rest)
        /\ i \in Lookup
    BY <1>2
  <2>3. /\ Len(s_queue') = Len(rest) + 1 /\ DOMAIN s_queue' = 1 .. Len(rest) + 1
        /\ \A n \in 1 .. Len(rest) : s_queue'[n] = rest[n]
        /\ s_queue'[Len(rest) + 1] = i /\ s_queue' \in Seq(Lookup)
    BY <2>1, <2>2, AppendedTo
  <2> QED
    BY <2>2, <2>3, Zenon
<1>11. LookupTypes'
  <2>1. s_queue' \in Seq(Lookup)
    BY <1>1, <1>2, <1>10
  <2>2. /\ s_pc' \in {"next", "fill", "serve", "finish", "end", "crashed"} /\ limit' \in Int
        /\ found_count' \in Nat /\ not_found_count' \in Nat
    BY <1>1 DEF LookupsInv, LookupTypes
  <2> QED
    BY <1>1, <1>3, <1>6, <2>1, <2>2 DEF LookupsInv, LookupTypes, looking!Sorted
<1>12. Active' = IF s.at = "yielded" THEN Active ELSE Active \ {i}
  BY <1>4, <1>5, <1>7 DEF Active
<1>13. QueuedOnce'
  <2>1. CASE s.at = "yielded" /\ Len(rest) # capacity
    <3>1. /\ DOMAIN s_queue' = 1 .. Len(s_queue) /\ s_queue'[Len(s_queue)] = i
          /\ \A n \in 1 .. Len(s_queue) - 1 : s_queue'[n] = rest[n]
      BY <1>2, <1>10, <2>1
    <3>2. \A n \in 1 .. Len(s_queue) : n = Len(s_queue) \/ n \in 1 .. Len(s_queue) - 1
      BY <1>2
    <3>3. \A n \in DOMAIN s_queue' : s_queue'[n] \in Active'
      BY <1>2, <1>4, <1>8, <1>12, <2>1, <3>1, <3>2
    <3>4. \A m, n \in DOMAIN s_queue' : s_queue'[m] = s_queue'[n] => m = n
      BY <1>2, <1>8, <1>9, <3>1, <3>2
    <3> QED
      BY <3>3, <3>4 DEF QueuedOnce
  <2>2. CASE ~(s.at = "yielded" /\ Len(rest) # capacity)
    BY <1>1, <1>8, <1>9, <1>12, <2>2 DEF QueuedOnce
  <2> QED
    BY <2>1, <2>2
<1>14. Begun'
  <2>1. search'[i].at \notin {"none", "new"} /\ search[i].at # "none"
    BY <1>4, <1>5, <1>6
  <2>2. \A j \in Lookup \ {i} : search'[j] = search[j]
    BY <1>6
  <2> QED
    BY <1>1, <1>2, <1>3, <2>1, <2>2 DEF LookupsInv, Begun
<1>15. Halves' /\ Answers'
  <2>1. ASSUME NEW j \in Lookup
        PROVE  /\ search'[j].at = "yielded" => search'[j].len > 0
                    /\ search'[j].first + search'[j].len =< Len(sorted) /\ Outside(search'[j], keys[j])
               /\ search'[j].at = "found" => \E n \in DOMAIN sorted : sorted[n] = keys[j]
               /\ search'[j].at = "not_found" => \A n \in DOMAIN sorted : sorted[n] # keys[j]
    <3>1. CASE j = i
      BY <1>5, <1>6, <3>1
    <3>2. CASE j # i
      <4>1. search'[j] = search[j]
        BY <1>6, <3>2
      <4> QED
        BY <4>1 DEF LookupsInv, Halves, Answers
    <3> QED
      BY <3>1, <3>2
  <2>2. \A r, key : Outside(r, key)' <=> Outside(r, key)
    BY <1>1 DEF Outside
  <2>3. Answers'
    BY <1>1, <1>3, <2>1 DEF Answers
  <2>4. Halves'
    BY <1>1, <1>3, <2>1 DEF Halves, Outside
  <2> QED
    BY <2>3, <2>4
<1>16. StreamsInUse' /\ Counted'
  <2>1. \A j \in Lookup \ {i} : search'[j].at = search[j].at
    BY <1>6
  <2>2. ASSUME NEW W
        PROVE  /\ Cardinality(looking!At(W)) \in Nat /\ Cardinality(looking!At(W)') \in Nat
               /\ Cardinality(looking!At(W)') =
                    Cardinality(looking!At(W)) + (IF s.at \in W THEN 1 ELSE 0)
                                               - (IF search[i].at \in W THEN 1 ELSE 0)
    BY <1>1, <1>2, <1>6, <2>1, MovesAt DEF LookupsInv
  <2>3. /\ Cardinality(Active) \in Nat /\ Cardinality(Active') \in Nat
        /\ Cardinality(Active') = Cardinality(Active) - (IF s.at = "yielded" THEN 0 ELSE 1)
    BY <1>4, <1>5, <2>2 DEF Active
  <2>4. StreamsInUse'
    BY <1>1, <2>3 DEF LookupsInv, LookupTypes, StreamsInUse
  <2>5. Cardinality(looking!At({"found"})') = Cardinality(looking!At({"found"})) + (IF s.at = "found" THEN 1 ELSE 0)
    BY <1>4, <2>2
  <2>6. Cardinality(looking!At({"not_found"})') = Cardinality(looking!At({"not_found"})) + (IF s.at = "not_found" THEN 1 ELSE 0)
    BY <1>4, <2>2
  <2>7. /\ found_count' = found_count + (IF s.at = "found" THEN 1 ELSE 0)
        /\ not_found_count' = not_found_count + (IF s.at = "not_found" THEN 1 ELSE 0)
    BY <1>1, <1>5 DEF LookupsInv, LookupTypes
  <2>8. Counted'
    BY <2>5, <2>6, <2>7 DEF LookupsInv, Counted
  <2> QED
    BY <2>4, <2>8
<1>17. LoopsEnd'
  BY <1>1 DEF LookupsInv, LoopsEnd, looking!Serving
<1>18. ASSUME streams \in 1 .. capacity
       PROVE  /\ \A j \in Active' : \E n \in DOMAIN s_queue' : s_queue'[n] = j
              /\ Len(s_queue') = streams - limit' /\ limit' \in 0 .. streams
              /\ s_pc' # "crashed" /\ s_pc' # "fill" /\ (s_pc' = "serve" => limit' < streams)
  <2>1. /\ Len(s_queue) = streams - limit /\ limit \in 0 .. streams
        /\ \A j \in Active : \E n \in DOMAIN s_queue : s_queue[n] = j
        /\ s_pc = "serve" => limit < streams
    BY <1>18 DEF LookupsInv, NoneDropped, QueueServes
  <2>2. Len(rest) # capacity
    BY <1>2, <1>18, <2>1
  <2>3. \A j \in Active : j # i => \E n \in DOMAIN rest : rest[n] = j
    <3>1. SUFFICES ASSUME NEW j \in Active, j # i PROVE \E n \in DOMAIN rest : rest[n] = j
      OBVIOUS
    <3>2. PICK n \in DOMAIN s_queue : s_queue[n] = j
      BY <2>1
    <3>3. n # 1 /\ n - 1 \in DOMAIN rest /\ rest[n - 1] = j
      BY <1>2, <3>1, <3>2
    <3> QED
      BY <3>3
  <2>4. CASE s.at = "yielded"
    BY <1>1, <1>2, <1>10, <1>12, <2>1, <2>2, <2>3, <2>4 DEF looking!Serving
  <2>5. CASE s.at # "yielded"
    BY <1>1, <1>2, <1>12, <1>18, <2>1, <2>3, <2>5 DEF looking!Serving
  <2> QED
    BY <2>4, <2>5
<1>19. NoneDropped' /\ QueueServes'
  BY <1>1, <1>18 DEF NoneDropped, QueueServes
<1> QED
  BY <1>11, <1>13, <1>14, <1>15, <1>16, <1>17, <1>19 DEF LookupsInv

\* Every step of the lookups, and of the programs beside them, keeps the invariant.
LEMMA LookupsKept == LookupsInv /\ (looking!Next \/ UNCHANGED lookups_vars) => LookupsInv'
<1> SUFFICES ASSUME LookupsInv, looking!Next \/ UNCHANGED lookups_vars PROVE LookupsInv'
  OBVIOUS
<1>1. looking!Next \/ UNCHANGED lookups_vars
  OBVIOUS
<1>2. CASE UNCHANGED lookups_vars
  <2>1. s_pc' \in {"next", "fill", "serve", "finish", "end", "crashed"}
    BY <1>2 DEF lookups_vars, LookupsInv, LookupTypes
  <2>2. LoopsEnd' /\ QueueServes'
    BY <1>2 DEF lookups_vars, LookupsInv, LoopsEnd, QueueServes
  <2> QED
    BY <1>2, <2>1, <2>2, LoopMoves DEF lookups_vars, LookupsInv
<1> QED
  BY <1>1, <1>2, LoopStep, NewStep, ServedStep DEF looking!Next

-----------------------------------------------------------------------------
(* Meetings of threads, in c_solution *)

\* The mutex is a token: it is in the semaphore Mutex, in SemPriv on its way from
\* the second of a pair to the first, or with a thread.
HasMutex(t) == t_pc[t] \in {"lend", "pass", "unlock"}
OneToken ==
    /\ Mutex \in {0, 1} /\ SemPriv \in {0, 1}
    /\ ~(Mutex = 1 /\ SemPriv = 1)
    /\ \A t \in cooperation!Threads : HasMutex(t) => Mutex = 0 /\ SemPriv = 0
    /\ \A t, u \in cooperation!Threads : HasMutex(t) /\ HasMutex(u) => t = u

\* The first of a pair, which has not got its mate's colour yet.
WaitsForMate(t) == t_pc[t] \in {"lend", "await"}

\* One thread waits at a time; while FirstCall is false nobody has come to meet it,
\* and then its mate has passed the mutex on, or is about to.
OneWaits ==
    /\ \A t \in cooperation!Threads : WaitsForMate(t) => AColour.who = t
    /\ \A t \in cooperation!Threads : t_pc[t] = "lend" => ~FirstCall
    /\ FirstCall = FALSE =>
          /\ AColour.who \in cooperation!Threads /\ WaitsForMate(AColour.who)
          /\ SemPriv = 0
          /\ \A t \in cooperation!Threads : t_pc[t] \notin {"pass", "unlock"}
    /\ SemPriv = 1 \/ (\E t \in cooperation!Threads : t_pc[t] = "pass") =>
          AColour.who \in cooperation!Threads /\ t_pc[AColour.who] = "await"

\* A thread that waits although FirstCall is true has been met: its mate has left
\* its colour and taken the other, and the mutex is not free.
MateHasCome ==
    \A t \in cooperation!Threads : WaitsForMate(t) /\ FirstCall =>
        /\ Mutex = 0
        /\ \A u \in cooperation!Threads : t_pc[u] # "unlock"
        /\ BColour.who \in cooperation!Threads \ {t}
        /\ partner[BColour.who] = t

CooperationTypes ==
    /\ FirstCall \in BOOLEAN
    /\ DOMAIN t_pc = cooperation!Threads
    /\ DOMAIN partner = cooperation!Threads

CooperationInv == CooperationTypes /\ OneToken /\ OneWaits /\ MateHasCome /\ cooperation!Mutual

\* At first the mutex is free and nobody waits.
LEMMA CooperationInit == cooperation!Init => CooperationInv
<1> SUFFICES ASSUME cooperation!Init PROVE CooperationInv
  OBVIOUS
<1>1. \A t \in cooperation!Threads : t_pc[t] = "enter"
  BY DEF cooperation!Init
<1>2. QED
  BY <1>1 DEF cooperation!Init, cooperation!Threads, CooperationInv, CooperationTypes,
              OneToken, OneWaits, MateHasCome, cooperation!Mutual, HasMutex, WaitsForMate

\* Every step of a chameneos keeps the mutex a token and the pair well-formed.
LEMMA CooperationKept ==
  CooperationInv /\ (cooperation!Next \/ UNCHANGED cooperation_vars) => CooperationInv'
<1> SUFFICES ASSUME CooperationInv, cooperation!Next \/ UNCHANGED cooperation_vars
    PROVE  CooperationInv'
  OBVIOUS
<1>0. cooperation!Next \/ UNCHANGED cooperation!vars
  BY DEF cooperation_vars, cooperation!vars, cooperation!semaphores, cooperation!shared,
         cooperation!locals
<1> USE DEF CooperationInv, CooperationTypes, OneToken, OneWaits, MateHasCome,
            cooperation!Mutual, HasMutex, WaitsForMate, cooperation!Goto, cooperation!Takes,
            cooperation!semaphores, cooperation!shared, cooperation!locals
<1>1. ASSUME NEW t \in cooperation!Threads, cooperation!Enter(t) PROVE CooperationInv'
  BY <1>1 DEF cooperation!Enter
<1>2. ASSUME NEW t \in cooperation!Threads, cooperation!First(t) PROVE CooperationInv'
  <2>1. /\ Mutex = 1 /\ SemPriv = 0
        /\ \A u \in cooperation!Threads : ~HasMutex(u) /\ ~WaitsForMate(u)
    BY <1>2 DEF cooperation!First
  <2>2. /\ Mutex' = 0 /\ SemPriv' = 0 /\ FirstCall' = FALSE /\ AColour'.who = t
        /\ t_pc' = [t_pc EXCEPT ![t] = "lend"] /\ UNCHANGED partner
    BY <1>2, <2>1 DEF cooperation!First
  <2>3. CooperationTypes' /\ OneToken' /\ cooperation!Mutual'
    BY <2>1, <2>2
  <2>4. OneWaits' /\ MateHasCome'
    BY <2>1, <2>2
  <2>5. QED
    BY <2>3, <2>4
<1>3. ASSUME NEW t \in cooperation!Threads, cooperation!Lend(t) PROVE CooperationInv'
  BY <1>3 DEF cooperation!Lend
<1>4. ASSUME NEW t \in cooperation!Threads, cooperation!AwaitMate(t) PROVE CooperationInv'
  <2>1. /\ SemPriv = 1 /\ FirstCall = TRUE /\ Mutex = 0 /\ AColour.who = t
        /\ \A u \in cooperation!Threads : ~HasMutex(u) /\ (WaitsForMate(u) => u = t)
    BY <1>4 DEF cooperation!AwaitMate
  <2>2. BColour.who \in cooperation!Threads \ {t} /\ partner[BColour.who] = t
    BY <1>4, <2>1 DEF cooperation!AwaitMate
  <2>3. /\ SemPriv' = 0 /\ t_pc' = [t_pc EXCEPT ![t] = "unlock"]
        /\ partner' = [partner EXCEPT ![t] = BColour.who]
        /\ UNCHANGED <<FirstCall, Mutex, AColour, BColour>>
    BY <1>4, <2>1 DEF cooperation!AwaitMate
  <2>4. CooperationTypes' /\ OneToken'
    BY <2>1, <2>3
  <2>5. OneWaits' /\ MateHasCome'
    BY <2>1, <2>3
  <2>6. cooperation!Mutual'
    BY <2>1, <2>2, <2>3
  <2>7. QED
    BY <2>4, <2>5, <2>6
<1>5. ASSUME NEW t \in cooperation!Threads, cooperation!Second(t) PROVE CooperationInv'
  BY <1>5 DEF cooperation!Second
<1>6. ASSUME NEW t \in cooperation!Threads, cooperation!Pass(t) PROVE CooperationInv'
  BY <1>6 DEF cooperation!Pass
<1>7. ASSUME NEW t \in cooperation!Threads, cooperation!Unlock(t) PROVE CooperationInv'
  BY <1>7 DEF cooperation!Unlock
<1>8. ASSUME NEW t \in cooperation!Threads, cooperation!Allow(t) PROVE CooperationInv'
  BY <1>8 DEF cooperation!Allow
<1>9. ASSUME NEW t \in cooperation!Threads, cooperation!Adopt(t) PROVE CooperationInv'
  BY <1>9 DEF cooperation!Adopt
<1>10. CASE UNCHANGED cooperation!vars
  BY <1>10 DEF cooperation!vars
<1>11. QED
  BY <1>0, <1>1, <1>2, <1>3, <1>4, <1>5, <1>6, <1>7, <1>8, <1>9, <1>10
     DEF cooperation!Next, cooperation!Thread

-----------------------------------------------------------------------------
(* Meetings of creatures *)

Creatures == chameneos!Creatures
N == Len(creatureColours)
Letters == [finish : BOOLEAN, who : Nat, col : Int]

MeetTypes ==
    /\ m_program \in {"actor", "effect_actors", "effect_direct"}
    /\ m_pc \in [Creatures -> {"none", "born", "loop", "performs", "waits", "told", "return", "done"}]
    /\ col \in [Creatures -> Int] /\ met \in [Creatures -> Nat] /\ self_met \in [Creatures -> Nat]
    /\ mate \in [Creatures -> Letters] /\ mail \in [Creatures -> Seq(Letters)]
    /\ requests \in Seq(Letters) /\ held \in Seq(Letters)
    /\ broker \in {"spawn", "pair", "answer", "answer_second", "finalize", "collect", "second",
                   "last", "add", "done"}
    /\ count \in Nat /\ total \in Nat

\* Whether the broker has told a creature to end, and whether it knows.
Finalized(c) == (broker = "finalize" /\ c =< count) \/ broker \in {"collect", "done"}
Over(c) == m_pc[c] \in {"return", "done"} \/ (m_pc[c] = "told" /\ mate[c].finish)

\* The end message is a creature's last; before it there is an answer at most.
Ending(c) == IF Finalized(c) THEN <<chameneos!End>> ELSE <<>>
After(m, c) == IF Finalized(c) THEN <<m, chameneos!End>> ELSE <<m>>
AnswerIsThere(c) == \E m \in Letters : ~m.finish /\ m.who # c /\ mail[c] = After(m, c)
Mails(c) ==
    /\ Over(c) => Finalized(c) /\ mail[c] = <<>>
    /\ m_pc[c] = "none" => mail[c] = <<>> /\ broker = "spawn"
    /\ m_pc[c] = "born" => \E m \in Letters : ~m.finish /\ mail[c] = After(m, c)
    /\ m_pc[c] = "waits" => mail[c] = Ending(c) \/ AnswerIsThere(c)
    /\ m_pc[c] \in {"loop", "performs", "told"} /\ ~Over(c) => mail[c] = Ending(c)

\* A request is in one place, and the creature that made it waits for the answer.
Requested(k, c) == k \in DOMAIN requests /\ requests[k].who = c /\ ~requests[k].finish
Holding(k, c) == k \in DOMAIN held /\ held[k].who = c /\ (broker = "answer_second" => k = 2)
OneRequest ==
    /\ \A c \in Creatures, j, k \in Nat :
          /\ Requested(j, c) /\ Requested(k, c) => j = k
          /\ Holding(j, c) /\ Holding(k, c) => j = k
          /\ ~(Requested(j, c) /\ Holding(k, c))
    /\ \A c \in Creatures, k \in Nat : Holding(k, c) => m_pc[c] = "waits" /\ mail[c] = <<>>
    /\ \A c \in Creatures, k \in Nat : Requested(k, c) =>
          (m_pc[c] = "waits" /\ mail[c] = Ending(c)) \/ Over(c)
    /\ \A k \in DOMAIN held : held[k].who \in Creatures /\ ~held[k].finish
    /\ Len(held) = 2 => held[1].who # held[2].who

\* A creature's report is the last thing it sends, and says what it counted.
Reports(k, c) == k \in DOMAIN requests /\ requests[k].who = c /\ requests[k].finish
ReportsLast ==
    /\ \A k \in DOMAIN requests : requests[k].who \in Creatures
    /\ \A c \in Creatures, k \in Nat : Reports(k, c) => m_pc[c] = "done" /\ requests[k].col = met[c]
    /\ \A c \in Creatures, j, k \in Nat :
          /\ Reports(j, c) /\ Reports(k, c) => j = k
          /\ Requested(j, c) /\ m_pc[c] = "done" => \E i \in Nat : i > j /\ Reports(i, c)
Reported == {c \in Creatures : m_pc[c] = "done" /\ \A k \in Nat : ~Reports(k, c)}

\* Where the broker is, and how many requests it holds.
Phases ==
    /\ broker = "spawn" => count < N /\ held = <<>>
    /\ broker = "spawn" => \A c \in Creatures : m_pc[c] = "none" <=> c > count
    /\ broker = "pair" => count =< MEETINGS /\ Len(held) =< 1 /\ (held # <<>> => count < MEETINGS)
    /\ broker \in {"answer", "answer_second", "second"} => count < MEETINGS /\ Len(held) = 2
    /\ broker \in {"finalize", "last", "add"} => count < N
    /\ broker \in {"finalize", "collect", "last", "add", "done"} => held = <<>>
    /\ broker \in {"spawn", "pair", "answer", "answer_second", "second", "finalize"} => Reported = {}
    /\ broker = "collect" => count = Cardinality(Creatures \ Reported) /\ count > 0
    /\ broker = "done" => Reported = Creatures

\* Where creatures are when one handler runs them.
Directed(c) ==
    /\ mail[c] = <<>>
    /\ broker \in {"pair", "second"} => m_pc[c] \in {"loop", "performs", "told"} /\ ~Over(c)
    /\ broker = "spawn" => ~Over(c) /\ m_pc[c] # "told"
    /\ broker \in {"last", "add"} => (m_pc[c] = "done" <=> c =< count)
Programmed ==
    IF chameneos!Actors
      THEN /\ broker \notin {"second", "last", "add"}
           /\ \A c \in Creatures : Mails(c)
           /\ OneRequest /\ ReportsLast
      ELSE /\ broker \notin {"answer", "answer_second", "finalize", "collect"}
           /\ requests = <<>> /\ (broker # "second" => held = <<>>)
           /\ \A c \in Creatures : Directed(c)
           /\ broker = "second" =>
                 held[1].who # ((2 * count + 1) % N) + 1 /\ ~held[1].finish

NotItself(c) ==
    /\ self_met[c] = 0
    /\ m_pc[c] = "told" /\ ~mate[c].finish => mate[c].who # c
    /\ m_pc[c] = "performs" => mate[c].who = c /\ ~mate[c].finish

\* The meetings a creature has counted, and the one it is going to count.
Coming(c) ==
    \/ m_pc[c] = "told" /\ ~mate[c].finish
    \/ m_pc[c] = "waits" /\ mail[c] # <<>> /\ ~Head(mail[c]).finish
MeetingsOf(c) == met[c] + IF Coming(c) THEN 1 ELSE 0
PairsOf(f) == {p \in Creatures \X Nat : p[2] \in 1 .. f[p[1]]}
PairsIn(f, R) == {p \in PairsOf(f) : p[1] \in R}
Meets == PairsOf([c \in Creatures |-> MeetingsOf(c)])
Made ==
    IF broker = "spawn" THEN 0
    ELSE IF broker \in {"pair", "answer"} THEN 2 * count
    ELSE IF broker \in {"answer_second", "second"} THEN 2 * count + 1
    ELSE 2 * MEETINGS
MeetsCounted ==
    /\ IsFiniteSet(Meets) /\ Cardinality(Meets) = Made
    /\ total = Cardinality({p \in Meets : p[1] \in Reported})

MeetInv ==
    /\ MeetTypes /\ Phases /\ Programmed /\ MeetsCounted
    /\ \A c \in Creatures : NotItself(c)

\* There are creatures 1 .. N, two of them at least.
LEMMA CreaturesAre ==
  /\ N \in Nat /\ N > 1 /\ Creatures = 1 .. N /\ MEETINGS \in Nat
  /\ IsFiniteSet(Creatures) /\ Cardinality(Creatures) = N
  /\ chameneos!Cardinality(Creatures) = N
  /\ \A c \in Creatures : creatureColours[c] \in Int
<1>1. /\ N \in Nat /\ N > 1 /\ Creatures = 1 .. N /\ MEETINGS \in Nat
      /\ \A c \in Creatures : creatureColours[c] \in Int
  BY ChameneosAssumption
     DEF chameneos!ChameneosConstants, chameneos!Colours, Creatures, chameneos!Creatures, N
<1>2. IsFiniteSet(Creatures) /\ Cardinality(Creatures) = N
  <2>1. Cardinality(1 .. N) = (IF 1 > N THEN 0 ELSE N - 1 + 1) /\ IsFiniteSet(1 .. N)
    BY <1>1, FS_Interval
  <2> QED
    BY <1>1, <2>1
<1>3. chameneos!Cardinality(Creatures) = Cardinality(Creatures)
  BY DEF chameneos!Cardinality, Cardinality
<1> QED
  BY <1>1, <1>2, <1>3

\* Counting one more meeting of a creature adds one pair.
LEMMA OneMore ==
  ASSUME NEW f \in [Creatures -> Nat], NEW c \in Creatures, IsFiniteSet(PairsOf(f)),
         NEW g, g = [f EXCEPT ![c] = @ + 1]
  PROVE  IsFiniteSet(PairsOf(g)) /\ Cardinality(PairsOf(g)) = Cardinality(PairsOf(f)) + 1
<1> DEFINE p == <<c, f[c] + 1>>
<1>1. p \notin PairsOf(f)
  BY DEF PairsOf
<1>2. PairsOf(g) = PairsOf(f) \cup {p}
  <2>1. ASSUME NEW d \in Creatures, NEW n \in Nat
        PROVE  <<d, n>> \in PairsOf(g) <=> <<d, n>> \in PairsOf(f) \cup {p}
    <3>1. CASE d = c
      <4>1. <<d, n>> \in PairsOf(g) <=> n \in 1 .. f[c] + 1
        BY <3>1 DEF PairsOf
      <4>2. <<d, n>> \in PairsOf(f) <=> n \in 1 .. f[c]
        BY <3>1 DEF PairsOf
      <4>3. <<d, n>> = p <=> n = f[c] + 1
        BY <3>1
      <4> QED
        BY <4>1, <4>2, <4>3
    <3>2. CASE d # c
      <4>1. g[d] = f[d] /\ <<d, n>> # p
        BY <3>2
      <4> QED
        BY <4>1 DEF PairsOf
    <3> QED
      BY <3>1, <3>2
  <2>2. PairsOf(g) \subseteq Creatures \X Nat /\ PairsOf(f) \cup {p} \subseteq Creatures \X Nat
    BY DEF PairsOf
  <2>3. ASSUME NEW q \in Creatures \X Nat PROVE q \in PairsOf(g) <=> q \in PairsOf(f) \cup {p}
    <3>1. PICK d \in Creatures, n \in Nat : q = <<d, n>>
      OBVIOUS
    <3> HIDE DEF p
    <3> QED
      BY <2>1, <3>1
  <2> HIDE DEF p
  <2> QED
    BY <2>2, <2>3
<1> HIDE DEF p
<1>3. /\ IsFiniteSet(PairsOf(f) \cup {p})
      /\ Cardinality(PairsOf(f) \cup {p})
           = IF p \in PairsOf(f) THEN Cardinality(PairsOf(f)) ELSE Cardinality(PairsOf(f)) + 1
  BY FS_AddElement
<1> QED
  BY <1>1, <1>2, <1>3

\* The meetings of a creature that reports are added to those of the others.
LEMMA OneReports ==
  ASSUME NEW f \in [Creatures -> Nat], NEW R \in SUBSET Creatures, NEW c \in Creatures \ R,
         IsFiniteSet(PairsOf(f)), NEW S, S = R \cup {c}
  PROVE  Cardinality(PairsIn(f, S)) = Cardinality(PairsIn(f, R)) + f[c]
<1> DEFINE old == {p \in PairsOf(f) : p[1] \in R}
<1> DEFINE new == {p \in PairsOf(f) : p[1] \in S}
<1> DEFINE his == {c} \X (1 .. f[c])
<1>1. new = old \cup his /\ old \cap his = {}
  <2>1. new \subseteq old \cup his
    BY DEF PairsOf
  <2>2. his \subseteq new
    BY DEF PairsOf
  <2>3. old \subseteq new /\ old \cap his = {}
    OBVIOUS
  <2> HIDE DEF new, old, his
  <2> QED
    BY <2>1, <2>2, <2>3
<1>2. IsFiniteSet(his) /\ Cardinality(his) = f[c]
  <2>1. IsFiniteSet(1 .. f[c]) /\ Cardinality(1 .. f[c]) = f[c]
    <3>1. f[c] \in Nat /\ 1 \in Int /\ f[c] \in Int
      OBVIOUS
    <3>2. IsFiniteSet(1 .. f[c])
          /\ Cardinality(1 .. f[c]) = IF 1 > f[c] THEN 0 ELSE f[c] - 1 + 1
      BY <3>1, FS_Interval
    <3> QED
      BY <3>1, <3>2
  <2>2. IsFiniteSet({c}) /\ Cardinality({c}) = 1
    BY FS_Singleton
  <2>3. IsFiniteSet(his) /\ Cardinality(his) = Cardinality({c}) * Cardinality(1 .. f[c])
    BY <2>1, <2>2, FS_Product
  <2> QED
    BY <2>1, <2>2, <2>3
<1>3. IsFiniteSet(old) /\ Cardinality(old) \in Nat
  <2>1. old \in SUBSET PairsOf(f)
    OBVIOUS
  <2> HIDE DEF old
  <2> QED
    BY <2>1, FS_Subset, FS_CardinalityType
<1>4. Cardinality({}) = 0
  BY FS_EmptySet
<1> HIDE DEF old, new, his
<1>5. Cardinality(new) = Cardinality(old) + Cardinality(his) - Cardinality({})
  BY <1>1, <1>2, <1>3, FS_Union
<1> QED
  BY <1>2, <1>3, <1>4, <1>5 DEF old, new, PairsIn

\* Two neighbours of the round are different.
LEMMA Neighbours ==
  ASSUME NEW k \in Nat
  PROVE  /\ ((2 * k) % N) + 1 \in Creatures /\ ((2 * k + 1) % N) + 1 \in Creatures
         /\ ((2 * k) % N) + 1 # ((2 * k + 1) % N) + 1
<1> DEFINE x == 2 * k
<1> DEFINE q == x \div N
<1> DEFINE r == (x + 1) \div N
<1>1. x \in Int /\ N \in Nat /\ N > 1 /\ Creatures = 1 .. N
  BY CreaturesAre
<1> HIDE DEF x
<1>2. /\ x = N * q + (x % N) /\ q \in Int /\ (x % N) \in 0 .. N - 1
      /\ x + 1 = N * r + ((x + 1) % N) /\ r \in Int /\ ((x + 1) % N) \in 0 .. N - 1
  BY <1>1
<1> HIDE DEF q, r
<1>3. ASSUME x % N = (x + 1) % N PROVE FALSE
  <2>1. N * r - N * q = 1
    BY <1>1, <1>2, <1>3
  <2>2. N * (r - q) = 1
    BY <1>1, <1>2, <2>1
  <2>3. CASE r - q =< 0
    <3>1. N * (r - q) =< 0
      BY <1>1, <1>2, <2>3
    <3> QED
      BY <2>2, <3>1
  <2>4. CASE r - q >= 1
    <3>1. N * (r - q) >= N
      BY <1>1, <1>2, <2>4
    <3> QED
      BY <1>1, <2>2, <3>1
  <2> QED
    BY <1>2, <2>3, <2>4
<1> QED
  BY <1>1, <1>2, <1>3 DEF x

\* What is in a mailbox.
LEMMA LettersIn ==
  ASSUME NEW q \in Seq(Letters)
  PROVE  /\ \A k \in DOMAIN q : /\ k \in Nat /\ q[k] \in Letters /\ q[k].finish \in BOOLEAN
                                /\ q[k].who \in Nat /\ q[k].col \in Int
         /\ (\A k \in Nat : k \notin DOMAIN q) => q = <<>>
<1>1. \A k \in DOMAIN q : k \in Nat /\ q[k] \in Letters
  OBVIOUS
<1>2. ASSUME \A k \in Nat : k \notin DOMAIN q PROVE q = <<>>
  <2>1. Len(q) \in Nat /\ DOMAIN q = 1 .. Len(q)
    OBVIOUS
  <2>2. Len(q) = 0
    BY <1>2, <2>1
  <2> QED
    BY <2>2
<1> QED
  BY <1>1, <1>2 DEF Letters

\* What the run checks of the creatures follows.
LEMMA MeetingsRight ==
  MeetInv => chameneos!TotalIsTwice /\ chameneos!NobodyMeetsItself /\ chameneos!NothingLeft
<1> SUFFICES ASSUME MeetInv
    PROVE  chameneos!TotalIsTwice /\ chameneos!NobodyMeetsItself /\ chameneos!NothingLeft
  OBVIOUS
<1>1. chameneos!NobodyMeetsItself
  BY DEF MeetInv, NotItself, chameneos!NobodyMeetsItself, Creatures
<1>2. ASSUME broker = "done"
      PROVE  total = 2 * MEETINGS /\ requests = <<>> /\ \A c \in Creatures : mail[c] = <<>>
  <2>1. Reported = Creatures
    BY <1>2 DEF MeetInv, Phases
  <2>2. {p \in Meets : p[1] \in Reported} = Meets
    BY <2>1 DEF Meets, PairsOf
  <2>3. total = 2 * MEETINGS
    BY <1>2, <2>2 DEF MeetInv, MeetsCounted, Made
  <2>4. \A c \in Creatures : m_pc[c] = "done" /\ \A k \in Nat : ~Reports(k, c)
    BY <2>1 DEF Reported
  <2>5. CASE chameneos!Actors
    <3>1. \A c \in Creatures : mail[c] = <<>>
      BY <2>4, <2>5 DEF MeetInv, Programmed, Mails, Over
    <3>2. ASSUME NEW k \in DOMAIN requests PROVE FALSE
      <4>1. k \in Nat /\ requests[k].who \in Creatures /\ requests[k].finish \in BOOLEAN
        <5>1. requests \in Seq(Letters) /\ ReportsLast
        BY <2>5 DEF MeetInv, Programmed, MeetTypes
      <5> QED
        BY <3>2, <5>1, LettersIn DEF ReportsLast
      <4>2. PICK c \in Creatures : c = requests[k].who
        BY <4>1
      <4>3. Requested(k, c) \/ Reports(k, c)
        BY <3>2, <4>1, <4>2 DEF Requested, Reports
      <4> QED
        BY <2>4, <2>5, <4>1, <4>3 DEF MeetInv, Programmed, ReportsLast
    <3>3. requests = <<>>
      BY <3>2, LettersIn DEF MeetInv, MeetTypes
    <3> QED
      BY <2>3, <3>1, <3>3
  <2>6. CASE ~chameneos!Actors
    BY <2>3, <2>6 DEF MeetInv, Programmed, Directed
  <2> QED
    BY <2>5, <2>6
<1> QED
  BY <1>1, <1>2 DEF chameneos!TotalIsTwice, chameneos!NothingLeft, Creatures

\* At first no creature has been spawned.
LEMMA MeetInit == chameneos!Init => MeetInv
<1> SUFFICES ASSUME chameneos!Init PROVE MeetInv
  OBVIOUS
<1>1. /\ m_program \in {"actor", "effect_actors", "effect_direct"}
      /\ \A c \in Creatures : m_pc[c] = "none" /\ self_met[c] = 0 /\ met[c] = 0 /\ mail[c] = <<>>
      /\ requests = <<>> /\ broker = "spawn" /\ count = 0 /\ held = <<>> /\ total = 0
  BY DEF chameneos!Init, Creatures
<1>2. MeetTypes
  BY DEF chameneos!Init, Creatures, MeetTypes, Letters, chameneos!Nothing
<1>3. \A c \in Creatures : NotItself(c) /\ Mails(c) /\ Directed(c) /\ ~Coming(c)
  BY <1>1 DEF NotItself, Mails, Directed, Over, Coming
<1>4. Reported = {} /\ \A k \in Nat, c \in Creatures : ~Reports(k, c) /\ ~Requested(k, c)
  BY <1>1 DEF Reported, Reports, Requested
<1>5. Phases
  <2>1. \A c \in Creatures : c > 0
    BY CreaturesAre
  <2> QED
    BY <1>1, <1>4, <2>1, CreaturesAre DEF Phases
<1>6. Programmed
  <2>1. \A c \in Creatures, k \in Nat : ~Holding(k, c)
    BY <1>1 DEF Holding
  <2>2. OneRequest /\ ReportsLast
    BY <1>1, <1>4, <2>1 DEF OneRequest, ReportsLast
  <2> QED
    BY <1>1, <1>3, <2>2 DEF Programmed
<1>7. MeetsCounted
  <2>1. Meets = {}
    BY <1>1, <1>3 DEF Meets, PairsOf, MeetingsOf
  <2>2. IsFiniteSet({}) /\ Cardinality({}) = 0
    BY FS_EmptySet
  <2>3. {p \in Meets : p[1] \in Reported} = {}
    BY <2>1
  <2> QED
    BY <1>1, <2>1, <2>2, <2>3 DEF MeetsCounted, Made
<1> QED
  BY <1>2, <1>3, <1>5, <1>6, <1>7 DEF MeetInv

\* A creature that nothing happens to keeps its mail as it should be.
LEMMA SameMails ==
  ASSUME NEW c \in Creatures, Mails(c), m_pc'[c] = m_pc[c], mate'[c] = mate[c],
         mail'[c] = mail[c], Finalized(c)' <=> Finalized(c),
         m_pc[c] = "none" => broker' = "spawn"
  PROVE  Mails(c)'
<1>1. Over(c)' <=> Over(c)
  BY DEF Over
<1>2. Ending(c)' = Ending(c) /\ \A m : After(m, c)' = After(m, c)
  BY DEF Ending, After
<1>3. AnswerIsThere(c)' <=> AnswerIsThere(c)
  BY <1>2 DEF AnswerIsThere
<1> QED
  BY <1>1, <1>2, <1>3 DEF Mails

\* A step of one creature leaves the others and what is counted alone.
LEMMA OneCreature ==
  ASSUME MeetInv, NEW c \in Creatures, MeetTypes', UNCHANGED <<m_program, broker, count, held, total>>,
         \A d \in Creatures \ {c} :
            /\ m_pc'[d] = m_pc[d] /\ mate'[d] = mate[d] /\ mail'[d] = mail[d]
            /\ met'[d] = met[d] /\ self_met'[d] = self_met[d],
         m_pc[c] # "none", m_pc'[c] # "none", Reported' = Reported,
         chameneos!Actors => Mails(c)' /\ OneRequest' /\ ReportsLast',
         ~chameneos!Actors => requests' = requests /\ Directed(c)',
         NotItself(c)', MeetingsOf(c)' = MeetingsOf(c)
  PROVE  MeetInv'
<1>1. Phases'
  <2>1. \A d \in Creatures : m_pc'[d] = "none" <=> m_pc[d] = "none"
    OBVIOUS
  <2> QED
    BY <2>1 DEF MeetInv, Phases
<1>2. \A d \in Creatures : NotItself(d)' /\ MeetingsOf(d)' = MeetingsOf(d)
  BY DEF MeetInv, NotItself, MeetingsOf, Coming
<1>3. MeetsCounted'
  <2>1. Meets' = Meets
    BY <1>2 DEF Meets
  <2>2. Made' = Made
    BY DEF Made
  <2> QED
    BY <2>1, <2>2 DEF MeetInv, MeetsCounted
<1>4. Programmed'
  <2>1. CASE chameneos!Actors
    <3>1. ASSUME NEW d \in Creatures \ {c} PROVE Mails(d)'
      <4>1. Mails(d) /\ (m_pc[d] = "none" => broker = "spawn")
        BY <2>1 DEF MeetInv, Programmed, Mails
      <4>2. Finalized(d)' <=> Finalized(d)
        BY DEF Finalized
      <4> QED
        BY <4>1, <4>2, SameMails
    <3> QED
      BY <2>1, <3>1 DEF MeetInv, Programmed, chameneos!Actors
  <2>2. CASE ~chameneos!Actors
    <3>1. \A d \in Creatures \ {c} : Directed(d)'
      BY <2>2 DEF MeetInv, Programmed, Directed, Over
    <3> QED
      BY <2>2, <3>1 DEF MeetInv, Programmed, chameneos!Actors
  <2> QED
    BY <2>1, <2>2
<1> QED
  BY <1>1, <1>2, <1>3, <1>4 DEF MeetInv

\* Requests that stay where they are.
LEMMA RequestsStay ==
  ASSUME OneRequest, ReportsLast, NEW c \in Creatures, UNCHANGED <<broker, count, held, requests>>,
         \A d \in Creatures \ {c} :
            m_pc'[d] = m_pc[d] /\ mate'[d] = mate[d] /\ mail'[d] = mail[d] /\ met'[d] = met[d],
         \A k \in Nat : ~Holding(k, c),
         \A k \in Nat : Requested(k, c) => Over(c)',
         m_pc[c] # "done", m_pc'[c] # "done"
  PROVE  OneRequest' /\ ReportsLast' /\ Reported' = Reported
<1>1. \A k \in Nat, d \in Creatures :
        /\ Requested(k, d)' <=> Requested(k, d)
        /\ Holding(k, d)' <=> Holding(k, d)
        /\ Reports(k, d)' <=> Reports(k, d)
  BY DEF Requested, Holding, Reports
<1>2. \A d \in Creatures \ {c} : (Over(d)' <=> Over(d)) /\ Ending(d)' = Ending(d)
  BY DEF Over, Ending, Finalized
<1>3. OneRequest'
  BY <1>1, <1>2 DEF OneRequest
<1>4. \A k \in Nat : ~Reports(k, c)
  BY DEF ReportsLast
<1>5. ReportsLast'
  <2>1. \A d \in Creatures, k \in Nat :
          Reports(k, d)' => m_pc'[d] = "done" /\ requests'[k].col = met'[d]
    BY <1>1, <1>4 DEF ReportsLast
  <2>2. \A d \in Creatures : m_pc'[d] = "done" <=> m_pc[d] = "done"
    OBVIOUS
  <2> QED
    BY <1>1, <2>1, <2>2 DEF ReportsLast
<1>6. Reported' = Reported
  BY <1>1 DEF Reported
<1> QED
  BY <1>3, <1>5, <1>6

\* A creature that does not wait has no request but one that nobody will answer.
LEMMA NoRequest ==
  ASSUME MeetInv, NEW c \in Creatures, chameneos!Actors, m_pc[c] # "waits"
  PROVE  \A k \in Nat : ~Holding(k, c) /\ (Requested(k, c) => Over(c))
BY DEF MeetInv, Programmed, OneRequest

\* A creature counts the mate it is told of.
LEMMA ToldStep ==
  ASSUME MeetInv, NEW c \in Creatures, chameneos!Told(c)
  PROVE  MeetInv'
<1> DEFINE next == IF mate[c].finish THEN "return" ELSE "loop"
<1>1. /\ m_pc[c] = "told" /\ m_pc' = [m_pc EXCEPT ![c] = next]
      /\ met' = [met EXCEPT ![c] = IF mate[c].finish THEN @ ELSE @ + 1]
      /\ self_met' = [self_met EXCEPT ![c] = IF ~mate[c].finish /\ mate[c].who = c THEN @ + 1 ELSE @]
      /\ UNCHANGED <<m_program, mate, mail, requests, broker, count, held, total>>
      /\ col' = IF mate[c].finish THEN col
                ELSE [col EXCEPT ![c] = chameneos!complement(@, mate[c].col)]
  <2>1. MeetTypes
    BY DEF MeetInv
  <2> QED
    BY <2>1 DEF MeetTypes, chameneos!Told, chameneos!Counts, chameneos!GoesTo, chameneos!brokerVars
<1>2. MeetTypes /\ NotItself(c) /\ mate[c] \in Letters /\ mate[c].finish \in BOOLEAN
      /\ mate[c].col \in Int /\ col[c] \in Int /\ met[c] \in Nat
  BY DEF MeetInv, MeetTypes, Letters
<1>3. self_met'[c] = 0 /\ self_met' \in [Creatures -> Nat] /\ met' \in [Creatures -> Nat]
  BY <1>1, <1>2 DEF NotItself, MeetTypes
<1>4. col' \in [Creatures -> Int]
  <2>1. chameneos!complement(col[c], mate[c].col) \in Int
    BY <1>2 DEF chameneos!complement
  <2> QED
    BY <1>1, <1>2, <2>1 DEF MeetTypes
<1>5. MeetTypes'
  BY <1>1, <1>2, <1>3, <1>4 DEF MeetTypes
<1>6. m_pc'[c] = next /\ next \notin {"none", "done", "told", "performs", "waits", "born"}
  BY <1>1, <1>2 DEF MeetTypes
<1>7. Over(c)' <=> Over(c)
  BY <1>1, <1>2, <1>6 DEF Over
<1>8. NotItself(c)'
  BY <1>3, <1>6 DEF NotItself
<1>9. MeetingsOf(c)' = MeetingsOf(c)
  BY <1>1, <1>2, <1>6 DEF MeetingsOf, Coming, MeetTypes
<1>10. CASE chameneos!Actors
  <2>1. Mails(c) /\ OneRequest /\ ReportsLast
    BY <1>10 DEF MeetInv, Programmed
  <2>2. Mails(c)'
    BY <1>1, <1>6, <1>7, <2>1 DEF Mails, Ending, Finalized
  <2>3. \A k \in Nat : ~Holding(k, c) /\ (Requested(k, c) => Over(c)')
    BY <1>1, <1>7, <1>10, NoRequest
  <2>4. OneRequest' /\ ReportsLast' /\ Reported' = Reported
    BY <1>1, <1>2, <1>6, <2>1, <2>3, RequestsStay DEF MeetTypes
  <2> QED
    BY <1>1, <1>2, <1>5, <1>6, <1>8, <1>9, <1>10, <2>2, <2>4, OneCreature DEF MeetTypes
<1>11. CASE ~chameneos!Actors
  <2>1. Directed(c)
    BY <1>11 DEF MeetInv, Programmed
  <2>2. Directed(c)'
    BY <1>1, <1>6, <1>7, <2>1 DEF Directed, Over
  <2>3. Reported' = Reported
    BY <1>1, <1>2, <1>6 DEF Reported, Reports, MeetTypes
  <2> QED
    BY <1>1, <1>2, <1>5, <1>6, <1>8, <1>9, <1>11, <2>2, <2>3, OneCreature DEF MeetTypes
<1> QED
  BY <1>10, <1>11

\* A creature that performs meet writes its own payload.
LEMMA PerformStep ==
  ASSUME MeetInv, NEW c \in Creatures, chameneos!PerformMeet(c)
  PROVE  MeetInv'
<1>1. /\ m_pc[c] = "loop" /\ m_pc' = [m_pc EXCEPT ![c] = "performs"]
      /\ mate' = [mate EXCEPT ![c] = chameneos!Meet(c, col[c])]
      /\ UNCHANGED <<m_program, col, met, self_met, mail, requests, broker, count, held, total>>
  BY DEF chameneos!PerformMeet, chameneos!GoesTo, chameneos!brokerVars
<1>2. MeetTypes /\ NotItself(c) /\ col[c] \in Int /\ c \in Nat
  BY CreaturesAre DEF MeetInv, MeetTypes
<1>3. chameneos!Meet(c, col[c]) \in Letters
  BY <1>2 DEF chameneos!Meet, Letters
<1>4. /\ m_pc'[c] = "performs" /\ mate'[c] = chameneos!Meet(c, col[c])
      /\ m_pc' \in [Creatures -> {"none", "born", "loop", "performs", "waits", "told", "return", "done"}]
      /\ mate' \in [Creatures -> Letters]
      /\ \A d \in Creatures \ {c} : m_pc'[d] = m_pc[d] /\ mate'[d] = mate[d]
  BY <1>1, <1>2, <1>3 DEF MeetTypes
<1>5. MeetTypes'
  BY <1>1, <1>2, <1>4 DEF MeetTypes
<1>6. ~Over(c) /\ ~Over(c)'
  BY <1>1, <1>4 DEF Over
<1>7. NotItself(c)'
  BY <1>1, <1>2, <1>4 DEF NotItself, chameneos!Meet
<1>8. MeetingsOf(c)' = MeetingsOf(c)
  BY <1>1, <1>4 DEF MeetingsOf, Coming
<1>9. CASE chameneos!Actors
  <2>1. Mails(c) /\ OneRequest /\ ReportsLast
    BY <1>9 DEF MeetInv, Programmed
  <2>2. Mails(c)'
    BY <1>1, <1>4, <1>6, <2>1 DEF Mails, Ending, Finalized
  <2>3. \A k \in Nat : ~Holding(k, c) /\ (Requested(k, c) => Over(c)')
    BY <1>1, <1>6, <1>9, NoRequest
  <2>4. OneRequest' /\ ReportsLast' /\ Reported' = Reported
    BY <1>1, <1>4, <2>1, <2>3, RequestsStay
  <2> QED
    BY <1>1, <1>4, <1>5, <1>7, <1>8, <1>9, <2>2, <2>4, OneCreature
<1>10. CASE ~chameneos!Actors
  <2>1. Directed(c)
    BY <1>10 DEF MeetInv, Programmed
  <2>2. Directed(c)'
    BY <1>1, <1>4, <1>6, <2>1 DEF Directed
  <2>3. Reported' = Reported
    BY <1>1, <1>4 DEF Reported, Reports
  <2> QED
    BY <1>1, <1>4, <1>5, <1>7, <1>8, <1>10, <2>2, <2>3, OneCreature
<1> QED
  BY <1>9, <1>10

\* A creature takes its mail: its colour when it is born, then an answer or the end.
LEMMA TakesMail ==
  ASSUME NEW c \in Creatures, MeetTypes, Mails(c), mail[c] # <<>>, m_pc[c] \in {"born", "waits"}
  PROVE  /\ Head(mail[c]) \in Letters /\ Tail(mail[c]) \in Seq(Letters) /\ ~Over(c)
         /\ Head(mail[c]).finish => /\ m_pc[c] = "waits" /\ Finalized(c) /\ mail[c] = Ending(c)
                                    /\ Tail(mail[c]) = <<>> /\ Head(mail[c]) = chameneos!End
         /\ ~Head(mail[c]).finish => /\ Tail(mail[c]) = Ending(c)
                                     /\ mail[c] # Ending(c)
                                     /\ m_pc[c] = "waits" => Head(mail[c]).who # c
<1>1. mail[c] \in Seq(Letters) /\ ~Over(c)
  BY DEF MeetTypes, Over
<1>2. Head(mail[c]) \in Letters /\ Tail(mail[c]) \in Seq(Letters)
  BY <1>1
<1>3. chameneos!End.finish = TRUE
  BY DEF chameneos!End, chameneos!Nothing
<1>4. CASE mail[c] = Ending(c)
  <2>1. Finalized(c) /\ mail[c] = <<chameneos!End>>
    BY <1>4 DEF Ending
  <2>2. Head(mail[c]) = chameneos!End /\ Tail(mail[c]) = <<>>
    BY <2>1
  <2>3. m_pc[c] = "waits"
    <3>1. ASSUME m_pc[c] = "born" PROVE FALSE
      <4>1. PICK m \in Letters : ~m.finish /\ mail[c] = After(m, c)
        BY <3>1 DEF Mails
      <4>2. Head(mail[c]) = m
        BY <4>1 DEF After
      <4> QED
        BY <1>3, <2>2, <4>1, <4>2
    <3> QED
      BY <3>1
  <2> QED
    BY <1>1, <1>2, <1>3, <1>4, <2>1, <2>2, <2>3
<1>5. CASE mail[c] # Ending(c)
  <2>1. PICK m \in Letters : /\ ~m.finish /\ mail[c] = After(m, c)
                             /\ m_pc[c] = "waits" => m.who # c
    BY <1>5 DEF Mails, AnswerIsThere
  <2>2. Head(mail[c]) = m /\ Tail(mail[c]) = Ending(c)
    BY <2>1 DEF After, Ending
  <2> QED
    BY <1>1, <1>2, <1>5, <2>1, <2>2
<1> QED
  BY <1>4, <1>5

\* A creature takes its colour from the broker's first message.
LEMMA BornStep ==
  ASSUME MeetInv, NEW c \in Creatures, chameneos!Born(c)
  PROVE  MeetInv'
<1>1. /\ m_pc[c] = "born" /\ mail[c] # <<>> /\ m_pc' = [m_pc EXCEPT ![c] = "loop"]
      /\ col' = [col EXCEPT ![c] = Head(mail[c]).col]
      /\ mail' = [mail EXCEPT ![c] = Tail(@)]
      /\ UNCHANGED <<m_program, mate, met, self_met, requests, broker, count, held, total>>
  BY DEF chameneos!Born, chameneos!GoesTo, chameneos!brokerVars
<1>2. MeetTypes /\ NotItself(c)
  BY DEF MeetInv
<1>3. chameneos!Actors /\ Mails(c) /\ OneRequest /\ ReportsLast
  BY <1>1 DEF MeetInv, Programmed, Directed
<1>4. /\ Head(mail[c]) \in Letters /\ Tail(mail[c]) \in Seq(Letters) /\ ~Over(c)
      /\ Tail(mail[c]) = Ending(c)
  BY <1>1, <1>2, <1>3, TakesMail DEF Letters
<1>5. Head(mail[c]).col \in Int
  BY <1>4 DEF Letters
<1>6. /\ m_pc'[c] = "loop" /\ mail'[c] = Ending(c) /\ col' \in [Creatures -> Int]
      /\ m_pc' \in [Creatures -> {"none", "born", "loop", "performs", "waits", "told", "return", "done"}]
      /\ mail' \in [Creatures -> Seq(Letters)]
      /\ \A d \in Creatures \ {c} : m_pc'[d] = m_pc[d] /\ mail'[d] = mail[d]
  BY <1>1, <1>2, <1>4, <1>5 DEF MeetTypes
<1>7. MeetTypes'
  BY <1>1, <1>2, <1>6 DEF MeetTypes
<1>8. ~Over(c)' /\ NotItself(c)' /\ MeetingsOf(c)' = MeetingsOf(c)
  BY <1>1, <1>2, <1>6 DEF Over, NotItself, MeetingsOf, Coming
<1>9. Mails(c)'
  BY <1>1, <1>6, <1>8 DEF Mails, Ending, Finalized
<1>10. \A k \in Nat : ~Holding(k, c) /\ (Requested(k, c) => Over(c)')
  BY <1>1, <1>3, <1>4, NoRequest
<1>11. OneRequest' /\ ReportsLast' /\ Reported' = Reported
  BY <1>1, <1>3, <1>6, <1>10, RequestsStay
<1> QED
  BY <1>1, <1>3, <1>6, <1>7, <1>8, <1>9, <1>11, OneCreature

\* A creature that waits takes the answer, or the end.
LEMMA ReceiveStep ==
  ASSUME MeetInv, NEW c \in Creatures, chameneos!Receive(c)
  PROVE  MeetInv'
<1> DEFINE m == Head(mail[c])
<1>1. /\ m_pc[c] = "waits" /\ mail[c] # <<>> /\ m_pc' = [m_pc EXCEPT ![c] = "told"]
      /\ mate' = [mate EXCEPT ![c] = m]
      /\ mail' = [mail EXCEPT ![c] = Tail(@)]
      /\ UNCHANGED <<m_program, col, met, self_met, requests, broker, count, held, total>>
  BY DEF chameneos!Receive, chameneos!GoesTo, chameneos!brokerVars
<1>2. MeetTypes /\ NotItself(c)
  BY DEF MeetInv
<1>3. chameneos!Actors /\ Mails(c) /\ OneRequest /\ ReportsLast
  BY <1>1 DEF MeetInv, Programmed, Directed
<1>4. /\ m \in Letters /\ Tail(mail[c]) \in Seq(Letters) /\ ~Over(c)
      /\ m.finish => Finalized(c) /\ Tail(mail[c]) = <<>> /\ mail[c] = Ending(c)
      /\ ~m.finish => Tail(mail[c]) = Ending(c) /\ m.who # c /\ mail[c] # Ending(c)
  BY <1>1, <1>2, <1>3, TakesMail
<1>5. /\ m_pc'[c] = "told" /\ mate'[c] = m /\ mail'[c] = Tail(mail[c])
      /\ m_pc' \in [Creatures -> {"none", "born", "loop", "performs", "waits", "told", "return", "done"}]
      /\ mail' \in [Creatures -> Seq(Letters)] /\ mate' \in [Creatures -> Letters]
      /\ \A d \in Creatures \ {c} : m_pc'[d] = m_pc[d] /\ mail'[d] = mail[d] /\ mate'[d] = mate[d]
  BY <1>1, <1>2, <1>4 DEF MeetTypes
<1>6. MeetTypes'
  BY <1>1, <1>2, <1>5 DEF MeetTypes
<1>7. (Over(c)' <=> m.finish) /\ NotItself(c)' /\ MeetingsOf(c)' = MeetingsOf(c)
  BY <1>1, <1>2, <1>4, <1>5 DEF Over, NotItself, MeetingsOf, Coming
<1>8. Mails(c)'
  BY <1>1, <1>4, <1>5, <1>7 DEF Mails, Ending, Finalized
<1>9. \A k \in Nat : ~Holding(k, c) /\ (Requested(k, c) => Over(c)')
  BY <1>1, <1>3, <1>4, <1>7 DEF OneRequest
<1>10. OneRequest' /\ ReportsLast' /\ Reported' = Reported
  BY <1>1, <1>3, <1>5, <1>9, RequestsStay
<1> QED
  BY <1>1, <1>3, <1>5, <1>6, <1>7, <1>8, <1>10, OneCreature

\* A request, or a report, that is added behind the others.
LEMMA AddedRequest ==
  ASSUME MeetTypes, NEW m \in Letters, requests' = Append(requests, m)
  PROVE  LET n == Len(requests) + 1 IN
         /\ n \in Nat /\ requests' \in Seq(Letters) /\ n \in DOMAIN requests' /\ requests'[n] = m
         /\ \A k \in DOMAIN requests : k \in Nat /\ k < n
         /\ \A k \in DOMAIN requests' : k = n \/ k \in DOMAIN requests
         /\ \A k \in DOMAIN requests : k \in DOMAIN requests' /\ requests'[k] = requests[k]
<1>1. requests \in Seq(Letters)
  BY DEF MeetTypes
<1>2. /\ requests' \in Seq(Letters) /\ Len(requests') = Len(requests) + 1
      /\ DOMAIN requests' = 1 .. Len(requests) + 1
      /\ requests'[Len(requests) + 1] = m /\ \A k \in 1 .. Len(requests) : requests'[k] = requests[k]
  BY <1>1, AppendedTo
<1>3. Len(requests) \in Nat /\ DOMAIN requests = 1 .. Len(requests)
  BY <1>1
<1> QED
  BY <1>2, <1>3

\* A creature that asks has no other request.
LEMMA RequestStep ==
  ASSUME MeetInv, NEW c \in Creatures, chameneos!chameneos(c) \/ chameneos!chameneos_wrapper(c)
  PROVE  MeetInv'
<1> DEFINE m == chameneos!Meet(c, col[c])
<1> DEFINE n == Len(requests) + 1
<1>1. /\ m_pc[c] \in {"loop", "performs"} /\ m_pc' = [m_pc EXCEPT ![c] = "waits"]
      /\ requests' = Append(requests, m) /\ chameneos!Actors
      /\ UNCHANGED <<m_program, col, met, self_met, mate, mail, broker, count, held, total>>
  BY DEF chameneos!chameneos, chameneos!chameneos_wrapper, chameneos!Ask, chameneos!GoesTo,
         chameneos!brokerVars, chameneos!Actors
<1>2. MeetTypes /\ NotItself(c) /\ col[c] \in Int /\ c \in Nat
      /\ Mails(c) /\ OneRequest /\ ReportsLast
  BY <1>1, CreaturesAre DEF MeetInv, MeetTypes, Programmed
<1>3. m \in Letters /\ m.who = c /\ ~m.finish
  BY <1>2 DEF chameneos!Meet, Letters
<1> HIDE DEF m
<1>4. /\ n \in Nat /\ requests' \in Seq(Letters) /\ n \in DOMAIN requests' /\ requests'[n] = m
      /\ \A k \in DOMAIN requests : k \in Nat /\ k < n
      /\ \A k \in DOMAIN requests' : k = n \/ k \in DOMAIN requests
      /\ \A k \in DOMAIN requests : k \in DOMAIN requests' /\ requests'[k] = requests[k]
  BY <1>1, <1>2, <1>3, AddedRequest
<1> HIDE DEF n
<1>5. /\ m_pc'[c] = "waits" /\ \A d \in Creatures \ {c} : m_pc'[d] = m_pc[d]
      /\ m_pc' \in [Creatures -> {"none", "born", "loop", "performs", "waits", "told", "return", "done"}]
  BY <1>1, <1>2 DEF MeetTypes
<1>6. MeetTypes'
  BY <1>1, <1>2, <1>4, <1>5 DEF MeetTypes
<1>7. ~Over(c) /\ ~Over(c)' /\ mail[c] = Ending(c) /\ Ending(c)' = Ending(c)
  BY <1>1, <1>2, <1>5 DEF Over, Mails, Ending, Finalized
<1>8. NotItself(c)' /\ Mails(c)'
  BY <1>1, <1>2, <1>5, <1>7 DEF NotItself, Mails
<1>9. MeetingsOf(c)' = MeetingsOf(c)
  <2>1. ~Coming(c)
    BY <1>1 DEF Coming
  <2>2. ~Coming(c)'
    BY <1>1, <1>5, <1>7 DEF Coming, Ending, chameneos!End, chameneos!Nothing
  <2> QED
    BY <1>1, <2>1, <2>2 DEF MeetingsOf
<1>10. \A k \in Nat : ~Holding(k, c) /\ ~Requested(k, c) /\ ~Reports(k, c)
  BY <1>1, <1>2, <1>7, NoRequest DEF ReportsLast
<1>11. \A k \in Nat, d \in Creatures :
         /\ Holding(k, d)' <=> Holding(k, d)
         /\ Reports(k, d)' <=> Reports(k, d)
         /\ Requested(k, d)' <=> Requested(k, d) \/ (k = n /\ d = c)
  BY <1>1, <1>3, <1>4 DEF Holding, Reports, Requested
<1>12. \A d \in Creatures \ {c} : (Over(d)' <=> Over(d)) /\ Ending(d)' = Ending(d)
  BY <1>1, <1>5 DEF Over, Ending, Finalized
<1>13. OneRequest'
  BY <1>1, <1>2, <1>5, <1>7, <1>10, <1>11, <1>12 DEF OneRequest
<1>14. ReportsLast'
  <2>1. \A k \in DOMAIN requests' : requests'[k].who \in Creatures
    BY <1>2, <1>3, <1>4 DEF ReportsLast
  <2>2. \A d \in Creatures, k \in Nat :
          Reports(k, d)' => m_pc'[d] = "done" /\ requests'[k].col = met'[d]
    BY <1>1, <1>2, <1>4, <1>5, <1>10, <1>11 DEF ReportsLast, Reports
  <2>3. \A d \in Creatures, j, k \in Nat :
          /\ Reports(j, d)' /\ Reports(k, d)' => j = k
          /\ Requested(j, d)' /\ m_pc'[d] = "done" => \E i \in Nat : i > j /\ Reports(i, d)'
    BY <1>2, <1>5, <1>11 DEF ReportsLast
  <2> QED
    BY <2>1, <2>2, <2>3 DEF ReportsLast
<1>15. Reported' = Reported
  BY <1>1, <1>5, <1>11 DEF Reported
<1> QED
  BY <1>1, <1>5, <1>6, <1>8, <1>9, <1>13, <1>14, <1>15, OneCreature

\* A creature reports what it counted, once, behind all it has asked.
LEMMA ReportStep ==
  ASSUME MeetInv, NEW c \in Creatures, chameneos!Report(c)
  PROVE  MeetInv'
<1> DEFINE m == [finish |-> TRUE, who |-> c, col |-> met[c]]
<1> DEFINE n == Len(requests) + 1
<1>1. /\ m_pc[c] = "return" /\ m_pc' = [m_pc EXCEPT ![c] = "done"]
      /\ requests' = Append(requests, m) /\ chameneos!Actors
      /\ UNCHANGED <<m_program, col, met, self_met, mate, mail, broker, count, held, total>>
  BY DEF chameneos!Report, chameneos!GoesTo, chameneos!brokerVars
<1>2. MeetTypes /\ NotItself(c) /\ met[c] \in Int /\ c \in Nat
      /\ Mails(c) /\ OneRequest /\ ReportsLast
  <2>1. MeetTypes /\ NotItself(c) /\ Mails(c) /\ OneRequest /\ ReportsLast
    BY <1>1 DEF MeetInv, Programmed
  <2>2. met[c] \in Nat
    BY <2>1 DEF MeetTypes
  <2> QED
    BY <2>1, <2>2, CreaturesAre
<1>3. m \in Letters /\ m.who = c /\ m.finish /\ m.col = met[c]
  BY <1>2 DEF Letters
<1> HIDE DEF m
<1>4. /\ n \in Nat /\ requests' \in Seq(Letters) /\ n \in DOMAIN requests' /\ requests'[n] = m
      /\ \A k \in DOMAIN requests : k \in Nat /\ k < n
      /\ \A k \in DOMAIN requests' : k = n \/ k \in DOMAIN requests
      /\ \A k \in DOMAIN requests : k \in DOMAIN requests' /\ requests'[k] = requests[k]
  BY <1>1, <1>2, <1>3, AddedRequest
<1> HIDE DEF n
<1>5. /\ m_pc'[c] = "done" /\ \A d \in Creatures \ {c} : m_pc'[d] = m_pc[d]
      /\ m_pc' \in [Creatures -> {"none", "born", "loop", "performs", "waits", "told", "return", "done"}]
  BY <1>1, <1>2 DEF MeetTypes
<1>6. MeetTypes'
  BY <1>1, <1>2, <1>4, <1>5 DEF MeetTypes
<1>7. Over(c) /\ Over(c)'
  BY <1>1, <1>5 DEF Over
<1>8. NotItself(c)' /\ Mails(c)'
  BY <1>1, <1>2, <1>5, <1>7 DEF NotItself, Mails, Finalized
<1>9. MeetingsOf(c)' = MeetingsOf(c)
  BY <1>1, <1>5 DEF MeetingsOf, Coming
<1>10. \A k \in Nat : ~Holding(k, c) /\ ~Reports(k, c)
  BY <1>1, <1>2, <1>7, NoRequest DEF ReportsLast
<1>11. \A k \in Nat, d \in Creatures :
         /\ Holding(k, d)' <=> Holding(k, d)
         /\ Reports(k, d)' <=> Reports(k, d) \/ (k = n /\ d = c)
         /\ Requested(k, d)' <=> Requested(k, d)
  BY <1>1, <1>3, <1>4 DEF Holding, Reports, Requested
<1>12. \A d \in Creatures \ {c} : (Over(d)' <=> Over(d)) /\ Ending(d)' = Ending(d)
  BY <1>1, <1>5 DEF Over, Ending, Finalized
<1>13. OneRequest'
  BY <1>1, <1>2, <1>5, <1>7, <1>10, <1>11, <1>12 DEF OneRequest
<1>14. ReportsLast'
  <2>1. \A k \in DOMAIN requests' : requests'[k].who \in Creatures
    BY <1>2, <1>3, <1>4 DEF ReportsLast
  <2>2. ASSUME NEW d \in Creatures, NEW k \in Nat, Reports(k, d)'
        PROVE  m_pc'[d] = "done" /\ requests'[k].col = met'[d]
    <3>1. CASE Reports(k, d)
      BY <1>1, <1>2, <1>4, <1>5, <1>10, <3>1 DEF ReportsLast, Reports
    <3>2. CASE k = n /\ d = c
      BY <1>1, <1>3, <1>4, <1>5, <3>2
    <3> QED
      BY <1>11, <2>2, <3>1, <3>2
  <2>3. \A d \in Creatures, j, k \in Nat :
          /\ Reports(j, d)' /\ Reports(k, d)' => j = k
          /\ Requested(j, d)' /\ m_pc'[d] = "done" => \E i \in Nat : i > j /\ Reports(i, d)'
    <3>1. \A j \in Nat : Requested(j, c) => n > j
      BY <1>4 DEF Requested
    <3> QED
      BY <1>2, <1>4, <1>5, <1>10, <1>11, <3>1 DEF ReportsLast
  <2> QED
    BY <2>1, <2>2, <2>3 DEF ReportsLast
<1>15. Reported' = Reported
  <2>1. c \notin Reported /\ c \notin Reported'
    BY <1>1, <1>4, <1>11 DEF Reported
  <2> QED
    BY <1>1, <1>5, <1>11, <2>1 DEF Reported
<1> QED
  BY <1>1, <1>5, <1>6, <1>8, <1>9, <1>13, <1>14, <1>15, OneCreature

\* Mail that is sent is last in the mailbox.
LEMMA SendIs ==
  ASSUME MeetTypes, NEW c \in Creatures, NEW m \in Letters, chameneos!Send(c, m)
  PROVE  /\ mail'[c] = Append(mail[c], m) /\ mail' \in [Creatures -> Seq(Letters)]
         /\ \A d \in Creatures \ {c} : mail'[d] = mail[d]
<1>1. mail' = [mail EXCEPT ![c] = Append(@, m)] /\ mail[c] \in Seq(Letters)
  BY DEF chameneos!Send, MeetTypes
<1>2. Append(mail[c], m) \in Seq(Letters)
  BY <1>1
<1> QED
  BY <1>1, <1>2 DEF MeetTypes

\* What is counted, when the requests and the creatures are as they were.
LEMMA SameReported ==
  ASSUME requests' = requests, m_pc' = m_pc
  PROVE  Reported' = Reported
BY DEF Reported, Reports

\* Nobody has reported before the creatures are told to end.
LEMMA NoReports ==
  ASSUME MeetInv, chameneos!Actors, NEW c \in Creatures, ~Finalized(c)
  PROVE  ~Over(c) /\ \A k \in Nat : ~Reports(k, c)
BY DEF MeetInv, Programmed, Mails, ReportsLast, Over

\* The broker spawns the next creature.
LEMMA SpawnStep == ASSUME MeetInv, chameneos!Spawn PROVE MeetInv'
<1>0. PICK c \in Creatures : c = count + 1
  BY CreaturesAre DEF chameneos!Spawn, MeetInv, Phases, MeetTypes
<1> DEFINE m == chameneos!Meet(0, creatureColours[c])
<1>1. /\ chameneos!Actors /\ broker = "spawn" /\ m_pc' = [m_pc EXCEPT ![c] = "born"]
      /\ chameneos!Send(c, m)
      /\ broker' = IF c = N THEN "pair" ELSE "spawn"
      /\ count' = IF c = N THEN 0 ELSE c
      /\ UNCHANGED <<m_program, col, met, self_met, mate, requests, held, total>>
  BY <1>0, CreaturesAre
     DEF chameneos!Spawn, chameneos!GoesTo, chameneos!Turn, Creatures, chameneos!brokerVars
<1>2. MeetTypes /\ count \in Nat /\ count < N /\ held = <<>> /\ Reported = {}
      /\ (\A d \in Creatures : m_pc[d] = "none" <=> d > count)
      /\ OneRequest /\ ReportsLast /\ \A d \in Creatures : Mails(d)
  BY <1>1 DEF MeetInv, Phases, MeetTypes, Programmed
<1>3. Creatures = 1 .. N /\ N \in Nat /\ creatureColours[c] \in Int
      /\ MEETINGS \in Nat
  BY CreaturesAre
<1>4. c \in Nat /\ c > count /\ \A d \in Creatures : d > c <=> d # c /\ d > count
  BY <1>0, <1>2, <1>3
<1>5. m \in Letters /\ ~m.finish /\ m_pc[c] = "none" /\ mail[c] = <<>>
  <2>1. m_pc[c] = "none"
    BY <1>2, <1>3, <1>4
  <2>2. mail[c] = <<>>
    BY <1>2, <1>3, <2>1 DEF Mails
  <2> QED
    BY <1>3, <2>1, <2>2 DEF chameneos!Meet, Letters
<1> HIDE DEF m
<1>6. /\ mail'[c] = <<m>> /\ mail' \in [Creatures -> Seq(Letters)]
      /\ \A d \in Creatures \ {c} : mail'[d] = mail[d]
  <2>1. mail'[c] = Append(mail[c], m)
    BY <1>1, <1>2, <1>3, <1>5, SendIs
  <2> QED
    BY <1>1, <1>2, <1>3, <1>5, <2>1, SendIs
<1>7. /\ m_pc'[c] = "born" /\ \A d \in Creatures \ {c} : m_pc'[d] = m_pc[d]
      /\ m_pc' \in [Creatures -> {"none", "born", "loop", "performs", "waits", "told", "return", "done"}]
  BY <1>1, <1>2, <1>3 DEF MeetTypes
<1>8. MeetTypes'
  BY <1>1, <1>2, <1>4, <1>6, <1>7 DEF MeetTypes
<1>9. \A d \in Creatures : ~Finalized(d) /\ ~Finalized(d)'
  BY <1>1 DEF Finalized
<1>10. \A d \in Creatures : Mails(d)'
  <2>1. Mails(c)'
    BY <1>5, <1>6, <1>7, <1>9 DEF Mails, Over, After
  <2>2. ASSUME NEW d \in Creatures \ {c} PROVE Mails(d)'
    <3>1. m_pc[d] = "none" => broker' = "spawn"
      BY <1>1, <1>2, <1>3, <1>4
    <3> QED
      BY <1>1, <1>2, <1>6, <1>7, <1>9, <3>1, SameMails
  <2> QED
    BY <2>1, <2>2
<1>11. \A k \in Nat, d \in Creatures :
         ~Holding(k, d) /\ ~Holding(k, d)' /\ ~Reports(k, d) /\ ~Reports(k, d)'
         /\ (Requested(k, d)' <=> Requested(k, d)) /\ (Requested(k, d) => d # c)
  <2>1. \A k \in Nat, d \in Creatures : ~Holding(k, d) /\ ~Holding(k, d)'
    BY <1>1, <1>2 DEF Holding
  <2>2. \A k \in Nat, d \in Creatures : ~Reports(k, d) /\ ~Over(d)
    BY <1>1, <1>9, NoReports
  <2>3. \A k \in Nat, d \in Creatures : ~Reports(k, d)' /\ (Requested(k, d)' <=> Requested(k, d))
    BY <1>1, <2>2 DEF Reports, Requested
  <2>4. \A k \in Nat, d \in Creatures : Requested(k, d) => m_pc[d] = "waits"
    BY <1>2, <2>2 DEF OneRequest
  <2> QED
    BY <1>5, <2>1, <2>2, <2>3, <2>4
<1>12. OneRequest'
  <2>1. \A d \in Creatures \ {c} : (Over(d)' <=> Over(d)) /\ Ending(d)' = Ending(d)
    BY <1>1, <1>7, <1>9 DEF Over, Ending
  <2> QED
    BY <1>1, <1>2, <1>6, <1>7, <1>11, <2>1 DEF OneRequest
<1>13. ReportsLast'
  <2>1. \A d \in Creatures : m_pc'[d] # "done"
    BY <1>1, <1>7, <1>9, NoReports DEF Over
  <2> QED
    BY <1>1, <1>2, <1>11, <2>1 DEF ReportsLast
<1>14. Reported' = {}
  <2>1. \A d \in Creatures : m_pc'[d] # "done"
    BY <1>1, <1>7, <1>9, NoReports DEF Over
  <2> QED
    BY <2>1 DEF Reported
<1>15. Phases'
  <2>1. c = N => \A d \in Creatures : ~(d > c)
    BY <1>3
  <2>2. \A d \in Creatures : m_pc'[d] = "none" <=> d > c
    BY <1>2, <1>4, <1>7
  <2>3. c # N => c < N
    BY <1>3
  <2> QED
    BY <1>1, <1>2, <1>3, <1>14, <2>1, <2>2, <2>3 DEF Phases
<1>16. \A d \in Creatures : NotItself(d)' /\ MeetingsOf(d)' = MeetingsOf(d)
  <2>1. NotItself(c)' /\ MeetingsOf(c)' = MeetingsOf(c)
    BY <1>1, <1>3, <1>5, <1>7 DEF MeetInv, NotItself, MeetingsOf, Coming
  <2> QED
    BY <1>1, <1>6, <1>7, <2>1 DEF MeetInv, NotItself, MeetingsOf, Coming
<1>17. MeetsCounted'
  <2>1. Meets' = Meets
    BY <1>16 DEF Meets
  <2>2. Made' = 0 /\ Made = 0
    BY <1>1 DEF Made
  <2> QED
    BY <1>1, <1>2, <1>14, <2>1, <2>2 DEF MeetInv, MeetsCounted
<1> QED
  BY <1>1, <1>8, <1>10, <1>12, <1>13, <1>15, <1>16, <1>17 DEF MeetInv, Programmed, chameneos!Actors

\* The requests behind the first, in the places before theirs.
LEMMA TakenRequest ==
  ASSUME MeetTypes, requests # <<>>, requests' = Tail(requests)
  PROVE  /\ requests' \in Seq(Letters) /\ Head(requests) = requests[1] /\ 1 \in DOMAIN requests
         /\ \A k \in Nat : k \in DOMAIN requests' <=> k # 0 /\ k + 1 \in DOMAIN requests
         /\ \A k \in DOMAIN requests' : k \in Nat /\ requests'[k] = requests[k + 1]
         /\ 0 \notin DOMAIN requests
<1>1. requests \in Seq(Letters) /\ Len(requests) \in Nat /\ Len(requests) > 0
      /\ DOMAIN requests = 1 .. Len(requests)
  BY DEF MeetTypes
<1>2. /\ requests' \in Seq(Letters) /\ Head(requests) = requests[1]
      /\ DOMAIN requests' = 1 .. Len(requests) - 1
      /\ \A k \in 1 .. Len(requests) - 1 : requests'[k] = requests[k + 1]
  BY <1>1
<1> QED
  BY <1>1, <1>2

\* The broker takes a request, never a report: nobody has been told to end.
LEMMA CollectStep == ASSUME MeetInv, chameneos!Collect PROVE MeetInv'
<1> DEFINE m == Head(requests)
<1>1. /\ chameneos!Actors /\ broker = "pair" /\ count < MEETINGS /\ requests # <<>>
      /\ held' = Append(held, m) /\ requests' = Tail(requests)
      /\ broker' = IF held = <<>> THEN "pair" ELSE "answer"
      /\ UNCHANGED <<m_program, m_pc, col, met, self_met, mate, mail, count, total>>
  BY DEF chameneos!Collect, chameneos!Turn, chameneos!creature
<1>2. MeetTypes /\ count \in Nat /\ held \in Seq(Letters) /\ Len(held) =< 1 /\ Reported = {}
      /\ OneRequest /\ ReportsLast /\ \A d \in Creatures : Mails(d)
  BY <1>1 DEF MeetInv, Phases, MeetTypes, Programmed
<1>3. /\ requests' \in Seq(Letters) /\ m = requests[1] /\ 1 \in DOMAIN requests
      /\ \A k \in Nat : k \in DOMAIN requests' <=> k # 0 /\ k + 1 \in DOMAIN requests
      /\ \A k \in DOMAIN requests' : k \in Nat /\ requests'[k] = requests[k + 1]
      /\ 0 \notin DOMAIN requests
  BY <1>1, <1>2, TakenRequest
<1>4. \A d \in Creatures : ~Finalized(d) /\ ~Finalized(d)' /\ ~Over(d) /\ \A k \in Nat : ~Reports(k, d)
  <2>1. \A d \in Creatures : ~Finalized(d) /\ ~Finalized(d)'
    BY <1>1 DEF Finalized
  <2> QED
    BY <1>1, <2>1, NoReports
<1>5. m \in Letters /\ m.finish \in BOOLEAN /\ m.who \in Creatures
  BY <1>1, <1>2, <1>3, LettersIn DEF MeetTypes, ReportsLast
<1>6. PICK c \in Creatures : c = m.who
  BY <1>5
<1>7. ~m.finish /\ Requested(1, c)
  <2>1. ~Reports(1, c)
    BY <1>4
  <2> QED
    BY <1>3, <1>5, <1>6, <2>1 DEF Reports, Requested
<1>8. m_pc[c] = "waits" /\ mail[c] = <<>> /\ \A k \in Nat : ~Holding(k, c)
  <2>1. m_pc[c] = "waits" /\ mail[c] = Ending(c)
    BY <1>2, <1>4, <1>7 DEF OneRequest
  <2> QED
    BY <1>2, <1>4, <1>7, <2>1 DEF OneRequest, Ending
<1>9. PICK n \in {1, 2} : n = Len(held) + 1
  BY <1>2
<1>10. PICK r \in Letters : r = m
  BY <1>5
<1> HIDE DEF m
<1>11. /\ held' \in Seq(Letters) /\ Len(held') = n /\ DOMAIN held' = 1 .. n
       /\ held'[n] = r /\ \A k \in DOMAIN held : held'[k] = held[k] /\ k # n
       /\ DOMAIN held' = DOMAIN held \cup {n} /\ (held = <<>> <=> n = 1)
  <2>1. /\ held' \in Seq(Letters) /\ Len(held') = Len(held) + 1 /\ DOMAIN held' = 1 .. Len(held) + 1
        /\ held'[Len(held) + 1] = r /\ \A k \in 1 .. Len(held) : held'[k] = held[k]
    BY <1>1, <1>2, <1>10, AppendedTo
  <2>2. DOMAIN held = 1 .. Len(held) /\ Len(held) \in Nat /\ (held = <<>> <=> Len(held) = 0)
    BY <1>2
  <2> QED
    BY <1>9, <2>1, <2>2
<1>12. broker' \in {"pair", "answer"} /\ (broker' = "pair" <=> n = 1)
  BY <1>1, <1>11
<1>13. MeetTypes'
  BY <1>1, <1>2, <1>3, <1>11, <1>12 DEF MeetTypes
<1>14. \A k \in Nat, d \in Creatures :
         /\ Holding(k, d)' <=> Holding(k, d) \/ (k = n /\ d = c)
         /\ Requested(k, d)' <=> k # 0 /\ Requested(k + 1, d)
         /\ ~Reports(k, d)'
  <2>1. \A k \in Nat, d \in Creatures : Holding(k, d)' <=> Holding(k, d) \/ (k = n /\ d = c)
    BY <1>1, <1>6, <1>10, <1>11, <1>12 DEF Holding
  <2>2. ASSUME NEW k \in Nat, NEW d \in Creatures
        PROVE  (Requested(k, d)' <=> k # 0 /\ Requested(k + 1, d)) /\ ~Reports(k, d)'
    <3>1. k + 1 \in Nat /\ ~Reports(k + 1, d)
      BY <1>4
    <3> QED
      BY <1>3, <3>1 DEF Requested, Reports
  <2> QED
    BY <2>1, <2>2
<1>15. \A d \in Creatures : Ending(d)' = <<>> /\ Ending(d) = <<>> /\ ~Over(d)'
  BY <1>1, <1>4 DEF Ending, Over
<1>16. OneRequest'
  <2>1. ASSUME NEW d \in Creatures, NEW j \in Nat, NEW k \in Nat
        PROVE  /\ Requested(j, d)' /\ Requested(k, d)' => j = k
               /\ Holding(j, d)' /\ Holding(k, d)' => j = k
               /\ ~(Requested(j, d)' /\ Holding(k, d)')
    <3>1. Requested(j, d)' /\ Requested(k, d)' => j = k
      <4>1. j + 1 \in Nat /\ k + 1 \in Nat
        OBVIOUS
      <4>2. Requested(j + 1, d) /\ Requested(k + 1, d) => j + 1 = k + 1
        BY <1>2, <4>1 DEF OneRequest
      <4> QED
        BY <1>14, <4>2
    <3>2. Holding(j, d)' /\ Holding(k, d)' => j = k
      BY <1>2, <1>8, <1>14 DEF OneRequest
    <3>3. ~(Requested(j, d)' /\ Holding(k, d)')
      <4>1. j + 1 \in Nat /\ (j # 0 => j + 1 # 1)
        OBVIOUS
      <4>2. Requested(j, d)' => Requested(j + 1, d) /\ j # 0
        BY <1>14
      <4>3. Requested(j + 1, d) /\ j # 0 => d # c /\ ~Holding(k, d)
        BY <1>2, <1>7, <4>1 DEF OneRequest
      <4> QED
        BY <1>14, <4>2, <4>3
    <3> QED
      BY <3>1, <3>2, <3>3
  <2>2. \A d \in Creatures, k \in Nat : Holding(k, d)' => m_pc'[d] = "waits" /\ mail'[d] = <<>>
    BY <1>1, <1>2, <1>8, <1>14 DEF OneRequest
  <2>3. \A d \in Creatures, k \in Nat : Requested(k, d)' => m_pc'[d] = "waits" /\ mail'[d] = Ending(d)'
    BY <1>1, <1>2, <1>4, <1>14, <1>15 DEF OneRequest
  <2>4. \A k \in DOMAIN held' : held'[k].who \in Creatures /\ ~held'[k].finish
    BY <1>2, <1>6, <1>7, <1>10, <1>11 DEF OneRequest
  <2>5. Len(held') = 2 => held'[1].who # held'[2].who
    <3>1. SUFFICES ASSUME n = 2 PROVE held'[1].who # held'[2].who
      BY <1>11
    <3>2. 1 \in DOMAIN held /\ held'[1] = held[1] /\ held'[2] = r
      BY <1>2, <1>9, <1>11, <3>1
    <3>3. held[1].who \in Creatures
      BY <1>2, <3>2 DEF OneRequest
    <3>4. Holding(1, held[1].who)
      BY <1>1, <3>2 DEF Holding
    <3> QED
      BY <1>6, <1>8, <1>10, <3>2, <3>3, <3>4
  <2> QED
    BY <2>1, <2>2, <2>3, <2>4, <2>5 DEF OneRequest
<1>17. ReportsLast' /\ Reported' = {}
  <2>1. \A d \in Creatures : m_pc'[d] # "done"
    BY <1>1, <1>4 DEF Over
  <2>2. \A k \in DOMAIN requests' : requests'[k].who \in Creatures
    BY <1>2, <1>3 DEF ReportsLast
  <2>3. ReportsLast'
    BY <1>14, <2>1, <2>2 DEF ReportsLast
  <2> QED
    BY <2>1, <2>3 DEF Reported
<1>18. Phases'
  <2>1. n = 1 => Len(held') =< 1
    BY <1>11
  <2>2. n = 2 => Len(held') = 2
    BY <1>11
  <2>3. count' < MEETINGS /\ count' =< MEETINGS
    BY <1>1, <1>2, CreaturesAre
  <2> QED
    BY <1>9, <1>12, <1>17, <2>1, <2>2, <2>3 DEF Phases
<1>19. \A d \in Creatures : NotItself(d)' /\ MeetingsOf(d)' = MeetingsOf(d) /\ Mails(d)'
  <2>1. ASSUME NEW d \in Creatures PROVE NotItself(d)' /\ MeetingsOf(d)' = MeetingsOf(d)
    BY <1>1 DEF MeetInv, NotItself, MeetingsOf, Coming
  <2>2. ASSUME NEW d \in Creatures PROVE Mails(d)'
    <3>1. m_pc[d] # "none"
      BY <1>1, <1>2 DEF Mails
    <3> QED
      BY <1>1, <1>2, <1>4, <3>1, SameMails
  <2> QED
    BY <2>1, <2>2
<1>20. MeetsCounted'
  <2>1. Meets' = Meets
    BY <1>19 DEF Meets
  <2>2. Made' = Made
    BY <1>1, <1>12 DEF Made
  <2> QED
    BY <1>1, <1>2, <1>17, <2>1, <2>2 DEF MeetInv, MeetsCounted
<1> QED
  BY <1>1, <1>12, <1>13, <1>16, <1>17, <1>18, <1>19, <1>20
     DEF MeetInv, Programmed, chameneos!Actors

\* What one meeting more of one creature does to the pairs that are counted.
LEMMA MeetsGrow ==
  ASSUME MeetTypes, MeetTypes', MeetsCounted, NEW c \in Creatures,
         MeetingsOf(c)' = MeetingsOf(c) + 1, \A d \in Creatures \ {c} : MeetingsOf(d)' = MeetingsOf(d)
  PROVE  IsFiniteSet(Meets') /\ Cardinality(Meets)' = Made + 1
<1> DEFINE f == [d \in Creatures |-> MeetingsOf(d)]
<1>1. \A d \in Creatures : MeetingsOf(d) \in Nat /\ MeetingsOf(d)' \in Nat
  <2>1. \A d \in Creatures : met[d] \in Nat /\ met'[d] \in Nat
    BY DEF MeetTypes
  <2>2. \A d \in Creatures : MeetingsOf(d) \in Nat
    BY <2>1 DEF MeetingsOf
  <2>3. \A d \in Creatures \ {c} : MeetingsOf(d)' \in Nat
    BY <2>2
  <2>4. MeetingsOf(c)' \in Nat
    BY <2>2
  <2> QED
    BY <2>2, <2>3, <2>4
<1>2. PICK g : g = f
  OBVIOUS
<1>3. PICK h : h = [d \in Creatures |-> MeetingsOf(d)']
  OBVIOUS
<1>4. g \in [Creatures -> Nat] /\ h = [g EXCEPT ![c] = @ + 1]
  BY <1>1, <1>2, <1>3
<1>5. Meets = PairsOf(g) /\ Meets' = PairsOf(h)
  BY <1>2, <1>3 DEF Meets, PairsOf
<1>6. IsFiniteSet(PairsOf(g)) /\ Cardinality(PairsOf(g)) = Made
  BY <1>5 DEF MeetsCounted
<1>7. IsFiniteSet(PairsOf(h)) /\ Cardinality(PairsOf(h)) = Cardinality(PairsOf(g)) + 1
  BY <1>4, <1>6, OneMore
<1> QED
  BY <1>5, <1>6, <1>7

\* An answer goes to a creature that waits for one.
LEMMA AnswerGoes ==
  ASSUME MeetInv, chameneos!Actors, broker \in {"answer", "answer_second"}, NEW a \in Creatures,
         NEW m \in Letters, ~m.finish, m.who # a, m_pc[a] = "waits", mail[a] = <<>>,
         \A k \in Nat : ~Requested(k, a),
         chameneos!Send(a, m), UNCHANGED <<m_program, m_pc, col, met, self_met, mate, requests, total>>,
         held' \in Seq(Letters), count' \in Nat, broker' \in {"answer_second", "pair"}, Phases',
         Made' = Made + 1, \A k \in Nat, d \in Creatures : Holding(k, d)' => Holding(k, d) /\ d # a,
         \A k \in DOMAIN held' : held'[k].who \in Creatures /\ ~held'[k].finish,
         Len(held') = 2 => held' = held
  PROVE  MeetInv'
<1>1. MeetTypes /\ Reported = {} /\ OneRequest /\ ReportsLast /\ \A d \in Creatures : Mails(d)
  BY DEF MeetInv, Phases, Programmed
<1>2. mail' \in [Creatures -> Seq(Letters)] /\ mail'[a] = <<m>>
      /\ \A d \in Creatures \ {a} : mail'[d] = mail[d]
  <2>1. mail'[a] = Append(mail[a], m)
    BY <1>1, SendIs
  <2> QED
    BY <1>1, <2>1, SendIs
<1>3. MeetTypes'
  BY <1>1, <1>2 DEF MeetTypes
<1>4. \A d \in Creatures : ~Finalized(d) /\ ~Finalized(d)' /\ ~Over(d) /\ \A k \in Nat : ~Reports(k, d)
  <2>1. \A d \in Creatures : ~Finalized(d) /\ ~Finalized(d)'
    BY DEF Finalized
  <2> QED
    BY <2>1, NoReports
<1>5. \A d \in Creatures : Ending(d)' = <<>> /\ Ending(d) = <<>> /\ ~Over(d)'
  BY <1>4 DEF Ending, Over
<1>6. \A k \in Nat, d \in Creatures : (Requested(k, d)' <=> Requested(k, d)) /\ ~Reports(k, d)'
  BY <1>4 DEF Requested, Reports
<1>7. OneRequest'
  <2>1. \A d \in Creatures, j, k \in Nat :
          /\ Requested(j, d)' /\ Requested(k, d)' => j = k
          /\ Holding(j, d)' /\ Holding(k, d)' => j = k
          /\ ~(Requested(j, d)' /\ Holding(k, d)')
    BY <1>1, <1>6 DEF OneRequest
  <2>2. \A d \in Creatures, k \in Nat : Holding(k, d)' => m_pc'[d] = "waits" /\ mail'[d] = <<>>
    BY <1>1, <1>2 DEF OneRequest
  <2>3. \A d \in Creatures, k \in Nat : Requested(k, d)' =>
           (m_pc'[d] = "waits" /\ mail'[d] = Ending(d)') \/ Over(d)'
    BY <1>1, <1>2, <1>4, <1>5, <1>6 DEF OneRequest
  <2>4. Len(held') = 2 => held'[1].who # held'[2].who
    BY <1>1 DEF OneRequest
  <2> QED
    BY <2>1, <2>2, <2>3, <2>4 DEF OneRequest
<1>8. ReportsLast' /\ Reported' = Reported
  <2>1. \A d \in Creatures : m_pc'[d] # "done"
    BY <1>4 DEF Over
  <2>2. ReportsLast'
    BY <1>1, <1>6, <2>1 DEF ReportsLast
  <2> QED
    BY <1>1, <2>1, <2>2 DEF Reported
<1>9. \A d \in Creatures : Mails(d)'
  <2>1. Mails(a)'
    <3>1. AnswerIsThere(a)'
      BY <1>2, <1>4 DEF AnswerIsThere, After
    <3> QED
      BY <1>5, <3>1 DEF Mails
  <2>2. ASSUME NEW d \in Creatures \ {a} PROVE Mails(d)'
    <3>1. m_pc[d] # "none"
      BY <1>1 DEF Mails
    <3> QED
      BY <1>1, <1>2, <1>4, <3>1, SameMails
  <2> QED
    BY <2>1, <2>2
<1>10. MeetingsOf(a)' = MeetingsOf(a) + 1
  <2>1. ~Coming(a) /\ Coming(a)'
    BY <1>2 DEF Coming
  <2>2. met[a] \in Nat
    BY <1>1 DEF MeetTypes
  <2> QED
    BY <2>1, <2>2 DEF MeetingsOf
<1>11. \A d \in Creatures : NotItself(d)' /\ (d # a => MeetingsOf(d)' = MeetingsOf(d))
  BY <1>2 DEF MeetInv, NotItself, MeetingsOf, Coming
<1>12. MeetsCounted'
  <2>1. IsFiniteSet(Meets') /\ Cardinality(Meets)' = Made'
    BY <1>1, <1>3, <1>10, <1>11, MeetsGrow DEF MeetInv
  <2>2. {p \in Meets' : p[1] \in Reported'} = {p \in Meets : p[1] \in Reported}
    BY <1>1, <1>8
  <2> QED
    BY <2>1, <2>2 DEF MeetInv, MeetsCounted
<1> QED
  BY <1>3, <1>7, <1>8, <1>9, <1>11, <1>12 DEF MeetInv, Programmed, chameneos!Actors

\* Each of the pair that the broker holds gets the request of the other.
LEMMA AnswerStep == ASSUME MeetInv, chameneos!AnswerPair PROVE MeetInv'
<1>1. /\ chameneos!Actors /\ broker \in {"answer", "answer_second"}
      /\ UNCHANGED <<m_program, m_pc, col, met, self_met, mate, requests, total>>
  BY DEF chameneos!AnswerPair, chameneos!creature
<1>2. MeetTypes /\ count \in Nat /\ count < MEETINGS /\ held \in Seq(Letters) /\ Len(held) = 2
      /\ OneRequest /\ MEETINGS \in Nat
  BY <1>1, CreaturesAre DEF MeetInv, Phases, MeetTypes, Programmed
<1>3. DOMAIN held = {1, 2} /\ held[1] \in Letters /\ held[2] \in Letters
  BY <1>2
<1>4. held[1].who \in Creatures /\ held[2].who \in Creatures /\ held[1].who # held[2].who
      /\ ~held[1].finish /\ ~held[2].finish
  BY <1>2, <1>3 DEF OneRequest
<1>5. PICK a \in Creatures, b \in Creatures : a = held[1].who /\ b = held[2].who /\ a # b
  BY <1>4
<1>6. PICK x \in Letters, y \in Letters : x = held[1] /\ y = held[2]
  BY <1>3
<1>7. Reported' = Reported /\ Reported = {}
  BY <1>1, SameReported DEF MeetInv, Phases
<1>8. CASE broker = "answer"
  <2>1. chameneos!Send(a, y) /\ broker' = "answer_second" /\ count' = count /\ held' = held
    BY <1>5, <1>6, <1>8 DEF chameneos!AnswerPair, chameneos!GetsOther, chameneos!Turn
  <2>2. Holding(1, a)
    BY <1>3, <1>5, <1>8 DEF Holding
  <2>3. m_pc[a] = "waits" /\ mail[a] = <<>> /\ \A k \in Nat : ~Requested(k, a)
    BY <1>2, <2>2 DEF OneRequest
  <2>4. \A k \in Nat, d \in Creatures : Holding(k, d)' => Holding(k, d) /\ d # a
    BY <1>3, <1>5, <1>8, <2>1 DEF Holding
  <2>5. Phases'
    BY <1>2, <1>7, <2>1 DEF Phases
  <2>6. Made' = Made + 1
    BY <1>2, <1>8, <2>1 DEF Made
  <2>7. \A k \in DOMAIN held' : held'[k].who \in Creatures /\ ~held'[k].finish
    BY <1>2, <2>1 DEF OneRequest
  <2> QED
    BY <1>1, <1>2, <1>4, <1>5, <1>6, <2>1, <2>3, <2>4, <2>5, <2>6, <2>7, AnswerGoes
<1>9. CASE broker = "answer_second"
  <2>1. chameneos!Send(b, x) /\ broker' = "pair" /\ count' = count + 1 /\ held' = <<>>
    BY <1>5, <1>6, <1>9 DEF chameneos!AnswerPair, chameneos!GetsOther, chameneos!Turn
  <2>2. Holding(2, b)
    BY <1>3, <1>5, <1>9 DEF Holding
  <2>3. m_pc[b] = "waits" /\ mail[b] = <<>> /\ \A k \in Nat : ~Requested(k, b)
    BY <1>2, <2>2 DEF OneRequest
  <2>4. held' \in Seq(Letters) /\ Len(held') = 0 /\ \A k \in DOMAIN held' : FALSE
    BY <2>1
  <2>5. \A k \in Nat, d \in Creatures : ~Holding(k, d)'
    BY <2>4 DEF Holding
  <2>6. Phases'
    BY <1>2, <1>7, <2>1, <2>4 DEF Phases
  <2>7. Made' = Made + 1
    BY <1>2, <1>9, <2>1 DEF Made
  <2>8. broker' \in {"answer_second", "pair"} /\ count' \in Nat
    BY <1>2, <2>1
  <2> QED
    BY <1>1, <1>2, <1>4, <1>5, <1>6, <2>1, <2>3, <2>4, <2>5, <2>6, <2>7, <2>8, AnswerGoes
<1> QED
  BY <1>1, <1>8, <1>9

\* The message that ends a creature.
LEMMA EndIs == chameneos!End \in Letters /\ chameneos!End.finish = TRUE
<1>1. chameneos!Nothing \in Letters
  BY DEF chameneos!Nothing, Letters
<1>2. \A r \in Letters : [r EXCEPT !.finish = TRUE] \in Letters
  BY DEF Letters
<1>3. chameneos!End \in Letters
  BY <1>1, <1>2 DEF chameneos!End
<1> QED
  BY <1>3 DEF chameneos!End, chameneos!Nothing

\* A message behind one other.
LEMMA SecondOf ==
  ASSUME NEW S, NEW m \in S, NEW x \in S
  PROVE  Append(<<m>>, x) = <<m, x>>
<1>1. PICK s : s = Append(<<m>>, x)
  OBVIOUS
<1>2. PICK t : t = <<m, x>>
  OBVIOUS
<1>3. s \in Seq(S) /\ t \in Seq(S) /\ Len(s) = 2 /\ Len(t) = 2
  BY <1>1, <1>2
<1>4. s[1] = m /\ s[2] = x /\ t[1] = m /\ t[2] = x
  BY <1>1, <1>2
<1>5. \A i \in 1 .. Len(s) : s[i] = t[i]
  BY <1>3, <1>4
<1> QED
  BY <1>1, <1>2, <1>3, <1>5, SeqEqual

\* The broker has paired all it was to pair.
LEMMA AllPaired ==
  ASSUME MeetInv, chameneos!Finalize, broker = "pair"
  PROVE  MeetInv'
<1>1. /\ chameneos!Actors /\ count = MEETINGS /\ broker' = "finalize" /\ count' = 0
      /\ UNCHANGED <<m_program, m_pc, col, met, self_met, mate, mail, requests, held, total>>
  BY DEF chameneos!Finalize, chameneos!creature, chameneos!Turn
<1>2. MeetTypes /\ held = <<>> /\ Reported = {} /\ OneRequest /\ ReportsLast
      /\ MEETINGS \in Nat /\ \A d \in Creatures : Mails(d)
  BY <1>1, CreaturesAre DEF MeetInv, Phases, Programmed
<1>3. MeetTypes'
  BY <1>1, <1>2 DEF MeetTypes
<1>4. \A d \in Creatures : ~Finalized(d) /\ ~Finalized(d)'
  <2>1. \A d \in Creatures : d \in Nat /\ ~(d =< 0)
    BY CreaturesAre
  <2> QED
    BY <1>1, <2>1 DEF Finalized
<1>5. \A d \in Creatures : m_pc[d] # "none" /\ Mails(d)' /\ Ending(d)' = Ending(d) /\ (Over(d)' <=> Over(d))
  <2>1. \A d \in Creatures : m_pc[d] # "none" /\ Ending(d)' = Ending(d) /\ (Over(d)' <=> Over(d))
    BY <1>1, <1>2, <1>4 DEF Mails, Ending, Over
  <2> QED
    BY <1>1, <1>2, <1>4, <2>1, SameMails
<1>6. \A k \in Nat, d \in Creatures :
        /\ (Requested(k, d)' <=> Requested(k, d)) /\ (Reports(k, d)' <=> Reports(k, d))
        /\ ~Holding(k, d)'
  BY <1>1, <1>2 DEF Requested, Reports, Holding
<1>7. OneRequest'
  BY <1>1, <1>2, <1>5, <1>6 DEF OneRequest
<1>8. ReportsLast' /\ Reported' = {}
  BY <1>1, <1>2, <1>6 DEF ReportsLast, Reported
<1>9. Phases'
  BY <1>1, <1>2, <1>8, CreaturesAre DEF Phases
<1>10. \A d \in Creatures : NotItself(d)' /\ MeetingsOf(d)' = MeetingsOf(d)
  BY <1>1 DEF MeetInv, NotItself, MeetingsOf, Coming
<1>11. MeetsCounted'
  <2>1. Meets' = Meets /\ Made' = Made
    BY <1>1, <1>10 DEF Meets, Made
  <2> QED
    BY <1>1, <1>2, <1>8, <2>1 DEF MeetInv, MeetsCounted
<1> QED
  BY <1>1, <1>3, <1>5, <1>7, <1>8, <1>9, <1>10, <1>11 DEF MeetInv, Programmed, chameneos!Actors

\* The broker tells the next creature to end, behind what it has yet to read.
LEMMA FinalizeStep == ASSUME MeetInv, chameneos!Finalize PROVE MeetInv'
<1>0. CASE broker = "pair"
  BY <1>0, AllPaired
<1>1. CASE broker = "finalize"
  <2>0. PICK c \in Creatures : c = count + 1
    BY <1>1, CreaturesAre DEF MeetInv, Phases, MeetTypes
  <2>1. /\ chameneos!Actors /\ chameneos!Send(c, chameneos!End)
        /\ broker' = IF c = N THEN "collect" ELSE "finalize"
        /\ count' = c
        /\ UNCHANGED <<m_program, m_pc, col, met, self_met, mate, requests, held, total>>
    BY <1>1, <2>0, CreaturesAre
       DEF chameneos!Finalize, chameneos!IsLast, chameneos!creature, chameneos!Turn, Creatures
  <2>2. MeetTypes /\ held = <<>> /\ Reported = {} /\ OneRequest /\ ReportsLast
        /\ \A d \in Creatures : Mails(d)
    BY <1>1, <2>1 DEF MeetInv, Phases, Programmed
  <2>3. chameneos!End \in Letters /\ chameneos!End.finish
    BY EndIs
  <2>4. /\ mail'[c] = Append(mail[c], chameneos!End) /\ mail' \in [Creatures -> Seq(Letters)]
        /\ \A d \in Creatures \ {c} : mail'[d] = mail[d]
    BY <2>1, <2>2, <2>3, SendIs
  <2>5. broker' \in {"finalize", "collect"} /\ c \in Nat /\ Creatures = 1 .. N /\ N \in Nat
    BY <2>1, CreaturesAre
  <2>6. MeetTypes'
    BY <2>1, <2>2, <2>4, <2>5 DEF MeetTypes
  <2>7. /\ ~Finalized(c) /\ Finalized(c)'
        /\ \A d \in Creatures \ {c} : Finalized(d)' <=> Finalized(d)
    <3>1. ~(c =< count) /\ \A d \in Creatures \ {c} : (d =< c) <=> (d =< count)
      BY <2>0, <2>2, <2>5 DEF MeetTypes
    <3>2. c = N => \A d \in Creatures : d =< c
      BY <2>5
    <3>3. CASE c = N
      <4>1. broker' = "collect" /\ \A d \in Creatures : Finalized(d)'
        BY <2>1, <3>3 DEF Finalized
      <4>2. \A d \in Creatures \ {c} : d =< count
        BY <3>1, <3>2, <3>3
      <4> QED
        BY <1>1, <3>1, <4>1, <4>2 DEF Finalized
    <3>4. CASE c # N
      <4>1. broker' = "finalize" /\ count' = c /\ c =< c
        BY <2>1, <2>5, <3>4
      <4> QED
        BY <1>1, <3>1, <4>1 DEF Finalized
    <3> QED
      BY <3>3, <3>4
  <2>8. ~Over(c) /\ \A d \in Creatures : m_pc[d] # "none" /\ (Over(d)' <=> Over(d))
    <3>1. \A d \in Creatures : m_pc[d] # "none"
      BY <1>1, <2>2 DEF Mails
    <3> QED
      BY <2>1, <2>2, <2>7, <3>1 DEF Mails, Over
  <2>9. Ending(c) = <<>> /\ Ending(c)' = <<chameneos!End>>
        /\ \A m : After(m, c) = <<m>> /\ After(m, c)' = <<m, chameneos!End>>
    BY <2>7 DEF Ending, After
  <2>10. mail[c] = Ending(c) => mail'[c] = Ending(c)'
    BY <2>4, <2>9
  <2>11. ASSUME NEW m \in Letters, mail[c] = After(m, c) PROVE mail'[c] = After(m, c)'
    <3>1. mail'[c] = Append(<<m>>, chameneos!End) /\ After(m, c)' = <<m, chameneos!End>>
      BY <2>4, <2>9, <2>11
    <3> QED
      BY <2>3, <3>1, SecondOf
  <2>12. \A d \in Creatures : Mails(d)'
    <3>1. Mails(c)'
      BY <2>1, <2>2, <2>8, <2>10, <2>11 DEF Mails, AnswerIsThere
    <3>2. ASSUME NEW d \in Creatures \ {c} PROVE Mails(d)'
      BY <2>1, <2>2, <2>4, <2>7, <2>8, <3>2, SameMails
    <3> QED
      BY <3>1, <3>2
  <2>13. \A k \in Nat, d \in Creatures :
          /\ (Requested(k, d)' <=> Requested(k, d)) /\ (Reports(k, d)' <=> Reports(k, d))
          /\ ~Holding(k, d)'
    BY <2>1, <2>2 DEF Requested, Reports, Holding
  <2>14. OneRequest'
    <3>1. \A d \in Creatures \ {c} : Ending(d)' = Ending(d)
      BY <2>7 DEF Ending
    <3>2. \A d \in Creatures, k \in Nat : Requested(k, d)' =>
             (m_pc'[d] = "waits" /\ mail'[d] = Ending(d)') \/ Over(d)'
      BY <2>1, <2>2, <2>4, <2>8, <2>10, <2>13, <3>1 DEF OneRequest
    <3>3. \A d \in Creatures, j, k \in Nat : Requested(j, d)' /\ Requested(k, d)' => j = k
      BY <2>2, <2>13 DEF OneRequest
    <3>4. Len(held') # 2 /\ \A k \in DOMAIN held' : FALSE
      BY <2>1, <2>2
    <3> QED
      BY <2>13, <3>2, <3>3, <3>4 DEF OneRequest
  <2>15. ReportsLast' /\ Reported' = {}
    BY <2>1, <2>2, <2>13 DEF ReportsLast, Reported
  <2>16. Phases'
    <3>1. Creatures \ Reported' = Creatures
      BY <2>15
    <3>2. c # N => c < N
      BY <2>5
    <3> QED
      BY <2>1, <2>2, <2>5, <2>15, <3>1, <3>2, CreaturesAre DEF Phases
  <2>17. \A d \in Creatures : NotItself(d)' /\ MeetingsOf(d)' = MeetingsOf(d)
    <3>1. Coming(c)' <=> Coming(c)
      <4>1. m_pc[c] = "waits" =>
              mail[c] = <<>> \/ \E m \in Letters : ~m.finish /\ mail[c] = <<m>>
        BY <2>2, <2>9 DEF Mails, AnswerIsThere
      <4>2. ASSUME m_pc[c] = "waits", mail[c] = <<>> PROVE Coming(c)' <=> Coming(c)
        <5>1. mail'[c] = <<chameneos!End>>
          BY <2>4, <4>2
        <5> QED
          BY <2>1, <2>3, <4>2, <5>1 DEF Coming
      <4>3. ASSUME m_pc[c] = "waits", NEW m \in Letters, ~m.finish, mail[c] = <<m>>
            PROVE  Coming(c)' <=> Coming(c)
        <5>1. mail'[c] = <<m, chameneos!End>>
          <6>1. mail'[c] = Append(<<m>>, chameneos!End)
            BY <2>4, <4>3
          <6> QED
            BY <2>3, <6>1, SecondOf
        <5> QED
          BY <2>1, <4>3, <5>1 DEF Coming
      <4>4. m_pc[c] # "waits" => (Coming(c)' <=> Coming(c))
        BY <2>1 DEF Coming
      <4> QED
        BY <4>1, <4>2, <4>3, <4>4
    <3>2. \A d \in Creatures \ {c} : Coming(d)' <=> Coming(d)
      BY <2>1, <2>4 DEF Coming
    <3> QED
      BY <2>1, <3>1, <3>2 DEF MeetInv, NotItself, MeetingsOf
  <2>18. MeetsCounted'
    <3>1. Meets' = Meets /\ Made' = Made
      BY <1>1, <2>1, <2>5, <2>17 DEF Meets, Made
    <3> QED
      BY <2>1, <2>2, <2>15, <3>1 DEF MeetInv, MeetsCounted
  <2> QED
    BY <2>1, <2>5, <2>6, <2>12, <2>14, <2>15, <2>16, <2>17, <2>18
       DEF MeetInv, Programmed, chameneos!Actors
<1> QED
  BY <1>0, <1>1 DEF chameneos!Finalize

\* What one report does to the total.
LEMMA CountsReport ==
  ASSUME MeetTypes, MeetsCounted, NEW c \in Creatures, c \notin Reported,
         Reported' = Reported \cup {c}, Made' = Made, total' = total + MeetingsOf(c),
         \A d \in Creatures : MeetingsOf(d)' = MeetingsOf(d)
  PROVE  MeetsCounted'
<1>1. \A d \in Creatures : MeetingsOf(d) \in Nat
  BY DEF MeetingsOf, MeetTypes
<1>2. PICK g : g = [d \in Creatures |-> MeetingsOf(d)]
  OBVIOUS
<1>3. g \in [Creatures -> Nat] /\ g[c] = MeetingsOf(c)
  BY <1>1, <1>2
<1>4. Meets = PairsOf(g) /\ Meets' = PairsOf(g)
  BY <1>2 DEF Meets, PairsOf
<1>5. PICK R : R = Reported
  OBVIOUS
<1>6. R \in SUBSET Creatures /\ c \notin R
  BY <1>5 DEF Reported
<1>7. PICK S : S = R \cup {c}
  OBVIOUS
<1>8. Cardinality(PairsIn(g, S)) = Cardinality(PairsIn(g, R)) + g[c]
  <2>1. IsFiniteSet(PairsOf(g))
    BY <1>4 DEF MeetsCounted
  <2>2. c \in Creatures \ R
    BY <1>6
  <2> QED
    BY <1>3, <1>6, <1>7, <2>1, <2>2, OneReports
<1>9. total = Cardinality(PairsIn(g, R))
  BY <1>4, <1>5 DEF MeetsCounted, PairsIn
<1>10. Reported' = S
  BY <1>5, <1>7
<1>11. IsFiniteSet(Meets') /\ Cardinality(Meets)' = Made'
  BY <1>4 DEF MeetsCounted
<1>12. total' = Cardinality({p \in Meets' : p[1] \in Reported'})
  BY <1>3, <1>4, <1>8, <1>9, <1>10 DEF PairsIn
<1> QED
  BY <1>11, <1>12 DEF MeetsCounted

\* How many creatures have yet to report, after one more.
LEMMA OneLess ==
  ASSUME NEW c \in Creatures, NEW R \in SUBSET Creatures, c \notin R
  PROVE  /\ Cardinality(Creatures \ (R \cup {c})) = Cardinality(Creatures \ R) - 1
         /\ Cardinality(Creatures \ R) = 1 => R \cup {c} = Creatures
         /\ Cardinality(Creatures \ R) \in Nat /\ Cardinality(Creatures \ (R \cup {c})) \in Nat
<1>1. IsFiniteSet(Creatures \ R) /\ c \in Creatures \ R
  BY CreaturesAre, FS_Subset
<1>2. PICK T : T = Creatures \ R
  OBVIOUS
<1>3. T \ {c} = Creatures \ (R \cup {c})
  BY <1>2
<1>4. IsFiniteSet(T \ {c}) /\ Cardinality(T \ {c}) = Cardinality(T) - 1
  BY <1>1, <1>2, FS_RemoveElement
<1>5. Cardinality(T) \in Nat /\ Cardinality(T \ {c}) \in Nat
  BY <1>1, <1>2, <1>4, FS_CardinalityType
<1>6. Cardinality(T) = 1 => T \ {c} = {}
  BY <1>4, FS_EmptySet
<1> QED
  BY <1>2, <1>3, <1>4, <1>5, <1>6

\* A request or a report leaves the broker's mailbox, and the others move up.
LEMMA OthersMoveUp ==
  ASSUME MeetTypes, OneRequest, ReportsLast, held = <<>>, requests # <<>>,
         requests' = Tail(requests), UNCHANGED <<m_pc, mail, mate, met, held>>,
         \A d \in Creatures : Ending(d)' = Ending(d)
  PROVE  /\ requests' \in Seq(Letters) /\ OneRequest' /\ ReportsLast'
         /\ \A k \in Nat, d \in Creatures : Reports(k, d)' <=> k # 0 /\ Reports(k + 1, d)
<1>1. /\ requests' \in Seq(Letters) /\ Head(requests) = requests[1] /\ 1 \in DOMAIN requests
      /\ \A k \in Nat : k \in DOMAIN requests' <=> k # 0 /\ k + 1 \in DOMAIN requests
      /\ \A k \in DOMAIN requests' : k \in Nat /\ requests'[k] = requests[k + 1]
      /\ 0 \notin DOMAIN requests
  BY TakenRequest
<1>2. \A k \in Nat, d \in Creatures :
        /\ Requested(k, d)' <=> k # 0 /\ Requested(k + 1, d)
        /\ Reports(k, d)' <=> k # 0 /\ Reports(k + 1, d)
        /\ ~Holding(k, d)'
  <2>1. ASSUME NEW k \in Nat, NEW d \in Creatures
        PROVE  /\ Requested(k, d)' <=> k # 0 /\ Requested(k + 1, d)
               /\ Reports(k, d)' <=> k # 0 /\ Reports(k + 1, d)
    BY <1>1 DEF Requested, Reports
  <2>2. \A k \in Nat, d \in Creatures : ~Holding(k, d)'
    BY DEF Holding
  <2> QED
    BY <2>1, <2>2
<1>3. \A k \in Nat : k + 1 \in Nat
  OBVIOUS
<1>4. \A d \in Creatures, j, k \in Nat :
        /\ Requested(j, d)' /\ Requested(k, d)' => j = k
        /\ Reports(j, d)' /\ Reports(k, d)' => j = k
  <2>1. ASSUME NEW d \in Creatures, NEW j \in Nat, NEW k \in Nat
        PROVE  /\ Requested(j, d)' /\ Requested(k, d)' => j = k
               /\ Reports(j, d)' /\ Reports(k, d)' => j = k
    <3>1. Requested(j + 1, d) /\ Requested(k + 1, d) => j + 1 = k + 1
      BY <1>3 DEF OneRequest
    <3>2. Reports(j + 1, d) /\ Reports(k + 1, d) => j + 1 = k + 1
      BY <1>3 DEF ReportsLast
    <3> QED
      BY <1>2, <3>1, <3>2
  <2> QED
    BY <2>1
<1>5. OneRequest'
  <2>1. \A d \in Creatures, k \in Nat : Requested(k, d)' =>
           (m_pc'[d] = "waits" /\ mail'[d] = Ending(d)') \/ Over(d)'
    <3>1. \A d \in Creatures : Over(d)' <=> Over(d)
      BY DEF Over
    <3> QED
      BY <1>2, <1>3, <3>1 DEF OneRequest
  <2>2. Len(held') # 2 /\ \A k \in DOMAIN held' : FALSE
    OBVIOUS
  <2> QED
    BY <1>2, <1>4, <2>1, <2>2 DEF OneRequest
<1>6. ReportsLast'
  <2>1. \A k \in DOMAIN requests' : requests'[k].who \in Creatures
    BY <1>1 DEF ReportsLast
  <2>2. ASSUME NEW d \in Creatures, NEW k \in Nat, Reports(k, d)'
        PROVE  m_pc'[d] = "done" /\ requests'[k].col = met'[d]
    <3>1. Reports(k + 1, d) /\ k \in DOMAIN requests'
      BY <1>2, <2>2 DEF Reports
    <3> QED
      BY <1>1, <1>3, <3>1 DEF ReportsLast
  <2>3. ASSUME NEW d \in Creatures, NEW j \in Nat, Requested(j, d)', m_pc'[d] = "done"
        PROVE  \E i \in Nat : i > j /\ Reports(i, d)'
    <3>1. PICK i \in Nat : i > j + 1 /\ Reports(i, d)
      BY <1>2, <1>3, <2>3 DEF ReportsLast
    <3>2. PICK h \in Nat : i = h + 1 /\ h # 0 /\ h > j
      <4>1. i - 1 \in Nat /\ i - 1 # 0 /\ i - 1 > j /\ i = (i - 1) + 1
        BY <3>1
      <4> QED
        BY <4>1
    <3> QED
      BY <1>2, <3>1, <3>2
  <2> QED
    BY <1>4, <2>1, <2>2, <2>3 DEF ReportsLast
<1> QED
  BY <1>1, <1>2, <1>5, <1>6

\* The broker frees a request that nobody waits for, or adds up a report.
LEMMA AddUpStep == ASSUME MeetInv, chameneos!AddUp PROVE MeetInv'
<1>1. /\ chameneos!Actors /\ broker = "collect" /\ requests # <<>> /\ requests' = Tail(requests)
      /\ IF Head(requests).finish
           THEN /\ total' = total + Head(requests).col
                /\ broker' = IF count = 1 THEN "done" ELSE "collect"
                /\ count' = count - 1
           ELSE UNCHANGED <<total, broker, count>>
      /\ UNCHANGED <<m_program, m_pc, col, met, self_met, mate, mail, held>>
  BY DEF chameneos!AddUp, chameneos!IsFinal, chameneos!Turn, chameneos!creature
<1>2. /\ MeetTypes /\ count \in Nat /\ count > 0 /\ total \in Nat /\ held = <<>>
      /\ count = Cardinality(Creatures \ Reported)
      /\ OneRequest /\ ReportsLast /\ MeetsCounted
      /\ \A d \in Creatures : Mails(d) /\ NotItself(d)
  BY <1>1 DEF MeetInv, Phases, MeetTypes, Programmed
<1>3. broker' \in {"collect", "done"}
  BY <1>1
<1>4. \A d \in Creatures : Finalized(d) /\ Finalized(d)' /\ Ending(d)' = Ending(d)
  BY <1>1, <1>3 DEF Finalized, Ending
<1>5. /\ requests' \in Seq(Letters) /\ OneRequest' /\ ReportsLast'
      /\ \A k \in Nat, d \in Creatures : Reports(k, d)' <=> k # 0 /\ Reports(k + 1, d)
  BY <1>1, <1>2, <1>4, OthersMoveUp
<1>6. \A d \in Creatures : NotItself(d)' /\ MeetingsOf(d)' = MeetingsOf(d) /\ Mails(d)'
  <2>1. \A d \in Creatures : NotItself(d)' /\ MeetingsOf(d)' = MeetingsOf(d)
    BY <1>1, <1>2 DEF NotItself, MeetingsOf, Coming
  <2>2. ASSUME NEW d \in Creatures PROVE Mails(d)'
    <3>1. m_pc[d] # "none"
      BY <1>1, <1>2 DEF Mails
    <3> QED
      BY <1>1, <1>2, <1>4, <3>1, SameMails
  <2> QED
    BY <2>1, <2>2
<1>7. Made' = Made
  BY <1>1, <1>3 DEF Made
<1>8. 1 \in DOMAIN requests /\ Head(requests) = requests[1] /\ requests[1] \in Letters
      /\ requests[1].who \in Creatures /\ requests[1].finish \in BOOLEAN
  BY <1>1, <1>2, TakenRequest, LettersIn DEF MeetTypes, ReportsLast
<1>9. PICK c \in Creatures : c = requests[1].who
  BY <1>8
<1>10. CASE ~Head(requests).finish
  <2>1. UNCHANGED <<total, broker, count>>
    BY <1>1, <1>10
  <2>2. \A d \in Creatures : ~Reports(1, d)
    BY <1>8, <1>10 DEF Reports
  <2>3. Reported' = Reported
    <3>1. ASSUME NEW d \in Creatures
          PROVE  (\A k \in Nat : ~Reports(k, d)') <=> (\A k \in Nat : ~Reports(k, d))
      <4>1. ASSUME NEW k \in Nat, Reports(k, d) PROVE \E j \in Nat : Reports(j, d)'
        <5>1. k # 0
          BY <1>1, <1>2, <4>1, TakenRequest DEF Reports
        <5>2. k # 1
          BY <2>2, <4>1
        <5>3. PICK j \in Nat : k = j + 1 /\ j # 0
          <6>1. k - 1 \in Nat /\ k = (k - 1) + 1 /\ k - 1 # 0
            BY <5>1, <5>2
          <6> QED
            BY <6>1
        <5> QED
          BY <1>5, <4>1, <5>3
      <4>2. ASSUME NEW k \in Nat, Reports(k, d)' PROVE \E j \in Nat : Reports(j, d)
        <5>1. k + 1 \in Nat
          OBVIOUS
        <5> QED
          BY <1>5, <4>2, <5>1
      <4> QED
        BY <4>1, <4>2
    <3> QED
      BY <1>1, <3>1 DEF Reported
  <2>4. MeetTypes'
    BY <1>1, <1>2, <1>5, <2>1 DEF MeetTypes
  <2>5. Phases'
    BY <1>1, <1>2, <2>1, <2>3 DEF Phases
  <2>6. Meets' = Meets
    BY <1>6 DEF Meets
  <2>7. MeetsCounted'
    BY <1>2, <1>7, <2>1, <2>3, <2>6 DEF MeetsCounted
  <2> QED
    BY <1>1, <1>3, <1>5, <1>6, <2>4, <2>5, <2>7 DEF MeetInv, Programmed, chameneos!Actors
<1>11. CASE Head(requests).finish
  <2>1. Reports(1, c)
    BY <1>8, <1>9, <1>11 DEF Reports
  <2>2. m_pc[c] = "done" /\ Head(requests).col = met[c] /\ \A k \in Nat : Reports(k, c) => k = 1
    BY <1>2, <1>8, <2>1 DEF ReportsLast
  <2>3. met[c] \in Nat /\ MeetingsOf(c) = met[c]
    BY <1>2, <2>2 DEF MeetTypes, MeetingsOf, Coming
  <2>4. total' = total + MeetingsOf(c) /\ broker' = (IF count = 1 THEN "done" ELSE "collect")
        /\ count' = count - 1
    BY <1>1, <1>11, <2>2, <2>3
  <2>5. c \notin Reported
    BY <2>1 DEF Reported
  <2>6. Reported' = Reported \cup {c}
    <3>1. \A k \in Nat : ~Reports(k, c)'
      <4>1. ASSUME NEW k \in Nat, Reports(k, c)' PROVE FALSE
        <5>1. k # 0 /\ Reports(k + 1, c) /\ k + 1 \in Nat
          BY <1>5, <4>1
        <5>2. k + 1 = 1
          BY <2>2, <5>1
        <5> QED
          BY <5>1, <5>2
      <4> QED
        BY <4>1
    <3>2. ASSUME NEW d \in Creatures, d # c
          PROVE  (\A k \in Nat : ~Reports(k, d)') <=> (\A k \in Nat : ~Reports(k, d))
      <4>1. ASSUME NEW k \in Nat, Reports(k, d) PROVE \E j \in Nat : Reports(j, d)'
        <5>1. k # 0
          BY <1>1, <1>2, <4>1, TakenRequest DEF Reports
        <5>2. k # 1
          BY <1>9, <3>2, <4>1 DEF Reports
        <5>3. PICK j \in Nat : k = j + 1 /\ j # 0
          <6>1. k - 1 \in Nat /\ k = (k - 1) + 1 /\ k - 1 # 0
            BY <5>1, <5>2
          <6> QED
            BY <6>1
        <5> QED
          BY <1>5, <4>1, <5>3
      <4>2. ASSUME NEW k \in Nat, Reports(k, d)' PROVE \E j \in Nat : Reports(j, d)
        <5>1. k + 1 \in Nat
          OBVIOUS
        <5> QED
          BY <1>5, <4>2, <5>1
      <4> QED
        BY <4>1, <4>2
    <3>3. c \in Reported'
      BY <1>1, <2>2, <3>1 DEF Reported
    <3>4. \A d \in Creatures : d # c => (d \in Reported' <=> d \in Reported)
      BY <1>1, <3>2 DEF Reported
    <3>5. Reported \subseteq Creatures /\ Reported' \subseteq Creatures
      BY DEF Reported
    <3> QED
      BY <3>3, <3>4, <3>5
  <2>7. PICK R \in SUBSET Creatures : R = Reported
    BY DEF Reported
  <2>8. /\ Cardinality(Creatures \ (R \cup {c})) = Cardinality(Creatures \ R) - 1
        /\ Cardinality(Creatures \ R) = 1 => R \cup {c} = Creatures
    BY <2>5, <2>7, OneLess
  <2>9. count' = Cardinality(Creatures \ Reported') /\ count' \in Nat /\ (count # 1 => count' > 0)
        /\ (count = 1 => Reported' = Creatures)
    BY <1>2, <2>4, <2>6, <2>7, <2>8
  <2>10. total' \in Nat
    BY <1>2, <2>3, <2>4
  <2>11. MeetTypes'
    BY <1>1, <1>2, <1>3, <1>5, <2>9, <2>10 DEF MeetTypes
  <2>12. Phases'
    BY <1>1, <1>2, <2>4, <2>9 DEF Phases
  <2>13. MeetsCounted'
    BY <1>2, <1>6, <1>7, <2>4, <2>5, <2>6, CountsReport
  <2> QED
    BY <1>1, <1>3, <1>5, <1>6, <2>11, <2>12, <2>13 DEF MeetInv, Programmed, chameneos!Actors
<1> QED
  BY <1>10, <1>11

\* One handler runs all creatures: what it knows when none of them is running.
LEMMA Handled ==
  ASSUME MeetInv, ~chameneos!Actors, chameneos!Stopped
  PROVE  /\ MeetTypes /\ Phases /\ MeetsCounted /\ requests = <<>>
         /\ \A d \in Creatures :
               /\ NotItself(d) /\ Directed(d) /\ mail[d] = <<>> /\ ~Coming(d)
               /\ m_pc[d] \in {"none", "performs", "return", "done"}
               /\ m_pc[d] = "performs" => mate[d].who = d /\ ~mate[d].finish
               /\ broker \in {"pair", "second"} => m_pc[d] = "performs"
               /\ (d \in Reported <=> m_pc[d] = "done")
<1>1. MeetTypes /\ Phases /\ MeetsCounted /\ requests = <<>>
      /\ \A d \in Creatures : NotItself(d) /\ Directed(d)
  BY DEF MeetInv, Programmed
<1>2. ASSUME NEW d \in Creatures
      PROVE  /\ mail[d] = <<>> /\ ~Coming(d)
             /\ m_pc[d] \in {"none", "performs", "return", "done"}
             /\ m_pc[d] = "performs" => mate[d].who = d /\ ~mate[d].finish
             /\ broker \in {"pair", "second"} => m_pc[d] = "performs"
             /\ (d \in Reported <=> m_pc[d] = "done")
  <2>1. m_pc[d] \in {"none", "performs", "return", "done"} /\ mail[d] = <<>>
    BY <1>1 DEF chameneos!Stopped, Creatures, Directed
  <2>2. ~Coming(d) /\ (m_pc[d] = "performs" => mate[d].who = d /\ ~mate[d].finish)
    BY <1>1, <2>1 DEF Coming, NotItself
  <2>3. broker \in {"pair", "second"} => m_pc[d] = "performs"
    BY <1>1, <2>1 DEF Directed, Over
  <2>4. d \in Reported <=> m_pc[d] = "done"
    BY <1>1 DEF Reported, Reports
  <2> QED
    BY <2>1, <2>2, <2>3, <2>4
<1> QED
  BY <1>1, <1>2

\* The handler creates the next creature.
LEMMA CreateStep == ASSUME MeetInv, chameneos!Create PROVE MeetInv'
<1>1. PICK c \in Creatures : c = count + 1
  BY CreaturesAre DEF chameneos!Create, MeetInv, Phases, MeetTypes
<1>2. /\ ~chameneos!Actors /\ broker = "spawn" /\ chameneos!Stopped
      /\ col' = [col EXCEPT ![c] = creatureColours[c]] /\ m_pc' = [m_pc EXCEPT ![c] = "loop"]
      /\ broker' = (IF c = N THEN "pair" ELSE "spawn") /\ count' = (IF c = N THEN 0 ELSE c)
      /\ UNCHANGED <<m_program, met, self_met, mate, mail, requests, held, total>>
  BY <1>1, CreaturesAre DEF chameneos!Create, chameneos!GoesTo, chameneos!Turn, Creatures
<1>3. /\ MeetTypes /\ Phases /\ MeetsCounted /\ requests = <<>> /\ held = <<>> /\ Reported = {}
      /\ \A d \in Creatures : m_pc[d] = "none" <=> d > count
      /\ \A d \in Creatures : NotItself(d) /\ Directed(d) /\ mail[d] = <<>> /\ ~Coming(d)
            /\ m_pc[d] \in {"none", "performs", "return", "done"}
            /\ (m_pc[d] = "performs" => mate[d].who = d /\ ~mate[d].finish)
  BY <1>2, Handled DEF Phases
<1>4. /\ m_pc'[c] = "loop" /\ (\A d \in Creatures \ {c} : m_pc'[d] = m_pc[d])
      /\ m_pc' \in [Creatures -> {"none", "born", "loop", "performs", "waits", "told", "return", "done"}]
      /\ col' \in [Creatures -> Int]
  BY <1>2, <1>3, CreaturesAre DEF MeetTypes
<1>5. broker' \in {"spawn", "pair"} /\ count' \in Nat /\ c \in Nat /\ Creatures = 1 .. N /\ N \in Nat
      /\ count \in Nat
  BY <1>2, <1>3, CreaturesAre DEF MeetTypes
<1>6. MeetTypes'
  BY <1>2, <1>3, <1>4, <1>5 DEF MeetTypes
<1>7. \A d \in Creatures : m_pc'[d] \in {"none", "loop", "performs"} /\ (m_pc'[d] = "none" <=> d > c)
  <2>1. \A d \in Creatures : m_pc[d] \in {"none", "performs"}
    BY <1>2, <1>3 DEF Directed, Over
  <2>2. \A d \in Creatures \ {c} : d > count <=> d > c
    BY <1>1, <1>5
  <2>3. ~(c > c)
    BY <1>5
  <2>4. ASSUME NEW d \in Creatures \ {c}
        PROVE  m_pc'[d] \in {"none", "performs"} /\ (m_pc'[d] = "none" <=> d > c)
    BY <1>3, <1>4, <2>1, <2>2
  <2> QED
    BY <1>4, <2>3, <2>4
<1>8. Reported' = {}
  BY <1>7 DEF Reported
<1>9. Phases'
  <2>1. c = N => MEETINGS \in Nat /\ 0 =< MEETINGS
    BY CreaturesAre
  <2>2. c # N => c < N
    BY <1>5
  <2> QED
    BY <1>2, <1>3, <1>5, <1>7, <1>8, <2>1, <2>2 DEF Phases
<1>10. \A d \in Creatures : Directed(d)'
  <2>1. c = N => \A d \in Creatures : ~(d > c)
    BY <1>5
  <2>2. \A d \in Creatures : ~Over(d)' /\ m_pc'[d] # "told"
    BY <1>7 DEF Over
  <2>3. broker' = "pair" => \A d \in Creatures : m_pc'[d] \in {"loop", "performs"}
    BY <1>2, <1>7, <2>1
  <2> QED
    BY <1>2, <1>3, <1>5, <2>2, <2>3 DEF Directed
<1>11. \A d \in Creatures : NotItself(d)' /\ MeetingsOf(d)' = MeetingsOf(d)
  <2>1. \A d \in Creatures : ~Coming(d)'
    BY <1>2, <1>7 DEF Coming
  <2>2. \A d \in Creatures : NotItself(d)'
    BY <1>2, <1>3, <1>4, <1>7 DEF NotItself
  <2> QED
    BY <1>2, <1>3, <2>1, <2>2 DEF MeetingsOf
<1>12. MeetsCounted'
  <2>1. Meets' = Meets
    BY <1>11 DEF Meets
  <2>2. Made' = Made
    BY <1>2 DEF Made
  <2> QED
    BY <1>2, <1>3, <1>8, <2>1, <2>2 DEF MeetsCounted
<1> QED
  BY <1>2, <1>3, <1>5, <1>6, <1>9, <1>10, <1>11, <1>12 DEF MeetInv, Programmed, chameneos!Actors

\* The handler resumes a creature with its mate's request: one meeting more.
LEMMA ResumesOne ==
  ASSUME MeetInv, ~chameneos!Actors, chameneos!Stopped, broker \in {"pair", "second"},
         NEW a \in Creatures, NEW m \in Letters, ~m.finish, m.who # a,
         mate' = [mate EXCEPT ![a] = m], m_pc' = [m_pc EXCEPT ![a] = "told"],
         UNCHANGED <<m_program, col, met, self_met, mail, requests, total>>,
         held' \in Seq(Letters), count' \in Nat, broker' \in {"pair", "second"},
         Made' = Made + 1, Reported' = Reported => Phases',
         IF broker' = "pair" THEN held' = <<>>
         ELSE held'[1].who # ((2 * count' + 1) % N) + 1 /\ ~held'[1].finish
  PROVE  MeetInv'
<1>1. /\ MeetTypes /\ MeetsCounted /\ requests = <<>>
      /\ \A d \in Creatures :
            /\ NotItself(d) /\ mail[d] = <<>> /\ ~Coming(d) /\ m_pc[d] = "performs"
            /\ mate[d].who = d /\ ~mate[d].finish /\ d \notin Reported
  BY Handled
<1>2. /\ m_pc'[a] = "told" /\ mate'[a] = m
      /\ \A d \in Creatures \ {a} : m_pc'[d] = m_pc[d] /\ mate'[d] = mate[d]
      /\ m_pc' \in [Creatures -> {"none", "born", "loop", "performs", "waits", "told", "return", "done"}]
      /\ mate' \in [Creatures -> Letters]
  BY <1>1 DEF MeetTypes
<1>3. MeetTypes'
  BY <1>1, <1>2 DEF MeetTypes
<1>4. \A d \in Creatures : m_pc'[d] \in {"performs", "told"} /\ ~mate'[d].finish /\ ~Over(d)'
  <2>1. \A d \in Creatures : m_pc'[d] \in {"performs", "told"} /\ ~mate'[d].finish
    BY <1>1, <1>2
  <2> QED
    BY <2>1 DEF Over
<1>5. Reported' = {} /\ Reported = {}
  <2>1. Reported = {}
    BY <1>1 DEF Reported
  <2> QED
    BY <1>4, <2>1 DEF Reported
<1>6. \A d \in Creatures : Directed(d)'
  BY <1>1, <1>4 DEF Directed
<1>7. \A d \in Creatures : NotItself(d)'
  <2>1. NotItself(a)'
    BY <1>1, <1>2 DEF NotItself
  <2>2. ASSUME NEW d \in Creatures \ {a} PROVE NotItself(d)'
    BY <1>1, <1>2 DEF NotItself
  <2> QED
    BY <2>1, <2>2
<1>8. MeetingsOf(a)' = MeetingsOf(a) + 1 /\ \A d \in Creatures \ {a} : MeetingsOf(d)' = MeetingsOf(d)
  <2>1. Coming(a)' /\ ~Coming(a) /\ met[a] \in Nat
    BY <1>1, <1>2 DEF Coming, MeetTypes
  <2>2. \A d \in Creatures \ {a} : ~Coming(d)' /\ ~Coming(d)
    BY <1>1, <1>2 DEF Coming
  <2> QED
    BY <2>1, <2>2 DEF MeetingsOf
<1>9. MeetsCounted'
  <2>1. IsFiniteSet(Meets') /\ Cardinality(Meets)' = Made'
    BY <1>1, <1>3, <1>8, MeetsGrow
  <2>2. {p \in Meets' : p[1] \in Reported'} = {} /\ {p \in Meets : p[1] \in Reported} = {}
    BY <1>5
  <2> QED
    BY <1>1, <2>1, <2>2 DEF MeetsCounted
<1>10. Phases'
  BY <1>5
<1> QED
  BY <1>1, <1>3, <1>6, <1>7, <1>9, <1>10 DEF MeetInv, Programmed, chameneos!Actors

\* Each meeting of the round: two creatures, one after the other.
LEMMA ResumePairStep == ASSUME MeetInv, chameneos!ResumePair PROVE MeetInv'
<1>0. /\ ~chameneos!Actors /\ chameneos!Stopped /\ broker \in {"pair", "second"}
      /\ UNCHANGED <<m_program, col, met, self_met, mail, requests, total>>
  BY DEF chameneos!ResumePair
<1>1. /\ MeetTypes /\ Phases /\ count \in Nat /\ MEETINGS \in Nat /\ held \in Seq(Letters)
      /\ \A d \in Creatures : mate[d] \in Letters /\ mate[d].who = d /\ ~mate[d].finish
  BY <1>0, Handled, CreaturesAre DEF MeetTypes
<1>2. PICK a \in Creatures, b \in Creatures :
         a = ((2 * count) % N) + 1 /\ b = ((2 * count + 1) % N) + 1 /\ a # b
  BY <1>1, Neighbours
<1>3. CASE broker = "pair"
  <2>1. /\ count < MEETINGS /\ held' = <<mate[a], mate[b]>> /\ broker' = "second" /\ count' = count
        /\ mate' = [mate EXCEPT ![a] = mate[b]] /\ m_pc' = [m_pc EXCEPT ![a] = "told"]
    BY <1>2, <1>3, CreaturesAre
       DEF chameneos!ResumePair, chameneos!Resume, chameneos!GoesTo, chameneos!Turn, Creatures
  <2>2. PICK x \in Letters, y \in Letters : x = mate[a] /\ y = mate[b]
    BY <1>1
  <2>3. held' \in Seq(Letters) /\ Len(held') = 2 /\ held'[1] = x
    BY <2>1, <2>2
  <2>4. x.who = a /\ ~x.finish /\ y.who = b /\ ~y.finish
    BY <1>1, <2>2
  <2>5. Made' = Made + 1
    BY <1>1, <1>3, <2>1 DEF Made
  <2>6. Reported' = Reported => Phases'
    BY <1>1, <1>3, <2>1, <2>3 DEF Phases
  <2>7. held'[1].who # ((2 * count' + 1) % N) + 1 /\ ~held'[1].finish
    BY <1>2, <2>1, <2>3, <2>4
  <2> QED
    BY <1>0, <1>1, <1>2, <2>1, <2>2, <2>3, <2>4, <2>5, <2>6, <2>7, ResumesOne
<1>4. CASE broker = "second"
  <2>1. /\ held' = <<>> /\ broker' = "pair" /\ count' = count + 1
        /\ mate' = [mate EXCEPT ![b] = held[1]] /\ m_pc' = [m_pc EXCEPT ![b] = "told"]
    BY <1>2, <1>4, CreaturesAre
       DEF chameneos!ResumePair, chameneos!Resume, chameneos!GoesTo, chameneos!Turn, Creatures
  <2>2. count < MEETINGS /\ Len(held) = 2 /\ held[1].who # b /\ ~held[1].finish
    BY <1>0, <1>1, <1>2, <1>4 DEF MeetInv, Programmed, Phases
  <2>3. PICK x \in Letters : x = held[1]
    BY <1>1, <2>2
  <2>4. held' \in Seq(Letters) /\ Len(held') = 0 /\ count' \in Nat /\ count' =< MEETINGS
    BY <1>1, <2>1, <2>2
  <2>5. Made' = Made + 1
    BY <1>1, <1>4, <2>1 DEF Made
  <2>6. Reported' = Reported => Phases'
    BY <1>1, <1>4, <2>1, <2>4 DEF Phases
  <2> QED
    BY <1>0, <1>2, <1>4, <2>1, <2>2, <2>3, <2>4, <2>5, <2>6, ResumesOne
<1> QED
  BY <1>0, <1>3, <1>4

\* The handler tells the next creature to end.
LEMMA LastTold ==
  ASSUME MeetInv, chameneos!ResumeLast, broker \in {"pair", "last"}
  PROVE  MeetInv'
<1>1. PICK n \in Nat : n = (IF broker = "pair" THEN 0 ELSE count) /\ n < N
  <2>1. count \in Nat /\ 0 \in Nat /\ 0 < N /\ (broker = "last" => count < N)
    BY CreaturesAre DEF MeetInv, Phases, MeetTypes
  <2>2. CASE broker = "pair"
    BY <2>1, <2>2
  <2>3. CASE broker = "last"
    BY <2>1, <2>3
  <2> QED
    BY <2>2, <2>3
<1>2. PICK c \in Creatures : c = n + 1
  BY <1>1, CreaturesAre
<1>3. /\ ~chameneos!Actors /\ chameneos!Stopped /\ (broker = "pair" => count = MEETINGS)
      /\ mate' = [mate EXCEPT ![c] = chameneos!End] /\ m_pc' = [m_pc EXCEPT ![c] = "told"]
      /\ broker' = "add" /\ count' = n
      /\ UNCHANGED <<m_program, col, met, self_met, mail, requests, held, total>>
  BY <1>1, <1>2 DEF chameneos!ResumeLast, chameneos!Resume, chameneos!GoesTo, chameneos!Turn
<1>4. /\ MeetTypes /\ Phases /\ MeetsCounted /\ requests = <<>> /\ held = <<>>
      /\ \A d \in Creatures :
            /\ NotItself(d) /\ Directed(d) /\ mail[d] = <<>> /\ ~Coming(d)
            /\ (d \in Reported <=> m_pc[d] = "done")
            /\ (broker = "pair" => m_pc[d] = "performs")
  BY <1>3, Handled DEF MeetInv, Programmed, Phases
<1>5. chameneos!End \in Letters /\ chameneos!End.finish = TRUE
  BY EndIs
<1>6. /\ m_pc'[c] = "told" /\ mate'[c] = chameneos!End
      /\ \A d \in Creatures \ {c} : m_pc'[d] = m_pc[d] /\ mate'[d] = mate[d]
      /\ m_pc' \in [Creatures -> {"none", "born", "loop", "performs", "waits", "told", "return", "done"}]
      /\ mate' \in [Creatures -> Letters]
  BY <1>3, <1>4, <1>5 DEF MeetTypes
<1>7. MeetTypes'
  BY <1>1, <1>3, <1>4, <1>6 DEF MeetTypes
<1>8. \A d \in Creatures : m_pc[d] = "done" <=> d =< n
  <2>1. \A d \in Creatures : d \in Nat /\ ~(d =< 0)
    BY CreaturesAre
  <2> QED
    BY <1>1, <1>4, <2>1 DEF Directed
<1>9. m_pc[c] # "done" /\ \A d \in Creatures : m_pc'[d] = "done" <=> m_pc[d] = "done"
  <2>1. ~(c =< n)
    BY <1>2
  <2> QED
    BY <1>6, <1>8, <2>1
<1>10. Reported' = Reported
  <2>1. \A d \in Creatures : d \in Reported' <=> m_pc'[d] = "done"
    BY <1>3, <1>4 DEF Reported, Reports
  <2>2. Reported \subseteq Creatures /\ Reported' \subseteq Creatures
    BY DEF Reported
  <2> QED
    BY <1>4, <1>9, <2>1, <2>2
<1>11. Phases'
  BY <1>1, <1>3, <1>4 DEF Phases
<1>12. \A d \in Creatures : Directed(d)' /\ NotItself(d)'
  <2>1. \A d \in Creatures : Directed(d)'
    BY <1>3, <1>4, <1>8, <1>9 DEF Directed
  <2>2. NotItself(c)'
    BY <1>3, <1>4, <1>5, <1>6 DEF NotItself
  <2>3. ASSUME NEW d \in Creatures \ {c} PROVE NotItself(d)'
    BY <1>3, <1>4, <1>6 DEF NotItself
  <2> QED
    BY <2>1, <2>2, <2>3
<1>13. \A d \in Creatures : MeetingsOf(d)' = MeetingsOf(d)
  <2>1. ~Coming(c)'
    BY <1>5, <1>6 DEF Coming
  <2>2. \A d \in Creatures \ {c} : ~Coming(d)'
    BY <1>3, <1>4, <1>6 DEF Coming
  <2> QED
    BY <1>3, <1>4, <2>1, <2>2 DEF MeetingsOf
<1>14. MeetsCounted'
  <2>1. Meets' = Meets
    BY <1>13 DEF Meets
  <2>2. Made' = Made
    BY <1>3 DEF Made
  <2> QED
    BY <1>3, <1>4, <1>10, <2>1, <2>2 DEF MeetsCounted
<1> QED
  BY <1>3, <1>4, <1>7, <1>11, <1>12, <1>14 DEF MeetInv, Programmed, chameneos!Actors

\* The handler adds up what the creature that has returned counted.
LEMMA ResumeLastStep == ASSUME MeetInv, chameneos!ResumeLast PROVE MeetInv'
<1>0. CASE broker \in {"pair", "last"}
  BY <1>0, LastTold
<1>1. CASE broker = "add"
  <2>1. PICK c \in Creatures : c = count + 1
    BY <1>1, CreaturesAre DEF MeetInv, Phases, MeetTypes
  <2>2. /\ ~chameneos!Actors /\ chameneos!Stopped /\ m_pc' = [m_pc EXCEPT ![c] = "done"]
        /\ total' = total + met[c]
        /\ broker' = (IF c = N THEN "done" ELSE "last") /\ count' = c
        /\ UNCHANGED <<m_program, mate, col, met, self_met, mail, requests, held>>
    BY <1>1, <2>1, CreaturesAre
       DEF chameneos!ResumeLast, chameneos!GoesTo, chameneos!Turn, Creatures
  <2>3. /\ MeetTypes /\ Phases /\ MeetsCounted /\ requests = <<>> /\ held = <<>>
        /\ \A d \in Creatures :
              /\ NotItself(d) /\ Directed(d) /\ mail[d] = <<>> /\ ~Coming(d)
              /\ (d \in Reported <=> m_pc[d] = "done")
              /\ (m_pc[d] = "done" <=> d =< count)
    BY <1>1, <2>2, Handled DEF Phases, Directed
  <2>4. /\ m_pc'[c] = "done" /\ (\A d \in Creatures \ {c} : m_pc'[d] = m_pc[d])
        /\ m_pc' \in [Creatures -> {"none", "born", "loop", "performs", "waits", "told", "return", "done"}]
    BY <2>2, <2>3 DEF MeetTypes
  <2>5. met[c] \in Nat /\ total \in Nat /\ MeetingsOf(c) = met[c] /\ broker' \in {"done", "last"}
        /\ c \in Nat /\ count \in Nat /\ Creatures = 1 .. N /\ N \in Nat
    BY <2>2, <2>3, CreaturesAre DEF MeetTypes, MeetingsOf
  <2>6. MeetTypes'
    <3>1. total' \in Nat /\ count' \in Nat
      BY <2>2, <2>5
    <3> QED
      BY <2>2, <2>3, <2>4, <2>5, <3>1 DEF MeetTypes
  <2>7. c \notin Reported /\ Reported' = Reported \cup {c}
        /\ \A d \in Creatures : (d \in Reported' <=> m_pc'[d] = "done")
    <3>1. \A d \in Creatures : d \in Reported' <=> m_pc'[d] = "done"
      BY <2>2, <2>3 DEF Reported, Reports
    <3>2. ~(c =< count)
      BY <2>1, <2>5
    <3>3. Reported \subseteq Creatures /\ Reported' \subseteq Creatures
      BY DEF Reported
    <3> QED
      BY <2>3, <2>4, <3>1, <3>2, <3>3
  <2>8. \A d \in Creatures : m_pc'[d] = "done" <=> d =< c
    <3>1. \A d \in Creatures \ {c} : d =< c <=> d =< count
      BY <2>1, <2>5
    <3>2. c =< c
      BY <2>5
    <3> QED
      BY <2>3, <2>4, <3>1, <3>2
  <2>9. Phases'
    <3>1. c # N => c < N
      BY <2>5
    <3>2. c = N => Reported' = Creatures
      <4>1. c = N => \A d \in Creatures : d =< c
        BY <2>5
      <4>2. Reported' \subseteq Creatures
        BY DEF Reported
      <4> QED
        BY <2>7, <2>8, <4>1, <4>2
    <3> QED
      BY <2>2, <2>3, <3>1, <3>2 DEF Phases
  <2>10. \A d \in Creatures : Directed(d)' /\ NotItself(d)' /\ MeetingsOf(d)' = MeetingsOf(d)
    <3>1. \A d \in Creatures : Directed(d)'
      BY <2>2, <2>3, <2>5, <2>8 DEF Directed
    <3>2. \A d \in Creatures : ~Coming(d)' /\ NotItself(d)'
      BY <2>2, <2>3, <2>4 DEF Coming, NotItself
    <3> QED
      BY <2>2, <2>3, <3>1, <3>2 DEF MeetingsOf
  <2>11. MeetsCounted'
    <3>1. Made' = Made
      BY <1>1, <2>2 DEF Made
    <3>2. total' = total + MeetingsOf(c)
      BY <2>2, <2>5
    <3> QED
      BY <2>3, <2>7, <2>10, <3>1, <3>2, CountsReport
  <2> QED
    BY <2>2, <2>3, <2>5, <2>6, <2>9, <2>10, <2>11 DEF MeetInv, Programmed, chameneos!Actors
<1> QED
  BY <1>0, <1>1 DEF chameneos!ResumeLast

\* Every step of the creatures, and of the programs beside them, keeps the invariant.
LEMMA MeetKept == MeetInv /\ (chameneos!Next \/ UNCHANGED chameneos_vars) => MeetInv'
<1> SUFFICES ASSUME MeetInv, chameneos!Next \/ UNCHANGED chameneos_vars PROVE MeetInv'
  OBVIOUS
<1>1. ASSUME UNCHANGED chameneos_vars PROVE MeetInv'
  <2>1. UNCHANGED <<m_program, m_pc, col, met, self_met, mate, mail, requests, broker, count, held,
                    total>>
    BY <1>1 DEF chameneos_vars
  <2>2. MeetTypes' /\ Reported' = Reported /\ (chameneos!Actors' <=> chameneos!Actors)
    BY <2>1, SameReported DEF MeetInv, MeetTypes, chameneos!Actors
  <2>3. Phases'
    BY <2>1, <2>2 DEF MeetInv, Phases
  <2>4. /\ \A k \in Nat, d \in Creatures :
             /\ Requested(k, d)' <=> Requested(k, d)
             /\ Holding(k, d)' <=> Holding(k, d)
             /\ Reports(k, d)' <=> Reports(k, d)
        /\ \A d \in Creatures :
             (Finalized(d)' <=> Finalized(d)) /\ (Over(d)' <=> Over(d)) /\ Ending(d)' = Ending(d)
    BY <2>1 DEF Requested, Holding, Reports, Finalized, Over, Ending
  <2>5. ASSUME OneRequest PROVE OneRequest'
    BY <2>1, <2>4, <2>5 DEF OneRequest
  <2>6. ASSUME ReportsLast PROVE ReportsLast'
    BY <2>1, <2>4, <2>6 DEF ReportsLast
  <2>7. ASSUME NEW d \in Creatures, Mails(d) PROVE Mails(d)'
    BY <2>1, <2>4, <2>7, SameMails DEF Mails
  <2>8. ASSUME NEW d \in Creatures, Directed(d) PROVE Directed(d)'
    BY <2>1, <2>4, <2>8 DEF Directed
  <2>9. Programmed'
    BY <2>1, <2>2, <2>5, <2>6, <2>7, <2>8 DEF MeetInv, Programmed
  <2>10. \A d \in Creatures : NotItself(d)' /\ MeetingsOf(d)' = MeetingsOf(d)
    BY <2>1 DEF MeetInv, NotItself, MeetingsOf, Coming
  <2>11. MeetsCounted'
    <3>1. Meets' = Meets /\ Made' = Made
      BY <2>1, <2>10 DEF Meets, Made
    <3> QED
      BY <2>1, <2>2, <3>1 DEF MeetInv, MeetsCounted
  <2> QED
    BY <2>2, <2>3, <2>9, <2>10, <2>11 DEF MeetInv
<1>2. ASSUME NEW c \in Creatures, chameneos!Creature(c) PROVE MeetInv'
  BY <1>2, BornStep, RequestStep, PerformStep, ReceiveStep, ToldStep, ReportStep DEF chameneos!Creature
<1>3. ASSUME chameneos!Broker PROVE MeetInv'
  BY <1>3, SpawnStep, CollectStep, AnswerStep, FinalizeStep, AddUpStep, CreateStep, ResumePairStep,
     ResumeLastStep DEF chameneos!Broker
<1> QED
  BY <1>1, <1>2, <1>3 DEF chameneos!Next, Creatures
=============================================================================
