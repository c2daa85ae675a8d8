----------------------------- MODULE SocketServer -----------------------------
(***************************************************************************)
(* The server around the task pool: server.cpp's main, socketBase with its *)
(* listen, send and receive thread on one epoll descriptor, the socket     *)
(* families, and taskController::onTaskProcessor.  The pool is its         *)
(* abstract specification TaskQueue, which ThreadPool implements; that     *)
(* onRecv hands on whole requests is TaskController's subject.             *)
(*                                                                         *)
(* A request is <<connection, number>>, and so is its response.  epoll is  *)
(* level triggered: epoll_wait returns every descriptor that is ready,     *)
(* and a thread keeps only the events it looks at.  The events of one call *)
(* are handled one by one while the other threads go on.                   *)
(***************************************************************************)
EXTENDS Integers, Sequences, FiniteSets

CONSTANTS
    Families,   \* subset of {"unix", "ipv4", "ipv6"}: what m_socket may be
    ListenFd,   \* the descriptor of the listening socket
    Fd,         \* descriptors that accept may return
    Requests,   \* Requests[c]: the commands client c sends, a sequence
    Patient     \* does a client stay until its API calls are answered?

Client   == DOMAIN Requests
Api      == {"api1", "api2"}              \* the cases of ENUM_API_COMMAND
Command  == Api \cup {"other", "short"}   \* an unknown one; fewer than 16 bytes
Thread   == {"listen", "send", "recv"}
Request  == UNION {{c} \X (1..Len(Requests[c])) : c \in Client}
MaxTasks == Cardinality(Request)
Kind(r)  == Requests[r[1]][r[2]]

ASSUME ServerAssumption ==
    /\ Families \subseteq {"unix", "ipv4", "ipv6"}
    /\ Fd \subseteq Nat \ {0} /\ ListenFd \in Nat \ (Fd \cup {0})
    /\ 0 \notin Client /\ IsFiniteSet(Client)
    /\ Requests \in [Client -> Seq(Command)]
    /\ Patient \in BOOLEAN

VARIABLES
    main,            \* where main is
    family,          \* the class of serverSocket
    m_socket,
    conn,            \* "new", "queued" by the kernel, "accepted" or "refused"
    left,            \* clients that have closed their end
    reset,           \* connections whose TCP peer has answered with a reset
    sent,            \* requests each client has sent
    recvd,           \* requests of each client that recv has returned
    got,             \* responses each client has received
    lost,            \* requests whose response the kernel did not take
    at,              \* the connection on each descriptor, 0 for none
    m_sendDataList,  \* responses waiting for each descriptor
    thread,          \* the three threads
    job,             \* the tasks given to addTask: descriptor and request
    pending, running, runs   \* the pool

startVars  == <<main, family, m_socket>>
clientVars == <<conn, left, reset, sent, got, lost>>
poolVars   == <<job, pending, running, runs>>
vars == <<startVars, clientVars, recvd, at, m_sendDataList, thread, poolVars>>

(* A task is never without a worker; the pool is closed when delInstance has *)
(* returned.                                                                 *)
Pool == INSTANCE TaskQueue WITH
            Workless <- {}, submitted <- Len(job), closed <- main = "deleted"

Idle == [pc |-> "epoll", events |-> {}, fd |-> 0, data |-> <<>>]

(* taskController's constructor has made the pool. *)
Init ==
    /\ main = "socket"
    /\ family \in Families
    /\ m_socket = -1
    /\ conn = [c \in Client |-> "new"]
    /\ left = [c \in Client |-> FALSE]
    /\ reset = [c \in Client |-> FALSE]
    /\ sent = [c \in Client |-> 0]
    /\ recvd = [c \in Client |-> 0]
    /\ got = [c \in Client |-> <<>>]
    /\ lost = {}
    /\ at = [f \in Fd |-> 0]
    /\ m_sendDataList = [f \in Fd |-> <<>>]
    /\ thread = [t \in Thread |-> [Idle EXCEPT !.pc = "off"]]
    /\ job = <<>>
    /\ Pool!Init

(***************************************************************************)
(* The families: what bind and connect may return.  Each has one bind; the *)
(* other returns -1.  The IPv6 ones pass the kernel an IPv4 address, which *)
(* is too short for an AF_INET6 socket.                                    *)
(***************************************************************************)
IfValid(socket, result) == IF socket > 0 THEN result ELSE {-1}

UnixBind(by) == IF by = "addr" THEN IfValid(m_socket, {0, -1}) ELSE {-1}
IPv4Bind(by) == IF by = "port" THEN IfValid(m_socket, {0, -1}) ELSE {-1}
IPv6Bind(by) == IF by = "port" THEN IfValid(m_socket, {-1}) ELSE {-1}

UnixConnect(socket) == IfValid(socket, {0, -1})
IPv4Connect(socket) == IfValid(socket, {0, -1})
IPv6Connect(socket) == IfValid(socket, {-1})

BindResult(by) ==
    IF family = "unix" THEN UnixBind(by)
    ELSE IF family = "ipv4" THEN IPv4Bind(by) ELSE IPv6Bind(by)

ConnectResult(socket) ==
    IF family = "unix" THEN UnixConnect(socket)
    ELSE IF family = "ipv4" THEN IPv4Connect(socket) ELSE IPv6Connect(socket)

(***************************************************************************)
(* main.  Each error returns from main, and the destructor of the          *)
(* controller then waits in delInstance for ever (JoinUnderLockNeverEnds   *)
(* of ThreadPool).                                                         *)
(***************************************************************************)
SocketResult == {-1, 0, ListenFd}   \* ::socket may even return 0

Socket ==
    /\ main = "socket"
    /\ m_socket' \in SocketResult
    /\ main' = IF m_socket' = -1 THEN "delInstance" ELSE "bind"
    /\ UNCHANGED <<family, clientVars, recvd, at, m_sendDataList, thread, poolVars>>

Bind(by) ==
    /\ main = "bind"
    /\ \E ret \in BindResult(by) : main' = IF ret = -1 THEN "delInstance" ELSE "listen"
    /\ UNCHANGED <<family, m_socket, clientVars, recvd, at, m_sendDataList, thread, poolVars>>

(* listen, epoll_create and epoll_ctl may fail; otherwise the threads start. *)
Listen ==
    /\ main = "listen"
    /\ \/ /\ main' = "delInstance"
          /\ UNCHANGED thread
       \/ /\ m_socket > 0
          /\ main' = "sleep"
          /\ thread' = [t \in Thread |-> Idle]
    /\ UNCHANGED <<family, m_socket, clientVars, recvd, at, m_sendDataList, poolVars>>

(***************************************************************************)
(* The clients.                                                            *)
(***************************************************************************)
Connect(c, socket) ==
    /\ main = "sleep"
    /\ conn[c] = "new" /\ ~left[c]
    /\ \E ret \in ConnectResult(socket) :
         /\ conn' = [conn EXCEPT ![c] = IF ret = 0 THEN "queued" ELSE @]
         /\ left' = [left EXCEPT ![c] = ret = -1]
    /\ UNCHANGED <<startVars, reset, sent, got, lost, recvd, at, m_sendDataList, thread, poolVars>>

ClientSend(c) ==
    /\ conn[c] \in {"queued", "accepted"} /\ ~left[c]
    /\ sent[c] < Len(Requests[c])
    /\ sent' = [sent EXCEPT ![c] = @ + 1]
    /\ UNCHANGED <<startVars, conn, left, reset, got, lost, recvd, at, m_sendDataList, thread, poolVars>>

(* It has sent everything and has the responses to its API calls. *)
Calls(c)  == {i \in 1..Len(Requests[c]) : Requests[c][i] \in Api}
Served(c) == sent[c] = Len(Requests[c]) /\ Len(got[c]) = Cardinality(Calls(c))

(* The client closes, or its process ends; TCP resets if a response is still *)
(* on its way.                                                               *)
Leave(c) ==
    /\ conn[c] # "new" /\ ~left[c]
    /\ Patient => Served(c) \/ conn[c] = "refused"
    /\ left' = [left EXCEPT ![c] = TRUE]
    /\ \E rst \in {FALSE} \cup (IF Served(c) THEN {} ELSE {TRUE}) :
         reset' = [reset EXCEPT ![c] = rst]
    /\ UNCHANGED <<startVars, conn, sent, got, lost, recvd, at, m_sendDataList, thread, poolVars>>

(***************************************************************************)
(* The three threads.                                                      *)
(***************************************************************************)
Open == {f \in Fd : at[f] # 0}

(* EPOLLERR or EPOLLHUP: a Unix socket reports it when the peer has closed, *)
(* a TCP socket only when the connection was reset.                         *)
Hup_Error(f) == at[f] # 0 /\ left[at[f]] /\ reset[at[f]]
Hup_Eof(f)   == at[f] # 0 /\ left[at[f]]
Hup_Any(f)   == at[f] # 0
Hup(f)       == at[f] # 0 /\ left[at[f]] /\ (family = "unix" \/ reset[at[f]])

Queued == {c \in Client : conn[c] = "queued"}

Ready(t) ==
    IF t = "listen" THEN {f \in Fd : Hup(f)} \cup (IF Queued = {} THEN {} ELSE {m_socket})
    ELSE IF t = "send" THEN Open   \* writable: EPOLLOUT
    ELSE {f \in Open : left[at[f]] \/ recvd[at[f]] < sent[at[f]]}   \* EPOLLIN

EpollWait(t) ==
    /\ main = "sleep"
    /\ thread[t] = Idle
    /\ Ready(t) # {}
    /\ thread' = [thread EXCEPT ![t].events = Ready(t)]
    /\ UNCHANGED <<startVars, clientVars, recvd, at, m_sendDataList, poolVars>>

(* The thread takes event f of its array. *)
Event(t, f) == thread[t].pc = "epoll" /\ f \in thread[t].events
Handled(t, f) == [thread EXCEPT ![t].events = @ \ {f}]
Busy(t, f, data) ==
    [thread EXCEPT ![t] = [pc |-> "busy", events |-> @.events \ {f}, fd |-> f, data |-> data]]
Done(t) == [thread EXCEPT ![t] = [Idle EXCEPT !.events = thread[t].events]]

(* accept may fail, and always does without a free descriptor or when the    *)
(* socket has been closed.  The kernel gives the lowest free descriptor.     *)
AcceptResult ==
    IfValid(m_socket,
            {-1} \cup {f \in Fd \ Open : main = "sleep" /\ \A g \in Fd \ Open : f <= g})

(* epoll_ctl may fail, and the connection is closed again. *)
Accept(c) ==
    /\ Event("listen", m_socket)
    /\ \E f \in AcceptResult :
         \/ /\ f = -1
            /\ UNCHANGED <<conn, at>>
         \/ /\ f # -1
            /\ conn' = [conn EXCEPT ![c] = "refused"]
            /\ UNCHANGED at
         \/ /\ f # -1
            /\ conn' = [conn EXCEPT ![c] = "accepted"]
            /\ at' = [at EXCEPT ![f] = c]
    /\ thread' = Handled("listen", m_socket)
    /\ UNCHANGED <<startVars, left, reset, sent, got, lost, recvd, m_sendDataList, poolVars>>

Erase(f) ==
    /\ f \in Fd
    /\ Event("listen", f)
    /\ m_sendDataList' = [m_sendDataList EXCEPT ![f] = <<>>]
    /\ thread' = Busy("listen", f, <<>>)
    /\ UNCHANGED <<startVars, clientVars, recvd, at, poolVars>>

(* close; EPOLL_CTL_DEL then finds nothing: only this thread accepts. *)
CloseFd ==
    /\ thread["listen"].pc = "busy"
    /\ at' = [at EXCEPT ![thread["listen"].fd] = 0]
    /\ thread' = Done("listen")
    /\ UNCHANGED <<startVars, clientVars, recvd, m_sendDataList, poolVars>>

(* Under m_wtmtx.  A missing list and an empty one are the same here. *)
MaySend_Two(list)  == Len(list) > 1
MaySend(list)      == list # <<>>
Popped_Kept(list)  == list
Popped(list)       == Tail(list)

PopFront(f) ==
    LET list == m_sendDataList[f] IN
    /\ Event("send", f)
    /\ IF MaySend(list)
       THEN /\ m_sendDataList' = [m_sendDataList EXCEPT ![f] = Popped(list)]
            /\ thread' = Busy("send", f, <<Head(list)>>)
       ELSE /\ thread' = Handled("send", f)
            /\ UNCHANGED m_sendDataList
    /\ UNCHANGED <<startVars, clientVars, recvd, at, poolVars>>

(* ::send after m_wtmtx was released: the response goes to whoever is on the *)
(* descriptor now.  A writable socket has room for one, but the kernel may   *)
(* be out of memory; an empty response is no byte; a client that has left    *)
(* makes it fail, and a TCP one answers with a reset.  The code does not     *)
(* look at the result, and deletes the response.                             *)
SendNow ==
    LET c == at[thread["send"].fd]
        r == Head(thread["send"].data)
        arrives == c # 0 /\ ~left[c] /\ Kind(r) \in Api
    IN
    /\ thread["send"].pc = "busy"
    /\ thread' = Done("send")
    /\ \/ /\ arrives
          /\ got' = [got EXCEPT ![c] = Append(@, r)]
          /\ UNCHANGED <<reset, lost>>
       \/ /\ arrives
          /\ lost' = lost \cup {r}
          /\ UNCHANGED <<got, reset>>
       \/ /\ ~arrives
          /\ reset' = IF c # 0 /\ Kind(r) \in Api THEN [reset EXCEPT ![c] = TRUE] ELSE reset
          /\ UNCHANGED <<got, lost>>
    /\ UNCHANGED <<startVars, conn, left, sent, recvd, at, m_sendDataList, poolVars>>

(* recv returns n requests; with none, 0 or -1 is only logged. *)
Received_Next(c, n) == [i \in 1..n |-> <<c, recvd[c] + i + 1>>]
Received(c, n)      == [i \in 1..n |-> <<c, recvd[c] + i>>]

Recv(f, n) ==
    LET c == at[f] IN
    /\ Event("recv", f)
    /\ n = 0 <=> c = 0 \/ (c # 0 /\ recvd[c] = sent[c])
    /\ IF n = 0 THEN thread' = Handled("recv", f) /\ UNCHANGED recvd
       ELSE /\ recvd[c] + n <= sent[c]
            /\ thread' = Busy("recv", f, Received(c, n))
            /\ recvd' = [recvd EXCEPT ![c] = @ + n]
    /\ UNCHANGED <<startVars, clientVars, at, m_sendDataList, poolVars>>

(* onRecv gives the pool one task after the other. *)
AddTask ==
    LET me == thread["recv"] IN
    /\ me.pc = "busy"
    /\ UNCHANGED <<startVars, clientVars, recvd, at, m_sendDataList>>
    /\ job' = Append(job, [fd |-> me.fd, request |-> Head(me.data)])
    /\ Pool!Submit
    /\ thread' = IF Len(me.data) = 1 THEN Done("recv")
                 ELSE [thread EXCEPT !["recv"].data = Tail(@)]

(***************************************************************************)
(* The pool's threads.                                                     *)
(***************************************************************************)
StartTask ==
    /\ UNCHANGED <<startVars, clientVars, recvd, at, m_sendDataList, thread, job>>
    /\ Pool!Start

(* socketBase::send. *)
Push(f, r) ==
    m_sendDataList' = IF f > 0 THEN [m_sendDataList EXCEPT ![f] = Append(@, r)]
                      ELSE m_sendDataList

OnTaskProcessor(k) ==
    /\ UNCHANGED <<startVars, clientVars, recvd, at, thread, job>>
    /\ Pool!Finish(k)
    /\ IF Kind(job[k].request) = "short" THEN UNCHANGED m_sendDataList
       ELSE Push(job[k].fd, job[k].request)

(***************************************************************************)
(* closeSocket: main would call it; no code does.  It closes the epoll     *)
(* descriptor, which does not wake a thread that is inside epoll_wait, and *)
(* joins the threads.                                                      *)
(***************************************************************************)
CloseSocket(inside) ==
    /\ main = "sleep"
    /\ main' = "join"
    /\ thread' = [t \in Thread |->
          IF t \in inside THEN [thread[t] EXCEPT !.pc = "inside"] ELSE thread[t]]
    /\ UNCHANGED <<family, m_socket, clientVars, recvd, at, m_sendDataList, poolVars>>

(* The call they are in still returns when a connection has an event, and an *)
(* open one is writable; the next call fails.                                *)
Wakes_Always == TRUE
Wakes        == Open # {}

LastWait(t) ==
    /\ thread[t].pc = "inside"
    /\ Wakes
    /\ thread' = [thread EXCEPT ![t] = [Idle EXCEPT !.events = Ready(t) \cap Fd]]
    /\ UNCHANGED <<startVars, clientVars, recvd, at, m_sendDataList, poolVars>>

(* The process is stopped and continued: epoll_wait returns -1 with EINTR,   *)
(* also in a thread that closeSocket waits for, and the thread's loop ends.  *)
Interrupted(t) ==
    /\ (main = "sleep" /\ thread[t] = Idle) \/ thread[t].pc = "inside"
    /\ thread' = [thread EXCEPT ![t] = [Idle EXCEPT !.pc = "interrupted"]]
    /\ UNCHANGED <<startVars, clientVars, recvd, at, m_sendDataList, poolVars>>

(* epoll_wait returns -1 because its descriptor is closed, and the loop ends. *)
ThreadEnd_Goes(t) == main = "join" /\ thread[t] = Idle /\ UNCHANGED vars
ThreadEnd(t) ==
    /\ main = "join"
    /\ thread[t] = Idle
    /\ thread' = [thread EXCEPT ![t].pc = "ended"]
    /\ UNCHANGED <<startVars, clientVars, recvd, at, m_sendDataList, poolVars>>

Joined ==
    /\ main = "join"
    /\ \A t \in Thread : thread[t].pc \in {"ended", "interrupted"}
    /\ main' = "closed"
    /\ UNCHANGED <<family, m_socket, clientVars, recvd, at, m_sendDataList, thread, poolVars>>

(***************************************************************************)
(* The specification.                                                      *)
(***************************************************************************)
ListenThread == EpollWait("listen") \/ (\E c \in Queued : Accept(c))
                \/ (\E f \in Fd : Erase(f)) \/ CloseFd
SendThread   == EpollWait("send") \/ (\E f \in Fd : PopFront(f)) \/ SendNow
RecvThread   == EpollWait("recv") \/ (\E f \in Fd, n \in 0..MaxTasks : Recv(f, n)) \/ AddTask
Worker       == StartTask \/ \E k \in running : OnTaskProcessor(k)
Closing      == (\E t \in Thread : LastWait(t) \/ ThreadEnd(t)) \/ Joined
Main         == Socket \/ (\E by \in {"addr", "port"} : Bind(by)) \/ Listen
                \/ (\E inside \in SUBSET {t \in Thread : thread[t] = Idle} : CloseSocket(inside))
                \/ (\E t \in Thread : Interrupted(t)) \/ Closing
Clients      == \E c \in Client : (\E socket \in {-1, 1} : Connect(c, socket))
                                  \/ ClientSend(c) \/ Leave(c)

Next == Main \/ Clients \/ ListenThread \/ SendThread \/ RecvThread \/ Worker

Safe == Init /\ [][Next]_vars

(* The three threads run, events wake them, a task that was begun comes to  *)
(* its end and so does a closeSocket whose threads have ended.  Nobody has  *)
(* to begin a task: the pool may have lost its threads (TaskRuns of         *)
(* ThreadPool fails with initTaskPool(8, 2)).  Nor is main bound to close   *)
(* the socket, or a client to send or to leave.                             *)
Fairness ==
    /\ WF_vars(ListenThread) /\ WF_vars(SendThread) /\ WF_vars(RecvThread)
    /\ WF_vars(\E k \in running : OnTaskProcessor(k))
    /\ WF_vars(Closing)

Spec == Safe /\ Fairness

(***************************************************************************)
(* Properties.                                                             *)
(***************************************************************************)
TypeOK ==
    /\ main \in {"socket", "bind", "listen", "sleep", "delInstance", "join", "closed"}
    /\ family \in Families
    /\ m_socket \in SocketResult
    /\ conn \in [Client -> {"new", "queued", "accepted", "refused"}]
    /\ left \in [Client -> BOOLEAN] /\ reset \in [Client -> BOOLEAN]
    /\ sent \in [Client -> Nat] /\ recvd \in [Client -> Nat]
    /\ got \in [Client -> Seq(Request)] /\ lost \subseteq Request
    /\ at \in [Fd -> Client \cup {0}]
    /\ m_sendDataList \in [Fd -> Seq(Request)]
    /\ thread \in [Thread -> [pc : {"off", "epoll", "busy", "inside", "interrupted", "ended"},
                              events : SUBSET (Fd \cup {ListenFd}),
                              fd : Fd \cup {0}, data : Seq(Request)]]
    /\ job \in Seq([fd : Fd, request : Request])
    /\ pending \in Seq(1..MaxTasks) /\ running \subseteq 1..MaxTasks
    /\ runs \in [1..MaxTasks -> Nat]

(* The response to a request goes to the client that sent it, by way of a   *)
(* descriptor number that is looked up again after the pool, the list and   *)
(* the send thread had it ("remove from clntConn list", socketBase.cpp:68,  *)
(* is all that is done when a client leaves).                               *)
RightClient ==
    \A c \in Client : \A i \in 1..Len(got[c]) : got[c][i][1] = c

(* No request is answered twice, to one client or to two, and none before   *)
(* recv has returned it: the receive thread, the pool, the list of the      *)
(* descriptor and the send thread hand a request on without keeping it.     *)
AnsweredOnce ==
    \A c, d \in Client : \A i \in 1..Len(got[c]), j \in 1..Len(got[d]) :
        /\ got[c][i] = got[d][j] => c = d /\ i = j
        /\ got[c][i][2] <= recvd[got[c][i][1]]

(* The server is up, and the threads of T have not been interrupted. *)
Up(T) == main = "sleep" /\ \A t \in T : thread[t].pc # "interrupted"

(* The task of request r is in the pool's queue. *)
InQueue(r) == \E i \in 1..Len(pending) : job[pending[i]].request = r

(* The server answers: a client on an accepted connection that stays gets   *)
(* the response to every call of an API, sooner or later (once sent, a call *)
(* stays sent).  Only four things prevent it: the task stays in the queue   *)
(* of a pool without threads for ever; the server is closed; the send or    *)
(* the receive thread was interrupted (the listen thread is not needed); or *)
(* ::send failed, which nobody notices.                                     *)
AnswerArrives ==
    \A r \in {q \in Request : Kind(q) \in Api} :
        []<>~InQueue(r) =>
            []<>(conn[r[1]] = "accepted" /\ sent[r[1]] >= r[2] =>
                    \/ ~Up({"send", "recv"}) \/ r \in lost
                    \/ \E i \in 1..Len(got[r[1]]) : got[r[1]][i] = r)

(* With Unix sockets the descriptors of clients that have left are closed,  *)
(* all of them in the end: the listen thread sees EPOLLHUP, whatever has    *)
(* become of the other threads.                                             *)
GoneIsClosed ==
    []<>(family = "unix" /\ Up({"listen"}) => \A f \in Fd : at[f] = 0 \/ ~left[at[f]])

(* With TCP sockets it is not: the end of the stream is no EPOLLHUP, recv   *)
(* returning 0 is only logged, and without a response to send the           *)
(* connection is never reset.                                               *)
TcpNeverClosed ==
    [][\A f \in Fd : family # "unix" /\ at[f] # 0 /\ left[at[f]] /\ Served(at[f])
                     => at'[f] = at[f]]_vars

(* closeSocket joins threads that closing the epoll descriptor does not     *)
(* wake.  Once no connection is open, a thread that is still inside         *)
(* epoll_wait stays there: nothing that threads, workers and clients do     *)
(* opens a connection or wakes it, only a signal that stops and continues   *)
(* the process.                                                             *)
Stuck(t) == main = "join" /\ Open = {} /\ thread[t].pc = "inside"
OnlySignalWakes ==
    [][\A t \in Thread : Stuck(t) => Stuck(t)' \/ thread'[t].pc = "interrupted"]_vars

(* And that is the only way to hang: otherwise closeSocket returns, since   *)
(* an open connection is writable and wakes every thread once more.         *)
CloseReturns == []<>(main = "join" => \E t \in Thread : Stuck(t))
===============================================================================
