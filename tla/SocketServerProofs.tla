--------------------------- MODULE SocketServerProofs ---------------------------
(***************************************************************************)
(* Proofs about module SocketServer, for any descriptors, any number of    *)
(* clients and whatever they send.                                         *)
(***************************************************************************)
EXTENDS SocketServer, TLAPS, SequenceTheorems, FiniteSetTheorems

LEMMA RequestFinite == IsFiniteSet(Request) /\ MaxTasks \in Nat
<1> DEFINE Of(c) == {c} \X (1..Len(Requests[c]))
           All == {Of(c) : c \in Client}
           f == [c \in Client |-> Of(c)]
<1>1. f \in Surjection(Client, All)
  BY DEF Surjection
<1>2. IsFiniteSet(All)
  BY <1>1, FS_Surjection, ServerAssumption
<1>3. ASSUME NEW c \in Client PROVE IsFiniteSet(Of(c))
  <2>1. Len(Requests[c]) \in Nat
    BY ServerAssumption
  <2>2. IsFiniteSet({c}) /\ IsFiniteSet(1..Len(Requests[c]))
    <3>1. IsFiniteSet({c})
      BY FS_Singleton
    <3>2. IsFiniteSet(1..Len(Requests[c]))
      BY <2>1, FS_Interval
    <3> QED BY <3>1, <3>2
  <2> QED BY <2>2, FS_Product
<1>4. \A T \in All : IsFiniteSet(T)
  BY <1>3
<1>5. IsFiniteSet(Request)
  BY <1>2, <1>4, FS_UNION DEF Request
<1> QED BY <1>5, FS_CardinalityType DEF MaxTasks

LEMMA RequestIs ==
    ASSUME NEW c \in Client, NEW i \in 1..Len(Requests[c])
    PROVE  <<c, i>> \in Request
BY DEF Request

LEMMA RequestParts ==
    ASSUME NEW r \in Request
    PROVE  /\ r[1] \in Client /\ r[2] \in 1..Len(Requests[r[1]]) /\ r = <<r[1], r[2]>>
           /\ r[1] # 0
BY ServerAssumption DEF Request

(***************************************************************************)
(* The records of the three threads.                                       *)
(***************************************************************************)
ThreadRec == [pc : {"off", "epoll", "busy", "inside", "interrupted", "ended"},
              events : SUBSET (Fd \cup {ListenFd}), fd : Fd \cup {0}, data : Seq(Request)]

(* A step changes the record of thread t only, to these fields. *)
Becomes(t, pc, events, fd, data) ==
    /\ thread'[t].pc = pc /\ thread'[t].events = events
    /\ thread'[t].fd = fd /\ thread'[t].data = data
    /\ \A u \in Thread : u # t => thread'[u] = thread[u]

LEMMA IdleIs == /\ Idle \in ThreadRec /\ Idle.pc = "epoll" /\ Idle.events = {}
                /\ Idle.fd = 0 /\ Idle.data = <<>>
BY DEF Idle, ThreadRec

LEMMA NewRecord ==
    ASSUME thread \in [Thread -> ThreadRec], NEW t \in Thread,
           NEW r \in ThreadRec, thread' = [thread EXCEPT ![t] = r]
    PROVE  thread' \in [Thread -> ThreadRec] /\ Becomes(t, r.pc, r.events, r.fd, r.data)
BY DEF Becomes

LEMMA HandledIs ==
    ASSUME thread \in [Thread -> ThreadRec], NEW t \in Thread, NEW f, thread' = Handled(t, f)
    PROVE  /\ thread' \in [Thread -> ThreadRec]
           /\ Becomes(t, thread[t].pc, thread[t].events \ {f}, thread[t].fd, thread[t].data)
<1> DEFINE r == [thread[t] EXCEPT !.events = thread[t].events \ {f}]
<1>0. thread[t] \in ThreadRec
  OBVIOUS
<1>1. /\ r \in ThreadRec /\ r.pc = thread[t].pc /\ r.events = thread[t].events \ {f}
      /\ r.fd = thread[t].fd /\ r.data = thread[t].data
  BY <1>0 DEF ThreadRec
<1>2. thread' = [thread EXCEPT ![t] = r]
  BY DEF Handled
<1> HIDE DEF r
<1>3. thread' \in [Thread -> ThreadRec] /\ Becomes(t, r.pc, r.events, r.fd, r.data)
  BY <1>1, <1>2, NewRecord
<1> QED BY <1>1, <1>3

LEMMA BusyIs ==
    ASSUME thread \in [Thread -> ThreadRec], NEW t \in Thread, NEW f \in Fd,
           NEW data \in Seq(Request), thread' = Busy(t, f, data)
    PROVE  /\ thread' \in [Thread -> ThreadRec]
           /\ Becomes(t, "busy", thread[t].events \ {f}, f, data)
<1> DEFINE r == [pc |-> "busy", events |-> thread[t].events \ {f}, fd |-> f, data |-> data]
<1>0. thread[t] \in ThreadRec
  OBVIOUS
<1>1. /\ r \in ThreadRec /\ r.pc = "busy" /\ r.events = thread[t].events \ {f}
      /\ r.fd = f /\ r.data = data
  BY <1>0 DEF ThreadRec
<1>2. thread' = [thread EXCEPT ![t] = r]
  BY DEF Busy
<1> HIDE DEF r
<1>3. thread' \in [Thread -> ThreadRec] /\ Becomes(t, r.pc, r.events, r.fd, r.data)
  BY <1>1, <1>2, NewRecord
<1> QED BY <1>1, <1>3

LEMMA DoneIs ==
    ASSUME thread \in [Thread -> ThreadRec], NEW t \in Thread, thread' = Done(t)
    PROVE  /\ thread' \in [Thread -> ThreadRec]
           /\ Becomes(t, "epoll", thread[t].events, 0, <<>>)
<1> DEFINE r == [Idle EXCEPT !.events = thread[t].events]
<1>0. thread[t] \in ThreadRec
  OBVIOUS
<1>1. /\ r \in ThreadRec /\ r.pc = "epoll" /\ r.events = thread[t].events
      /\ r.fd = 0 /\ r.data = <<>>
  BY <1>0, IdleIs DEF ThreadRec
<1>2. thread' = [thread EXCEPT ![t] = r]
  BY DEF Done
<1> HIDE DEF r
<1>3. thread' \in [Thread -> ThreadRec] /\ Becomes(t, r.pc, r.events, r.fd, r.data)
  BY <1>1, <1>2, NewRecord
<1> QED BY <1>1, <1>3

(***************************************************************************)
(* Types, and what keeps them: a busy thread has a descriptor and something *)
(* to do, nothing is received that was not sent, and tasks start in the    *)
(* order of their numbers.                                                 *)
(***************************************************************************)
StartT ==
    /\ main \in {"socket", "bind", "listen", "sleep", "delInstance", "join", "closed"}
    /\ family \in Families
    /\ m_socket \in SocketResult
    /\ main \in {"sleep", "join", "closed"} => m_socket = ListenFd

ClientT ==
    /\ conn \in [Client -> {"new", "queued", "accepted", "refused"}]
    /\ left \in [Client -> BOOLEAN] /\ reset \in [Client -> BOOLEAN]
    /\ sent \in [Client -> Nat] /\ recvd \in [Client -> Nat]
    /\ got \in [Client -> Seq(Request)] /\ lost \subseteq Request
    /\ \A c \in Client : recvd[c] <= sent[c] /\ sent[c] <= Len(Requests[c])

DataT ==
    /\ at \in [Fd -> Client \cup {0}]
    /\ m_sendDataList \in [Fd -> Seq(Request)]

ThreadT ==
    /\ thread \in [Thread -> ThreadRec]
    /\ \A t \in Thread : thread[t].pc = "busy" =>
         thread[t].fd \in Fd /\ (t # "listen" => thread[t].data # <<>>)

PoolT ==
    /\ job \in Seq([fd : Fd, request : Request]) /\ Len(job) <= MaxTasks
    /\ pending \in Seq(1..MaxTasks) /\ Len(pending) <= Len(job)
    /\ \A i \in 1..Len(pending) : pending[i] = (Len(job) - Len(pending)) + i
    /\ running \subseteq 1..(Len(job) - Len(pending))
    /\ runs \in [1..MaxTasks -> Nat]

TypeInv == StartT /\ ClientT /\ DataT /\ ThreadT /\ PoolT

LEMMA TypeImplied == TypeInv => TypeOK
<1> SUFFICES ASSUME TypeInv PROVE TypeOK
  OBVIOUS
<1>1. thread \in [Thread -> [pc : {"off", "epoll", "busy", "inside", "interrupted", "ended"},
                              events : SUBSET (Fd \cup {ListenFd}),
                              fd : Fd \cup {0}, data : Seq(Request)]]
  BY DEF TypeInv, ThreadT, ThreadRec
<1>2. running \subseteq 1..MaxTasks
  <2>1. Len(job) \in Nat /\ Len(pending) \in Nat /\ Len(job) <= MaxTasks
    BY DEF TypeInv, PoolT
  <2> QED BY <2>1, RequestFinite DEF TypeInv, PoolT
<1> QED BY <1>1, <1>2 DEF TypeInv, TypeOK, StartT, ClientT, DataT, PoolT

LEMMA TypeInit == Init => TypeInv
<1> SUFFICES ASSUME Init PROVE TypeInv
  OBVIOUS
<1>1. StartT
  BY DEF Init, StartT, SocketResult
<1>2. ClientT
  <2>1. \A c \in Client : 0 <= Len(Requests[c])
    BY ServerAssumption
  <2> QED BY <2>1 DEF Init, ClientT
<1>3. DataT
  BY DEF Init, DataT
<1>4. ThreadT
  <2> DEFINE r == [Idle EXCEPT !.pc = "off"]
  <2>1. r \in ThreadRec /\ r.pc = "off"
    BY IdleIs DEF ThreadRec
  <2> HIDE DEF r
  <2>2. thread = [t \in Thread |-> r]
    BY DEF Init, r
  <2> QED BY <2>1, <2>2 DEF ThreadT
<1>5. PoolT
  <2>1. job = <<>> /\ pending = <<>> /\ running = {} /\ runs = [k \in 1..MaxTasks |-> 0]
    BY DEF Init, Pool!Init
  <2>2. Len(job) = 0 /\ Len(pending) = 0
    BY <2>1
  <2> QED BY <2>1, <2>2, RequestFinite DEF PoolT
<1> QED BY <1>1, <1>2, <1>3, <1>4, <1>5 DEF TypeInv

LEMMA Frame ==
    ASSUME TypeInv
    PROVE  /\ UNCHANGED startVars => StartT'
           /\ UNCHANGED clientVars /\ UNCHANGED recvd => ClientT'
           /\ UNCHANGED at /\ UNCHANGED m_sendDataList => DataT'
           /\ UNCHANGED thread => ThreadT'
           /\ UNCHANGED poolVars => PoolT'
<1>1. UNCHANGED startVars => StartT'
  BY DEF TypeInv, StartT, startVars
<1>2. UNCHANGED clientVars /\ UNCHANGED recvd => ClientT'
  BY DEF TypeInv, ClientT, clientVars
<1>3. UNCHANGED at /\ UNCHANGED m_sendDataList => DataT'
  BY DEF TypeInv, DataT
<1>4. UNCHANGED thread => ThreadT'
  BY DEF TypeInv, ThreadT
<1>5. UNCHANGED poolVars => PoolT'
  BY DEF TypeInv, PoolT, poolVars
<1> QED BY <1>1, <1>2, <1>3, <1>4, <1>5

LEMMA ThreadTStep ==
    ASSUME ThreadT, NEW t \in Thread, thread' \in [Thread -> ThreadRec],
           NEW pc, NEW events, NEW fd, NEW data, Becomes(t, pc, events, fd, data),
           pc = "busy" => fd \in Fd /\ (t # "listen" => data # <<>>)
    PROVE  ThreadT'
BY DEF ThreadT, Becomes

(* main and the clients. *)
LEMMA MainTypes ==
    ASSUME TypeInv, Socket \/ (\E by \in {"addr", "port"} : Bind(by)) \/ Listen \/ Joined
    PROVE  TypeInv'
<1>1. StartT'
  <2>1. CASE Socket
    BY <2>1 DEF TypeInv, StartT, Socket
  <2>2. ASSUME NEW by \in {"addr", "port"}, Bind(by) PROVE StartT'
    BY <2>2 DEF TypeInv, StartT, Bind
  <2>3. CASE Listen
    <3>1. m_socket > 0 => m_socket = ListenFd
      BY DEF TypeInv, StartT, SocketResult
    <3> QED BY <2>3, <3>1 DEF TypeInv, StartT, Listen
  <2>4. CASE Joined
    BY <2>4 DEF TypeInv, StartT, Joined
  <2> QED BY <2>1, <2>2, <2>3, <2>4
<1>2. ThreadT'
  <2>1. CASE UNCHANGED thread
    BY <2>1, Frame
  <2>2. CASE thread' = [t \in Thread |-> Idle]
    BY <2>2, IdleIs DEF ThreadT
  <2> QED BY <2>1, <2>2 DEF Socket, Bind, Listen, Joined
<1>3. UNCHANGED <<clientVars, recvd, at, m_sendDataList, poolVars>>
  BY DEF Socket, Bind, Listen, Joined
<1> QED BY <1>1, <1>2, <1>3, Frame DEF TypeInv

LEMMA ClientTypes ==
    ASSUME TypeInv, NEW c \in Client,
           (\E socket \in {-1, 1} : Connect(c, socket)) \/ ClientSend(c) \/ Leave(c)
    PROVE  TypeInv'
<1>1. ClientT'
  <2>1. ASSUME NEW socket \in {-1, 1}, Connect(c, socket) PROVE ClientT'
    BY <2>1 DEF TypeInv, ClientT, Connect
  <2>2. CASE ClientSend(c)
    <3>1. Len(Requests[c]) \in Nat /\ sent[c] \in Nat /\ recvd[c] \in Nat
      BY ServerAssumption DEF TypeInv, ClientT
    <3>2. sent' = [sent EXCEPT ![c] = sent[c] + 1] /\ sent[c] + 1 <= Len(Requests[c])
      BY <2>2, <3>1 DEF ClientSend
    <3> QED BY <2>2, <3>1, <3>2 DEF TypeInv, ClientT, ClientSend
  <2>3. CASE Leave(c)
    BY <2>3 DEF TypeInv, ClientT, Leave
  <2> QED BY <2>1, <2>2, <2>3
<1>2. UNCHANGED <<startVars, at, m_sendDataList, thread, poolVars>>
  BY DEF Connect, ClientSend, Leave
<1> QED BY <1>1, <1>2, Frame DEF TypeInv

(***************************************************************************)
(* What each step of the three threads does, field by field.               *)
(***************************************************************************)
LEMMA WaitIs ==
    ASSUME TypeInv, NEW t \in Thread, EpollWait(t)
    PROVE  /\ thread' \in [Thread -> ThreadRec] /\ Becomes(t, "epoll", Ready(t), 0, <<>>)
           /\ thread[t].pc = "epoll" /\ main = "sleep"
           /\ UNCHANGED <<startVars, clientVars, recvd, at, m_sendDataList, poolVars>>
<1>1. /\ thread[t] = Idle /\ thread' = [thread EXCEPT ![t].events = Ready(t)] /\ main = "sleep"
      /\ UNCHANGED <<startVars, clientVars, recvd, at, m_sendDataList, poolVars>>
  BY DEF EpollWait
<1>2. m_socket = ListenFd
  BY <1>1 DEF TypeInv, StartT
<1>3. Ready(t) \subseteq Fd \cup {ListenFd}
  BY <1>2 DEF Ready, Open
<1> DEFINE r == [Idle EXCEPT !.events = Ready(t)]
<1>4. /\ r \in ThreadRec /\ r.pc = "epoll" /\ r.events = Ready(t) /\ r.fd = 0 /\ r.data = <<>>
  BY <1>3, IdleIs DEF ThreadRec
<1>5. thread' = [thread EXCEPT ![t] = r]
  BY <1>1
<1> HIDE DEF r
<1>6. thread' \in [Thread -> ThreadRec] /\ Becomes(t, r.pc, r.events, r.fd, r.data)
  BY <1>4, <1>5, NewRecord DEF TypeInv, ThreadT
<1> QED BY <1>1, <1>4, <1>6, IdleIs

LEMMA AcceptIs ==
    ASSUME TypeInv, NEW c \in Queued, Accept(c)
    PROVE  /\ thread' \in [Thread -> ThreadRec] /\ thread["listen"].pc = "epoll"
           /\ Becomes("listen", "epoll", thread["listen"].events \ {m_socket},
                      thread["listen"].fd, thread["listen"].data)
           /\ c \in Client /\ conn[c] = "queued"
           /\ \/ UNCHANGED <<conn, at>>
              \/ /\ conn' = [conn EXCEPT ![c] = "refused"] /\ UNCHANGED at /\ main = "sleep"
              \/ /\ conn' = [conn EXCEPT ![c] = "accepted"] /\ main = "sleep"
                 /\ \E f \in Fd : at[f] = 0 /\ at' = [at EXCEPT ![f] = c]
           /\ UNCHANGED <<startVars, left, reset, sent, got, lost, recvd, m_sendDataList, poolVars>>
<1>1. /\ thread["listen"].pc = "epoll" /\ thread' = Handled("listen", m_socket)
      /\ UNCHANGED <<startVars, left, reset, sent, got, lost, recvd, m_sendDataList, poolVars>>
  BY DEF Accept, Event
<1>2. "listen" \in Thread /\ thread \in [Thread -> ThreadRec]
  BY DEF Thread, TypeInv, ThreadT
<1>3. /\ thread' \in [Thread -> ThreadRec]
      /\ Becomes("listen", "epoll", thread["listen"].events \ {m_socket},
                 thread["listen"].fd, thread["listen"].data)
  BY <1>1, <1>2, HandledIs
<1>4. \/ UNCHANGED <<conn, at>>
      \/ /\ conn' = [conn EXCEPT ![c] = "refused"] /\ UNCHANGED at /\ main = "sleep"
      \/ /\ conn' = [conn EXCEPT ![c] = "accepted"] /\ main = "sleep"
         /\ \E f \in Fd : at[f] = 0 /\ at' = [at EXCEPT ![f] = c]
  <2>1. PICK f \in AcceptResult :
           \/ f = -1 /\ UNCHANGED <<conn, at>>
           \/ f # -1 /\ conn' = [conn EXCEPT ![c] = "refused"] /\ UNCHANGED at
           \/ f # -1 /\ conn' = [conn EXCEPT ![c] = "accepted"] /\ at' = [at EXCEPT ![f] = c]
    BY DEF Accept
  <2>2. f # -1 => main = "sleep" /\ f \in Fd /\ at[f] = 0
    BY <2>1 DEF AcceptResult, IfValid, Open
  <2> QED BY <2>1, <2>2
<1> QED BY <1>1, <1>3, <1>4 DEF Queued

LEMMA EraseIs ==
    ASSUME TypeInv, NEW f \in Fd, Erase(f)
    PROVE  /\ thread' \in [Thread -> ThreadRec] /\ thread["listen"].pc = "epoll"
           /\ f \in thread["listen"].events
           /\ Becomes("listen", "busy", thread["listen"].events \ {f}, f, <<>>)
           /\ m_sendDataList' = [m_sendDataList EXCEPT ![f] = <<>>]
           /\ UNCHANGED <<startVars, clientVars, recvd, at, poolVars>>
<1>1. /\ thread["listen"].pc = "epoll" /\ f \in thread["listen"].events
      /\ thread' = Busy("listen", f, <<>>)
      /\ m_sendDataList' = [m_sendDataList EXCEPT ![f] = <<>>]
      /\ UNCHANGED <<startVars, clientVars, recvd, at, poolVars>>
  BY DEF Erase, Event
<1>2. "listen" \in Thread /\ thread \in [Thread -> ThreadRec] /\ <<>> \in Seq(Request)
  BY DEF Thread, TypeInv, ThreadT
<1>3. /\ thread' \in [Thread -> ThreadRec]
      /\ Becomes("listen", "busy", thread["listen"].events \ {f}, f, <<>>)
  BY <1>1, <1>2, BusyIs
<1> QED BY <1>1, <1>3

LEMMA CloseFdIs ==
    ASSUME TypeInv, CloseFd
    PROVE  /\ thread' \in [Thread -> ThreadRec] /\ thread["listen"].pc = "busy"
           /\ thread["listen"].fd \in Fd
           /\ Becomes("listen", "epoll", thread["listen"].events, 0, <<>>)
           /\ at' = [at EXCEPT ![thread["listen"].fd] = 0]
           /\ UNCHANGED <<startVars, clientVars, recvd, m_sendDataList, poolVars>>
<1>1. /\ thread["listen"].pc = "busy" /\ thread' = Done("listen")
      /\ at' = [at EXCEPT ![thread["listen"].fd] = 0]
      /\ UNCHANGED <<startVars, clientVars, recvd, m_sendDataList, poolVars>>
  BY DEF CloseFd
<1>2. "listen" \in Thread /\ thread \in [Thread -> ThreadRec]
  BY DEF Thread, TypeInv, ThreadT
<1>3. thread' \in [Thread -> ThreadRec] /\ Becomes("listen", "epoll", thread["listen"].events, 0, <<>>)
  BY <1>1, <1>2, DoneIs
<1>4. thread["listen"].fd \in Fd
  BY <1>1, <1>2 DEF TypeInv, ThreadT
<1> QED BY <1>1, <1>3, <1>4

LEMMA PopIs ==
    ASSUME TypeInv, NEW f \in Fd, PopFront(f)
    PROVE  /\ thread' \in [Thread -> ThreadRec] /\ thread["send"].pc = "epoll"
           /\ \/ /\ m_sendDataList[f] # <<>>
                 /\ m_sendDataList' = [m_sendDataList EXCEPT ![f] = Tail(m_sendDataList[f])]
                 /\ Becomes("send", "busy", thread["send"].events \ {f}, f, <<Head(m_sendDataList[f])>>)
              \/ /\ UNCHANGED m_sendDataList
                 /\ Becomes("send", "epoll", thread["send"].events \ {f},
                            thread["send"].fd, thread["send"].data)
           /\ UNCHANGED <<startVars, clientVars, recvd, at, poolVars>>
<1>1. /\ thread["send"].pc = "epoll"
      /\ \/ /\ m_sendDataList[f] # <<>>
            /\ m_sendDataList' = [m_sendDataList EXCEPT ![f] = Tail(m_sendDataList[f])]
            /\ thread' = Busy("send", f, <<Head(m_sendDataList[f])>>)
         \/ thread' = Handled("send", f) /\ UNCHANGED m_sendDataList
      /\ UNCHANGED <<startVars, clientVars, recvd, at, poolVars>>
  BY DEF PopFront, Event, MaySend, Popped
<1>2. "send" \in Thread /\ thread \in [Thread -> ThreadRec] /\ m_sendDataList[f] \in Seq(Request)
  BY DEF Thread, TypeInv, ThreadT, DataT
<1>3. CASE m_sendDataList[f] # <<>> /\ thread' = Busy("send", f, <<Head(m_sendDataList[f])>>)
                                  /\ m_sendDataList' = [m_sendDataList EXCEPT ![f] = Tail(m_sendDataList[f])]
  <2>1. PICK r : r = Head(m_sendDataList[f])
    OBVIOUS
  <2>2. r \in Request
    BY <1>2, <1>3, <2>1
  <2>3. <<r>> \in Seq(Request)
    BY <2>2
  <2>4. thread' \in [Thread -> ThreadRec] /\ Becomes("send", "busy", thread["send"].events \ {f}, f, <<r>>)
    BY <1>2, <1>3, <2>1, <2>3, BusyIs
  <2> QED BY <1>1, <1>3, <2>1, <2>4
<1>4. CASE thread' = Handled("send", f) /\ UNCHANGED m_sendDataList
  <2>1. /\ thread' \in [Thread -> ThreadRec]
        /\ Becomes("send", "epoll", thread["send"].events \ {f}, thread["send"].fd, thread["send"].data)
    BY <1>1, <1>2, <1>4, HandledIs
  <2> QED BY <1>1, <1>4, <2>1
<1> QED BY <1>1, <1>3, <1>4

LEMMA SendIs ==
    ASSUME TypeInv, SendNow
    PROVE  /\ thread' \in [Thread -> ThreadRec] /\ thread["send"].pc = "busy"
           /\ Becomes("send", "epoll", thread["send"].events, 0, <<>>)
           /\ \E c, r, taken :
                /\ c = at[thread["send"].fd] /\ r = thread["send"].data[1] /\ r \in Request
                /\ c \in Client \cup {0} /\ taken \in BOOLEAN
                /\ got' = IF taken /\ c # 0 /\ ~left[c] /\ Kind(r) \in Api
                          THEN [got EXCEPT ![c] = Append(got[c], r)] ELSE got
                /\ reset' = IF c # 0 /\ left[c] /\ Kind(r) \in Api
                            THEN [reset EXCEPT ![c] = TRUE] ELSE reset
                /\ lost' \in {lost, lost \cup {r}}
           /\ UNCHANGED <<startVars, conn, left, sent, recvd, at, m_sendDataList, poolVars>>
<1>1. PICK c, r : c = at[thread["send"].fd] /\ r = Head(thread["send"].data)
  OBVIOUS
<1>3. PICK arrives \in BOOLEAN : arrives <=> c # 0 /\ ~left[c] /\ Kind(r) \in Api
  BY Zenon
<1>4. /\ thread["send"].pc = "busy" /\ thread' = Done("send")
      /\ \/ arrives /\ got' = [got EXCEPT ![c] = Append(got[c], r)] /\ UNCHANGED <<reset, lost>>
         \/ arrives /\ lost' = lost \cup {r} /\ UNCHANGED <<got, reset>>
         \/ /\ ~arrives
            /\ reset' = IF c # 0 /\ Kind(r) \in Api THEN [reset EXCEPT ![c] = TRUE] ELSE reset
            /\ UNCHANGED <<got, lost>>
      /\ UNCHANGED <<startVars, conn, left, sent, recvd, at, m_sendDataList, poolVars>>
  BY <1>1, <1>3 DEF SendNow
<1>5. "send" \in Thread /\ thread \in [Thread -> ThreadRec]
  BY DEF Thread, TypeInv, ThreadT
<1>6. thread' \in [Thread -> ThreadRec] /\ Becomes("send", "epoll", thread["send"].events, 0, <<>>)
  BY <1>4, <1>5, DoneIs
<1>7. thread["send"].fd \in Fd /\ thread["send"].data \in Seq(Request) /\ thread["send"].data # <<>>
  BY <1>4, <1>5 DEF TypeInv, ThreadT, ThreadRec
<1>8. r \in Request /\ r = thread["send"].data[1]
  BY <1>1, <1>7
<1>9. c \in Client \cup {0}
  BY <1>1, <1>7 DEF TypeInv, DataT
<1>10. /\ reset' = IF c # 0 /\ left[c] /\ Kind(r) \in Api THEN [reset EXCEPT ![c] = TRUE] ELSE reset
       /\ lost' \in {lost, lost \cup {r}}
  BY <1>3, <1>4
<1>11. \E took \in BOOLEAN :
         got' = IF took /\ c # 0 /\ ~left[c] /\ Kind(r) \in Api
                THEN [got EXCEPT ![c] = Append(got[c], r)] ELSE got
  <2>1. CASE arrives /\ got' = [got EXCEPT ![c] = Append(got[c], r)]
    BY <1>3, <2>1
  <2>2. CASE got' = got
    BY <2>2
  <2> QED BY <1>4, <2>1, <2>2
<1> QED BY <1>1, <1>4, <1>6, <1>8, <1>9, <1>10, <1>11

LEMMA RecvIs ==
    ASSUME TypeInv, NEW f \in Fd, NEW n \in 0..MaxTasks, Recv(f, n)
    PROVE  /\ thread' \in [Thread -> ThreadRec] /\ thread["recv"].pc = "epoll"
           /\ \/ /\ UNCHANGED recvd
                 /\ Becomes("recv", "epoll", thread["recv"].events \ {f},
                            thread["recv"].fd, thread["recv"].data)
              \/ /\ n > 0 /\ at[f] \in Client /\ recvd[at[f]] + n <= sent[at[f]]
                 /\ \E hand \in Seq(Request) :
                      /\ Len(hand) = n
                      /\ \A i \in 1..n : hand[i] = <<at[f], recvd[at[f]] + i>>
                      /\ Becomes("recv", "busy", thread["recv"].events \ {f}, f, hand)
                 /\ recvd' = [recvd EXCEPT ![at[f]] = recvd[at[f]] + n]
           /\ UNCHANGED <<startVars, clientVars, at, m_sendDataList, poolVars>>
<1>1. PICK c : c = at[f]
  OBVIOUS
<1>2. /\ thread["recv"].pc = "epoll"
      /\ n = 0 <=> (c = 0 \/ (c # 0 /\ recvd[c] = sent[c]))
      /\ \/ n = 0 /\ thread' = Handled("recv", f) /\ UNCHANGED recvd
         \/ /\ n # 0 /\ recvd[c] + n <= sent[c]
            /\ thread' = Busy("recv", f, Received(c, n))
            /\ recvd' = [recvd EXCEPT ![c] = recvd[c] + n]
      /\ UNCHANGED <<startVars, clientVars, at, m_sendDataList, poolVars>>
  BY <1>1 DEF Recv, Event
<1>3. "recv" \in Thread /\ thread \in [Thread -> ThreadRec]
  BY DEF Thread, TypeInv, ThreadT
<1>4. CASE n = 0
  <2>1. /\ thread' \in [Thread -> ThreadRec]
        /\ Becomes("recv", "epoll", thread["recv"].events \ {f}, thread["recv"].fd, thread["recv"].data)
    BY <1>2, <1>3, <1>4, HandledIs
  <2> QED BY <1>2, <1>4, <2>1
<1>5. CASE n # 0
  <2>0. n \in Nat /\ n > 0
    BY <1>5, RequestFinite
  <2>1. c \in Client
    BY <1>1, <1>2, <1>5 DEF TypeInv, DataT
  <2>2. recvd[c] \in Nat /\ sent[c] \in Nat /\ Len(Requests[c]) \in Nat /\ sent[c] <= Len(Requests[c])
    BY <2>1, ServerAssumption DEF TypeInv, ClientT
  <2>3. recvd[c] + n <= sent[c]
    BY <1>2, <1>5
  <2>4. PICK hand : hand = Received(c, n)
    OBVIOUS
  <2>5. \A i \in 1..n : <<c, recvd[c] + i>> \in Request
    <3> SUFFICES ASSUME NEW i \in 1..n PROVE <<c, recvd[c] + i>> \in Request
      OBVIOUS
    <3>1. recvd[c] + i \in 1..Len(Requests[c])
      BY <2>0, <2>2, <2>3
    <3> QED BY <2>1, <3>1, RequestIs
  <2>6. hand \in Seq(Request) /\ Len(hand) = n /\ \A i \in 1..n : hand[i] = <<c, recvd[c] + i>>
    BY <2>0, <2>4, <2>5 DEF Received
  <2>7. /\ thread' \in [Thread -> ThreadRec]
        /\ Becomes("recv", "busy", thread["recv"].events \ {f}, f, hand)
    BY <1>2, <1>3, <1>5, <2>4, <2>6, BusyIs
  <2> QED BY <1>1, <1>2, <1>5, <2>0, <2>1, <2>3, <2>6, <2>7
<1> QED BY <1>4, <1>5

LEMMA AddIs ==
    ASSUME TypeInv, AddTask
    PROVE  /\ thread' \in [Thread -> ThreadRec] /\ thread["recv"].pc = "busy"
           /\ thread["recv"].fd \in Fd
           /\ thread["recv"].data \in Seq(Request) /\ thread["recv"].data # <<>>
           /\ job' = Append(job, [fd |-> thread["recv"].fd, request |-> thread["recv"].data[1]])
           /\ Len(job) < MaxTasks
           /\ pending' = Append(pending, Len(job) + 1) /\ UNCHANGED <<running, runs>>
           /\ \/ /\ Len(thread["recv"].data) = 1
                 /\ Becomes("recv", "epoll", thread["recv"].events, 0, <<>>)
              \/ /\ Len(thread["recv"].data) > 1
                 /\ Becomes("recv", "busy", thread["recv"].events, thread["recv"].fd,
                            Tail(thread["recv"].data))
           /\ UNCHANGED <<startVars, clientVars, recvd, at, m_sendDataList>>
<1>1. /\ thread["recv"].pc = "busy"
      /\ job' = Append(job, [fd |-> thread["recv"].fd, request |-> Head(thread["recv"].data)])
      /\ thread' = IF Len(thread["recv"].data) = 1 THEN Done("recv")
                   ELSE [thread EXCEPT !["recv"].data = Tail(thread["recv"].data)]
      /\ UNCHANGED <<startVars, clientVars, recvd, at, m_sendDataList>>
  BY DEF AddTask
<1>2. /\ Len(job) < MaxTasks
      /\ pending' = Append(pending, Len(job) + 1) /\ UNCHANGED <<running, runs>>
  BY DEF AddTask, Pool!Submit
<1>3. "recv" \in Thread /\ thread \in [Thread -> ThreadRec] /\ thread["recv"] \in ThreadRec
  BY DEF Thread, TypeInv, ThreadT
<1>4. /\ thread["recv"].fd \in Fd /\ thread["recv"].data \in Seq(Request)
      /\ thread["recv"].data # <<>> /\ thread["recv"].events \in SUBSET (Fd \cup {ListenFd})
  BY <1>1, <1>3 DEF TypeInv, ThreadT, ThreadRec
<1>5. PICK d : d = thread["recv"].data
  OBVIOUS
<1>6. Head(d) = d[1] /\ Len(d) \in Nat /\ Len(d) >= 1 /\ Tail(d) \in Seq(Request)
  BY <1>4, <1>5
<1>7. CASE Len(d) = 1
  <2>1. thread' \in [Thread -> ThreadRec] /\ Becomes("recv", "epoll", thread["recv"].events, 0, <<>>)
    BY <1>1, <1>3, <1>5, <1>7, DoneIs
  <2> QED BY <1>1, <1>2, <1>4, <1>5, <1>6, <1>7, <2>1
<1>8. CASE Len(d) # 1
  <2> DEFINE r == [thread["recv"] EXCEPT !.data = Tail(d)]
  <2>1. /\ r \in ThreadRec /\ r.pc = "busy" /\ r.events = thread["recv"].events
        /\ r.fd = thread["recv"].fd /\ r.data = Tail(d)
    BY <1>1, <1>3, <1>6 DEF ThreadRec
  <2>2. thread' = [thread EXCEPT !["recv"] = r]
    BY <1>1, <1>5, <1>8
  <2> HIDE DEF r
  <2>3. thread' \in [Thread -> ThreadRec] /\ Becomes("recv", r.pc, r.events, r.fd, r.data)
    BY <1>3, <2>1, <2>2, NewRecord
  <2>4. Len(d) > 1
    <3>1. \A n \in Nat : n >= 1 /\ n # 1 => n > 1
      OBVIOUS
    <3> QED BY <1>6, <1>8, <3>1
  <2> QED BY <1>1, <1>2, <1>4, <1>5, <1>6, <2>1, <2>3, <2>4
<1> QED BY <1>7, <1>8

LEMMA StartIs ==
    ASSUME TypeInv, StartTask
    PROVE  /\ Len(pending) > 0 /\ pending[1] = (Len(job) - Len(pending)) + 1
           /\ running' = running \cup {pending[1]} /\ pending' = Tail(pending)
           /\ UNCHANGED <<startVars, clientVars, recvd, at, m_sendDataList, thread, job, runs>>
<1>1. /\ pending # <<>> /\ running' = running \cup {Head(pending)} /\ pending' = Tail(pending)
      /\ UNCHANGED <<startVars, clientVars, recvd, at, m_sendDataList, thread, job, runs>>
  BY DEF StartTask, Pool!Start
<1>2. pending \in Seq(1..MaxTasks) /\ \A i \in 1..Len(pending) : pending[i] = (Len(job) - Len(pending)) + i
  BY DEF TypeInv, PoolT
<1>3. Len(pending) \in Nat /\ Len(pending) > 0 /\ Head(pending) = pending[1]
  BY <1>1, <1>2
<1>4. 1 \in 1..Len(pending)
  BY <1>3
<1> QED BY <1>1, <1>2, <1>3, <1>4

(* Which task is done, and whether a response is queued. *)
LEMMA FinishIs ==
    ASSUME TypeInv, NEW k \in running, OnTaskProcessor(k)
    PROVE  /\ k \in 1..(Len(job) - Len(pending)) /\ k \in 1..Len(job) /\ k \in 1..MaxTasks
           /\ job[k].fd \in Fd /\ job[k].request \in Request
           /\ running' = running \ {k} /\ runs' = [runs EXCEPT ![k] = runs[k] + 1]
           /\ \/ Kind(job[k].request) = "short" /\ UNCHANGED m_sendDataList
              \/ m_sendDataList' = [m_sendDataList EXCEPT
                     ![job[k].fd] = Append(m_sendDataList[job[k].fd], job[k].request)]
           /\ UNCHANGED <<startVars, clientVars, recvd, at, thread, job, pending>>
<1>1. /\ running' = running \ {k} /\ runs' = [runs EXCEPT ![k] = runs[k] + 1]
      /\ UNCHANGED <<startVars, clientVars, recvd, at, thread, job, pending>>
      /\ IF Kind(job[k].request) = "short" THEN UNCHANGED m_sendDataList
         ELSE Push(job[k].fd, job[k].request)
  BY DEF OnTaskProcessor, Pool!Finish
<1>2. /\ k \in 1..(Len(job) - Len(pending)) /\ Len(job) \in Nat /\ Len(pending) \in Nat
      /\ Len(job) <= MaxTasks /\ job \in Seq([fd : Fd, request : Request])
  BY DEF TypeInv, PoolT
<1>3. k \in 1..Len(job) /\ k \in 1..MaxTasks
  BY <1>2, RequestFinite
<1>4. job[k] \in [fd : Fd, request : Request]
  BY <1>2, <1>3, ElementOfSeq
<1>5. job[k].fd \in Fd /\ job[k].request \in Request
  BY <1>4
<1>6. job[k].fd > 0
  <2>1. \A f \in Fd : f > 0
    BY ServerAssumption
  <2> QED BY <1>5, <2>1
<1> QED BY <1>1, <1>2, <1>3, <1>5, <1>6 DEF Push

LEMMA CloseSocketIs ==
    ASSUME TypeInv, NEW inside \in SUBSET {t \in Thread : thread[t] = Idle}, CloseSocket(inside)
    PROVE  /\ thread' \in [Thread -> ThreadRec] /\ main = "sleep" /\ main' = "join"
           /\ \A t \in Thread :
                \/ thread'[t] = thread[t]
                \/ /\ thread[t] = Idle /\ thread'[t].pc = "inside" /\ thread'[t].events = {}
                   /\ thread'[t].fd = 0 /\ thread'[t].data = <<>>
           /\ UNCHANGED <<family, m_socket, clientVars, recvd, at, m_sendDataList, poolVars>>
<1>1. /\ main = "sleep" /\ main' = "join"
      /\ thread' = [t \in Thread |->
            IF t \in inside THEN [thread[t] EXCEPT !.pc = "inside"] ELSE thread[t]]
      /\ UNCHANGED <<family, m_socket, clientVars, recvd, at, m_sendDataList, poolVars>>
  BY DEF CloseSocket
<1>2. thread \in [Thread -> ThreadRec]
  BY DEF TypeInv, ThreadT
<1> DEFINE r == [Idle EXCEPT !.pc = "inside"]
<1>3. r \in ThreadRec /\ r.pc = "inside" /\ r.events = {} /\ r.fd = 0 /\ r.data = <<>>
  BY IdleIs DEF ThreadRec
<1>4. \A t \in Thread : thread'[t] = IF t \in inside THEN r ELSE thread[t]
  BY <1>1
<1> HIDE DEF r
<1>5. \A t \in Thread : thread'[t] \in ThreadRec
  BY <1>2, <1>3, <1>4
<1>6. thread' \in [Thread -> ThreadRec]
  BY <1>1, <1>5
<1> QED BY <1>1, <1>3, <1>4, <1>6

LEMMA LastWaitIs ==
    ASSUME TypeInv, NEW t \in Thread, LastWait(t)
    PROVE  /\ thread' \in [Thread -> ThreadRec] /\ thread[t].pc = "inside" /\ Open # {}
           /\ Becomes(t, "epoll", Ready(t) \cap Fd, 0, <<>>)
           /\ UNCHANGED <<startVars, clientVars, recvd, at, m_sendDataList, poolVars>>
<1>1. /\ thread[t].pc = "inside" /\ Open # {}
      /\ thread' = [thread EXCEPT ![t] = [Idle EXCEPT !.events = Ready(t) \cap Fd]]
      /\ UNCHANGED <<startVars, clientVars, recvd, at, m_sendDataList, poolVars>>
  BY DEF LastWait, Wakes
<1> DEFINE r == [Idle EXCEPT !.events = Ready(t) \cap Fd]
<1>2. /\ r \in ThreadRec /\ r.pc = "epoll" /\ r.events = Ready(t) \cap Fd
      /\ r.fd = 0 /\ r.data = <<>>
  BY IdleIs DEF ThreadRec
<1>3. thread' = [thread EXCEPT ![t] = r]
  BY <1>1
<1> HIDE DEF r
<1>4. thread' \in [Thread -> ThreadRec] /\ Becomes(t, r.pc, r.events, r.fd, r.data)
  BY <1>2, <1>3, NewRecord DEF TypeInv, ThreadT
<1> QED BY <1>1, <1>2, <1>4

LEMMA InterruptIs ==
    ASSUME TypeInv, NEW t \in Thread, Interrupted(t)
    PROVE  /\ thread' \in [Thread -> ThreadRec] /\ (thread[t] = Idle \/ thread[t].pc = "inside")
           /\ Becomes(t, "interrupted", {}, 0, <<>>)
           /\ UNCHANGED <<startVars, clientVars, recvd, at, m_sendDataList, poolVars>>
<1>1. /\ (thread[t] = Idle \/ thread[t].pc = "inside") /\ thread' = [thread EXCEPT ![t] = [Idle EXCEPT !.pc = "interrupted"]]
      /\ UNCHANGED <<startVars, clientVars, recvd, at, m_sendDataList, poolVars>>
  BY DEF Interrupted
<1> DEFINE r == [Idle EXCEPT !.pc = "interrupted"]
<1>2. r \in ThreadRec /\ r.pc = "interrupted" /\ r.events = {} /\ r.fd = 0 /\ r.data = <<>>
  BY IdleIs DEF ThreadRec
<1>3. thread' = [thread EXCEPT ![t] = r]
  BY <1>1
<1> HIDE DEF r
<1>4. thread' \in [Thread -> ThreadRec] /\ Becomes(t, r.pc, r.events, r.fd, r.data)
  BY <1>2, <1>3, NewRecord DEF TypeInv, ThreadT
<1> QED BY <1>1, <1>2, <1>4

LEMMA EndIs ==
    ASSUME TypeInv, NEW t \in Thread, ThreadEnd(t)
    PROVE  /\ thread' \in [Thread -> ThreadRec] /\ thread[t] = Idle
           /\ Becomes(t, "ended", {}, 0, <<>>)
           /\ UNCHANGED <<startVars, clientVars, recvd, at, m_sendDataList, poolVars>>
<1>1. /\ thread[t] = Idle /\ thread' = [thread EXCEPT ![t].pc = "ended"]
      /\ UNCHANGED <<startVars, clientVars, recvd, at, m_sendDataList, poolVars>>
  BY DEF ThreadEnd
<1> DEFINE r == [Idle EXCEPT !.pc = "ended"]
<1>2. r \in ThreadRec /\ r.pc = "ended" /\ r.events = {} /\ r.fd = 0 /\ r.data = <<>>
  BY IdleIs DEF ThreadRec
<1>3. thread' = [thread EXCEPT ![t] = r]
  BY <1>1
<1> HIDE DEF r
<1>4. thread' \in [Thread -> ThreadRec] /\ Becomes(t, r.pc, r.events, r.fd, r.data)
  BY <1>2, <1>3, NewRecord DEF TypeInv, ThreadT
<1> QED BY <1>1, <1>2, <1>4

LEMMA ListenTypes == ASSUME TypeInv, ListenThread PROVE TypeInv'
<1>0. "listen" \in Thread /\ ThreadT
  BY DEF Thread, TypeInv
<1>1. CASE EpollWait("listen")
  <2>1. /\ thread' \in [Thread -> ThreadRec] /\ Becomes("listen", "epoll", Ready("listen"), 0, <<>>)
        /\ UNCHANGED <<startVars, clientVars, recvd, at, m_sendDataList, poolVars>>
    BY <1>0, <1>1, WaitIs
  <2>2. ThreadT'
    BY <1>0, <2>1, ThreadTStep
  <2> QED BY <2>1, <2>2, Frame DEF TypeInv
<1>2. ASSUME NEW c \in Queued, Accept(c) PROVE TypeInv'
  <2>1. /\ thread' \in [Thread -> ThreadRec] /\ thread["listen"].pc = "epoll"
        /\ Becomes("listen", "epoll", thread["listen"].events \ {m_socket},
                   thread["listen"].fd, thread["listen"].data)
        /\ c \in Client /\ conn[c] = "queued"
        /\ \/ UNCHANGED <<conn, at>>
           \/ /\ conn' = [conn EXCEPT ![c] = "refused"] /\ UNCHANGED at /\ main = "sleep"
           \/ /\ conn' = [conn EXCEPT ![c] = "accepted"] /\ main = "sleep"
              /\ \E f \in Fd : at[f] = 0 /\ at' = [at EXCEPT ![f] = c]
        /\ UNCHANGED <<startVars, left, reset, sent, got, lost, recvd, m_sendDataList, poolVars>>
    BY <1>2, AcceptIs
  <2>2. ThreadT'
    BY <1>0, <2>1, ThreadTStep
  <2>3. ClientT'
    BY <2>1 DEF TypeInv, ClientT
  <2>4. DataT'
    BY <2>1 DEF TypeInv, DataT
  <2> QED BY <2>1, <2>2, <2>3, <2>4, Frame DEF TypeInv
<1>3. ASSUME NEW f \in Fd, Erase(f) PROVE TypeInv'
  <2>1. /\ thread' \in [Thread -> ThreadRec] /\ thread["listen"].pc = "epoll"
        /\ f \in thread["listen"].events
        /\ Becomes("listen", "busy", thread["listen"].events \ {f}, f, <<>>)
        /\ m_sendDataList' = [m_sendDataList EXCEPT ![f] = <<>>]
        /\ UNCHANGED <<startVars, clientVars, recvd, at, poolVars>>
    BY <1>3, EraseIs
  <2>2. ThreadT'
    BY <1>0, <2>1, ThreadTStep
  <2>3. DataT'
    BY <2>1 DEF TypeInv, DataT
  <2> QED BY <2>1, <2>2, <2>3, Frame DEF TypeInv
<1>4. CASE CloseFd
  <2>1. /\ thread' \in [Thread -> ThreadRec] /\ thread["listen"].pc = "busy"
        /\ thread["listen"].fd \in Fd
        /\ Becomes("listen", "epoll", thread["listen"].events, 0, <<>>)
        /\ at' = [at EXCEPT ![thread["listen"].fd] = 0]
        /\ UNCHANGED <<startVars, clientVars, recvd, m_sendDataList, poolVars>>
    BY <1>4, CloseFdIs
  <2>2. ThreadT'
    BY <1>0, <2>1, ThreadTStep
  <2>3. DataT'
    BY <2>1 DEF TypeInv, DataT
  <2> QED BY <2>1, <2>2, <2>3, Frame DEF TypeInv
<1> QED BY <1>1, <1>2, <1>3, <1>4 DEF ListenThread

LEMMA SendTypes == ASSUME TypeInv, SendThread PROVE TypeInv'
<1>0. "send" \in Thread /\ ThreadT
  BY DEF Thread, TypeInv
<1>1. CASE EpollWait("send")
  <2>1. /\ thread' \in [Thread -> ThreadRec] /\ Becomes("send", "epoll", Ready("send"), 0, <<>>)
        /\ UNCHANGED <<startVars, clientVars, recvd, at, m_sendDataList, poolVars>>
    BY <1>0, <1>1, WaitIs
  <2>2. ThreadT'
    BY <1>0, <2>1, ThreadTStep
  <2> QED BY <2>1, <2>2, Frame DEF TypeInv
<1>2. ASSUME NEW f \in Fd, PopFront(f) PROVE TypeInv'
  <2>1. /\ thread' \in [Thread -> ThreadRec] /\ thread["send"].pc = "epoll"
        /\ \/ /\ m_sendDataList[f] # <<>>
              /\ m_sendDataList' = [m_sendDataList EXCEPT ![f] = Tail(m_sendDataList[f])]
              /\ Becomes("send", "busy", thread["send"].events \ {f}, f, <<Head(m_sendDataList[f])>>)
           \/ /\ UNCHANGED m_sendDataList
              /\ Becomes("send", "epoll", thread["send"].events \ {f},
                         thread["send"].fd, thread["send"].data)
        /\ UNCHANGED <<startVars, clientVars, recvd, at, poolVars>>
    BY <1>2, PopIs
  <2>2. ThreadT'
    <3>1. <<Head(m_sendDataList[f])>> # <<>>
      OBVIOUS
    <3>2. CASE Becomes("send", "busy", thread["send"].events \ {f}, f, <<Head(m_sendDataList[f])>>)
      BY <1>0, <2>1, <3>1, <3>2, ThreadTStep
    <3>3. CASE Becomes("send", "epoll", thread["send"].events \ {f}, thread["send"].fd, thread["send"].data)
      BY <1>0, <2>1, <3>3, ThreadTStep
    <3> QED BY <2>1, <3>2, <3>3
  <2>3. DataT'
    <3>1. m_sendDataList[f] # <<>> => Tail(m_sendDataList[f]) \in Seq(Request)
      BY DEF TypeInv, DataT
    <3> QED BY <2>1, <3>1 DEF TypeInv, DataT
  <2> QED BY <2>1, <2>2, <2>3, Frame DEF TypeInv
<1>3. CASE SendNow
  <2>1. PICK c, r, taken :
          /\ c = at[thread["send"].fd] /\ r = thread["send"].data[1] /\ r \in Request
          /\ c \in Client \cup {0} /\ taken \in BOOLEAN
          /\ got' = IF taken /\ c # 0 /\ ~left[c] /\ Kind(r) \in Api
                    THEN [got EXCEPT ![c] = Append(got[c], r)] ELSE got
          /\ reset' = IF c # 0 /\ left[c] /\ Kind(r) \in Api
                      THEN [reset EXCEPT ![c] = TRUE] ELSE reset
          /\ lost' \in {lost, lost \cup {r}}
    BY <1>3, SendIs
  <2>2. /\ thread' \in [Thread -> ThreadRec] /\ thread["send"].pc = "busy"
        /\ Becomes("send", "epoll", thread["send"].events, 0, <<>>)
        /\ UNCHANGED <<startVars, conn, left, sent, recvd, at, m_sendDataList, poolVars>>
    BY <1>3, SendIs
  <2>3. ThreadT'
    BY <1>0, <2>2, ThreadTStep
  <2>4. got' \in [Client -> Seq(Request)]
    <3>1. c \in Client => Append(got[c], r) \in Seq(Request)
      BY <2>1 DEF TypeInv, ClientT
    <3> QED BY <2>1, <3>1 DEF TypeInv, ClientT
  <2>5. reset' \in [Client -> BOOLEAN]
    BY <2>1 DEF TypeInv, ClientT
  <2>6. lost' \subseteq Request
    BY <2>1 DEF TypeInv, ClientT
  <2>7. ClientT'
    BY <2>2, <2>4, <2>5, <2>6 DEF TypeInv, ClientT
  <2> QED BY <2>2, <2>3, <2>7, Frame DEF TypeInv
<1> QED BY <1>1, <1>2, <1>3 DEF SendThread

LEMMA RecvTypes == ASSUME TypeInv, RecvThread PROVE TypeInv'
<1>0. "recv" \in Thread /\ ThreadT
  BY DEF Thread, TypeInv
<1>1. CASE EpollWait("recv")
  <2>1. /\ thread' \in [Thread -> ThreadRec] /\ Becomes("recv", "epoll", Ready("recv"), 0, <<>>)
        /\ UNCHANGED <<startVars, clientVars, recvd, at, m_sendDataList, poolVars>>
    BY <1>0, <1>1, WaitIs
  <2>2. ThreadT'
    BY <1>0, <2>1, ThreadTStep
  <2> QED BY <2>1, <2>2, Frame DEF TypeInv
<1>2. ASSUME NEW f \in Fd, NEW n \in 0..MaxTasks, Recv(f, n) PROVE TypeInv'
  <2>1. /\ thread' \in [Thread -> ThreadRec] /\ thread["recv"].pc = "epoll"
        /\ \/ /\ UNCHANGED recvd
              /\ Becomes("recv", "epoll", thread["recv"].events \ {f},
                         thread["recv"].fd, thread["recv"].data)
           \/ /\ n > 0 /\ at[f] \in Client /\ recvd[at[f]] + n <= sent[at[f]]
              /\ \E hand \in Seq(Request) :
                   /\ Len(hand) = n
                   /\ \A i \in 1..n : hand[i] = <<at[f], recvd[at[f]] + i>>
                   /\ Becomes("recv", "busy", thread["recv"].events \ {f}, f, hand)
              /\ recvd' = [recvd EXCEPT ![at[f]] = recvd[at[f]] + n]
        /\ UNCHANGED <<startVars, clientVars, at, m_sendDataList, poolVars>>
    BY <1>2, RecvIs
  <2>2. CASE UNCHANGED recvd /\ Becomes("recv", "epoll", thread["recv"].events \ {f},
                                        thread["recv"].fd, thread["recv"].data)
    <3>1. ThreadT'
      BY <1>0, <2>1, <2>2, ThreadTStep
    <3> QED BY <2>1, <2>2, <3>1, Frame DEF TypeInv
  <2>3. CASE /\ n > 0 /\ at[f] \in Client /\ recvd[at[f]] + n <= sent[at[f]]
             /\ \E hand \in Seq(Request) :
                  /\ Len(hand) = n
                  /\ \A i \in 1..n : hand[i] = <<at[f], recvd[at[f]] + i>>
                  /\ Becomes("recv", "busy", thread["recv"].events \ {f}, f, hand)
             /\ recvd' = [recvd EXCEPT ![at[f]] = recvd[at[f]] + n]
    <3>1. PICK hand \in Seq(Request) :
            Len(hand) = n /\ Becomes("recv", "busy", thread["recv"].events \ {f}, f, hand)
      BY <2>3
    <3>2. /\ n > 0 /\ at[f] \in Client /\ recvd[at[f]] + n <= sent[at[f]]
          /\ recvd' = [recvd EXCEPT ![at[f]] = recvd[at[f]] + n]
      BY <2>3
    <3>3. hand # <<>>
      BY <3>1, <3>2
    <3>4. ThreadT'
      BY <1>0, <2>1, <3>1, <3>3, ThreadTStep
    <3>5. n \in Nat
      BY RequestFinite
    <3>6. ClientT'
      <4>1. PICK c : c = at[f]
        OBVIOUS
      <4>2. recvd[c] + n \in Nat
        BY <3>2, <3>5, <4>1 DEF TypeInv, ClientT
      <4>3. recvd' = [recvd EXCEPT ![c] = recvd[c] + n] /\ c \in Client /\ recvd[c] + n <= sent[c]
        BY <3>2, <4>1
      <4> QED BY <2>1, <4>2, <4>3 DEF TypeInv, ClientT, clientVars
    <3> QED BY <2>1, <3>4, <3>6, Frame DEF TypeInv
  <2> QED BY <2>1, <2>2, <2>3
<1>3. CASE AddTask
  <2>1. /\ thread' \in [Thread -> ThreadRec] /\ thread["recv"].pc = "busy"
        /\ thread["recv"].fd \in Fd
        /\ thread["recv"].data \in Seq(Request) /\ thread["recv"].data # <<>>
        /\ job' = Append(job, [fd |-> thread["recv"].fd, request |-> thread["recv"].data[1]])
        /\ Len(job) < MaxTasks
        /\ pending' = Append(pending, Len(job) + 1) /\ UNCHANGED <<running, runs>>
        /\ \/ /\ Len(thread["recv"].data) = 1
              /\ Becomes("recv", "epoll", thread["recv"].events, 0, <<>>)
           \/ /\ Len(thread["recv"].data) > 1
              /\ Becomes("recv", "busy", thread["recv"].events, thread["recv"].fd,
                         Tail(thread["recv"].data))
        /\ UNCHANGED <<startVars, clientVars, recvd, at, m_sendDataList>>
    BY <1>3, AddIs
  <2>2. ThreadT'
    <3>1. CASE Becomes("recv", "epoll", thread["recv"].events, 0, <<>>)
      BY <1>0, <2>1, <3>1, ThreadTStep
    <3>2. CASE /\ Len(thread["recv"].data) > 1
               /\ Becomes("recv", "busy", thread["recv"].events, thread["recv"].fd,
                          Tail(thread["recv"].data))
      <4>1. Tail(thread["recv"].data) # <<>>
        BY <2>1, <3>2
      <4> QED BY <1>0, <2>1, <3>2, <4>1, ThreadTStep
    <3> QED BY <2>1, <3>1, <3>2
  <2>3. PoolT'
    <3>1. PICK t : t = [fd |-> thread["recv"].fd, request |-> thread["recv"].data[1]]
      OBVIOUS
    <3>2. t \in [fd : Fd, request : Request]
      BY <2>1, <3>1
    <3>3. job' = Append(job, t)
      BY <2>1, <3>1
    <3>4. /\ job \in Seq([fd : Fd, request : Request]) /\ pending \in Seq(1..MaxTasks)
          /\ Len(pending) <= Len(job) /\ Len(job) \in Nat /\ Len(pending) \in Nat
          /\ \A i \in 1..Len(pending) : pending[i] = (Len(job) - Len(pending)) + i
          /\ running \subseteq 1..(Len(job) - Len(pending))
      BY DEF TypeInv, PoolT
    <3>5. job' \in Seq([fd : Fd, request : Request]) /\ Len(job') = Len(job) + 1
      BY <3>2, <3>3, <3>4
    <3>6. Len(job) + 1 \in 1..MaxTasks /\ Len(job) + 1 <= MaxTasks
      BY <2>1, <3>4, RequestFinite
    <3>7. pending' \in Seq(1..MaxTasks) /\ Len(pending') = Len(pending) + 1
      BY <2>1, <3>4, <3>6
    <3>8. \A i \in 1..Len(pending') : pending'[i] = (Len(job') - Len(pending')) + i
      <4>1. \A i \in 1..(Len(pending) + 1) :
              pending'[i] = IF i <= Len(pending) THEN pending[i] ELSE Len(job) + 1
        BY <2>1, <3>4
      <4>2. (Len(job) + 1) - (Len(pending) + 1) = Len(job) - Len(pending)
        BY <3>4
      <4> QED BY <3>4, <3>5, <3>7, <4>1, <4>2
    <3>9. Len(job') - Len(pending') = Len(job) - Len(pending) /\ Len(pending') <= Len(job')
      BY <3>4, <3>5, <3>7
    <3> QED BY <2>1, <3>4, <3>5, <3>6, <3>7, <3>8, <3>9 DEF TypeInv, PoolT
  <2> QED BY <2>1, <2>2, <2>3, Frame DEF TypeInv
<1> QED BY <1>1, <1>2, <1>3 DEF RecvThread

LEMMA WorkerTypes == ASSUME TypeInv, Worker PROVE TypeInv'
<1>0. /\ job \in Seq([fd : Fd, request : Request]) /\ pending \in Seq(1..MaxTasks)
      /\ Len(pending) <= Len(job) /\ Len(job) <= MaxTasks /\ Len(job) \in Nat /\ Len(pending) \in Nat
      /\ \A i \in 1..Len(pending) : pending[i] = (Len(job) - Len(pending)) + i
      /\ running \subseteq 1..(Len(job) - Len(pending)) /\ runs \in [1..MaxTasks -> Nat]
  BY DEF TypeInv, PoolT
<1>1. CASE StartTask
  <2>1. /\ Len(pending) > 0 /\ pending[1] = (Len(job) - Len(pending)) + 1
        /\ running' = running \cup {pending[1]} /\ pending' = Tail(pending)
        /\ UNCHANGED <<startVars, clientVars, recvd, at, m_sendDataList, thread, job, runs>>
    BY <1>1, StartIs
  <2>2. /\ pending' \in Seq(1..MaxTasks) /\ Len(pending') = Len(pending) - 1
        /\ \A i \in 1..(Len(pending) - 1) : pending'[i] = pending[i + 1]
    BY <1>0, <2>1
  <2>3. Len(job) - Len(pending') = (Len(job) - Len(pending)) + 1 /\ Len(pending') <= Len(job)
    BY <1>0, <2>2
  <2>4. \A i \in 1..Len(pending') : pending'[i] = (Len(job) - Len(pending')) + i
    BY <1>0, <2>2, <2>3
  <2>5. running' \subseteq 1..(Len(job) - Len(pending'))
    <3>0. \A a, b \in Nat : b <= a => a - b \in Nat
      OBVIOUS
    <3>1. PICK d \in Nat : d = Len(job) - Len(pending)
      BY <1>0, <3>0
    <3>2. running \subseteq 1..d /\ pending[1] = d + 1 /\ Len(job) - Len(pending') = d + 1
      BY <1>0, <2>1, <2>3, <3>1
    <3>3. d + 1 \in 1..(d + 1) /\ \A k \in 1..d : k \in 1..(d + 1)
      BY <3>1
    <3>4. running' \subseteq 1..(d + 1)
      BY <2>1, <3>2, <3>3
    <3> QED BY <3>2, <3>4
  <2>6. PoolT'
    BY <1>0, <2>1, <2>2, <2>3, <2>4, <2>5 DEF PoolT
  <2> QED BY <2>1, <2>6, Frame DEF TypeInv
<1>2. ASSUME NEW k \in running, OnTaskProcessor(k) PROVE TypeInv'
  <2>1. /\ k \in 1..(Len(job) - Len(pending)) /\ k \in 1..Len(job) /\ k \in 1..MaxTasks
        /\ job[k].fd \in Fd /\ job[k].request \in Request
        /\ running' = running \ {k} /\ runs' = [runs EXCEPT ![k] = runs[k] + 1]
        /\ \/ Kind(job[k].request) = "short" /\ UNCHANGED m_sendDataList
           \/ m_sendDataList' = [m_sendDataList EXCEPT
                  ![job[k].fd] = Append(m_sendDataList[job[k].fd], job[k].request)]
        /\ UNCHANGED <<startVars, clientVars, recvd, at, thread, job, pending>>
    BY <1>2, FinishIs
  <2>2. runs[k] + 1 \in Nat
    <3>1. runs[k] \in Nat
      BY <1>0, <2>1, Zenon
    <3> QED BY <3>1
  <2>3. PoolT'
    BY <1>0, <2>1, <2>2 DEF PoolT
  <2>4. DataT'
    <3>1. PICK f, r : f = job[k].fd /\ r = job[k].request
      OBVIOUS
    <3>2. f \in Fd /\ r \in Request /\ m_sendDataList[f] \in Seq(Request)
      BY <2>1, <3>1 DEF TypeInv, DataT
    <3>3. Append(m_sendDataList[f], r) \in Seq(Request)
      BY <3>2
    <3>4. \/ UNCHANGED m_sendDataList
          \/ m_sendDataList' = [m_sendDataList EXCEPT ![f] = Append(m_sendDataList[f], r)]
      BY <2>1, <3>1
    <3> QED BY <2>1, <3>2, <3>3, <3>4 DEF TypeInv, DataT
  <2> QED BY <2>1, <2>3, <2>4, Frame DEF TypeInv
<1> QED BY <1>1, <1>2 DEF Worker

LEMMA ClosingTypes ==
    ASSUME TypeInv,
           \/ \E inside \in SUBSET {t \in Thread : thread[t] = Idle} : CloseSocket(inside)
           \/ \E t \in Thread : LastWait(t) \/ ThreadEnd(t) \/ Interrupted(t)
    PROVE  TypeInv'
<1>0. ThreadT
  BY DEF TypeInv
<1>1. ASSUME NEW inside \in SUBSET {t \in Thread : thread[t] = Idle}, CloseSocket(inside)
      PROVE  TypeInv'
  <2>1. /\ thread' \in [Thread -> ThreadRec] /\ main = "sleep" /\ main' = "join"
        /\ \A t \in Thread :
             \/ thread'[t] = thread[t]
             \/ /\ thread[t] = Idle /\ thread'[t].pc = "inside" /\ thread'[t].events = {}
                /\ thread'[t].fd = 0 /\ thread'[t].data = <<>>
        /\ UNCHANGED <<family, m_socket, clientVars, recvd, at, m_sendDataList, poolVars>>
    BY <1>1, CloseSocketIs
  <2>2. StartT'
    BY <2>1 DEF TypeInv, StartT
  <2>3. ThreadT'
    BY <1>0, <2>1 DEF ThreadT
  <2> QED BY <2>1, <2>2, <2>3, Frame DEF TypeInv
<1>2. ASSUME NEW t \in Thread, LastWait(t) PROVE TypeInv'
  <2>1. /\ thread' \in [Thread -> ThreadRec] /\ thread[t].pc = "inside" /\ Open # {}
        /\ Becomes(t, "epoll", Ready(t) \cap Fd, 0, <<>>)
        /\ UNCHANGED <<startVars, clientVars, recvd, at, m_sendDataList, poolVars>>
    BY <1>2, LastWaitIs
  <2>2. ThreadT'
    BY <1>0, <2>1, ThreadTStep
  <2> QED BY <2>1, <2>2, Frame DEF TypeInv
<1>3. ASSUME NEW t \in Thread, ThreadEnd(t) PROVE TypeInv'
  <2>1. /\ thread' \in [Thread -> ThreadRec] /\ thread[t] = Idle
        /\ Becomes(t, "ended", {}, 0, <<>>)
        /\ UNCHANGED <<startVars, clientVars, recvd, at, m_sendDataList, poolVars>>
    BY <1>3, EndIs
  <2>2. ThreadT'
    BY <1>0, <2>1, ThreadTStep
  <2> QED BY <2>1, <2>2, Frame DEF TypeInv
<1>4. ASSUME NEW t \in Thread, Interrupted(t) PROVE TypeInv'
  <2>1. /\ thread' \in [Thread -> ThreadRec]
        /\ Becomes(t, "interrupted", {}, 0, <<>>)
        /\ UNCHANGED <<startVars, clientVars, recvd, at, m_sendDataList, poolVars>>
    BY <1>4, InterruptIs
  <2>2. ThreadT'
    BY <1>0, <2>1, ThreadTStep
  <2> QED BY <2>1, <2>2, Frame DEF TypeInv
<1> QED BY <1>1, <1>2, <1>3, <1>4

LEMMA TypeStep == TypeInv /\ [Next]_vars => TypeInv'
<1> SUFFICES ASSUME TypeInv, [Next]_vars PROVE TypeInv'
  OBVIOUS
<1>1. CASE Main
  BY <1>1, MainTypes, ClosingTypes DEF Main, Closing
<1>2. CASE Clients
  BY <1>2, ClientTypes DEF Clients
<1>3. CASE ListenThread \/ SendThread \/ RecvThread \/ Worker
  BY <1>3, ListenTypes, SendTypes, RecvTypes, WorkerTypes
<1>4. CASE UNCHANGED vars
  BY <1>4, Frame DEF vars, TypeInv
<1> QED BY <1>1, <1>2, <1>3, <1>4 DEF Next

LEMMA TypeAlways == Safe => []TypeInv
BY TypeInit, TypeStep, PTL DEF Safe

(* Every variable of the server keeps its type: among others, a descriptor *)
(* that a thread closes, reads or writes is one that accept returned.      *)
THEOREM TypeCorrect == Safe => []TypeOK
BY TypeAlways, TypeImplied, PTL

LEMMA StuckStep ==
    ASSUME TypeInv, [Next]_vars, NEW t \in Thread, Stuck(t)
    PROVE  Stuck(t)' \/ thread'[t].pc = "interrupted"
<1>1. thread[t].pc = "inside"
  BY DEF Stuck
<1>2. main = "join" /\ \A f \in Fd : at[f] = 0
  BY DEF Stuck, Open
<1> DEFINE Stays == main' = "join" /\ thread'[t].pc = "inside" /\ \A f \in Fd : at'[f] = 0
<1>3. SUFFICES Stays \/ thread'[t].pc = "interrupted"
  BY DEF Stuck, Open
<1>4. thread[t] # Idle
  BY <1>1, IdleIs
<1>5. CASE Main
  <2>1. ~Joined
    BY <1>1 DEF Joined
  <2>2. PICK u \in Thread : LastWait(u) \/ ThreadEnd(u) \/ Interrupted(u)
    BY <1>2, <1>5, <2>1 DEF Main, Closing, Socket, Bind, Listen, CloseSocket
  <2>3. ~LastWait(u)
    BY <1>2, LastWaitIs DEF Open
  <2>4. CASE ThreadEnd(u)
    <3>1. /\ thread[u] = Idle /\ Becomes(u, "ended", {}, 0, <<>>)
          /\ UNCHANGED <<startVars, at>>
      BY <2>4, EndIs
    <3> QED BY <1>1, <1>2, <1>4, <3>1 DEF Becomes, startVars
  <2>5. CASE Interrupted(u)
    <3>1. Becomes(u, "interrupted", {}, 0, <<>>) /\ UNCHANGED <<startVars, at>>
      BY <2>5, InterruptIs
    <3> QED BY <1>1, <1>2, <3>1 DEF Becomes, startVars
  <2> QED BY <2>2, <2>3, <2>4, <2>5
<1>6. CASE Clients
  BY <1>1, <1>2, <1>6 DEF Clients, Connect, ClientSend, Leave, startVars
<1>7. CASE ListenThread
  <2>1. "listen" \in Thread
    BY DEF Thread
  <2>2. ~EpollWait("listen")
    BY <1>2 DEF EpollWait
  <2>3. ASSUME NEW c \in Queued, Accept(c) PROVE Stays
    <3>1. /\ thread["listen"].pc = "epoll" /\ UNCHANGED <<startVars, at>>
          /\ Becomes("listen", "epoll", thread["listen"].events \ {m_socket},
                     thread["listen"].fd, thread["listen"].data)
      BY <1>2, <2>3, AcceptIs
    <3> QED BY <1>1, <1>2, <3>1 DEF Becomes, startVars
  <2>4. ASSUME NEW f \in Fd, Erase(f) PROVE Stays
    <3>1. /\ thread["listen"].pc = "epoll" /\ UNCHANGED <<startVars, at>>
          /\ Becomes("listen", "busy", thread["listen"].events \ {f}, f, <<>>)
      BY <2>4, EraseIs
    <3> QED BY <1>1, <1>2, <3>1 DEF Becomes, startVars
  <2>5. CASE CloseFd
    <3>1. /\ thread["listen"].pc = "busy" /\ thread["listen"].fd \in Fd /\ UNCHANGED startVars
          /\ Becomes("listen", "epoll", thread["listen"].events, 0, <<>>)
          /\ at' = [at EXCEPT ![thread["listen"].fd] = 0]
      BY <2>5, CloseFdIs
    <3>2. \A f \in Fd : at'[f] = 0
      BY <1>2, <3>1 DEF TypeInv, DataT
    <3> QED BY <1>1, <1>2, <3>1, <3>2 DEF Becomes, startVars
  <2> QED BY <1>7, <2>2, <2>3, <2>4, <2>5 DEF ListenThread
<1>8. CASE SendThread
  <2>1. ~EpollWait("send")
    BY <1>2 DEF EpollWait
  <2>2. /\ thread["send"].pc # "inside" /\ \A u \in Thread : u # "send" => thread'[u] = thread[u]
        /\ UNCHANGED <<startVars, at>>
    BY <1>8, <2>1, PopIs, SendIs DEF SendThread, Becomes
  <2> QED BY <1>1, <1>2, <2>2 DEF startVars
<1>9. CASE RecvThread
  <2>1. ~EpollWait("recv")
    BY <1>2 DEF EpollWait
  <2>2. /\ thread["recv"].pc # "inside" /\ \A u \in Thread : u # "recv" => thread'[u] = thread[u]
        /\ UNCHANGED <<startVars, at>>
    BY <1>9, <2>1, RecvIs, AddIs DEF RecvThread, Becomes
  <2> QED BY <1>1, <1>2, <2>2 DEF startVars
<1>10. CASE Worker
  BY <1>1, <1>2, <1>10 DEF Worker, StartTask, OnTaskProcessor, startVars
<1>11. CASE UNCHANGED vars
  BY <1>1, <1>2, <1>11 DEF vars, startVars
<1> QED BY <1>5, <1>6, <1>7, <1>8, <1>9, <1>10, <1>11 DEF Next

(* With no connection open a thread inside epoll_wait stays there, and so *)
(* does the join of closeSocket: whatever the threads, the workers and the *)
(* clients still do, only a signal wakes it.                               *)
THEOREM OnlySignal == Safe => OnlySignalWakes
<1>1. TypeInv /\ [Next]_vars
      => \A t \in Thread : Stuck(t) => Stuck(t)' \/ thread'[t].pc = "interrupted"
  BY StuckStep
<1> QED BY <1>1, TypeAlways, PTL DEF Safe, OnlySignalWakes

(***************************************************************************)
(* Sequences without repetition.                                           *)
(***************************************************************************)
Has(s, r)   == \E i \in 1..Len(s) : s[i] = r
Distinct(s) == \A i, j \in 1..Len(s) : s[i] = s[j] => i = j

LEMMA HasEmpty == Distinct(<<>>) /\ \A r : ~Has(<<>>, r)
BY DEF Distinct, Has

LEMMA HasAppend ==
    ASSUME NEW S, NEW s \in Seq(S), NEW e \in S
    PROVE  /\ \A r : Has(Append(s, e), r) <=> Has(s, r) \/ r = e
           /\ Distinct(s) /\ ~Has(s, e) => Distinct(Append(s, e))
<1>1. PICK u : u = Append(s, e)
  OBVIOUS
<1>2. /\ Len(s) \in Nat /\ Len(u) = Len(s) + 1 /\ u[Len(s) + 1] = e
      /\ \A i \in 1..Len(s) : u[i] = s[i]
  BY <1>1
<1>3. \A i : i \in 1..Len(u) <=> i \in 1..Len(s) \/ i = Len(s) + 1
  BY <1>2
<1>4. Len(s) + 1 \notin 1..Len(s)
  BY <1>2
<1>5. \A r : Has(u, r) <=> Has(s, r) \/ r = e
  BY <1>2, <1>3 DEF Has
<1>6. ASSUME Distinct(s), ~Has(s, e) PROVE Distinct(u)
  <2> SUFFICES ASSUME NEW i \in 1..Len(u), NEW j \in 1..Len(u), u[i] = u[j] PROVE i = j
    BY DEF Distinct
  <2>1. CASE i \in 1..Len(s) /\ j \in 1..Len(s)
    BY <1>2, <1>6, <2>1 DEF Distinct
  <2>2. CASE i \in 1..Len(s) /\ j = Len(s) + 1
    BY <1>2, <1>6, <2>2 DEF Has
  <2>3. CASE j \in 1..Len(s) /\ i = Len(s) + 1
    BY <1>2, <1>6, <2>3 DEF Has
  <2> QED BY <1>3, <2>1, <2>2, <2>3
<1> QED BY <1>1, <1>5, <1>6

LEMMA HasTail ==
    ASSUME NEW S, NEW s \in Seq(S), s # <<>>
    PROVE  /\ Has(s, s[1])
           /\ Distinct(s) => /\ Distinct(Tail(s))
                             /\ \A r : Has(Tail(s), r) <=> Has(s, r) /\ r # s[1]
<1>1. PICK u : u = Tail(s)
  OBVIOUS
<1>2. PICK n : n = Len(u)
  OBVIOUS
<1>3. /\ n \in Nat /\ Len(s) = n + 1 /\ \A i \in 1..n : u[i] = s[i + 1]
  BY <1>1, <1>2
<1>4. Has(s, s[1])
  BY <1>3 DEF Has
<1>5. ASSUME Distinct(s) PROVE Distinct(u) /\ \A r : Has(u, r) <=> Has(s, r) /\ r # s[1]
  <2>1. \A i \in 1..n : i + 1 \in 1..(n + 1) /\ i + 1 # 1
    BY <1>3
  <2>2. 1 \in 1..(n + 1) /\ \A i \in 1..(n + 1) : i # 1 => \E j \in 1..n : i = j + 1
    <3>1. \A i \in 1..(n + 1) : i # 1 => i - 1 \in 1..n /\ i = (i - 1) + 1
      BY <1>3
    <3> QED BY <1>3, <3>1
  <2>3. \A i, j \in 1..n : s[i + 1] = s[j + 1] => i = j
    <3> SUFFICES ASSUME NEW i \in 1..n, NEW j \in 1..n, s[i + 1] = s[j + 1] PROVE i = j
      OBVIOUS
    <3>1. i + 1 = j + 1
      BY <1>3, <1>5, <2>1 DEF Distinct
    <3> QED BY <1>3, <3>1
  <2>4. Distinct(u)
    BY <1>2, <1>3, <2>3 DEF Distinct
  <2>5. ASSUME NEW r PROVE Has(u, r) <=> Has(s, r) /\ r # s[1]
    <3>1. ASSUME NEW i \in 1..n, u[i] = r PROVE Has(s, r) /\ r # s[1]
      <4>1. s[i + 1] = r /\ i + 1 \in 1..Len(s)
        BY <1>3, <2>1, <3>1
      <4>2. s[i + 1] # s[1]
        BY <1>3, <1>5, <2>1, <2>2 DEF Distinct
      <4> QED BY <4>1, <4>2 DEF Has
    <3>2. ASSUME NEW i \in 1..(n + 1), s[i] = r, r # s[1] PROVE Has(u, r)
      <4>1. PICK j \in 1..n : i = j + 1
        BY <2>2, <3>2
      <4> QED BY <1>2, <1>3, <3>2, <4>1 DEF Has
    <3> QED BY <1>2, <1>3, <3>1, <3>2 DEF Has
  <2> QED BY <2>4, <2>5
<1> QED BY <1>1, <1>4, <1>5

(***************************************************************************)
(* The way of a request: from the socket into the hand of the receive      *)
(* thread, into the pool, onto the list of its descriptor, into the hand   *)
(* of the send thread and to a client.  It is in one of these places only, *)
(* once, whatever the clients do (FlowInv).  When they stay for their      *)
(* answers, an API call that is still on its way is on the descriptor of   *)
(* the connection it came from (RouteInv), and its response is with the    *)
(* client that made it (OwnInv).                                           *)
(***************************************************************************)
Working(t, f) == thread[t].pc = "busy" /\ thread[t].fd = f
Task(k, f, r) == k \in 1..Len(job) /\ job[k].fd = f /\ job[k].request = r
Waits(k)      == k \in running \/ k > Len(job) - Len(pending)
Taken(r)      == r[2] <= recvd[r[1]]
Pooled(r)     == \E k \in Nat, f \in Fd : Task(k, f, r)
Handed(r)     == \E k \in Nat, f \in Fd : Task(k, f, r) /\ ~Waits(k)

InHand(f, r) == Working("recv", f) /\ Has(thread["recv"].data, r)
InPool(f, r) == \E k \in Nat : Task(k, f, r) /\ Waits(k)
InList(f, r) == Has(m_sendDataList[f], r)
InSend(f, r) == Working("send", f) /\ thread["send"].data[1] = r
InGot(c, r)  == Has(got[c], r)
On(f, r)     == InHand(f, r) \/ InPool(f, r) \/ InList(f, r) \/ InSend(f, r)

HandInv ==
    /\ thread["recv"].pc = "busy" => Distinct(thread["recv"].data)
    /\ \A f \in Fd, r \in Request : InHand(f, r) => Taken(r) /\ ~Pooled(r)

JobInv ==
    /\ \A r \in Request : Pooled(r) => Taken(r)
    /\ \A k, l \in Nat, f, g \in Fd, r \in Request : Task(k, f, r) /\ Task(l, g, r) => k = l

ListInv == \A f \in Fd :
    /\ Distinct(m_sendDataList[f])
    /\ \A r \in Request : InList(f, r) =>
         /\ Handed(r)
         /\ \A g \in Fd : ~InSend(g, r) /\ (InList(g, r) => f = g)
         /\ \A c \in Client : ~InGot(c, r)

SendInv == \A f \in Fd, r \in Request :
    InSend(f, r) => Handed(r) /\ \A c \in Client : ~InGot(c, r)

GotInv == \A c \in Client :
    /\ Distinct(got[c])
    /\ \A r \in Request : InGot(c, r) =>
         Handed(r) /\ Kind(r) \in Api /\ \A d \in Client : InGot(d, r) => d = c

FlowInv == HandInv /\ JobInv /\ ListInv /\ SendInv /\ GotInv

RouteInv == \A f \in Fd, r \in Request : On(f, r) /\ Kind(r) \in Api => at[f] = r[1]
OwnInv   == \A c \in Client, r \in Request : InGot(c, r) => r[1] = c

(* A request on its way has not been answered. *)
LEMMA OnIsOpen ==
    ASSUME FlowInv, NEW f \in Fd, NEW r \in Request, On(f, r), NEW c \in Client
    PROVE  ~InGot(c, r)
<1>1. Handed(r) => Pooled(r)
  BY DEF Handed, Pooled
<1>2. InHand(f, r) => ~Handed(r)
  BY <1>1 DEF FlowInv, HandInv
<1>3. InPool(f, r) => ~Handed(r)
  BY DEF FlowInv, JobInv, InPool, Handed
<1> QED BY <1>2, <1>3 DEF On, FlowInv, ListInv, SendInv, GotInv

(* A client that has been served has the answer to each of its API calls:  *)
(* it has as many as it made calls, they are its own and none is there     *)
(* twice.                                                                  *)
LEMMA ServedHas ==
    ASSUME TypeInv, FlowInv, OwnInv, NEW r \in Request, Kind(r) \in Api, Served(r[1])
    PROVE  InGot(r[1], r)
<1>1. PICK c, q : c = r[1] /\ q = got[r[1]]
  OBVIOUS
<1>2. c \in Client /\ r[2] \in 1..Len(Requests[c]) /\ r = <<c, r[2]>>
  BY <1>1, RequestParts
<1>3. q \in Seq(Request) /\ Distinct(q) /\ Len(q) \in Nat
  BY <1>1, <1>2 DEF TypeInv, ClientT, FlowInv, GotInv
<1>4. ASSUME NEW i \in 1..Len(q) PROVE q[i] = <<c, q[i][2]>> /\ q[i][2] \in Calls(c)
  <2>1. q[i] \in Request
    BY <1>3, ElementOfSeq
  <2>2. q[i][1] = c /\ Kind(q[i]) \in Api
    <3>1. InGot(c, q[i])
      BY <1>1 DEF InGot, Has
    <3> QED BY <1>2, <2>1, <3>1 DEF FlowInv, GotInv, OwnInv
  <2>3. q[i][2] \in 1..Len(Requests[c]) /\ q[i] = <<c, q[i][2]>>
    BY <2>1, <2>2, RequestParts
  <2> QED BY <2>2, <2>3 DEF Calls, Kind
<1>5. PICK g : g = [i \in 1..Len(q) |-> q[i][2]]
  OBVIOUS
<1>6. g \in Injection(1..Len(q), Calls(c))
  <2>1. g \in [1..Len(q) -> Calls(c)]
    BY <1>4, <1>5
  <2>2. \A i, j \in 1..Len(q) : g[i] = g[j] => i = j
    <3> SUFFICES ASSUME NEW i \in 1..Len(q), NEW j \in 1..Len(q), g[i] = g[j] PROVE i = j
      OBVIOUS
    <3>1. q[i][2] = q[j][2]
      BY <1>5
    <3>2. q[i] = q[j]
      BY <1>4, <3>1
    <3> QED BY <1>3, <3>2 DEF Distinct
  <2> QED BY <2>1, <2>2 DEF Injection, IsInjective
<1>7. IsFiniteSet(Calls(c))
  <2>1. Len(Requests[c]) \in Nat
    BY <1>2, ServerAssumption
  <2>2. IsFiniteSet(1..Len(Requests[c]))
    BY <2>1, FS_Interval
  <2> QED BY <2>2, FS_Subset DEF Calls
<1>8. Cardinality(1..Len(q)) = Cardinality(Calls(c))
  <2>1. Cardinality(1..Len(q)) = Len(q)
    BY <1>3, FS_Interval
  <2> QED BY <1>1, <2>1 DEF Served
<1>9. g \in Surjection(1..Len(q), Calls(c))
  BY <1>6, <1>7, <1>8, FS_Injection
<1>10. r[2] \in Calls(c)
  BY <1>1, <1>2 DEF Calls, Kind
<1>11. PICK i \in 1..Len(q) : g[i] = r[2]
  BY <1>9, <1>10 DEF Surjection
<1>12. q[i] = r
  BY <1>2, <1>4, <1>5, <1>11
<1> QED BY <1>1, <1>12 DEF InGot, Has

(***************************************************************************)
(* Steps that move no request.                                             *)
(***************************************************************************)
SameWork(t) ==
    /\ thread'[t].pc = "busy" <=> thread[t].pc = "busy"
    /\ thread[t].pc = "busy" => thread'[t].fd = thread[t].fd /\ thread'[t].data = thread[t].data

Quiet ==
    /\ UNCHANGED <<recvd, m_sendDataList, got, job>>
    /\ SameWork("recv") /\ SameWork("send")
    /\ \A k \in Nat : Waits(k)' <=> Waits(k)

LEMMA QuietFlow ==
    ASSUME FlowInv, Quiet
    PROVE  FlowInv' /\ \A f \in Fd, r \in Request : On(f, r)' <=> On(f, r)
<1>1. ASSUME NEW k \in Nat, NEW f \in Fd, NEW r \in Request
      PROVE  (Task(k, f, r)' <=> Task(k, f, r)) /\ (Waits(k)' <=> Waits(k))
  BY DEF Quiet, Task
<1>2. ASSUME NEW r \in Request
      PROVE  /\ Pooled(r)' <=> Pooled(r)
             /\ Handed(r)' <=> Handed(r)
             /\ Taken(r)' <=> Taken(r)
  <2>1. Taken(r)' <=> Taken(r)
    BY DEF Quiet, Taken
  <2> QED BY <1>1, <2>1 DEF Pooled, Handed
<1>3. ASSUME NEW f \in Fd, NEW r \in Request
      PROVE  /\ InHand(f, r)' <=> InHand(f, r)
             /\ InPool(f, r)' <=> InPool(f, r)
             /\ InList(f, r)' <=> InList(f, r)
             /\ InSend(f, r)' <=> InSend(f, r)
  <2>1. InHand(f, r)' <=> InHand(f, r)
    BY DEF Quiet, SameWork, InHand, Working
  <2>2. InSend(f, r)' <=> InSend(f, r)
    BY DEF Quiet, SameWork, InSend, Working
  <2>3. InList(f, r)' <=> InList(f, r)
    BY DEF Quiet, InList
  <2>4. InPool(f, r)' <=> InPool(f, r)
    BY <1>1 DEF InPool
  <2> QED BY <2>1, <2>2, <2>3, <2>4
<1>4. ASSUME NEW c \in Client, NEW r \in Request PROVE InGot(c, r)' <=> InGot(c, r)
  BY DEF Quiet, InGot
<1>5. HandInv'
  <2>1. thread'["recv"].pc = "busy" => Distinct(thread'["recv"].data)
    BY DEF FlowInv, HandInv, Quiet, SameWork
  <2> QED BY <1>2, <1>3, <2>1 DEF FlowInv, HandInv
<1>6. JobInv'
  BY <1>1, <1>2 DEF FlowInv, JobInv
<1>7. ListInv'
  <2>1. \A f \in Fd : Distinct(m_sendDataList'[f])
    BY DEF FlowInv, ListInv, Quiet
  <2> QED BY <1>2, <1>3, <1>4, <2>1 DEF FlowInv, ListInv
<1>8. SendInv'
  BY <1>2, <1>3, <1>4 DEF FlowInv, SendInv
<1>9. GotInv'
  <2>1. \A c \in Client : Distinct(got'[c])
    BY DEF FlowInv, GotInv, Quiet
  <2> QED BY <1>2, <1>4, <2>1 DEF FlowInv, GotInv
<1> QED BY <1>3, <1>5, <1>6, <1>7, <1>8, <1>9 DEF FlowInv, On

(***************************************************************************)
(* Steps that move a request.                                              *)
(***************************************************************************)
LEMMA PoolSame ==
    ASSUME UNCHANGED poolVars
    PROVE  /\ \A k \in Nat : Waits(k)' <=> Waits(k)
           /\ \A k \in Nat, f \in Fd, r \in Request : Task(k, f, r)' <=> Task(k, f, r)
           /\ \A f \in Fd, r \in Request : InPool(f, r)' <=> InPool(f, r)
           /\ \A r \in Request : (Pooled(r)' <=> Pooled(r)) /\ (Handed(r)' <=> Handed(r))
<1>1. job' = job /\ pending' = pending /\ running' = running
  BY DEF poolVars
<1>2. \A k \in Nat : Waits(k)' <=> Waits(k)
  BY <1>1 DEF Waits
<1>3. \A k \in Nat, f \in Fd, r \in Request : Task(k, f, r)' <=> Task(k, f, r)
  BY <1>1 DEF Task
<1>4. \A f \in Fd, r \in Request : InPool(f, r)' <=> InPool(f, r)
  BY <1>2, <1>3 DEF InPool
<1>5. \A r \in Request : (Pooled(r)' <=> Pooled(r)) /\ (Handed(r)' <=> Handed(r))
  BY <1>2, <1>3 DEF Pooled, Handed
<1> QED BY <1>2, <1>3, <1>4, <1>5

LEMMA WorkSame ==
    /\ thread'["recv"] = thread["recv"] => SameWork("recv")
    /\ thread'["send"] = thread["send"] => SameWork("send")
    /\ SameWork("recv") => \A f \in Fd, r \in Request : InHand(f, r)' <=> InHand(f, r)
    /\ SameWork("send") => \A f \in Fd, r \in Request : InSend(f, r)' <=> InSend(f, r)
<1>1. \A t : thread'[t] = thread[t] => SameWork(t)
  BY DEF SameWork
<1>2. SameWork("recv") => \A f \in Fd, r \in Request : InHand(f, r)' <=> InHand(f, r)
  BY DEF SameWork, InHand, Working
<1>3. SameWork("send") => \A f \in Fd, r \in Request : InSend(f, r)' <=> InSend(f, r)
  BY DEF SameWork, InSend, Working
<1> QED BY <1>1, <1>2, <1>3

(* A step before the lists: what is behind the pool stays. *)
LEMMA OutSame ==
    ASSUME FlowInv, UNCHANGED <<m_sendDataList, got>>, SameWork("send"),
           \A r \in Request : Handed(r) => Handed(r)'
    PROVE  ListInv' /\ SendInv' /\ GotInv'
<1>1. \A f \in Fd, r \in Request : (InSend(f, r)' <=> InSend(f, r)) /\ (InList(f, r)' <=> InList(f, r))
  BY WorkSame DEF InList
<1>2. \A c \in Client, r \in Request : InGot(c, r)' <=> InGot(c, r)
  BY DEF InGot
<1>3. ListInv'
  <2>1. \A f \in Fd : Distinct(m_sendDataList'[f])
    BY DEF FlowInv, ListInv
  <2> QED BY <1>1, <1>2, <2>1 DEF FlowInv, ListInv
<1>4. SendInv'
  BY <1>1, <1>2 DEF FlowInv, SendInv
<1>5. GotInv'
  <2>1. \A c \in Client : Distinct(got'[c])
    BY DEF FlowInv, GotInv
  <2> QED BY <1>2, <2>1 DEF FlowInv, GotInv
<1> QED BY <1>3, <1>4, <1>5

(* A step behind the pool. *)
LEMMA InSame ==
    ASSUME FlowInv, UNCHANGED poolVars, UNCHANGED recvd, SameWork("recv")
    PROVE  HandInv' /\ JobInv'
<1>1. \A r \in Request : (Taken(r)' <=> Taken(r)) /\ (Pooled(r)' <=> Pooled(r))
  BY PoolSame DEF Taken
<1>2. HandInv'
  <2>1. thread'["recv"].pc = "busy" => Distinct(thread'["recv"].data)
    BY DEF FlowInv, HandInv, SameWork
  <2> QED BY <1>1, <2>1, WorkSame DEF FlowInv, HandInv
<1>3. JobInv'
  BY <1>1, PoolSame DEF FlowInv, JobInv
<1> QED BY <1>2, <1>3

(* Nothing comes onto a descriptor but what its connection sent. *)
Moves == \A f \in Fd, r \in Request : On(f, r)' => On(f, r) \/ at[f] = r[1]

LEMMA RecvFlow ==
    ASSUME TypeInv, FlowInv, NEW f \in Fd, NEW n \in 0..MaxTasks, Recv(f, n)
    PROVE  FlowInv' /\ Moves
<1>1. /\ thread' \in [Thread -> ThreadRec] /\ thread["recv"].pc = "epoll"
      /\ \/ /\ UNCHANGED recvd
            /\ Becomes("recv", "epoll", thread["recv"].events \ {f},
                       thread["recv"].fd, thread["recv"].data)
         \/ /\ n > 0 /\ at[f] \in Client /\ recvd[at[f]] + n <= sent[at[f]]
            /\ \E hand \in Seq(Request) :
                 /\ Len(hand) = n
                 /\ \A i \in 1..n : hand[i] = <<at[f], recvd[at[f]] + i>>
                 /\ Becomes("recv", "busy", thread["recv"].events \ {f}, f, hand)
            /\ recvd' = [recvd EXCEPT ![at[f]] = recvd[at[f]] + n]
      /\ UNCHANGED <<startVars, clientVars, at, m_sendDataList, poolVars>>
  BY RecvIs
<1>2. "send" \in Thread /\ UNCHANGED <<m_sendDataList, got>> /\ UNCHANGED job
  BY <1>1 DEF Thread, clientVars, poolVars
<1>3. SameWork("send")
  BY <1>1, <1>2, WorkSame DEF Becomes
<1>4. CASE UNCHANGED recvd /\ Becomes("recv", "epoll", thread["recv"].events \ {f},
                                      thread["recv"].fd, thread["recv"].data)
  <2>1. SameWork("recv")
    BY <1>1, <1>4 DEF SameWork, Becomes
  <2>2. Quiet
    BY <1>1, <1>2, <1>3, <1>4, <2>1, PoolSame DEF Quiet
  <2> QED BY <2>2, QuietFlow DEF Moves
<1>5. CASE /\ n > 0 /\ at[f] \in Client /\ recvd[at[f]] + n <= sent[at[f]]
           /\ \E hand \in Seq(Request) :
                /\ Len(hand) = n
                /\ \A i \in 1..n : hand[i] = <<at[f], recvd[at[f]] + i>>
                /\ Becomes("recv", "busy", thread["recv"].events \ {f}, f, hand)
           /\ recvd' = [recvd EXCEPT ![at[f]] = recvd[at[f]] + n]
  <2>1. PICK c, m : c = at[f] /\ m = recvd[c]
    OBVIOUS
  <2>2. c \in Client /\ m \in Nat /\ n \in Nat /\ recvd \in [Client -> Nat]
    BY <1>5, <2>1, RequestFinite DEF TypeInv, ClientT
  <2>3. PICK hand \in Seq(Request) :
          /\ Len(hand) = n
          /\ \A i \in 1..n : hand[i] = <<c, m + i>>
          /\ Becomes("recv", "busy", thread["recv"].events \ {f}, f, hand)
    BY <1>5, <2>1
  <2>4. recvd' = [recvd EXCEPT ![c] = m + n]
    BY <1>5, <2>1
  <2>5. ASSUME NEW r \in Request, Has(hand, r) PROVE r[1] = c /\ ~Taken(r) /\ Taken(r)'
    <3>1. PICK i \in 1..n : r = <<c, m + i>>
      BY <2>3, <2>5 DEF Has
    <3>2. r[1] = c /\ r[2] = m + i
      BY <3>1
    <3>3. ~(m + i <= m) /\ m + i <= m + n
      BY <2>2, <3>1
    <3> QED BY <2>1, <2>2, <2>4, <3>2, <3>3 DEF Taken
  <2>6. Distinct(hand)
    <3> SUFFICES ASSUME NEW i \in 1..n, NEW j \in 1..n, hand[i] = hand[j] PROVE i = j
      BY <2>3 DEF Distinct
    <3>1. m + i = m + j
      BY <2>3
    <3> QED BY <2>2, <3>1
  <2>7. \A r \in Request : Taken(r) => Taken(r)'
    <3> SUFFICES ASSUME NEW r \in Request, Taken(r) PROVE Taken(r)'
      OBVIOUS
    <3>1. r[1] \in Client /\ r[2] \in Nat
      BY RequestParts
    <3>2. recvd'[r[1]] \in Nat /\ recvd[r[1]] <= recvd'[r[1]]
      BY <2>1, <2>2, <2>4, <3>1
    <3> QED BY <2>2, <3>1, <3>2 DEF Taken
  <2>8. \A g \in Fd, r \in Request : InHand(g, r)' <=> g = f /\ Has(hand, r)
    BY <2>3 DEF InHand, Working, Becomes
  <2>9. HandInv'
    <3>1. Distinct(thread'["recv"].data)
      BY <2>3, <2>6 DEF Becomes
    <3>2. \A g \in Fd, r \in Request : InHand(g, r)' => Taken(r)' /\ ~Pooled(r)'
      BY <1>1, <2>5, <2>8, PoolSame DEF FlowInv, JobInv
    <3> QED BY <3>1, <3>2 DEF HandInv
  <2>10. JobInv'
    BY <1>1, <2>7, PoolSame DEF FlowInv, JobInv
  <2>11. ListInv' /\ SendInv' /\ GotInv'
    BY <1>1, <1>2, <1>3, PoolSame, OutSame
  <2>12. Moves
    <3>1. \A g \in Fd, r \in Request : InList(g, r)' <=> InList(g, r)
      BY <1>2 DEF InList
    <3> QED BY <1>1, <1>3, <2>1, <2>5, <2>8, <3>1, PoolSame, WorkSame DEF Moves, On
  <2> QED BY <2>9, <2>10, <2>11, <2>12 DEF FlowInv
<1> QED BY <1>1, <1>4, <1>5

LEMMA AddFlow ==
    ASSUME TypeInv, FlowInv, AddTask
    PROVE  FlowInv' /\ Moves
<1>1. /\ thread' \in [Thread -> ThreadRec] /\ thread["recv"].pc = "busy"
      /\ thread["recv"].fd \in Fd
      /\ thread["recv"].data \in Seq(Request) /\ thread["recv"].data # <<>>
      /\ job' = Append(job, [fd |-> thread["recv"].fd, request |-> thread["recv"].data[1]])
      /\ Len(job) < MaxTasks
      /\ pending' = Append(pending, Len(job) + 1) /\ UNCHANGED <<running, runs>>
      /\ \/ /\ Len(thread["recv"].data) = 1
            /\ Becomes("recv", "epoll", thread["recv"].events, 0, <<>>)
         \/ /\ Len(thread["recv"].data) > 1
            /\ Becomes("recv", "busy", thread["recv"].events, thread["recv"].fd,
                       Tail(thread["recv"].data))
      /\ UNCHANGED <<startVars, clientVars, recvd, at, m_sendDataList>>
  BY AddIs
<1>2. PICK hand, f, h : hand = thread["recv"].data /\ f = thread["recv"].fd /\ h = hand[1]
  OBVIOUS
<1>3. hand \in Seq(Request) /\ hand # <<>> /\ f \in Fd /\ h \in Request
  <2>1. hand \in Seq(Request) /\ hand # <<>> /\ f \in Fd
    BY <1>1, <1>2
  <2>2. hand[1] \in Request
    BY <2>1
  <2> QED BY <1>2, <2>1, <2>2
<1>4. Distinct(hand)
  BY <1>1, <1>2 DEF FlowInv, HandInv
<1>5. Has(hand, h) /\ Distinct(Tail(hand)) /\ \A r : Has(Tail(hand), r) <=> Has(hand, r) /\ r # h
  BY <1>2, <1>3, <1>4, HasTail
<1>6. InHand(f, h) /\ Taken(h) /\ ~Pooled(h)
  <2>1. InHand(f, h)
    BY <1>1, <1>2, <1>5 DEF InHand, Working
  <2> QED BY <1>3, <2>1 DEF FlowInv, HandInv
<1>7. /\ thread'["recv"].pc = "busy" => Distinct(thread'["recv"].data)
      /\ \A g \in Fd, r \in Request : InHand(g, r)' => InHand(g, r) /\ r # h
  <2>1. CASE Becomes("recv", "epoll", thread["recv"].events, 0, <<>>)
    BY <2>1 DEF Becomes, InHand, Working
  <2>2. CASE Becomes("recv", "busy", thread["recv"].events, f, Tail(hand))
    <3>1. thread'["recv"].pc = "busy" /\ thread'["recv"].fd = f /\ thread'["recv"].data = Tail(hand)
      BY <2>2 DEF Becomes
    <3> QED BY <1>1, <1>2, <1>5, <3>1 DEF InHand, Working
  <2> QED BY <1>1, <1>2, <2>1, <2>2
<1>8. /\ Len(job) \in Nat /\ Len(pending) \in Nat /\ Len(pending) <= Len(job)
      /\ job \in Seq([fd : Fd, request : Request]) /\ pending \in Seq(1..MaxTasks)
      /\ running \subseteq 1..(Len(job) - Len(pending))
  BY DEF TypeInv, PoolT
<1>9. PICK n \in Nat : n = Len(job) + 1
  BY <1>8
<1>10. \A k \in Nat, g \in Fd, r \in Request :
         Task(k, g, r)' <=> Task(k, g, r) \/ (k = n /\ g = f /\ r = h)
  <2>1. PICK t : t = [fd |-> f, request |-> h]
    OBVIOUS
  <2>2. t.fd = f /\ t.request = h /\ job' = Append(job, t) /\ t \in [fd : Fd, request : Request]
    BY <1>1, <1>2, <1>3, <2>1
  <2>3. Len(job') = n /\ job'[n] = t /\ \A k \in 1..Len(job) : job'[k] = job[k]
    BY <1>8, <1>9, <2>2
  <2>4. \A k : k \in 1..n <=> k \in 1..Len(job) \/ k = n
    BY <1>8, <1>9
  <2>5. n \notin 1..Len(job)
    BY <1>8, <1>9
  <2> QED BY <2>2, <2>3, <2>4, <2>5 DEF Task
<1>11. Waits(n) /\ \A k \in Nat : Waits(k)' <=> Waits(k)
  <2>1. Len(job') = Len(job) + 1 /\ Len(pending') = Len(pending) + 1
    BY <1>1, <1>8
  <2>2. Len(job') - Len(pending') = Len(job) - Len(pending) /\ n > Len(job) - Len(pending)
    BY <1>8, <1>9, <2>1
  <2> QED BY <1>1, <2>2 DEF Waits
<1>12. ASSUME NEW r \in Request
       PROVE  (Pooled(r)' <=> Pooled(r) \/ r = h) /\ (Handed(r)' <=> Handed(r))
  BY <1>3, <1>9, <1>10, <1>11 DEF Pooled, Handed
<1>13. \A r \in Request : Taken(r)' <=> Taken(r)
  BY <1>1 DEF Taken
<1>14. HandInv'
  BY <1>7, <1>12, <1>13 DEF FlowInv, HandInv
<1>15. JobInv'
  <2>1. \A r \in Request : Pooled(r)' => Taken(r)'
    BY <1>6, <1>12, <1>13 DEF FlowInv, JobInv
  <2>2. ASSUME NEW k \in Nat, NEW l \in Nat, NEW g1 \in Fd, NEW g2 \in Fd, NEW r \in Request,
               Task(k, g1, r)', Task(l, g2, r)'
        PROVE  k = l
    <3>1. ~Task(k, g1, h) /\ ~Task(l, g2, h)
      BY <1>6 DEF Pooled
    <3> QED BY <1>10, <2>2, <3>1 DEF FlowInv, JobInv
  <2> QED BY <2>1, <2>2 DEF JobInv
<1>16. SameWork("send") /\ UNCHANGED <<m_sendDataList, got>>
  <2>1. "send" \in Thread
    BY DEF Thread
  <2> QED BY <1>1, <2>1, WorkSame DEF Becomes, clientVars
<1>17. ListInv' /\ SendInv' /\ GotInv'
  BY <1>12, <1>16, OutSame
<1>18. Moves
  <2>1. \A g \in Fd, r \in Request : InPool(g, r)' => InPool(g, r) \/ (g = f /\ r = h)
    BY <1>10, <1>11 DEF InPool
  <2>2. \A g \in Fd, r \in Request : InList(g, r)' <=> InList(g, r)
    BY <1>16 DEF InList
  <2> QED BY <1>6, <1>7, <1>16, <2>1, <2>2, WorkSame DEF Moves, On
<1> QED BY <1>14, <1>15, <1>17, <1>18 DEF FlowInv

LEMMA FinishFlow ==
    ASSUME TypeInv, FlowInv, NEW k0 \in running, OnTaskProcessor(k0)
    PROVE  FlowInv' /\ Moves
<1>1. /\ k0 \in 1..(Len(job) - Len(pending)) /\ k0 \in 1..Len(job) /\ k0 \in 1..MaxTasks
      /\ job[k0].fd \in Fd /\ job[k0].request \in Request
      /\ running' = running \ {k0} /\ runs' = [runs EXCEPT ![k0] = runs[k0] + 1]
      /\ \/ Kind(job[k0].request) = "short" /\ UNCHANGED m_sendDataList
         \/ m_sendDataList' = [m_sendDataList EXCEPT
                ![job[k0].fd] = Append(m_sendDataList[job[k0].fd], job[k0].request)]
      /\ UNCHANGED <<startVars, clientVars, recvd, at, thread, job, pending>>
  BY FinishIs
<1>2. PICK f, h : f = job[k0].fd /\ h = job[k0].request
  OBVIOUS
<1>3. f \in Fd /\ h \in Request /\ Task(k0, f, h) /\ Waits(k0) /\ k0 \in Nat
  BY <1>1, <1>2, RequestFinite DEF Task, Waits
<1>4. \A k \in Nat, g \in Fd, r \in Request : Task(k, g, r)' <=> Task(k, g, r)
  BY <1>1 DEF Task
<1>5. \A k \in Nat : Waits(k)' <=> Waits(k) /\ k # k0
  <2>1. Len(job) \in Nat /\ Len(pending) \in Nat
    BY DEF TypeInv, PoolT
  <2>2. ~(k0 > Len(job) - Len(pending))
    BY <1>1, <2>1
  <2> QED BY <1>1, <2>2 DEF Waits
<1>6. ~Handed(h)
  BY <1>3 DEF Handed, FlowInv, JobInv
<1>7. \A r \in Request : (Pooled(r)' <=> Pooled(r)) /\ (Taken(r)' <=> Taken(r))
  <2>1. \A r \in Request : Pooled(r)' <=> Pooled(r)
    BY <1>4 DEF Pooled
  <2>2. \A r \in Request : Taken(r)' <=> Taken(r)
    BY <1>1 DEF Taken
  <2> QED BY <2>1, <2>2
<1>8. Handed(h)' /\ \A r \in Request : Handed(r) => Handed(r)'
  BY <1>3, <1>4, <1>5 DEF Handed
<1>9. SameWork("recv") /\ SameWork("send") /\ UNCHANGED got
  BY <1>1, WorkSame DEF clientVars
<1>10. HandInv'
  <2>1. thread'["recv"].pc = "busy" => Distinct(thread'["recv"].data)
    BY <1>1 DEF FlowInv, HandInv
  <2> QED BY <1>7, <1>9, <2>1, WorkSame DEF FlowInv, HandInv
<1>11. JobInv'
  BY <1>4, <1>7 DEF FlowInv, JobInv
<1>12. CASE UNCHANGED m_sendDataList
  <2>1. ListInv' /\ SendInv' /\ GotInv'
    BY <1>8, <1>9, <1>12, OutSame
  <2>2. \A g \in Fd, r \in Request : InPool(g, r)' => InPool(g, r)
    BY <1>4, <1>5 DEF InPool
  <2>3. \A g \in Fd, r \in Request : InList(g, r)' <=> InList(g, r)
    BY <1>12 DEF InList
  <2>4. Moves
    BY <1>9, <2>2, <2>3, WorkSame DEF Moves, On
  <2> QED BY <1>10, <1>11, <2>1, <2>4 DEF FlowInv
<1>13. CASE m_sendDataList' = [m_sendDataList EXCEPT ![f] = Append(m_sendDataList[f], h)]
  <2>1. PICK s : s = m_sendDataList[f]
    OBVIOUS
  <2>2. s \in Seq(Request) /\ m_sendDataList \in [Fd -> Seq(Request)]
    BY <1>3, <2>1 DEF TypeInv, DataT
  <2>3. ~InList(f, h) /\ Distinct(s)
    BY <1>3, <1>6, <2>1 DEF FlowInv, ListInv
  <2>4. ~Has(s, h)
    BY <2>1, <2>3 DEF InList
  <2>5. Distinct(Append(s, h)) /\ \A r : Has(Append(s, h), r) <=> Has(s, r) \/ r = h
    BY <1>3, <2>2, <2>3, <2>4, HasAppend
  <2>6. m_sendDataList'[f] = Append(s, h) /\ \A g \in Fd : g # f => m_sendDataList'[g] = m_sendDataList[g]
    BY <1>3, <1>13, <2>1, <2>2
  <2>7. \A g \in Fd : Distinct(m_sendDataList'[g])
    BY <2>5, <2>6 DEF FlowInv, ListInv
  <2>8. \A g \in Fd, r \in Request : InList(g, r)' <=> InList(g, r) \/ (g = f /\ r = h)
    BY <2>1, <2>5, <2>6 DEF InList
  <2>9. \A g \in Fd, r \in Request : InSend(g, r)' <=> InSend(g, r)
    BY <1>9, WorkSame
  <2>10. \A c \in Client, r \in Request : InGot(c, r)' <=> InGot(c, r)
    BY <1>9 DEF InGot
  <2>11. /\ \A g \in Fd : ~InSend(g, h) /\ ~InList(g, h)
         /\ \A c \in Client : ~InGot(c, h)
    BY <1>3, <1>6 DEF FlowInv, ListInv, SendInv, GotInv
  <2>12. ListInv'
    <3>1. ASSUME NEW g \in Fd, NEW r \in Request, InList(g, r)'
          PROVE  /\ Handed(r)'
                 /\ \A g2 \in Fd : ~InSend(g2, r)' /\ (InList(g2, r)' => g = g2)
                 /\ \A c \in Client : ~InGot(c, r)'
      <4>1. CASE r = h
        BY <1>8, <2>8, <2>9, <2>10, <2>11, <3>1, <4>1
      <4>2. CASE r # h
        BY <1>8, <2>8, <2>9, <2>10, <3>1, <4>2 DEF FlowInv, ListInv
      <4> QED BY <4>1, <4>2
    <3> QED BY <2>7, <3>1 DEF ListInv
  <2>13. SendInv'
    BY <1>8, <2>9, <2>10 DEF FlowInv, SendInv
  <2>14. GotInv'
    <3>1. \A c \in Client : Distinct(got'[c])
      BY <1>9 DEF FlowInv, GotInv
    <3> QED BY <1>8, <2>10, <3>1 DEF FlowInv, GotInv
  <2>15. Moves
    <3>1. \A g \in Fd, r \in Request : InPool(g, r)' => InPool(g, r)
      BY <1>4, <1>5 DEF InPool
    <3>2. InPool(f, h)
      BY <1>3 DEF InPool
    <3> QED BY <1>9, <2>8, <2>9, <3>1, <3>2, WorkSame DEF Moves, On
  <2> QED BY <1>10, <1>11, <2>12, <2>13, <2>14, <2>15 DEF FlowInv
<1> QED BY <1>1, <1>2, <1>12, <1>13

LEMMA PopFlow ==
    ASSUME TypeInv, FlowInv, NEW f \in Fd, PopFront(f)
    PROVE  FlowInv' /\ Moves
<1>1. /\ thread' \in [Thread -> ThreadRec] /\ thread["send"].pc = "epoll"
      /\ \/ /\ m_sendDataList[f] # <<>>
            /\ m_sendDataList' = [m_sendDataList EXCEPT ![f] = Tail(m_sendDataList[f])]
            /\ Becomes("send", "busy", thread["send"].events \ {f}, f, <<Head(m_sendDataList[f])>>)
         \/ /\ UNCHANGED m_sendDataList
            /\ Becomes("send", "epoll", thread["send"].events \ {f},
                       thread["send"].fd, thread["send"].data)
      /\ UNCHANGED <<startVars, clientVars, recvd, at, poolVars>>
  BY PopIs
<1>2. "recv" \in Thread /\ UNCHANGED got /\ UNCHANGED job
  BY <1>1 DEF Thread, clientVars, poolVars
<1>3. SameWork("recv")
  BY <1>1, <1>2, WorkSame DEF Becomes
<1>4. CASE UNCHANGED m_sendDataList /\ Becomes("send", "epoll", thread["send"].events \ {f},
                                               thread["send"].fd, thread["send"].data)
  <2>1. SameWork("send")
    BY <1>1, <1>4 DEF SameWork, Becomes
  <2>2. Quiet
    BY <1>1, <1>2, <1>3, <1>4, <2>1, PoolSame DEF Quiet
  <2> QED BY <2>2, QuietFlow DEF Moves
<1>5. CASE /\ m_sendDataList[f] # <<>>
           /\ m_sendDataList' = [m_sendDataList EXCEPT ![f] = Tail(m_sendDataList[f])]
           /\ Becomes("send", "busy", thread["send"].events \ {f}, f, <<Head(m_sendDataList[f])>>)
  <2>1. PICK s, h : s = m_sendDataList[f] /\ h = s[1]
    OBVIOUS
  <2>2. s \in Seq(Request) /\ s # <<>> /\ m_sendDataList \in [Fd -> Seq(Request)] /\ Distinct(s)
    BY <1>5, <2>1 DEF TypeInv, DataT, FlowInv, ListInv
  <2>3. h \in Request /\ Head(s) = h
    BY <2>1, <2>2
  <2>4. Has(s, h) /\ Distinct(Tail(s)) /\ \A r : Has(Tail(s), r) <=> Has(s, r) /\ r # h
    BY <2>1, <2>2, HasTail
  <2>5. m_sendDataList'[f] = Tail(s) /\ \A g \in Fd : g # f => m_sendDataList'[g] = m_sendDataList[g]
    BY <1>5, <2>1, <2>2
  <2>6. \A g \in Fd : Distinct(m_sendDataList'[g])
    BY <2>4, <2>5 DEF FlowInv, ListInv
  <2>7. \A g \in Fd, r \in Request : InList(g, r)' <=> InList(g, r) /\ (g = f => r # h)
    BY <2>1, <2>4, <2>5 DEF InList
  <2>8. InList(f, h)
    BY <2>1, <2>4 DEF InList
  <2>9. \A g \in Fd, r \in Request : InSend(g, r)' <=> g = f /\ r = h
    <3>1. thread'["send"].pc = "busy" /\ thread'["send"].fd = f /\ thread'["send"].data = <<h>>
      BY <1>5, <2>1, <2>3 DEF Becomes
    <3>2. thread'["send"].data[1] = h
      BY <3>1
    <3> QED BY <3>1, <3>2 DEF InSend, Working
  <2>10. \A c \in Client, r \in Request : InGot(c, r)' <=> InGot(c, r)
    BY <1>2 DEF InGot
  <2>11. \A r \in Request : Handed(r)' <=> Handed(r)
    BY <1>1, PoolSame
  <2>12. HandInv' /\ JobInv'
    BY <1>1, <1>3, InSame
  <2>13. ListInv'
    <3>1. ASSUME NEW g \in Fd, NEW r \in Request, InList(g, r)'
          PROVE  /\ Handed(r)'
                 /\ \A g2 \in Fd : ~InSend(g2, r)' /\ (InList(g2, r)' => g = g2)
                 /\ \A c \in Client : ~InGot(c, r)'
      <4>1. InList(g, r) /\ r # h
        BY <2>3, <2>7, <2>8, <3>1 DEF FlowInv, ListInv
      <4> QED BY <2>7, <2>9, <2>10, <2>11, <4>1 DEF FlowInv, ListInv
    <3> QED BY <2>6, <3>1 DEF ListInv
  <2>14. SendInv'
    BY <2>3, <2>8, <2>9, <2>10, <2>11 DEF FlowInv, ListInv, SendInv
  <2>15. GotInv'
    <3>1. \A c \in Client : Distinct(got'[c])
      BY <1>2 DEF FlowInv, GotInv
    <3> QED BY <2>10, <2>11, <3>1 DEF FlowInv, GotInv
  <2>16. Moves
    BY <1>1, <1>3, <2>7, <2>8, <2>9, PoolSame, WorkSame DEF Moves, On
  <2> QED BY <2>12, <2>13, <2>14, <2>15, <2>16 DEF FlowInv
<1> QED BY <1>1, <1>4, <1>5

LEMMA EraseFlow ==
    ASSUME TypeInv, FlowInv, NEW f \in Fd, Erase(f)
    PROVE  FlowInv' /\ Moves
<1>1. /\ thread' \in [Thread -> ThreadRec] /\ thread["listen"].pc = "epoll"
      /\ f \in thread["listen"].events
      /\ Becomes("listen", "busy", thread["listen"].events \ {f}, f, <<>>)
      /\ m_sendDataList' = [m_sendDataList EXCEPT ![f] = <<>>]
      /\ UNCHANGED <<startVars, clientVars, recvd, at, poolVars>>
  BY EraseIs
<1>2. "recv" \in Thread /\ "send" \in Thread /\ UNCHANGED got
  BY <1>1 DEF Thread, clientVars
<1>3. SameWork("recv") /\ SameWork("send")
  BY <1>1, <1>2, WorkSame DEF Becomes
<1>4. m_sendDataList'[f] = <<>> /\ \A g \in Fd : g # f => m_sendDataList'[g] = m_sendDataList[g]
  BY <1>1 DEF TypeInv, DataT
<1>5. \A g \in Fd : Distinct(m_sendDataList'[g])
  BY <1>4, HasEmpty DEF FlowInv, ListInv
<1>6. \A g \in Fd, r \in Request : InList(g, r)' => InList(g, r)
  BY <1>4, HasEmpty DEF InList
<1>7. \A c \in Client, r \in Request : InGot(c, r)' <=> InGot(c, r)
  BY <1>2 DEF InGot
<1>8. \A r \in Request : Handed(r)' <=> Handed(r)
  BY <1>1, PoolSame
<1>9. \A g \in Fd, r \in Request : InSend(g, r)' <=> InSend(g, r)
  BY <1>3, WorkSame
<1>10. HandInv' /\ JobInv'
  BY <1>1, <1>3, InSame
<1>11. ListInv'
  BY <1>5, <1>6, <1>7, <1>8, <1>9 DEF FlowInv, ListInv
<1>12. SendInv'
  BY <1>7, <1>8, <1>9 DEF FlowInv, SendInv
<1>13. GotInv'
  <2>1. \A c \in Client : Distinct(got'[c])
    BY <1>2 DEF FlowInv, GotInv
  <2> QED BY <1>7, <1>8, <2>1 DEF FlowInv, GotInv
<1>14. Moves
  BY <1>1, <1>3, <1>6, <1>9, PoolSame, WorkSame DEF Moves, On
<1> QED BY <1>10, <1>11, <1>12, <1>13, <1>14 DEF FlowInv

LEMMA SendFlow ==
    ASSUME TypeInv, FlowInv, SendNow
    PROVE  FlowInv' /\ Moves
<1>1. PICK c, h, taken :
        /\ c = at[thread["send"].fd] /\ h = thread["send"].data[1] /\ h \in Request
        /\ c \in Client \cup {0} /\ taken \in BOOLEAN
        /\ got' = IF taken /\ c # 0 /\ ~left[c] /\ Kind(h) \in Api
                  THEN [got EXCEPT ![c] = Append(got[c], h)] ELSE got
  BY SendIs
<1>2. /\ thread["send"].pc = "busy" /\ Becomes("send", "epoll", thread["send"].events, 0, <<>>)
      /\ UNCHANGED <<recvd, at, m_sendDataList, poolVars>>
  BY SendIs
<1>3. PICK f : f = thread["send"].fd
  OBVIOUS
<1>4. f \in Fd /\ InSend(f, h) /\ "recv" \in Thread
  BY <1>1, <1>2, <1>3 DEF Thread, TypeInv, ThreadT, InSend, Working
<1>5. SameWork("recv")
  BY <1>2, <1>4, WorkSame DEF Becomes
<1>6. \A g \in Fd, r \in Request : ~InSend(g, r)'
  BY <1>2 DEF InSend, Working, Becomes
<1>7. \A r \in Request : Handed(r)' <=> Handed(r)
  BY <1>2, PoolSame
<1>8. HandInv' /\ JobInv'
  BY <1>2, <1>5, InSame
<1>9. \A g \in Fd, r \in Request : InList(g, r)' <=> InList(g, r)
  BY <1>2 DEF InList
<1>10. Handed(h) /\ \A d \in Client : ~InGot(d, h)
  BY <1>1, <1>4 DEF FlowInv, SendInv
<1>11. \A g \in Fd : ~InList(g, h)
  BY <1>1, <1>4 DEF FlowInv, ListInv
<1>12. /\ \A d \in Client : Distinct(got'[d])
       /\ \A d \in Client, r \in Request :
            InGot(d, r)' => InGot(d, r) \/ (r = h /\ d = c /\ Kind(h) \in Api)
  <2>1. CASE got' = got
    BY <2>1 DEF FlowInv, GotInv, InGot
  <2>2. CASE taken /\ c # 0 /\ ~left[c] /\ Kind(h) \in Api
    <3>1. PICK q : q = got[c]
      OBVIOUS
    <3>2. c \in Client /\ q \in Seq(Request) /\ Distinct(q)
      BY <1>1, <2>2, <3>1 DEF TypeInv, ClientT, FlowInv, GotInv
    <3>3. got'[c] = Append(q, h) /\ \A d \in Client : d # c => got'[d] = got[d]
      BY <1>1, <2>2, <3>1, <3>2 DEF TypeInv, ClientT
    <3>4. ~Has(q, h)
      BY <1>10, <3>1, <3>2 DEF InGot
    <3>5. Distinct(Append(q, h)) /\ \A r : Has(Append(q, h), r) <=> Has(q, r) \/ r = h
      BY <1>1, <3>2, <3>4, HasAppend
    <3>6. \A d \in Client : Distinct(got'[d])
      BY <3>3, <3>5 DEF FlowInv, GotInv
    <3>7. \A d \in Client, r \in Request : InGot(d, r)' => InGot(d, r) \/ (r = h /\ d = c)
      BY <3>1, <3>3, <3>5 DEF InGot
    <3> QED BY <2>2, <3>6, <3>7
  <2> QED BY <1>1, <2>1, <2>2
<1>13. ListInv'
  <2>1. \A g \in Fd : Distinct(m_sendDataList'[g])
    BY <1>2 DEF FlowInv, ListInv
  <2>2. ASSUME NEW g \in Fd, NEW r \in Request, InList(g, r)'
        PROVE  /\ Handed(r)'
               /\ \A g2 \in Fd : ~InSend(g2, r)' /\ (InList(g2, r)' => g = g2)
               /\ \A d \in Client : ~InGot(d, r)'
    <3>1. InList(g, r) /\ r # h
      BY <1>9, <1>11, <2>2
    <3> QED BY <1>6, <1>7, <1>9, <1>12, <3>1 DEF FlowInv, ListInv
  <2> QED BY <2>1, <2>2 DEF ListInv
<1>14. SendInv'
  BY <1>6 DEF SendInv
<1>15. GotInv'
  <2>1. ASSUME NEW d \in Client, NEW r \in Request, InGot(d, r)'
        PROVE  Handed(r)' /\ Kind(r) \in Api /\ \A e \in Client : InGot(e, r)' => e = d
    <3>1. CASE InGot(d, r)
      <4>1. r # h
        BY <1>10, <3>1
      <4>2. \A e \in Client : InGot(e, r)' => InGot(e, r)
        BY <1>12, <4>1
      <4> QED BY <1>7, <3>1, <4>2 DEF FlowInv, GotInv
    <3>2. CASE ~InGot(d, r)
      <4>1. r = h /\ d = c /\ Kind(h) \in Api
        BY <1>12, <2>1, <3>2
      <4>2. \A e \in Client : InGot(e, h)' => e = c
        BY <1>1, <1>10, <1>12
      <4> QED BY <1>7, <1>10, <4>1, <4>2
    <3> QED BY <3>1, <3>2
  <2> QED BY <1>12, <2>1 DEF GotInv
<1>16. Moves
  BY <1>2, <1>5, <1>6, <1>9, PoolSame, WorkSame DEF Moves, On
<1> QED BY <1>8, <1>13, <1>14, <1>15, <1>16 DEF FlowInv

(***************************************************************************)
(* Patient clients.  Who has left an accepted connection has been served,  *)
(* only a refused connection is reset, and the listen thread deals with    *)
(* descriptors whose client is gone.                                       *)
(***************************************************************************)
OffInv == main \in {"socket", "bind", "listen"} => \A t \in Thread : thread[t].pc = "off"

LeftInv  == \A c \in Client : left[c] /\ conn[c] \in {"queued", "accepted"} => Served(c)
ResetInv == \A c \in Client : reset[c] => left[c] /\ ~Served(c)
ConnInv  == \A f \in Fd : at[f] # 0 => conn[at[f]] = "accepted"
GoneInv  == LeftInv /\ ResetInv /\ ConnInv

Doomed(f) == f \in thread["listen"].events \/ Working("listen", f)

ListenInv ==
    /\ \A f \in Fd : Doomed(f) => Hup(f)
    /\ \A f \in Fd : Working("listen", f) => f \notin thread["listen"].events

PatientInv == TypeInv /\ OffInv /\ FlowInv /\ RouteInv /\ OwnInv /\ GoneInv /\ ListenInv

(* The descriptor of a client that has left carries no API call any more. *)
LEMMA GoneIsServed ==
    ASSUME TypeInv, GoneInv, NEW f \in Fd, at[f] # 0, left[at[f]]
    PROVE  at[f] \in Client /\ Served(at[f]) /\ ~reset[at[f]]
<1>1. at[f] \in Client
  BY DEF TypeInv, DataT
<1>2. conn[at[f]] = "accepted"
  BY DEF GoneInv, ConnInv
<1>3. Served(at[f])
  BY <1>1, <1>2 DEF GoneInv, LeftInv
<1> QED BY <1>1, <1>3 DEF GoneInv, ResetInv

LEMMA GoneIsQuiet ==
    ASSUME TypeInv, FlowInv, RouteInv, OwnInv, GoneInv, NEW f \in Fd, at[f] # 0, left[at[f]],
           NEW r \in Request, On(f, r)
    PROVE  Kind(r) \notin Api
<1> SUFFICES ASSUME Kind(r) \in Api PROVE FALSE
  OBVIOUS
<1>1. at[f] = r[1]
  BY DEF RouteInv
<1>2. r[1] \in Client /\ Served(r[1])
  BY <1>1, GoneIsServed
<1>3. InGot(r[1], r)
  BY <1>2, ServedHas
<1> QED BY <1>2, <1>3, OnIsOpen

LEMMA OffStep == ASSUME TypeInv, OffInv, [Next]_vars PROVE OffInv'
<1> SUFFICES ASSUME main' \in {"socket", "bind", "listen"}
             PROVE  \A t \in Thread : thread'[t].pc = "off"
  BY DEF OffInv
<1>0. "listen" \in Thread /\ "send" \in Thread /\ "recv" \in Thread
  BY DEF Thread
<1>1. CASE main \notin {"socket", "bind", "listen"}
  BY <1>1 DEF Next, Main, Clients, ListenThread, SendThread, RecvThread, Worker, Socket, Bind,
        Listen, CloseSocket, LastWait, Interrupted, Closing,
        ThreadEnd, Joined, Connect, ClientSend, Leave, EpollWait,
        Accept, Erase, CloseFd, PopFront, SendNow, Recv, AddTask, StartTask, OnTaskProcessor,
        startVars, vars
<1>2. CASE main \in {"socket", "bind", "listen"}
  <2>1. \A t \in Thread : thread[t].pc = "off"
    BY <1>2 DEF OffInv
  <2>2. \A t \in Thread : thread[t] # Idle
    BY <2>1, IdleIs
  <2>3. CASE Main
    BY <1>2, <2>1, <2>3 DEF Main, Socket, Bind, Listen, CloseSocket, LastWait, Interrupted, Closing,
        ThreadEnd, Joined
  <2>4. CASE Clients
    BY <2>1, <2>4 DEF Clients, Connect, ClientSend, Leave
  <2>5. CASE ListenThread \/ SendThread \/ RecvThread
    BY <1>0, <1>2, <2>1, <2>5 DEF ListenThread, SendThread, RecvThread, EpollWait, Accept, Erase,
        CloseFd, PopFront, SendNow, Recv, AddTask, Event
  <2>6. CASE Worker
    BY <2>1, <2>6 DEF Worker, StartTask, OnTaskProcessor
  <2>7. CASE UNCHANGED vars
    BY <2>1, <2>7 DEF vars
  <2> QED BY <2>3, <2>4, <2>5, <2>6, <2>7 DEF Next
<1> QED BY <1>1, <1>2

(***************************************************************************)
(* The quiet steps.                                                        *)
(***************************************************************************)
LEMMA IsQuiet ==
    ASSUME UNCHANGED <<recvd, m_sendDataList, got>>, UNCHANGED poolVars,
           SameWork("recv"), SameWork("send")
    PROVE  Quiet
BY PoolSame DEF Quiet, poolVars

LEMMA StillQuiet ==
    ASSUME UNCHANGED <<recvd, m_sendDataList, got>>, UNCHANGED poolVars,
           NEW t \in Thread, NEW pc, NEW events, NEW fd, NEW data,
           Becomes(t, pc, events, fd, data), t # "listen" => pc # "busy" /\ thread[t].pc # "busy"
    PROVE  Quiet
<1>1. "recv" \in Thread /\ "send" \in Thread /\ "recv" # "listen" /\ "send" # "listen"
  BY DEF Thread
<1>2. ASSUME NEW u \in {"recv", "send"} PROVE SameWork(u)
  <2>1. CASE u = t
    BY <1>1, <2>1 DEF SameWork, Becomes
  <2>2. CASE u # t
    BY <1>1, <2>2 DEF SameWork, Becomes
  <2> QED BY <2>1, <2>2
<1>3. SameWork("recv") /\ SameWork("send")
  BY <1>2
<1> QED BY <1>3, IsQuiet

LEMMA MainQuiet == ASSUME TypeInv, OffInv, Main PROVE Quiet
<1>0. "recv" \in Thread /\ "send" \in Thread
  BY DEF Thread
<1>1. UNCHANGED <<recvd, m_sendDataList, got>> /\ UNCHANGED poolVars
  BY DEF Main, Socket, Bind, Listen, CloseSocket, LastWait, Interrupted, Closing,
        ThreadEnd, Joined, clientVars
<1>2. CASE thread' = thread
  BY <1>1, <1>2, WorkSame, IsQuiet
<1>3. CASE Listen
  <2>1. CASE thread' = [t \in Thread |-> Idle]
    <3>1. \A t \in Thread : thread[t].pc = "off" /\ thread'[t].pc = "epoll"
      BY <1>3, <2>1, IdleIs DEF OffInv, Listen
    <3>2. SameWork("recv") /\ SameWork("send")
      BY <1>0, <3>1 DEF SameWork
    <3> QED BY <1>1, <3>2, IsQuiet
  <2> QED BY <1>2, <1>3, <2>1 DEF Listen
<1>4. ASSUME NEW inside \in SUBSET {t \in Thread : thread[t] = Idle}, CloseSocket(inside) PROVE Quiet
  <2>1. \A t \in Thread :
          \/ thread'[t] = thread[t]
          \/ /\ thread[t] = Idle /\ thread'[t].pc = "inside" /\ thread'[t].events = {}
             /\ thread'[t].fd = 0 /\ thread'[t].data = <<>>
    BY <1>4, CloseSocketIs
  <2>2. SameWork("recv") /\ SameWork("send")
    BY <1>0, <2>1, IdleIs DEF SameWork
  <2> QED BY <1>1, <2>2, IsQuiet
<1>5. ASSUME NEW t \in Thread, LastWait(t) PROVE Quiet
  <2>1. thread[t].pc = "inside" /\ Becomes(t, "epoll", Ready(t) \cap Fd, 0, <<>>)
    BY <1>5, LastWaitIs
  <2> QED BY <1>1, <2>1, StillQuiet
<1>6. ASSUME NEW t \in Thread, ThreadEnd(t) PROVE Quiet
  <2>1. thread[t] = Idle /\ Becomes(t, "ended", {}, 0, <<>>)
    BY <1>6, EndIs
  <2>2. thread[t].pc # "busy"
    BY <2>1, IdleIs
  <2> QED BY <1>1, <2>1, <2>2, StillQuiet
<1>7. ASSUME NEW t \in Thread, Interrupted(t) PROVE Quiet
  <2>1. /\ thread[t] = Idle \/ thread[t].pc = "inside"
        /\ Becomes(t, "interrupted", {}, 0, <<>>)
    BY <1>7, InterruptIs
  <2>2. thread[t].pc # "busy"
    BY <2>1, IdleIs
  <2> QED BY <1>1, <2>1, <2>2, StillQuiet
<1> QED BY <1>2, <1>3, <1>4, <1>5, <1>6, <1>7 DEF Main, Closing, Socket, Bind, Joined

LEMMA WaitQuiet == ASSUME TypeInv, NEW t \in Thread, EpollWait(t) PROVE Quiet
<1>1. /\ Becomes(t, "epoll", Ready(t), 0, <<>>) /\ thread[t].pc = "epoll"
      /\ UNCHANGED <<startVars, clientVars, recvd, at, m_sendDataList, poolVars>>
  BY WaitIs
<1>2. UNCHANGED <<recvd, m_sendDataList, got>> /\ UNCHANGED poolVars
  BY <1>1 DEF clientVars
<1> QED BY <1>1, <1>2, StillQuiet

LEMMA AcceptQuiet == ASSUME TypeInv, NEW c \in Queued, Accept(c) PROVE Quiet
<1>1. /\ Becomes("listen", "epoll", thread["listen"].events \ {m_socket},
                 thread["listen"].fd, thread["listen"].data)
      /\ UNCHANGED <<recvd, m_sendDataList, got>> /\ UNCHANGED poolVars
  BY AcceptIs
<1>2. "listen" \in Thread
  BY DEF Thread
<1> QED BY <1>1, <1>2, StillQuiet

LEMMA CloseQuiet == ASSUME TypeInv, CloseFd PROVE Quiet
<1>1. /\ Becomes("listen", "epoll", thread["listen"].events, 0, <<>>)
      /\ UNCHANGED <<startVars, clientVars, recvd, m_sendDataList, poolVars>>
  BY CloseFdIs
<1>2. "listen" \in Thread /\ UNCHANGED <<recvd, m_sendDataList, got>> /\ UNCHANGED poolVars
  BY <1>1 DEF Thread, clientVars
<1> QED BY <1>1, <1>2, StillQuiet

LEMMA ClientQuiet == ASSUME Clients PROVE Quiet
<1>1. UNCHANGED <<recvd, m_sendDataList, got>> /\ UNCHANGED poolVars /\ UNCHANGED thread
  BY DEF Clients, Connect, ClientSend, Leave
<1> QED BY <1>1, WorkSame, IsQuiet

LEMMA StartQuiet == ASSUME TypeInv, StartTask PROVE Quiet
<1>1. /\ Len(pending) > 0 /\ pending[1] = (Len(job) - Len(pending)) + 1
      /\ running' = running \cup {pending[1]} /\ pending' = Tail(pending)
      /\ UNCHANGED <<startVars, clientVars, recvd, at, m_sendDataList, thread, job, runs>>
  BY StartIs
<1>2. Len(job) \in Nat /\ Len(pending) \in Nat /\ Len(pending') = Len(pending) - 1
  BY <1>1 DEF TypeInv, PoolT
<1>3. PICK d \in Int : d = Len(job) - Len(pending)
  BY <1>2
<1>4. Len(job') - Len(pending') = d + 1 /\ running' = running \cup {d + 1}
  <2>1. \A a, b \in Nat : a - (b - 1) = (a - b) + 1
    OBVIOUS
  <2>2. Len(job') = Len(job)
    BY <1>1
  <2> QED BY <1>1, <1>2, <1>3, <2>1, <2>2
<1>5. \A k \in Nat : k > d <=> k > d + 1 \/ k = d + 1
  OBVIOUS
<1>6. \A k \in Nat : Waits(k)' <=> Waits(k)
  BY <1>3, <1>4, <1>5 DEF Waits
<1> QED BY <1>1, <1>6, WorkSame DEF Quiet, clientVars

(***************************************************************************)
(* The invariant of patient clients, part by part.                         *)
(***************************************************************************)
LEMMA FlowStep == ASSUME TypeInv, OffInv, FlowInv, [Next]_vars PROVE FlowInv' /\ Moves
<1>0. TypeInv /\ OffInv /\ FlowInv
  OBVIOUS
<1>1. Quiet => FlowInv' /\ Moves
  BY <1>0, QuietFlow DEF Moves
<1>2. CASE Main \/ Clients \/ StartTask
  BY <1>0, <1>1, <1>2, MainQuiet, ClientQuiet, StartQuiet
<1>3. CASE ListenThread
  <2>1. "listen" \in Thread
    BY DEF Thread
  <2>2. CASE EpollWait("listen")
    BY <1>0, <1>1, <2>1, <2>2, WaitQuiet
  <2>3. ASSUME NEW c \in Queued, Accept(c) PROVE FlowInv' /\ Moves
    BY <1>0, <1>1, <2>3, AcceptQuiet
  <2>4. ASSUME NEW f \in Fd, Erase(f) PROVE FlowInv' /\ Moves
    BY <1>0, <2>4, EraseFlow
  <2>5. CASE CloseFd
    BY <1>0, <1>1, <2>5, CloseQuiet
  <2> QED BY <1>3, <2>2, <2>3, <2>4, <2>5 DEF ListenThread
<1>4. CASE SendThread
  <2>1. "send" \in Thread
    BY DEF Thread
  <2>2. CASE EpollWait("send")
    BY <1>0, <1>1, <2>1, <2>2, WaitQuiet
  <2>3. ASSUME NEW f \in Fd, PopFront(f) PROVE FlowInv' /\ Moves
    BY <1>0, <2>3, PopFlow
  <2>4. CASE SendNow
    BY <1>0, <2>4, SendFlow
  <2> QED BY <1>4, <2>2, <2>3, <2>4 DEF SendThread
<1>5. CASE RecvThread
  <2>1. "recv" \in Thread
    BY DEF Thread
  <2>2. CASE EpollWait("recv")
    BY <1>0, <1>1, <2>1, <2>2, WaitQuiet
  <2>3. ASSUME NEW f \in Fd, NEW n \in 0..MaxTasks, Recv(f, n) PROVE FlowInv' /\ Moves
    BY <1>0, <2>3, RecvFlow
  <2>4. CASE AddTask
    BY <1>0, <2>4, AddFlow
  <2> QED BY <1>5, <2>2, <2>3, <2>4 DEF RecvThread
<1>6. ASSUME NEW k \in running, OnTaskProcessor(k) PROVE FlowInv' /\ Moves
  BY <1>0, <1>6, FinishFlow
<1>7. CASE UNCHANGED vars
  <2>1. UNCHANGED <<recvd, m_sendDataList, got>> /\ UNCHANGED poolVars /\ UNCHANGED thread
    BY <1>7 DEF vars, clientVars
  <2>2. Quiet
    BY <2>1, WorkSame, IsQuiet
  <2> QED BY <1>1, <2>2
<1> QED BY <1>2, <1>3, <1>4, <1>5, <1>6, <1>7 DEF Next, Worker

(* Which steps change what is on a descriptor. *)
LEMMA AtStep ==
    ASSUME [Next]_vars
    PROVE  at' = at \/ CloseFd \/ \E c \in Queued : Accept(c)
BY DEF Next, Main, Clients, ListenThread, SendThread, RecvThread, Worker, Socket, Bind,
        Listen, CloseSocket, LastWait, Interrupted, Closing,
        ThreadEnd, Joined, Connect, ClientSend, Leave, EpollWait,
        Erase, PopFront, SendNow, Recv, AddTask, StartTask, OnTaskProcessor, vars

LEMMA RouteStep == ASSUME PatientInv, [Next]_vars PROVE RouteInv'
<1>0. /\ TypeInv /\ OffInv /\ FlowInv /\ RouteInv /\ OwnInv /\ GoneInv /\ ListenInv
      /\ at \in [Fd -> Client \cup {0}]
  BY DEF PatientInv, TypeInv, DataT
<1>1. Moves
  BY <1>0, FlowStep
<1>2. CASE at' = at
  BY <1>0, <1>1, <1>2 DEF RouteInv, Moves
<1>3. ASSUME NEW c \in Queued, Accept(c) PROVE RouteInv'
  <2>1. at' = at \/ \E f \in Fd : at[f] = 0 /\ at' = [at EXCEPT ![f] = c]
    BY <1>0, <1>3, AcceptIs
  <2>2. ASSUME NEW f \in Fd, at[f] = 0, at' = [at EXCEPT ![f] = c] PROVE RouteInv'
    <3> SUFFICES ASSUME NEW g \in Fd, NEW r \in Request, On(g, r)', Kind(r) \in Api
                 PROVE  at'[g] = r[1]
      BY DEF RouteInv
    <3>1. at[g] = r[1]
      BY <1>0, <1>1 DEF RouteInv, Moves
    <3>2. r[1] # 0
      BY RequestParts
    <3> QED BY <1>0, <2>2, <3>1, <3>2
  <2> QED BY <1>2, <2>1, <2>2
<1>4. CASE CloseFd
  <2>1. PICK f : f = thread["listen"].fd
    OBVIOUS
  <2>2. thread["listen"].pc = "busy" /\ f \in Fd /\ at' = [at EXCEPT ![f] = 0]
    BY <1>0, <1>4, <2>1, CloseFdIs
  <2>3. at[f] # 0 /\ left[at[f]]
    BY <1>0, <2>1, <2>2 DEF ListenInv, Doomed, Working, Hup
  <2>4. \A g \in Fd, r \in Request : On(g, r)' <=> On(g, r)
    BY <1>0, <1>4, CloseQuiet, QuietFlow
  <2>5. ASSUME NEW g \in Fd, NEW r \in Request, On(g, r)', Kind(r) \in Api
        PROVE  at'[g] = r[1]
    <3>1. On(g, r)
      BY <2>4, <2>5
    <3>2. g # f
      BY <1>0, <2>2, <2>3, <2>5, <3>1, GoneIsQuiet
    <3>3. at[g] = r[1]
      BY <1>0, <2>5, <3>1 DEF RouteInv
    <3> QED BY <1>0, <2>2, <3>2, <3>3
  <2> QED BY <2>5 DEF RouteInv
<1> QED BY <1>2, <1>3, <1>4, AtStep

(* Only the send thread gives a client something. *)
LEMMA GotStep == ASSUME [Next]_vars PROVE got' = got \/ SendNow
BY DEF Next, Main, Clients, ListenThread, SendThread, RecvThread, Worker, Socket, Bind,
        Listen, CloseSocket, LastWait, Interrupted, Closing,
        ThreadEnd, Joined, Connect, ClientSend, Leave, EpollWait,
        Accept, Erase, CloseFd, PopFront, Recv, AddTask, StartTask, OnTaskProcessor, vars,
        clientVars

LEMMA OwnStep == ASSUME TypeInv, RouteInv, OwnInv, [Next]_vars PROVE OwnInv'
<1>1. CASE got' = got
  BY <1>1 DEF OwnInv, InGot
<1>2. CASE SendNow
  <2>1. PICK c, h, taken :
          /\ c = at[thread["send"].fd] /\ h = thread["send"].data[1] /\ h \in Request
          /\ c \in Client \cup {0} /\ taken \in BOOLEAN
          /\ got' = IF taken /\ c # 0 /\ ~left[c] /\ Kind(h) \in Api
                    THEN [got EXCEPT ![c] = Append(got[c], h)] ELSE got
    BY <1>2, SendIs
  <2>2. PICK f : f = thread["send"].fd
    OBVIOUS
  <2>3. f \in Fd /\ On(f, h)
    BY <1>2, <2>1, <2>2, SendIs DEF Thread, TypeInv, ThreadT, On, InSend, Working
  <2>4. CASE taken /\ c # 0 /\ ~left[c] /\ Kind(h) \in Api
    <3>1. PICK q : q = got[c]
      OBVIOUS
    <3>2. c \in Client /\ q \in Seq(Request)
      BY <2>1, <2>4, <3>1 DEF TypeInv, ClientT
    <3>3. got'[c] = Append(q, h) /\ \A d \in Client : d # c => got'[d] = got[d]
      BY <2>1, <2>4, <3>1, <3>2 DEF TypeInv, ClientT
    <3>4. \A r : Has(Append(q, h), r) <=> Has(q, r) \/ r = h
      BY <2>1, <3>2, HasAppend
    <3>5. \A d \in Client, r \in Request : InGot(d, r)' => InGot(d, r) \/ (r = h /\ d = c)
      BY <3>1, <3>3, <3>4 DEF InGot
    <3>6. h[1] = c
      BY <2>1, <2>2, <2>3, <2>4 DEF RouteInv
    <3> QED BY <3>5, <3>6 DEF OwnInv
  <2> QED BY <1>1, <2>1, <2>4
<1> QED BY <1>1, <1>2, GotStep

(* Left, reset, connected. *)
LEMMA GoneFrame ==
    ASSUME GoneInv, UNCHANGED <<conn, left, reset, sent, got, at>>
    PROVE  GoneInv'
<1>1. \A c \in Client : Served(c)' <=> Served(c)
  BY DEF Served
<1> QED BY <1>1 DEF GoneInv, LeftInv, ResetInv, ConnInv

LEMMA ClientGone ==
    ASSUME Patient, TypeInv, GoneInv, NEW c \in Client,
           (\E socket \in {-1, 1} : Connect(c, socket)) \/ ClientSend(c) \/ Leave(c)
    PROVE  GoneInv'
<1>0. /\ conn \in [Client -> {"new", "queued", "accepted", "refused"}]
      /\ left \in [Client -> BOOLEAN] /\ reset \in [Client -> BOOLEAN]
      /\ sent \in [Client -> Nat]
  BY DEF TypeInv, ClientT
<1>1. ~left[c] /\ ~reset[c]
  BY DEF Connect, ClientSend, Leave, GoneInv, ResetInv
<1>2. ASSUME NEW socket \in {-1, 1}, Connect(c, socket) PROVE GoneInv'
  <2>1. /\ conn[c] = "new" /\ UNCHANGED <<reset, sent, got, at>>
        /\ \E ret \in ConnectResult(socket) :
             /\ conn' = [conn EXCEPT ![c] = IF ret = 0 THEN "queued" ELSE conn[c]]
             /\ left' = [left EXCEPT ![c] = (ret = -1)]
    BY <1>2 DEF Connect
  <2>2. /\ \A d \in Client : d # c => conn'[d] = conn[d] /\ left'[d] = left[d]
        /\ (conn'[c] = "queued" /\ ~left'[c]) \/ conn'[c] = "new"
    <3>1. PICK ret :
            /\ conn' = [conn EXCEPT ![c] = IF ret = 0 THEN "queued" ELSE conn[c]]
            /\ left' = [left EXCEPT ![c] = (ret = -1)]
      BY <2>1
    <3>2. \A d \in Client : d # c => conn'[d] = conn[d] /\ left'[d] = left[d]
      BY <1>0, <3>1
    <3>3. conn'[c] = (IF ret = 0 THEN "queued" ELSE "new")
      BY <1>0, <2>1, <3>1
    <3>4. left'[c] = (ret = -1)
      BY <1>0, <3>1, Zenon
    <3>5. ret = 0 => ret # -1
      OBVIOUS
    <3> QED BY <3>2, <3>3, <3>4, <3>5
  <2>3. \A d \in Client : Served(d)' <=> Served(d)
    BY <2>1 DEF Served
  <2>4. LeftInv'
    BY <2>2, <2>3 DEF GoneInv, LeftInv
  <2>5. ResetInv'
    BY <1>1, <2>1, <2>2, <2>3 DEF GoneInv, ResetInv
  <2>6. ConnInv'
    BY <2>1, <2>2 DEF GoneInv, ConnInv, TypeInv, DataT
  <2> QED BY <2>4, <2>5, <2>6 DEF GoneInv
<1>3. CASE ClientSend(c)
  <2>1. UNCHANGED <<conn, left, reset, got, at>> /\ \A d \in Client : d # c => sent'[d] = sent[d]
    BY <1>0, <1>3 DEF ClientSend
  <2>2. \A d \in Client : d # c => (Served(d)' <=> Served(d))
    BY <2>1 DEF Served
  <2> QED BY <1>1, <2>1, <2>2 DEF GoneInv, LeftInv, ResetInv, ConnInv
<1>4. CASE Leave(c)
  <2>1. /\ UNCHANGED <<conn, sent, got, at>> /\ left' = [left EXCEPT ![c] = TRUE]
        /\ \E rst \in {FALSE} \cup (IF Served(c) THEN {} ELSE {TRUE}) :
             reset' = [reset EXCEPT ![c] = rst]
        /\ Served(c) \/ conn[c] = "refused"
    BY <1>4 DEF Leave
  <2>2. \A d \in Client : Served(d)' <=> Served(d)
    BY <2>1 DEF Served
  <2>3. /\ \A d \in Client : d # c => left'[d] = left[d] /\ reset'[d] = reset[d]
        /\ left'[c] /\ (reset'[c] => ~Served(c))
    BY <1>0, <2>1
  <2>4. LeftInv'
    BY <2>1, <2>2, <2>3 DEF GoneInv, LeftInv
  <2>5. ResetInv'
    BY <2>2, <2>3 DEF GoneInv, ResetInv
  <2>6. ConnInv'
    BY <2>1 DEF GoneInv, ConnInv
  <2> QED BY <2>4, <2>5, <2>6 DEF GoneInv
<1> QED BY <1>2, <1>3, <1>4

LEMMA AcceptGone == ASSUME TypeInv, GoneInv, NEW c \in Queued, Accept(c) PROVE GoneInv'
<1>1. /\ c \in Client /\ conn[c] = "queued"
      /\ \/ UNCHANGED <<conn, at>>
         \/ /\ conn' = [conn EXCEPT ![c] = "refused"] /\ UNCHANGED at /\ main = "sleep"
         \/ /\ conn' = [conn EXCEPT ![c] = "accepted"] /\ main = "sleep"
            /\ \E f \in Fd : at[f] = 0 /\ at' = [at EXCEPT ![f] = c]
      /\ UNCHANGED <<left, reset, sent, got>>
  BY AcceptIs
<1>2. \A d \in Client : Served(d)' <=> Served(d)
  BY <1>1 DEF Served
<1>3. conn \in [Client -> {"new", "queued", "accepted", "refused"}] /\ at \in [Fd -> Client \cup {0}]
  BY DEF TypeInv, ClientT, DataT
<1>4. \A d \in Client : conn'[d] \in {"queued", "accepted"} => conn[d] \in {"queued", "accepted"}
  BY <1>1, <1>3
<1>5. LeftInv' /\ ResetInv'
  BY <1>1, <1>2, <1>4 DEF GoneInv, LeftInv, ResetInv
<1>6. ConnInv'
  <2>1. \A f \in Fd : at[f] # c
    BY <1>1, ServerAssumption DEF GoneInv, ConnInv
  <2>2. \A d \in Client : d # c => conn'[d] = conn[d]
    BY <1>1, <1>3
  <2>3. CASE UNCHANGED at
    BY <1>3, <2>1, <2>2, <2>3 DEF GoneInv, ConnInv
  <2>4. ASSUME NEW f \in Fd, at' = [at EXCEPT ![f] = c], conn' = [conn EXCEPT ![c] = "accepted"]
        PROVE  ConnInv'
    BY <1>1, <1>3, <2>1, <2>2, <2>4 DEF GoneInv, ConnInv
  <2> QED BY <1>1, <2>3, <2>4
<1> QED BY <1>5, <1>6 DEF GoneInv

LEMMA SendGone == ASSUME TypeInv, FlowInv, RouteInv, OwnInv, GoneInv, SendNow PROVE GoneInv'
<1>1. PICK c, r, taken :
        /\ c = at[thread["send"].fd] /\ r = thread["send"].data[1] /\ r \in Request
        /\ c \in Client \cup {0} /\ taken \in BOOLEAN
        /\ got' = IF taken /\ c # 0 /\ ~left[c] /\ Kind(r) \in Api
                  THEN [got EXCEPT ![c] = Append(got[c], r)] ELSE got
        /\ reset' = IF c # 0 /\ left[c] /\ Kind(r) \in Api
                    THEN [reset EXCEPT ![c] = TRUE] ELSE reset
  BY SendIs
<1>2. thread["send"].pc = "busy" /\ UNCHANGED <<conn, left, sent, at>>
  BY SendIs
<1>3. PICK f : f = thread["send"].fd
  OBVIOUS
<1>4. f \in Fd /\ On(f, r)
  BY <1>1, <1>2, <1>3 DEF Thread, TypeInv, ThreadT, On, InSend, Working
<1>5. ~(c # 0 /\ left[c] /\ Kind(r) \in Api)
  BY <1>1, <1>3, <1>4, GoneIsQuiet
<1>6. reset' = reset
  BY <1>1, <1>5
<1>7. \A d \in Client : left[d] => got'[d] = got[d]
  BY <1>1 DEF TypeInv, ClientT
<1>8. \A d \in Client : left[d] => (Served(d)' <=> Served(d))
  BY <1>2, <1>7 DEF Served
<1> QED BY <1>2, <1>6, <1>8 DEF GoneInv, LeftInv, ResetInv, ConnInv

LEMMA CloseGone == ASSUME TypeInv, GoneInv, CloseFd PROVE GoneInv'
<1>1. /\ thread["listen"].fd \in Fd /\ at' = [at EXCEPT ![thread["listen"].fd] = 0]
      /\ UNCHANGED <<startVars, clientVars, recvd, m_sendDataList, poolVars>>
  BY CloseFdIs
<1>2. UNCHANGED <<conn, left, reset, sent, got>>
  BY <1>1 DEF clientVars
<1>3. \A c \in Client : Served(c)' <=> Served(c)
  BY <1>2 DEF Served
<1>4. LeftInv' /\ ResetInv'
  BY <1>2, <1>3 DEF GoneInv, LeftInv, ResetInv
<1>5. \A f \in Fd : at'[f] # 0 => at'[f] = at[f]
  BY <1>1 DEF TypeInv, DataT
<1>6. ConnInv'
  BY <1>2, <1>5 DEF GoneInv, ConnInv
<1> QED BY <1>4, <1>6 DEF GoneInv

LEMMA GoneStep == ASSUME Patient, PatientInv, [Next]_vars PROVE GoneInv'
<1>0. TypeInv /\ FlowInv /\ RouteInv /\ OwnInv /\ GoneInv
  BY DEF PatientInv
<1>1. CASE Clients
  BY <1>0, <1>1, ClientGone DEF Clients
<1>2. ASSUME NEW c \in Queued, Accept(c) PROVE GoneInv'
  BY <1>0, <1>2, AcceptGone
<1>3. CASE SendNow
  BY <1>0, <1>3, SendGone
<1>4. CASE CloseFd
  BY <1>0, <1>4, CloseGone
<1>5. UNCHANGED <<conn, left, reset, sent, got, at>> => GoneInv'
  BY <1>0, GoneFrame
<1> QED BY <1>1, <1>2, <1>3, <1>4, <1>5 DEF Next, Main, ListenThread, SendThread, RecvThread,
        Worker, Socket, Bind, Listen, CloseSocket, LastWait, Interrupted, Closing,
        ThreadEnd, Joined, EpollWait,
        Erase, PopFront, Recv, AddTask, StartTask, OnTaskProcessor, vars, clientVars

(* Once an error is reported for a descriptor it stays. *)
LEMMA HupStep ==
    ASSUME TypeInv, [Next]_vars, NEW f \in Fd, Hup(f), at'[f] = at[f]
    PROVE  Hup(f)'
<1>1. PICK c : c = at[f]
  OBVIOUS
<1>2. c \in Client /\ c # 0 /\ left[c] /\ (family = "unix" \/ reset[c])
  BY <1>1 DEF Hup, TypeInv, DataT
<1>3. left \in [Client -> BOOLEAN] /\ reset \in [Client -> BOOLEAN]
  BY DEF TypeInv, ClientT
<1>4. family' = family
  BY DEF Next, Main, Clients, ListenThread, SendThread, RecvThread, Worker, Socket, Bind,
        Listen, CloseSocket, LastWait, Interrupted, Closing,
        ThreadEnd, Joined, Connect, ClientSend, Leave, EpollWait,
        Accept, Erase, CloseFd, PopFront, SendNow, Recv, AddTask, StartTask, OnTaskProcessor,
        startVars, vars
<1>5. left'[c] /\ (reset[c] => reset'[c])
  <2>1. ASSUME NEW d \in Client,
               (\E socket \in {-1, 1} : Connect(d, socket)) \/ ClientSend(d) \/ Leave(d)
        PROVE  left'[c] /\ (reset[c] => reset'[c])
    <3>1. ~left[d]
      BY <2>1 DEF Connect, ClientSend, Leave
    <3>2. d # c
      BY <1>2, <3>1
    <3> QED BY <1>2, <1>3, <2>1, <3>2 DEF Connect, ClientSend, Leave
  <2>2. CASE SendNow
    <3>1. UNCHANGED left
      BY <2>2 DEF SendNow
    <3>2. reset' = reset \/ \E d \in Client : reset' = [reset EXCEPT ![d] = TRUE]
      <4>1. PICK d, r, taken :
              /\ d \in Client \cup {0}
              /\ reset' = IF d # 0 /\ left[d] /\ Kind(r) \in Api
                          THEN [reset EXCEPT ![d] = TRUE] ELSE reset
        BY <2>2, SendIs
      <4> QED BY <4>1
    <3> QED BY <1>2, <1>3, <3>1, <3>2
  <2>3. UNCHANGED <<left, reset>> => left'[c] /\ (reset[c] => reset'[c])
    BY <1>2
  <2> QED BY <2>1, <2>2, <2>3 DEF Next, Main, Clients, ListenThread, SendThread, RecvThread,
        Worker, Socket, Bind, Listen, CloseSocket, LastWait, Interrupted, Closing,
        ThreadEnd, Joined, EpollWait,
        Accept, Erase, CloseFd, PopFront, Recv, AddTask, StartTask, OnTaskProcessor, vars, clientVars
<1> QED BY <1>1, <1>2, <1>4, <1>5 DEF Hup

(* The listen thread asks for errors only. *)
LEMMA ReadyIsHup == ASSUME TypeInv PROVE \A f \in Fd : f \in Ready("listen") => Hup(f)
<1>1. \A f \in Fd : f # m_socket
  BY ServerAssumption DEF TypeInv, StartT, SocketResult
<1> QED BY <1>1 DEF Ready

LEMMA ListenStep == ASSUME PatientInv, [Next]_vars PROVE ListenInv'
<1>0. TypeInv /\ ListenInv /\ "listen" \in Thread /\ at \in [Fd -> Client \cup {0}]
  BY DEF PatientInv, TypeInv, DataT, Thread
<1>1. ASSUME NEW pc, NEW events, NEW fd, NEW data, Becomes("listen", pc, events, fd, data)
      PROVE  \A f \in Fd : /\ Doomed(f)' <=> f \in events \/ (pc = "busy" /\ fd = f)
                           /\ Working("listen", f)' <=> pc = "busy" /\ fd = f
  BY <1>1 DEF Becomes, Doomed, Working
<1>2. \A f \in Fd : Hup(f) /\ at'[f] = at[f] => Hup(f)'
  BY <1>0, HupStep
<1>3. thread'["listen"] = thread["listen"] /\ at' = at => ListenInv'
  BY <1>0, <1>2 DEF ListenInv, Doomed, Working
<1>4. thread'["listen"].events = {} /\ thread'["listen"].pc # "busy" => ListenInv'
  BY DEF ListenInv, Doomed, Working
<1>5. CASE Main
  <2>1. at' = at
    BY <1>5 DEF Main, Socket, Bind, Listen, CloseSocket, LastWait, Interrupted, Closing,
        ThreadEnd, Joined
  <2>2. CASE thread' = [t \in Thread |-> Idle]
    BY <1>0, <1>4, <2>2, IdleIs
  <2>3. ASSUME NEW inside \in SUBSET {t \in Thread : thread[t] = Idle}, CloseSocket(inside)
        PROVE  ListenInv'
    <3>1. \/ thread'["listen"] = thread["listen"]
          \/ thread'["listen"].pc = "inside" /\ thread'["listen"].events = {}
      BY <1>0, <2>3, CloseSocketIs
    <3> QED BY <1>3, <1>4, <2>1, <3>1
  <2>4. ASSUME NEW t \in Thread, LastWait(t) PROVE ListenInv'
    <3>1. Becomes(t, "epoll", Ready(t) \cap Fd, 0, <<>>)
      BY <1>0, <2>4, LastWaitIs
    <3>2. CASE t # "listen"
      BY <1>0, <1>3, <2>1, <3>1, <3>2 DEF Becomes
    <3>3. CASE t = "listen"
      <4>1. \A f \in Fd : f \in Ready("listen") => Hup(f)'
        BY <1>0, <1>2, <2>1, ReadyIsHup
      <4>2. \A f \in Fd : (Doomed(f)' <=> f \in Ready("listen")) /\ ~Working("listen", f)'
        BY <3>1, <3>3, <1>1
      <4> QED BY <4>1, <4>2 DEF ListenInv
    <3> QED BY <3>2, <3>3
  <2>5. ASSUME NEW t \in Thread, ThreadEnd(t) PROVE ListenInv'
    <3>1. Becomes(t, "ended", {}, 0, <<>>)
      BY <1>0, <2>5, EndIs
    <3>2. CASE t # "listen"
      BY <1>0, <1>3, <2>1, <3>1, <3>2 DEF Becomes
    <3>3. CASE t = "listen"
      BY <1>4, <3>1, <3>3 DEF Becomes
    <3> QED BY <3>2, <3>3
  <2>6. CASE thread' = thread
    BY <1>3, <2>1, <2>6
  <2>7. ASSUME NEW t \in Thread, Interrupted(t) PROVE ListenInv'
    <3>1. Becomes(t, "interrupted", {}, 0, <<>>)
      BY <1>0, <2>7, InterruptIs
    <3>2. CASE t # "listen"
      BY <1>0, <1>3, <2>1, <3>1, <3>2 DEF Becomes
    <3>3. CASE t = "listen"
      BY <1>4, <3>1, <3>3 DEF Becomes
    <3> QED BY <3>2, <3>3
  <2> QED BY <1>5, <2>2, <2>3, <2>4, <2>5, <2>6, <2>7 DEF Main, Closing, Socket, Bind, Listen, Joined
<1>6. CASE EpollWait("listen")
  <2>1. /\ Becomes("listen", "epoll", Ready("listen"), 0, <<>>) /\ main = "sleep"
        /\ at' = at
    BY <1>0, <1>6, WaitIs
  <2>2. \A f \in Fd : f \in Ready("listen") => Hup(f)
    BY <1>0, ReadyIsHup
  <2>3. \A f \in Fd : (Doomed(f)' <=> f \in Ready("listen")) /\ ~Working("listen", f)'
    BY <1>1, <2>1
  <2> QED BY <1>2, <2>1, <2>2, <2>3 DEF ListenInv
<1>7. ASSUME NEW c \in Queued, Accept(c) PROVE ListenInv'
  <2>1. /\ thread["listen"].pc = "epoll"
        /\ Becomes("listen", "epoll", thread["listen"].events \ {m_socket},
                   thread["listen"].fd, thread["listen"].data)
        /\ at' = at \/ \E f \in Fd : at[f] = 0 /\ at' = [at EXCEPT ![f] = c]
    BY <1>0, <1>7, AcceptIs
  <2>2. \A f \in Fd : at[f] # 0 => at'[f] = at[f]
    BY <1>0, <2>1
  <2>3. \A f \in Fd : (Doomed(f)' => f \in thread["listen"].events) /\ ~Working("listen", f)'
    BY <1>1, <2>1
  <2>4. \A f \in Fd : Hup(f) => at[f] # 0
    BY DEF Hup
  <2> QED BY <1>0, <1>2, <2>2, <2>3, <2>4 DEF ListenInv, Doomed
<1>8. ASSUME NEW f \in Fd, Erase(f) PROVE ListenInv'
  <2>1. /\ f \in thread["listen"].events /\ at' = at
        /\ Becomes("listen", "busy", thread["listen"].events \ {f}, f, <<>>)
    BY <1>0, <1>8, EraseIs
  <2>2. \A g \in Fd : /\ Doomed(g)' => g \in thread["listen"].events
                      /\ Working("listen", g)' => g = f
    BY <1>1, <2>1
  <2>3. thread'["listen"].events = thread["listen"].events \ {f}
    BY <2>1 DEF Becomes
  <2> QED BY <1>0, <1>2, <2>1, <2>2, <2>3 DEF ListenInv, Doomed
<1>9. CASE CloseFd
  <2>1. PICK f : f = thread["listen"].fd
    OBVIOUS
  <2>2. /\ f \in Fd /\ Working("listen", f) /\ at' = [at EXCEPT ![f] = 0]
        /\ Becomes("listen", "epoll", thread["listen"].events, 0, <<>>)
    BY <1>0, <1>9, <2>1, CloseFdIs DEF Working
  <2>3. f \notin thread["listen"].events
    BY <1>0, <2>2 DEF ListenInv
  <2>4. \A g \in Fd : g # f => at'[g] = at[g]
    BY <1>0, <2>2
  <2>5. \A g \in Fd : (Doomed(g)' <=> g \in thread["listen"].events) /\ ~Working("listen", g)'
    BY <1>1, <2>2
  <2> QED BY <1>0, <1>2, <2>3, <2>4, <2>5 DEF ListenInv, Doomed
<1>10. CASE Clients \/ Worker \/ UNCHANGED vars
  <2>1. thread' = thread /\ at' = at
    BY <1>10 DEF Clients, Connect, ClientSend, Leave, Worker, StartTask, OnTaskProcessor, vars
  <2> QED BY <1>3, <2>1
<1>11. CASE SendThread \/ RecvThread
  <2>1. "send" \in Thread /\ "recv" \in Thread /\ "send" # "listen" /\ "recv" # "listen"
    BY DEF Thread
  <2>2. CASE SendThread
    <3>1. at' = at /\ \A u \in Thread : u # "send" => thread'[u] = thread[u]
      BY <1>0, <2>1, <2>2, WaitIs, PopIs, SendIs DEF SendThread, Becomes
    <3> QED BY <1>0, <1>3, <2>1, <3>1
  <2>3. CASE RecvThread
    <3>1. at' = at /\ \A u \in Thread : u # "recv" => thread'[u] = thread[u]
      BY <1>0, <2>1, <2>3, WaitIs, RecvIs, AddIs DEF RecvThread, Becomes
    <3> QED BY <1>0, <1>3, <2>1, <3>1
  <2> QED BY <1>11, <2>2, <2>3
<1> QED BY <1>5, <1>6, <1>7, <1>8, <1>9, <1>10, <1>11 DEF Next, ListenThread

LEMMA PatientInit == Init => PatientInv
<1> SUFFICES ASSUME Init PROVE PatientInv
  OBVIOUS
<1>1. TypeInv
  BY TypeInit
<1>2. thread = [t \in Thread |-> [Idle EXCEPT !.pc = "off"]]
  BY DEF Init
<1>3. \A t \in Thread : thread[t].pc = "off" /\ thread[t].events = {}
  <2> DEFINE r == [Idle EXCEPT !.pc = "off"]
  <2>1. r.pc = "off" /\ r.events = {}
    BY IdleIs DEF Idle
  <2> HIDE DEF r
  <2>2. thread = [t \in Thread |-> r]
    BY <1>2 DEF r
  <2> QED BY <2>1, <2>2
<1>4. "listen" \in Thread /\ "send" \in Thread /\ "recv" \in Thread
  BY DEF Thread
<1>5. \A t \in Thread, f \in Fd : ~Working(t, f)
  BY <1>3 DEF Working
<1>6. \A k \in Nat, f \in Fd, r \in Request : ~Task(k, f, r)
  <2>1. Len(job) = 0
    BY DEF Init
  <2> QED BY <2>1 DEF Task
<1>7. /\ \A f \in Fd : m_sendDataList[f] = <<>>
      /\ \A c \in Client : got[c] = <<>> /\ ~left[c] /\ ~reset[c]
      /\ \A f \in Fd : at[f] = 0
  BY DEF Init
<1>8. \A f \in Fd, r \in Request : ~InHand(f, r) /\ ~InPool(f, r) /\ ~InList(f, r) /\ ~InSend(f, r)
  BY <1>4, <1>5, <1>6, <1>7, HasEmpty DEF InHand, InPool, InList, InSend
<1>9. \A c \in Client, r \in Request : ~InGot(c, r)
  BY <1>7, HasEmpty DEF InGot
<1>10. \A r \in Request : ~Pooled(r)
  BY <1>6 DEF Pooled
<1>11. FlowInv
  <2>1. HandInv
    BY <1>3, <1>4, <1>8 DEF HandInv
  <2>2. JobInv
    BY <1>6, <1>10 DEF JobInv
  <2>3. ListInv
    BY <1>7, <1>8, HasEmpty DEF ListInv
  <2>4. SendInv
    BY <1>8 DEF SendInv
  <2>5. GotInv
    BY <1>7, <1>9, HasEmpty DEF GotInv
  <2> QED BY <2>1, <2>2, <2>3, <2>4, <2>5 DEF FlowInv
<1>12. RouteInv /\ OwnInv
  BY <1>8, <1>9 DEF RouteInv, OwnInv, On
<1>13. GoneInv
  BY <1>7 DEF GoneInv, LeftInv, ResetInv, ConnInv
<1>14. ListenInv
  BY <1>3, <1>4, <1>5 DEF ListenInv, Doomed
<1>15. OffInv
  BY <1>3 DEF OffInv
<1> QED BY <1>1, <1>11, <1>12, <1>13, <1>14, <1>15 DEF PatientInv

LEMMA PatientStep == ASSUME Patient, PatientInv, [Next]_vars PROVE PatientInv'
<1>1. TypeInv'
  BY TypeStep DEF PatientInv
<1>2. OffInv'
  BY OffStep DEF PatientInv
<1>3. FlowInv' /\ OwnInv'
  BY FlowStep, OwnStep DEF PatientInv
<1>4. RouteInv' /\ GoneInv' /\ ListenInv'
  BY RouteStep, GoneStep, ListenStep
<1> QED BY <1>1, <1>2, <1>3, <1>4 DEF PatientInv

LEMMA PatientAlways == ASSUME Patient PROVE Safe => []PatientInv
<1>1. PatientInv /\ [Next]_vars => PatientInv'
  BY PatientStep
<1> QED BY <1>1, PatientInit, PTL DEF Safe

(* Whatever the clients do, no request is answered twice, to one client or  *)
(* to two, and none before recv has returned it: each thread hands a        *)
(* request on without keeping it, and the list of a descriptor is erased    *)
(* but never copied.                                                        *)
THEOREM AnswersOnce == Safe => []AnsweredOnce
<1>1. TypeInv /\ OffInv /\ FlowInv /\ [Next]_vars => TypeInv' /\ OffInv' /\ FlowInv'
  BY TypeStep, OffStep, FlowStep
<1>2. Init => TypeInv /\ OffInv /\ FlowInv
  BY PatientInit DEF PatientInv
<1>3. ASSUME TypeInv, FlowInv PROVE AnsweredOnce
  <2> SUFFICES ASSUME NEW c \in Client, NEW d \in Client,
                      NEW i \in 1..Len(got[c]), NEW j \in 1..Len(got[d])
               PROVE  /\ got[c][i] = got[d][j] => c = d /\ i = j
                      /\ got[c][i][2] <= recvd[got[c][i][1]]
    BY DEF AnsweredOnce
  <2>1. PICK r : r = got[c][i]
    OBVIOUS
  <2>2. r \in Request
    <3>1. got[c] \in Seq(Request)
      BY <1>3 DEF TypeInv, ClientT
    <3> QED BY <2>1, <3>1, ElementOfSeq
  <2>3. InGot(c, r) /\ (got[d][j] = r => InGot(d, r))
    BY <2>1 DEF InGot, Has
  <2>4. Handed(r) /\ (got[d][j] = r => d = c)
    BY <1>3, <2>2, <2>3 DEF FlowInv, GotInv
  <2>5. Distinct(got[c])
    BY <1>3 DEF FlowInv, GotInv
  <2>6. got[d][j] = r => c = d /\ i = j
    BY <2>1, <2>4, <2>5 DEF Distinct
  <2>7. Pooled(r)
    BY <2>4 DEF Handed, Pooled
  <2>8. r[2] <= recvd[r[1]]
    BY <1>3, <2>2, <2>7 DEF FlowInv, JobInv, Taken
  <2> QED BY <2>1, <2>6, <2>8
<1>4. TypeInv /\ OffInv /\ FlowInv => AnsweredOnce
  BY <1>3
<1> QED BY <1>1, <1>2, <1>4, PTL DEF Safe

(* When clients stay for their answers, every response goes to the client  *)
(* that made the request: although the pool, the lists and the send thread *)
(* know a descriptor number only, the connection behind it cannot change   *)
(* while an API call is on its way.  Clients that leave early break this   *)
(* (run server_reuse).                                                     *)
THEOREM ResponsesCorrect == Patient => (Safe => []RightClient)
<1> SUFFICES ASSUME Patient PROVE Safe => []RightClient
  OBVIOUS
<1>1. ASSUME PatientInv PROVE RightClient
  <2> SUFFICES ASSUME NEW c \in Client, NEW i \in 1..Len(got[c]) PROVE got[c][i][1] = c
    BY DEF RightClient
  <2>1. got[c] \in Seq(Request)
    BY <1>1 DEF PatientInv, TypeInv, ClientT
  <2>2. got[c][i] \in Request
    BY <2>1, ElementOfSeq
  <2>3. InGot(c, got[c][i])
    BY DEF InGot, Has
  <2> QED BY <1>1, <2>2, <2>3 DEF PatientInv, OwnInv
<1>2. PatientInv => RightClient
  BY <1>1
<1> QED BY <1>2, PatientAlways, PTL

(* When clients stay for their answers, a TCP connection whose client has  *)
(* left is never closed: it is not reset, so nothing ever tells the listen *)
(* thread about it, and the descriptor is lost.                            *)
THEOREM TcpLeaks == Patient => (Safe => TcpNeverClosed)
<1> SUFFICES ASSUME Patient PROVE Safe => TcpNeverClosed
  OBVIOUS
<1>1. ASSUME PatientInv, [Next]_vars, NEW f \in Fd,
             family # "unix", at[f] # 0, left[at[f]], Served(at[f])
      PROVE  at'[f] = at[f]
  <2>0. TypeInv /\ GoneInv /\ ListenInv /\ at \in [Fd -> Client \cup {0}]
    BY <1>1 DEF PatientInv, TypeInv, DataT
  <2>1. ~Hup(f)
    BY <1>1, <2>0, GoneIsServed DEF Hup
  <2>2. CASE CloseFd
    <3>1. /\ thread["listen"].pc = "busy" /\ thread["listen"].fd \in Fd
          /\ at' = [at EXCEPT ![thread["listen"].fd] = 0]
      BY <2>0, <2>2, CloseFdIs
    <3>2. thread["listen"].fd # f
      BY <2>0, <2>1, <3>1 DEF ListenInv, Doomed, Working
    <3> QED BY <2>0, <3>1, <3>2
  <2>3. ASSUME NEW c \in Queued, Accept(c) PROVE at'[f] = at[f]
    <3>1. at' = at \/ \E g \in Fd : at[g] = 0 /\ at' = [at EXCEPT ![g] = c]
      BY <2>0, <2>3, AcceptIs
    <3> QED BY <1>1, <2>0, <3>1
  <2> QED BY <1>1, <2>2, <2>3, AtStep
<1>2. PatientInv /\ [Next]_vars =>
        \A f \in Fd : family # "unix" /\ at[f] # 0 /\ left[at[f]] /\ Served(at[f])
                      => at'[f] = at[f]
  BY <1>1
<1> QED BY <1>2, PatientAlways, PTL DEF Safe, TcpNeverClosed
===============================================================================
