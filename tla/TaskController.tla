----------------------------- MODULE TaskController -----------------------------
(***************************************************************************)
(* How taskController (server/taskController.cpp) cuts the byte streams of *)
(* the clients into requests: onRecv and makeNewTask, called by the        *)
(* socket's receive thread with what one recv returned.                    *)
(*                                                                         *)
(* What a client sends on a connection is a constant: its bytes and where  *)
(* its requests end.  A byte has Base values instead of 256, an unsigned   *)
(* int still has four bytes, lowest first.  makeNewTask calls itself last  *)
(* with the rest of the chunk: each call is one step, and chunk is its     *)
(* argument.  A byte in a task is <<connection, position in its stream>>.  *)
(***************************************************************************)
EXTENDS Integers, Sequences

CONSTANTS
    Fd,             \* descriptors that accept may return (positive)
    Stream,         \* Stream[c]: the bytes connection c sends
    End,            \* End[c][k]: position of the last byte of its k-th request
    Base,           \* values of a byte (256)
    BufLen,         \* SOCKET_RECV_BUFFER_LEN
    SplitHeader,    \* may a recv return end inside the four bytes of a length?
    MidClose,       \* may a client go away in the middle of a request?
    MaxTasks        \* bound: tasks made from one connection

Conn      == 1..Len(Stream)
Byte      == 0..(Base - 1)
HeaderLen == 4                           \* sizeof(unsigned int)
UintMod   == Base * Base * Base * Base   \* 2^32

Start(c, k)    == IF k = 1 THEN 0 ELSE End[c][k - 1]
FrameLen(c, k) == End[c][k] - Start(c, k)

(* The unsigned int that memcpy reads from four bytes. *)
Uint(b) == b[1] + Base * (b[2] + Base * (b[3] + Base * b[4]))

(* A request carries its own length in front (makeAPIRequest), and is not *)
(* within a receive buffer of the 4 GB an unsigned int can say.           *)
ASSUME StreamAssumption ==
    /\ Fd \subseteq Nat \ {0}
    /\ Base \in Nat /\ Base > 1
    /\ BufLen \in Nat /\ BufLen > 0
    /\ MaxTasks \in Nat
    /\ SplitHeader \in BOOLEAN /\ MidClose \in BOOLEAN
    /\ Stream \in Seq(Seq(Byte)) /\ End \in Seq(Seq(Nat)) /\ Len(End) = Len(Stream)
    /\ \A c \in Conn :
         /\ Start(c, Len(End[c]) + 1) = Len(Stream[c])
         /\ \A j, k \in 1..(Len(End[c]) + 1) : j < k => Start(c, j) + HeaderLen <= Start(c, k)
         /\ \A k \in 1..Len(End[c]) :
              /\ FrameLen(c, k) + BufLen <= UintMod
              /\ Uint([j \in 1..HeaderLen |-> Stream[c][Start(c, k) + j]]) = FrameLen(c, k)

VARIABLES
    fdOf,        \* the descriptor a connection was accepted on, 0 before
    open,        \* connections accepted and not closed
    pos,         \* bytes of each connection that recv has returned
    chunk,       \* makeNewTask's arguments; no call in progress if len is 0
    m_recvList,  \* the unfinished request of each descriptor; m_len 0 for none
    tasks,       \* history: what was handed to addTask from each connection
    terminated   \* an exception that nobody catches has ended the process

vars == <<fdOf, open, pos, chunk, m_recvList, tasks, terminated>>

NoData  == [m_len |-> 0, m_databuf |-> <<>>]
NoChunk == [fd |-> 0, conn |-> 0, from |-> 0, len |-> 0, off |-> 0]

Init ==
    /\ fdOf = [c \in Conn |-> 0]
    /\ open = {}
    /\ pos = [c \in Conn |-> 0]
    /\ chunk = NoChunk
    /\ m_recvList = [f \in Fd |-> NoData]
    /\ tasks = [c \in Conn |-> <<>>]
    /\ terminated = FALSE

(***************************************************************************)
(* The socket.                                                             *)
(***************************************************************************)
(* The kernel gives a new connection a descriptor that is not in use. *)
Accept(c, f) ==
    /\ fdOf[c] = 0
    /\ \A d \in open : fdOf[d] # f
    /\ fdOf' = [fdOf EXCEPT ![c] = f]
    /\ open' = open \cup {c}
    /\ UNCHANGED <<pos, chunk, m_recvList, tasks, terminated>>

(* The listen thread closes the descriptor; taskController is not told. *)
Close(c) ==
    /\ c \in open
    /\ MidClose \/ \E k \in 1..(Len(End[c]) + 1) : pos[c] = Start(c, k)
    /\ open' = open \ {c}
    /\ UNCHANGED <<fdOf, pos, chunk, m_recvList, tasks, terminated>>

CutsHeader(c, p) == \E k \in 1..Len(End[c]) : Start(c, k) < p /\ p < Start(c, k) + HeaderLen

(* recv returns the next n bytes and threadRecvFun calls onRecv. *)
Recv(c, n) ==
    /\ chunk.len = 0
    /\ c \in open
    /\ pos[c] + n <= Len(Stream[c])
    /\ SplitHeader \/ ~CutsHeader(c, pos[c] + n)
    /\ chunk' = [fd |-> fdOf[c], conn |-> c, from |-> pos[c], len |-> n, off |-> 0]
    /\ pos' = [pos EXCEPT ![c] = @ + n]
    /\ UNCHANGED <<fdOf, open, m_recvList, tasks, terminated>>

(***************************************************************************)
(* makeNewTask.                                                            *)
(***************************************************************************)
(* The first n bytes at buf. *)
Bytes(n) == [i \in 1..n |-> <<chunk.conn, chunk.from + i>>]

(* The four bytes at buf: the buffer is zeroed before each recv, and beyond *)
(* its end there may be anything.                                           *)
HeaderAt(junk) ==
    [j \in 1..HeaderLen |->
        IF j <= chunk.len THEN Stream[chunk.conn][chunk.from + j]
        ELSE IF chunk.off + j <= BufLen THEN 0 ELSE junk[j]]

(* The arguments of the last call: buf + n, len - n. *)
Rest_Same(n) == chunk
Rest(n) ==
    IF n = chunk.len THEN NoChunk
    ELSE [chunk EXCEPT !.from = @ + n, !.len = @ - n, !.off = @ + n]

AddTask(data) ==
    /\ Len(tasks[chunk.conn]) < MaxTasks
    /\ tasks' = [tasks EXCEPT ![chunk.conn] = Append(@, [client |-> chunk.fd, data |-> data])]

Merging == m_recvList[chunk.fd].m_len > 0

(* No unfinished request, and the chunk holds all of the next one. *)
WholeRequest ==
    /\ chunk.len > 0
    /\ ~Merging
    /\ \E junk \in [1..HeaderLen -> Byte] :
         LET totalLen == Uint(HeaderAt(junk)) IN
         /\ totalLen <= chunk.len
         /\ AddTask(Bytes(totalLen))
         /\ chunk' = Rest(totalLen)
    /\ UNCHANGED <<fdOf, open, pos, m_recvList, terminated>>

(* No unfinished request, and the chunk holds only the start of the next one. *)
FirstPart ==
    /\ chunk.len > 0
    /\ ~Merging
    /\ \E junk \in [1..HeaderLen -> Byte] :
         LET totalLen == Uint(HeaderAt(junk)) IN
         /\ totalLen > chunk.len
         /\ m_recvList' = [m_recvList EXCEPT
              ![chunk.fd] = [m_len |-> totalLen, m_databuf |-> Bytes(chunk.len)]]
    /\ chunk' = NoChunk
    /\ UNCHANGED <<fdOf, open, pos, tasks, terminated>>

(* len + m_curLen < m_len, in unsigned arithmetic. *)
StillPart_NoOffset(data) == chunk.len < data.m_len
StillPart(data) == (chunk.len + Len(data.m_databuf)) % UintMod < data.m_len

AppendPart ==
    LET data == m_recvList[chunk.fd] IN
    /\ chunk.len > 0
    /\ Merging
    /\ StillPart(data)
    /\ m_recvList' = [m_recvList EXCEPT ![chunk.fd].m_databuf = @ \o Bytes(chunk.len)]
    /\ chunk' = NoChunk
    /\ UNCHANGED <<fdOf, open, pos, tasks, terminated>>

(* m_recvList.erase(iter), once the task is made. *)
Erased_Kept(list) == list
Erased(list) == [list EXCEPT ![chunk.fd] = NoData]

LastPart ==
    LET data == m_recvList[chunk.fd]
        n    == data.m_len - Len(data.m_databuf)
    IN
    /\ chunk.len > 0
    /\ Merging
    /\ ~StillPart(data)
    /\ AddTask(data.m_databuf \o Bytes(n))
    /\ m_recvList' = Erased(m_recvList)
    /\ chunk' = Rest(n)
    /\ UNCHANGED <<fdOf, open, pos, terminated>>

MakeNewTask == ~terminated /\ (WholeRequest \/ FirstPart \/ AppendPart \/ LastPart)

(* All of these but AppendPart allocate.  new does not return NULL, it throws *)
(* bad_alloc, and the receive thread ends the process.                        *)
BadAlloc ==
    /\ chunk.len > 0
    /\ ~Merging \/ ~StillPart(m_recvList[chunk.fd])
    /\ terminated' = TRUE
    /\ UNCHANGED <<fdOf, open, pos, chunk, m_recvList, tasks>>

Next ==
    \/ /\ ~terminated
       /\ \/ \E c \in Conn, f \in Fd : Accept(c, f)
          \/ \E c \in Conn : Close(c)
          \/ \E c \in Conn, n \in 1..BufLen : Recv(c, n)
          \/ BadAlloc
    \/ MakeNewTask

Safe == Init /\ [][Next]_vars

(* The receive thread goes on with a call it has begun. *)
Spec == Safe /\ WF_vars(MakeNewTask)

(***************************************************************************)
(* Properties.                                                             *)
(***************************************************************************)
Data == Seq(Conn \X Nat)

TypeOK ==
    /\ fdOf \in [Conn -> Fd \cup {0}]
    /\ open \subseteq Conn
    /\ pos \in [Conn -> Nat]
    /\ chunk \in [fd : Fd \cup {0}, conn : Conn \cup {0}, from : Nat, len : 0..BufLen,
                  off : 0..BufLen]
    /\ m_recvList \in [Fd -> [m_len : 0..(UintMod - 1), m_databuf : Data]]
    /\ tasks \in [Conn -> Seq([client : Fd, data : Data])]
    /\ terminated \in BOOLEAN

Frame(c, k) == [i \in 1..FrameLen(c, k) |-> <<c, Start(c, k) + i>>]

(* "merge the buf which split while recviving because the recv buf"        *)
(* (taskController.cpp:128): however recv cuts and mixes the streams, the  *)
(* tasks made from a connection are its requests, each whole, in order and *)
(* to be answered on its own descriptor; and between two calls of onRecv   *)
(* no complete request is left behind.                                     *)
TasksAreRequests ==
    \A c \in Conn :
        /\ Len(tasks[c]) <= Len(End[c])
        /\ \A k \in 1..Len(tasks[c]) : tasks[c][k] = [client |-> fdOf[c], data |-> Frame(c, k)]
        /\ chunk.len = 0 => \A k \in 1..Len(End[c]) : End[c][k] <= pos[c] => k <= Len(tasks[c])

(* makeNewTask never writes past the end of the buffer it allocated for a  *)
(* request, and never reads more than recv returned: the two unsigned sums *)
(* of lengths that guard the copies do not wrap.                           *)
CopiesInBounds ==
    chunk.len > 0 /\ Merging =>
        LET data == m_recvList[chunk.fd]
            room == data.m_len - Len(data.m_databuf)
        IN  IF StillPart(data) THEN chunk.len <= room ELSE room <= chunk.len

(* onRecv returns, unless there is no memory: the calls of makeNewTask come *)
(* to an end.                                                              *)
OnRecvReturns == chunk.len > 0 ~> chunk.len = 0 \/ terminated
===============================================================================
