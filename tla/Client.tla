--------------------------------- MODULE Client ---------------------------------
(***************************************************************************)
(* The client program: clientMain.cpp's main and createClient, and         *)
(* socketClient::doConnect.  Every thread makes one request, sends it on   *)
(* its own connection and reads the response.                              *)
(*                                                                         *)
(* The server is what this code sees of it: it answers the request it      *)
(* parses with makeAPIResponse, and recv returns the answer in pieces.     *)
(* m_msgId is shared without a lock, so its ++ and the memcpy that reads   *)
(* it again are separate steps.                                            *)
(***************************************************************************)
EXTENDS Protocol, FiniteSets

CONSTANTS
    NumThreads,         \* 50 in main
    CmdData,            \* what createClient sends (1 MB)
    Answer,             \* what the API returns (1 KB)
    SOCKETBUFFER_SIZE,
    SplitHeader,        \* may the first recv return fewer than four bytes?
    Faults              \* subset of {"refuse", "short", "eof", "reset"}

Thread  == 1..NumThreads
SizeMod == UintMod * UintMod   \* size_t, 2^64

ASSUME ClientAssumption ==
    /\ NumThreads \in Nat /\ NumThreads < UintMod
    /\ CmdData \in Seq(Byte) /\ Answer \in Seq(Byte)
    /\ Len(CmdData) + UintSize * 4 < UintMod /\ Len(Answer) + UintSize * 5 < UintMod
    /\ CmdData # <<>>
    /\ SOCKETBUFFER_SIZE \in Nat /\ SOCKETBUFFER_SIZE >= UintSize
    /\ SplitHeader \in BOOLEAN
    /\ Faults \subseteq {"refuse", "short", "eof", "reset"}

VARIABLES
    main,     \* threads started, then NumThreads + threads joined
    pc,       \* where each thread is in createClient and doConnect
    m_instance,   \* protocol objects made; 0 is NULL
    m_mutex,  \* the thread that holds it while it makes one, 0 for none
    m_msgId,  \* protocol::m_msgId
    loaded,   \* the value ++ has read
    id,       \* the id that went into each thread's request
    open,     \* threads whose socket is open
    reply,    \* what the server sends to each thread
    pos,      \* bytes of it that recv has returned
    ackLen, resp,   \* doConnect's variables
    parsed    \* what parseResponse gave

vars == <<main, pc, m_instance, m_mutex, m_msgId, loaded, id, open, reply, pos, ackLen, resp, parsed>>
net  == <<open, reply, pos, ackLen, resp, parsed>>
ids  == <<m_msgId, loaded, id>>
object == <<m_instance, m_mutex>>

Init ==
    /\ main = 0
    /\ pc = [t \in Thread |-> "none"]
    /\ m_instance = 0 /\ m_mutex = 0
    /\ m_msgId = 0
    /\ loaded = [t \in Thread |-> 0]
    /\ id = [t \in Thread |-> 0]
    /\ open = {}
    /\ reply = [t \in Thread |-> <<>>]
    /\ pos = [t \in Thread |-> 0]
    /\ ackLen = [t \in Thread |-> 0]
    /\ resp = [t \in Thread |-> <<>>]
    /\ parsed = [t \in Thread |-> Failed]

Goto(t, from, to) == pc[t] = from /\ pc' = [pc EXCEPT ![t] = to]

(***************************************************************************)
(* main.                                                                   *)
(***************************************************************************)
StartThread ==
    /\ main < NumThreads
    /\ main' = main + 1
    /\ Goto(main + 1, "none", "instance")
    /\ UNCHANGED <<object, ids, net>>

JoinThread ==
    /\ NumThreads <= main /\ main < 2 * NumThreads
    /\ pc[main + 1 - NumThreads] = "done"
    /\ main' = main + 1
    /\ UNCHANGED <<pc, object, ids, net>>

(***************************************************************************)
(* getInstance.  The call before parseResponse finds the object and changes *)
(* nothing.                                                                *)
(***************************************************************************)
MayLock_Any == TRUE
MayLock     == m_mutex = 0

GetInstance(t) ==
    /\ MayLock
    /\ Goto(t, "instance", IF m_instance = 0 THEN "new" ELSE "load")
    /\ m_mutex' = IF m_instance = 0 THEN t ELSE 0
    /\ UNCHANGED <<main, m_instance, ids, net>>

NewInstance(t) ==
    /\ Goto(t, "new", "load")
    /\ m_instance' = m_instance + 1
    /\ m_mutex' = 0
    /\ UNCHANGED <<main, ids, net>>

(***************************************************************************)
(* makeAPIRequest: ++m_msgId, then memcpy from m_msgId.                    *)
(***************************************************************************)
LoadId(t) ==
    /\ Goto(t, "load", "store")
    /\ loaded' = [loaded EXCEPT ![t] = m_msgId]
    /\ UNCHANGED <<main, object, m_msgId, id, net>>

NextId_Two(n)  == (n + 2) % UintMod
NextId_Down(n) == n - 1
NextId(n)      == (n + 1) % UintMod

StoreId(t) ==
    /\ Goto(t, "store", "copy")
    /\ m_msgId' = NextId(loaded[t])
    /\ UNCHANGED <<main, object, loaded, id, net>>

CopyId(t) ==
    /\ Goto(t, "copy", "socket")
    /\ id' = [id EXCEPT ![t] = m_msgId]
    /\ UNCHANGED <<main, object, m_msgId, loaded, net>>

Req(t) == makeAPIRequest(id[t], EAC_API1, CmdData).msg

(***************************************************************************)
(* doConnect.  createClient ignores what it returns and parses resp.       *)
(***************************************************************************)
SocketCall(t) ==
    /\ \/ Goto(t, "socket", "bind") /\ open' = open \cup {t}
       \/ "refuse" \in Faults /\ Goto(t, "socket", "parse") /\ UNCHANGED open
    /\ UNCHANGED <<main, object, ids, reply, pos, ackLen, resp, parsed>>

(* bind to a name of its own, connect; an error returns without close. *)
BindCall(t) ==
    /\ Goto(t, "bind", "connect") \/ ("refuse" \in Faults /\ Goto(t, "bind", "parse"))
    /\ UNCHANGED <<main, object, ids, net>>

ConnectCall(t) ==
    /\ Goto(t, "connect", "send") \/ ("refuse" \in Faults /\ Goto(t, "connect", "parse"))
    /\ UNCHANGED <<main, object, ids, net>>

(* What onTaskProcessor makes of the request. *)
Served(request) ==
    LET in == parseRequest(request) IN makeAPIResponse(in.msgId, in.cmd, Answer).msg

(* send may take only a part, which looks like success; the server keeps the *)
(* part and waits for the rest.                                              *)
SendCall(t) ==
    /\ \/ /\ Goto(t, "send", "recv")
          /\ reply' = [reply EXCEPT ![t] = Served(Req(t))]
       \/ /\ "short" \in Faults
          /\ Goto(t, "send", "recv")
          /\ UNCHANGED reply
       \/ /\ "refuse" \in Faults
          /\ Goto(t, "send", "close")
          /\ UNCHANGED reply
    /\ UNCHANGED <<main, object, ids, open, pos, ackLen, resp, parsed>>

(* resp.size() + len < ackLen, an int added to a size_t. *)
Again_Signed(r, len, ack) == Len(r) + len < ack
Again_Le(r, len, ack)     == (Len(r) + len) % SizeMod <= ack
Again(r, len, ack)        == (Len(r) + len) % SizeMod < ack

(* The rest of a round, after recv filled buf (zeroes behind len bytes).    *)
(* append with a length of -1 throws length_error, which nobody catches.    *)
Round(t, buf, len) ==
    LET ack   == IF ackLen[t] = 0 THEN Uint(SubSeq(buf \o <<0, 0, 0, 0>>, 1, UintSize)) ELSE ackLen[t]
        r     == IF ackLen[t] = 0 THEN <<>> ELSE resp[t]
        again == Again(r, len, ack)
    IN
    /\ IF again THEN IF len < 0 THEN Goto(t, "recv", "throw") /\ UNCHANGED resp
                     ELSE Goto(t, "recv", "recv") /\ resp' = [resp EXCEPT ![t] = r \o buf]
       ELSE /\ Goto(t, "recv", "close")
            /\ resp' = [resp EXCEPT ![t] = r \o SubSeq(buf, 1, ack - Len(r))]
    /\ ackLen' = [ackLen EXCEPT ![t] = IF again THEN ack ELSE 0]

RecvData(t, n) ==
    /\ pos[t] + n <= Len(reply[t])
    /\ SplitHeader \/ pos[t] > 0 \/ n >= UintSize
    /\ Round(t, SubSeq(reply[t], pos[t] + 1, pos[t] + n), n)
    /\ pos' = [pos EXCEPT ![t] = @ + n]
    /\ UNCHANGED <<main, object, ids, open, reply, parsed>>

(* recv fails. *)
RecvError(t) ==
    /\ "reset" \in Faults
    /\ Round(t, <<>>, -1)
    /\ UNCHANGED <<main, object, ids, open, reply, pos, parsed>>

(* The server has gone: the loop ends with what there is. *)
RecvEnd(t) ==
    /\ "eof" \in Faults
    /\ Goto(t, "recv", "close")
    /\ UNCHANGED <<main, object, ids, net>>

Closed_Not(t) == open
Closed(t)     == open \ {t}

CloseCall(t) ==
    /\ Goto(t, "close", "parse")
    /\ open' = Closed(t)
    /\ UNCHANGED <<main, object, ids, reply, pos, ackLen, resp, parsed>>

Parse(t) ==
    /\ Goto(t, "parse", "done")
    /\ \E junk \in [1..UintSize -> {0, Base - 1}] :
         parsed' = [parsed EXCEPT ![t] = parseResponse(resp[t], junk)]
    /\ UNCHANGED <<main, object, ids, open, reply, pos, ackLen, resp>>

CreateClient(t) ==
    \/ GetInstance(t) \/ NewInstance(t) \/ LoadId(t) \/ StoreId(t) \/ CopyId(t)
    \/ SocketCall(t) \/ BindCall(t) \/ ConnectCall(t) \/ SendCall(t)
    \/ (\E n \in 1..SOCKETBUFFER_SIZE : RecvData(t, n))
    \/ CloseCall(t) \/ Parse(t)

(* An exception that nobody catches ends the process. *)
Terminated == \E t \in Thread : pc[t] = "throw"

Run == ~Terminated /\ (StartThread \/ JoinThread \/ \E t \in Thread : CreateClient(t))

Next == Run \/ (~Terminated /\ \E t \in Thread : RecvError(t) \/ RecvEnd(t))

Safe == Init /\ [][Next]_vars

(* Threads run, and the server answers what it was sent; no fault has to *)
(* happen.                                                               *)
Spec == Safe /\ WF_vars(Run)

(***************************************************************************)
(* Properties.                                                             *)
(***************************************************************************)
TypeOK ==
    /\ main \in 0..(2 * NumThreads)
    /\ pc \in [Thread -> {"none", "instance", "new", "load", "store", "copy", "socket", "bind",
                          "connect", "send", "recv", "throw", "close", "parse", "done"}]
    /\ m_instance \in Nat /\ m_mutex \in Thread \cup {0}
    /\ m_msgId \in 0..(UintMod - 1)
    /\ loaded \in [Thread -> 0..(UintMod - 1)] /\ id \in [Thread -> 0..(UintMod - 1)]
    /\ open \subseteq Thread
    /\ reply \in [Thread -> Seq(Byte)] /\ resp \in [Thread -> Seq(Byte)]
    /\ pos \in [Thread -> Nat] /\ ackLen \in [Thread -> 0..(UintMod - 1)]

Accepted(t) == pc[t] = "done" /\ parsed[t].ret = 0

(* "[totalLen:4][msgId:4][command:4][result:4][dataLen:4][Data:x]"          *)
(* (protocol.h:29): a response that createClient accepts is one whole       *)
(* message, and the data it copies out lies inside it.                      *)
ResponseWhole ==
    \A t \in Thread : Accepted(t) =>
        /\ Field(resp[t], 0) = Len(resp[t])
        /\ parsed[t].cmdData + parsed[t].cmdDataLen <= Len(resp[t])

(* If the server stays until its answer is through, the response is the     *)
(* whole answer to this thread's own request, however recv cuts it, whether *)
(* or not two threads share an id.                                          *)
OwnAnswer ==
    \A t \in Thread : Accepted(t) /\ pos[t] = Len(reply[t]) =>
        /\ resp[t] = reply[t]
        /\ parsed[t] = [ret |-> 0, msgId |-> id[t], cmd |-> EAC_API1, result |-> 0,
                        cmdDataLen |-> Len(Answer), cmdData |-> UintSize * 5]

(* Threads that race on ++m_msgId can give out an id twice, but none beyond *)
(* the number of requests begun, and never 0.                               *)
IdsInRange ==
    \A t \in Thread : pc[t] \notin {"none", "instance", "new", "load", "store", "copy"} =>
        id[t] \in 1..Cardinality({u \in Thread : pc[u] \notin {"none", "instance", "new", "load"}})

(* Threads that call getInstance at the same time make one object: the test *)
(* for NULL and the assignment are both inside m_mutex.                     *)
OneInstance == m_instance <= 1

(* doConnect closes the socket of a thread whose request was sent to its    *)
(* end, whatever happens then.                                              *)
SentIsClosed ==
    \A t \in Thread : pc[t] \in {"parse", "done"} /\ reply[t] # <<>> => t \notin open

(* recv failing, an int of -1 added to a size_t, ends the process only      *)
(* between the first and the last byte of a response.                       *)
ThrowsMidResponse ==
    \A t \in Thread : pc[t] = "throw" => 0 < pos[t] /\ pos[t] < Len(reply[t])

(* The thread waits for an answer that the server will not give. *)
Unanswered(t) == pc[t] = "recv" /\ reply[t] = <<>>

(* main joins all its threads, unless one of them ends the process or waits *)
(* for ever because send took only a part of its request.                   *)
MainReturns ==
    (\A t \in Thread : []<>~Unanswered(t)) => <>(Terminated \/ main = 2 * NumThreads)
===============================================================================
