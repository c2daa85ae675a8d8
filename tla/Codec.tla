--------------------------------- MODULE Codec ---------------------------------
(***************************************************************************)
(* The pure parts of the program against what they should compute: the     *)
(* messages of Protocol, the conversions of HexChar and the log macros of  *)
(* Logging.  A state is one input.                                         *)
(***************************************************************************)
EXTENDS Protocol, HexChar, Logging, FiniteSets

CONSTANTS
    MsgIds, Sizes,   \* message ids and lengths of data
    Chars, Digits,   \* bytes to be written in hex, characters to be read
    MaxText,         \* bound: characters of a text
    MaxRuns          \* bound: executions of a log site

(* Ids are unsigned ints, and so are the error codes of the protocol. *)
ASSUME CodecAssumption ==
    /\ MsgIds \subseteq 0..(UintMod - 1) /\ Sizes \subseteq Nat
    /\ EPE_Make_ERROR < UintMod

VARIABLES msg, bytes, text, log

vars == <<msg, bytes, text, log>>

Data(n) == [i \in 1..n |-> i % Base]
Texts(S, n) == UNION {[1..k -> S] : k \in 0..n}

NoMsg == [id |-> 0, cmd |-> EAC_API1, size |-> 0, err |-> EPE_Parse_ERROR]
NoLog == [n |-> 1, conditions |-> <<>>]

Init ==
    \/ /\ msg \in [id : MsgIds, cmd : {EAC_API1, EAC_API2}, size : Sizes,
                   err : {EPE_Parse_ERROR, EPE_Make_ERROR}]
       /\ bytes = <<>> /\ text = <<>> /\ log = NoLog
    \/ /\ bytes \in Texts(Chars, MaxText \div 2)
       /\ msg = NoMsg /\ text = <<>> /\ log = NoLog
    \/ /\ text \in Texts(Digits, MaxText)
       /\ msg = NoMsg /\ bytes = <<>> /\ log = NoLog
    \/ /\ log \in [n : 1..MaxRuns, conditions : Texts(BOOLEAN, MaxRuns)]
       /\ msg = NoMsg /\ bytes = <<>> /\ text = <<>>

Next == UNCHANGED vars

Spec == Init /\ [][Next]_vars

(* A request that fits in 32 bits says its own length, and parseRequest     *)
(* finds in it what makeAPIRequest put there.                               *)
RequestRoundTrip ==
    LET data == Data(msg.size)
        req  == makeAPIRequest(msg.id, msg.cmd, data)
        out  == parseRequest(req.msg)
    IN  msg.size + 16 < UintMod =>
          IF msg.size = 0 THEN req = Failed
          ELSE /\ req.past = 0
               /\ Field(req.msg, 0) = Len(req.msg)
               /\ [out EXCEPT !.cmdData = SubSeq(req.msg, @ + 1, Len(req.msg))]
                    = [ret |-> 0, msgId |-> msg.id, cmd |-> msg.cmd,
                       cmdDataLen |-> msg.size, cmdData |-> data]

(* The same for both kinds of response, whatever lies behind the buffer: an *)
(* error response has no data, and is told from the other by its result.    *)
ResponseRoundTrip ==
    LET data == Data(msg.size)
        resp == makeAPIResponse(msg.id, msg.cmd, data)
        err  == makeErrResponse(msg.id, msg.cmd, msg.err)
        same == [ret |-> 0, msgId |-> msg.id, cmd |-> msg.cmd]
        junk == [j \in 1..4 |-> Base - 1]
    IN  /\ msg.size + 20 < UintMod =>
             LET out == parseResponse(resp.msg, junk) IN
             /\ resp.past = 0 /\ Field(resp.msg, 0) = Len(resp.msg)
             /\ \A f \in DOMAIN same : out[f] = same[f]
             /\ out.result = 0 /\ out.cmdDataLen = msg.size
             /\ SubSeq(resp.msg, out.cmdData + 1, Len(resp.msg)) = data
        /\ LET out == parseResponse(err.msg, junk) IN
             /\ err.past = 0 /\ Field(err.msg, 0) = Len(err.msg)
             /\ \A f \in DOMAIN same : out[f] = same[f]
             /\ out.result = msg.err /\ out.cmdDataLen = 0

(* The total size is a 32-bit sum: data within a header of 4 GB wraps it,   *)
(* and then all of the data lands behind the end of a string that is too    *)
(* short.                                                                   *)
SizeWraps ==
    LET data == Data(msg.size) IN
    /\ msg.size > 0 =>
         (makeAPIRequest(msg.id, msg.cmd, data).past > 0 <=> msg.size + 16 >= UintMod)
    /\ makeAPIResponse(msg.id, msg.cmd, data).past > 0 <=> msg.size + 20 >= UintMod

(* Reading back what CharToHex wrote gives the bytes. *)
HexRoundTrip == HexToChar(CharToHex(bytes)).out = bytes

(* What HexToChar makes of any text: an odd first digit is ignored; a small *)
(* letter is right as the first digit of a byte and 32 too much as the      *)
(* second; and for an even length it reads the character before the text.   *)
HexToCharExact ==
    LET n   == Len(text)
        res == HexToChar(text)
        value(ch) == CHOOSE d \in 0..15 : tohex[d] = LowerToSupper(ch)
        digit(i, k) == text[n - 2 * (n \div 2) + 2 * (i - 1) + k]
        excess(ch)  == IF ch = SupperToLower(ch) /\ ch # LowerToSupper(ch) THEN 32 ELSE 0
    IN  /\ \A i \in 1..(n \div 2) :
             res.out[i] = (16 * value(digit(i, 1)) + value(digit(i, 2)) + excess(digit(i, 2))) % 256
        /\ res.reads = IF n < 2 THEN {} ELSE ((n % 2) - 1)..(n - 1)

(* A site logs its first execution and then every n-th, LOG_IF_EVERY_N      *)
(* counting only those whose condition holds and LOG_FIRST_N only the first *)
(* n: three ways to keep a counter that never passes n, or n + 1.           *)
LogsEveryN ==
    LET runs == 1..Len(log.conditions)
        holds(k) == Cardinality({i \in 1..k : log.conditions[i]})
        increasing(S) == SetToSortSeq(S, <)
    IN  /\ EveryN(log.conditions, log.n) = increasing({k \in runs : (k - 1) % log.n = 0})
        /\ IfEveryN(log.conditions, log.n)
             = increasing({k \in runs : log.conditions[k] /\ (holds(k) - 1) % log.n = 0})
        /\ FirstN(log.conditions, log.n) = increasing({k \in runs : k <= log.n})
===============================================================================
