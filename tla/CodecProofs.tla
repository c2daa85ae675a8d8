------------------------------ MODULE CodecProofs ------------------------------
(***************************************************************************)
(* What Codec checks of the messages, for ids and data of any size and any *)
(* number of values of a byte, from the lemmas of ProtocolProofs.          *)
(***************************************************************************)
EXTENDS Codec, ProtocolProofs

MsgOK ==
    /\ msg.id \in Uints /\ msg.cmd \in {EAC_API1, EAC_API2} /\ msg.size \in Nat
    /\ msg.err \in {EPE_Parse_ERROR, EPE_Make_ERROR}

LEMMA CodeRange ==
    /\ 16 < UintMod /\ EAC_API1 \in Uints /\ EAC_API2 \in Uints
    /\ EPE_Parse_ERROR \in Uints \ {0} /\ EPE_Make_ERROR \in Uints \ {0}
BY CodecAssumption, UintModNat DEF Uints, EAC_API1, EAC_API2, EPE_Parse_ERROR, EPE_Make_ERROR

LEMMA MsgInit == Init => MsgOK
<1>1. 0 \in Uints
  BY UintModNat DEF Uints
<1>2. ASSUME msg = NoMsg PROVE MsgOK
  BY <1>1, <1>2 DEF MsgOK, NoMsg
<1>3. ASSUME msg \in [id : MsgIds, cmd : {EAC_API1, EAC_API2}, size : Sizes,
                     err : {EPE_Parse_ERROR, EPE_Make_ERROR}]
      PROVE  MsgOK
  BY <1>3, CodecAssumption DEF MsgOK, Uints
<1> QED BY <1>2, <1>3 DEF Init

LEMMA MsgNext == MsgOK /\ [Next]_vars => MsgOK'
BY DEF MsgOK, Next, vars

LEMMA DataSeq ==
    ASSUME NEW n \in Nat
    PROVE  /\ Data(n) \in Seq(Byte) /\ Len(Data(n)) = n
           /\ Data(n) = <<>> <=> n = 0
<1>1. \A i \in 1..n : i % Base \in Byte
  BY BaseAssumption, DivMod DEF Byte
<1>2. Data(n) \in Seq(Byte) /\ Len(Data(n)) = n
  BY <1>1 DEF Data
<1> QED BY <1>2, EmptySeq

LEMMA Request == MsgOK => RequestRoundTrip
<1> SUFFICES ASSUME MsgOK, msg.size + 16 < UintMod PROVE RequestRoundTrip
  BY DEF RequestRoundTrip
<1> DEFINE data == Data(msg.size)
           req  == makeAPIRequest(msg.id, msg.cmd, data)
           out  == parseRequest(req.msg)
<1>1. /\ data \in Seq(Byte) /\ Len(data) = msg.size /\ (data = <<>> <=> msg.size = 0)
      /\ msg.id \in Uints /\ msg.cmd \in Uints /\ msg.size \in Nat
  BY DataSeq, CodeRange DEF MsgOK
<1>2. CASE msg.size = 0
  <2>1. req = Failed
    BY <1>1, <1>2 DEF makeAPIRequest
  <2> QED BY <1>2, <2>1 DEF RequestRoundTrip
<1>3. CASE msg.size # 0
  <2>1. 16 + Len(data) < UintMod /\ data # <<>>
    BY <1>1, <1>3, UintModNat
  <2> HIDE DEF data
  <2>2. /\ req.past = 0 /\ Field(req.msg, 0) = Len(req.msg)
        /\ SubSeq(req.msg, 17, Len(req.msg)) = data
        /\ out = [ret |-> 0, msgId |-> msg.id, cmd |-> msg.cmd,
                  cmdDataLen |-> Len(data), cmdData |-> 16]
    BY <1>1, <2>1, RequestMade
  <2> HIDE DEF req, out
  <2>3. [out EXCEPT !.cmdData = SubSeq(req.msg, @ + 1, Len(req.msg))]
          = [ret |-> 0, msgId |-> msg.id, cmd |-> msg.cmd,
             cmdDataLen |-> msg.size, cmdData |-> data]
    <3> DEFINE v == SubSeq(req.msg, out.cmdData + 1, Len(req.msg))
    <3>1. v = data
      BY <2>2
    <3> HIDE DEF v
    <3>2. [out EXCEPT !.cmdData = v]
            = [ret |-> 0, msgId |-> msg.id, cmd |-> msg.cmd, cmdDataLen |-> Len(data), cmdData |-> v]
      BY <2>2
    <3> QED BY <1>1, <3>1, <3>2 DEF v
  <2> QED BY <1>3, <2>2, <2>3 DEF RequestRoundTrip, data, req, out
<1> QED BY <1>2, <1>3

LEMMA Response == MsgOK => ResponseRoundTrip
<1> SUFFICES ASSUME MsgOK PROVE ResponseRoundTrip
  OBVIOUS
<1> DEFINE data == Data(msg.size)
           resp == makeAPIResponse(msg.id, msg.cmd, data)
           err  == makeErrResponse(msg.id, msg.cmd, msg.err)
           same == [ret |-> 0, msgId |-> msg.id, cmd |-> msg.cmd]
           junk == [j \in 1..4 |-> Base - 1]
           rout == parseResponse(resp.msg, junk)
           eout == parseResponse(err.msg, junk)
<1>1. /\ data \in Seq(Byte) /\ Len(data) = msg.size
      /\ msg.id \in Uints /\ msg.cmd \in Uints /\ msg.size \in Nat
      /\ msg.err \in Uints \ {0} /\ 16 < UintMod
  BY DataSeq, CodeRange DEF MsgOK
<1>2. junk \in Seq(Byte)
  BY BaseAssumption DEF Byte
<1>3. ASSUME msg.size + 20 < UintMod
      PROVE  /\ resp.past = 0 /\ Field(resp.msg, 0) = Len(resp.msg)
             /\ \A f \in DOMAIN same : rout[f] = same[f]
             /\ rout.result = 0 /\ rout.cmdDataLen = msg.size
             /\ SubSeq(resp.msg, rout.cmdData + 1, Len(resp.msg)) = data
  <2>1. 20 + Len(data) < UintMod
    BY <1>1, <1>3, UintModNat
  <2> HIDE DEF data, junk
  <2>2. /\ resp.past = 0 /\ Field(resp.msg, 0) = Len(resp.msg)
        /\ SubSeq(resp.msg, 21, Len(resp.msg)) = data
        /\ rout = [ret |-> 0, msgId |-> msg.id, cmd |-> msg.cmd, result |-> 0,
                   cmdDataLen |-> Len(data), cmdData |-> 20]
    BY <1>1, <1>2, <2>1, ResponseMade
  <2> HIDE DEF resp, rout
  <2> QED BY <1>1, <2>2
<1>4. /\ err.past = 0 /\ Field(err.msg, 0) = Len(err.msg)
      /\ \A f \in DOMAIN same : eout[f] = same[f]
      /\ eout.result = msg.err /\ eout.cmdDataLen = 0
  <2> HIDE DEF junk
  <2>1. /\ err.past = 0 /\ Len(err.msg) = 16 /\ Field(err.msg, 0) = 16
        /\ eout = [ret |-> 0, msgId |-> msg.id, cmd |-> msg.cmd, result |-> msg.err,
                   cmdDataLen |-> 0, cmdData |-> 0]
    <3>1. IsError(err, msg.id, msg.cmd, msg.err)
      BY <1>1, ErrorMade
    <3> QED BY <3>1 DEF IsError
  <2> HIDE DEF err, eout
  <2> QED BY <2>1
<1> HIDE DEF data, resp, err, same, junk, rout, eout
<1> QED BY <1>3, <1>4 DEF ResponseRoundTrip, data, resp, err, same, junk, rout, eout

LEMMA Overflows ==
    ASSUME NEW n \in Nat, NEW m \in Nat, m > 0
    PROVE  n - (n % m) > 0 <=> n >= m
OBVIOUS

LEMMA Sizing == MsgOK => SizeWraps
<1> SUFFICES ASSUME MsgOK PROVE SizeWraps
  OBVIOUS
<1> DEFINE data == Data(msg.size)
<1>1. /\ data \in Seq(Byte) /\ Len(data) = msg.size /\ (data = <<>> <=> msg.size = 0)
      /\ msg.id \in Uints /\ msg.cmd \in Uints /\ msg.size \in Nat
  BY DataSeq, CodeRange DEF MsgOK
<1> HIDE DEF data
<1>2. ASSUME msg.size > 0
      PROVE  makeAPIRequest(msg.id, msg.cmd, data).past > 0 <=> msg.size + 16 >= UintMod
  <2>1. makeAPIRequest(msg.id, msg.cmd, data).past
          = (16 + Len(data)) - ((16 + Len(data)) % UintMod)
    BY <1>1, <1>2, RequestPast
  <2>2. 16 + Len(data) \in Nat /\ 16 + Len(data) = msg.size + 16
    BY <1>1
  <2>3. (16 + Len(data)) - ((16 + Len(data)) % UintMod) > 0 <=> 16 + Len(data) >= UintMod
    BY <2>2, Overflows, UintModNat
  <2> QED BY <2>1, <2>2, <2>3
<1>3. makeAPIResponse(msg.id, msg.cmd, data).past > 0 <=> msg.size + 20 >= UintMod
  <2>1. makeAPIResponse(msg.id, msg.cmd, data).past
          = (20 + Len(data)) - ((20 + Len(data)) % UintMod)
    BY <1>1, ResponsePast
  <2>2. 20 + Len(data) \in Nat /\ 20 + Len(data) = msg.size + 20
    BY <1>1
  <2>3. (20 + Len(data)) - ((20 + Len(data)) % UintMod) > 0 <=> 20 + Len(data) >= UintMod
    BY <2>2, Overflows, UintModNat
  <2> QED BY <2>1, <2>2, <2>3
<1> QED BY <1>2, <1>3 DEF SizeWraps, data

(* Whatever the id, the command and the size of the data: parseRequest      *)
(* finds in a request that fits in 32 bits what makeAPIRequest put there.   *)
THEOREM RequestCorrect == Spec => []RequestRoundTrip
<1>1. Spec => []MsgOK
  BY MsgInit, MsgNext, PTL DEF Spec
<1> QED BY <1>1, Request, PTL

(* Likewise parseResponse, of an answer and of an error.                    *)
THEOREM ResponseCorrect == Spec => []ResponseRoundTrip
<1>1. Spec => []MsgOK
  BY MsgInit, MsgNext, PTL DEF Spec
<1> QED BY <1>1, Response, PTL

(* The make functions write behind the string they made exactly when header *)
(* and data together do not fit in an unsigned int.                         *)
THEOREM SizeCorrect == Spec => []SizeWraps
<1>1. Spec => []MsgOK
  BY MsgInit, MsgNext, PTL DEF Spec
<1> QED BY <1>1, Sizing, PTL
===============================================================================
