------------------------------- MODULE Protocol -------------------------------
(***************************************************************************)
(* The messages of protocol/protocol.cpp, as operators.                    *)
(*                                                                         *)
(* A message is a sequence of bytes, each with Base values instead of 256; *)
(* an unsigned int has four of them, lowest first.  A make operator        *)
(* returns the string and how many bytes its memcpy calls write past the   *)
(* string's end; a parse operator gives the place of the data, as the      *)
(* number of bytes in front of it.                                         *)
(***************************************************************************)
EXTENDS Integers, Sequences

CONSTANT Base

ASSUME BaseAssumption == Base \in Nat /\ Base > 1

Byte     == 0..(Base - 1)
UintMod  == Base * Base * Base * Base   \* 2^32
UintSize == 4                           \* sizeof(unsigned int)

EAC_API1 == 0
EAC_API2 == 1
EPE_Parse_ERROR == 500
EPE_Make_ERROR  == 501

(* What memcpy stores from, and loads into, an unsigned int. *)
Bytes(n) ==
    LET n1 == n \div Base
        n2 == n1 \div Base
        n3 == n2 \div Base
    IN  <<n % Base, n1 % Base, n2 % Base, n3 % Base>>
Uint(b)  == b[1] + Base * (b[2] + Base * (b[3] + Base * b[4]))

Field_Next(buf, i) == Uint([j \in 1..UintSize |-> buf[UintSize * (i + 1) + j]])
Field(buf, i)      == Uint([j \in 1..UintSize |-> buf[UintSize * i + j]])

Failed == [ret |-> -1]

(* resize(totoleSize), then the copies. *)
Filled(totoleSize, bytes) ==
    [ret |-> 0, msg |-> SubSeq(bytes, 1, totoleSize), past |-> Len(bytes) - totoleSize]

(* [totalLen:4][msgId:4][command:4][DataLen:4][Data:X] *)
makeAPIRequest(msgId, cmd, data) ==
    LET totoleSize == (UintSize * 4 + Len(data)) % UintMod IN
    IF data = <<>> THEN Failed
    ELSE Filled(totoleSize,
                Bytes(totoleSize) \o Bytes(msgId) \o Bytes(cmd) \o Bytes(Len(data)) \o data)

parseRequest(buf) ==
    IF Len(buf) < UintSize * 4 THEN Failed
    ELSE [ret |-> 0, msgId |-> Field(buf, 1), cmd |-> Field(buf, 2),
          cmdDataLen |-> Field(buf, 3), cmdData |-> UintSize * 4]

(* [totalLen:4][msgId:4][command:4][result:4][dataLen:4][Data:x] *)
RespSize_Four(dataLen) == (UintSize * 4 + dataLen) % UintMod
RespSize_Wide(dataLen) == UintSize * 5 + dataLen
RespSize(dataLen)      == (UintSize * 5 + dataLen) % UintMod

makeAPIResponse(msgId, cmd, data) ==
    LET totoleSize == RespSize(Len(data)) IN
    Filled(totoleSize,
           Bytes(totoleSize) \o Bytes(msgId) \o Bytes(cmd) \o Bytes(0) \o Bytes(Len(data)) \o data)

(* junk is what lies behind the buffer: a result of 0 in a message of 16 to *)
(* 19 bytes makes the code read it.                                         *)
parseResponse(buf, junk) ==
    IF Len(buf) < UintSize * 4 THEN Failed
    ELSE LET result == Field(buf, 3)
         IN  [ret |-> 0, msgId |-> Field(buf, 1), cmd |-> Field(buf, 2), result |-> result,
              cmdDataLen |-> IF result = 0 THEN Field(buf \o junk, 4) ELSE 0,
              cmdData    |-> IF result = 0 THEN UintSize * 5 ELSE 0]

makeErrResponse(msgId, cmd, errCode) ==
    LET totoleSize == UintSize * 4 IN
    Filled(totoleSize, Bytes(totoleSize) \o Bytes(msgId) \o Bytes(cmd) \o Bytes(errCode))
===============================================================================
