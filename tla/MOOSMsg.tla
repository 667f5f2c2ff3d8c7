------------------------------ MODULE MOOSMsg ------------------------------
(***************************************************************************)
(* CMOOSMsg and CMOOSCommPkt as values: what is written into a packet and  *)
(* what is read back from it.  A byte is a cell <<kind, index, value>> and *)
(* only the width of a field matters, so IntSize and DoubleSize stand for  *)
(* sizeof(int) and sizeof(double).  A string is a sequence of characters.  *)
(***************************************************************************)
EXTENDS Integers, Sequences

CONSTANTS IntSize, DoubleSize,
          NULLMsgType          \* MOOS_NULL_MSG

Unserialisable == <<"unserialisable">>     \* the -1 of CMOOSMsg::Serialize

(* The fields of a message. *)
Message == [m_nID : Int, m_cMsgType : STRING, m_cDataType : STRING, m_sSrc : Seq(STRING),
            m_sSrcAux : Seq(STRING), m_sOriginatingCommunity : Seq(STRING), m_sKey : Seq(STRING),
            m_dfTime : Int, m_dfVal : Int, m_dfVal2 : Int, m_sVal : Seq(STRING)]

(* The default constructor. *)
EmptyMsg == [m_nID |-> -1, m_cMsgType |-> NULLMsgType, m_cDataType |-> "D", m_sSrc |-> <<>>,
             m_sSrcAux |-> <<>>, m_sOriginatingCommunity |-> <<>>, m_sKey |-> <<>>,
             m_dfTime |-> -1, m_dfVal |-> -1, m_dfVal2 |-> -1, m_sVal |-> <<>>]

(* The cells CopyToBufferAsLittleEndian leaves for each kind of field. *)
IntCells(v)    == [i \in 1..IntSize    |-> <<"int", i, v>>]
DoubleCells(v) == [i \in 1..DoubleSize |-> <<"double", i, v>>]
CharCells(c)   == << <<"char", 1, c>> >>
StringCells(s) == IntCells(Len(s)) \o [i \in DOMAIN s |-> <<"char", 1, s[i]>>]

(* The fields in the order in which operator<< and operator>> are applied. *)
Fields == << <<"m_nID", "int">>, <<"m_cMsgType", "char">>, <<"m_cDataType", "char">>,
             <<"m_sSrc", "string">>, <<"m_sSrcAux", "string">>,
             <<"m_sOriginatingCommunity", "string">>, <<"m_sKey", "string">>,
             <<"m_dfTime", "double">>, <<"m_dfVal", "double">>, <<"m_dfVal2", "double">>,
             <<"m_sVal", "string">> >>

FieldCells(kind, v) == CASE kind = "int"    -> IntCells(v)
                         [] kind = "double" -> DoubleCells(v)
                         [] kind = "char"   -> CharCells(v)
                         [] kind = "string" -> StringCells(v)

\* Mutant: the auxiliary source is forgotten.
SizeWithoutAux(m) ==
    7 * IntSize + 2 + Len(m.m_sSrc) + Len(m.m_sOriginatingCommunity) + Len(m.m_sKey)
      + Len(m.m_sVal) + 3 * DoubleSize

(* The room a message asks for. *)
GetSizeInBytesWhenSerialised(m) ==
    2 * IntSize + 2
      + 5 * IntSize + Len(m.m_sSrc) + Len(m.m_sSrcAux) + Len(m.m_sOriginatingCommunity)
                    + Len(m.m_sKey) + Len(m.m_sVal)
      + 3 * DoubleSize

(* Serialize(pBuffer, nLen, true): the length goes in front once the rest is written. *)
MsgToCells(m, nLen) ==
    LET Body[i \in 0..Len(Fields)] ==
            IF i = 0 THEN <<>> ELSE Body[i - 1] \o FieldCells(Fields[i][2], m[Fields[i][1]])
        body  == Body[Len(Fields)]
        cells == IntCells(IntSize + Len(body)) \o body
    IN  IF Len(cells) <= nLen THEN cells ELSE Unserialisable

(* One operator>>: the value of a field and the position after it; CanSerialiseN compares
   with the room that is left, not with the length the message claims. *)
ReadField(b, pos, nLen, kind) ==
    LET Fits(n) == pos + n <= nLen
        fail    == [ok |-> FALSE, v |-> 0, pos |-> pos]
    IN  CASE kind = "int" ->
               IF Fits(IntSize) THEN [ok |-> TRUE, v |-> b[pos + 1][3], pos |-> pos + IntSize]
               ELSE fail
          [] kind = "double" ->
               IF Fits(DoubleSize) THEN [ok |-> TRUE, v |-> b[pos + 1][3], pos |-> pos + DoubleSize]
               ELSE fail
          [] kind = "char" ->
               IF Fits(1) THEN [ok |-> TRUE, v |-> b[pos + 1][3], pos |-> pos + 1] ELSE fail
          [] kind = "string" ->
               IF ~Fits(IntSize) THEN fail
               ELSE LET n == b[pos + 1][3] IN
                    IF ~Fits(IntSize + n) THEN fail
                    ELSE [ok |-> TRUE, pos |-> pos + IntSize + n,
                          v |-> [i \in 1..n |-> b[pos + IntSize + i][3]]]

(* Serialize(pBuffer, nLen, false) at offset start of b: the message, and as the number of
   cells used the length that was written in front of it. *)
MsgFromCells(b, start, nLen) ==
    LET first == ReadField(b, start, start + nLen, "int")
        Read[i \in 0..Len(Fields)] ==     \* the i-th field, after those before it
            IF i = 0 THEN first
            ELSE LET prev == Read[i - 1] IN
                 IF prev.ok THEN ReadField(b, prev.pos, start + nLen, Fields[i][2]) ELSE prev
        index == [f \in {Fields[i][1] : i \in DOMAIN Fields} |->
                    CHOOSE i \in DOMAIN Fields : Fields[i][1] = f]
    IN  IF Read[Len(Fields)].ok
        THEN [ok |-> TRUE, used |-> first.v, m |-> [f \in DOMAIN index |-> Read[index[f]].v]]
        ELSE [ok |-> FALSE, used |-> 0, m |-> EmptyMsg]

HeaderSize == 2 * IntSize + 1    \* length, number of messages, compression flag

SumOfSizes(list) ==
    LET Sum[i \in 0..Len(list)] ==
            IF i = 0 THEN 0 ELSE Sum[i - 1] + GetSizeInBytesWhenSerialised(list[i])
    IN  Sum[Len(list)]

(* CMOOSCommPkt::Serialize(List, true). *)
PktToCells(list) ==
    LET size == HeaderSize + SumOfSizes(list)
        Body[i \in 0..Len(list)] ==
            IF i = 0 THEN <<>>
            ELSE LET prev == Body[i - 1]
                     c    == MsgToCells(list[i], size - HeaderSize - Len(prev))
                 IN  IF prev = Unserialisable \/ c = Unserialisable THEN Unserialisable
                     ELSE prev \o c
        body == Body[Len(list)]
    IN  IF body = Unserialisable THEN Unserialisable
        ELSE IntCells(HeaderSize + Len(body)) \o IntCells(Len(list)) \o CharCells(0) \o body

\* Mutant: NULL messages are always omitted.
OmittedAlways(m, bNoNULL) == m.m_cMsgType = NULLMsgType

\* Whether a message that was read is left out of the list.
Omitted(m, bNoNULL) == bNoNULL /\ m.m_cMsgType = NULLMsgType

(* CMOOSCommPkt::Serialize(List, false, bNoNULL, pdfPktTime): stops at the first message it
   cannot read; the time of the packet is the double of a leading NULL message. *)
PktFromCells(b, bNoNULL) ==
    LET length == b[1][3]
        n      == b[IntSize + 1][3]
        Get[i \in 0..n] ==
          IF i = 0 THEN [stop |-> FALSE, pos |-> HeaderSize, list |-> <<>>, time |-> -1]
          ELSE LET prev == Get[i - 1]
                   r    == MsgFromCells(b, prev.pos, length - prev.pos)
                   null == r.m.m_cMsgType = NULLMsgType
               IN  IF prev.stop \/ ~r.ok THEN [prev EXCEPT !.stop = TRUE]
                   ELSE [stop |-> FALSE, pos |-> prev.pos + r.used,
                         list |-> IF Omitted(r.m, bNoNULL) THEN prev.list ELSE Append(prev.list, r.m),
                         time |-> IF null /\ i = 1 THEN r.m.m_dfVal ELSE prev.time]
    IN  [list |-> Get[n].list, time |-> Get[n].time]

(* The constructors.  A time of -1 asks for the time now. *)
NewMsg(type, key, time, now) ==
    [EmptyMsg EXCEPT !.m_cMsgType = type, !.m_sKey = key,
                     !.m_dfTime = IF time = -1 THEN now ELSE time]
DoubleMsg(type, key, val, time, now) == [NewMsg(type, key, time, now) EXCEPT !.m_dfVal = val]
StringMsg(type, key, val, time, now) ==
    [NewMsg(type, key, time, now) EXCEPT !.m_cDataType = "S", !.m_sVal = val]
BinaryMsg(type, key, val, time, now) ==
    [NewMsg(type, key, time, now) EXCEPT !.m_cDataType = "B", !.m_sVal = val]
============================================================================
