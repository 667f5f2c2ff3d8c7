------------------------------ MODULE WireProofs ------------------------------
(***************************************************************************)
(* Proofs about a connection, for every width of the fields, every size of *)
(* chunk, all messages and any number of packets: a packet that was        *)
(* serialised is read back as it was; the packet being filled, the wire    *)
(* and the sender hold, in this order, the cells of what was sent and not  *)
(* read; so a connection is a channel of packets.  The recursive functions *)
(* of MOOSMsg are reached through the sequence of what they join together, *)
(* which is shown to exist and to be unique.                               *)
(***************************************************************************)
EXTENDS Wire, SequenceTheorems, NaturalsInduction, WellFoundedInduction, TLAPS

-----------------------------------------------------------------------------
(* Recursion on the natural numbers                                        *)

\* A set of numbers that has 0, and the successor of each of its members, has them all.
LEMMA NatSetInduction ==
    ASSUME NEW S, 0 \in S, \A n \in Nat : n \in S => n + 1 \in S
    PROVE  Nat \subseteq S
<1> DEFINE T == Nat \ S
<1> SUFFICES ASSUME T # {} PROVE FALSE
  OBVIOUS
<1>1. IsWellFoundedOn(OpToRel(<, Nat), Nat)
  BY NatLessThanWellFounded
<1>2. \E x \in T : \A y \in T : ~ (<<y, x>> \in OpToRel(<, Nat))
  <2> HIDE DEF T
  <2>1. T \subseteq Nat
    BY DEF T
  <2> QED BY <1>1, <2>1, WFMin
<1>3. PICK x \in T : \A y \in T : ~ (<<y, x>> \in OpToRel(<, Nat))
  BY <1>2
<1>4. \A y \in T : ~ (y < x)
  BY <1>3 DEF OpToRel
<1>5. x # 0 /\ x - 1 \in Nat
  OBVIOUS
<1>6. x - 1 \in S
  BY <1>4, <1>5
<1> QED BY <1>5, <1>6

\* The pieces in F one after another, as far as the first k.
Joins(g, F, k) == g = [i \in 0 .. k |-> IF i = 0 THEN <<>> ELSE g[i - 1] \o F[i]]

\* They are sequences over S.
Pieces(F, S, k) == \A i \in 1 .. k : F[i] \in Seq(S)

\* They can be put together.
LEMMA JoinsExist ==
    ASSUME NEW F, NEW k \in Nat
    PROVE  \E g : Joins(g, F, k)
<1> DEFINE S == {j \in Nat : \E g : Joins(g, F, j)}
<1>1. 0 \in S
  <2>1. Joins([n \in 0 .. 0 |-> <<>>], F, 0)
    BY DEF Joins
  <2> QED BY <2>1
<1>2. ASSUME NEW j \in Nat, j \in S PROVE j + 1 \in S
  <2>1. PICK g : Joins(g, F, j)
    BY <1>2
  <2> DEFINE h == [n \in 0 .. (j + 1) |-> IF n = j + 1 THEN g[j] \o F[n] ELSE g[n]]
  <2>2. \A n \in 0 .. j : g[n] = IF n = 0 THEN <<>> ELSE g[n - 1] \o F[n]
    BY <2>1 DEF Joins
  <2>3. ASSUME NEW n \in 0 .. (j + 1)
        PROVE  h[n] = IF n = 0 THEN <<>> ELSE h[n - 1] \o F[n]
    <3>1. \A i \in 0 .. j : h[i] = g[i]
      OBVIOUS
    <3>2. h[j + 1] = g[j] \o F[j + 1]
      OBVIOUS
    <3> HIDE DEF h
    <3>3. CASE n \in 0 .. j
      <4>1. n # 0 => n - 1 \in 0 .. j
        BY <3>3
      <4> QED BY <2>2, <3>1, <3>3, <4>1
    <3>4. CASE n = j + 1
      <4>1. n # 0 /\ n - 1 = j /\ j \in 0 .. j
        BY <3>4
      <4> QED BY <3>1, <3>2, <3>4, <4>1
    <3> QED BY <3>3, <3>4
  <2>4. h = [n \in 0 .. (j + 1) |-> h[n]]
    OBVIOUS
  <2>5. Joins(h, F, j + 1)
    <3> HIDE DEF h
    <3> QED BY <2>3, <2>4 DEF Joins
  <2> QED BY <2>5
<1> HIDE DEF S
<1>3. Nat \subseteq S
  BY <1>1, <1>2, NatSetInduction
<1> QED BY <1>3 DEF S

\* Two sequences joined, by position.
LEMMA JoinedTwo ==
    ASSUME NEW S, NEW s \in Seq(S), NEW t \in Seq(S)
    PROVE  /\ s \o t \in Seq(S)
           /\ Len(s \o t) = Len(s) + Len(t)
           /\ \A i \in 1 .. Len(s) : (s \o t)[i] = s[i]
           /\ \A i \in 1 .. Len(t) : (s \o t)[Len(s) + i] = t[i]
  OBVIOUS

\* Each piece is behind those before it, and what was joined first is the front of all.
InPlace(g, F, S, k) ==
    /\ g[0] = <<>>
    /\ \A i \in 0 .. k : g[i] \in Seq(S)
    /\ \A i \in 1 .. k : g[i] = g[i - 1] \o F[i] /\ Len(g[i]) = Len(g[i - 1]) + Len(F[i])
    /\ \A n \in 0 .. k : \A i \in 0 .. n :
          /\ Len(g[i]) <= Len(g[n])
          /\ \A j \in 1 .. Len(g[i]) : g[n][j] = g[i][j]

\* Each piece stands behind those before it, and what was joined stays where it is.
LEMMA JoinsFacts ==
    ASSUME NEW S, NEW k \in Nat, NEW F, Pieces(F, S, k), NEW g, Joins(g, F, k)
    PROVE  InPlace(g, F, S, k)
<1> USE DEF Pieces
<1>1. g[0] = <<>> /\ \A i \in 1 .. k : g[i] = g[i - 1] \o F[i]
  <2>1. \A i \in 0 .. k : g[i] = IF i = 0 THEN <<>> ELSE g[i - 1] \o F[i]
    BY DEF Joins
  <2>2. 0 \in 0 .. k /\ \A i \in 1 .. k : i \in 0 .. k /\ i # 0
    OBVIOUS
  <2> QED BY <2>1, <2>2
<1> DEFINE P == {i \in Nat : i <= k => g[i] \in Seq(S)}
<1>2. Nat \subseteq P
  <2>1. 0 \in P
    <3>1. <<>> \in Seq(S)
      OBVIOUS
    <3> QED BY <1>1, <3>1
  <2>2. ASSUME NEW n \in Nat, n \in P PROVE n + 1 \in P
    <3> SUFFICES ASSUME n + 1 <= k PROVE g[n + 1] \in Seq(S)
      OBVIOUS
    <3>1. g[n] \in Seq(S) /\ n + 1 \in 1 .. k /\ (n + 1) - 1 = n
      BY <2>2
    <3>2. g[n + 1] = g[n] \o F[n + 1] /\ F[n + 1] \in Seq(S)
      BY <1>1, <3>1
    <3> QED BY <3>1, <3>2
  <2> HIDE DEF P
  <2> QED BY <2>1, <2>2, NatSetInduction
<1>3. \A i \in 0 .. k : g[i] \in Seq(S)
  BY <1>2
<1>4. \A i \in 1 .. k : Len(g[i]) = Len(g[i - 1]) + Len(F[i])
  <2> SUFFICES ASSUME NEW i \in 1 .. k PROVE Len(g[i]) = Len(g[i - 1]) + Len(F[i])
    OBVIOUS
  <2>0. i - 1 \in 0 .. k
    OBVIOUS
  <2>1. g[i - 1] \in Seq(S) /\ F[i] \in Seq(S) /\ g[i] = g[i - 1] \o F[i]
    BY <1>1, <1>3, <2>0
  <2> QED BY <2>1
<1> DEFINE Keeps(n) == \A i \in 0 .. n : /\ Len(g[i]) <= Len(g[n])
                                          /\ \A j \in 1 .. Len(g[i]) : g[n][j] = g[i][j]
           Q == {n \in Nat : n <= k => Keeps(n)}
<1>5. Nat \subseteq Q
  <2>1. 0 \in Q
    BY <1>1
  <2>2. ASSUME NEW n \in Nat, n \in Q PROVE n + 1 \in Q
    <3> SUFFICES ASSUME n + 1 <= k PROVE Keeps(n + 1)
      OBVIOUS
    <3>1. /\ g[n] \in Seq(S) /\ F[n + 1] \in Seq(S) /\ g[n + 1] = g[n] \o F[n + 1]
          /\ Keeps(n)
      <4>1. n \in 0 .. k /\ n + 1 \in 1 .. k /\ (n + 1) - 1 = n /\ n <= k
        OBVIOUS
      <4>2. Keeps(n)
        BY <2>2, <4>1
      <4> HIDE DEF Keeps
      <4> QED BY <1>1, <1>3, <4>1, <4>2
    <3>2. /\ Len(g[n + 1]) = Len(g[n]) + Len(F[n + 1])
          /\ \A j \in 1 .. Len(g[n]) : g[n + 1][j] = g[n][j]
      <4> DEFINE a == g[n]
                 b == F[n + 1]
      <4>1. a \in Seq(S) /\ b \in Seq(S) /\ g[n + 1] = a \o b
        BY <3>1
      <4> HIDE DEF a, b
      <4>2. Len(a \o b) = Len(a) + Len(b) /\ \A j \in 1 .. Len(a) : (a \o b)[j] = a[j]
        BY <4>1, JoinedTwo
      <4>3. Len(g[n + 1]) = Len(a) + Len(b) /\ \A j \in 1 .. Len(a) : g[n + 1][j] = a[j]
        BY <4>1, <4>2
      <4> QED BY <4>3 DEF a, b
    <3> SUFFICES ASSUME NEW i \in 0 .. n + 1
                 PROVE  /\ Len(g[i]) <= Len(g[n + 1])
                        /\ \A j \in 1 .. Len(g[i]) : g[n + 1][j] = g[i][j]
      OBVIOUS
    <3>3. CASE i = n + 1
      <4>1. g[n + 1] \in Seq(S)
        BY <1>3
      <4> QED BY <3>3, <4>1
    <3>4. CASE i \in 0 .. n
      <4>1. g[i] \in Seq(S) /\ Len(g[i]) <= Len(g[n]) /\ \A j \in 1 .. Len(g[i]) : g[n][j] = g[i][j]
        BY <1>3, <3>1, <3>4
      <4>2. Len(g[i]) \in Nat /\ Len(g[n]) \in Nat /\ Len(F[n + 1]) \in Nat
        BY <3>1, <4>1
      <4> DEFINE x == Len(g[i])
                 y == Len(g[n])
                 z == Len(g[n + 1])
      <4>3. x \in Nat /\ y \in Nat /\ z = y + Len(F[n + 1]) /\ x <= y
        BY <3>2, <4>1, <4>2
      <4>4. \A j \in 1 .. x : g[n][j] = g[i][j]
        BY <4>1
      <4>5. \A j \in 1 .. y : g[n + 1][j] = g[n][j]
        BY <3>2
      <4> HIDE DEF x, y, z, Keeps
      <4>6. x <= z
        BY <4>2, <4>3
      <4>7. \A j \in 1 .. x : g[n + 1][j] = g[i][j]
        BY <4>3, <4>4, <4>5
      <4> QED BY <4>6, <4>7 DEF x, z
    <3> QED BY <3>3, <3>4
  <2> HIDE DEF Q
  <2> QED BY <2>1, <2>2, NatSetInduction
<1>6. \A n \in 0 .. k : Keeps(n)
  <2> HIDE DEF Keeps
  <2> QED BY <1>5
<1> QED BY <1>1, <1>3, <1>4, <1>6 DEF InPlace

\* The i-th piece is found behind the first i - 1.
Stands(g, F, k) ==
    \A i \in 1 .. k : /\ Len(g[i - 1]) + Len(F[i]) <= Len(g[k])
                      /\ \A j \in 1 .. Len(F[i]) : g[k][Len(g[i - 1]) + j] = F[i][j]

LEMMA PieceStands ==
    ASSUME NEW S, NEW k \in Nat, NEW F, Pieces(F, S, k), NEW g, Joins(g, F, k)
    PROVE  Stands(g, F, k)
<1> SUFFICES ASSUME NEW i \in 1 .. k
             PROVE  /\ Len(g[i - 1]) + Len(F[i]) <= Len(g[k])
                    /\ \A j \in 1 .. Len(F[i]) : g[k][Len(g[i - 1]) + j] = F[i][j]
  BY DEF Stands
<1>0. i \in 0 .. k /\ i - 1 \in 0 .. k /\ k \in 0 .. k /\ i \in 0 .. k
  OBVIOUS
<1>1. /\ \A n \in 0 .. k : g[n] \in Seq(S)
      /\ g[i] = g[i - 1] \o F[i]
      /\ Len(g[i]) <= Len(g[k]) /\ \A j \in 1 .. Len(g[i]) : g[k][j] = g[i][j]
  <2>1. InPlace(g, F, S, k)
    BY JoinsFacts
  <2>2. i \in 0 .. k /\ k \in 0 .. k
    OBVIOUS
  <2> QED BY <2>1, <2>2 DEF InPlace
<1> DEFINE a == g[i - 1]
           b == F[i]
<1>2. a \in Seq(S) /\ b \in Seq(S) /\ g[i] = a \o b
  BY <1>0, <1>1 DEF Pieces
<1> HIDE DEF a, b
<1>3. /\ Len(a \o b) = Len(a) + Len(b)
      /\ \A j \in 1 .. Len(b) : (a \o b)[Len(a) + j] = b[j]
  BY <1>2, JoinedTwo
<1>4. Len(a) \in Nat /\ Len(b) \in Nat
  BY <1>2
<1>5. ASSUME NEW j \in 1 .. Len(b) PROVE g[k][Len(a) + j] = b[j]
  <2>1. Len(a) + j \in 1 .. Len(g[i])
    BY <1>2, <1>3, <1>4
  <2> QED BY <1>1, <1>2, <1>3, <2>1
<1> QED BY <1>1, <1>2, <1>3, <1>5 DEF a, b

-----------------------------------------------------------------------------
(* A message as cells                                                      *)

Cells == {"int", "double", "char"} \X Nat \X (Int \cup STRING)

\* What operator<< can be given of each kind.
Values(kind) == CASE kind = "int" -> Int
                  [] kind = "double" -> Int
                  [] kind = "char" -> STRING
                  [] kind = "string" -> Seq(STRING)

NFields == Len(Fields)
NameAt(i) == Fields[i][1]
KindAt(i) == Fields[i][2]

\* The fields are those of a message, each of its kind.
LEMMA FieldsAre ==
    /\ NFields = 11 /\ DOMAIN Fields = 1 .. 11
    /\ \A m \in Message : /\ DOMAIN m = {NameAt(i) : i \in 1 .. 11}
                          /\ m = [f \in DOMAIN m |-> m[f]]
                          /\ \A i \in 1 .. 11 : m[NameAt(i)] \in Values(KindAt(i))
    /\ \A i \in 1 .. 11 : KindAt(i) \in {"int", "double", "char", "string"}
<1> USE DEF NameAt, KindAt
<1>1. NFields = 11 /\ DOMAIN Fields = 1 .. 11
  BY DEF Fields, NFields
<1>2. /\ Fields[1] = <<"m_nID", "int">> /\ Fields[2] = <<"m_cMsgType", "char">>
      /\ Fields[3] = <<"m_cDataType", "char">> /\ Fields[4] = <<"m_sSrc", "string">>
      /\ Fields[5] = <<"m_sSrcAux", "string">>
      /\ Fields[6] = <<"m_sOriginatingCommunity", "string">> /\ Fields[7] = <<"m_sKey", "string">>
      /\ Fields[8] = <<"m_dfTime", "double">> /\ Fields[9] = <<"m_dfVal", "double">>
      /\ Fields[10] = <<"m_dfVal2", "double">> /\ Fields[11] = <<"m_sVal", "string">>
  BY DEF Fields
<1>3. \A i \in 1 .. 11 : i \in {1, 2, 3, 4, 5, 6, 7, 8, 9, 10, 11}
  OBVIOUS
<1>4. {NameAt(i) : i \in 1 .. 11} =
        {"m_nID", "m_cMsgType", "m_cDataType", "m_sSrc", "m_sSrcAux", "m_sOriginatingCommunity",
         "m_sKey", "m_dfTime", "m_dfVal", "m_dfVal2", "m_sVal"}
  BY <1>2, <1>3
<1>5. ASSUME NEW m \in Message
      PROVE  /\ DOMAIN m = {"m_nID", "m_cMsgType", "m_cDataType", "m_sSrc", "m_sSrcAux",
                            "m_sOriginatingCommunity", "m_sKey", "m_dfTime", "m_dfVal", "m_dfVal2", "m_sVal"}
             /\ m = [f \in DOMAIN m |-> m[f]]
  BY DEF Message
<1>6. ASSUME NEW m \in Message, NEW i \in 1 .. 11
      PROVE  m[NameAt(i)] \in Values(KindAt(i)) /\ KindAt(i) \in {"int", "double", "char", "string"}
  <2>1. /\ m.m_nID \in Int /\ m.m_cMsgType \in STRING /\ m.m_cDataType \in STRING
        /\ m.m_sSrc \in Seq(STRING) /\ m.m_sSrcAux \in Seq(STRING)
        /\ m.m_sOriginatingCommunity \in Seq(STRING) /\ m.m_sKey \in Seq(STRING)
        /\ m.m_dfTime \in Int /\ m.m_dfVal \in Int /\ m.m_dfVal2 \in Int /\ m.m_sVal \in Seq(STRING)
    BY DEF Message
  <2>2. /\ Values("int") = Int /\ Values("double") = Int /\ Values("char") = STRING
        /\ Values("string") = Seq(STRING)
    BY DEF Values
  <2>3. CASE i \in {1, 2, 3}
    BY <1>2, <2>1, <2>2, <2>3
  <2>4. CASE i = 4 \/ i = 5
    BY <1>2, <2>1, <2>2, <2>4
  <2>7. CASE i = 6 \/ i = 7
    BY <1>2, <2>1, <2>2, <2>7
  <2>5. CASE i \in {8, 9, 10}
    BY <1>2, <2>1, <2>2, <2>5
  <2>6. CASE i = 11
    BY <1>2, <2>1, <2>2, <2>6
  <2> QED BY <1>3, <2>3, <2>4, <2>5, <2>6, <2>7
<1>7. \A i \in 1 .. 11 : KindAt(i) \in {"int", "double", "char", "string"}
  BY <1>2, <1>3
<1> QED BY <1>1, <1>4, <1>5, <1>6, <1>7

Room(kind, v) == CASE kind = "int" -> IntSize
                   [] kind = "double" -> DoubleSize
                   [] kind = "char" -> 1
                   [] kind = "string" -> IntSize + Len(v)

\* The cells of a field, and where its value is in them.
LEMMA FieldCellsFacts ==
    ASSUME NEW kind \in {"int", "double", "char", "string"}, NEW v \in Values(kind)
    PROVE  /\ FieldCells(kind, v) \in Seq(Cells)
           /\ Len(FieldCells(kind, v)) = Room(kind, v) /\ Room(kind, v) \in Nat \ {0}
           /\ kind # "string" => FieldCells(kind, v)[1][3] = v
           /\ kind = "string" => /\ FieldCells(kind, v)[1][3] = Len(v)
                                 /\ \A i \in 1 .. Len(v) : FieldCells(kind, v)[IntSize + i][3] = v[i]
<1>0. IntSize \in Nat \ {0} /\ DoubleSize \in Nat \ {0}
  BY WireAssumption
<1>1. ASSUME NEW x \in Int
      PROVE  /\ IntCells(x) \in Seq(Cells) /\ Len(IntCells(x)) = IntSize /\ IntCells(x)[1][3] = x
             /\ DoubleCells(x) \in Seq(Cells) /\ Len(DoubleCells(x)) = DoubleSize
             /\ DoubleCells(x)[1][3] = x
  BY <1>0 DEF IntCells, DoubleCells, Cells
<1>2. CASE kind = "int"
  BY <1>0, <1>1, <1>2 DEF FieldCells, Values, Room
<1>3. CASE kind = "double"
  BY <1>0, <1>1, <1>3 DEF FieldCells, Values, Room
<1>4. CASE kind = "char"
  BY <1>4 DEF FieldCells, Values, Room, CharCells, Cells
<1>5. CASE kind = "string"
  <2>1. v \in Seq(STRING) /\ Len(v) \in Nat /\ DOMAIN v = 1 .. Len(v)
    BY <1>5 DEF Values
  <2> DEFINE cs == [i \in DOMAIN v |-> <<"char", 1, v[i]>>]
             is == IntCells(Len(v))
  <2>2. cs \in Seq(Cells) /\ Len(cs) = Len(v) /\ \A i \in 1 .. Len(v) : cs[i][3] = v[i]
    <3>1. \A i \in 1 .. Len(v) : v[i] \in STRING /\ <<"char", 1, v[i]>> \in Cells
      BY <2>1 DEF Cells
    <3> QED BY <2>1, <3>1
  <2>3. is \in Seq(Cells) /\ Len(is) = IntSize /\ is[1][3] = Len(v)
    BY <1>1, <2>1
  <2>4. FieldCells(kind, v) = is \o cs
    BY <1>5 DEF FieldCells, StringCells
  <2> HIDE DEF cs, is
  <2>5. /\ is \o cs \in Seq(Cells)
        /\ Len(is \o cs) = IntSize + Len(v)
        /\ \A i \in 1 .. IntSize : (is \o cs)[i] = is[i]
        /\ \A i \in 1 .. Len(v) : (is \o cs)[IntSize + i] = cs[i]
    <3>1. /\ is \o cs \in Seq(Cells)
          /\ Len(is \o cs) = Len(is) + Len(cs)
          /\ \A i \in 1 .. Len(is) : (is \o cs)[i] = is[i]
          /\ \A i \in 1 .. Len(cs) : (is \o cs)[Len(is) + i] = cs[i]
      <4>1. is \in Seq(Cells) /\ cs \in Seq(Cells)
        BY <2>2, <2>3
      <4> QED BY <4>1, JoinedTwo
    <3>2. Len(is) = IntSize /\ Len(cs) = Len(v)
      BY <2>2, <2>3
    <3> QED BY <3>1, <3>2
  <2>6. 1 \in 1 .. IntSize /\ Room(kind, v) = IntSize + Len(v) /\ IntSize + Len(v) \in Nat \ {0}
    BY <1>0, <1>5, <2>1 DEF Room
  <2> QED BY <1>5, <2>2, <2>3, <2>4, <2>5, <2>6
<1> QED BY <1>2, <1>3, <1>4, <1>5

Piece(m) == [i \in 1 .. 11 |-> FieldCells(KindAt(i), m[NameAt(i)])]

\* The fields of a message one after another, as CMOOSMsg::Serialize writes them.
Bodies(m) == CHOOSE g : g = [i \in 0 .. Len(Fields) |->
                IF i = 0 THEN <<>> ELSE g[i - 1] \o FieldCells(Fields[i][2], m[Fields[i][1]])]

MsgText(m) == IntCells(IntSize + Len(Bodies(m)[Len(Fields)])) \o Bodies(m)[Len(Fields)]

LEMMA MsgToCellsIs ==
    ASSUME NEW m, NEW n
    PROVE  MsgToCells(m, n) = IF Len(MsgText(m)) <= n THEN MsgText(m) ELSE Unserialisable
  BY DEF MsgToCells, MsgText, Bodies

LEMMA BodiesJoin ==
    ASSUME NEW m \in Message
    PROVE  /\ Pieces(Piece(m), Cells, 11) /\ Joins(Bodies(m), Piece(m), 11)
           /\ \A i \in 1 .. 11 : /\ Piece(m)[i] = FieldCells(KindAt(i), m[NameAt(i)])
                                 /\ Len(Piece(m)[i]) = Room(KindAt(i), m[NameAt(i)])
<1>1. ASSUME NEW i \in 1 .. 11
      PROVE  /\ Piece(m)[i] = FieldCells(KindAt(i), m[NameAt(i)]) /\ Piece(m)[i] \in Seq(Cells)
             /\ Len(Piece(m)[i]) = Room(KindAt(i), m[NameAt(i)])
  <2>1. Piece(m)[i] = FieldCells(KindAt(i), m[NameAt(i)])
    BY DEF Piece
  <2>2. KindAt(i) \in {"int", "double", "char", "string"} /\ m[NameAt(i)] \in Values(KindAt(i))
    BY FieldsAre
  <2> QED BY <2>1, <2>2, FieldCellsFacts
<1>2. PICK g : Joins(g, Piece(m), 11)
  BY JoinsExist
<1>3. ASSUME NEW h
      PROVE  [i \in 0 .. 11 |-> IF i = 0 THEN <<>> ELSE h[i - 1] \o Piece(m)[i]]
               = [i \in 0 .. Len(Fields) |->
                    IF i = 0 THEN <<>> ELSE h[i - 1] \o FieldCells(Fields[i][2], m[Fields[i][1]])]
  <2>1. \A i \in 0 .. 11 : i = 0 \/ i \in 1 .. 11
    OBVIOUS
  <2>2. \A i \in 1 .. 11 : Piece(m)[i] = FieldCells(Fields[i][2], m[Fields[i][1]])
    BY DEF Piece, KindAt, NameAt
  <2>3. Len(Fields) = 11
    BY FieldsAre DEF NFields
  <2>4. ASSUME NEW i \in 0 .. 11
        PROVE  (IF i = 0 THEN <<>> ELSE h[i - 1] \o Piece(m)[i])
                 = (IF i = 0 THEN <<>> ELSE h[i - 1] \o FieldCells(Fields[i][2], m[Fields[i][1]]))
    BY <2>1, <2>2
  <2> QED BY <2>3, <2>4
<1> DEFINE P(h) == h = [i \in 0 .. Len(Fields) |->
                IF i = 0 THEN <<>> ELSE h[i - 1] \o FieldCells(Fields[i][2], m[Fields[i][1]])]
<1>4. P(g)
  BY <1>2, <1>3 DEF Joins
<1>5. Bodies(m) = CHOOSE h : P(h)
  BY DEF Bodies
<1>6. P(Bodies(m))
  <2> HIDE DEF P
  <2> QED BY <1>4, <1>5
<1>7. Joins(Bodies(m), Piece(m), 11)
  BY <1>3, <1>6 DEF Joins
<1> QED BY <1>1, <1>7 DEF Pieces

\* The size CMOOSMsg::GetSizeInBytesWhenSerialised foresees is the size it takes.
LEMMA TextHasItsSize ==
    ASSUME NEW m \in Message
    PROVE  /\ MsgText(m) \in Seq(Cells) /\ Len(MsgText(m)) = GetSizeInBytesWhenSerialised(m)
           /\ GetSizeInBytesWhenSerialised(m) \in Nat
           /\ Bodies(m)[11] \in Seq(Cells)
           /\ Len(MsgText(m)) = IntSize + Len(Bodies(m)[11])
           /\ \A j \in 1 .. IntSize : MsgText(m)[j][3] = Len(MsgText(m))
           /\ \A j \in 1 .. Len(Bodies(m)[11]) : MsgText(m)[IntSize + j] = Bodies(m)[11][j]
<1> DEFINE g == Bodies(m)
           l(i) == Len(g[i])
           r(i) == Room(KindAt(i), m[NameAt(i)])
<1>0. IntSize \in Nat \ {0} /\ DoubleSize \in Nat \ {0} /\ Len(Fields) = 11
  BY WireAssumption, FieldsAre DEF NFields
<1>1. InPlace(g, Piece(m), Cells, 11)
  BY BodiesJoin, JoinsFacts
<1>2. l(0) = 0 /\ \A i \in 1 .. 11 : l(i) = l(i - 1) + r(i)
  <2>1. g[0] = <<>> /\ \A i \in 1 .. 11 : Len(g[i]) = Len(g[i - 1]) + Len(Piece(m)[i])
    BY <1>1 DEF InPlace
  <2>2. \A i \in 1 .. 11 : Len(Piece(m)[i]) = r(i)
    BY BodiesJoin
  <2> QED BY <2>1, <2>2
<1>3. g[11] \in Seq(Cells)
  BY <1>1 DEF InPlace
<1>4. /\ r(1) = IntSize /\ r(2) = 1 /\ r(3) = 1
      /\ r(4) = IntSize + Len(m.m_sSrc) /\ r(5) = IntSize + Len(m.m_sSrcAux)
      /\ r(6) = IntSize + Len(m.m_sOriginatingCommunity) /\ r(7) = IntSize + Len(m.m_sKey)
      /\ r(8) = DoubleSize /\ r(9) = DoubleSize /\ r(10) = DoubleSize
      /\ r(11) = IntSize + Len(m.m_sVal)
  BY DEF Room, KindAt, NameAt, Fields
<1>5. l(11) = r(1) + r(2) + r(3) + r(4) + r(5) + r(6) + r(7) + r(8) + r(9) + r(10) + r(11)
  <2>1. \A i \in 1 .. 11 : r(i) \in Nat
    <3>1. \A i \in 1 .. 11 : KindAt(i) \in {"int", "double", "char", "string"} /\ m[NameAt(i)] \in Values(KindAt(i))
      BY FieldsAre
    <3> QED BY <3>1, FieldCellsFacts
  <2> HIDE DEF r, l
  <2>2. l(1) = r(1) /\ l(2) = l(1) + r(2) /\ l(3) = l(2) + r(3) /\ l(4) = l(3) + r(4)
    BY <1>2, <2>1
  <2>3. l(5) = l(4) + r(5) /\ l(6) = l(5) + r(6) /\ l(7) = l(6) + r(7) /\ l(8) = l(7) + r(8)
    BY <1>2
  <2>4. l(9) = l(8) + r(9) /\ l(10) = l(9) + r(10) /\ l(11) = l(10) + r(11)
    BY <1>2
  <2> QED BY <2>1, <2>2, <2>3, <2>4
<1>6. /\ Len(m.m_sSrc) \in Nat /\ Len(m.m_sSrcAux) \in Nat /\ Len(m.m_sOriginatingCommunity) \in Nat
      /\ Len(m.m_sKey) \in Nat /\ Len(m.m_sVal) \in Nat
  BY DEF Message
<1>7. GetSizeInBytesWhenSerialised(m) = IntSize + l(11) /\ GetSizeInBytesWhenSerialised(m) \in Nat
  <2> DEFINE a1 == Len(m.m_sSrc)
             a2 == Len(m.m_sSrcAux)
             a3 == Len(m.m_sOriginatingCommunity)
             a4 == Len(m.m_sKey)
             a5 == Len(m.m_sVal)
  <2>1. GetSizeInBytesWhenSerialised(m) = 2 * IntSize + 2 + 5 * IntSize + a1 + a2 + a3 + a4 + a5 + 3 * DoubleSize
    BY DEF GetSizeInBytesWhenSerialised
  <2>2. l(11) = IntSize + 1 + 1 + (IntSize + a1) + (IntSize + a2) + (IntSize + a3) + (IntSize + a4)
                  + DoubleSize + DoubleSize + DoubleSize + (IntSize + a5)
    <3> HIDE DEF l, r, a1, a2, a3, a4, a5
    <3>1. /\ r(4) = IntSize + a1 /\ r(5) = IntSize + a2 /\ r(6) = IntSize + a3
          /\ r(7) = IntSize + a4 /\ r(11) = IntSize + a5
      BY <1>4 DEF a1, a2, a3, a4, a5
    <3> QED BY <1>4, <1>5, <3>1
  <2>3. a1 \in Nat /\ a2 \in Nat /\ a3 \in Nat /\ a4 \in Nat /\ a5 \in Nat
    BY <1>6
  <2> HIDE DEF l, r, a1, a2, a3, a4, a5
  <2> QED BY <1>0, <2>1, <2>2, <2>3
<1> DEFINE a == IntCells(IntSize + Len(g[11]))
           b == g[11]
<1>8. MsgText(m) = a \o b
  BY <1>0 DEF MsgText
<1>9. a \in Seq(Cells) /\ Len(a) = IntSize /\ \A j \in 1 .. IntSize : a[j][3] = IntSize + Len(b)
  <2> DEFINE x == IntSize + Len(b)
  <2>1. x \in Int
    BY <1>0, <1>3
  <2>2. a = [i \in 1 .. IntSize |-> <<"int", i, x>>]
    BY DEF IntCells
  <2> HIDE DEF a, x
  <2>3. a \in Seq(Cells) /\ Len(a) = IntSize /\ \A j \in 1 .. IntSize : a[j][3] = x
    BY <1>0, <2>1, <2>2 DEF Cells
  <2> QED BY <2>3 DEF x
<1>10. b \in Seq(Cells) /\ Len(b) \in Nat
  BY <1>3
<1>11. Len(b) = l(11)
  OBVIOUS
<1> HIDE DEF a, b
<1>12. /\ a \o b \in Seq(Cells) /\ Len(a \o b) = Len(a) + Len(b)
       /\ \A j \in 1 .. Len(a) : (a \o b)[j] = a[j]
       /\ \A j \in 1 .. Len(b) : (a \o b)[Len(a) + j] = b[j]
  <2>1. a \in Seq(Cells) /\ b \in Seq(Cells)
    BY <1>9, <1>10
  <2> QED BY <2>1, JoinedTwo
<1>13. /\ MsgText(m) \in Seq(Cells) /\ Len(MsgText(m)) = IntSize + Len(b)
       /\ \A j \in 1 .. IntSize : MsgText(m)[j][3] = IntSize + Len(b)
       /\ \A j \in 1 .. Len(b) : MsgText(m)[IntSize + j] = b[j]
  BY <1>8, <1>9, <1>12
<1> HIDE DEF l
<1>14. b = Bodies(m)[11]
  BY DEF b
<1> QED BY <1>7, <1>10, <1>11, <1>13, <1>14

\* The cells of b from position start on are those of s.
Holds(b, start, s) == \A j \in 1 .. Len(s) : b[start + j] = s[j]

\* A field is read back as it was written.
LEMMA FieldIsReadBack ==
    ASSUME NEW kind \in {"int", "double", "char", "string"}, NEW v \in Values(kind), NEW b,
           NEW pos \in Nat, NEW n \in Nat, pos + Room(kind, v) <= n,
           Holds(b, pos, FieldCells(kind, v))
    PROVE  /\ ReadField(b, pos, n, kind).ok
           /\ ReadField(b, pos, n, kind).v = v
           /\ ReadField(b, pos, n, kind).pos = pos + Room(kind, v)
<1>0. IntSize \in Nat \ {0} /\ DoubleSize \in Nat \ {0}
  BY WireAssumption
<1> DEFINE c == FieldCells(kind, v)
<1>1. /\ Len(c) = Room(kind, v) /\ Room(kind, v) \in Nat \ {0}
      /\ kind # "string" => c[1][3] = v
      /\ kind = "string" => c[1][3] = Len(v) /\ \A i \in 1 .. Len(v) : c[IntSize + i][3] = v[i]
  BY FieldCellsFacts
<1>2. \A j \in 1 .. Room(kind, v) : b[pos + j] = c[j]
  BY <1>1 DEF Holds
<1> HIDE DEF c
<1>3. b[pos + 1] = c[1]
  BY <1>1, <1>2
<1>4. CASE kind = "int"
  BY <1>0, <1>1, <1>3, <1>4 DEF ReadField, Room
<1>5. CASE kind = "double"
  BY <1>0, <1>1, <1>3, <1>5 DEF ReadField, Room
<1>6. CASE kind = "char"
  BY <1>1, <1>3, <1>6 DEF ReadField, Room
<1>7. CASE kind = "string"
  <2>1. v \in Seq(STRING) /\ Len(v) \in Nat /\ Room(kind, v) = IntSize + Len(v)
    BY <1>7 DEF Values, Room
  <2>2. b[pos + 1][3] = Len(v)
    BY <1>1, <1>3, <1>7
  <2>3. ASSUME NEW i \in 1 .. Len(v) PROVE b[pos + IntSize + i][3] = v[i]
    <3>1. IntSize + i \in 1 .. Room(kind, v) /\ pos + (IntSize + i) = pos + IntSize + i
      BY <1>0, <2>1
    <3> QED BY <1>1, <1>2, <1>7, <3>1
  <2>4. v = [i \in 1 .. Len(v) |-> v[i]]
    BY <2>1
  <2>5. v = [i \in 1 .. Len(v) |-> b[pos + IntSize + i][3]]
    BY <2>3, <2>4
  <2>6. pos + IntSize <= n /\ pos + (IntSize + Len(v)) <= n
    BY <1>0, <2>1
  <2>7. ReadField(b, pos, n, kind) = [ok |-> TRUE, pos |-> pos + IntSize + Len(v),
                                      v |-> [i \in 1 .. Len(v) |-> b[pos + IntSize + i][3]]]
    BY <1>7, <2>2, <2>6 DEF ReadField
  <2> QED BY <1>0, <2>1, <2>5, <2>7
<1> QED BY <1>4, <1>5, <1>6, <1>7

\* The fields read one after another, as CMOOSMsg::Serialize reads them.
Reads(b, start, nLen) == CHOOSE g : g = [i \in 0 .. Len(Fields) |->
    IF i = 0 THEN ReadField(b, start, start + nLen, "int")
    ELSE IF g[i - 1].ok THEN ReadField(b, g[i - 1].pos, start + nLen, Fields[i][2]) ELSE g[i - 1]]

IsRead(b, start, nLen) ==
    /\ MsgFromCells(b, start, nLen).ok
    /\ MsgFromCells(b, start, nLen).used = ReadField(b, start, start + nLen, "int").v
    /\ MsgFromCells(b, start, nLen).m =
         [f \in {Fields[i][1] : i \in DOMAIN Fields} |->
            Reads(b, start, nLen)[CHOOSE i \in DOMAIN Fields : Fields[i][1] = f].v]

LEMMA MsgFromCellsIs ==
    ASSUME NEW b, NEW start, NEW nLen, Reads(b, start, nLen)[Len(Fields)].ok
    PROVE  IsRead(b, start, nLen)
<1> DEFINE index == [f \in {Fields[i][1] : i \in DOMAIN Fields} |->
                       CHOOSE i \in DOMAIN Fields : Fields[i][1] = f]
           Q == Reads(b, start, nLen)
           a == [f \in DOMAIN index |-> Q[index[f]].v]
           v == ReadField(b, start, start + nLen, "int").v
<1>1. MsgFromCells(b, start, nLen) = IF Q[Len(Fields)].ok THEN [ok |-> TRUE, used |-> v, m |-> a]
                                     ELSE [ok |-> FALSE, used |-> 0, m |-> EmptyMsg]
  BY DEF MsgFromCells, Reads
<1>2. a = [f \in {Fields[i][1] : i \in DOMAIN Fields} |->
             Q[CHOOSE i \in DOMAIN Fields : Fields[i][1] = f].v]
  <2> HIDE DEF Q
  <2> QED OBVIOUS
<1> HIDE DEF a, v
<1>3. /\ MsgFromCells(b, start, nLen).ok /\ MsgFromCells(b, start, nLen).used = v
      /\ MsgFromCells(b, start, nLen).m = a
  BY <1>1
<1> QED BY <1>2, <1>3 DEF v, IsRead

\* A message is read back as it was written, whatever follows it.
LEMMA MsgIsReadBack ==
    ASSUME NEW m \in Message, NEW b, NEW start \in Nat, NEW nLen \in Nat,
           Len(MsgText(m)) <= nLen, Holds(b, start, MsgText(m))
    PROVE  /\ MsgFromCells(b, start, nLen).ok
           /\ MsgFromCells(b, start, nLen).used = Len(MsgText(m))
           /\ MsgFromCells(b, start, nLen).m = m
<1> DEFINE g == Bodies(m)
           n == start + nLen
           p(i) == start + IntSize + Len(g[i])
           first == ReadField(b, start, n, "int")
           R == [i \in 0 .. 11 |-> IF i = 0 THEN first ELSE ReadField(b, p(i - 1), n, KindAt(i))]
<1>0. IntSize \in Nat \ {0} /\ NFields = 11 /\ n \in Nat
  BY WireAssumption, FieldsAre
<1>1. /\ MsgText(m) \in Seq(Cells) /\ g[11] \in Seq(Cells) /\ Len(MsgText(m)) = IntSize + Len(g[11])
      /\ \A j \in 1 .. IntSize : MsgText(m)[j][3] = Len(MsgText(m))
      /\ \A j \in 1 .. Len(g[11]) : MsgText(m)[IntSize + j] = g[11][j]
  BY TextHasItsSize
<1>2. InPlace(g, Piece(m), Cells, 11)
  BY BodiesJoin, JoinsFacts
<1>3. \A i \in 0 .. 11 : g[i] \in Seq(Cells) /\ Len(g[i]) \in Nat /\ p(i) \in Nat
  <2>1. \A i \in 0 .. 11 : g[i] \in Seq(Cells)
    BY <1>2 DEF InPlace
  <2> SUFFICES ASSUME NEW i \in 0 .. 11 PROVE g[i] \in Seq(Cells) /\ Len(g[i]) \in Nat /\ p(i) \in Nat
    OBVIOUS
  <2> HIDE DEF g
  <2> DEFINE x == g[i]
  <2>2. x \in Seq(Cells) /\ p(i) = start + IntSize + Len(x)
    BY <2>1
  <2> HIDE DEF x, p
  <2>3. Len(x) \in Nat /\ p(i) \in Nat
    BY <1>0, <2>2
  <2> QED BY <2>2, <2>3 DEF x
<1>4. first.ok /\ first.v = Len(MsgText(m)) /\ first.pos = p(0)
  <2>1. 1 \in 1 .. Len(MsgText(m)) /\ 1 \in 1 .. IntSize /\ IntSize <= nLen
    BY <1>0, <1>1
  <2>2. b[start + 1][3] = Len(MsgText(m))
    BY <1>1, <2>1 DEF Holds
  <2>3. g[0] = <<>>
    BY <1>2 DEF InPlace
  <2>4. start + IntSize <= start + nLen /\ Len(g[0]) = 0
    BY <1>0, <2>1, <2>3
  <2> HIDE DEF g
  <2> QED BY <1>0, <2>2, <2>4 DEF ReadField
<1>5. ASSUME NEW i \in 1 .. 11
      PROVE  LET f == ReadField(b, p(i - 1), n, KindAt(i)) IN
             f.ok /\ f.v = m[NameAt(i)] /\ f.pos = p(i)
  <2> DEFINE c == FieldCells(KindAt(i), m[NameAt(i)])
             room == Room(KindAt(i), m[NameAt(i)])
             q == Len(g[i - 1])
  <2>1. KindAt(i) \in {"int", "double", "char", "string"} /\ m[NameAt(i)] \in Values(KindAt(i))
    BY FieldsAre
  <2>2. Piece(m)[i] = c /\ Len(c) = room /\ room \in Nat \ {0}
    <3>1. Len(FieldCells(KindAt(i), m[NameAt(i)])) = Room(KindAt(i), m[NameAt(i)])
          /\ Room(KindAt(i), m[NameAt(i)]) \in Nat \ {0}
      BY <2>1, FieldCellsFacts
    <3>2. Piece(m)[i] = FieldCells(KindAt(i), m[NameAt(i)])
      BY BodiesJoin
    <3> QED BY <3>1, <3>2
  <2>3. q + room <= Len(g[11]) /\ \A j \in 1 .. room : g[11][q + j] = c[j]
    <3> HIDE DEF c, room, g
    <3>1. /\ Len(g[i - 1]) + Len(Piece(m)[i]) <= Len(g[11])
          /\ \A j \in 1 .. Len(Piece(m)[i]) : g[11][Len(g[i - 1]) + j] = Piece(m)[i][j]
      <4>1. Pieces(Piece(m), Cells, 11) /\ Joins(g, Piece(m), 11)
        BY BodiesJoin DEF g
      <4> DEFINE F == Piece(m)
      <4>2. Pieces(F, Cells, 11) /\ Joins(g, F, 11) /\ 11 \in Nat
        BY <4>1
      <4> HIDE DEF F
      <4>3. /\ Len(g[i - 1]) + Len(F[i]) <= Len(g[11])
            /\ \A j \in 1 .. Len(F[i]) : g[11][Len(g[i - 1]) + j] = F[i][j]
        <5>1. Stands(g, F, 11)
          <6> HIDE DEF g
          <6> QED BY <4>2, PieceStands
        <5> QED BY <5>1 DEF Stands
      <4> QED BY <4>3 DEF F
    <3> QED BY <2>2, <3>1
  <2>4. i - 1 \in 0 .. 11 /\ i \in 0 .. 11 /\ q \in Nat /\ p(i - 1) \in Nat /\ Len(g[11]) \in Nat
    <3>1. i - 1 \in 0 .. 11 /\ i \in 0 .. 11 /\ 11 \in 0 .. 11
      OBVIOUS
    <3> HIDE DEF g, p
    <3> QED BY <1>3, <3>1
  <2> HIDE DEF c, room, q
  <2>5. p(i - 1) = start + IntSize + q
    BY DEF q
  <2>6. ASSUME NEW j \in 1 .. room PROVE b[p(i - 1) + j] = c[j]
    <3>1. q + j \in 1 .. Len(g[11]) /\ IntSize + (q + j) \in 1 .. Len(MsgText(m))
      BY <1>0, <1>1, <2>2, <2>3, <2>4
    <3>2. start + (IntSize + (q + j)) = p(i - 1) + j
      <4> HIDE DEF p
      <4> QED BY <1>0, <2>2, <2>4, <2>5
    <3>3. b[start + (IntSize + (q + j))] = MsgText(m)[IntSize + (q + j)]
      BY <3>1 DEF Holds
    <3>4. MsgText(m)[IntSize + (q + j)] = g[11][q + j]
      BY <1>1, <3>1
    <3> QED BY <2>3, <3>2, <3>3, <3>4
  <2>7. Holds(b, p(i - 1), c)
    BY <2>2, <2>6 DEF Holds
  <2>8. p(i - 1) + room <= n
    <3>1. start + IntSize + q + room <= start + (IntSize + Len(g[11]))
      BY <1>0, <2>2, <2>3, <2>4
    <3>2. n = start + nLen /\ IntSize + Len(g[11]) <= nLen
      BY <1>1
    <3> HIDE DEF g, p, n
    <3> QED BY <1>0, <2>2, <2>4, <2>5, <3>1, <3>2
  <2>9. p(i) = p(i - 1) + room
    <3>1. Len(g[i]) = q + room
      BY <1>2, <2>2 DEF InPlace, q
    <3>2. p(i) = start + IntSize + Len(g[i])
      OBVIOUS
    <3> HIDE DEF p, g
    <3> QED BY <1>0, <2>2, <2>4, <2>5, <3>1, <3>2
  <2> HIDE DEF g, p, n
  <2>10. Holds(b, p(i - 1), FieldCells(KindAt(i), m[NameAt(i)]))
         /\ p(i - 1) + Room(KindAt(i), m[NameAt(i)]) <= n
    BY <2>7, <2>8 DEF c, room
  <2>11. ReadField(b, p(i - 1), n, KindAt(i)).pos = p(i - 1) + room
    BY <1>0, <2>1, <2>4, <2>10, FieldIsReadBack DEF room
  <2> QED BY <1>0, <2>1, <2>4, <2>9, <2>10, <2>11, FieldIsReadBack
<1> DEFINE E(h) == h = [i \in 0 .. Len(Fields) |->
              IF i = 0 THEN ReadField(b, start, start + nLen, "int")
              ELSE IF h[i - 1].ok THEN ReadField(b, h[i - 1].pos, start + nLen, Fields[i][2]) ELSE h[i - 1]]
           Q == Reads(b, start, nLen)
<1>6. /\ R[0] = first
      /\ \A i \in 1 .. 11 : R[i] = ReadField(b, p(i - 1), n, KindAt(i))
  <2> HIDE DEF p, n
  <2> QED OBVIOUS
<1>7. \A i \in 0 .. 11 : R[i].ok /\ R[i].pos = p(i)
  <2> HIDE DEF p, n, R, first
  <2>1. \A i \in 0 .. 11 : i = 0 \/ i \in 1 .. 11
    OBVIOUS
  <2> QED BY <1>4, <1>5, <1>6, <2>1
<1>8. E(R)
  <2>1. ASSUME NEW i \in 0 .. 11
        PROVE  R[i] = IF i = 0 THEN ReadField(b, start, start + nLen, "int")
                      ELSE IF R[i - 1].ok THEN ReadField(b, R[i - 1].pos, start + nLen, Fields[i][2]) ELSE R[i - 1]
    <3>1. CASE i = 0
      BY <1>6, <3>1
    <3>2. CASE i \in 1 .. 11
      <4>1. i - 1 \in 0 .. 11 /\ i # 0
        BY <3>2
      <4>2. R[i - 1].ok /\ R[i - 1].pos = p(i - 1)
        BY <1>7, <4>1
      <4>3. R[i] = ReadField(b, p(i - 1), n, KindAt(i))
        BY <1>6, <3>2
      <4> HIDE DEF R, p
      <4> QED BY <4>1, <4>2, <4>3 DEF KindAt
    <3> QED BY <3>1, <3>2
  <2>2. R = [i \in 0 .. 11 |-> R[i]]
    BY Zenon
  <2> HIDE DEF R
  <2> QED BY <1>0, <2>1, <2>2 DEF NFields
<1>9. E(Q)
  <2>1. Q = CHOOSE h : E(h)
    BY DEF Reads
  <2> HIDE DEF E, Q, R
  <2> QED BY <1>8, <2>1
<1>10. \A i \in 0 .. 11 : Q[i] = R[i]
  <2> DEFINE T == {i \in Nat : i <= 11 => Q[i] = R[i]}
  <2>1. \A i \in 0 .. 11 : Q[i] = IF i = 0 THEN first
             ELSE IF Q[i - 1].ok THEN ReadField(b, Q[i - 1].pos, n, Fields[i][2]) ELSE Q[i - 1]
    <3> HIDE DEF Q
    <3> QED BY <1>0, <1>9 DEF NFields
  <2>2. \A i \in 0 .. 11 : R[i] = IF i = 0 THEN first
             ELSE IF R[i - 1].ok THEN ReadField(b, R[i - 1].pos, n, Fields[i][2]) ELSE R[i - 1]
    <3> HIDE DEF R
    <3> QED BY <1>0, <1>8 DEF NFields
  <2> HIDE DEF Q, R, first, n
  <2>3. 0 \in T
    <3>1. 0 \in 0 .. 11
      OBVIOUS
    <3> QED BY <2>1, <2>2, <3>1
  <2>4. ASSUME NEW i \in Nat, i \in T PROVE i + 1 \in T
    <3> SUFFICES ASSUME i + 1 <= 11 PROVE Q[i + 1] = R[i + 1]
      OBVIOUS
    <3>1. i + 1 \in 0 .. 11 /\ (i + 1) - 1 = i /\ i + 1 # 0 /\ Q[i] = R[i]
      BY <2>4
    <3> DEFINE k == i + 1
    <3>2. k \in 0 .. 11 /\ k # 0 /\ Q[k - 1] = R[k - 1]
      BY <3>1
    <3> HIDE DEF k
    <3>3. Q[k] = R[k]
      BY <2>1, <2>2, <3>2
    <3> QED BY <3>3 DEF k
  <2> HIDE DEF T
  <2>5. Nat \subseteq T
    BY <2>3, <2>4, NatSetInduction
  <2> QED BY <2>5 DEF T
<1> HIDE DEF Q, R, E
<1>11. Q[Len(Fields)].ok
  <2>1. 11 \in 0 .. 11
    OBVIOUS
  <2> QED BY <1>0, <1>7, <1>10, <2>1 DEF NFields
<1>12. \A i \in 1 .. 11 : Q[i].v = m[NameAt(i)]
  <2>1. \A i \in 1 .. 11 : i \in 0 .. 11
    OBVIOUS
  <2> HIDE DEF p
  <2> QED BY <1>5, <1>6, <1>10, <2>1
<1> DEFINE a == [f \in {Fields[i][1] : i \in DOMAIN Fields} |->
                   Q[CHOOSE i \in DOMAIN Fields : Fields[i][1] = f].v]
<1>13. a = m
  <2>1. DOMAIN Fields = 1 .. 11 /\ DOMAIN m = {NameAt(i) : i \in 1 .. 11} /\ m = [f \in DOMAIN m |-> m[f]]
    BY FieldsAre
  <2>2. {Fields[i][1] : i \in DOMAIN Fields} = DOMAIN m
    BY <2>1 DEF NameAt
  <2>3. ASSUME NEW f \in DOMAIN m PROVE a[f] = m[f]
    <3> DEFINE i == CHOOSE i \in DOMAIN Fields : Fields[i][1] = f
    <3>1. i \in DOMAIN Fields /\ Fields[i][1] = f
      BY <2>2
    <3>2. a[f] = Q[i].v
      BY <2>2
    <3> HIDE DEF i
    <3> QED BY <1>12, <2>1, <3>1, <3>2 DEF NameAt
  <2>4. a = [f \in DOMAIN m |-> a[f]]
    BY <2>2
  <2> HIDE DEF a
  <2> QED BY <2>1, <2>3, <2>4
<1>14. /\ MsgFromCells(b, start, nLen).ok /\ MsgFromCells(b, start, nLen).used = first.v
       /\ MsgFromCells(b, start, nLen).m = a
  <2>1. Reads(b, start, nLen)[Len(Fields)].ok
    BY <1>11 DEF Q
  <2>2. IsRead(b, start, nLen)
    BY <2>1, MsgFromCellsIs
  <2> QED BY <2>2, Zenon DEF Q, IsRead
<1> QED BY <1>4, <1>13, <1>14

-----------------------------------------------------------------------------
(* A packet as cells                                                       *)

Texts(list) == [i \in 1 .. Len(list) |-> MsgText(list[i])]

LEMMA TextsArePieces ==
    ASSUME NEW list \in Seq(Message)
    PROVE  /\ Pieces(Texts(list), Cells, Len(list))
           /\ \A i \in 1 .. Len(list) :
                 /\ list[i] \in Message /\ Texts(list)[i] = MsgText(list[i])
                 /\ Len(Texts(list)[i]) = GetSizeInBytesWhenSerialised(list[i])
                 /\ Len(Texts(list)[i]) \in Nat /\ Len(Texts(list)[i]) > 1
<1> SUFFICES ASSUME NEW i \in 1 .. Len(list)
             PROVE  /\ list[i] \in Message /\ Texts(list)[i] = MsgText(list[i])
                    /\ Texts(list)[i] \in Seq(Cells)
                    /\ Len(Texts(list)[i]) = GetSizeInBytesWhenSerialised(list[i])
                    /\ Len(Texts(list)[i]) \in Nat /\ Len(Texts(list)[i]) > 1
  BY DEF Pieces
<1> DEFINE m == list[i]
<1>1. m \in Message /\ Texts(list)[i] = MsgText(m)
  BY DEF Texts
<1> HIDE DEF m
<1>2. MsgText(m) \in Seq(Cells) /\ Len(MsgText(m)) = GetSizeInBytesWhenSerialised(m)
  BY <1>1, TextHasItsSize
<1>3. GetSizeInBytesWhenSerialised(m) \in Nat /\ GetSizeInBytesWhenSerialised(m) > 1
  <2> DEFINE a1 == Len(m.m_sSrc)
             a2 == Len(m.m_sSrcAux)
             a3 == Len(m.m_sOriginatingCommunity)
             a4 == Len(m.m_sKey)
             a5 == Len(m.m_sVal)
  <2>1. GetSizeInBytesWhenSerialised(m) = 2 * IntSize + 2 + 5 * IntSize + a1 + a2 + a3 + a4 + a5 + 3 * DoubleSize
    BY DEF GetSizeInBytesWhenSerialised
  <2>2. a1 \in Nat /\ a2 \in Nat /\ a3 \in Nat /\ a4 \in Nat /\ a5 \in Nat
    BY <1>1 DEF Message
  <2>3. IntSize \in Nat /\ DoubleSize \in Nat
    BY WireAssumption
  <2> HIDE DEF a1, a2, a3, a4, a5
  <2> QED BY <2>1, <2>2, <2>3
<1> QED BY <1>1, <1>2, <1>3 DEF m

\* No text of messages is taken for the -1 of an error.
LEMMA TextsAreSerialisable ==
    ASSUME NEW list \in Seq(Message), NEW g, Joins(g, Texts(list), Len(list)), NEW i \in 0 .. Len(list)
    PROVE  /\ g[i] \in Seq(Cells) /\ Len(g[i]) \in Nat /\ g[i] # Unserialisable
           /\ i # 0 => MsgText(list[i]) # Unserialisable
<1>0. Len(list) \in Nat
  OBVIOUS
<1>1. InPlace(g, Texts(list), Cells, Len(list))
  BY <1>0, TextsArePieces, JoinsFacts
<1>2. g[i] \in Seq(Cells)
  BY <1>1 DEF InPlace
<1>3. \A x : Len(x) # 1 => x # Unserialisable
  <2>1. Len(Unserialisable) = 1
    BY DEF Unserialisable
  <2> QED BY <2>1
<1>4. CASE i = 0
  <2>1. g[0] = <<>>
    BY <1>1 DEF InPlace
  <2>2. Len(g[0]) = 0
    BY <2>1
  <2>3. Len(g[i]) = 0
    BY <1>4, <2>2
  <2>4. g[i] # Unserialisable
    <3>1. Len(g[i]) # 1
      BY <2>3
    <3> QED BY <1>3, <3>1, Zenon
  <2> QED BY <1>2, <1>4, <2>3, <2>4
<1>5. CASE i # 0
  <2>1. i \in 1 .. Len(list) /\ i - 1 \in 0 .. Len(list)
    BY <1>5
  <2>2. Len(g[i]) = Len(g[i - 1]) + Len(Texts(list)[i]) /\ g[i - 1] \in Seq(Cells)
    BY <1>1, <2>1 DEF InPlace
  <2>3. Len(g[i - 1]) \in Nat
    <3> DEFINE x == g[i - 1]
    <3>1. x \in Seq(Cells)
      BY <2>2
    <3> HIDE DEF x
    <3>2. Len(x) \in Nat
      BY <3>1
    <3> QED BY <3>2 DEF x
  <2>4. Texts(list)[i] = MsgText(list[i]) /\ Len(Texts(list)[i]) \in Nat /\ Len(Texts(list)[i]) > 1
    BY <2>1, TextsArePieces
  <2> DEFINE x == Len(g[i - 1])
             y == Len(Texts(list)[i])
             z == Len(g[i])
  <2>5. z = x + y /\ x \in Nat /\ y \in Nat /\ y > 1
    BY <2>2, <2>3, <2>4
  <2> HIDE DEF x, y, z
  <2>6. z \in Nat /\ z # 1 /\ y # 1
    BY <2>5
  <2>7. g[i] # Unserialisable
    BY <1>3, <2>6 DEF z
  <2>8. MsgText(list[i]) # Unserialisable
    BY <1>3, <2>4, <2>6 DEF y
  <2> QED BY <1>2, <2>6, <2>7, <2>8 DEF z
<1> QED BY <1>4, <1>5

Sums(list) == CHOOSE h : h = [i \in 0 .. Len(list) |->
                IF i = 0 THEN 0 ELSE h[i - 1] + GetSizeInBytesWhenSerialised(list[i])]

\* The room that is asked for is the room of the messages.
LEMMA SizesSumUp ==
    ASSUME NEW list \in Seq(Message), NEW g, Joins(g, Texts(list), Len(list))
    PROVE  SumOfSizes(list) = Len(g[Len(list)])
<1> DEFINE k == Len(list)
           E(h) == h = [i \in 0 .. Len(list) |->
                     IF i = 0 THEN 0 ELSE h[i - 1] + GetSizeInBytesWhenSerialised(list[i])]
           R == [i \in 0 .. k |-> Len(g[i])]
           Q == Sums(list)
<1>0. k \in Nat
  OBVIOUS
<1>1. InPlace(g, Texts(list), Cells, Len(list))
  BY <1>0, TextsArePieces, JoinsFacts
<1>2. \A i \in 0 .. k : R[i] = IF i = 0 THEN 0 ELSE R[i - 1] + GetSizeInBytesWhenSerialised(list[i])
  <2> SUFFICES ASSUME NEW i \in 0 .. k
               PROVE  R[i] = IF i = 0 THEN 0 ELSE R[i - 1] + GetSizeInBytesWhenSerialised(list[i])
    OBVIOUS
  <2>1. CASE i = 0
    <3>1. g[0] = <<>>
      BY <1>1 DEF InPlace
    <3>2. Len(g[0]) = 0
      BY <3>1
    <3> QED BY <2>1, <3>2
  <2>2. CASE i # 0
    <3>1. i \in 1 .. Len(list) /\ i - 1 \in 0 .. k
      BY <2>2
    <3>2. Len(g[i]) = Len(g[i - 1]) + Len(Texts(list)[i])
      BY <1>1, <3>1 DEF InPlace
    <3>3. Len(Texts(list)[i]) = GetSizeInBytesWhenSerialised(list[i])
      BY <3>1, TextsArePieces
    <3>4. R[i] = Len(g[i]) /\ R[i - 1] = Len(g[i - 1])
      BY <3>1
    <3> HIDE DEF R
    <3> QED BY <2>2, <3>2, <3>3, <3>4
  <2> QED BY <2>1, <2>2
<1>3. E(R)
  <2>1. R = [i \in 0 .. k |-> R[i]]
    BY Zenon
  <2> HIDE DEF R
  <2> QED BY <1>2, <2>1
<1>4. E(Q)
  <2>1. Q = CHOOSE h : E(h)
    BY DEF Sums
  <2> HIDE DEF E, Q, R
  <2> QED BY <1>3, <2>1
<1>5. \A i \in 0 .. k : Q[i] = IF i = 0 THEN 0 ELSE Q[i - 1] + GetSizeInBytesWhenSerialised(list[i])
  <2> HIDE DEF Q
  <2> QED BY <1>4
<1> HIDE DEF Q, R, E, k
<1> DEFINE T == {i \in Nat : i <= k => Q[i] = R[i]}
<1>6. 0 \in T
  <2>1. 0 \in 0 .. k
    BY <1>0
  <2> QED BY <1>2, <1>5, <2>1
<1>7. ASSUME NEW n \in Nat, n \in T PROVE n + 1 \in T
  <2> SUFFICES ASSUME n + 1 <= k PROVE Q[n + 1] = R[n + 1]
    OBVIOUS
  <2> DEFINE i == n + 1
  <2>1. i \in 0 .. k /\ i # 0 /\ Q[i - 1] = R[i - 1]
    BY <1>0, <1>7
  <2> HIDE DEF i
  <2>2. Q[i] = R[i]
    BY <1>2, <1>5, <2>1
  <2> QED BY <2>2 DEF i
<1> HIDE DEF T
<1>8. Nat \subseteq T
  BY <1>6, <1>7, NatSetInduction
<1>9. Q[k] = R[k] /\ R[k] = Len(g[k])
  <2>1. k \in 0 .. k /\ k \in Nat
    BY <1>0 DEF k
  <2>2. Q[k] = R[k]
    BY <1>8, <2>1 DEF T
  <2> QED BY <2>1, <2>2 DEF R
<1>10. SumOfSizes(list) = Q[k]
  BY DEF SumOfSizes, Q, k, Sums
<1> QED BY <1>9, <1>10 DEF k

Bods(list) == CHOOSE h : h = [i \in 0 .. Len(list) |->
    IF i = 0 THEN <<>>
    ELSE LET prev == h[i - 1]
             c    == MsgToCells(list[i], (HeaderSize + SumOfSizes(list)) - HeaderSize - Len(prev))
         IN  IF prev = Unserialisable \/ c = Unserialisable THEN Unserialisable ELSE prev \o c]

Framed(list, body) ==
    IntCells(HeaderSize + Len(body)) \o IntCells(Len(list)) \o CharCells(0) \o body

LEMMA PktToCellsIs ==
    ASSUME NEW list
    PROVE  PktToCells(list) = IF Bods(list)[Len(list)] = Unserialisable THEN Unserialisable
                              ELSE Framed(list, Bods(list)[Len(list)])
  BY DEF PktToCells, Bods, Framed

\* The messages fit: none of them is too long for what is left of the buffer.
LEMMA MessagesFit ==
    ASSUME NEW list \in Seq(Message), NEW g, Joins(g, Texts(list), Len(list))
    PROVE  PktToCells(list) = Framed(list, g[Len(list)]) /\ g[Len(list)] \in Seq(Cells)
<1> DEFINE k == Len(list)
           size == HeaderSize + SumOfSizes(list)
           Step(h, i) ==
             LET prev == h[i - 1]
                 c    == MsgToCells(list[i], size - HeaderSize - Len(prev))
             IN  IF prev = Unserialisable \/ c = Unserialisable THEN Unserialisable ELSE prev \o c
           E(h) == h = [i \in 0 .. Len(list) |-> IF i = 0 THEN <<>> ELSE Step(h, i)]
           Q == Bods(list)
<1>0. k \in Nat /\ HeaderSize \in Nat
  BY WireAssumption DEF HeaderSize
<1>1. InPlace(g, Texts(list), Cells, Len(list))
  BY <1>0, TextsArePieces, JoinsFacts
<1>2. \A i \in 0 .. k : g[i] = IF i = 0 THEN <<>> ELSE Step(g, i)
  <2> SUFFICES ASSUME NEW i \in 0 .. k PROVE g[i] = IF i = 0 THEN <<>> ELSE Step(g, i)
    OBVIOUS
  <2>1. CASE i = 0
    BY <1>1, <2>1 DEF InPlace
  <2>2. CASE i # 0
    <3>1. i \in 1 .. Len(list) /\ i - 1 \in 0 .. k /\ k \in 0 .. k
      BY <1>0, <2>2
    <3>2. g[i] = g[i - 1] \o Texts(list)[i] /\ Len(g[i]) = Len(g[i - 1]) + Len(Texts(list)[i])
      BY <1>1, <3>1 DEF InPlace
    <3>3. Len(g[i]) <= Len(g[k])
      <4>1. k \in 0 .. Len(list) /\ i \in 0 .. k
        BY <3>1
      <4> QED BY <1>1, <4>1 DEF InPlace
    <3>4. g[i - 1] # Unserialisable /\ Len(g[i - 1]) \in Nat
      BY <3>1, TextsAreSerialisable
    <3>5. MsgText(list[i]) # Unserialisable /\ Len(g[i]) \in Nat /\ Len(g[k]) \in Nat
      BY <2>2, <3>1, TextsAreSerialisable
    <3>6. Texts(list)[i] = MsgText(list[i]) /\ Len(Texts(list)[i]) \in Nat
      BY <3>1, TextsArePieces
    <3>7. size = HeaderSize + Len(g[k])
      BY SizesSumUp
    <3> DEFINE x == Len(g[i - 1])
               y == Len(MsgText(list[i]))
               z == Len(g[k])
    <3>8. x \in Nat /\ y \in Nat /\ z \in Nat /\ x + y <= z /\ size = HeaderSize + z
      BY <3>2, <3>3, <3>4, <3>5, <3>6, <3>7
    <3> HIDE DEF x, y, z, size
    <3>9. y <= size - HeaderSize - x
      BY <1>0, <3>8
    <3>10. MsgToCells(list[i], size - HeaderSize - x) = MsgText(list[i])
      BY <3>9, MsgToCellsIs DEF y
    <3>11. MsgToCells(list[i], size - HeaderSize - Len(g[i - 1])) = MsgText(list[i])
      BY <3>10 DEF x
    <3> QED BY <2>2, <3>2, <3>4, <3>5, <3>6, <3>11
  <2> QED BY <2>1, <2>2
<1>3. E(g)
  <2>1. g = [i \in 0 .. k |-> g[i]]
    BY Zenon DEF Joins
  <2> HIDE DEF Step
  <2> QED BY <1>2, <2>1
<1>4. E(Q)
  <2>1. Q = CHOOSE h : E(h)
    BY DEF Bods
  <2> HIDE DEF E, Q
  <2> QED BY <1>3, <2>1
<1>5. \A i \in 0 .. k : Q[i] = IF i = 0 THEN <<>> ELSE Step(Q, i)
  <2> HIDE DEF Q, Step
  <2> QED BY <1>4
<1> HIDE DEF Q, E
<1> DEFINE T == {i \in Nat : i <= k => Q[i] = g[i]}
<1>6. 0 \in T
  <2>1. 0 \in 0 .. k
    BY <1>0
  <2> HIDE DEF Step
  <2> QED BY <1>2, <1>5, <2>1
<1>7. ASSUME NEW n \in Nat, n \in T PROVE n + 1 \in T
  <2> SUFFICES ASSUME n + 1 <= k PROVE Q[n + 1] = g[n + 1]
    OBVIOUS
  <2> DEFINE i == n + 1
  <2>1. i \in 0 .. k /\ i # 0 /\ Q[i - 1] = g[i - 1]
    BY <1>0, <1>7
  <2> HIDE DEF i, size, k
  <2>2. Step(Q, i) = Step(g, i)
    BY <2>1
  <2> HIDE DEF Step
  <2>3. Q[i] = g[i]
    BY <1>2, <1>5, <2>1, <2>2
  <2> QED BY <2>3 DEF i
<1> HIDE DEF T
<1>8. Nat \subseteq T
  BY <1>6, <1>7, NatSetInduction
<1>9. Q[k] = g[k]
  <2> HIDE DEF k
  <2>1. k \in T /\ k <= k
    BY <1>0, <1>8
  <2> QED BY <2>1 DEF T
<1>10. g[k] # Unserialisable /\ g[k] \in Seq(Cells)
  <2>1. k \in 0 .. Len(list)
    BY <1>0
  <2> QED BY <2>1, TextsAreSerialisable
<1> QED BY <1>9, <1>10, PktToCellsIs DEF Q

\* What the frame of a packet says, and where its body is.
LEMMA FrameFacts ==
    ASSUME NEW list \in Seq(Message), NEW body \in Seq(Cells)
    PROVE  /\ Framed(list, body) \in Seq(Cells)
           /\ Len(Framed(list, body)) = HeaderSize + Len(body)
           /\ Framed(list, body)[1][3] = HeaderSize + Len(body)
           /\ Framed(list, body)[IntSize + 1][3] = Len(list)
           /\ Holds(Framed(list, body), HeaderSize, body)
<1>0. IntSize \in Nat \ {0} /\ Len(list) \in Nat /\ Len(body) \in Nat /\ HeaderSize = 2 * IntSize + 1
  BY WireAssumption DEF HeaderSize
<1> DEFINE n == HeaderSize + Len(body)
           a == IntCells(n)
           b == IntCells(Len(list))
           c == CharCells(0)
<1>1. ASSUME NEW x \in Int
      PROVE  IntCells(x) \in Seq(Cells) /\ Len(IntCells(x)) = IntSize /\ IntCells(x)[1][3] = x
  BY <1>0 DEF IntCells, Cells
<1>2. a \in Seq(Cells) /\ Len(a) = IntSize /\ a[1][3] = n
  <2>1. n \in Int
    BY <1>0
  <2> HIDE DEF n
  <2> QED BY <1>1, <2>1
<1>3. b \in Seq(Cells) /\ Len(b) = IntSize /\ b[1][3] = Len(list)
  <2>1. Len(list) \in Int
    BY <1>0
  <2> QED BY <1>1, <2>1
<1>4. c \in Seq(Cells) /\ Len(c) = 1
  BY DEF CharCells, Cells
<1>5. Framed(list, body) = ((a \o b) \o c) \o body
  BY DEF Framed
<1> HIDE DEF a, b, c, n
<1> DEFINE ab == a \o b
           abc == ab \o c
           abcd == abc \o body
<1>6. /\ ab \in Seq(Cells) /\ Len(ab) = Len(a) + Len(b)
      /\ \A i \in 1 .. Len(a) : ab[i] = a[i]
      /\ \A i \in 1 .. Len(b) : ab[Len(a) + i] = b[i]
  <2>1. a \in Seq(Cells) /\ b \in Seq(Cells)
    BY <1>2, <1>3
  <2> QED BY <2>1, JoinedTwo
<1>7. /\ abc \in Seq(Cells) /\ Len(abc) = Len(ab) + Len(c)
      /\ \A i \in 1 .. Len(ab) : abc[i] = ab[i]
  <2>1. ab \in Seq(Cells) /\ c \in Seq(Cells)
    BY <1>4, <1>6
  <2> HIDE DEF ab
  <2> QED BY <2>1, JoinedTwo
<1>8. /\ abcd \in Seq(Cells) /\ Len(abcd) = Len(abc) + Len(body)
      /\ \A i \in 1 .. Len(abc) : abcd[i] = abc[i]
      /\ \A i \in 1 .. Len(body) : abcd[Len(abc) + i] = body[i]
  <2>1. abc \in Seq(Cells) /\ body \in Seq(Cells)
    BY <1>7
  <2> HIDE DEF abc
  <2> QED BY <2>1, JoinedTwo
<1>9. Framed(list, body) = abcd
  BY <1>5
<1> HIDE DEF abcd, abc, ab
<1>10. Len(ab) = 2 * IntSize /\ Len(abc) = HeaderSize /\ Len(abcd) = HeaderSize + Len(body)
  BY <1>0, <1>2, <1>3, <1>4, <1>6, <1>7, <1>8
<1>11. abcd[1] = a[1] /\ abcd[IntSize + 1] = b[1]
  <2>1. /\ 1 \in 1 .. Len(a) /\ 1 \in 1 .. Len(b) /\ 1 \in 1 .. Len(ab) /\ 1 \in 1 .. Len(abc)
        /\ IntSize + 1 \in 1 .. Len(ab) /\ IntSize + 1 \in 1 .. Len(abc)
    <3>1. Len(a) = IntSize /\ Len(b) = IntSize /\ Len(ab) = 2 * IntSize /\ Len(abc) = 2 * IntSize + 1
      BY <1>0, <1>2, <1>3, <1>10
    <3> QED BY <1>0, <3>1
  <2>2. abcd[1] = a[1]
    BY <1>6, <1>7, <1>8, <2>1
  <2>3. ab[IntSize + 1] = b[1]
    BY <1>2, <1>6, <2>1
  <2> QED BY <1>7, <1>8, <2>1, <2>2, <2>3
<1> QED BY <1>2, <1>3, <1>8, <1>9, <1>10, <1>11 DEF Holds, n

\* The messages one after another, as CMOOSCommPkt::Serialize takes them out of its stream.
Gets(b, bNoNULL) == CHOOSE h : h = [i \in 0 .. b[IntSize + 1][3] |->
    IF i = 0 THEN [stop |-> FALSE, pos |-> HeaderSize, list |-> <<>>, time |-> -1]
    ELSE LET prev == h[i - 1]
             r    == MsgFromCells(b, prev.pos, b[1][3] - prev.pos)
             null == r.m.m_cMsgType = NULLMsgType
         IN  IF prev.stop \/ ~r.ok THEN [prev EXCEPT !.stop = TRUE]
             ELSE [stop |-> FALSE, pos |-> prev.pos + r.used,
                   list |-> IF Omitted(r.m, bNoNULL) THEN prev.list ELSE Append(prev.list, r.m),
                   time |-> IF null /\ i = 1 THEN r.m.m_dfVal ELSE prev.time]]

LEMMA PktFromCellsIs ==
    ASSUME NEW b, NEW bNoNULL
    PROVE  PktFromCells(b, bNoNULL).list = Gets(b, bNoNULL)[b[IntSize + 1][3]].list
<1> DEFINE l == Gets(b, bNoNULL)[b[IntSize + 1][3]].list
           t == Gets(b, bNoNULL)[b[IntSize + 1][3]].time
<1>1. PktFromCells(b, bNoNULL) = [list |-> l, time |-> t]
  BY DEF PktFromCells, Gets
<1> HIDE DEF l, t
<1>2. PktFromCells(b, bNoNULL).list = l
  BY <1>1
<1> QED BY <1>2 DEF l

\* A packet is not an error, says how long it is, and is read back as it was written.
LEMMA PacketIsReadBack ==
    ASSUME NEW list \in Seq(Message)
    PROVE  /\ PktToCells(list) \in Seq(Cells) /\ PktToCells(list) # Unserialisable
           /\ Len(PktToCells(list)) \in Nat /\ Len(PktToCells(list)) > IntSize
           /\ PktToCells(list)[1][3] = Len(PktToCells(list))
           /\ PktFromCells(PktToCells(list), FALSE).list = list
<1> DEFINE k == Len(list)
           b == PktToCells(list)
<1>0. k \in Nat /\ IntSize \in Nat \ {0} /\ HeaderSize \in Nat /\ HeaderSize = 2 * IntSize + 1
  BY WireAssumption DEF HeaderSize
<1>1. PICK g : Joins(g, Texts(list), k)
  BY JoinsExist
<1>2. b = Framed(list, g[k]) /\ g[k] \in Seq(Cells) /\ Len(g[k]) \in Nat
  <2>1. b = Framed(list, g[k]) /\ g[k] \in Seq(Cells)
    BY <1>1, MessagesFit
  <2> DEFINE x == g[k]
  <2>2. x \in Seq(Cells)
    BY <2>1
  <2> HIDE DEF x
  <2>3. Len(x) \in Nat
    BY <2>2
  <2> QED BY <2>1, <2>3 DEF x
<1>3. /\ b \in Seq(Cells) /\ Len(b) = HeaderSize + Len(g[k]) /\ b[1][3] = Len(b)
      /\ b[IntSize + 1][3] = k /\ Holds(b, HeaderSize, g[k])
  <2> DEFINE body == g[k]
  <2>1. b = Framed(list, body) /\ body \in Seq(Cells)
    BY <1>2
  <2> HIDE DEF body
  <2>2. /\ Framed(list, body) \in Seq(Cells)
        /\ Len(Framed(list, body)) = HeaderSize + Len(body)
        /\ Framed(list, body)[1][3] = HeaderSize + Len(body)
        /\ Framed(list, body)[IntSize + 1][3] = Len(list)
        /\ Holds(Framed(list, body), HeaderSize, body)
    BY <2>1, FrameFacts
  <2> HIDE DEF b
  <2> QED BY <2>1, <2>2 DEF body
<1>4. Len(b) \in Nat /\ Len(b) > IntSize /\ Len(b) # 1
  <2> DEFINE x == Len(g[k])
  <2>1. x \in Nat /\ Len(b) = HeaderSize + x
    BY <1>2, <1>3
  <2> HIDE DEF x, b
  <2> QED BY <1>0, <2>1
<1>5. b # Unserialisable
  <2>1. Len(Unserialisable) = 1
    BY DEF Unserialisable
  <2> QED BY <1>4, <2>1
<1> HIDE DEF b
<1>6. InPlace(g, Texts(list), Cells, k) /\ Stands(g, Texts(list), k)
  BY <1>0, <1>1, TextsArePieces, JoinsFacts, PieceStands
<1> DEFINE pos(i) == HeaderSize + Len(g[i])
           null(m) == m.m_cMsgType = NULLMsgType
           time(i) == IF i = 0 THEN -1 ELSE IF null(list[1]) THEN list[1].m_dfVal ELSE -1
           G == [i \in 0 .. k |-> [stop |-> FALSE, pos |-> pos(i), list |-> SubSeq(list, 1, i), time |-> time(i)]]
<1>7. \A i \in 0 .. k : pos(i) \in Nat /\ Len(g[i]) \in Nat
  <2> SUFFICES ASSUME NEW i \in 0 .. k PROVE pos(i) \in Nat /\ Len(g[i]) \in Nat
    OBVIOUS
  <2> DEFINE x == Len(g[i])
  <2>1. x \in Nat /\ pos(i) = HeaderSize + x
    BY <1>1, TextsAreSerialisable
  <2> HIDE DEF x, pos
  <2>2. pos(i) \in Nat /\ x \in Nat
    BY <1>0, <2>1
  <2> QED BY <2>2 DEF x
<1>8. ASSUME NEW i \in 1 .. k
      PROVE  LET r == MsgFromCells(b, pos(i - 1), b[1][3] - pos(i - 1)) IN
             r.ok /\ r.m = list[i] /\ pos(i - 1) + r.used = pos(i)
  <2> DEFINE m == list[i]
             start == pos(i - 1)
             room == Len(b) - start
  <2>0. i - 1 \in 0 .. k /\ i \in 0 .. k
    OBVIOUS
  <2>1. /\ m \in Message /\ Texts(list)[i] = MsgText(m) /\ Len(Texts(list)[i]) \in Nat
    BY TextsArePieces
  <2>2. /\ Len(g[i - 1]) + Len(MsgText(m)) <= Len(g[k])
        /\ \A j \in 1 .. Len(MsgText(m)) : g[k][Len(g[i - 1]) + j] = MsgText(m)[j]
    <3>1. /\ Len(g[i - 1]) + Len(Texts(list)[i]) <= Len(g[k])
          /\ \A j \in 1 .. Len(Texts(list)[i]) : g[k][Len(g[i - 1]) + j] = Texts(list)[i][j]
      BY <1>6 DEF Stands
    <3> HIDE DEF m
    <3> QED BY <2>1, <3>1
  <2>3. Len(g[i]) = Len(g[i - 1]) + Len(MsgText(m))
    <3>1. Len(g[i]) = Len(g[i - 1]) + Len(Texts(list)[i])
      BY <1>6 DEF InPlace
    <3> HIDE DEF m
    <3> QED BY <2>1, <3>1
  <2> DEFINE x == Len(g[i - 1])
             y == Len(MsgText(m))
             z == Len(g[k])
  <2>4. x \in Nat /\ y \in Nat /\ z \in Nat /\ x + y <= z
    BY <1>2, <1>7, <2>0, <2>1, <2>2
  <2>5. start = HeaderSize + x /\ Len(b) = HeaderSize + z /\ pos(i) = HeaderSize + (x + y)
    BY <1>3, <2>3
  <2>6. start \in Nat /\ room \in Nat /\ y <= room
    <3>1. room = Len(b) - start
      OBVIOUS
    <3> HIDE DEF x, y, z, start, room
    <3> QED BY <1>0, <2>4, <2>5, <3>1
  <2>7. Holds(b, start, MsgText(m))
    <3> SUFFICES ASSUME NEW j \in 1 .. y PROVE b[start + j] = MsgText(m)[j]
      BY DEF Holds
    <3>1. g[k][x + j] = MsgText(m)[j]
      BY <2>2
    <3>2. b[HeaderSize + (x + j)] = g[k][x + j]
      <4>1. x + j \in 1 .. z
        <5> HIDE DEF x, y, z
        <5> QED BY <2>4
      <4>2. \A n \in 1 .. Len(g[k]) : b[HeaderSize + n] = g[k][n]
        BY <1>3 DEF Holds
      <4> HIDE DEF x, y
      <4> QED BY <4>1, <4>2
    <3>3. start + j = HeaderSize + (x + j)
      <4> HIDE DEF x, y, z, start
      <4> QED BY <1>0, <2>4, <2>5
    <3> HIDE DEF x, start
    <3> QED BY <3>1, <3>2, <3>3
  <2> HIDE DEF m, start, room, x, z, pos
  <2>8. /\ MsgFromCells(b, start, room).ok /\ MsgFromCells(b, start, room).used = Len(MsgText(m))
        /\ MsgFromCells(b, start, room).m = m
    BY <2>1, <2>6, <2>7, MsgIsReadBack DEF y
  <2>9. b[1][3] - pos(i - 1) = room
    BY <1>3 DEF room, start
  <2>10. start + y = pos(i)
    BY <1>0, <2>4, <2>5 DEF y
  <2> QED BY <2>8, <2>9, <2>10 DEF start, m, y
<1> DEFINE Step(h, i) ==
             LET prev == h[i - 1]
                 r    == MsgFromCells(b, prev.pos, b[1][3] - prev.pos)
             IN  IF prev.stop \/ ~r.ok THEN [prev EXCEPT !.stop = TRUE]
                 ELSE [stop |-> FALSE, pos |-> prev.pos + r.used,
                       list |-> IF Omitted(r.m, FALSE) THEN prev.list ELSE Append(prev.list, r.m),
                       time |-> IF r.m.m_cMsgType = NULLMsgType /\ i = 1 THEN r.m.m_dfVal ELSE prev.time]
           first == [stop |-> FALSE, pos |-> HeaderSize, list |-> <<>>, time |-> -1]
           E(h) == h = [i \in 0 .. b[IntSize + 1][3] |-> IF i = 0 THEN first ELSE Step(h, i)]
           Q == Gets(b, FALSE)
<1>9. ASSUME NEW i \in 0 .. k
      PROVE  /\ ~ G[i].stop /\ G[i].pos = pos(i) /\ G[i].list = SubSeq(list, 1, i) /\ G[i].time = time(i)
             /\ G[i] = [stop |-> FALSE, pos |-> pos(i), list |-> SubSeq(list, 1, i), time |-> time(i)]
  <2> HIDE DEF pos, time
  <2> QED OBVIOUS
<1> HIDE DEF G
<1>10. \A i \in 0 .. k : G[i] = IF i = 0 THEN first ELSE Step(G, i)
  <2> SUFFICES ASSUME NEW i \in 0 .. k PROVE G[i] = IF i = 0 THEN first ELSE Step(G, i)
    OBVIOUS
  <2>1. CASE i = 0
    <3>1. g[0] = <<>>
      BY <1>6 DEF InPlace
    <3>2. pos(0) = HeaderSize
      BY <1>0, <3>1
    <3>3. SubSeq(list, 1, 0) = <<>> /\ time(0) = -1
      OBVIOUS
    <3> HIDE DEF pos, time
    <3> QED BY <1>9, <2>1, <3>2, <3>3
  <2>2. CASE i # 0
    <3>1. i \in 1 .. k /\ i - 1 \in 0 .. k
      BY <1>0, <2>2
    <3>2. /\ ~ G[i - 1].stop /\ G[i - 1].pos = pos(i - 1)
          /\ G[i - 1].list = SubSeq(list, 1, i - 1) /\ G[i - 1].time = time(i - 1)
      BY <1>9, <3>1
    <3> DEFINE r == MsgFromCells(b, pos(i - 1), b[1][3] - pos(i - 1))
    <3>3. r.ok /\ r.m = list[i] /\ pos(i - 1) + r.used = pos(i)
      BY <1>8, <3>1
    <3>4. Append(SubSeq(list, 1, i - 1), list[i]) = SubSeq(list, 1, i)
      BY <3>1
    <3>5. (IF list[i].m_cMsgType = NULLMsgType /\ i = 1 THEN list[i].m_dfVal ELSE time(i - 1)) = time(i)
      BY <3>1
    <3>6. MsgFromCells(b, G[i - 1].pos, b[1][3] - G[i - 1].pos) = r
      BY <3>2
    <3> HIDE DEF r, pos, time
    <3>7. ~ Omitted(r.m, FALSE)
      BY DEF Omitted
    <3>8. Step(G, i) = [stop |-> FALSE, pos |-> pos(i - 1) + r.used, list |-> Append(SubSeq(list, 1, i - 1), r.m),
                        time |-> IF r.m.m_cMsgType = NULLMsgType /\ i = 1 THEN r.m.m_dfVal ELSE time(i - 1)]
      BY <3>2, <3>3, <3>6, <3>7
    <3>9. Step(G, i) = [stop |-> FALSE, pos |-> pos(i), list |-> SubSeq(list, 1, i), time |-> time(i)]
      <4> HIDE DEF Step
      <4> QED BY <3>3, <3>4, <3>5, <3>8
    <3> HIDE DEF Step
    <3> QED BY <1>9, <2>2, <3>9
  <2> QED BY <2>1, <2>2
<1> HIDE DEF pos, time
<1>11. E(G)
  <2>1. G = [i \in 0 .. k |-> G[i]]
    BY Zenon DEF G
  <2> HIDE DEF Step, first
  <2> QED BY <1>3, <1>10, <2>1
<1>12. E(Q)
  <2>1. Q = CHOOSE h : E(h)
    BY DEF Gets
  <2> HIDE DEF E, Q
  <2> QED BY <1>11, <2>1
<1>13. \A i \in 0 .. k : Q[i] = IF i = 0 THEN first ELSE Step(Q, i)
  <2> HIDE DEF Q, Step, first
  <2> QED BY <1>3, <1>12
<1> HIDE DEF Q, E, first
<1> DEFINE T == {i \in Nat : i <= k => Q[i] = G[i]}
<1>14. 0 \in T
  <2>1. 0 \in 0 .. k
    BY <1>0
  <2> HIDE DEF Step
  <2> QED BY <1>10, <1>13, <2>1
<1>15. ASSUME NEW n \in Nat, n \in T PROVE n + 1 \in T
  <2> SUFFICES ASSUME n + 1 <= k PROVE Q[n + 1] = G[n + 1]
    OBVIOUS
  <2> DEFINE i == n + 1
  <2>1. i \in 0 .. k /\ i # 0 /\ Q[i - 1] = G[i - 1]
    BY <1>0, <1>15
  <2> HIDE DEF i, k
  <2>2. Step(Q, i) = Step(G, i)
    BY <2>1
  <2> HIDE DEF Step
  <2>3. Q[i] = G[i]
    BY <1>10, <1>13, <2>1, <2>2
  <2> QED BY <2>3 DEF i
<1> HIDE DEF T
<1>16. Nat \subseteq T
  BY <1>14, <1>15, NatSetInduction
<1>17. Q[k] = G[k] /\ G[k].list = list
  <2>0. SubSeq(list, 1, k) = list
    OBVIOUS
  <2> HIDE DEF k
  <2>1. k \in T /\ k <= k /\ k \in 0 .. k
    BY <1>0, <1>16
  <2>2. G[k].list = SubSeq(list, 1, k)
    BY <1>9, <2>1
  <2> QED BY <2>0, <2>1, <2>2 DEF T
<1>18. PktFromCells(b, FALSE).list = list
  BY <1>3, <1>17, PktFromCellsIs DEF Q
<1> QED BY <1>3, <1>4, <1>5, <1>18 DEF b

-----------------------------------------------------------------------------
(* The stream of a connection                                              *)

LEMMA SameCells ==
    ASSUME NEW s \in Seq(Cells), NEW t \in Seq(Cells), Len(s) = Len(t), \A j \in 1 .. Len(t) : s[j] = t[j]
    PROVE  s = t
  OBVIOUS

JoinIs(s, t, u) ==
    /\ u \in Seq(Cells) /\ Len(u) = Len(s) + Len(t)
    /\ \A i \in 1 .. Len(s) : u[i] = s[i]
    /\ \A i \in 1 .. Len(t) : u[Len(s) + i] = t[i]

LEMMA JoinedCells == \A s, t \in Seq(Cells) : JoinIs(s, t, s \o t)
  BY JoinedTwo DEF JoinIs

\* What is known of the cells of a packet that may be sent.
PktOK(l) ==
    /\ PktToCells(l) \in Seq(Cells) /\ PktToCells(l) # Unserialisable
    /\ Len(PktToCells(l)) \in Nat /\ Len(PktToCells(l)) > IntSize
    /\ PktToCells(l)[1][3] = Len(PktToCells(l))
    /\ PktFromCells(PktToCells(l), FALSE).list = l

LEMMA PktFacts == IntSize \in Nat \ {0} /\ \A l \in WirePackets : PktOK(l)
<1>1. \A l \in WirePackets : l \in Seq(Message)
  BY WireAssumption
<1> QED BY <1>1, PacketIsReadBack, WireAssumption DEF PktOK

Sent(pkts) == [i \in 1 .. Len(pkts) |-> PktToCells(pkts[i])]

LEMMA FrontFacts ==
    ASSUME NEW T, NEW q \in Seq(T), NEW k \in 0 .. Len(q)
    PROVE  SubSeq(q, 1, k) \in Seq(T) /\ Len(SubSeq(q, 1, k)) = k /\ \A i \in 1 .. k : SubSeq(q, 1, k)[i] = q[i]
  OBVIOUS

LEMMA HoldsJoin ==
    ASSUME NEW b, NEW n \in Nat, NEW s \in Seq(Cells), NEW t \in Seq(Cells)
    PROVE  Holds(b, n, s \o t) <=> Holds(b, n, s) /\ Holds(b, n + Len(s), t)
<1>0. /\ Len(s) \in Nat /\ Len(t) \in Nat /\ Len(s \o t) = Len(s) + Len(t)
      /\ \A i \in 1 .. Len(s) : (s \o t)[i] = s[i]
      /\ \A i \in 1 .. Len(t) : (s \o t)[Len(s) + i] = t[i]
  BY JoinedTwo
<1> DEFINE u == s \o t
           x == Len(s)
           y == Len(t)
<1>1. /\ x \in Nat /\ y \in Nat /\ Len(u) = x + y
      /\ \A i \in 1 .. x : u[i] = s[i]
      /\ \A i \in 1 .. y : u[x + i] = t[i]
  BY <1>0
<1> HIDE DEF u
<1>2. ASSUME Holds(b, n, u) PROVE Holds(b, n, s) /\ Holds(b, n + x, t)
  <2> HIDE DEF x, y
  <2>1. ASSUME NEW j \in 1 .. x PROVE b[n + j] = s[j]
    BY <1>1, <1>2 DEF Holds
  <2>2. ASSUME NEW j \in 1 .. y PROVE b[(n + x) + j] = t[j]
    <3>1. x + j \in 1 .. Len(u) /\ n + (x + j) = (n + x) + j
      BY <1>1
    <3> QED BY <1>1, <1>2, <3>1 DEF Holds
  <2> QED BY <2>1, <2>2 DEF Holds, x, y
<1>3. ASSUME Holds(b, n, s), Holds(b, n + x, t) PROVE Holds(b, n, u)
  <2>1. \A j \in 1 .. x : b[n + j] = s[j]
    BY <1>3 DEF Holds
  <2>2. \A j \in 1 .. y : b[(n + x) + j] = t[j]
    BY <1>3 DEF Holds
  <2> HIDE DEF x, y
  <2> SUFFICES ASSUME NEW j \in 1 .. (x + y) PROVE b[n + j] = u[j]
    BY <1>1 DEF Holds
  <2>3. CASE j \in 1 .. x
    BY <1>1, <2>1, <2>3
  <2>4. CASE j > x
    <3> DEFINE i == j - x
    <3>1. i \in 1 .. y /\ j = x + i /\ n + j = (n + x) + i
      BY <1>1, <2>4
    <3> HIDE DEF i
    <3>2. b[(n + x) + i] = t[i] /\ u[x + i] = t[i]
      BY <1>1, <2>2, <3>1
    <3> QED BY <3>1, <3>2
  <2> QED BY <1>1, <2>3, <2>4
<1> QED BY <1>2, <1>3 DEF u

LEMMA HoldsMore ==
    ASSUME NEW b \in Seq(Cells), NEW c \in Seq(Cells)
    PROVE  /\ Holds(b \o c, Len(b), c)
           /\ \A s : \A n \in Nat : Len(s) \in Nat /\ n + Len(s) <= Len(b) /\ Holds(b, n, s) => Holds(b \o c, n, s)
<1>1. /\ \A i \in 1 .. Len(b) : (b \o c)[i] = b[i]
      /\ \A i \in 1 .. Len(c) : (b \o c)[Len(b) + i] = c[i]
  BY JoinedTwo
<1> DEFINE d == b \o c
<1>2. Len(b) \in Nat
  OBVIOUS
<1> HIDE DEF d
<1>3. ASSUME NEW s, NEW n \in Nat, Len(s) \in Nat, n + Len(s) <= Len(b), Holds(b, n, s)
      PROVE  Holds(d, n, s)
  <2> SUFFICES ASSUME NEW j \in 1 .. Len(s) PROVE d[n + j] = s[j]
    BY DEF Holds
  <2>1. n + j \in 1 .. Len(b)
    BY <1>2, <1>3
  <2> QED BY <1>1, <1>3, <2>1 DEF Holds, d
<1> QED BY <1>1, <1>3 DEF Holds, d

LEMMA HoldsLess ==
    ASSUME NEW b \in Seq(Cells), NEW k \in 0 .. Len(b)
    PROVE  /\ SubSeq(b, 1, k) \in Seq(Cells) /\ Len(SubSeq(b, 1, k)) = k
           /\ \A i \in 1 .. k : SubSeq(b, 1, k)[i] = b[i]
           /\ \A s : \A n \in Nat : Len(s) \in Nat /\ n + Len(s) <= k /\ Holds(b, n, s)
                        => Holds(SubSeq(b, 1, k), n, s)
<1> DEFINE d == SubSeq(b, 1, k)
<1>1. d \in Seq(Cells) /\ Len(d) = k /\ \A i \in 1 .. k : d[i] = b[i]
  OBVIOUS
<1> HIDE DEF d
<1>2. ASSUME NEW s, NEW n \in Nat, Len(s) \in Nat, n + Len(s) <= k, Holds(b, n, s)
      PROVE  Holds(d, n, s)
  <2> SUFFICES ASSUME NEW j \in 1 .. Len(s) PROVE d[n + j] = s[j]
    BY DEF Holds
  <2>1. n + j \in 1 .. k
    BY <1>2
  <2> QED BY <1>1, <1>2, <2>1 DEF Holds
<1> QED BY <1>1, <1>2 DEF d

LEMMA HoldsParts ==
    ASSUME NEW b, NEW n \in Nat, NEW s \in Seq(Cells), NEW k \in 0 .. Len(s), Holds(b, n, s)
    PROVE  /\ SubSeq(s, 1, k) \in Seq(Cells) /\ Len(SubSeq(s, 1, k)) = k
           /\ SubSeq(s, k + 1, Len(s)) \in Seq(Cells) /\ Len(SubSeq(s, k + 1, Len(s))) = Len(s) - k
           /\ Holds(b, n, SubSeq(s, 1, k)) /\ Holds(b, n + k, SubSeq(s, k + 1, Len(s)))
<1> DEFINE t == SubSeq(s, 1, k)
           u == SubSeq(s, k + 1, Len(s))
<1>1. t \in Seq(Cells) /\ Len(t) = k /\ \A i \in 1 .. k : t[i] = s[i]
  OBVIOUS
<1>2. u \in Seq(Cells) /\ Len(u) = Len(s) - k /\ \A i \in 1 .. (Len(s) - k) : u[i] = s[k + i]
  OBVIOUS
<1>3. Len(s) \in Nat /\ k \in Nat
  OBVIOUS
<1> HIDE DEF t, u
<1>4. \A j \in 1 .. Len(s) : b[n + j] = s[j]
  BY DEF Holds
<1>5. Holds(b, n, t)
  <2> SUFFICES ASSUME NEW j \in 1 .. k PROVE b[n + j] = t[j]
    BY <1>1 DEF Holds
  <2>1. j \in 1 .. Len(s)
    BY <1>3
  <2> QED BY <1>1, <1>4, <2>1
<1>6. ASSUME NEW j \in 1 .. Len(u) PROVE b[(n + k) + j] = u[j]
  <2>1. k + j \in 1 .. Len(s) /\ n + (k + j) = (n + k) + j /\ j \in 1 .. (Len(s) - k)
    BY <1>2, <1>3
  <2>2. b[n + (k + j)] = s[k + j]
    BY <1>4, <2>1
  <2> QED BY <1>2, <2>1, <2>2
<1> QED BY <1>1, <1>2, <1>5, <1>6 DEF Holds, t, u

\* B holds the packets that were sent; of them n are read, of what follows st is in the packet
\* being filled, w on the wire, and rest has still to be sent.
Laid(g, B, sent, n, st, w, rest) ==
    /\ Joins(g, Sent(sent), Len(sent)) /\ B \in Seq(Cells) /\ n \in 0 .. Len(sent)
    /\ Len(g[Len(sent)]) <= Len(B) /\ Holds(B, 0, g[Len(sent)])
    /\ Len(B) = Len(g[n]) + Len(st) + Len(w) + Len(rest)
    /\ Holds(B, Len(g[n]), st) /\ Holds(B, Len(g[n]) + Len(st), w)
    /\ Holds(B, Len(g[n]) + Len(st) + Len(w), rest)

\* After the last packet there is a piece of one that was given up.
Cut(g, B, sent) ==
    \E l \in WirePackets :
       /\ Len(B) < Len(g[Len(sent)]) + Len(PktToCells(l))
       /\ \A j \in 1 .. (Len(B) - Len(g[Len(sent)])) : B[Len(g[Len(sent)]) + j] = PktToCells(l)[j]

LEMMA SentFacts ==
    ASSUME NEW sent \in Seq(WirePackets), NEW g, Joins(g, Sent(sent), Len(sent))
    PROVE  /\ Len(sent) \in Nat /\ Pieces(Sent(sent), Cells, Len(sent))
           /\ InPlace(g, Sent(sent), Cells, Len(sent)) /\ Stands(g, Sent(sent), Len(sent))
           /\ \A i \in 0 .. Len(sent) : g[i] \in Seq(Cells) /\ Len(g[i]) \in Nat /\ Len(g[i]) <= Len(g[Len(sent)])
           /\ \A i \in 1 .. Len(sent) :
                 /\ Sent(sent)[i] = PktToCells(sent[i]) /\ sent[i] \in WirePackets
                 /\ Len(g[i]) = Len(g[i - 1]) + Len(PktToCells(sent[i]))
           /\ g[0] = <<>> /\ Len(g[0]) = 0
<1>1. Len(sent) \in Nat
  OBVIOUS
<1>2. \A i \in 1 .. Len(sent) :
         /\ Sent(sent)[i] = PktToCells(sent[i]) /\ sent[i] \in WirePackets /\ PktToCells(sent[i]) \in Seq(Cells)
  <2> SUFFICES ASSUME NEW i \in 1 .. Len(sent)
               PROVE  /\ Sent(sent)[i] = PktToCells(sent[i]) /\ sent[i] \in WirePackets
                      /\ PktToCells(sent[i]) \in Seq(Cells)
    OBVIOUS
  <2>1. Sent(sent)[i] = PktToCells(sent[i]) /\ sent[i] \in WirePackets
    BY DEF Sent
  <2> QED BY <2>1, PktFacts DEF PktOK
<1>3. Pieces(Sent(sent), Cells, Len(sent))
  BY <1>2 DEF Pieces
<1>4. InPlace(g, Sent(sent), Cells, Len(sent)) /\ Stands(g, Sent(sent), Len(sent))
  BY <1>1, <1>3, JoinsFacts, PieceStands
<1>5. ASSUME NEW i \in 0 .. Len(sent)
      PROVE  g[i] \in Seq(Cells) /\ Len(g[i]) \in Nat /\ Len(g[i]) <= Len(g[Len(sent)])
  <2>1. g[i] \in Seq(Cells)
    BY <1>4 DEF InPlace
  <2>2. Len(g[i]) <= Len(g[Len(sent)])
    <3>1. Len(sent) \in 0 .. Len(sent)
      BY <1>1
    <3> QED BY <1>4, <3>1 DEF InPlace
  <2> DEFINE x == g[i]
  <2>3. x \in Seq(Cells)
    BY <2>1
  <2> HIDE DEF x
  <2>4. Len(x) \in Nat
    BY <2>3
  <2> QED BY <2>1, <2>2, <2>4 DEF x
<1>6. \A i \in 1 .. Len(sent) : Len(g[i]) = Len(g[i - 1]) + Len(PktToCells(sent[i]))
  BY <1>2, <1>4 DEF InPlace
<1>7. g[0] = <<>> /\ Len(g[0]) = 0
  <2>1. g[0] = <<>>
    BY <1>4 DEF InPlace
  <2> QED BY <2>1
<1> QED BY <1>1, <1>2, <1>3, <1>4, <1>5, <1>6, <1>7

\* Packet, wire and sender hold what was sent and not read, and then either nothing or a
\* piece of a packet that was given up.
Whole(sent, n, st, w, rest) == \E g, B : Laid(g, B, sent, n, st, w, rest) /\ Len(B) = Len(g[Len(sent)])
Broken(sent, n, st, w, rest) == \E g, B : Laid(g, B, sent, n, st, w, rest) /\ Cut(g, B, sent)

LEMMA WholeIntro ==
    ASSUME NEW sent, NEW n, NEW st, NEW w, NEW rest, NEW g, NEW B,
           Laid(g, B, sent, n, st, w, rest), Len(B) = Len(g[Len(sent)])
    PROVE  Whole(sent, n, st, w, rest)
  BY DEF Whole

\* At the start nothing was sent.
LEMMA LaidAtStart == Whole(<<>>, 0, <<>>, <<>>, <<>>)
<1> DEFINE g == [i \in 0 .. 0 |-> <<>>]
           B == <<>>
<1>1. Len(<<>>) = 0 /\ <<>> \in Seq(Cells) /\ g[0] = <<>>
  OBVIOUS
<1>2. Joins(g, Sent(<<>>), 0)
  BY DEF Joins
<1> HIDE DEF g
<1>3. Laid(g, <<>>, <<>>, 0, <<>>, <<>>, <<>>)
  BY <1>1, <1>2 DEF Laid, Holds
<1> QED BY <1>1, <1>3 DEF Whole

\* A packet is sent, all of it or its first cells.
LEMMA LaidWhenSent ==
    ASSUME NEW sent \in Seq(WirePackets), NEW n, NEW st \in Seq(Cells), NEW w \in Seq(Cells),
           NEW g, NEW B, Laid(g, B, sent, n, st, w, <<>>), Len(B) = Len(g[Len(sent)]),
           NEW l \in WirePackets, NEW c \in Seq(Cells), NEW d \in Seq(Cells), PktToCells(l) = c \o d
    PROVE  Whole(Append(sent, l), n, st, w \o c, d)
<1> DEFINE s == Len(sent)
           p == PktToCells(l)
           sent2 == Append(sent, l)
           C == B \o p
           h == [i \in 0 .. (s + 1) |-> IF i = s + 1 THEN g[s] \o p ELSE g[i]]
<1>0. s \in Nat /\ s + 1 \in Nat /\ sent2 \in Seq(WirePackets) /\ Len(sent2) = s + 1
  OBVIOUS
<1>1. /\ Joins(g, Sent(sent), s) /\ B \in Seq(Cells) /\ n \in 0 .. s /\ Holds(B, 0, g[s])
      /\ Len(B) = Len(g[n]) + Len(st) + Len(w)
      /\ Holds(B, Len(g[n]), st) /\ Holds(B, Len(g[n]) + Len(st), w)
  <2>1. Len(<<>>) = 0 /\ Len(g[n]) + Len(st) + Len(w) + 0 = Len(g[n]) + Len(st) + Len(w)
    <3>1. n \in 0 .. Len(sent) /\ Joins(g, Sent(sent), Len(sent))
      BY DEF Laid
    <3>2. Len(g[n]) \in Nat
      BY <3>1, SentFacts
    <3> DEFINE x == Len(g[n])
    <3>3. x \in Nat /\ Len(st) \in Nat /\ Len(w) \in Nat
      BY <3>2
    <3> HIDE DEF x
    <3>4. x + Len(st) + Len(w) + 0 = x + Len(st) + Len(w)
      BY <3>3
    <3> QED BY <3>4 DEF x
  <2> QED BY <2>1 DEF Laid
<1>2. /\ g[s] \in Seq(Cells) /\ Len(g[s]) \in Nat /\ g[n] \in Seq(Cells) /\ Len(g[n]) \in Nat
      /\ g[0] = <<>>
  <2>1. s \in 0 .. s
    BY <1>0
  <2> QED BY <1>1, <2>1, SentFacts
<1>3. p \in Seq(Cells) /\ Len(p) \in Nat
  BY PktFacts DEF PktOK
<1>4. /\ C \in Seq(Cells) /\ Len(C) = Len(B) + Len(p)
      /\ \A i \in 1 .. Len(B) : C[i] = B[i]
      /\ \A i \in 1 .. Len(p) : C[Len(B) + i] = p[i]
      /\ Holds(C, Len(B), p)
      /\ \A t : \A k \in Nat : Len(t) \in Nat /\ k + Len(t) <= Len(B) /\ Holds(B, k, t) => Holds(C, k, t)
  <2> HIDE DEF p
  <2>1. B \in Seq(Cells) /\ p \in Seq(Cells)
    BY <1>1, <1>3
  <2>2. /\ B \o p \in Seq(Cells) /\ Len(B \o p) = Len(B) + Len(p)
        /\ \A i \in 1 .. Len(B) : (B \o p)[i] = B[i]
        /\ \A i \in 1 .. Len(p) : (B \o p)[Len(B) + i] = p[i]
    BY <2>1, JoinedCells DEF JoinIs
  <2>3. /\ Holds(B \o p, Len(B), p)
        /\ \A t : \A k \in Nat : Len(t) \in Nat /\ k + Len(t) <= Len(B) /\ Holds(B, k, t) => Holds(B \o p, k, t)
    BY <2>1, HoldsMore
  <2> QED BY <2>2, <2>3
<1>5. Joins(h, Sent(sent2), s + 1)
  <2>1. \A i \in 1 .. s : Sent(sent2)[i] = Sent(sent)[i]
    <3> SUFFICES ASSUME NEW i \in 1 .. s PROVE Sent(sent2)[i] = Sent(sent)[i]
      OBVIOUS
    <3>1. sent2[i] = sent[i] /\ i \in 1 .. Len(sent2)
      OBVIOUS
    <3> HIDE DEF sent2
    <3> QED BY <3>1 DEF Sent
  <2>2. Sent(sent2)[s + 1] = p
    <3>1. sent2[s + 1] = l /\ s + 1 \in 1 .. Len(sent2)
      OBVIOUS
    <3> HIDE DEF sent2
    <3> QED BY <3>1 DEF Sent
  <2>3. \A i \in 0 .. s : h[i] = g[i]
    <3> HIDE DEF p
    <3> QED BY <1>0
  <2>4. h[s + 1] = g[s] \o p
    <3> HIDE DEF p
    <3> QED BY <1>0
  <2>5. \A i \in 0 .. s : g[i] = IF i = 0 THEN <<>> ELSE g[i - 1] \o Sent(sent)[i]
    BY <1>1 DEF Joins
  <2>6. h = [i \in 0 .. (s + 1) |-> h[i]]
    BY Zenon
  <2> HIDE DEF h, sent2, p, s
  <2>7. ASSUME NEW i \in 0 .. (s + 1)
        PROVE  h[i] = IF i = 0 THEN <<>> ELSE h[i - 1] \o Sent(sent2)[i]
    <3>1. CASE i = 0
      <4>1. 0 \in 0 .. s
        BY <1>0
      <4> QED BY <2>3, <2>5, <3>1, <4>1
    <3>2. CASE i \in 1 .. s
      <4>1. i \in 0 .. s /\ i - 1 \in 0 .. s /\ i # 0
        BY <1>0, <3>2
      <4> QED BY <2>1, <2>3, <2>5, <3>2, <4>1
    <3>3. CASE i = s + 1
      <4>1. i # 0 /\ i - 1 = s /\ s \in 0 .. s
        BY <1>0, <3>3
      <4> QED BY <2>2, <2>3, <2>4, <3>3, <4>1
    <3> QED BY <1>0, <3>1, <3>2, <3>3
  <2> QED BY <2>6, <2>7 DEF Joins
<1>6. h[n] = g[n] /\ h[s + 1] = g[s] \o p
  <2> HIDE DEF p
  <2> QED BY <1>0, <1>1
<1>7. Len(h[s + 1]) = Len(C) /\ Holds(C, 0, h[s + 1])
  <2> DEFINE x == g[s]
  <2>1. x \in Seq(Cells) /\ p \in Seq(Cells) /\ Len(x) = Len(B) /\ Holds(B, 0, x) /\ h[s + 1] = x \o p
    BY <1>1, <1>2, <1>3, <1>6
  <2> HIDE DEF x, p, C
  <2>2. Len(x \o p) = Len(x) + Len(p)
    BY <2>1, JoinedTwo
  <2>3. Holds(C, 0, x) /\ Holds(C, 0 + Len(x), p)
    <3>1. 0 + Len(x) = Len(B) /\ Len(x) \in Nat /\ 0 + Len(x) <= Len(B)
      BY <1>2, <2>1
    <3> QED BY <1>4, <2>1, <3>1
  <2>4. Holds(C, 0, x \o p)
    BY <2>1, <2>3, HoldsJoin
  <2> QED BY <1>4, <2>1, <2>2, <2>4
<1> DEFINE z == Len(g[n])
           ls == Len(st)
           lw == Len(w)
<1>8. /\ z \in Nat /\ ls \in Nat /\ lw \in Nat /\ Len(B) = z + ls + lw
      /\ Len(c) \in Nat /\ Len(d) \in Nat
  BY <1>1, <1>2
<1>9. Len(p) = Len(c) + Len(d) /\ Holds(C, Len(B), c) /\ Holds(C, Len(B) + Len(c), d)
  <2>1. p = c \o d /\ Len(B) \in Nat
    BY <1>1
  <2>2. Holds(C, Len(B), c \o d)
    BY <1>4, <2>1
  <2> HIDE DEF C, p
  <2>3. Holds(C, Len(B), c) /\ Holds(C, Len(B) + Len(c), d)
    BY <2>1, <2>2, HoldsJoin
  <2>4. Len(c \o d) = Len(c) + Len(d)
    BY JoinedTwo
  <2> QED BY <2>1, <2>3, <2>4
<1>10. Holds(C, z, st) /\ Holds(C, z + ls, w)
  <2>1. z + Len(st) <= Len(B) /\ (z + ls) + Len(w) <= Len(B) /\ Len(st) \in Nat /\ Len(w) \in Nat /\ z + ls \in Nat
    <3> HIDE DEF z
    <3> QED BY <1>8
  <2>2. Holds(B, z, st) /\ Holds(B, z + ls, w)
    BY <1>1
  <2> HIDE DEF z, C
  <2> QED BY <1>4, <1>8, <2>1, <2>2
<1>11. Len(w \o c) = lw + Len(c) /\ Holds(C, z + ls, w \o c)
  <2>1. Len(w \o c) = lw + Len(c)
    BY JoinedTwo
  <2>2. z + ls \in Nat /\ (z + ls) + Len(w) = Len(B)
    <3> HIDE DEF z, ls
    <3> QED BY <1>8
  <2> HIDE DEF z, C, ls
  <2> QED BY <1>9, <1>10, <2>1, <2>2, HoldsJoin
<1>12. Len(C) = z + ls + Len(w \o c) + Len(d) /\ Len(B) + Len(c) = z + ls + Len(w \o c)
  <2> HIDE DEF C, p, z, ls
  <2> QED BY <1>4, <1>8, <1>9, <1>11
<1>13. Len(h[n]) = z /\ n \in 0 .. Len(sent2) /\ Len(h[Len(sent2)]) = Len(C) /\ Len(C) \in Nat
  <2>1. Len(C) \in Nat
    <3>1. C \in Seq(Cells)
      BY <1>4
    <3> HIDE DEF C
    <3> QED BY <3>1
  <2> HIDE DEF h, C, sent2
  <2> QED BY <1>0, <1>1, <1>6, <1>7, <2>1
<1>14. Laid(h, C, sent2, n, st, w \o c, d)
  <2>1. /\ Joins(h, Sent(sent2), Len(sent2)) /\ C \in Seq(Cells) /\ n \in 0 .. Len(sent2)
        /\ Len(h[Len(sent2)]) <= Len(C) /\ Holds(C, 0, h[Len(sent2)])
    <3> HIDE DEF h, C, z, p, s, sent2
    <3> QED BY <1>0, <1>4, <1>5, <1>7, <1>13
  <2>2. Len(C) = Len(h[n]) + Len(st) + Len(w \o c) + Len(d)
    <3> HIDE DEF h, C, z, p, s, sent2
    <3> QED BY <1>12, <1>13
  <2>3. /\ Holds(C, Len(h[n]), st) /\ Holds(C, Len(h[n]) + Len(st), w \o c)
    <3> HIDE DEF h, C, z, p, s, sent2
    <3> QED BY <1>10, <1>11, <1>13
  <2>4. Holds(C, Len(h[n]) + Len(st) + Len(w \o c), d)
    <3>1. Len(h[n]) + Len(st) + Len(w \o c) = Len(B) + Len(c)
      <4> HIDE DEF h, C, z, p, s, sent2
      <4> QED BY <1>12, <1>13
    <3> HIDE DEF h, C, z, p, s, sent2
    <3> QED BY <1>9, <3>1
  <2> HIDE DEF h, C, z, p, s, sent2
  <2> QED BY <2>1, <2>2, <2>3, <2>4 DEF Laid
<1>15. Len(C) = Len(h[Len(sent2)])
  BY <1>13
<1> HIDE DEF h, C, sent2
<1>16. Whole(sent2, n, st, w \o c, d)
  BY <1>14, <1>15 DEF Whole
<1> QED BY <1>16 DEF sent2

\* The lengths behind Laid are numbers.
Lengths(g, B, sent, n, st, w, rest) ==
    /\ Len(sent) \in Nat /\ n \in 0 .. Len(sent) /\ n \in Nat
    /\ Len(g[n]) \in Nat /\ Len(g[Len(sent)]) \in Nat /\ Len(g[n]) <= Len(g[Len(sent)])
    /\ Len(st) \in Nat /\ Len(w) \in Nat /\ Len(rest) \in Nat /\ Len(B) \in Nat
    /\ Len(g[Len(sent)]) <= Len(B)
    /\ Len(B) = Len(g[n]) + Len(st) + Len(w) + Len(rest)
    /\ B \in Seq(Cells) /\ g[Len(sent)] \in Seq(Cells)

LEMMA LaidFacts ==
    ASSUME NEW sent \in Seq(WirePackets), NEW n, NEW st \in Seq(Cells), NEW w \in Seq(Cells),
           NEW rest \in Seq(Cells), NEW g, NEW B, Laid(g, B, sent, n, st, w, rest)
    PROVE  Lengths(g, B, sent, n, st, w, rest)
<1>1. Joins(g, Sent(sent), Len(sent)) /\ n \in 0 .. Len(sent) /\ B \in Seq(Cells)
  BY DEF Laid
<1>2. Len(sent) \in Nat /\ Len(sent) \in 0 .. Len(sent)
  OBVIOUS
<1>3. /\ Len(g[n]) \in Nat /\ Len(g[Len(sent)]) \in Nat /\ Len(g[n]) <= Len(g[Len(sent)])
      /\ g[Len(sent)] \in Seq(Cells)
  BY <1>1, <1>2, SentFacts
<1>4. Len(st) \in Nat /\ Len(w) \in Nat /\ Len(rest) \in Nat /\ Len(B) \in Nat
  BY <1>1
<1>5. Len(g[Len(sent)]) <= Len(B) /\ Len(B) = Len(g[n]) + Len(st) + Len(w) + Len(rest)
  BY DEF Laid
<1> QED BY <1>1, <1>2, <1>3, <1>4, <1>5 DEF Lengths

\* A packet is given up while it is sent.
LEMMA LaidWhenCut ==
    ASSUME NEW sent \in Seq(WirePackets), NEW n, NEW st \in Seq(Cells), NEW w \in Seq(Cells),
           NEW g, NEW B, Laid(g, B, sent, n, st, w, <<>>), Len(B) = Len(g[Len(sent)]),
           NEW l \in WirePackets, NEW k \in 0 .. (Len(PktToCells(l)) - 1)
    PROVE  Broken(sent, n, st, w \o SubSeq(PktToCells(l), 1, k), <<>>)
<1> DEFINE p == PktToCells(l)
           c == SubSeq(p, 1, k)
           C == B \o c
           z == Len(g[n])
           e == Len(g[Len(sent)])
<1>1. p \in Seq(Cells) /\ Len(p) \in Nat /\ k \in 0 .. Len(p) /\ k < Len(p)
  <2>1. p \in Seq(Cells) /\ Len(p) \in Nat
    BY PktFacts DEF PktOK
  <2>2. k \in 0 .. (Len(p) - 1)
    OBVIOUS
  <2> HIDE DEF p
  <2> QED BY <2>1, <2>2
<1>2. c \in Seq(Cells) /\ Len(c) = k /\ \A i \in 1 .. k : c[i] = p[i]
  <2> HIDE DEF p
  <2> QED BY <1>1, HoldsLess
<1> HIDE DEF p, c
<1>3. /\ Len(sent) \in Nat /\ n \in 0 .. Len(sent) /\ z \in Nat /\ e \in Nat /\ Len(st) \in Nat /\ Len(w) \in Nat
      /\ Len(B) = z + Len(st) + Len(w) + Len(<<>>) /\ B \in Seq(Cells) /\ g[Len(sent)] \in Seq(Cells) /\ Len(B) \in Nat
  <2>1. <<>> \in Seq(Cells)
    OBVIOUS
  <2>2. Lengths(g, B, sent, n, st, w, <<>>)
    BY <2>1, LaidFacts
  <2> QED BY <2>2 DEF Lengths
<1>4. Len(<<>>) = 0 /\ Len(B) = z + Len(st) + Len(w) /\ Len(B) = e
  <2> HIDE DEF z
  <2> QED BY <1>3 DEF e
<1>5. JoinIs(B, c, C) /\ JoinIs(w, c, w \o c)
  BY <1>2, <1>3, JoinedCells
<1>6. /\ Holds(C, Len(B), c)
      /\ \A t : \A j \in Nat : Len(t) \in Nat /\ j + Len(t) <= Len(B) /\ Holds(B, j, t) => Holds(C, j, t)
  BY <1>2, <1>3, HoldsMore
<1>7. Joins(g, Sent(sent), Len(sent)) /\ Holds(B, 0, g[Len(sent)]) /\ Holds(B, z, st) /\ Holds(B, z + Len(st), w)
  BY DEF Laid
<1> HIDE DEF C, z, e
<1>8. z + Len(st) \in Nat /\ (z + Len(st)) + Len(w) <= Len(B) /\ z + Len(st) <= Len(B) /\ (z + Len(st)) + Len(w) = Len(B)
  BY <1>3, <1>4
<1>9. Holds(C, z, st) /\ Holds(C, z + Len(st), w)
  BY <1>3, <1>6, <1>7, <1>8
<1>10. Holds(C, 0, g[Len(sent)])
  <2>1. 0 + Len(g[Len(sent)]) <= Len(B) /\ Len(g[Len(sent)]) \in Nat
    BY <1>3, <1>4 DEF e
  <2> QED BY <1>6, <1>7, <2>1
<1>11. Holds(C, z + Len(st), w \o c)
  <2>1. Holds(C, (z + Len(st)) + Len(w), c)
    BY <1>6, <1>8
  <2> QED BY <1>2, <1>8, <1>9, <2>1, HoldsJoin
<1>12. /\ C \in Seq(Cells) /\ Len(C) = Len(B) + k /\ Len(w \o c) = Len(w) + k
       /\ \A i \in 1 .. k : C[Len(B) + i] = c[i]
  BY <1>2, <1>5 DEF JoinIs
<1>13. Len(C) = z + Len(st) + Len(w \o c) + Len(<<>>) /\ Len(g[Len(sent)]) <= Len(C)
  <2>1. k \in Nat
    BY <1>1
  <2>2. Len(C) = z + Len(st) + Len(w \o c) + Len(<<>>)
    <3>1. Len(C) = (z + Len(st) + Len(w)) + k /\ Len(w \o c) = Len(w) + k /\ Len(<<>>) = 0
      BY <1>4, <1>12
    <3>2. z \in Nat /\ Len(st) \in Nat /\ Len(w) \in Nat
      BY <1>3
    <3> QED BY <2>1, <3>1, <3>2
  <2>3. Len(g[Len(sent)]) = Len(B)
    BY <1>4 DEF e
  <2> QED BY <1>3, <1>12, <2>1, <2>2, <2>3
<1>14. Holds(C, z + Len(st) + Len(w \o c), <<>>)
  BY <1>4 DEF Holds
<1>15. Laid(g, C, sent, n, st, w \o c, <<>>)
  BY <1>3, <1>7, <1>9, <1>10, <1>11, <1>12, <1>13, <1>14 DEF Laid, z
<1>16. Cut(g, C, sent)
  <2>1. Len(C) < e + Len(p)
    BY <1>1, <1>3, <1>4, <1>12
  <2>2. \A j \in 1 .. (Len(C) - e) : C[e + j] = p[j]
    <3>1. Len(C) - e = k
      BY <1>1, <1>3, <1>4, <1>12
    <3> QED BY <1>2, <1>4, <1>12, <3>1
  <2> QED BY <2>1, <2>2 DEF Cut, e, p
<1>17. Broken(sent, n, st, w \o c, <<>>)
  BY <1>15, <1>16 DEF Broken
<1> QED BY <1>17 DEF c, p

\* The second half of a packet is sent.
LEMMA LaidWhenFlushed ==
    ASSUME NEW sent \in Seq(WirePackets), NEW n, NEW st \in Seq(Cells), NEW w \in Seq(Cells),
           NEW rest \in Seq(Cells), NEW g, NEW B, Laid(g, B, sent, n, st, w, rest)
    PROVE  Laid(g, B, sent, n, st, w \o rest, <<>>)
<1> DEFINE z == Len(g[n])
<1>1. /\ z \in Nat /\ Len(st) \in Nat /\ Len(w) \in Nat /\ Len(rest) \in Nat
      /\ Len(B) = z + Len(st) + Len(w) + Len(rest)
  <2>1. Lengths(g, B, sent, n, st, w, rest)
    BY LaidFacts
  <2> QED BY <2>1 DEF Lengths
<1>2. Holds(B, z, st) /\ Holds(B, z + Len(st), w) /\ Holds(B, z + Len(st) + Len(w), rest)
  BY DEF Laid
<1> HIDE DEF z
<1>3. JoinIs(w, rest, w \o rest)
  BY JoinedCells
<1>4. Holds(B, z + Len(st), w \o rest)
  <2>1. z + Len(st) \in Nat
    BY <1>1
  <2> QED BY <1>2, <2>1, HoldsJoin
<1>5. Len(B) = z + Len(st) + Len(w \o rest) + Len(<<>>)
  <2>1. Len(w \o rest) = Len(w) + Len(rest) /\ Len(<<>>) = 0
    BY <1>3 DEF JoinIs
  <2> QED BY <1>1, <2>1
<1>6. Holds(B, z + Len(st) + Len(w \o rest), <<>>)
  BY DEF Holds
<1> QED BY <1>2, <1>4, <1>5, <1>6 DEF Laid, z

\* While something of a packet has still to be sent, that packet is not read.
LEMMA UnreadWhileSent ==
    ASSUME NEW sent \in Seq(WirePackets), NEW n, NEW st \in Seq(Cells), NEW w \in Seq(Cells),
           NEW rest \in Seq(Cells), NEW g, NEW B, Laid(g, B, sent, n, st, w, rest),
           Len(B) = Len(g[Len(sent)]), Len(st) + Len(w) + Len(rest) > 0
    PROVE  n < Len(sent)
<1> DEFINE z == Len(g[n])
           s == Len(sent)
<1>1. /\ z \in Nat /\ Len(st) \in Nat /\ Len(w) \in Nat /\ Len(rest) \in Nat
      /\ Len(B) = z + Len(st) + Len(w) + Len(rest) /\ n \in 0 .. s /\ s \in Nat
  <2>1. Lengths(g, B, sent, n, st, w, rest)
    BY LaidFacts
  <2> QED BY <2>1 DEF Lengths
<1> SUFFICES ASSUME n = s PROVE FALSE
  BY <1>1
<1>2. Len(B) = z
  OBVIOUS
<1> HIDE DEF z
<1> QED BY <1>1, <1>2

\* The process dies between the two halves of a packet.
LEMMA LaidWhenGivenUp ==
    ASSUME NEW sent \in Seq(WirePackets), NEW n, NEW st \in Seq(Cells), NEW w \in Seq(Cells),
           NEW rest \in Seq(Cells), NEW g, NEW B, Laid(g, B, sent, n, st, w, rest),
           Len(B) = Len(g[Len(sent)]), Len(sent) >= 1,
           Len(rest) = Len(PktToCells(sent[Len(sent)])) - IntSize
    PROVE  Broken(SubSeq(sent, 1, Len(sent) - 1), n, st, w, <<>>)
<1> DEFINE s == Len(sent)
           sent2 == SubSeq(sent, 1, s - 1)
           l == sent[s]
           p == PktToCells(l)
           z == Len(g[n])
           y == Len(g[s - 1])
           k == Len(B) - Len(rest)
           C == SubSeq(B, 1, k)
           h == [i \in 0 .. (s - 1) |-> g[i]]
<1>1. /\ s \in Nat /\ s >= 1 /\ s \in 1 .. s /\ s - 1 \in 0 .. s /\ s - 1 \in Nat
      /\ sent2 \in Seq(WirePackets) /\ Len(sent2) = s - 1 /\ \A i \in 1 .. (s - 1) : sent2[i] = sent[i]
  <2>1. s \in Nat /\ s >= 1
    OBVIOUS
  <2>2. sent2 \in Seq(WirePackets) /\ Len(sent2) = s - 1 /\ \A i \in 1 .. (s - 1) : sent2[i] = sent[i]
    <3>1. s - 1 \in 0 .. Len(sent)
      BY <2>1
    <3> QED BY <3>1, FrontFacts
  <2> HIDE DEF s
  <2> QED BY <2>1, <2>2
<1>2. /\ z \in Nat /\ Len(st) \in Nat /\ Len(w) \in Nat /\ Len(rest) \in Nat /\ B \in Seq(Cells) /\ Len(B) \in Nat
      /\ Len(B) = z + Len(st) + Len(w) + Len(rest) /\ n \in 0 .. s
  <2>1. Lengths(g, B, sent, n, st, w, rest)
    BY LaidFacts
  <2> QED BY <2>1 DEF Lengths
<1>3. Joins(g, Sent(sent), s) /\ Holds(B, 0, g[s]) /\ Holds(B, z, st) /\ Holds(B, z + Len(st), w)
  BY DEF Laid
<1>4. /\ l \in WirePackets /\ Len(g[s]) = y + Len(p) /\ y \in Nat /\ g[s - 1] \in Seq(Cells)
      /\ g[0] = <<>>
  BY <1>1, <1>3, SentFacts
<1>5. p \in Seq(Cells) /\ Len(p) \in Nat /\ Len(p) > IntSize /\ IntSize \in Nat
  BY <1>4, PktFacts DEF PktOK
<1>6. k \in 0 .. Len(B) /\ k = y + IntSize /\ k = z + Len(st) + Len(w) /\ Len(rest) > 0
  <2>1. Len(rest) = Len(p) - IntSize /\ Len(B) = y + Len(p) /\ k = Len(B) - Len(rest)
    BY <1>4
  <2> HIDE DEF p, y, z, k, s
  <2>2. k = y + IntSize /\ Len(rest) > 0
    <3> DEFINE lp == Len(p)
               lr == Len(rest)
               lb == Len(B)
    <3>1. /\ y \in Nat /\ lp \in Nat /\ lp > IntSize /\ IntSize \in Nat
          /\ lr = lp - IntSize /\ lb = y + lp /\ k = lb - lr
      BY <1>4, <1>5, <2>1
    <3> HIDE DEF lp, lr, lb
    <3>2. k = y + IntSize /\ lr > 0
      BY <3>1
    <3> QED BY <3>2 DEF lr
  <2>3. k = z + Len(st) + Len(w)
    BY <1>2, <2>1
  <2>4. k \in 0 .. Len(B)
    BY <1>2, <2>1, <2>3
  <2> QED BY <2>2, <2>3, <2>4
<1>7. n \in 0 .. (s - 1)
  <2>1. Len(st) + Len(w) + Len(rest) > 0
    BY <1>2, <1>6
  <2>2. n < s
    <3> HIDE DEF s
    <3> QED BY <2>1, UnreadWhileSent DEF s
  <2> QED BY <1>1, <1>2, <2>2
<1>8. /\ C \in Seq(Cells) /\ Len(C) = k
      /\ \A i \in 1 .. k : C[i] = B[i]
      /\ \A t : \A j \in Nat : Len(t) \in Nat /\ j + Len(t) <= k /\ Holds(B, j, t) => Holds(C, j, t)
  <2> HIDE DEF k
  <2> QED BY <1>2, <1>6, HoldsLess
<1>9. Stands(g, Sent(sent), s) /\ InPlace(g, Sent(sent), Cells, s) /\ Sent(sent)[s] = p
  BY <1>1, <1>3, SentFacts
<1>10. Holds(B, 0, g[s - 1]) /\ \A j \in 1 .. Len(p) : B[y + j] = p[j]
  <2>1. y <= Len(g[s]) /\ \A j \in 1 .. y : g[s][j] = g[s - 1][j]
    <3>1. s \in 0 .. s /\ s - 1 \in 0 .. s
      BY <1>1
    <3> QED BY <1>9, <3>1 DEF InPlace
  <2>2. y + Len(p) <= Len(g[s]) /\ \A j \in 1 .. Len(p) : g[s][y + j] = p[j]
    BY <1>1, <1>9 DEF Stands
  <2>3. \A j \in 1 .. Len(g[s]) : B[j] = g[s][j]
    <3>1. \A j \in 1 .. Len(g[s]) : 0 + j = j
      OBVIOUS
    <3> QED BY <1>3, <3>1 DEF Holds
  <2> DEFINE e == Len(g[s])
  <2> HIDE DEF p
  <2>4. e \in Nat /\ \A j \in 1 .. e : B[j] = g[s][j]
    BY <1>4, <1>5, <2>3
  <2>5. ASSUME NEW j \in 1 .. y PROVE B[0 + j] = g[s - 1][j]
    <3>1. j \in 1 .. e /\ 0 + j = j
      BY <1>4, <2>1, <2>4
    <3> QED BY <2>1, <2>4, <3>1
  <2>6. ASSUME NEW j \in 1 .. Len(p) PROVE B[y + j] = p[j]
    <3>1. y + j \in 1 .. e
      <4> HIDE DEF y
      <4> QED BY <1>4, <1>5, <2>2, <2>4
    <3> QED BY <2>2, <2>4, <3>1
  <2> QED BY <2>5, <2>6 DEF Holds
<1>11. Joins(h, Sent(sent2), s - 1) /\ \A i \in 0 .. (s - 1) : h[i] = g[i]
  <2>1. \A i \in 0 .. (s - 1) : h[i] = g[i]
    OBVIOUS
  <2>2. \A i \in 1 .. (s - 1) : Sent(sent2)[i] = Sent(sent)[i]
    <3> SUFFICES ASSUME NEW i \in 1 .. (s - 1) PROVE Sent(sent2)[i] = Sent(sent)[i]
      OBVIOUS
    <3>1. sent2[i] = sent[i] /\ i \in 1 .. Len(sent2) /\ i \in 1 .. Len(sent)
      BY <1>1
    <3> HIDE DEF sent2
    <3> QED BY <3>1 DEF Sent
  <2>3. \A i \in 0 .. s : g[i] = IF i = 0 THEN <<>> ELSE g[i - 1] \o Sent(sent)[i]
    BY <1>3 DEF Joins
  <2>4. h = [i \in 0 .. (s - 1) |-> h[i]]
    BY Zenon
  <2> HIDE DEF h, sent2, s
  <2>5. ASSUME NEW i \in 0 .. (s - 1)
        PROVE  h[i] = IF i = 0 THEN <<>> ELSE h[i - 1] \o Sent(sent2)[i]
    <3>1. CASE i = 0
      <4>1. 0 \in 0 .. s
        BY <1>1
      <4> QED BY <2>1, <2>3, <3>1, <4>1
    <3>2. CASE i # 0
      <4>1. i \in 1 .. (s - 1) /\ i - 1 \in 0 .. (s - 1) /\ i \in 0 .. s
        BY <1>1, <3>2
      <4> QED BY <2>1, <2>2, <2>3, <3>2, <4>1
    <3> QED BY <3>1, <3>2
  <2> QED BY <2>1, <2>4, <2>5 DEF Joins
<1> HIDE DEF h, C, k, p, sent2, l
<1>12. h[n] = g[n] /\ h[s - 1] = g[s - 1] /\ n \in 0 .. Len(sent2)
  <2>1. s - 1 \in 0 .. (s - 1)
    BY <1>1
  <2> QED BY <1>1, <1>7, <1>11, <2>1
<1>13. Holds(C, z, st) /\ Holds(C, z + Len(st), w) /\ Holds(C, 0, g[s - 1])
  <2>1. z + Len(st) <= k /\ z + Len(st) \in Nat /\ (z + Len(st)) + Len(w) <= k /\ 0 + y <= k
    <3>1. k = z + Len(st) + Len(w) /\ k = y + IntSize
      BY <1>6
    <3>2. z \in Nat /\ Len(st) \in Nat /\ Len(w) \in Nat /\ y \in Nat /\ IntSize \in Nat
      BY <1>2, <1>4, <1>5
    <3> HIDE DEF z, y
    <3> QED BY <3>1, <3>2
  <2> HIDE DEF z
  <2> QED BY <1>2, <1>3, <1>4, <1>8, <1>10, <2>1
<1>14. Len(C) = z + Len(st) + Len(w) + Len(<<>>) /\ y <= Len(C)
  <2>1. Len(<<>>) = 0
    OBVIOUS
  <2> HIDE DEF z, y
  <2> QED BY <1>2, <1>4, <1>5, <1>6, <1>8, <2>1
<1>15. Laid(h, C, sent2, n, st, w, <<>>)
  <2>1. Joins(h, Sent(sent2), Len(sent2)) /\ C \in Seq(Cells) /\ n \in 0 .. Len(sent2)
    BY <1>1, <1>8, <1>11, <1>12
  <2>2. Len(h[Len(sent2)]) <= Len(C) /\ Holds(C, 0, h[Len(sent2)])
    BY <1>1, <1>12, <1>13, <1>14
  <2>3. /\ Len(C) = Len(h[n]) + Len(st) + Len(w) + Len(<<>>)
        /\ Holds(C, Len(h[n]), st) /\ Holds(C, Len(h[n]) + Len(st), w)
    BY <1>12, <1>13, <1>14
  <2>4. Holds(C, Len(h[n]) + Len(st) + Len(w), <<>>)
    BY DEF Holds
  <2> QED BY <2>1, <2>2, <2>3, <2>4 DEF Laid
<1>16. Cut(h, C, sent2)
  <2>1. Len(h[Len(sent2)]) = y
    BY <1>1, <1>12
  <2>2. Len(C) < y + Len(p) /\ Len(C) - y = IntSize
    <3> HIDE DEF y
    <3> QED BY <1>4, <1>5, <1>6, <1>8
  <2>3. \A j \in 1 .. IntSize : C[y + j] = p[j]
    <3> SUFFICES ASSUME NEW j \in 1 .. IntSize PROVE C[y + j] = p[j]
      OBVIOUS
    <3>1. j \in 1 .. Len(p) /\ y + j \in 1 .. k
      <4> HIDE DEF y
      <4> QED BY <1>4, <1>5, <1>6
    <3> HIDE DEF y
    <3> QED BY <1>8, <1>10, <3>1
  <2> HIDE DEF y
  <2> QED BY <1>4, <2>1, <2>2, <2>3 DEF Cut, p
<1>17. Broken(sent2, n, st, w, <<>>)
  BY <1>15, <1>16 DEF Broken
<1> QED BY <1>17 DEF sent2

Moved(st, w, k) ==
    /\ SubSeq(w, 1, k) \in Seq(Cells) /\ SubSeq(w, k + 1, Len(w)) \in Seq(Cells)
    /\ st \o SubSeq(w, 1, k) \in Seq(Cells) /\ Len(st \o SubSeq(w, 1, k)) = Len(st) + k
    /\ Len(SubSeq(w, 1, k)) = k

\* Some of the bytes on the wire are received.
LEMMA LaidWhenMoved ==
    ASSUME NEW sent \in Seq(WirePackets), NEW n, NEW st \in Seq(Cells), NEW w \in Seq(Cells),
           NEW rest \in Seq(Cells), NEW g, NEW B, Laid(g, B, sent, n, st, w, rest), NEW k \in 0 .. Len(w)
    PROVE  /\ Laid(g, B, sent, n, st \o SubSeq(w, 1, k), SubSeq(w, k + 1, Len(w)), rest)
           /\ Moved(st, w, k)
<1> DEFINE z == Len(g[n])
           c == SubSeq(w, 1, k)
           d == SubSeq(w, k + 1, Len(w))
<1>1. /\ z \in Nat /\ Len(st) \in Nat /\ Len(w) \in Nat /\ Len(rest) \in Nat
      /\ Len(B) = z + Len(st) + Len(w) + Len(rest)
  <2>1. Lengths(g, B, sent, n, st, w, rest)
    BY LaidFacts
  <2> QED BY <2>1 DEF Lengths
<1>2. Holds(B, z, st) /\ Holds(B, z + Len(st), w) /\ Holds(B, z + Len(st) + Len(w), rest)
  BY DEF Laid
<1> HIDE DEF z, c, d
<1>3. /\ c \in Seq(Cells) /\ Len(c) = k /\ d \in Seq(Cells) /\ Len(d) = Len(w) - k
      /\ Holds(B, z + Len(st), c) /\ Holds(B, (z + Len(st)) + k, d)
  <2>1. z + Len(st) \in Nat
    BY <1>1
  <2> DEFINE a == z + Len(st)
  <2>2. a \in Nat /\ Holds(B, a, w)
    BY <1>2, <2>1
  <2> HIDE DEF a
  <2>3. /\ SubSeq(w, 1, k) \in Seq(Cells) /\ Len(SubSeq(w, 1, k)) = k
        /\ SubSeq(w, k + 1, Len(w)) \in Seq(Cells) /\ Len(SubSeq(w, k + 1, Len(w))) = Len(w) - k
        /\ Holds(B, a, SubSeq(w, 1, k)) /\ Holds(B, a + k, SubSeq(w, k + 1, Len(w)))
    BY <2>2, HoldsParts
  <2> QED BY <2>3 DEF c, d, a
<1>4. JoinIs(st, c, st \o c)
  BY <1>3, JoinedCells
<1>5. st \o c \in Seq(Cells) /\ Len(st \o c) = Len(st) + k
  BY <1>3, <1>4 DEF JoinIs
<1>6. Holds(B, z, st \o c)
  BY <1>1, <1>2, <1>3, HoldsJoin
<1>7. /\ Len(B) = z + Len(st \o c) + Len(d) + Len(rest)
      /\ z + Len(st \o c) = (z + Len(st)) + k
      /\ z + Len(st \o c) + Len(d) = z + Len(st) + Len(w)
  <2>1. k \in Nat
    BY <1>1
  <2> QED BY <1>1, <1>3, <1>5, <2>1
<1>8. Laid(g, B, sent, n, st \o c, d, rest)
  <2>1. Holds(B, z + Len(st \o c), d) /\ Holds(B, z + Len(st \o c) + Len(d), rest)
    BY <1>2, <1>3, <1>7
  <2> QED BY <1>6, <1>7, <2>1 DEF Laid, z
<1> QED BY <1>3, <1>5, <1>8 DEF c, d, Moved

\* What has been received is a start of l, as far as l goes.
StartOf(st, l) == \A j \in 1 .. Len(st) : j <= Len(PktToCells(l)) => st[j] = PktToCells(l)[j]

LEMMA LaidAhead ==
    ASSUME NEW sent \in Seq(WirePackets), NEW n, NEW st \in Seq(Cells), NEW w \in Seq(Cells),
           NEW rest \in Seq(Cells), NEW g, NEW B, Laid(g, B, sent, n, st, w, rest)
    PROVE  /\ n < Len(sent) => sent[n + 1] \in WirePackets /\ StartOf(st, sent[n + 1])
           /\ n = Len(sent) /\ Cut(g, B, sent) =>
                 \E l \in WirePackets : StartOf(st, l) /\ Len(st) < Len(PktToCells(l))
<1> DEFINE z == Len(g[n])
           s == Len(sent)
<1>1. /\ z \in Nat /\ Len(st) \in Nat /\ Len(w) \in Nat /\ Len(rest) \in Nat /\ n \in 0 .. s /\ s \in Nat
      /\ Len(B) = z + Len(st) + Len(w) + Len(rest) /\ Len(B) \in Nat
  <2>1. Lengths(g, B, sent, n, st, w, rest)
    BY LaidFacts
  <2> QED BY <2>1 DEF Lengths
<1>2. \A j \in 1 .. Len(st) : B[z + j] = st[j]
  BY DEF Laid, Holds
<1>3. Joins(g, Sent(sent), s) /\ Holds(B, 0, g[s])
  BY DEF Laid
<1>4. ASSUME n < s PROVE sent[n + 1] \in WirePackets /\ StartOf(st, sent[n + 1])
  <2> DEFINE i == n + 1
             p == PktToCells(sent[i])
  <2>1. i \in 1 .. s /\ i - 1 = n
    BY <1>1, <1>4
  <2> HIDE DEF i
  <2>2. Stands(g, Sent(sent), s) /\ Sent(sent)[i] = p /\ sent[i] \in WirePackets /\ Len(g[s]) \in Nat
    <3>1. s \in 0 .. s
      BY <1>1
    <3> QED BY <1>3, <2>1, <3>1, SentFacts
  <2>3. p \in Seq(Cells) /\ Len(p) \in Nat
    BY <2>2, PktFacts DEF PktOK
  <2>4. z + Len(p) <= Len(g[s]) /\ \A j \in 1 .. Len(p) : g[s][z + j] = p[j]
    <3>1. /\ Len(g[i - 1]) + Len(Sent(sent)[i]) <= Len(g[s])
          /\ \A j \in 1 .. Len(Sent(sent)[i]) : g[s][Len(g[i - 1]) + j] = Sent(sent)[i][j]
      BY <2>1, <2>2 DEF Stands
    <3> HIDE DEF p, z
    <3> QED BY <2>1, <2>2, <3>1 DEF z
  <2>5. ASSUME NEW j \in 1 .. Len(st), j <= Len(p) PROVE st[j] = p[j]
    <3>1. z + j \in 1 .. Len(g[s]) /\ j \in 1 .. Len(p) /\ 0 + (z + j) = z + j
      <4> HIDE DEF z, p
      <4> QED BY <1>1, <2>2, <2>3, <2>4, <2>5
    <3> HIDE DEF z, p
    <3>2. B[0 + (z + j)] = g[s][z + j]
      BY <1>3, <3>1 DEF Holds
    <3> QED BY <1>2, <2>4, <3>1, <3>2
  <2> QED BY <2>2, <2>5 DEF StartOf, i
<1>5. ASSUME n = s, Cut(g, B, sent)
      PROVE  \E l \in WirePackets : StartOf(st, l) /\ Len(st) < Len(PktToCells(l))
  <2>1. PICK l \in WirePackets : /\ Len(B) < z + Len(PktToCells(l))
                                 /\ \A j \in 1 .. (Len(B) - z) : B[z + j] = PktToCells(l)[j]
    BY <1>5 DEF Cut
  <2> DEFINE p == PktToCells(l)
  <2>2. Len(p) \in Nat
    BY PktFacts DEF PktOK
  <2>3. \A j \in 1 .. (Len(B) - z) : B[z + j] = p[j]
    BY <2>1
  <2>4. Len(B) < z + Len(p)
    BY <2>1
  <2> HIDE DEF p, z
  <2>5. Len(st) < Len(p)
    BY <1>1, <2>2, <2>4
  <2>6. \A j \in 1 .. Len(st) : j \in 1 .. (Len(B) - z)
    BY <1>1
  <2>7. \A j \in 1 .. Len(st) : st[j] = p[j]
    BY <1>2, <2>3, <2>6
  <2> QED BY <2>5, <2>7 DEF StartOf, p
<1> QED BY <1>4, <1>5

\* A packet is complete.
LEMMA LaidWhenRead ==
    ASSUME NEW sent \in Seq(WirePackets), NEW n, NEW st \in Seq(Cells), NEW w \in Seq(Cells),
           NEW rest \in Seq(Cells), NEW g, NEW B, Laid(g, B, sent, n, st, w, rest),
           n < Len(sent), Len(st) = Len(PktToCells(sent[n + 1]))
    PROVE  /\ st = PktToCells(sent[n + 1])
           /\ Laid(g, B, sent, n + 1, <<>>, w, rest)
<1> DEFINE z == Len(g[n])
           s == Len(sent)
           p == PktToCells(sent[n + 1])
           y == Len(g[n + 1])
<1>1. /\ z \in Nat /\ Len(st) \in Nat /\ Len(w) \in Nat /\ Len(rest) \in Nat /\ n \in 0 .. s /\ s \in Nat
      /\ Len(B) = z + Len(st) + Len(w) + Len(rest) /\ Len(B) \in Nat
  <2>1. Lengths(g, B, sent, n, st, w, rest)
    BY LaidFacts
  <2> QED BY <2>1 DEF Lengths
<1>2. sent[n + 1] \in WirePackets /\ StartOf(st, sent[n + 1])
  BY LaidAhead
<1>3. p \in Seq(Cells)
  BY <1>2, PktFacts DEF PktOK
<1>4. st = p
  <2>1. \A j \in 1 .. Len(st) : st[j] = p[j]
    <3>1. \A j \in 1 .. Len(st) : j <= Len(p)
      OBVIOUS
    <3> QED BY <1>2, <3>1 DEF StartOf
  <2>2. Len(st) = Len(p)
    OBVIOUS
  <2>3. \A j \in 1 .. Len(p) : st[j] = p[j]
    BY <2>1, <2>2
  <2> HIDE DEF p
  <2> QED BY <1>3, <2>2, <2>3, SameCells
<1>5. y = z + Len(st) /\ n + 1 \in 0 .. s /\ y \in Nat
  <2> DEFINE i == n + 1
  <2>1. i \in 1 .. s /\ i - 1 = n
    BY <1>1
  <2> HIDE DEF i
  <2>2. Joins(g, Sent(sent), s)
    BY DEF Laid
  <2>3. Len(g[i]) = Len(g[i - 1]) + Len(PktToCells(sent[i]))
    BY <2>1, <2>2, SentFacts
  <2>4. y = z + Len(p)
    BY <2>1, <2>3 DEF i
  <2>5. Len(p) = Len(st)
    OBVIOUS
  <2> HIDE DEF z, y, p
  <2> QED BY <1>1, <2>1, <2>4, <2>5 DEF i
<1>6. Holds(B, z + Len(st), w) /\ Holds(B, z + Len(st) + Len(w), rest)
  BY DEF Laid
<1>7. Len(<<>>) = 0 /\ Holds(B, y, <<>>)
  BY DEF Holds
<1>8. y + Len(<<>>) = z + Len(st)
  <2> HIDE DEF y, z
  <2> QED BY <1>1, <1>5, <1>7
<1>9. Len(B) = y + Len(<<>>) + Len(w) + Len(rest)
  <2> HIDE DEF y, z
  <2> QED BY <1>1, <1>8
<1>10. Holds(B, y + Len(<<>>), w) /\ Holds(B, y + Len(<<>>) + Len(w), rest)
  <2> HIDE DEF y, z
  <2> QED BY <1>6, <1>8
<1>11. Laid(g, B, sent, n + 1, <<>>, w, rest)
  <2> HIDE DEF z, p
  <2> QED BY <1>5, <1>7, <1>9, <1>10 DEF Laid
<1> QED BY <1>4, <1>11

-----------------------------------------------------------------------------
(* The packet that is being filled                                         *)

RxType == [stream : Seq(Cells), msgLen : Int, space : Int]

\* Once the length is known the buffer has room for the packet.
ReaderOK(p) ==
    /\ p \in RxType /\ p.space >= IntSize
    /\ Len(p.stream) >= IntSize => p.msgLen = p.stream[1][3] /\ p.msgLen <= p.space

Filled(p, c, l) ==
    LET q == OnBytesWritten(p, c) IN
    /\ ReaderOK(q) /\ q.stream = p.stream \o c /\ Len(q.stream) <= Len(PktToCells(l))
    /\ GetBytesRequired(q) = 0 <=> Len(q.stream) = Len(PktToCells(l))

\* A packet is never filled past its end, and complete when it is all there.
LEMMA Filling ==
    ASSUME NEW p, ReaderOK(p), NEW c \in Seq(Cells), NEW l \in WirePackets, StartOf(p.stream \o c, l),
           Len(p.stream) < Len(PktToCells(l)), Len(c) \in 1 .. GetBytesRequired(p)
    PROVE  Filled(p, c, l)
<1> DEFINE t == PktToCells(l)
           u == p.stream \o c
           r == [p EXCEPT !.stream = u]
<1>1. /\ t \in Seq(Cells) /\ Len(t) \in Nat /\ Len(t) > IntSize /\ t[1][3] = Len(t) /\ IntSize \in Nat \ {0}
  BY PktFacts DEF PktOK
<1>2. p \in RxType /\ p.stream \in Seq(Cells) /\ p.msgLen \in Int /\ p.space \in Int
  BY DEF ReaderOK, RxType
<1>3. /\ u \in Seq(Cells) /\ Len(u) = Len(p.stream) + Len(c)
      /\ \A i \in 1 .. Len(p.stream) : u[i] = p.stream[i]
  <2>1. JoinIs(p.stream, c, p.stream \o c)
    BY <1>2, JoinedCells
  <2> QED BY <2>1 DEF JoinIs
<1>4. Len(p.stream) \in Nat /\ Len(c) \in Nat /\ Len(c) >= 1 /\ Len(u) \in Nat
  BY <1>2, <1>3
<1>5. \A j \in 1 .. Len(u) : j <= Len(t) => u[j] = t[j]
  BY DEF StartOf
<1> HIDE DEF t, u
<1>6. u[1][3] = Len(t) /\ Len(u) >= 1
  <2>1. 1 \in 1 .. Len(u) /\ 1 <= Len(t)
    BY <1>1, <1>3, <1>4
  <2> QED BY <1>1, <1>5, <2>1
<1>7. r \in RxType /\ r.stream = u /\ r.msgLen = p.msgLen /\ r.space = p.space
  BY <1>2, <1>3 DEF RxType
<1>8. OnBytesWritten(p, c) = IF Len(r.stream) = IntSize
                             THEN InflateTo([r EXCEPT !.msgLen = r.stream[1][3]], r.stream[1][3]) ELSE r
  BY DEF OnBytesWritten, u
<1>9. Len(p.stream) >= IntSize => p.msgLen = Len(t) /\ p.msgLen <= p.space
  <2> SUFFICES ASSUME Len(p.stream) >= IntSize PROVE p.msgLen = Len(t) /\ p.msgLen <= p.space
    OBVIOUS
  <2>1. p.msgLen = p.stream[1][3] /\ p.msgLen <= p.space
    BY DEF ReaderOK
  <2>2. 1 \in 1 .. Len(p.stream)
    BY <1>1, <1>4
  <2>3. u[1] = p.stream[1]
    BY <1>3, <2>2
  <2> QED BY <1>6, <2>1, <2>3
<1>10. p.space >= IntSize
  BY DEF ReaderOK
<1>11. CASE Len(u) = IntSize
  <2> DEFINE v == [r EXCEPT !.msgLen = Len(t)]
             q == IF Len(t) <= v.space THEN v ELSE [v EXCEPT !.space = Len(t)]
  <2>1. v \in RxType /\ v.stream = u /\ v.msgLen = Len(t) /\ v.space = p.space
    <3> HIDE DEF r
    <3> QED BY <1>1, <1>7 DEF RxType
  <2>2. q \in RxType /\ q.stream = u /\ q.msgLen = Len(t) /\ q.space >= IntSize /\ q.space >= Len(t)
    <3>1. CASE Len(t) <= v.space
      <4>1. q = v
        BY <3>1
      <4> HIDE DEF v, q
      <4> QED BY <1>1, <1>10, <2>1, <3>1, <4>1
    <3>2. CASE ~ (Len(t) <= v.space)
      <4>1. q = [v EXCEPT !.space = Len(t)]
        BY <3>2
      <4> HIDE DEF v, q
      <4>2. q \in RxType /\ q.stream = u /\ q.msgLen = Len(t) /\ q.space = Len(t)
        BY <1>1, <2>1, <4>1 DEF RxType
      <4> QED BY <1>1, <4>2
    <3> QED BY <3>1, <3>2
  <2>3. OnBytesWritten(p, c) = q
    <3>1. r.stream[1][3] = Len(t) /\ Len(r.stream) = IntSize
      BY <1>6, <1>7, <1>11
    <3> HIDE DEF r
    <3> QED BY <1>8, <3>1 DEF InflateTo
  <2> HIDE DEF q
  <2>4. ReaderOK(q)
    BY <1>1, <1>6, <2>2 DEF ReaderOK
  <2>5. GetBytesRequired(q) = Len(t) - IntSize
    BY <1>1, <1>11, <2>2 DEF GetBytesRequired
  <2>6. GetBytesRequired(q) # 0 /\ Len(u) < Len(t)
    BY <1>1, <1>11, <2>5
  <2> QED BY <2>2, <2>3, <2>4, <2>6 DEF t, u, Filled
<1>12. CASE Len(u) # IntSize
  <2>1. OnBytesWritten(p, c) = r
    <3> HIDE DEF r
    <3> QED BY <1>7, <1>8, <1>12
  <2> HIDE DEF r
  <2>2. CASE Len(p.stream) < IntSize
    <3>1. Len(c) <= IntSize - Len(p.stream)
      BY <2>2 DEF GetBytesRequired
    <3>2. Len(u) < IntSize
      <4> DEFINE x == Len(p.stream)
                 y == Len(c)
                 z == Len(u)
      <4>1. x \in Nat /\ y \in Nat /\ z = x + y /\ y <= IntSize - x /\ z # IntSize /\ IntSize \in Nat
        BY <1>1, <1>3, <1>4, <1>12, <3>1
      <4> HIDE DEF x, y, z
      <4>2. z < IntSize
        BY <4>1
      <4> QED BY <4>2 DEF z
    <3>3. ReaderOK(r)
      BY <1>1, <1>4, <1>7, <1>10, <3>2 DEF ReaderOK
    <3>4. GetBytesRequired(r) = IntSize - Len(u)
      BY <1>7, <3>2 DEF GetBytesRequired
    <3>5. GetBytesRequired(r) # 0 /\ Len(u) < Len(t)
      BY <1>1, <1>4, <3>2, <3>4
    <3> QED BY <1>7, <2>1, <3>3, <3>5 DEF t, u, Filled
  <2>3. CASE ~ (Len(p.stream) < IntSize)
    <3>1. Len(c) <= p.msgLen - Len(p.stream) /\ p.msgLen = Len(t) /\ p.msgLen <= p.space
      <4>1. Len(p.stream) >= IntSize
        BY <1>1, <1>4, <2>3
      <4> QED BY <1>9, <2>3, <4>1 DEF GetBytesRequired
    <3>2. Len(u) <= Len(t) /\ Len(u) >= IntSize
      BY <1>1, <1>3, <1>4, <2>3, <3>1
    <3>3. ReaderOK(r)
      BY <1>6, <1>7, <1>10, <3>1 DEF ReaderOK
    <3>4. GetBytesRequired(r) = Len(t) - Len(u)
      BY <1>1, <1>4, <1>7, <3>1, <3>2 DEF GetBytesRequired
    <3>5. GetBytesRequired(r) = 0 <=> Len(u) = Len(t)
      BY <1>1, <1>4, <3>4
    <3> QED BY <1>7, <2>1, <3>2, <3>3, <3>5 DEF t, u, Filled
  <2> QED BY <2>2, <2>3
<1> QED BY <1>11, <1>12

-----------------------------------------------------------------------------
(* The invariant                                                           *)

\* The packet that is being filled is not complete.
Ahead(sent, n, st) == n < Len(sent) => Len(st) < Len(PktToCells(sent[n + 1]))

WireTypes ==
    /\ wire \in Seq(Cells) /\ txRest \in Seq(Cells) /\ tx \in {"idle", "half", "failed"}
    /\ closed \in BOOLEAN /\ sentPkts \in Seq(WirePackets) /\ readPkts \in Seq(WirePackets)

Sending ==
    /\ tx # "half" => txRest = <<>>
    /\ tx = "half" => /\ ~ closed /\ Len(sentPkts) >= 1
                      /\ Len(txRest) = Len(PktToCells(sentPkts[Len(sentPkts)])) - IntSize

Reading ==
    /\ ReaderOK(rx) /\ readPkts = SubSeq(sentPkts, 1, Len(readPkts))
    /\ Ahead(sentPkts, Len(readPkts), rx.stream)

OnTheWay ==
    \/ Whole(sentPkts, Len(readPkts), rx.stream, wire, txRest)
    \/ tx = "failed" /\ Broken(sentPkts, Len(readPkts), rx.stream, wire, txRest)

WireInv == WireTypes /\ Sending /\ Reading /\ OnTheWay

LEMMA FrontsAgree ==
    ASSUME NEW T, NEW q \in Seq(T), NEW r \in Seq(T), NEW n \in Nat, n <= Len(q), n <= Len(r),
           \A i \in 1 .. n : q[i] = r[i]
    PROVE  SubSeq(q, 1, n) = SubSeq(r, 1, n)
  OBVIOUS

\* All of them read, nothing is left.
LEMMA AheadWhenSent ==
    ASSUME NEW sent \in Seq(WirePackets), NEW n, NEW st \in Seq(Cells), NEW w \in Seq(Cells),
           NEW g, NEW B, Laid(g, B, sent, n, st, w, <<>>), Len(B) = Len(g[Len(sent)]),
           Ahead(sent, n, st), NEW l \in WirePackets
    PROVE  Ahead(Append(sent, l), n, st) /\ n <= Len(sent) /\ n \in Nat
<1> DEFINE s == Len(sent)
           sent2 == Append(sent, l)
<1>1. n \in 0 .. s /\ s \in Nat
  <2>1. <<>> \in Seq(Cells)
    OBVIOUS
  <2>2. Lengths(g, B, sent, n, st, w, <<>>)
    BY <2>1, LaidFacts
  <2> QED BY <2>2 DEF Lengths
<1>2. CASE n < s
  <2>1. sent2[n + 1] = sent[n + 1]
    BY <1>1, <1>2
  <2> HIDE DEF sent2
  <2> QED BY <1>1, <1>2, <2>1 DEF Ahead, sent2
<1>3. CASE n = s
  <2>1. sent2[n + 1] = l
    BY <1>1, <1>3
  <2>2. Len(PktToCells(l)) \in Nat /\ Len(PktToCells(l)) > 0
    <3> DEFINE x == Len(PktToCells(l))
    <3>1. x \in Nat /\ x > IntSize /\ IntSize \in Nat
      BY PktFacts DEF PktOK
    <3> HIDE DEF x
    <3>2. x \in Nat /\ x > 0
      BY <3>1
    <3> QED BY <3>2 DEF x
  <2>3. Len(st) = 0
    <3>1. <<>> \in Seq(Cells) /\ Len(<<>>) = 0 /\ Len(st) \in Nat /\ Len(w) \in Nat
      OBVIOUS
    <3>2. ~ (Len(st) + Len(w) + Len(<<>>) > 0)
      <4>1. ASSUME Len(st) + Len(w) + Len(<<>>) > 0 PROVE FALSE
        <5>1. n < Len(sent)
          BY <3>1, <4>1, UnreadWhileSent
        <5> QED BY <1>1, <1>3, <5>1
      <4> QED BY <4>1
    <3> QED BY <3>1, <3>2
  <2> HIDE DEF sent2
  <2> QED BY <1>1, <2>1, <2>2, <2>3 DEF Ahead, sent2
<1> QED BY <1>1, <1>2, <1>3

LEMMA WireStart == WireInit => WireInv
<1> SUFFICES ASSUME WireInit PROVE WireInv
  OBVIOUS
<1>1. <<>> \in Seq(Cells) /\ <<>> \in Seq(WirePackets) /\ Len(<<>>) = 0
  OBVIOUS
<1>2. WireTypes /\ Sending
  BY <1>1 DEF WireInit, WireTypes, Sending
<1>3. Reading
  <2>1. IntSize \in Nat \ {0}
    BY WireAssumption
  <2>2. ReaderOK(EmptyPkt)
    BY <1>1, <2>1 DEF ReaderOK, EmptyPkt, RxType
  <2>3. SubSeq(<<>>, 1, 0) = <<>>
    OBVIOUS
  <2> QED BY <1>1, <2>2, <2>3 DEF WireInit, Reading, Ahead
<1>4. OnTheWay
  <2>1. EmptyPkt.stream = <<>>
    BY DEF EmptyPkt
  <2> QED BY <1>1, <2>1, LaidAtStart DEF WireInit, OnTheWay
<1> QED BY <1>2, <1>3, <1>4 DEF WireInv

\* SendPkt, whole or in two halves, whose first is c.
LEMMA SendingKeeps ==
    ASSUME WireInv, tx = "idle", ~ closed, NEW l \in WirePackets, NEW c \in Seq(Cells), NEW d \in Seq(Cells),
           PktToCells(l) = c \o d, wire' = wire \o c, txRest' = d,
           sentPkts' = Append(sentPkts, l), (tx' = "idle" /\ d = <<>>) \/ (tx' = "half" /\ Len(c) = IntSize),
           UNCHANGED <<closed, rx, readPkts>>
    PROVE  WireInv'
<1>1. /\ WireTypes /\ txRest = <<>> /\ Reading /\ rx.stream \in Seq(Cells)
  BY DEF WireInv, Sending, Reading, ReaderOK, RxType
<1>2. Whole(sentPkts, Len(readPkts), rx.stream, wire, <<>>)
  BY <1>1 DEF WireInv, OnTheWay
<1>3. sentPkts \in Seq(WirePackets) /\ wire \in Seq(Cells) /\ Len(sentPkts) \in Nat
  BY <1>1 DEF WireTypes
<1>4. PICK g, B : /\ Laid(g, B, sentPkts, Len(readPkts), rx.stream, wire, <<>>)
                  /\ Len(B) = Len(g[Len(sentPkts)])
  BY <1>2 DEF Whole
<1>5. OnTheWay'
  <2>1. Whole(Append(sentPkts, l), Len(readPkts), rx.stream, wire \o c, d)
    BY <1>1, <1>3, <1>4, LaidWhenSent
  <2> QED BY <2>1 DEF OnTheWay
<1>6. WireTypes'
  <2>1. wire \o c \in Seq(Cells) /\ Append(sentPkts, l) \in Seq(WirePackets)
    BY <1>3
  <2> QED BY <1>1, <2>1 DEF WireTypes
<1>7. Ahead(Append(sentPkts, l), Len(readPkts), rx.stream) /\ Len(readPkts) <= Len(sentPkts) /\ Len(readPkts) \in Nat
  BY <1>1, <1>3, <1>4, AheadWhenSent DEF Reading
<1>8. Reading'
  <2>1. SubSeq(Append(sentPkts, l), 1, Len(readPkts)) = SubSeq(sentPkts, 1, Len(readPkts))
    <3> DEFINE q == Append(sentPkts, l)
    <3>1. /\ q \in Seq(WirePackets) /\ Len(q) = Len(sentPkts) + 1
          /\ \A i \in 1 .. Len(sentPkts) : q[i] = sentPkts[i]
      BY <1>3
    <3> HIDE DEF q
    <3>2. Len(readPkts) <= Len(q) /\ \A i \in 1 .. Len(readPkts) : q[i] = sentPkts[i]
      BY <1>3, <1>7, <3>1
    <3>3. SubSeq(q, 1, Len(readPkts)) = SubSeq(sentPkts, 1, Len(readPkts))
      BY <1>3, <1>7, <3>1, <3>2, FrontsAgree
    <3> QED BY <3>3 DEF q
  <2> QED BY <1>1, <1>7, <2>1 DEF Reading
<1>9. Sending'
  <2>1. CASE tx' = "idle" /\ d = <<>>
    BY <2>1 DEF Sending
  <2>2. CASE tx' = "half" /\ Len(c) = IntSize
    <3>1. Len(sentPkts') = Len(sentPkts) + 1 /\ sentPkts'[Len(sentPkts')] = l
      BY <1>3
    <3>2. Len(d) = Len(PktToCells(l)) - IntSize
      <4>1. JoinIs(c, d, c \o d)
        BY JoinedCells
      <4>2. Len(PktToCells(l)) = IntSize + Len(d) /\ Len(d) \in Nat /\ IntSize \in Nat
        BY <2>2, <4>1, PktFacts DEF JoinIs
      <4> QED BY <4>2
    <3>3. Len(sentPkts') >= 1
      BY <1>3, <3>1
    <3> QED BY <2>2, <3>1, <3>2, <3>3 DEF Sending
  <2> QED BY <2>1, <2>2
<1> QED BY <1>5, <1>6, <1>8, <1>9 DEF WireInv

\* SendPkt when send accepts fewer bytes than it was given.
LEMMA CuttingKeeps ==
    ASSUME WireInv, NEW l \in WirePackets, SendPktFails(l)
    PROVE  WireInv'
<1>1. /\ WireTypes /\ txRest = <<>> /\ Reading /\ rx.stream \in Seq(Cells) /\ tx = "idle"
  BY DEF WireInv, Sending, Reading, ReaderOK, RxType, SendPktFails
<1>2. PICK n \in 0 .. (Len(PktToCells(l)) - 1) : wire' = wire \o SubSeq(PktToCells(l), 1, n)
  BY DEF SendPktFails
<1>3. UNCHANGED <<txRest, sentPkts, closed, rx, readPkts>> /\ tx' = "failed"
  BY DEF SendPktFails
<1>4. sentPkts \in Seq(WirePackets) /\ wire \in Seq(Cells)
  BY <1>1 DEF WireTypes
<1>5. Broken(sentPkts, Len(readPkts), rx.stream, wire \o SubSeq(PktToCells(l), 1, n), <<>>)
  <2>1. PICK g, B : /\ Laid(g, B, sentPkts, Len(readPkts), rx.stream, wire, <<>>)
                    /\ Len(B) = Len(g[Len(sentPkts)])
    BY <1>1 DEF WireInv, OnTheWay, Whole
  <2> QED BY <1>1, <1>4, <2>1, LaidWhenCut
<1>6. OnTheWay'
  BY <1>1, <1>2, <1>3, <1>5 DEF OnTheWay
<1>7. wire' \in Seq(Cells)
  <2> DEFINE p == PktToCells(l)
  <2>1. p \in Seq(Cells) /\ n \in 0 .. (Len(p) - 1)
    BY PktFacts DEF PktOK
  <2> HIDE DEF p
  <2>2. SubSeq(p, 1, n) \in Seq(Cells)
    BY <2>1
  <2>3. wire \o SubSeq(p, 1, n) \in Seq(Cells)
    BY <1>4, <2>2
  <2> QED BY <1>2, <2>3 DEF p
<1>8. WireTypes' /\ Sending' /\ Reading'
  BY <1>1, <1>3, <1>7 DEF WireTypes, Sending, Reading
<1> QED BY <1>6, <1>8 DEF WireInv

LEMMA SendPktKeeps ==
    ASSUME WireInv, NEW l \in WirePackets, SendPkt(l) \/ SendPktDodgy(l)
    PROVE  WireInv'
<1> DEFINE p == PktToCells(l)
<1>1. /\ p \in Seq(Cells) /\ Len(p) \in Nat /\ Len(p) > IntSize /\ IntSize \in Nat
  BY PktFacts DEF PktOK
<1>2. txRest = <<>> \/ tx = "half"
  BY DEF WireInv, Sending
<1>3. CASE SendPkt(l)
  <2>1. /\ tx = "idle" /\ ~ closed /\ wire' = wire \o p /\ sentPkts' = Append(sentPkts, l)
        /\ UNCHANGED <<tx, txRest, closed, rx, readPkts>>
    BY <1>3 DEF SendPkt
  <2>2. txRest' = <<>> /\ tx' = "idle"
    BY <1>2, <2>1
  <2>3. p = p \o <<>> /\ <<>> \in Seq(Cells)
    <3> HIDE DEF p
    <3> QED BY <1>1
  <2> DEFINE d == <<>>
  <2>4. PktToCells(l) = p \o d /\ d \in Seq(Cells) /\ txRest' = d /\ (tx' = "idle" /\ d = <<>>)
    BY <2>2, <2>3
  <2> HIDE DEF p, d
  <2>5. /\ p \in Seq(Cells) /\ wire' = wire \o p /\ sentPkts' = Append(sentPkts, l)
        /\ tx = "idle" /\ ~ closed /\ UNCHANGED <<closed, rx, readPkts>>
    BY <1>1, <2>1
  <2> QED BY <2>4, <2>5, SendingKeeps
<1>4. CASE SendPktDodgy(l)
  <2> DEFINE c == SubSeq(p, 1, IntSize)
             d == SubSeq(p, IntSize + 1, Len(p))
  <2>1. /\ tx = "idle" /\ ~ closed /\ wire' = wire \o c /\ txRest' = d
        /\ sentPkts' = Append(sentPkts, l) /\ tx' = "half" /\ UNCHANGED <<closed, rx, readPkts>>
    BY <1>4 DEF SendPktDodgy
  <2>2. c \in Seq(Cells) /\ d \in Seq(Cells) /\ Len(c) = IntSize /\ p = c \o d
    <3> HIDE DEF p
    <3>1. c \in Seq(Cells) /\ Len(c) = IntSize /\ \A i \in 1 .. IntSize : c[i] = p[i]
      <4>1. IntSize \in 0 .. Len(p)
        BY <1>1
      <4> QED BY <1>1, <4>1, FrontFacts
    <3>2. d \in Seq(Cells) /\ Len(d) = Len(p) - IntSize /\ \A i \in 1 .. Len(d) : d[i] = p[IntSize + i]
      BY <1>1
    <3> HIDE DEF c, d
    <3>3. JoinIs(c, d, c \o d)
      BY <3>1, <3>2, JoinedCells
    <3> DEFINE u == c \o d
    <3>4. /\ u \in Seq(Cells) /\ Len(u) = Len(p)
          /\ \A i \in 1 .. IntSize : u[i] = c[i]
          /\ \A i \in 1 .. Len(d) : u[IntSize + i] = d[i]
      BY <1>1, <3>1, <3>2, <3>3 DEF JoinIs
    <3> HIDE DEF u
    <3>5. ASSUME NEW j \in 1 .. Len(p) PROVE u[j] = p[j]
      <4>1. CASE j \in 1 .. IntSize
        BY <3>1, <3>4, <4>1
      <4>2. CASE j > IntSize
        <5> DEFINE i == j - IntSize
        <5>1. i \in 1 .. Len(d) /\ j = IntSize + i
          BY <1>1, <3>2, <4>2
        <5> HIDE DEF i
        <5> QED BY <3>2, <3>4, <5>1
      <4> QED BY <1>1, <4>1, <4>2
    <3>6. u = p
      BY <1>1, <3>4, <3>5, SameCells
    <3> QED BY <3>1, <3>2, <3>6 DEF u
  <2>3. PktToCells(l) = c \o d
    BY <2>2
  <2> HIDE DEF c, d, p
  <2> QED BY <2>1, <2>2, <2>3, SendingKeeps
<1> QED BY <1>3, <1>4

LEMMA SendRestKeeps ==
    ASSUME WireInv, SendRest
    PROVE  WireInv'
<1>1. /\ WireTypes /\ Reading /\ rx.stream \in Seq(Cells) /\ tx = "half"
      /\ wire' = wire \o txRest /\ txRest' = <<>> /\ tx' = "idle"
      /\ UNCHANGED <<sentPkts, closed, rx, readPkts>>
  BY DEF WireInv, Reading, ReaderOK, RxType, SendRest
<1>2. sentPkts \in Seq(WirePackets) /\ wire \in Seq(Cells) /\ txRest \in Seq(Cells)
  BY <1>1 DEF WireTypes
<1>3. PICK g, B : /\ Laid(g, B, sentPkts, Len(readPkts), rx.stream, wire, txRest)
                  /\ Len(B) = Len(g[Len(sentPkts)])
  BY <1>1 DEF WireInv, OnTheWay, Whole
<1>4. Laid(g, B, sentPkts, Len(readPkts), rx.stream, wire \o txRest, <<>>)
  BY <1>1, <1>2, <1>3, LaidWhenFlushed
<1>5. Whole(sentPkts, Len(readPkts), rx.stream, wire \o txRest, <<>>)
  BY <1>3, <1>4 DEF Whole
<1>6. OnTheWay'
  BY <1>1, <1>5 DEF OnTheWay
<1>7. wire \o txRest \in Seq(Cells) /\ <<>> \in Seq(Cells)
  BY <1>2
<1>8. WireTypes' /\ Sending' /\ Reading'
  BY <1>1, <1>7 DEF WireTypes, Sending, Reading
<1> QED BY <1>6, <1>8 DEF WireInv

\* While the second half of a packet is not sent, that packet is not read.
LEMMA HalfIsUnread ==
    ASSUME WireInv, tx = "half"
    PROVE  /\ Len(readPkts) < Len(sentPkts) /\ Len(txRest) > 0
           /\ Len(readPkts) \in Nat /\ Len(sentPkts) \in Nat
<1>1. /\ WireTypes /\ rx.stream \in Seq(Cells) /\ Len(sentPkts) >= 1
      /\ Len(txRest) = Len(PktToCells(sentPkts[Len(sentPkts)])) - IntSize
  BY DEF WireInv, Sending, Reading, ReaderOK, RxType
<1>2. /\ sentPkts \in Seq(WirePackets) /\ wire \in Seq(Cells) /\ txRest \in Seq(Cells)
      /\ readPkts \in Seq(WirePackets)
  BY <1>1 DEF WireTypes
<1>3. Len(sentPkts) \in Nat /\ Len(readPkts) \in Nat /\ sentPkts[Len(sentPkts)] \in WirePackets
  BY <1>1, <1>2
<1>4. Len(txRest) > 0
  <2> DEFINE x == Len(PktToCells(sentPkts[Len(sentPkts)]))
  <2>1. x \in Nat /\ x > IntSize /\ IntSize \in Nat /\ Len(txRest) = x - IntSize
    BY <1>1, <1>3, PktFacts DEF PktOK
  <2> HIDE DEF x
  <2> QED BY <2>1
<1>5. PICK g, B : /\ Laid(g, B, sentPkts, Len(readPkts), rx.stream, wire, txRest)
                  /\ Len(B) = Len(g[Len(sentPkts)])
  BY DEF WireInv, OnTheWay, Whole
<1>6. Len(rx.stream) + Len(wire) + Len(txRest) > 0
  <2>1. Len(rx.stream) \in Nat /\ Len(wire) \in Nat /\ Len(txRest) \in Nat
    BY <1>1, <1>2
  <2> QED BY <1>4, <2>1
<1> QED BY <1>1, <1>2, <1>3, <1>4, <1>5, <1>6, UnreadWhileSent

LEMMA DieKeeps ==
    ASSUME WireInv, DieMidTransaction
    PROVE  WireInv'
<1>1. /\ WireTypes /\ Reading /\ rx.stream \in Seq(Cells) /\ tx = "half" /\ Len(sentPkts) >= 1
      /\ Len(txRest) = Len(PktToCells(sentPkts[Len(sentPkts)])) - IntSize
      /\ tx' = "failed" /\ closed' = TRUE /\ txRest' = <<>>
      /\ sentPkts' = SubSeq(sentPkts, 1, Len(sentPkts) - 1) /\ UNCHANGED <<wire, rx, readPkts>>
  BY DEF WireInv, Sending, Reading, ReaderOK, RxType, DieMidTransaction
<1>2. sentPkts \in Seq(WirePackets) /\ wire \in Seq(Cells) /\ txRest \in Seq(Cells)
  BY <1>1 DEF WireTypes
<1>3. PICK g, B : /\ Laid(g, B, sentPkts, Len(readPkts), rx.stream, wire, txRest)
                  /\ Len(B) = Len(g[Len(sentPkts)])
  BY <1>1 DEF WireInv, OnTheWay, Whole
<1>4. Broken(SubSeq(sentPkts, 1, Len(sentPkts) - 1), Len(readPkts), rx.stream, wire, <<>>)
  BY <1>1, <1>2, <1>3, LaidWhenGivenUp
<1>5. OnTheWay'
  BY <1>1, <1>4 DEF OnTheWay
<1> DEFINE s == Len(sentPkts)
           n == Len(readPkts)
           q == SubSeq(sentPkts, 1, s - 1)
<1>6. n < s /\ n \in Nat /\ s \in Nat
  BY <1>1, HalfIsUnread
<1>7. q \in Seq(WirePackets) /\ Len(q) = s - 1 /\ \A i \in 1 .. (s - 1) : q[i] = sentPkts[i]
  <2>1. s - 1 \in 0 .. Len(sentPkts)
    BY <1>6
  <2> QED BY <1>2, <2>1, FrontFacts
<1> HIDE DEF q
<1>8. WireTypes' /\ Sending'
  <2>1. <<>> \in Seq(Cells)
    OBVIOUS
  <2> QED BY <1>1, <1>7, <2>1 DEF WireTypes, Sending, q
<1>9. SubSeq(q, 1, n) = SubSeq(sentPkts, 1, n)
  <2>1. n <= Len(q) /\ n <= Len(sentPkts) /\ \A i \in 1 .. n : q[i] = sentPkts[i]
    BY <1>6, <1>7
  <2> QED BY <1>2, <1>6, <1>7, <2>1, FrontsAgree
<1>10. Ahead(q, n, rx.stream)
  <2> SUFFICES ASSUME n < s - 1 PROVE Len(rx.stream) < Len(PktToCells(q[n + 1]))
    BY <1>7 DEF Ahead
  <2>1. q[n + 1] = sentPkts[n + 1]
    BY <1>6, <1>7
  <2>2. Ahead(sentPkts, n, rx.stream)
    BY <1>1 DEF Reading
  <2> HIDE DEF n
  <2> QED BY <1>6, <2>1, <2>2 DEF Ahead
<1>11. Reading'
  BY <1>1, <1>9, <1>10 DEF Reading, q
<1> QED BY <1>5, <1>8, <1>11 DEF WireInv

\* What a call of recv brings, and what becomes of it.
LEMMA RecvKeeps ==
    ASSUME WireInv, NEW k \in Nat, Drain(k), Received(k)
    PROVE  /\ WireInv'
           /\ \/ UNCHANGED readPkts
              \/ /\ Len(readPkts) < Len(sentPkts)
                 /\ readPkts' = Append(readPkts, sentPkts[Len(readPkts) + 1])
<1> DEFINE n == Len(readPkts)
           s == Len(sentPkts)
           c == SubSeq(wire, 1, k)
           d == SubSeq(wire, k + 1, Len(wire))
           q == OnBytesWritten(rx, c)
           u == rx.stream \o c
<1>1. /\ WireTypes /\ Sending /\ Reading /\ ReaderOK(rx) /\ rx.stream \in Seq(Cells)
      /\ readPkts = SubSeq(sentPkts, 1, n) /\ Ahead(sentPkts, n, rx.stream)
  BY DEF WireInv, Reading, ReaderOK, RxType
<1>2. /\ sentPkts \in Seq(WirePackets) /\ wire \in Seq(Cells) /\ txRest \in Seq(Cells)
      /\ readPkts \in Seq(WirePackets) /\ n \in Nat /\ s \in Nat
  BY <1>1 DEF WireTypes
<1>3. k \in 1 .. Len(wire) /\ k <= GetBytesRequired(rx) /\ wire' = d
  <2> DEFINE x == GetBytesRequired(rx)
  <2>1. x \in Int
    BY <1>1, WireAssumption DEF GetBytesRequired, ReaderOK, RxType
  <2>2. k \in 1 .. Lesser(Lesser(x, ChunkRead), Len(wire)) /\ wire' = d
    BY DEF Drain, ToReceive
  <2> HIDE DEF x, d
  <2>3. k \in Nat /\ k >= 1 /\ k <= Lesser(Lesser(x, ChunkRead), Len(wire)) /\ Len(wire) \in Nat /\ ChunkRead \in Nat
    <3>1. ChunkRead \in Nat /\ Len(wire) \in Nat
      BY <1>2, WireAssumption
    <3>2. Lesser(Lesser(x, ChunkRead), Len(wire)) \in Int
      BY <2>1, <3>1 DEF Lesser
    <3> QED BY <2>2, <3>1, <3>2
  <2>4. k <= x /\ k <= Len(wire)
    BY <2>1, <2>3 DEF Lesser
  <2> QED BY <2>2, <2>3, <2>4 DEF x
<1>4. /\ IF GetBytesRequired(q) = 0
         THEN rx' = EmptyPkt /\ readPkts' = Append(readPkts, PktFromCells(q.stream, FALSE).list)
         ELSE rx' = q /\ UNCHANGED readPkts
      /\ UNCHANGED <<tx, txRest, sentPkts, closed>>
  BY DEF Received
<1>5. /\ c \in Seq(Cells) /\ Len(c) = k /\ d \in Seq(Cells) /\ u \in Seq(Cells)
      /\ Len(u) = Len(rx.stream) + k
      /\ \A g, B : Laid(g, B, sentPkts, n, rx.stream, wire, txRest) => Laid(g, B, sentPkts, n, u, d, txRest)
  <2>1. PICK g, B : Laid(g, B, sentPkts, n, rx.stream, wire, txRest)
    BY DEF WireInv, OnTheWay, Whole, Broken
  <2>2. k \in 0 .. Len(wire)
    BY <1>3
  <2>3. /\ c \in Seq(Cells) /\ Len(c) = k /\ d \in Seq(Cells) /\ u \in Seq(Cells)
        /\ Len(u) = Len(rx.stream) + k
    <3>1. Moved(rx.stream, wire, k)
      <4> HIDE DEF n
      <4> QED BY <1>1, <1>2, <2>1, <2>2, LaidWhenMoved
    <3> QED BY <3>1 DEF Moved
  <2>4. \A h, C : Laid(h, C, sentPkts, n, rx.stream, wire, txRest) => Laid(h, C, sentPkts, n, u, d, txRest)
    BY <1>1, <1>2, <2>2, LaidWhenMoved
  <2> HIDE DEF n, c, d, u
  <2> QED BY <2>3, <2>4
<1> HIDE DEF c, d, u
<1>6. /\ Whole(sentPkts, n, u, d, txRest) \/ (tx = "failed" /\ Broken(sentPkts, n, u, d, txRest))
      /\ \E g, B : Laid(g, B, sentPkts, n, u, d, txRest)
  <2>1. CASE Whole(sentPkts, n, rx.stream, wire, txRest)
    <3>1. PICK g, B : /\ Laid(g, B, sentPkts, n, rx.stream, wire, txRest)
                      /\ Len(B) = Len(g[s])
      BY <2>1 DEF Whole
    <3>2. Laid(g, B, sentPkts, n, u, d, txRest)
      BY <1>5, <3>1
    <3> QED BY <3>1, <3>2, WholeIntro
  <2>2. CASE tx = "failed" /\ Broken(sentPkts, n, rx.stream, wire, txRest)
    <3>1. PICK g, B : Laid(g, B, sentPkts, n, rx.stream, wire, txRest) /\ Cut(g, B, sentPkts)
      BY <2>2 DEF Broken
    <3>2. Laid(g, B, sentPkts, n, u, d, txRest)
      BY <1>5, <3>1
    <3> QED BY <2>2, <3>1, <3>2 DEF Broken
  <2> QED BY <2>1, <2>2 DEF WireInv, OnTheWay
\* The packet that is being filled: sent, or given up.
<1>7. n \in 0 .. s
  <2>1. PICK g, B : Laid(g, B, sentPkts, n, u, d, txRest)
    BY <1>6
  <2> QED BY <2>1 DEF Laid
<1>8. \E l \in WirePackets : /\ StartOf(u, l) /\ Len(rx.stream) < Len(PktToCells(l))
                             /\ n < s => l = sentPkts[n + 1]
                             /\ n = s => Len(u) < Len(PktToCells(l))
  <2>1. CASE n < s
    <3>1. PICK g, B : Laid(g, B, sentPkts, n, u, d, txRest)
      BY <1>6
    <3>2. sentPkts[n + 1] \in WirePackets /\ StartOf(u, sentPkts[n + 1])
      BY <1>2, <1>5, <2>1, <3>1, LaidAhead
    <3>3. Len(rx.stream) < Len(PktToCells(sentPkts[n + 1]))
      BY <1>1, <2>1 DEF Ahead
    <3> HIDE DEF n, s
    <3>4. ~ (n = s)
      BY <1>2, <2>1
    <3> QED BY <3>2, <3>3, <3>4
  <2>2. CASE n = s
    <3>1. PICK g, B : /\ Laid(g, B, sentPkts, n, u, d, txRest)
                      /\ Len(B) = Len(g[s]) \/ Cut(g, B, sentPkts)
      BY <1>6 DEF Whole, Broken
    <3>2. Cut(g, B, sentPkts)
      <4> SUFFICES ASSUME Len(B) = Len(g[s]) PROVE FALSE
        BY <3>1
      <4>1. Len(u) + Len(d) + Len(txRest) > 0
        <5>1. Len(u) \in Nat /\ Len(d) \in Nat /\ Len(txRest) \in Nat /\ Len(rx.stream) \in Nat /\ k \in Nat /\ k >= 1
          BY <1>1, <1>2, <1>3, <1>5
        <5> QED BY <1>5, <5>1
      <4>2. n < s
        BY <1>2, <1>5, <3>1, <4>1, UnreadWhileSent
      <4> QED BY <1>2, <2>2, <4>2
    <3>3. PICK l \in WirePackets : StartOf(u, l) /\ Len(u) < Len(PktToCells(l))
      BY <1>2, <1>5, <2>2, <3>1, <3>2, LaidAhead
    <3>4. Len(rx.stream) < Len(PktToCells(l))
      <4> DEFINE x == Len(PktToCells(l))
      <4>1. x \in Nat /\ Len(u) < x /\ Len(rx.stream) \in Nat /\ k \in Nat /\ Len(u) = Len(rx.stream) + k
        BY <1>1, <1>3, <1>5, <3>3, PktFacts DEF PktOK
      <4> HIDE DEF x
      <4>2. Len(rx.stream) < x
        BY <4>1
      <4> QED BY <4>2 DEF x
    <3> HIDE DEF n, s
    <3> QED BY <1>2, <2>2, <3>3, <3>4
  <2> HIDE DEF n, s
  <2> QED BY <1>2, <1>7, <2>1, <2>2
<1>9. PICK l \in WirePackets : /\ StartOf(u, l) /\ Len(rx.stream) < Len(PktToCells(l))
                               /\ n < s => l = sentPkts[n + 1]
                               /\ n = s => Len(u) < Len(PktToCells(l))
  BY <1>8
<1>10. /\ ReaderOK(q) /\ q.stream = u /\ Len(u) <= Len(PktToCells(l))
       /\ GetBytesRequired(q) = 0 <=> Len(u) = Len(PktToCells(l))
  <2>1. Len(c) \in 1 .. GetBytesRequired(rx)
    <3>1. GetBytesRequired(rx) \in Int
      BY <1>1, WireAssumption DEF GetBytesRequired, ReaderOK, RxType
    <3> QED BY <1>3, <1>5, <3>1
  <2>2. StartOf(rx.stream \o c, l)
    BY <1>9 DEF u
  <2>3. Filled(rx, c, l)
    <3> HIDE DEF n, s
    <3> QED BY <1>1, <1>5, <1>9, <2>1, <2>2, Filling
  <2> QED BY <2>3 DEF u, Filled
<1> HIDE DEF q
<1>11. Len(PktToCells(l)) \in Nat /\ Len(u) \in Nat /\ Len(PktToCells(l)) > 0
  <2> DEFINE x == Len(PktToCells(l))
  <2>1. x \in Nat /\ x > IntSize /\ IntSize \in Nat /\ Len(u) \in Nat
    <3>1. Len(u) \in Nat
      BY <1>5
    <3>2. PktOK(l) /\ IntSize \in Nat
      BY PktFacts
    <3> QED BY <3>1, <3>2 DEF PktOK
  <2> HIDE DEF x
  <2>2. x > 0
    BY <2>1
  <2> QED BY <2>1, <2>2 DEF x
<1>12. CASE GetBytesRequired(q) # 0
  <2>1. rx' = q /\ readPkts' = readPkts
    BY <1>4, <1>12
  <2>2. Ahead(sentPkts, n, u)
    <3>1. Len(u) < Len(PktToCells(l))
      BY <1>10, <1>11, <1>12
    <3> HIDE DEF n
    <3> QED BY <1>9, <3>1 DEF Ahead
  <2>3. WireTypes' /\ Sending'
    BY <1>1, <1>2, <1>3, <1>4, <1>5, <2>1 DEF WireTypes, Sending
  <2>4. Reading'
    <3>1. rx'.stream = u
      BY <1>10, <2>1
    <3>2. Ahead(sentPkts', Len(readPkts'), rx'.stream)
      BY <1>4, <2>1, <2>2, <3>1
    <3>3. ReaderOK(rx')
      BY <1>10, <2>1
    <3>4. readPkts' = SubSeq(sentPkts', 1, Len(readPkts'))
      BY <1>1, <1>4, <2>1
    <3> QED BY <3>2, <3>3, <3>4 DEF Reading
  <2>5. OnTheWay'
    <3>1. rx'.stream = u /\ wire' = d /\ UNCHANGED <<tx, sentPkts, readPkts, txRest>>
      BY <1>3, <1>4, <1>10, <2>1
    <3> QED BY <1>6, <3>1 DEF OnTheWay
  <2> QED BY <2>1, <2>3, <2>4, <2>5 DEF WireInv
<1>13. CASE GetBytesRequired(q) = 0
  <2>1. Len(u) = Len(PktToCells(l)) /\ n < s /\ l = sentPkts[n + 1]
    <3>1. Len(u) = Len(PktToCells(l))
      BY <1>10, <1>13
    <3> DEFINE x == Len(PktToCells(l))
    <3>2. x \in Nat /\ Len(u) = x /\ (n = s => Len(u) < x)
      BY <1>9, <1>11, <3>1
    <3> HIDE DEF x
    <3>3. n # s
      BY <3>2
    <3>4. n < s
      <4> HIDE DEF n, s
      <4> QED BY <1>7, <1>2, <3>3
    <3> QED BY <1>9, <3>1, <3>4
  <2>2. /\ u = PktToCells(l)
        /\ \A g, B : Laid(g, B, sentPkts, n, u, d, txRest) => Laid(g, B, sentPkts, n + 1, <<>>, d, txRest)
    <3>1. PICK g, B : Laid(g, B, sentPkts, n, u, d, txRest)
      BY <1>6
    <3>2. Len(u) = Len(PktToCells(sentPkts[n + 1]))
      BY <2>1
    <3>3. u = PktToCells(sentPkts[n + 1])
      BY <1>2, <1>5, <2>1, <3>1, <3>2, LaidWhenRead
    <3>4. \A h, C : Laid(h, C, sentPkts, n, u, d, txRest) => Laid(h, C, sentPkts, n + 1, <<>>, d, txRest)
      BY <1>2, <1>5, <2>1, <3>2, LaidWhenRead
    <3> QED BY <2>1, <3>3, <3>4
  <2>3. readPkts' = Append(readPkts, l) /\ rx' = EmptyPkt
    <3>1. PktFromCells(PktToCells(l), FALSE).list = l
      BY PktFacts DEF PktOK
    <3> QED BY <1>4, <1>10, <1>13, <2>2, <3>1
  <2>4. /\ readPkts' \in Seq(WirePackets) /\ Len(readPkts') = n + 1 /\ EmptyPkt.stream = <<>>
    BY <1>2, <2>3 DEF EmptyPkt
  <2>5. OnTheWay'
    <3>1. \/ Whole(sentPkts, n + 1, <<>>, d, txRest)
          \/ tx = "failed" /\ Broken(sentPkts, n + 1, <<>>, d, txRest)
      <4>1. CASE Whole(sentPkts, n, u, d, txRest)
        <5>1. PICK g, B : Laid(g, B, sentPkts, n, u, d, txRest) /\ Len(B) = Len(g[s])
          BY <4>1 DEF Whole
        <5>2. Laid(g, B, sentPkts, n + 1, <<>>, d, txRest)
          BY <2>2, <5>1
        <5> QED BY <5>1, <5>2, WholeIntro
      <4>2. CASE tx = "failed" /\ Broken(sentPkts, n, u, d, txRest)
        <5>1. PICK g, B : Laid(g, B, sentPkts, n, u, d, txRest) /\ Cut(g, B, sentPkts)
          BY <4>2 DEF Broken
        <5>2. Laid(g, B, sentPkts, n + 1, <<>>, d, txRest)
          BY <2>2, <5>1
        <5> QED BY <4>2, <5>1, <5>2 DEF Broken
      <4> QED BY <1>6, <4>1, <4>2
    <3>2. rx'.stream = <<>> /\ wire' = d /\ Len(readPkts') = n + 1 /\ UNCHANGED <<tx, sentPkts, txRest>>
      BY <1>3, <1>4, <2>3, <2>4
    <3> HIDE DEF n
    <3> QED BY <3>1, <3>2 DEF OnTheWay
  <2>6. WireTypes' /\ Sending'
    BY <1>1, <1>2, <1>3, <1>4, <1>5, <2>4 DEF WireTypes, Sending
  <2>7. Reading'
    <3>1. ReaderOK(EmptyPkt)
      <4>1. <<>> \in Seq(Cells) /\ Len(<<>>) = 0
        OBVIOUS
      <4> QED BY <4>1, WireAssumption DEF ReaderOK, EmptyPkt, RxType
    <3>2. Append(readPkts, l) = SubSeq(sentPkts, 1, n + 1)
      <4> DEFINE a == SubSeq(sentPkts, 1, n)
                 b == SubSeq(sentPkts, 1, n + 1)
      <4>1. a \in Seq(WirePackets) /\ Len(a) = n /\ \A i \in 1 .. n : a[i] = sentPkts[i]
        <5>1. n \in 0 .. Len(sentPkts)
          BY <1>7
        <5> HIDE DEF n
        <5> QED BY <1>2, <5>1, FrontFacts
      <4>2. b \in Seq(WirePackets) /\ Len(b) = n + 1 /\ \A i \in 1 .. (n + 1) : b[i] = sentPkts[i]
        <5>1. n + 1 \in 0 .. Len(sentPkts)
          BY <1>2, <2>1
        <5> HIDE DEF n
        <5> QED BY <1>2, <5>1, FrontFacts
      <4>3. readPkts = a
        BY <1>1
      <4> HIDE DEF a, b, n, s
      <4>4. Append(a, l) = b
        <5> DEFINE e == Append(a, l)
        <5>1. e \in Seq(WirePackets) /\ Len(e) = n + 1 /\ e[n + 1] = l /\ \A i \in 1 .. n : e[i] = a[i]
          BY <1>2, <4>1
        <5> HIDE DEF e
        <5>2. \A i \in 1 .. (n + 1) : e[i] = b[i]
          <6>1. \A i \in 1 .. n : e[i] = b[i]
            <7>1. \A i \in 1 .. n : i \in 1 .. (n + 1)
              BY <1>2
            <7> QED BY <4>1, <4>2, <5>1, <7>1
          <6>2. n + 1 \in 1 .. (n + 1)
            BY <1>2
          <6>3. e[n + 1] = b[n + 1]
            BY <2>1, <4>2, <5>1, <6>2
          <6>4. \A i \in 1 .. (n + 1) : i \in 1 .. n \/ i = n + 1
            BY <1>2
          <6> QED BY <6>1, <6>3, <6>4
        <5>3. e = b
          BY <1>2, <4>2, <5>1, <5>2
        <5> QED BY <5>3 DEF e
      <4> QED BY <4>3, <4>4 DEF b
    <3>3. Ahead(sentPkts, n + 1, <<>>)
      <4> SUFFICES ASSUME n + 1 < s PROVE 0 < Len(PktToCells(sentPkts[n + 1 + 1]))
        BY DEF Ahead
      <4> DEFINE m == sentPkts[n + 1 + 1]
                 x == Len(PktToCells(m))
      <4>1. m \in WirePackets
        <5>1. n + 1 + 1 \in 1 .. Len(sentPkts)
          BY <1>2
        <5> HIDE DEF n
        <5> QED BY <1>2, <5>1
      <4> HIDE DEF m
      <4>2. x \in Nat /\ x > IntSize /\ IntSize \in Nat
        BY <4>1, PktFacts DEF PktOK
      <4> HIDE DEF x
      <4>3. x > 0
        BY <4>2
      <4> QED BY <4>3 DEF x, m
    <3>4. /\ rx' = EmptyPkt /\ rx'.stream = <<>> /\ readPkts' = Append(readPkts, l) /\ Len(readPkts') = n + 1
          /\ sentPkts' = sentPkts
      BY <1>4, <2>3, <2>4
    <3>5. Ahead(sentPkts', Len(readPkts'), rx'.stream)
      <4> HIDE DEF n
      <4> QED BY <3>3, <3>4
    <3>6. readPkts' = SubSeq(sentPkts', 1, Len(readPkts'))
      <4> HIDE DEF n
      <4> QED BY <3>2, <3>4
    <3> QED BY <3>1, <3>4, <3>5, <3>6 DEF Reading
  <2> QED BY <2>1, <2>3, <2>5, <2>6, <2>7 DEF WireInv
<1> QED BY <1>12, <1>13

LEMMA WireStep == WireInv /\ [WireNext]_wireVars => WireInv'
<1> SUFFICES ASSUME WireInv, [WireNext]_wireVars PROVE WireInv'
  OBVIOUS
<1>1. ASSUME NEW l \in WirePackets, SendPkt(l) \/ SendPktDodgy(l) PROVE WireInv'
  BY <1>1, SendPktKeeps
<1>2. ASSUME NEW l \in WirePackets, SendPktFails(l) PROVE WireInv'
  BY <1>2, CuttingKeeps
<1>3. CASE SendRest
  BY <1>3, SendRestKeeps
<1>4. CASE DieMidTransaction
  BY <1>4, DieKeeps
<1>5. CASE CloseSocket
  <2>1. tx # "half" /\ closed' = TRUE /\ UNCHANGED <<wire, tx, txRest, sentPkts, rx, readPkts>>
    BY <1>5 DEF CloseSocket
  <2> QED BY <2>1 DEF WireInv, WireTypes, Sending, Reading, OnTheWay
<1>6. CASE RecvSome
  <2>1. PICK n \in 1 .. ChunkRead : Drain(n) /\ Received(n)
    BY <1>6 DEF RecvSome
  <2>2. n \in Nat
    BY WireAssumption
  <2> QED BY <2>1, <2>2, RecvKeeps
<1>7. CASE RecvClosed \/ RecvTimeout \/ UNCHANGED wireVars
  <2>1. UNCHANGED <<wire, tx, txRest, sentPkts, closed, rx, readPkts>>
    BY <1>7 DEF RecvClosed, RecvTimeout, wireVars
  <2> QED BY <2>1 DEF WireInv, WireTypes, Sending, Reading, OnTheWay
<1> QED BY <1>1, <1>2, <1>3, <1>4, <1>5, <1>6, <1>7 DEF WireNext

LEMMA WireAlways == WireSpec => []WireInv
<1>1. WireInit => WireInv
  BY WireStart
<1>2. WireInv /\ [WireNext]_wireVars => WireInv'
  BY WireStep
<1> QED BY <1>1, <1>2, PTL DEF WireSpec

LEMMA BuffersSuffice == WireInv => NoOverrun /\ PacketsFitTheirBuffer
<1> SUFFICES ASSUME WireInv PROVE NoOverrun /\ PacketsFitTheirBuffer
  OBVIOUS
<1>1. /\ ReaderOK(rx) /\ rx.stream \in Seq(Cells) /\ rx.msgLen \in Int /\ rx.space \in Int
      /\ sentPkts \in Seq(WirePackets)
  BY DEF WireInv, WireTypes, Reading, ReaderOK, RxType
<1>2. NoOverrun
  <2> DEFINE x == Len(rx.stream)
  <2>1. x \in Nat /\ IntSize \in Nat /\ ChunkRead \in Nat /\ rx.space >= IntSize
    BY <1>1, WireAssumption DEF ReaderOK
  <2>2. x >= IntSize => rx.msgLen <= rx.space
    BY <1>1 DEF ReaderOK
  <2>3. GetBytesRequired(rx) = IF x < IntSize THEN IntSize - x ELSE rx.msgLen - x
    BY DEF GetBytesRequired
  <2> DEFINE r == GetBytesRequired(rx)
  <2>4. r \in Int /\ x + r <= rx.space
    <3> HIDE DEF x
    <3> QED BY <1>1, <2>1, <2>2, <2>3
  <2>5. Lesser(r, ChunkRead) <= r
    <3> HIDE DEF r
    <3> QED BY <2>1, <2>4 DEF Lesser
  <2>6. Lesser(r, ChunkRead) \in Int
    <3> HIDE DEF r
    <3> QED BY <2>1, <2>4 DEF Lesser
  <2> HIDE DEF x, r
  <2>7. x + Lesser(r, ChunkRead) <= rx.space
    BY <1>1, <2>1, <2>4, <2>5, <2>6
  <2> QED BY <2>7 DEF NoOverrun, ToReceive, x, r
<1>3. PacketsFitTheirBuffer
  <2>1. \A i \in DOMAIN sentPkts : PktOK(sentPkts[i])
    BY <1>1, PktFacts
  <2> QED BY <2>1 DEF PacketsFitTheirBuffer, PktOK
<1> QED BY <1>2, <1>3

-----------------------------------------------------------------------------
(* The channel                                                             *)

\* What follows the first n elements.
After(q, n) == [i \in 1 .. (Len(q) - n) |-> q[n + i]]

LEMMA AfterFacts ==
    ASSUME NEW T, NEW q \in Seq(T), NEW n \in 0 .. Len(q)
    PROVE  /\ After(q, n) \in Seq(T) /\ Len(After(q, n)) = Len(q) - n
           /\ \A i \in 1 .. (Len(q) - n) : After(q, n)[i] = q[n + i]
  BY DEF After

LEMMA SameAs ==
    ASSUME NEW T, NEW q \in Seq(T), NEW r \in Seq(T), Len(q) = Len(r), \A i \in 1 .. Len(r) : q[i] = r[i]
    PROVE  q = r
  OBVIOUS

LEMMA AfterAppend ==
    ASSUME NEW T, NEW q \in Seq(T), NEW n \in 0 .. Len(q), NEW l \in T
    PROVE  After(Append(q, l), n) = Append(After(q, n), l)
<1> DEFINE a == After(q, n)
           e == Append(q, l)
           b == After(e, n)
           c == Append(a, l)
           s == Len(q)
<1>1. a \in Seq(T) /\ Len(a) = s - n /\ \A i \in 1 .. (s - n) : a[i] = q[n + i]
  BY AfterFacts
<1>2. e \in Seq(T) /\ Len(e) = s + 1 /\ e[s + 1] = l /\ \A i \in 1 .. s : e[i] = q[i]
  OBVIOUS
<1>3. s \in Nat /\ n \in Nat /\ n <= s
  OBVIOUS
<1> HIDE DEF a, e, s
<1>4. b \in Seq(T) /\ Len(b) = s + 1 - n /\ \A i \in 1 .. (s + 1 - n) : b[i] = e[n + i]
  <2>1. n \in 0 .. Len(e)
    BY <1>2, <1>3
  <2>2. b \in Seq(T) /\ Len(b) = Len(e) - n /\ \A i \in 1 .. (Len(e) - n) : b[i] = e[n + i]
    BY <1>2, <2>1, AfterFacts
  <2>3. Len(e) - n = s + 1 - n
    BY <1>2, <1>3
  <2> HIDE DEF b
  <2> QED BY <2>2, <2>3
<1>5. c \in Seq(T) /\ Len(c) = s - n + 1 /\ c[s - n + 1] = l /\ \A i \in 1 .. (s - n) : c[i] = a[i]
  BY <1>1, <1>3
<1> HIDE DEF b, c
<1>6. ASSUME NEW i \in 1 .. (s - n + 1) PROVE b[i] = c[i]
  <2>1. CASE i = s - n + 1
    <3>1. i \in 1 .. (s + 1 - n) /\ n + i = s + 1
      BY <1>3, <2>1
    <3> QED BY <1>2, <1>4, <1>5, <2>1, <3>1
  <2>2. CASE i # s - n + 1
    <3>1. i \in 1 .. (s + 1 - n) /\ i \in 1 .. (s - n) /\ n + i \in 1 .. s
      BY <1>3, <2>2
    <3> QED BY <1>1, <1>2, <1>4, <1>5, <3>1
  <2> QED BY <2>1, <2>2
<1>7. b = c
  <2>1. Len(b) = Len(c) /\ Len(c) = s - n + 1
    BY <1>3, <1>4, <1>5
  <2> QED BY <1>4, <1>5, <1>6, <2>1, SameAs
<1> QED BY <1>7 DEF a, b, c, e

LEMMA AfterHead ==
    ASSUME NEW T, NEW q \in Seq(T), NEW n \in Nat, n < Len(q)
    PROVE  /\ After(q, n) # <<>> /\ Head(After(q, n)) = q[n + 1]
           /\ Tail(After(q, n)) = After(q, n + 1)
<1> DEFINE a == After(q, n)
           b == After(q, n + 1)
           s == Len(q)
<1>1. s \in Nat /\ n \in 0 .. s /\ n + 1 \in 0 .. s
  OBVIOUS
<1>2. a \in Seq(T) /\ Len(a) = s - n /\ \A i \in 1 .. (s - n) : a[i] = q[n + i]
  BY <1>1, AfterFacts
<1>3. b \in Seq(T) /\ Len(b) = s - (n + 1) /\ \A i \in 1 .. (s - (n + 1)) : b[i] = q[n + 1 + i]
  BY <1>1, AfterFacts
<1> HIDE DEF a, b, s
<1>4. a # <<>> /\ Len(a) >= 1 /\ a[1] = q[n + 1]
  <2>1. Len(a) >= 1 /\ 1 \in 1 .. (s - n)
    BY <1>1, <1>2 DEF s
  <2> QED BY <1>2, <2>1
<1> DEFINE t == Tail(a)
<1>5. t \in Seq(T) /\ Len(t) = Len(a) - 1 /\ (\A i \in 1 .. (Len(a) - 1) : t[i] = a[i + 1]) /\ Head(a) = a[1]
  BY <1>2, <1>4
<1> HIDE DEF t
<1>6. Len(t) = Len(b) /\ Len(b) = s - (n + 1)
  BY <1>1, <1>2, <1>3, <1>5
<1>7. ASSUME NEW i \in 1 .. Len(b) PROVE t[i] = b[i]
  <2>1. i \in 1 .. (Len(a) - 1) /\ i + 1 \in 1 .. (s - n) /\ i \in 1 .. (s - (n + 1)) /\ n + (i + 1) = n + 1 + i
    BY <1>1, <1>2, <1>3
  <2>2. t[i] = a[i + 1] /\ a[i + 1] = q[n + (i + 1)]
    BY <1>2, <1>5, <2>1
  <2> QED BY <1>3, <2>1, <2>2
<1>8. t = b
  BY <1>3, <1>5, <1>6, <1>7, SameAs
<1> QED BY <1>4, <1>5, <1>8 DEF a, b, t

LEMMA AfterFront ==
    ASSUME NEW T, NEW q \in Seq(T), NEW n \in Nat, n < Len(q)
    PROVE  SubSeq(After(q, n), 1, Len(After(q, n)) - 1) = After(SubSeq(q, 1, Len(q) - 1), n)
<1> DEFINE a == After(q, n)
           f == SubSeq(q, 1, Len(q) - 1)
           b == After(f, n)
           s == Len(q)
           c == SubSeq(a, 1, Len(a) - 1)
<1>1. s \in Nat /\ n \in 0 .. s /\ n < s
  OBVIOUS
<1>2. a \in Seq(T) /\ Len(a) = s - n /\ \A i \in 1 .. (s - n) : a[i] = q[n + i]
  BY <1>1, AfterFacts
<1>3. f \in Seq(T) /\ Len(f) = s - 1 /\ \A i \in 1 .. (s - 1) : f[i] = q[i]
  <2>1. s - 1 \in 0 .. Len(q)
    BY <1>1
  <2> QED BY <2>1, FrontFacts
<1> HIDE DEF a, f
<1>4. b \in Seq(T) /\ Len(b) = s - 1 - n /\ \A i \in 1 .. (s - 1 - n) : b[i] = f[n + i]
  <2>1. n \in 0 .. Len(f)
    BY <1>1, <1>3
  <2>2. b \in Seq(T) /\ Len(b) = Len(f) - n /\ \A i \in 1 .. (Len(f) - n) : b[i] = f[n + i]
    BY <1>3, <2>1, AfterFacts
  <2> QED BY <1>3, <2>2
<1>5. c \in Seq(T) /\ Len(c) = s - 1 - n /\ \A i \in 1 .. (s - 1 - n) : c[i] = a[i]
  <2>1. Len(a) - 1 \in 0 .. Len(a) /\ Len(a) - 1 = s - 1 - n
    BY <1>1, <1>2
  <2>2. c \in Seq(T) /\ Len(c) = Len(a) - 1 /\ \A i \in 1 .. (Len(a) - 1) : c[i] = a[i]
    BY <1>2, <2>1, FrontFacts
  <2> QED BY <2>1, <2>2
<1> HIDE DEF b, c, s
<1>6. ASSUME NEW i \in 1 .. (s - 1 - n) PROVE c[i] = b[i]
  <2>1. i \in 1 .. (s - n) /\ n + i \in 1 .. (s - 1)
    BY <1>1
  <2> QED BY <1>2, <1>3, <1>4, <1>5, <2>1
<1>7. c = b
  BY <1>4, <1>5, <1>6, SameAs
<1> QED BY <1>7 DEF a, b, c, f

\* The packets of which the sender has sent everything.
Complete == IF tx = "half" THEN SubSeq(sentPkts, 1, Len(sentPkts) - 1) ELSE sentPkts

UnderWay == IF tx = "half" THEN SubSeq(InFlight, 1, Len(InFlight) - 1) ELSE InFlight

LEMMA UnderWayIs ==
    WireInv => /\ UnderWay = After(Complete, Len(readPkts)) /\ Complete \in Seq(WirePackets)
               /\ Len(readPkts) \in 0 .. Len(Complete) /\ Len(readPkts) \in Nat
               /\ tx = "half" => Len(readPkts) < Len(sentPkts)
<1> SUFFICES ASSUME WireInv
             PROVE  /\ UnderWay = After(Complete, Len(readPkts)) /\ Complete \in Seq(WirePackets)
                    /\ Len(readPkts) \in 0 .. Len(Complete) /\ Len(readPkts) \in Nat
                    /\ tx = "half" => Len(readPkts) < Len(sentPkts)
  OBVIOUS
<1>1. sentPkts \in Seq(WirePackets) /\ readPkts \in Seq(WirePackets) /\ Len(sentPkts) \in Nat
  BY DEF WireInv, WireTypes
<1>2. Len(readPkts) \in 0 .. Len(sentPkts)
  BY DEF WireInv, OnTheWay, Whole, Broken, Laid
<1>3. InFlight = After(sentPkts, Len(readPkts))
  BY DEF InFlight, After
<1>4. CASE tx = "half"
  <2>1. Len(readPkts) < Len(sentPkts) /\ Len(readPkts) \in Nat
    BY <1>4, HalfIsUnread
  <2>2. /\ Complete = SubSeq(sentPkts, 1, Len(sentPkts) - 1)
        /\ UnderWay = SubSeq(InFlight, 1, Len(InFlight) - 1)
    BY <1>4 DEF Complete, UnderWay
  <2>3. UnderWay = After(Complete, Len(readPkts))
    BY <1>1, <1>3, <2>1, <2>2, AfterFront
  <2>4. Complete \in Seq(WirePackets) /\ Len(Complete) = Len(sentPkts) - 1
    <3>1. Len(sentPkts) - 1 \in 0 .. Len(sentPkts)
      BY <1>1, <2>1
    <3> QED BY <1>1, <2>2, <3>1, FrontFacts
  <2>5. Len(readPkts) \in 0 .. Len(Complete)
    BY <1>1, <2>1, <2>4
  <2> QED BY <2>1, <2>3, <2>4, <2>5
<1>5. CASE tx # "half"
  BY <1>1, <1>2, <1>3, <1>5 DEF Complete, UnderWay
<1> QED BY <1>4, <1>5

LEMMA LastAndFront ==
    ASSUME NEW T, NEW q \in Seq(T), NEW l \in T
    PROVE  SubSeq(Append(q, l), 1, Len(Append(q, l)) - 1) = q
<1> DEFINE e == Append(q, l)
           f == SubSeq(e, 1, Len(e) - 1)
<1>1. e \in Seq(T) /\ Len(e) = Len(q) + 1 /\ (\A i \in 1 .. Len(q) : e[i] = q[i]) /\ Len(q) \in Nat
  OBVIOUS
<1> HIDE DEF e
<1>2. f \in Seq(T) /\ Len(f) = Len(q) /\ \A i \in 1 .. Len(q) : f[i] = e[i]
  <2>1. Len(e) - 1 \in 0 .. Len(e) /\ Len(e) - 1 = Len(q)
    BY <1>1
  <2> QED BY <1>1, <2>1, FrontFacts
<1> HIDE DEF f
<1>3. f = q
  BY <1>1, <1>2, SameAs
<1> QED BY <1>3 DEF e, f

LEMMA FrontAndLast ==
    ASSUME NEW T, NEW q \in Seq(T), Len(q) >= 1
    PROVE  Append(SubSeq(q, 1, Len(q) - 1), q[Len(q)]) = q /\ q[Len(q)] \in T
<1> DEFINE f == SubSeq(q, 1, Len(q) - 1)
           l == q[Len(q)]
           e == Append(f, l)
           s == Len(q)
<1>1. s \in Nat /\ s >= 1 /\ l \in T
  <2>1. s \in Nat /\ s >= 1
    OBVIOUS
  <2>2. Len(q) \in 1 .. Len(q)
    BY <2>1
  <2> QED BY <2>1, <2>2
<1>2. f \in Seq(T) /\ Len(f) = s - 1 /\ \A i \in 1 .. (s - 1) : f[i] = q[i]
  <2>1. Len(q) - 1 \in 0 .. Len(q)
    BY <1>1
  <2> QED BY <2>1, FrontFacts
<1> HIDE DEF f, l
<1>3. e \in Seq(T) /\ Len(e) = s /\ e[s] = l /\ \A i \in 1 .. (s - 1) : e[i] = f[i]
  <2> DEFINE m == Len(f)
  <2>1. m \in Nat /\ m = s - 1 /\ m + 1 = s
    BY <1>1, <1>2
  <2>2. e \in Seq(T) /\ Len(e) = m + 1 /\ e[m + 1] = l /\ \A i \in 1 .. m : e[i] = f[i]
    BY <1>1, <1>2
  <2> HIDE DEF m, e, s
  <2> QED BY <2>1, <2>2
<1> HIDE DEF e, s
<1>4. ASSUME NEW i \in 1 .. s PROVE e[i] = q[i]
  <2>1. CASE i = s
    BY <1>3, <2>1 DEF l, s
  <2>2. CASE i # s
    <3>1. i \in 1 .. (s - 1)
      BY <1>1, <2>2
    <3> QED BY <1>2, <1>3, <3>1
  <2> QED BY <2>1, <2>2
<1>5. e = q
  <2>1. Len(e) = Len(q)
    BY <1>3 DEF s
  <2> QED BY <1>3, <1>4, <2>1, SameAs DEF s
<1> QED BY <1>1, <1>5 DEF e, f, l, s

LEMMA ChannelStart == WireInit => Channel!ChannelInit
<1> SUFFICES ASSUME WireInit PROVE Channel!ChannelInit
  OBVIOUS
<1>1. sentPkts = <<>> /\ readPkts = <<>> /\ tx = "idle" /\ closed = FALSE
  BY DEF WireInit
<1>2. InFlight = <<>>
  <2>1. 1 .. (Len(sentPkts) - Len(readPkts)) = {}
    BY <1>1
  <2>2. InFlight = [i \in {} |-> sentPkts[Len(readPkts) + i]]
    BY <2>1 DEF InFlight
  <2> QED BY <2>2
<1> QED BY <1>1, <1>2 DEF Channel!ChannelInit

broke == tx = "failed" \/ closed

\* Every step of the connection is one of the channel, or none.
LEMMA ChannelStep ==
    WireInv /\ WireInv' /\ [WireNext]_wireVars
      => [Channel!ChannelNext]_<<UnderWay, readPkts, broke>>
<1> SUFFICES ASSUME WireInv, WireInv', [WireNext]_wireVars
             PROVE  [Channel!ChannelNext]_<<UnderWay, readPkts, broke>>
  OBVIOUS
<1> DEFINE n == Len(readPkts)
<1>1. /\ UnderWay = After(Complete, n) /\ Complete \in Seq(WirePackets)
      /\ n \in 0 .. Len(Complete) /\ n \in Nat
  BY UnderWayIs
<1>2. UnderWay' = After(Complete', Len(readPkts')) /\ (tx' = "half" => Len(readPkts') < Len(sentPkts'))
  <2>1. (WireInv => UnderWay = After(Complete, Len(readPkts)) /\ (tx = "half" => Len(readPkts) < Len(sentPkts)))'
    BY UnderWayIs, PTL
  <2> QED BY <2>1 DEF After
<1>3. /\ sentPkts \in Seq(WirePackets) /\ readPkts \in Seq(WirePackets)
      /\ tx = "half" => ~ closed /\ Len(sentPkts) >= 1
  BY DEF WireInv, WireTypes, Sending
<1>4. UNCHANGED <<Complete, readPkts>> => UNCHANGED UnderWay
  BY <1>1, <1>2
<1>5. ASSUME NEW l \in WirePackets, ~ broke, UNCHANGED <<readPkts, broke>>, Complete' = Append(Complete, l)
      PROVE  Channel!ChannelNext
  <2>1. UnderWay' = Append(UnderWay, l)
    BY <1>1, <1>2, <1>5, AfterAppend
  <2> QED BY <1>5, <2>1 DEF Channel!ChannelNext, Channel!SendPacket, UnderWay, broke
<1>6. ASSUME broke', UNCHANGED <<Complete, readPkts>> PROVE Channel!ChannelNext
  <2>1. UNCHANGED UnderWay
    BY <1>4, <1>6
  <2> QED BY <1>6, <2>1 DEF Channel!ChannelNext, Channel!Break, UnderWay, broke
<1>7. ASSUME NEW l \in WirePackets, SendPkt(l) PROVE Channel!ChannelNext
  <2>1. /\ ~ broke /\ UNCHANGED <<readPkts, broke>> /\ tx = "idle" /\ tx' = "idle"
        /\ sentPkts' = Append(sentPkts, l)
    BY <1>7 DEF SendPkt, broke
  <2>2. Complete' = Append(Complete, l)
    BY <2>1 DEF Complete
  <2> QED BY <1>5, <2>1, <2>2
<1>8. ASSUME NEW l \in WirePackets, SendPktFails(l) PROVE Channel!ChannelNext
  <2>1. broke' /\ UNCHANGED <<Complete, readPkts>>
    BY <1>8 DEF SendPktFails, broke, Complete
  <2> QED BY <1>6, <2>1
<1>9. ASSUME NEW l \in WirePackets, SendPktDodgy(l) PROVE UNCHANGED <<UnderWay, readPkts, broke>>
  <2>1. /\ tx = "idle" /\ tx' = "half" /\ UNCHANGED <<readPkts, broke>> /\ sentPkts' = Append(sentPkts, l)
    BY <1>9 DEF SendPktDodgy, broke
  <2>2. Complete' = Complete
    BY <1>3, <2>1, LastAndFront DEF Complete
  <2> QED BY <1>4, <2>1, <2>2
<1>10. CASE SendRest
  <2>1. /\ tx = "half" /\ tx' = "idle" /\ UNCHANGED <<sentPkts, readPkts, closed>> /\ ~ closed
    BY <1>3, <1>10 DEF SendRest
  <2>2. /\ Append(SubSeq(sentPkts, 1, Len(sentPkts) - 1), sentPkts[Len(sentPkts)]) = sentPkts
        /\ sentPkts[Len(sentPkts)] \in WirePackets
    BY <1>3, <2>1, FrontAndLast
  <2>3. Complete' = Append(Complete, sentPkts[Len(sentPkts)])
    BY <2>1, <2>2 DEF Complete
  <2>4. ~ broke /\ UNCHANGED broke
    BY <2>1 DEF broke
  <2> QED BY <1>5, <2>1, <2>2, <2>3, <2>4
<1>11. CASE DieMidTransaction
  <2>1. broke' /\ UNCHANGED <<Complete, readPkts>>
    BY <1>11 DEF DieMidTransaction, broke, Complete
  <2> QED BY <1>6, <2>1
<1>12. CASE CloseSocket
  <2>1. broke' /\ UNCHANGED <<Complete, readPkts>>
    BY <1>12 DEF CloseSocket, broke, Complete
  <2> QED BY <1>6, <2>1
<1>13. CASE RecvSome
  <2>1. PICK k \in 1 .. ChunkRead : Drain(k) /\ Received(k)
    BY <1>13 DEF RecvSome
  <2>2. k \in Nat
    BY WireAssumption
  <2>3. UNCHANGED <<tx, sentPkts, closed>>
    BY <2>1 DEF Received
  <2>4. UNCHANGED <<Complete, broke>>
    BY <2>3 DEF Complete, broke
  <2>5. CASE UNCHANGED readPkts
    BY <1>4, <2>4, <2>5
  <2>6. CASE /\ n < Len(sentPkts) /\ readPkts' = Append(readPkts, sentPkts[n + 1])
    <3>1. Len(readPkts') = n + 1
      BY <1>3, <2>6
    <3>2. n < Len(Complete) /\ sentPkts[n + 1] = Complete[n + 1]
      <4>1. CASE tx = "half"
        <5> DEFINE f == SubSeq(sentPkts, 1, Len(sentPkts) - 1)
                   s == Len(sentPkts)
        <5>1. n + 1 < s /\ s \in Nat
          BY <1>2, <1>3, <2>3, <3>1, <4>1
        <5>2. Len(f) = s - 1 /\ \A i \in 1 .. (s - 1) : f[i] = sentPkts[i]
          <6>1. s - 1 \in 0 .. Len(sentPkts)
            BY <1>1, <5>1
          <6> QED BY <1>3, <6>1, FrontFacts
        <5>3. Complete = f
          BY <4>1 DEF Complete
        <5> HIDE DEF f, s, n
        <5> QED BY <1>1, <5>1, <5>2, <5>3
      <4>2. CASE tx # "half"
        BY <2>6, <4>2 DEF Complete
      <4> QED BY <4>1, <4>2
    <3>3. /\ UnderWay # <<>> /\ Head(UnderWay) = sentPkts[n + 1]
          /\ Tail(UnderWay) = After(Complete, n + 1)
      BY <1>1, <3>2, AfterHead
    <3>4. UnderWay' = Tail(UnderWay) /\ readPkts' = Append(readPkts, Head(UnderWay))
      BY <1>2, <2>4, <2>6, <3>1, <3>3
    <3> QED BY <2>4, <3>3, <3>4 DEF Channel!ChannelNext, Channel!ReceivePacket, UnderWay, broke
  <2> QED BY <2>1, <2>2, <2>5, <2>6, RecvKeeps
<1>14. CASE RecvClosed \/ RecvTimeout \/ UNCHANGED wireVars
  <2>1. UNCHANGED <<tx, sentPkts, closed, readPkts>>
    BY <1>14 DEF RecvClosed, RecvTimeout, wireVars
  <2>2. UNCHANGED <<Complete, broke>>
    BY <2>1 DEF Complete, broke
  <2> QED BY <1>4, <2>1, <2>2
<1> QED BY <1>7, <1>8, <1>9, <1>10, <1>11, <1>12, <1>13, <1>14 DEF WireNext

\* A connection carries whole packets, unchanged and in order, until it breaks, however the
\* bytes are cut up, delayed or given up on the way (SendPkt, ReadPkt, Serialize); the buffer of
\* the packet being filled is never overrun and that of a packet being sent is never too small.
THEOREM ConnectionIsAChannel == WireSpec => PacketsGetAcross
<1>1. WireInit => Channel!ChannelInit
  BY ChannelStart
<1>2. WireSpec => []WireInv
  BY WireAlways
<1>3. WireInv /\ WireInv' /\ [WireNext]_wireVars
        => [Channel!ChannelNext]_<<IF tx = "half" THEN SubSeq(InFlight, 1, Len(InFlight) - 1) ELSE InFlight,
                                    readPkts, tx = "failed" \/ closed>>
  BY ChannelStep DEF UnderWay, broke
<1>4. WireInv => NoOverrun /\ PacketsFitTheirBuffer
  BY BuffersSuffice
<1> QED BY <1>1, <1>2, <1>3, <1>4, PTL DEF PacketsGetAcross, WireIsAChannel, WireSpec, Channel!ChannelSpec

\* Serialize and deserialise: a list of any messages finds room in the buffer computed for it,
\* and is read back as the same list.
THEOREM PacketsAreReadBack ==
    \A list \in Seq(Message) :
        /\ PktToCells(list) # Unserialisable
        /\ PktFromCells(PktToCells(list), FALSE).list = list
  BY PacketIsReadBack
=============================================================================
