------------------------ MODULE MessageFramingProofs ------------------------
(***************************************************************************)
(* Theorems about MessageFraming for every size of a byte, every limit and *)
(* every stream.                                                           *)
(***************************************************************************)
EXTENDS MessageFraming, SequenceTheorems, WellFoundedInduction, TLAPS

-----------------------------------------------------------------------------
(* Concatenation of any number of pieces.                                  *)

LEMMA LeastNumber ==
  ASSUME NEW T \in SUBSET Nat, T # {}
  PROVE  \E n \in T : \A m \in T : n <= m
<1> DEFINE Less == OpToRel(<, Nat)
<1>1. PICK n \in T : \A m \in T : ~(<<m, n>> \in Less)
  <2>1. IsWellFoundedOn(Less, Nat)
    BY NatLessThanWellFounded
  <2> HIDE DEF Less
  <2> QED
    BY <2>1, WFMin
<1>2. \A m \in T : ~(m < n)
  BY <1>1 DEF OpToRel
<1> QED
  BY <1>2

(* Induction, for a set instead of a predicate.                            *)
LEMMA NumbersFromZero ==
  ASSUME NEW T \in SUBSET Nat, 0 \in T, \A n \in T : n + 1 \in T
  PROVE  T = Nat
<1> SUFFICES ASSUME Nat \ T # {} PROVE FALSE
  OBVIOUS
<1>1. PICK n \in Nat \ T : \A m \in Nat \ T : n <= m
  BY LeastNumber
<1>2. n # 0 /\ n - 1 \in Nat
  BY <1>1
<1>3. n - 1 \in T
  BY <1>1, <1>2
<1> QED
  BY <1>1, <1>2, <1>3

(* The recursion of FlattenSeq over the first n pieces.                    *)
Flattened(pieces, n, f) ==
  f = [i \in 1..n |-> IF i = 1 THEN pieces[i] ELSE f[i - 1] \o pieces[i]]

LEMMA FlattenedExists ==
  ASSUME NEW pieces, NEW n \in Nat
  PROVE  \E f : Flattened(pieces, n, f)
<1> DEFINE T == {m \in Nat : \E f : Flattened(pieces, m, f)}
<1>1. 0 \in T
  <2>1. Flattened(pieces, 0, <<>>)
    BY DEF Flattened
  <2> QED
    BY <2>1
<1>2. ASSUME NEW m \in T
      PROVE  m + 1 \in T
  <2>1. PICK f : Flattened(pieces, m, f)
    OBVIOUS
  <2> DEFINE last == IF m = 0 THEN pieces[1] ELSE f[m] \o pieces[m + 1]
             g == [i \in 1..(m + 1) |-> IF i = m + 1 THEN last ELSE f[i]]
  <2>2. Flattened(pieces, m + 1, g)
    <3>1. ASSUME NEW i \in 1..(m + 1)
          PROVE  g[i] = IF i = 1 THEN pieces[i] ELSE g[i - 1] \o pieces[i]
      <4>1. CASE i = m + 1
        BY <4>1
      <4>2. CASE i # m + 1
        <5>1. i \in 1..m /\ (i # 1 => i - 1 \in 1..m)
          BY <4>2
        <5>2. f[i] = IF i = 1 THEN pieces[i] ELSE f[i - 1] \o pieces[i]
          BY <2>1, <5>1 DEF Flattened
        <5>3. g[i] = f[i] /\ (i # 1 => g[i - 1] = f[i - 1])
          BY <4>2, <5>1
        <5> QED
          BY <5>2, <5>3
      <4> QED
        BY <4>1, <4>2
    <3>2. g = [i \in 1..(m + 1) |-> g[i]]
      OBVIOUS
    <3> HIDE DEF g
    <3> QED
      BY <3>1, <3>2 DEF Flattened
  <2> QED
    BY <2>2
<1>3. T = Nat
  <2>1. T \in SUBSET Nat
    OBVIOUS
  <2> HIDE DEF T
  <2> QED
    BY <1>1, <1>2, <2>1, NumbersFromZero
<1> QED
  BY <1>3

(* Two that begin with the same pieces agree on them.                      *)
LEMMA FlattenedUnique ==
  ASSUME NEW p, NEW q, NEW n \in Nat, NEW m \in Nat, n <= m,
         \A i \in 1..n : p[i] = q[i],
         NEW f, Flattened(p, n, f), NEW g, Flattened(q, m, g)
  PROVE  \A i \in 1..n : f[i] = g[i]
<1> DEFINE Differ == {i \in 1..n : f[i] # g[i]}
<1> SUFFICES ASSUME Differ # {} PROVE FALSE
  OBVIOUS
<1>1. PICK i \in Differ : \A j \in Differ : i <= j
  <2>1. Differ \in SUBSET Nat
    OBVIOUS
  <2> HIDE DEF Differ
  <2> QED
    BY <2>1, LeastNumber
<1>2. i \in 1..n /\ i \in 1..m
  OBVIOUS
<1>3. /\ f[i] = IF i = 1 THEN p[i] ELSE f[i - 1] \o p[i]
      /\ g[i] = IF i = 1 THEN q[i] ELSE g[i - 1] \o q[i]
  BY <1>2 DEF Flattened
<1>4. CASE i = 1
  BY <1>2, <1>3, <1>4
<1>5. CASE i # 1
  <2>1. i - 1 \in 1..n /\ i - 1 \notin Differ
    BY <1>1, <1>2, <1>5
  <2>2. f[i - 1] = g[i - 1]
    BY <2>1
  <2> QED
    BY <1>2, <1>3, <1>5, <2>2
<1> QED
  BY <1>4, <1>5

(* What FlattenSeq computes.                                               *)
LEMMA FlattenEmpty == FlattenSeq(<<>>) = <<>>
BY DEF FlattenSeq

FlattensTo(pieces, n, s) == \E f : Flattened(pieces, n, f) /\ s = f[n]

LEMMA FlattenSome ==
  ASSUME NEW pieces, NEW n \in Nat, n = Len(pieces), n # 0
  PROVE  FlattensTo(pieces, n, FlattenSeq(pieces))
<1> DEFINE g == CHOOSE f : Flattened(pieces, Len(pieces), f)
<1>1. FlattenSeq(pieces) = g[Len(pieces)]
  BY DEF FlattenSeq, Flattened
<1>2. Flattened(pieces, Len(pieces), g)
  <2>1. \E f : Flattened(pieces, Len(pieces), f)
    BY FlattenedExists
  <2> QED
    BY <2>1
<1> HIDE DEF g
<1> QED
  BY <1>1, <1>2 DEF FlattensTo

LEMMA FlattenOne ==
  ASSUME NEW q, NEW t, FlattensTo(q, 1, t)
  PROVE  t = q[1]
<1>1. PICK g : Flattened(q, 1, g) /\ t = g[1]
  BY DEF FlattensTo
<1>2. 1 \in 1..1
  OBVIOUS
<1> QED
  BY <1>1, <1>2 DEF Flattened

(* One more piece is appended to what the others make.                     *)
LEMMA FlattenLonger ==
  ASSUME NEW n \in Nat, n # 0, NEW p, NEW q, \A i \in 1..n : p[i] = q[i],
         NEW s, FlattensTo(p, n, s), NEW t, FlattensTo(q, n + 1, t)
  PROVE  t = s \o q[n + 1]
<1>1. PICK f : Flattened(p, n, f) /\ s = f[n]
  BY DEF FlattensTo
<1>2. PICK g : Flattened(q, n + 1, g) /\ t = g[n + 1]
  BY DEF FlattensTo
<1>3. n + 1 \in Nat /\ n <= n + 1 /\ n \in 1..n
  OBVIOUS
<1>4. \A i \in 1..n : f[i] = g[i]
  BY <1>1, <1>2, <1>3, FlattenedUnique
<1>5. g[n + 1] = g[n] \o q[n + 1]
  <2>1. n + 1 \in 1..(n + 1) /\ n + 1 # 1 /\ (n + 1) - 1 = n
    OBVIOUS
  <2> QED
    BY <1>2, <2>1 DEF Flattened
<1>6. f[n] = g[n]
  BY <1>3, <1>4
<1> QED
  BY <1>1, <1>2, <1>5, <1>6, Zenon

LEMMA FlattenAppend ==
  ASSUME NEW S, NEW pieces \in Seq(Seq(S)), NEW piece \in Seq(S)
  PROVE  FlattenSeq(Append(pieces, piece)) = FlattenSeq(pieces) \o piece
<1> DEFINE n == Len(pieces)
           longer == Append(pieces, piece)
<1>1. /\ n \in Nat /\ Len(longer) = n + 1 /\ longer[n + 1] = piece
      /\ \A i \in 1..n : pieces[i] = longer[i]
  OBVIOUS
<1> HIDE DEF longer
<1>2. FlattensTo(longer, n + 1, FlattenSeq(longer))
  <2>1. n + 1 \in Nat /\ n + 1 # 0
    BY <1>1
  <2> QED
    BY <1>1, <2>1, FlattenSome
<1>3. CASE n = 0
  <2>1. pieces = <<>>
    BY <1>3
  <2>2. FlattenSeq(pieces) \o piece = piece
    BY <2>1, FlattenEmpty, ConcatEmptySeq
  <2>3. n + 1 = 1 /\ longer[1] = piece
    BY <1>1, <1>3
  <2>4. FlattensTo(longer, 1, FlattenSeq(longer))
    BY <1>2, <2>3
  <2>5. FlattenSeq(longer) = longer[1]
    BY <2>4, FlattenOne
  <2> QED
    BY <2>2, <2>3, <2>5 DEF longer
<1>4. CASE n # 0
  <2>1. FlattensTo(pieces, n, FlattenSeq(pieces))
    BY <1>1, <1>4, FlattenSome
  <2> HIDE DEF n
  <2>2. FlattenSeq(longer) = FlattenSeq(pieces) \o longer[n + 1]
    BY <1>1, <1>2, <1>4, <2>1, FlattenLonger
  <2> QED
    BY <1>1, <2>2, Zenon DEF longer
<1> QED
  BY <1>3, <1>4

-----------------------------------------------------------------------------
(* Arithmetic.                                                             *)

USE FramingAssumption DEF FramingAssumption

LEMMA Division ==
  ASSUME NEW n \in Nat
  PROVE  /\ n \div Base \in Nat /\ n % Base \in Byte
         /\ (n \div Base) * Base + (n % Base) = n
BY DEF Byte

LEMMA Powers == Base * Base \in Nat /\ Base * (Base * Base) \in Nat
OBVIOUS

(* A quotient is below a bound if the number is below Base times the bound.*)
LEMMA QuotientBelow ==
  ASSUME NEW n \in Nat, NEW m \in Nat, n < Base * m
  PROVE  n \div Base < m
<1> DEFINE q == n \div Base
<1>1. q \in Nat /\ q * Base <= n
  BY Division
<1>2. ASSUME q >= m
      PROVE  FALSE
  <2>1. q * Base >= m * Base
    BY <1>1, <1>2
  <2> QED
    BY <1>1, <2>1
<1> QED
  BY <1>1, <1>2

(* One more digit stays below one more factor of Base.                     *)
LEMMA DigitBelow ==
  ASSUME NEW x \in Nat, NEW m \in Nat, x < m, NEW d \in Byte
  PROVE  x * Base + d \in Nat /\ x * Base + d < Base * m
<1>1. (x + 1) * Base <= m * Base
  OBVIOUS
<1>2. x * Base + Base = (x + 1) * Base
  OBVIOUS
<1> QED
  BY <1>1, <1>2 DEF Byte

(* Four digits make a number of 32 bits ...                                *)
LEMMA Uint32Range ==
  ASSUME NEW d \in Seq(Byte), Len(d) = 4
  PROVE  Uint32(d) \in Nat /\ Uint32(d) < Size32
<1>1. d[1] \in Byte /\ d[2] \in Byte /\ d[3] \in Byte /\ d[4] \in Byte
  <2>1. \A i \in 1..Len(d) : d[i] \in Byte
    BY ElementOfSeq
  <2> QED
    BY <2>1
<1> DEFINE x == d[1] * Base + d[2]
           y == x * Base + d[3]
<1>2. x \in Nat /\ x < Base * Base
  <2>1. d[1] \in Nat /\ d[1] < Base
    BY <1>1 DEF Byte
  <2> QED
    BY <1>1, <2>1, DigitBelow
<1> HIDE DEF x
<1>3. y \in Nat /\ y < Base * (Base * Base)
  BY <1>1, <1>2, Powers, DigitBelow
<1> HIDE DEF y
<1>4. y * Base + d[4] \in Nat /\ y * Base + d[4] < Size32
  BY <1>1, <1>3, Powers, DigitBelow DEF Size32
<1> QED
  BY <1>4 DEF Uint32, x, y

(* ... and a number of 32 bits is the one that its four digits make.       *)
LEMMA Uint32OfPut ==
  ASSUME NEW n \in Nat, n < Size32
  PROVE  /\ PutUint32(n) \in Seq(Byte) /\ Len(PutUint32(n)) = 4
         /\ Uint32(PutUint32(n)) = n
<1> DEFINE a == n \div Base
           b == a \div Base
           c == b \div Base
<1>1. /\ a \in Nat /\ n % Base \in Byte /\ a * Base + (n % Base) = n
      /\ a < Base * (Base * Base)
  <2>1. a < Base * (Base * Base)
    BY QuotientBelow, Powers DEF Size32
  <2> QED
    BY <2>1, Division
<1>2. /\ b \in Nat /\ a % Base \in Byte /\ b * Base + (a % Base) = a
      /\ b < Base * Base
  BY <1>1, Division, QuotientBelow, Powers
<1>3. /\ c \in Nat /\ b % Base \in Byte /\ c * Base + (b % Base) = b /\ c < Base
  BY <1>2, Division, QuotientBelow
<1> HIDE DEF a, b, c
<1>4. c % Base = c /\ c \in Byte
  BY <1>3 DEF Byte
<1>5. PutUint32(n) = <<c, b % Base, a % Base, n % Base>>
  BY <1>4 DEF PutUint32, a, b, c
<1> QED
  BY <1>1, <1>2, <1>3, <1>4, <1>5 DEF Uint32

LEMMA QuotientAndRest ==
  ASSUME NEW x \in Nat, NEW d \in Byte
  PROVE  (x * Base + d) \div Base = x /\ (x * Base + d) % Base = d
<1> DEFINE n == x * Base + d
           q == n \div Base
           r == n % Base
<1>1. d \in Nat /\ d < Base
  BY DEF Byte
<1>2. n \in Nat
  BY <1>1
<1>3. q \in Nat /\ r \in Nat /\ r < Base /\ q * Base + r = x * Base + d
  BY <1>2, Division DEF Byte
<1> HIDE DEF q, r
<1>4. ASSUME q < x PROVE FALSE
  <2>1. (q + 1) * Base <= x * Base
    BY <1>3, <1>4
  <2>2. (q + 1) * Base = q * Base + Base
    BY <1>3
  <2> QED
    BY <1>1, <1>3, <2>1, <2>2
<1>5. ASSUME x < q PROVE FALSE
  <2>1. (x + 1) * Base <= q * Base
    BY <1>3, <1>5
  <2>2. (x + 1) * Base = x * Base + Base
    OBVIOUS
  <2> QED
    BY <1>1, <1>3, <2>1, <2>2
<1>6. q = x
  BY <1>3, <1>4, <1>5
<1>7. r = d
  BY <1>1, <1>3, <1>6
<1> QED
  BY <1>6, <1>7 DEF q, r

(* The digits are determined by the number.                                *)
LEMMA PutOfUint32 ==
  ASSUME NEW d \in Seq(Byte), Len(d) = 4
  PROVE  \A i \in 1..4 : PutUint32(Uint32(d))[i] = d[i]
<1>1. d[1] \in Byte /\ d[2] \in Byte /\ d[3] \in Byte /\ d[4] \in Byte
  <2>1. \A i \in 1..Len(d) : d[i] \in Byte
    BY ElementOfSeq
  <2> QED
    BY <2>1
<1> DEFINE x == d[1] * Base + d[2]
           y == x * Base + d[3]
           n == y * Base + d[4]
<1>2. d[1] \in Nat /\ d[1] % Base = d[1]
  <2>1. ASSUME NEW c \in Byte
        PROVE  c \in Nat /\ c % Base = c
    BY DEF Byte
  <2> QED
    BY <1>1, <2>1
<1>3. x \in Nat /\ x \div Base = d[1] /\ x % Base = d[2]
  <2>1. x \in Nat
    BY <1>1, <1>2 DEF Byte
  <2> QED
    BY <1>1, <1>2, <2>1, QuotientAndRest
<1> HIDE DEF x
<1>4. y \in Nat /\ y \div Base = x /\ y % Base = d[3]
  <2>1. y \in Nat
    BY <1>1, <1>3 DEF Byte
  <2> QED
    BY <1>1, <1>3, <2>1, QuotientAndRest
<1> HIDE DEF y
<1>5. n \div Base = y /\ n % Base = d[4]
  BY <1>1, <1>4, QuotientAndRest
<1>6. Uint32(d) = n
  BY DEF Uint32, x, y
<1> HIDE DEF n
<1>7. PutUint32(n) = <<d[1], d[2], d[3], d[4]>>
  BY <1>2, <1>3, <1>4, <1>5 DEF PutUint32
<1> QED
  BY <1>6, <1>7

-----------------------------------------------------------------------------
(* Encoding and decoding.                                                  *)

(* Two sequences that agree in length and at every index are equal; stated *)
(* for the pieces of a message.                                            *)
LEMMA Piece ==
  ASSUME NEW s \in Seq(Byte), NEW t \in Seq(Byte), NEW k \in Nat,
         k + Len(t) <= Len(s), \A i \in 1..Len(t) : s[k + i] = t[i]
  PROVE  SubSeq(s, k + 1, k + Len(t)) = t
<1> DEFINE u == SubSeq(s, k + 1, k + Len(t))
<1>1. \A i \in (k + 1)..(k + Len(t)) : s[i] \in Byte
  BY ElementOfSeq
<1>2. u \in Seq(Byte) /\ Len(u) = Len(t)
  BY <1>1, SubSeqProperties
<1>3. \A i \in 1..Len(t) : u[i] = s[k + i]
  BY <1>1, SubSeqProperties
<1> HIDE DEF u
<1>4. Len(u) = Len(t) /\ \A i \in 1..Len(u) : u[i] = t[i]
  BY <1>2, <1>3
<1>5. u = t
  BY <1>2, <1>4, SeqEqual
<1> QED
  BY <1>5 DEF u

LEMMA MessageParts ==
  ASSUME NEW c, NEW p
  PROVE  Message(c, p).compressed = c /\ Message(c, p).payload = p
BY DEF Message

LEMMA Slice ==
  ASSUME NEW s \in Seq(Byte), NEW m \in Nat, NEW n \in Nat,
         1 <= m, m <= n + 1, n <= Len(s)
  PROVE  /\ SubSeq(s, m, n) \in Seq(Byte) /\ Len(SubSeq(s, m, n)) = n + 1 - m
         /\ \A i \in 1..(n + 1 - m) : SubSeq(s, m, n)[i] = s[m + i - 1]
<1>1. \A i \in m..n : s[i] \in Byte
  BY ElementOfSeq
<1> QED
  BY <1>1, SubSeqProperties

(* The declared length of anything that holds a header.                    *)
LEMMA Declared ==
  ASSUME NEW s \in Seq(Byte), Len(s) >= 5
  PROVE  Uint32(SubSeq(s, 2, 5)) \in Nat /\ Uint32(SubSeq(s, 2, 5)) < Size32
<1>1. SubSeq(s, 2, 5) \in Seq(Byte) /\ Len(SubSeq(s, 2, 5)) = 4
  BY Slice
<1> QED
  BY <1>1, Uint32Range

(* The pieces of a concatenation.                                          *)
LEMMA Concat ==
  ASSUME NEW s \in Seq(Byte), NEW t \in Seq(Byte)
  PROVE  /\ s \o t \in Seq(Byte) /\ Len(s \o t) = Len(s) + Len(t)
         /\ \A i \in 1..Len(s) : (s \o t)[i] = s[i]
         /\ \A i \in 1..Len(t) : (s \o t)[Len(s) + i] = t[i]
<1>1. /\ s \o t \in Seq(Byte) /\ Len(s \o t) = Len(s) + Len(t)
      /\ \A i \in 1..(Len(s) + Len(t)) :
           (s \o t)[i] = IF i <= Len(s) THEN s[i] ELSE t[i - Len(s)]
  BY ConcatProperties
<1> QED
  BY <1>1

(* The bytes of an encoded message.                                        *)
LEMMA EncodedParts ==
  ASSUME NEW c \in BOOLEAN, NEW p \in Seq(Byte), Len(p) < Size32
  PROVE  LET code == EncodeGRPCMessage(Message(c, p))
         IN  /\ code \in Seq(Byte) /\ Len(code) = 5 + Len(p)
             /\ code[1] = IF c THEN 1 ELSE 0
             /\ \A i \in 1..4 : code[1 + i] = PutUint32(Len(p))[i]
             /\ \A i \in 1..Len(p) : code[5 + i] = p[i]
<1> DEFINE flag == <<IF c THEN 1 ELSE 0>>
           put  == PutUint32(Len(p))
<1>1. flag \in Seq(Byte) /\ Len(flag) = 1 /\ flag[1] = IF c THEN 1 ELSE 0
  BY DEF Byte
<1>2. put \in Seq(Byte) /\ Len(put) = 4 /\ Uint32(put) = Len(p)
  BY Uint32OfPut
<1>3. EncodeGRPCMessage(Message(c, p)) = (flag \o put) \o p
  BY <1>1, <1>2 DEF EncodeGRPCMessage, Message
<1> HIDE DEF flag, put
<1> DEFINE head == flag \o put
<1>4. /\ head \in Seq(Byte) /\ Len(head) = 5 /\ head[1] = flag[1]
      /\ \A i \in 1..4 : head[1 + i] = put[i]
  <2>1. /\ head \in Seq(Byte) /\ Len(head) = Len(flag) + Len(put)
        /\ \A i \in 1..Len(flag) : head[i] = flag[i]
        /\ \A i \in 1..Len(put) : head[Len(flag) + i] = put[i]
    BY <1>1, <1>2, Concat, Zenon
  <2> HIDE DEF head
  <2> QED
    BY <1>1, <1>2, <2>1
<1> HIDE DEF head
<1> DEFINE code == head \o p
<1>5. /\ code \in Seq(Byte) /\ Len(code) = 5 + Len(p)
      /\ \A i \in 1..5 : code[i] = head[i]
      /\ \A i \in 1..Len(p) : code[5 + i] = p[i]
  <2>1. /\ code \in Seq(Byte) /\ Len(code) = Len(head) + Len(p)
        /\ \A i \in 1..Len(head) : code[i] = head[i]
        /\ \A i \in 1..Len(p) : code[Len(head) + i] = p[i]
    BY <1>4, Concat, Zenon
  <2> HIDE DEF code
  <2> QED
    BY <1>4, <2>1
<1> HIDE DEF code
<1>6. /\ code[1] = IF c THEN 1 ELSE 0
      /\ \A i \in 1..4 : code[1 + i] = put[i]
  BY <1>1, <1>4, <1>5
<1>7. EncodeGRPCMessage(Message(c, p)) = code
  BY <1>3, Zenon DEF code, head
<1> QED
  BY <1>5, <1>6, <1>7, Zenon DEF put

(* Whatever is encoded is decoded again, in front of whatever follows, if  *)
(* its length fits into 32 bits.                                           *)
LEMMA ParseEncoded ==
  ASSUME NEW c \in BOOLEAN, NEW p \in Seq(Byte), Len(p) < Size32,
         NEW more \in Seq(Byte)
  PROVE  ParseGRPCMessage(EncodeGRPCMessage(Message(c, p)) \o more)
           = Message(c, p)
<1> DEFINE code == EncodeGRPCMessage(Message(c, p))
           put  == PutUint32(Len(p))
<1>1. put \in Seq(Byte) /\ Len(put) = 4 /\ Uint32(put) = Len(p)
  BY Uint32OfPut
<1>2. /\ code \in Seq(Byte) /\ Len(code) = 5 + Len(p)
      /\ code[1] = IF c THEN 1 ELSE 0
      /\ \A i \in 1..4 : code[1 + i] = put[i]
      /\ \A i \in 1..Len(p) : code[5 + i] = p[i]
  BY EncodedParts
<1> HIDE DEF code, put
<1> DEFINE data == code \o more
<1>3. /\ data \in Seq(Byte) /\ Len(data) = 5 + Len(p) + Len(more)
      /\ \A i \in 1..(5 + Len(p)) : data[i] = code[i]
  <2>1. /\ data \in Seq(Byte) /\ Len(data) = Len(code) + Len(more)
        /\ \A i \in 1..Len(code) : data[i] = code[i]
    BY <1>2, Concat, Zenon
  <2> HIDE DEF data
  <2> QED
    BY <1>2, <2>1
<1> HIDE DEF data
<1>4. SubSeq(data, 2, 5) = put
  <2>1. \A i \in 1..Len(put) : data[1 + i] = put[i]
    BY <1>1, <1>2, <1>3
  <2>2. 1 + Len(put) <= Len(data)
    BY <1>1, <1>3
  <2>3. SubSeq(data, 1 + 1, 1 + Len(put)) = put
    BY <1>1, <1>3, <2>1, <2>2, Piece
  <2> QED
    BY <1>1, <2>3
<1>5. SubSeq(data, 6, 5 + Len(p)) = p
  <2>1. \A i \in 1..Len(p) : data[5 + i] = p[i]
    BY <1>2, <1>3
  <2>2. 5 + Len(p) <= Len(data)
    BY <1>3
  <2>3. SubSeq(data, 5 + 1, 5 + Len(p)) = p
    BY <1>3, <2>1, <2>2, Piece
  <2> QED
    BY <2>3
<1>6. (data[1] = 1) = c
  BY <1>2, <1>3
<1>7. ParseGRPCMessage(data) = Message(data[1] = 1, SubSeq(data, 6, 5 + Len(p)))
  <2>1. End(Uint32(SubSeq(data, 2, 5))) = 5 + Len(p)
    BY <1>1, <1>4 DEF End
  <2>2. ~(Len(data) < 5) /\ ~(Len(data) < 5 + Len(p))
    BY <1>3
  <2> QED
    BY <2>1, <2>2, Zenon DEF ParseGRPCMessage
<1>8. ParseGRPCMessage(data) = Message(c, p)
  BY <1>5, <1>6, <1>7
<1> QED
  BY <1>8 DEF data, code

(* The slice decoder, applied to anything.                                 *)
LEMMA ParseBounds ==
  ASSUME NEW data \in Seq(Byte), ParseGRPCMessage(data) # Error
  PROVE  /\ Len(ParseGRPCMessage(data).payload) = Uint32(SubSeq(data, 2, 5))
         /\ 5 + Uint32(SubSeq(data, 2, 5)) <= Len(data)
<1> DEFINE L == Uint32(SubSeq(data, 2, 5))
<1>1. Len(data) >= 5
  <2>1. ~(Len(data) < 5)
    BY Zenon DEF ParseGRPCMessage
  <2> QED
    BY <2>1
<1>2. L \in Nat
  BY <1>1, Declared
<1>3. ~(Len(data) < 5 + L)
  BY Zenon DEF ParseGRPCMessage, End
<1>4. PICK c \in BOOLEAN : ParseGRPCMessage(data) = Message(c, SubSeq(data, 6, 5 + L))
  <2>1. (data[1] = 1) \in BOOLEAN
    OBVIOUS
  <2> QED
    BY <1>3, <2>1, Zenon DEF ParseGRPCMessage, End
<1> HIDE DEF L
<1>5. Len(SubSeq(data, 6, 5 + L)) = L
  BY <1>2, <1>3, Slice
<1>6. ParseGRPCMessage(data).payload = SubSeq(data, 6, 5 + L)
  <2> DEFINE q == SubSeq(data, 6, 5 + L)
             msg == ParseGRPCMessage(data)
  <2>1. msg = Message(c, q)
    BY <1>4
  <2> HIDE DEF q, msg
  <2>2. msg.payload = q
    BY <2>1 DEF Message
  <2> QED
    BY <2>2 DEF q, msg
<1>7. Len(ParseGRPCMessage(data).payload) = L /\ 5 + L <= Len(data)
  BY <1>2, <1>3, <1>5, <1>6
<1> QED
  BY <1>7 DEF L

(* The slice decoder, applied to the bytes at which a call on the reader   *)
(* begins.                                                                 *)
LEMMA ParseAgrees ==
  ASSUME NEW data \in Seq(Byte), Len(data) >= 5,
         NEW tail, tail = SubSeq(data, 6, Len(data)),
         NEW L, L = Uint32(SubSeq(data, 2, 5))
  PROVE  ParseGRPCMessage(data) =
           IF Len(tail) < L THEN Error
           ELSE Message(data[1] = 1, SubSeq(tail, 1, L))
<1>1. L \in Nat
  BY Declared
<1>2. /\ tail \in Seq(Byte) /\ Len(tail) = Len(data) - 5
      /\ \A i \in 1..Len(tail) : tail[i] = data[5 + i]
  <2>1. /\ tail \in Seq(Byte) /\ Len(tail) = Len(data) + 1 - 6
        /\ \A i \in 1..(Len(data) + 1 - 6) : tail[i] = data[6 + i - 1]
    <3>1. /\ 6 \in Nat /\ Len(data) \in Nat /\ 1 <= 6
          /\ 6 <= Len(data) + 1 /\ Len(data) <= Len(data)
      OBVIOUS
    <3> QED
      BY <3>1, Slice, Zenon
  <2>2. \A i \in 1..Len(tail) : 6 + i - 1 = 5 + i
    BY <2>1
  <2> QED
    BY <2>1, <2>2
<1>3. CASE Len(tail) < L
  <2>1. Len(data) < 5 + L
    BY <1>1, <1>2, <1>3
  <2> QED
    BY <1>3, <2>1, Zenon DEF ParseGRPCMessage, End
<1>4. CASE ~(Len(tail) < L)
  <2>1. ~(Len(data) < 5 + L) /\ ~(Len(data) < 5)
    BY <1>1, <1>2, <1>4
  <2>2. ParseGRPCMessage(data) = Message(data[1] = 1, SubSeq(data, 6, 5 + L))
    BY <2>1, Zenon DEF ParseGRPCMessage, End
  <2> DEFINE t == SubSeq(tail, 1, L)
  <2>3. /\ t \in Seq(Byte) /\ Len(t) = L /\ \A i \in 1..L : t[i] = tail[i]
    <3>1. /\ t \in Seq(Byte) /\ Len(t) = L + 1 - 1
          /\ \A i \in 1..(L + 1 - 1) : t[i] = tail[1 + i - 1]
      BY <1>1, <1>2, <1>4, Slice
    <3>2. L + 1 - 1 = L /\ \A i \in 1..L : 1 + i - 1 = i
      BY <1>1
    <3> HIDE DEF t
    <3> QED
      BY <3>1, <3>2, Zenon
  <2> HIDE DEF t
  <2>4. SubSeq(data, 5 + 1, 5 + Len(t)) = t
    <3>1. \A i \in 1..Len(t) : data[5 + i] = t[i]
      BY <1>1, <1>2, <1>4, <2>3
    <3> QED
      BY <1>1, <1>2, <1>4, <2>3, <3>1, Piece
  <2>5. SubSeq(data, 6, 5 + L) = t
    BY <2>3, <2>4
  <2> QED
    BY <1>4, <2>2, <2>5, Zenon DEF t
<1> QED
  BY <1>3, <1>4, Zenon

-----------------------------------------------------------------------------
(* The reader.                                                             *)

(* The messages that can be read.                                          *)
Messages == {Message(c, p) : c \in BOOLEAN, p \in {q \in Seq(Byte) : Len(q) < Size32}}

(* What the reader has left is a suffix of where its call began: all of it,*)
(* or all behind the header.                                               *)
ReaderInv ==
  /\ sent \in Seq(Byte) /\ rest \in Seq(Byte) /\ frame \in Seq(Byte)
  /\ (header = None /\ status = "reading") => rest = frame
  /\ header # None =>
       /\ Len(frame) >= 5 /\ rest = SubSeq(frame, 6, Len(frame))
       /\ header = [compressed |-> frame[1] = 1,
                    length     |-> Uint32(SubSeq(frame, 2, 5))]
  /\ read \in Seq(Messages)

LEMMA HeaderParts ==
  ASSUME ReaderInv, header # None
  PROVE  /\ header.compressed = (frame[1] = 1) /\ header.compressed \in BOOLEAN
         /\ header.length = Uint32(SubSeq(frame, 2, 5))
         /\ header.length \in Nat /\ header.length < Size32
<1> DEFINE c == frame[1] = 1
<1>1. c \in BOOLEAN
  OBVIOUS
<1>2. header = [compressed |-> c, length |-> Uint32(SubSeq(frame, 2, 5))]
  BY Zenon DEF ReaderInv
<1> HIDE DEF c
<1>3. /\ header.compressed = c /\ header.compressed \in BOOLEAN
      /\ header.length = Uint32(SubSeq(frame, 2, 5))
  BY <1>1, <1>2
<1>4. header.length \in Nat /\ header.length < Size32
  BY <1>3, Declared DEF ReaderInv
<1> QED
  BY <1>3, <1>4 DEF c

LEMMA ReaderCorrect == Spec => []ReaderInv
<1>1. Init => ReaderInv
  BY DEF Init, ReaderInv
<1>2. ReaderInv /\ [Next]_vars => ReaderInv'
  <2> SUFFICES ASSUME ReaderInv, [Next]_vars PROVE ReaderInv'
    OBVIOUS
  <2>1. CASE ReadHeader
    <3>1. rest = frame /\ Len(frame) >= 5 /\ rest' = SubSeq(frame, 6, Len(frame))
      <4>1. /\ rest = frame /\ Len(rest) >= 5
            /\ rest' = SubSeq(rest, 5 + 1, Len(rest))
        BY <2>1, Zenon DEF ReadHeader, ReaderInv, Drop
      <4> QED
        BY <4>1
    <3>2. rest' \in Seq(Byte)
      BY <3>1, Slice DEF ReaderInv
    <3>3. \/ status' = "too large" /\ header' = None
          \/ header' = [compressed |-> frame[1] = 1,
                        length     |-> Uint32(SubSeq(frame, 2, 5))]
      BY <2>1, <3>1, Zenon DEF ReadHeader
    <3>4. UNCHANGED <<sent, frame, read>>
      BY <2>1, Zenon DEF ReadHeader
    <3>5. header' # None => header' = [compressed |-> frame'[1] = 1,
                                       length |-> Uint32(SubSeq(frame', 2, 5))]
      BY <3>3, <3>4, Zenon
    <3>6. (header' = None /\ status' = "reading") => rest' = frame'
      <4>1. Uint32(SubSeq(frame, 2, 5)) \in Nat
        BY <3>1, Declared DEF ReaderInv
      <4> DEFINE c == frame[1] = 1
                 h == [compressed |-> c, length |-> Uint32(SubSeq(frame, 2, 5))]
      <4>2. h # None
        <5> HIDE DEF c
        <5> QED
          BY <4>1 DEF None
      <4>3. header' = None => status' = "too large"
        BY <3>3, <4>2, Zenon
      <4> QED
        BY <4>3
    <3>7. header' # None => Len(frame') >= 5 /\ rest' = SubSeq(frame', 6, Len(frame'))
      BY <3>1, <3>4
    <3> QED
      BY <3>2, <3>4, <3>5, <3>6, <3>7, Zenon DEF ReaderInv
  <2>2. CASE HeaderEnds
    BY <2>2 DEF HeaderEnds, ReaderInv
  <2>3. CASE ReadPayload
    <3> DEFINE L == header.length
               p == SubSeq(rest, 1, L)
               msg == Message(header.compressed, p)
    <3>1. L \in Nat /\ L < Size32 /\ header.compressed \in BOOLEAN /\ L <= Len(rest)
      BY <2>3, HeaderParts DEF ReadPayload, ReaderInv
    <3>2. p \in Seq(Byte) /\ Len(p) = L
      BY <3>1, Slice DEF ReaderInv
    <3>3. SubSeq(rest, L + 1, Len(rest)) \in Seq(Byte)
      BY <3>1, Slice DEF ReaderInv
    <3>4. msg \in Messages
      <4> HIDE DEF p
      <4> QED
        BY <3>1, <3>2 DEF Messages
    <3>5. read' = Append(read, msg) /\ rest' = SubSeq(rest, L + 1, Len(rest))
          /\ frame' = rest' /\ header' = None /\ sent' = sent
      BY <2>3, Zenon DEF ReadPayload, Drop
    <3> HIDE DEF msg, L
    <3>6. read' \in Seq(Messages)
      BY <3>4, <3>5, AppendProperties DEF ReaderInv
    <3> QED
      BY <3>3, <3>5, <3>6 DEF ReaderInv
  <2>4. CASE PayloadEnds
    BY <2>4 DEF PayloadEnds, ReaderInv, None
  <2>5. CASE UNCHANGED vars
    BY <2>5 DEF vars, ReaderInv
  <2> QED
    BY <2>1, <2>2, <2>3, <2>4, <2>5 DEF Next
<1> QED
  BY <1>1, <1>2, PTL DEF Spec

-----------------------------------------------------------------------------
(* Near the largest declared length no sum wraps: a message lies inside    *)
(* the slice it was taken from (ParseGRPCMessage).                         *)
THEOREM ParsedInBounds == Spec => []ParseInBounds
<1>1. ReaderInv => ParseInBounds
  BY ParseBounds DEF ReaderInv, ParseInBounds
<1> QED
  BY <1>1, ReaderCorrect, PTL

(* ParseGRPCMessage and ParseGRPCMessageFromReader read the same message   *)
(* from the same bytes.                                                    *)
THEOREM DecodersCorrect == Spec => []DecodersAgree
<1>1. ReaderInv => DecodersAgree
  <2> SUFFICES ASSUME ReaderInv, header # None PROVE DecodersAgree
    BY DEF DecodersAgree
  <2>1. ParseGRPCMessage(frame) =
          IF Len(rest) < Uint32(SubSeq(frame, 2, 5)) THEN Error
          ELSE Message(frame[1] = 1, SubSeq(rest, 1, Uint32(SubSeq(frame, 2, 5))))
    BY ParseAgrees, Zenon DEF ReaderInv
  <2>2. /\ header.compressed = (frame[1] = 1)
        /\ header.length = Uint32(SubSeq(frame, 2, 5))
    BY HeaderParts
  <2> QED
    BY <2>1, <2>2, Zenon DEF DecodersAgree
<1> QED
  BY <1>1, ReaderCorrect, PTL

(* EncodeGRPCMessage and ParseGRPCMessage are inverse on every message     *)
(* that was read, whatever follows it in the stream.                       *)
THEOREM RoundTripCorrect == Spec => []RoundTrip
<1>1. ReaderInv => RoundTrip
  <2> SUFFICES ASSUME ReaderInv, NEW i \in DOMAIN read
               PROVE  ParseGRPCMessage(EncodeGRPCMessage(read[i]) \o rest) = read[i]
    BY DEF RoundTrip
  <2>1. PICK c \in BOOLEAN, p \in Seq(Byte) :
          Len(p) < Size32 /\ read[i] = Message(c, p)
    <3>1. read[i] \in Messages
      BY ElementOfSeq DEF ReaderInv
    <3> QED
      BY <3>1 DEF Messages
  <2>2. rest \in Seq(Byte)
    BY DEF ReaderInv
  <2>3. ParseGRPCMessage(EncodeGRPCMessage(Message(c, p)) \o rest) = Message(c, p)
    BY <2>1, <2>2, ParseEncoded, Zenon
  <2> QED
    BY <2>1, <2>3, Zenon
<1> QED
  BY <1>1, ReaderCorrect, PTL
-----------------------------------------------------------------------------
(* What was read, encoded again.                                           *)

Frames(ms) == [i \in DOMAIN ms |-> EncodeGRPCMessage(ms[i])]

(* The bytes again stand for those of all in front of the suffix left: a   *)
(* flag that was neither 0 nor 1 has become 0, nothing else has changed.   *)
StandsFor(again, left, all) ==
  /\ again \in Seq(Byte)
  /\ Len(again) + Len(left) = Len(all)
  /\ \A i \in 1..Len(left) : all[Len(again) + i] = left[i]
  /\ \A k \in 1..Len(again) : \/ again[k] = all[k]
                              \/ again[k] = 0 /\ all[k] > 1

PlaceInv ==
  /\ header # None => status = "reading"
  /\ StandsFor(FlattenSeq(Frames(read)), frame, sent)

LEMMA MessageEncoded ==
  ASSUME NEW msg \in Messages
  PROVE  EncodeGRPCMessage(msg) \in Seq(Byte)
<1>1. PICK c \in BOOLEAN, p \in Seq(Byte) : Len(p) < Size32 /\ msg = Message(c, p)
  BY DEF Messages
<1>2. EncodeGRPCMessage(Message(c, p)) \in Seq(Byte)
  BY <1>1, EncodedParts
<1> QED
  BY <1>1, <1>2, Zenon

LEMMA FramesAppend ==
  ASSUME NEW ms \in Seq(Messages), NEW msg \in Messages
  PROVE  FlattenSeq(Frames(Append(ms, msg)))
           = FlattenSeq(Frames(ms)) \o EncodeGRPCMessage(msg)
<1> DEFINE n == Len(ms)
           longer == Append(ms, msg)
<1>1. /\ n \in Nat /\ DOMAIN ms = 1..n /\ DOMAIN longer = 1..(n + 1)
      /\ longer[n + 1] = msg /\ \A i \in 1..n : longer[i] = ms[i]
  OBVIOUS
<1>2. \A i \in 1..n : ms[i] \in Messages
  BY ElementOfSeq
<1> HIDE DEF n, longer
<1>3. Frames(ms) \in Seq(Seq(Byte)) /\ Len(Frames(ms)) = n
  <2>1. Frames(ms) \in [1..n -> Seq(Byte)]
    BY <1>1, <1>2, MessageEncoded DEF Frames
  <2> QED
    BY <1>1, <2>1
<1>4. EncodeGRPCMessage(msg) \in Seq(Byte)
  BY MessageEncoded
<1>5. Frames(longer) = Append(Frames(ms), EncodeGRPCMessage(msg))
  <2> DEFINE code == EncodeGRPCMessage(msg)
             ones == Frames(ms)
             more == Append(ones, code)
  <2>1. /\ DOMAIN Frames(longer) = 1..(n + 1)
        /\ \A i \in 1..(n + 1) : Frames(longer)[i] = EncodeGRPCMessage(longer[i])
    BY <1>1 DEF Frames
  <2>2. Frames(longer) = [i \in 1..(n + 1) |-> Frames(longer)[i]]
    BY <1>1 DEF Frames
  <2>3. \A i \in 1..n : ones[i] = EncodeGRPCMessage(longer[i])
    BY <1>1 DEF Frames
  <2>4. EncodeGRPCMessage(longer[n + 1]) = code
    BY <1>1
  <2> HIDE DEF code, ones
  <2>5. /\ more \in Seq(Seq(Byte)) /\ Len(more) = n + 1
        /\ \A i \in 1..n : more[i] = ones[i]
        /\ more[n + 1] = code
    BY <1>3, <1>4, AppendProperties DEF ones, code
  <2> HIDE DEF more
  <2>6. more = [i \in 1..(n + 1) |-> more[i]]
    BY <1>1, <2>5
  <2>7. \A i \in 1..(n + 1) : Frames(longer)[i] = more[i]
    BY <1>1, <2>1, <2>3, <2>4, <2>5
  <2>8. Frames(longer) = more
    BY <2>2, <2>6, <2>7
  <2> QED
    BY <2>8 DEF more, ones, code
<1>6. FlattenSeq(Append(Frames(ms), EncodeGRPCMessage(msg)))
        = FlattenSeq(Frames(ms)) \o EncodeGRPCMessage(msg)
  BY <1>3, <1>4, FlattenAppend
<1> QED
  BY <1>5, <1>6 DEF longer

(* The payload behind a header, encoded, stands for both.                  *)
LEMMA EncodedStandsFor ==
  ASSUME NEW f \in Seq(Byte), Len(f) >= 5,
         NEW p \in Seq(Byte), Len(p) = Uint32(SubSeq(f, 2, 5)),
         5 + Len(p) <= Len(f), \A i \in 1..Len(p) : p[i] = f[5 + i],
         NEW c \in BOOLEAN, c <=> f[1] = 1
  PROVE  LET code == EncodeGRPCMessage(Message(c, p))
         IN  /\ code \in Seq(Byte) /\ Len(code) = 5 + Len(p)
             /\ \A k \in 1..Len(code) : \/ code[k] = f[k]
                                        \/ code[k] = 0 /\ f[k] > 1
<1> DEFINE code == EncodeGRPCMessage(Message(c, p))
           d == SubSeq(f, 2, 5)
<1>1. Len(p) < Size32
  BY Declared
<1>2. c \in BOOLEAN
  OBVIOUS
<1>3. /\ code \in Seq(Byte) /\ Len(code) = 5 + Len(p)
      /\ code[1] = IF c THEN 1 ELSE 0
      /\ \A i \in 1..4 : code[1 + i] = PutUint32(Len(p))[i]
      /\ \A i \in 1..Len(p) : code[5 + i] = p[i]
  BY <1>1, <1>2, EncodedParts
<1>4. /\ d \in Seq(Byte) /\ Len(d) = 4
      /\ \A i \in 1..4 : d[i] = f[1 + i]
  <2>1. /\ d \in Seq(Byte) /\ Len(d) = 5 + 1 - 2
        /\ \A i \in 1..(5 + 1 - 2) : d[i] = f[2 + i - 1]
    BY Slice
  <2> HIDE DEF d
  <2> QED
    BY <2>1
<1> HIDE DEF code
<1>5. \A i \in 1..4 : code[1 + i] = f[1 + i]
  <2> DEFINE put == PutUint32(Len(p))
  <2>1. put = PutUint32(Uint32(d))
    OBVIOUS
  <2> HIDE DEF d
  <2>2. \A i \in 1..4 : PutUint32(Uint32(d))[i] = d[i]
    BY <1>4, PutOfUint32
  <2>3. \A i \in 1..4 : code[1 + i] = put[i]
    BY <1>3
  <2>4. \A i \in 1..4 : put[i] = d[i]
    BY <2>1, <2>2
  <2> HIDE DEF put
  <2> QED
    BY <1>4, <2>3, <2>4
<1>6. code[1] = f[1] \/ (code[1] = 0 /\ f[1] > 1)
  <2>1. f[1] \in Byte
    BY ElementOfSeq
  <2>2. code[1] = IF f[1] = 1 THEN 1 ELSE 0
    BY <1>3
  <2> QED
    BY <2>1, <2>2 DEF Byte
<1>7. ASSUME NEW k \in 1..(5 + Len(p))
      PROVE  code[k] = f[k] \/ (code[k] = 0 /\ f[k] > 1)
  <2>1. CASE k = 1
    BY <1>6, <2>1
  <2>2. CASE k \in 2..5
    <3>1. k - 1 \in 1..4 /\ 1 + (k - 1) = k
      BY <2>2
    <3> QED
      BY <1>5, <3>1
  <2>3. CASE k > 5
    <3>1. k - 5 \in 1..Len(p) /\ 5 + (k - 5) = k
      BY <2>3
    <3> QED
      BY <1>3, <3>1
  <2> QED
    BY <2>1, <2>2, <2>3
<1> QED
  BY <1>3, <1>7 DEF code

(* What stands for a prefix, and what stands for the bytes behind it.      *)
LEMMA StandsForBoth ==
  ASSUME NEW all \in Seq(Byte), NEW again, NEW f \in Seq(Byte),
         StandsFor(again, f, all),
         NEW code \in Seq(Byte), Len(code) <= Len(f),
         \A k \in 1..Len(code) : code[k] = f[k] \/ (code[k] = 0 /\ f[k] > 1),
         NEW g \in Seq(Byte), Len(g) = Len(f) - Len(code),
         \A i \in 1..Len(g) : g[i] = f[Len(code) + i]
  PROVE  StandsFor(again \o code, g, all)
<1> DEFINE both == again \o code
<1>1. again \in Seq(Byte)
  BY DEF StandsFor
<1>2. /\ both \in Seq(Byte) /\ Len(both) = Len(again) + Len(code)
      /\ \A i \in 1..Len(again) : both[i] = again[i]
      /\ \A i \in 1..Len(code) : both[Len(again) + i] = code[i]
  BY <1>1, Concat, Zenon
<1> HIDE DEF both
<1>3. ASSUME NEW i \in 1..Len(g)
      PROVE  all[Len(both) + i] = g[i]
  <2>1. Len(code) + i \in 1..Len(f)
    OBVIOUS
  <2>2. all[Len(again) + (Len(code) + i)] = f[Len(code) + i]
    BY <2>1 DEF StandsFor
  <2>3. Len(again) + (Len(code) + i) = Len(both) + i
    BY <1>1, <1>2
  <2> QED
    BY <2>2, <2>3
<1>4. ASSUME NEW k \in 1..Len(both)
      PROVE  both[k] = all[k] \/ (both[k] = 0 /\ all[k] > 1)
  <2>1. CASE k <= Len(again)
    <3>1. k \in 1..Len(again)
      BY <1>1, <2>1
    <3> QED
      BY <1>2, <3>1 DEF StandsFor
  <2>2. CASE k > Len(again)
    <3> DEFINE i == k - Len(again)
    <3>1. i \in 1..Len(code) /\ i \in 1..Len(f) /\ Len(again) + i = k
      BY <1>1, <1>2, <2>2
    <3> HIDE DEF i
    <3>2. both[k] = code[i] /\ all[k] = f[i]
      BY <1>2, <3>1 DEF StandsFor
    <3> QED
      BY <3>1, <3>2
  <2> QED
    BY <1>1, <2>1, <2>2
<1>5. Len(both) + Len(g) = Len(all)
  <2>1. Len(again) + Len(f) = Len(all)
    BY DEF StandsFor
  <2>2. Len(both) = Len(again) + Len(code)
    BY <1>2
  <2> DEFINE a == Len(again)
             n == Len(f)
             m == Len(code)
  <2>3. a \in Nat /\ n \in Nat /\ m \in Nat /\ Len(g) = n - m
    BY <1>1
  <2> HIDE DEF a, n, m
  <2>4. a + n = (a + m) + (n - m)
    BY <2>3
  <2> QED
    BY <2>1, <2>2, <2>3, <2>4 DEF a, n, m
<1>6. StandsFor(both, g, all)
  BY <1>2, <1>3, <1>4, <1>5 DEF StandsFor
<1> QED
  BY <1>6 DEF both

LEMMA PlaceStep ==
  ASSUME ReaderInv, PlaceInv, ReadPayload
  PROVE  StandsFor(FlattenSeq(Frames(read')), frame', sent')
<1> DEFINE L == header.length
           p == SubSeq(rest, 1, L)
           g == SubSeq(rest, L + 1, Len(rest))
           c == header.compressed
           code == EncodeGRPCMessage(Message(c, p))
<1>1. header # None /\ Len(rest) >= L
  BY Zenon DEF ReadPayload
<1>2. /\ c = (frame[1] = 1) /\ c \in BOOLEAN /\ L = Uint32(SubSeq(frame, 2, 5))
      /\ L \in Nat /\ L < Size32
  BY <1>1, HeaderParts
<1>3. read' = Append(read, Message(c, p)) /\ frame' = g /\ sent' = sent
  BY Zenon DEF ReadPayload, Drop
<1>4. /\ sent \in Seq(Byte) /\ rest \in Seq(Byte) /\ frame \in Seq(Byte)
      /\ Len(frame) >= 5 /\ rest = SubSeq(frame, 6, Len(frame))
      /\ read \in Seq(Messages)
  BY <1>1, Zenon DEF ReaderInv
<1> HIDE DEF L, c
<1>5. /\ Len(rest) = Len(frame) - 5
      /\ \A i \in 1..Len(rest) : rest[i] = frame[5 + i]
  <2> DEFINE n == Len(frame)
             tail == SubSeq(frame, 6, n)
  <2>1. 6 \in Nat /\ n \in Nat /\ 1 <= 6 /\ 6 <= n + 1 /\ n <= Len(frame)
    BY <1>4
  <2>2. /\ Len(tail) = n + 1 - 6
        /\ \A i \in 1..(n + 1 - 6) : tail[i] = frame[6 + i - 1]
    BY <1>4, <2>1, Slice, Zenon
  <2>3. rest = tail
    BY <1>4
  <2> HIDE DEF tail
  <2>4. \A i \in 1..Len(rest) : 6 + i - 1 = 5 + i
    BY <2>1, <2>2, <2>3
  <2> QED
    BY <2>1, <2>2, <2>3, <2>4
<1>6. p \in Seq(Byte) /\ Len(p) = L /\ \A i \in 1..L : p[i] = rest[i]
  <2>1. /\ 1 \in Nat /\ L \in Nat /\ 1 <= 1 /\ 1 <= L + 1 /\ L <= Len(rest)
    BY <1>1, <1>2
  <2>2. /\ p \in Seq(Byte) /\ Len(p) = L + 1 - 1
        /\ \A i \in 1..(L + 1 - 1) : p[i] = rest[1 + i - 1]
    BY <1>4, <2>1, Slice, Zenon
  <2> HIDE DEF p
  <2>3. L + 1 - 1 = L /\ \A i \in 1..L : 1 + i - 1 = i
    BY <2>1
  <2> QED
    BY <2>2, <2>3
<1>7. /\ g \in Seq(Byte) /\ Len(g) = Len(rest) - L
      /\ \A i \in 1..Len(g) : g[i] = rest[L + i]
  <2> DEFINE n == Len(rest)
             m == L + 1
             tail == SubSeq(rest, m, n)
  <2>1. m \in Nat /\ n \in Nat /\ 1 <= m /\ m <= n + 1 /\ n <= Len(rest)
    BY <1>1, <1>2, <1>4
  <2>2. g = tail
    OBVIOUS
  <2> HIDE DEF m, n, g
  <2>3. /\ tail \in Seq(Byte) /\ Len(tail) = n + 1 - m
        /\ \A i \in 1..(n + 1 - m) : tail[i] = rest[m + i - 1]
    BY <1>4, <2>1, Slice, Zenon
  <2>4. /\ n + 1 - m = Len(rest) - L
        /\ \A i \in 1..(Len(rest) - L) : m + i - 1 = L + i
    BY <1>2, <1>4 DEF m, n
  <2> HIDE DEF tail
  <2> QED
    BY <2>2, <2>3, <2>4
<1> HIDE DEF p, g
<1>8. /\ code \in Seq(Byte) /\ Len(code) = 5 + Len(p)
      /\ \A k \in 1..Len(code) : code[k] = frame[k] \/ (code[k] = 0 /\ frame[k] > 1)
  <2>1. 5 + Len(p) <= Len(frame)
    <3>1. L \in Nat /\ L <= Len(rest)
      BY <1>1, <1>2
    <3>2. Len(p) = L /\ Len(rest) = Len(frame) - 5 /\ Len(frame) \in Nat
      BY <1>4, <1>5, <1>6
    <3> QED
      BY <3>1, <3>2
  <2>2. ASSUME NEW i \in 1..Len(p) PROVE p[i] = frame[5 + i]
    <3>1. i \in 1..L /\ i \in 1..Len(rest)
      BY <1>1, <1>2, <1>4, <1>6
    <3> QED
      BY <1>5, <1>6, <3>1
  <2>3. Len(p) = Uint32(SubSeq(frame, 2, 5))
    BY <1>2, <1>6
  <2>4. c \in BOOLEAN /\ (c <=> frame[1] = 1) /\ frame \in Seq(Byte) /\ Len(frame) >= 5 /\ p \in Seq(Byte)
    BY <1>2, <1>4, <1>6
  <2> QED
    BY <2>1, <2>2, <2>3, <2>4, EncodedStandsFor, Zenon
<1>9. FlattenSeq(Frames(read')) = FlattenSeq(Frames(read)) \o code
  <2>1. c \in BOOLEAN /\ p \in Seq(Byte) /\ Len(p) < Size32
    BY <1>2, <1>6
  <2>2. Message(c, p) \in Messages
    BY <2>1 DEF Messages
  <2> QED
    BY <1>3, <1>4, <2>2, FramesAppend
<1> HIDE DEF code
<1>10. StandsFor(FlattenSeq(Frames(read)) \o code, g, sent)
  <2> DEFINE again == FlattenSeq(Frames(read))
  <2>1. StandsFor(again, frame, sent)
    BY DEF PlaceInv
  <2> HIDE DEF again
  <2>2. Len(code) <= Len(frame) /\ Len(g) = Len(frame) - Len(code)
    BY <1>1, <1>2, <1>4, <1>5, <1>6, <1>7, <1>8
  <2>3. ASSUME NEW i \in 1..Len(g) PROVE g[i] = frame[Len(code) + i]
    <3>1. L + i \in 1..Len(rest) /\ 5 + (L + i) = Len(code) + i
      <4>1. L \in Nat /\ Len(rest) \in Nat
        BY <1>2, <1>4
      <4>2. Len(code) = 5 + L /\ Len(g) = Len(rest) - L
        BY <1>6, <1>7, <1>8
      <4> QED
        BY <4>1, <4>2
    <3>2. g[i] = rest[L + i] /\ rest[L + i] = frame[5 + (L + i)]
      BY <1>5, <1>7, <3>1
    <3> QED
      BY <3>1, <3>2
  <2>4. StandsFor(again \o code, g, sent)
    BY <1>4, <1>7, <1>8, <2>1, <2>2, <2>3, StandsForBoth
  <2> QED
    BY <2>4 DEF again
<1> QED
  BY <1>3, <1>9, <1>10, Zenon

(* Message after message, ParseGRPCMessageFromReader never loses its place *)
(* in the stream.                                                          *)
THEOREM PlaceCorrect == Spec => []StaysInStep
<1>1. Init => PlaceInv
  <2> SUFFICES ASSUME Init PROVE PlaceInv
    OBVIOUS
  <2>1. read = <<>> /\ header = None /\ frame = sent /\ sent \in Seq(Byte)
    BY DEF Init
  <2>2. Frames(<<>>) = <<>>
    BY DEF Frames
  <2>3. FlattenSeq(Frames(read)) = <<>>
    BY <2>1, <2>2, FlattenEmpty
  <2>4. StandsFor(<<>>, sent, sent)
    BY <2>1 DEF StandsFor
  <2> QED
    BY <2>1, <2>3, <2>4 DEF PlaceInv
<1>2. ReaderInv /\ PlaceInv /\ [Next]_vars => PlaceInv'
  <2> SUFFICES ASSUME ReaderInv, PlaceInv, [Next]_vars PROVE PlaceInv'
    OBVIOUS
  <2>1. CASE ReadPayload
    <3>1. header' = None
      BY <2>1, Zenon DEF ReadPayload
    <3> QED
      BY <2>1, <3>1, PlaceStep DEF PlaceInv
  <2>2. CASE UNCHANGED <<sent, frame, read>> /\ (header' # None => status' = "reading")
    BY <2>2 DEF PlaceInv
  <2>3. CASE ReadHeader
    BY <2>2, <2>3, Zenon DEF ReadHeader
  <2>4. CASE HeaderEnds
    BY <2>2, <2>4, Zenon DEF HeaderEnds
  <2>5. CASE PayloadEnds
    BY <2>2, <2>5, Zenon DEF PayloadEnds
  <2>6. CASE UNCHANGED vars
    BY <2>2, <2>6, Zenon DEF vars, PlaceInv
  <2> QED
    BY <2>1, <2>3, <2>4, <2>5, <2>6 DEF Next
<1>3. PlaceInv => StaysInStep
  <2> SUFFICES ASSUME PlaceInv PROVE StaysInStep
    OBVIOUS
  <2> DEFINE again == FlattenSeq(Frames(read))
  <2>1. StandsFor(again, frame, sent)
    BY DEF PlaceInv
  <2>2. FlattenSeq([i \in DOMAIN read |-> EncodeGRPCMessage(read[i])]) = again
    BY DEF Frames
  <2> HIDE DEF again
  <2>3. DOMAIN again = 1..Len(again)
    BY <2>1 DEF StandsFor
  <2> QED
    BY <2>1, <2>2, <2>3, Zenon DEF StandsFor, StaysInStep
<1> QED
  BY <1>1, <1>2, <1>3, ReaderCorrect, PTL DEF Spec
=============================================================================
