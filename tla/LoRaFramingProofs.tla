--------------------------- MODULE LoRaFramingProofs ---------------------------
(***************************************************************************)
(* Proofs about the frames on the serial line: the invariant IInv of       *)
(* LoRaFraming is inductive for every base, every size and every number of *)
(* frames and lost bytes, and the runs' invariants follow from it.         *)
(***************************************************************************)
EXTENDS LoRaFraming, SequenceTheorems, FiniteSetTheorems, WellFoundedInduction, TLAPS

(* NUMBERS *)

(* A non-empty set of naturals has a least element. *)
LEMMA LeastNat ==
  ASSUME NEW T \in SUBSET Nat, T # {}
  PROVE  \E m \in T : \A k \in T : m <= k
<1> DEFINE Upto == {0 .. k : k \in T}
<1>1. IsWellFoundedOn(StrictSubsetOrdering(Nat), FiniteSubsetsOf(Nat))
  BY FS_StrictSubsetOrderingWellFounded
<1>2. Upto \subseteq FiniteSubsetsOf(Nat) /\ Upto # {}
  <2>1. \A k \in T : IsFiniteSet(0 .. k) /\ 0 .. k \subseteq Nat  BY FS_Interval
  <2> QED BY <2>1 DEF FiniteSubsetsOf
<1>3. PICK S \in Upto : \A R \in Upto : <<R, S>> \notin StrictSubsetOrdering(Nat)
  <2> HIDE DEF Upto
  <2> QED BY <1>1, <1>2, WFMin
<1>4. PICK m \in T : S = 0 .. m  OBVIOUS
<1>5. ASSUME NEW k \in T PROVE m <= k
  <2>1. SUFFICES ASSUME k < m PROVE FALSE  OBVIOUS
  <2>2. /\ 0 .. k \subseteq Nat /\ 0 .. m \subseteq Nat /\ 0 .. k \subseteq 0 .. m
        /\ m \notin 0 .. k /\ m \in 0 .. m
    BY <2>1
  <2>3. <<0 .. k, S>> \in StrictSubsetOrdering(Nat)  BY <2>2, <1>4 DEF StrictSubsetOrdering
  <2> QED BY <1>3, <2>3
<1> QED BY <1>5

(* A number is its quotient and its remainder. *)
LEMMA DivMod ==
  ASSUME NEW B \in Nat \ {0, 1}, NEW l \in Nat
  PROVE  l \div B \in Nat /\ l % B \in 0 .. B - 1 /\ l = ((l \div B) * B) + (l % B)
OBVIOUS

LEMMA LessFactor ==
  ASSUME NEW B \in Nat \ {0, 1}, NEW x \in Nat, NEW y \in Nat, NEW l \in Nat,
         x * B <= l, l < y * B
  PROVE  x < y
<1>1. SUFFICES ASSUME y <= x PROVE FALSE  OBVIOUS
<1>2. y * B <= x * B  BY <1>1
<1> QED BY <1>2

LEMMA HeaderValueNat ==
  ASSUME NEW d, \A i \in 1 .. 4 : d[i] \in Nat
  PROVE  HeaderValue(d) \in Nat
<1>1. /\ Base \in Nat /\ d[1] \in Nat /\ d[2] \in Nat /\ d[3] \in Nat /\ d[4] \in Nat
  BY FramingAssumption
<1>2. \A x, y \in Nat : (x * Base) + y \in Nat  BY <1>1
<1> DEFINE u == (d[1] * Base) + d[2]
           v == (u * Base) + d[3]
<1>3. u \in Nat  BY <1>1, <1>2
<1>4. v \in Nat  BY <1>1, <1>2, <1>3
<1>5. (v * Base) + d[4] \in Nat  BY <1>1, <1>2, <1>4
<1> QED BY <1>5 DEF HeaderValue

(* The header of a length is four bytes, and reads back as the length      *)
(* (codec.go's EncodeMessage, SX1262/main.go's nextFrame).                 *)
LEMMA HeaderReads ==
  ASSUME NEW length \in 1 .. MaxPayloadSize
  PROVE  /\ \A i \in 1 .. 4 : Header(length)[i] \in 0 .. Base - 1
         /\ HeaderValue(Header(length)) = length
<1>1. /\ Base \in Nat \ {0, 1} /\ Text \in 0 .. Base - 1 /\ length \in Nat
      /\ length <= MaxFramePayloadSize /\ MaxFramePayloadSize \in Nat
      /\ MaxFramePayloadSize < HeaderValue(<<Text, 0, 0, 0>>)
  BY FramingAssumption
<1> DEFINE next == length \div Base
           after == next \div Base
           first == after \div Base
           a == after % Base
           b == next % Base
           c == length % Base
<1>2. next \in Nat /\ c \in 0 .. Base - 1 /\ length = (next * Base) + c  BY <1>1, DivMod
<1> HIDE DEF next, c
<1>3. after \in Nat /\ b \in 0 .. Base - 1 /\ next = (after * Base) + b  BY <1>1, <1>2, DivMod
<1> HIDE DEF after, b
<1>4. first \in Nat /\ a \in 0 .. Base - 1 /\ after = (first * Base) + a  BY <1>1, <1>3, DivMod
<1> HIDE DEF first, a
<1>5. Header(length) = <<first, a, b, c>>  BY DEF Header, next, after, first, a, b, c
<1>6. HeaderValue(Header(length)) = length
  <2>1. HeaderValue(Header(length)) = ((((((first * Base) + a) * Base) + b) * Base) + c)
    BY <1>5 DEF HeaderValue
  <2> QED BY <2>1, <1>2, <1>3, <1>4
<1>7. first < Text
  <2> DEFINE y == Text * Base
             z == y * Base
             w == z * Base
  <2>1. y \in Nat /\ z \in Nat /\ w \in Nat
    <3>1. y \in Nat  BY <1>1
    <3>2. z \in Nat  BY <3>1, <1>1
    <3> HIDE DEF z
    <3>3. w \in Nat  BY <3>2, <1>1
    <3> QED BY <3>1, <3>2, <3>3
  <2>2. HeaderValue(<<Text, 0, 0, 0>>) = w
    <3>1. HeaderValue(<<Text, 0, 0, 0>>) = ((((((Text * Base) + 0) * Base) + 0) * Base) + 0)
      BY DEF HeaderValue
    <3>2. (Text * Base) + 0 = y  BY <2>1
    <3>3. (y * Base) + 0 = z  BY <2>1
    <3>4. (z * Base) + 0 = w  BY <2>1
    <3> QED BY <3>1, <3>2, <3>3, <3>4
  <2>3. length < z * Base  BY <2>2, <1>1, <2>1
  <2> HIDE DEF z
  <2>4. next * Base <= length
    <3>1. next * Base \in Nat  BY <1>1, <1>2
    <3> QED BY <3>1, <1>1, <1>2
  <2>5. next < z  BY <2>1, <2>3, <2>4, <1>1, <1>2, LessFactor
  <2>6. after * Base <= next
    <3>1. after * Base \in Nat  BY <1>1, <1>3
    <3> QED BY <3>1, <1>1, <1>3
  <2>7. after < y
    <3>1. next < y * Base  BY <2>5 DEF z
    <3> HIDE DEF y
    <3> QED BY <2>1, <2>6, <3>1, <1>1, <1>2, <1>3, LessFactor
  <2>8. first * Base <= after
    <3>1. first * Base \in Nat  BY <1>1, <1>4
    <3> QED BY <3>1, <1>1, <1>4
  <2> QED BY <2>7, <2>8, <1>1, <1>3, <1>4, LessFactor
<1>8. first \in 0 .. Base - 1  BY <1>7, <1>4, <1>1
<1>9. ASSUME NEW i \in 1 .. 4 PROVE Header(length)[i] \in 0 .. Base - 1
  <2>1. i = 1 \/ i = 2 \/ i = 3 \/ i = 4  OBVIOUS
  <2> QED BY <2>1, <1>5, <1>8, <1>4, <1>3, <1>2
<1> QED BY <1>6, <1>9
-----------------------------------------------------------------------------
(* FRAMES AND THE SEARCH *)

(* What EncodeMessage makes of a length. *)
LEMMA EncodeFacts ==
  ASSUME NEW first \in Nat, NEW length \in 1 .. MaxPayloadSize
  PROVE  /\ Encode(first, length) \in Seq(Byte)
         /\ Len(Encode(first, length)) = 4 + length
         /\ DOMAIN Encode(first, length) = 1 .. 4 + length
         /\ \A i \in 1 .. 4 + length : Encode(first, length)[i].at = first + i
         /\ \A i \in 1 .. 4 : Encode(first, length)[i].digit = Header(length)[i]
<1>0. length \in Nat /\ 4 + length \in Nat /\ Text \in 0 .. Base - 1 /\ Base \in Nat
  BY FramingAssumption
<1>1. \A i \in 1 .. 4 + length :
         Encode(first, length)[i] =
           [digit |-> IF i <= 4 THEN Header(length)[i] ELSE Text, at |-> first + i]
  BY DEF Encode
<1>2. ASSUME NEW i \in 1 .. 4 + length
      PROVE  [digit |-> IF i <= 4 THEN Header(length)[i] ELSE Text, at |-> first + i] \in Byte
  <2>1. i <= 4 => i \in 1 .. 4  BY <1>0
  <2>2. (IF i <= 4 THEN Header(length)[i] ELSE Text) \in 0 .. Base - 1
    BY <2>1, <1>0, HeaderReads
  <2>3. first + i \in Nat  BY <1>0
  <2> QED BY <2>2, <2>3 DEF Byte
<1>3. Encode(first, length) \in [1 .. 4 + length -> Byte]  BY <1>2 DEF Encode
<1>4. Encode(first, length) \in Seq(Byte) /\ Len(Encode(first, length)) = 4 + length
  BY <1>3, <1>0
<1>5. DOMAIN Encode(first, length) = 1 .. 4 + length  BY <1>3
<1>6. \A i \in 1 .. 4 : i \in 1 .. 4 + length /\ i <= 4  BY <1>0
<1> QED BY <1>1, <1>4, <1>5, <1>6

LEMMA ByteFields ==
  ASSUME NEW x \in Byte
  PROVE  x.digit \in Nat /\ x.at \in Nat
<1>1. Base \in Nat  BY FramingAssumption
<1> QED BY <1>1 DEF Byte

(* The same four bytes are the same length. *)
LEMMA SameBytes ==
  ASSUME NEW s, NEW t, NEW p \in Nat, NEW q \in Nat,
         \A i \in 1 .. 4 : s[p + i] = t[q + i]
  PROVE  /\ PayloadLength(s, p) = PayloadLength(t, q)
         /\ LooksLikeHeader(s, p) <=> LooksLikeHeader(t, q)
<1>1. [i \in 1 .. 4 |-> s[p + i].digit] = [i \in 1 .. 4 |-> t[q + i].digit]  OBVIOUS
<1> QED BY <1>1 DEF PayloadLength, LooksLikeHeader

(* A frame begins with what looks like a header, of its length. *)
LEMMA FrameLooks ==
  ASSUME NEW s, NEW p \in Nat, NEW first \in Nat, NEW length \in 1 .. MaxPayloadSize,
         \A i \in 1 .. 4 : s[p + i] = Encode(first, length)[i]
  PROVE  PayloadLength(s, p) = length /\ LooksLikeHeader(s, p)
<1>1. length \in 1 .. MaxFramePayloadSize  BY FramingAssumption
<1>2. ASSUME NEW i \in 1 .. 4 PROVE s[p + i].digit = Header(length)[i]
  <2>1. s[p + i] = Encode(first, length)[i]  OBVIOUS
  <2>2. Encode(first, length)[i].digit = Header(length)[i]  BY EncodeFacts
  <2> QED BY <2>1, <2>2
<1>3. HeaderValue([i \in 1 .. 4 |-> s[p + i].digit]) = HeaderValue(Header(length))
  BY <1>2 DEF HeaderValue
<1> QED BY <1>1, <1>3, HeaderReads DEF PayloadLength, LooksLikeHeader

LEMMA PayloadLengthNat ==
  ASSUME NEW s \in Seq(Byte), NEW p \in Nat, p + 4 <= Len(s)
  PROVE  PayloadLength(s, p) \in Nat
<1>1. ASSUME NEW i \in 1 .. 4 PROVE s[p + i].digit \in Nat
  <2>1. p + i \in 1 .. Len(s)  OBVIOUS
  <2>2. s[p + i] \in Byte  BY <2>1
  <2> QED BY <2>2, ByteFields
<1>2. \A i \in 1 .. 4 : [j \in 1 .. 4 |-> s[p + j].digit][i] \in Nat  BY <1>1
<1> QED BY <1>2, HeaderValueNat DEF PayloadLength

(* The search ends at the first place where it may. *)
LEMMA ScanStops ==
  ASSUME NEW buf \in Seq(Byte), NEW start \in 0 .. Len(buf)
  PROVE  /\ Scan(buf, start) \in start .. Len(buf)
         /\ Stops(buf, Scan(buf, start))
         /\ \A q \in start .. Scan(buf, start) - 1 : ~Stops(buf, q)
<1> DEFINE T == {p \in start .. Len(buf) : Stops(buf, p)}
           First(p) == Stops(buf, p) /\ \A q \in start .. p - 1 : ~Stops(buf, q)
<1>1. Len(buf) \in Nat /\ start .. Len(buf) \subseteq Nat  OBVIOUS
<1>2. Stops(buf, Len(buf))
  <2>1. Len(buf) - Len(buf) < 4  BY <1>1
  <2> QED BY <2>1 DEF Stops
<1>3. Len(buf) \in T  BY <1>1, <1>2
<1>4. T \subseteq Nat  BY <1>1
<1>5. PICK m \in T : \A k \in T : m <= k
  <2> HIDE DEF T
  <2> QED BY <1>3, <1>4, LeastNat
<1>6. m \in start .. Len(buf) /\ First(m)
  <2>1. ASSUME NEW q \in start .. m - 1, Stops(buf, q) PROVE FALSE
    <3>1. q \in start .. Len(buf) /\ q < m  BY <1>1
    <3>2. q \in T  BY <3>1, <2>1
    <3> QED BY <3>1, <3>2, <1>5, <1>1
  <2> QED BY <2>1, <1>5
<1>7. Scan(buf, start) = CHOOSE p \in start .. Len(buf) : First(p)  BY DEF Scan
<1>8. (CHOOSE p \in start .. Len(buf) : First(p)) \in start .. Len(buf)
        /\ First(CHOOSE p \in start .. Len(buf) : First(p))
  <2> HIDE DEF First
  <2> QED BY <1>6
<1> QED BY <1>7, <1>8
-----------------------------------------------------------------------------
(* WHAT NEXTFRAME DOES *)

LEMMA CompactFacts ==
  ASSUME NEW s \in Seq(Byte), NEW n \in 0 .. Len(s)
  PROVE  /\ Compact(s, n) \in Seq(Byte)
         /\ Len(Compact(s, n)) = Len(s) - n
         /\ \A i \in 1 .. Len(s) - n : Compact(s, n)[i] = s[n + i]
         /\ DOMAIN Compact(s, n) = 1 .. Len(s) - n
<1>1. Compact(s, n) = [i \in 1 .. Len(s) - n |-> s[n + i]]
  <2>1. Compact(s, n) = [i \in 1 .. (Len(s) - (n + 1)) + 1 |-> s[((n + 1) + i) - 1]]
    BY DEF Compact
  <2>2. (Len(s) - (n + 1)) + 1 = Len(s) - n  OBVIOUS
  <2>3. \A i \in 1 .. Len(s) - n : ((n + 1) + i) - 1 = n + i  OBVIOUS
  <2> QED BY <2>1, <2>2, <2>3
<1>2. Len(s) - n \in Nat /\ \A i \in 1 .. Len(s) - n : s[n + i] \in Byte  OBVIOUS
<1> QED BY <1>1, <1>2

LEMMA SubSeqFacts ==
  ASSUME NEW s \in Seq(Byte), NEW m \in Nat, NEW n \in 0 .. Len(s), m <= n
  PROVE  /\ SubSeq(s, m + 1, n) \in Seq(Byte)
         /\ Len(SubSeq(s, m + 1, n)) = n - m
         /\ \A i \in 1 .. n - m : SubSeq(s, m + 1, n)[i] = s[m + i]
         /\ DOMAIN SubSeq(s, m + 1, n) = 1 .. n - m
<1>1. SubSeq(s, m + 1, n) = [i \in 1 .. n - m |-> s[m + i]]
  <2>1. SubSeq(s, m + 1, n) = [i \in 1 .. (n - (m + 1)) + 1 |-> s[((m + 1) + i) - 1]]
    OBVIOUS
  <2>2. (n - (m + 1)) + 1 = n - m  OBVIOUS
  <2>3. \A i \in 1 .. n - m : ((m + 1) + i) - 1 = m + i  OBVIOUS
  <2> QED BY <2>1, <2>2, <2>3
<1>2. n - m \in Nat /\ \A i \in 1 .. n - m : s[m + i] \in Byte  OBVIOUS
<1> QED BY <1>1, <1>2

LEMMA SameSeq ==
  ASSUME NEW s \in Seq(Byte), NEW t \in Seq(Byte), Len(s) = Len(t),
         \A i \in 1 .. Len(s) : s[i] = t[i]
  PROVE  s = t
OBVIOUS

LEMMA ConcatFacts ==
  ASSUME NEW s \in Seq(Byte), NEW t \in Seq(Byte)
  PROVE  /\ s \o t \in Seq(Byte) /\ Len(s \o t) = Len(s) + Len(t)
         /\ \A i \in 1 .. Len(s) : (s \o t)[i] = s[i]
         /\ \A i \in Len(s) + 1 .. Len(s) + Len(t) : (s \o t)[i] = t[i - Len(s)]
OBVIOUS

LEMMA ConcatTwice ==
  ASSUME NEW s \in Seq(Byte), NEW t \in Seq(Byte), NEW u \in Seq(Byte)
  PROVE  s \o (t \o u) = (s \o t) \o u
BY ConcatAssociative

LEMMA CompactTwice ==
  ASSUME NEW s \in Seq(Byte), NEW n \in 0 .. Len(s), NEW m \in 0 .. Len(s) - n
  PROVE  Compact(Compact(s, n), m) = Compact(s, n + m)
<1>1. n + m \in 0 .. Len(s) /\ m \in 0 .. Len(Compact(s, n))  BY CompactFacts
<1>2. /\ Compact(Compact(s, n), m) \in Seq(Byte) /\ Compact(s, n + m) \in Seq(Byte)
      /\ Len(Compact(Compact(s, n), m)) = (Len(s) - n) - m
      /\ Len(Compact(s, n + m)) = Len(s) - (n + m)
  BY <1>1, CompactFacts
<1>3. ASSUME NEW i \in 1 .. Len(s) - (n + m)
      PROVE  Compact(Compact(s, n), m)[i] = Compact(s, n + m)[i]
  <2>1. i \in 1 .. (Len(s) - n) - m /\ m + i \in 1 .. Len(s) - n /\ n + (m + i) = (n + m) + i
    OBVIOUS
  <2>2. Compact(Compact(s, n), m)[i] = Compact(s, n)[m + i]  BY <2>1, <1>1, CompactFacts
  <2>3. Compact(s, n)[m + i] = s[n + (m + i)]  BY <2>1, CompactFacts
  <2>4. Compact(s, n + m)[i] = s[(n + m) + i]  BY <1>1, CompactFacts
  <2> QED BY <2>1, <2>2, <2>3, <2>4
<1>4. (Len(s) - n) - m = Len(s) - (n + m)  OBVIOUS
<1> QED BY <1>2, <1>3, <1>4, SameSeq

LEMMA CompactConcat ==
  ASSUME NEW s \in Seq(Byte), NEW t \in Seq(Byte), NEW n \in 0 .. Len(s)
  PROVE  Compact(s \o t, n) = Compact(s, n) \o t
<1>1. s \o t \in Seq(Byte) /\ Len(s \o t) = Len(s) + Len(t) /\ n \in 0 .. Len(s \o t)
  BY ConcatFacts
<1>2. /\ Compact(s \o t, n) \in Seq(Byte) /\ Len(Compact(s \o t, n)) = (Len(s) + Len(t)) - n
      /\ Compact(s, n) \in Seq(Byte) /\ Len(Compact(s, n)) = Len(s) - n
  BY <1>1, CompactFacts
<1>3. /\ Compact(s, n) \o t \in Seq(Byte)
      /\ Len(Compact(s, n) \o t) = (Len(s) - n) + Len(t)
  BY <1>2, ConcatFacts
<1>4. ASSUME NEW i \in 1 .. (Len(s) + Len(t)) - n
      PROVE  Compact(s \o t, n)[i] = (Compact(s, n) \o t)[i]
  <2>1. Compact(s \o t, n)[i] = (s \o t)[n + i]  BY <1>1, CompactFacts
  <2>2. CASE i <= Len(s) - n
    <3>1. n + i \in 1 .. Len(s) /\ i \in 1 .. Len(s) - n  BY <2>2
    <3>2. (s \o t)[n + i] = s[n + i]  BY <3>1, ConcatFacts
    <3>3. (Compact(s, n) \o t)[i] = Compact(s, n)[i]  BY <3>1, <1>2, ConcatFacts
    <3>4. Compact(s, n)[i] = s[n + i]  BY <3>1, CompactFacts
    <3> QED BY <2>1, <3>2, <3>3, <3>4
  <2>3. CASE i > Len(s) - n
    <3>1. /\ n + i \in Len(s) + 1 .. Len(s) + Len(t)
          /\ i \in (Len(s) - n) + 1 .. (Len(s) - n) + Len(t)
          /\ (n + i) - Len(s) = i - (Len(s) - n)
      BY <2>3
    <3>2. (s \o t)[n + i] = t[(n + i) - Len(s)]  BY <3>1, ConcatFacts
    <3>3. (Compact(s, n) \o t)[i] = t[i - (Len(s) - n)]  BY <3>1, <1>2, ConcatFacts
    <3> QED BY <2>1, <3>1, <3>2, <3>3
  <2>4. i <= Len(s) - n \/ i > Len(s) - n  OBVIOUS
  <2> QED BY <2>2, <2>3, <2>4
<1>5. (Len(s) - n) + Len(t) = (Len(s) + Len(t)) - n  OBVIOUS
<1> QED BY <1>2, <1>3, <1>4, <1>5, SameSeq

LEMMA Rejoin ==
  ASSUME NEW t \in Seq(Byte), NEW n \in 0 .. Len(t)
  PROVE  SubSeq(t, 1, n) \o SubSeq(t, n + 1, Len(t)) = t
<1>1. /\ SubSeq(t, 1, n) \in Seq(Byte) /\ Len(SubSeq(t, 1, n)) = n
      /\ \A i \in 1 .. n : SubSeq(t, 1, n)[i] = t[i]
  <2>1. 0 \in Nat /\ 0 <= n /\ 0 + 1 = 1 /\ n - 0 = n /\ \A i \in 1 .. n : 0 + i = i  OBVIOUS
  <2> QED BY <2>1, SubSeqFacts
<1>2. SubSeq(t, n + 1, Len(t)) = Compact(t, n)  BY DEF Compact
<1>3. /\ Compact(t, n) \in Seq(Byte) /\ Len(Compact(t, n)) = Len(t) - n
      /\ \A i \in 1 .. Len(t) - n : Compact(t, n)[i] = t[n + i]
  BY CompactFacts
<1>4. /\ SubSeq(t, 1, n) \o Compact(t, n) \in Seq(Byte)
      /\ Len(SubSeq(t, 1, n) \o Compact(t, n)) = n + (Len(t) - n)
  BY <1>1, <1>3, ConcatFacts
<1>5. ASSUME NEW i \in 1 .. Len(t) PROVE (SubSeq(t, 1, n) \o Compact(t, n))[i] = t[i]
  <2>1. CASE i <= n
    <3>1. i \in 1 .. n  BY <2>1
    <3> QED BY <3>1, <1>1, <1>3, ConcatFacts
  <2>2. CASE i > n
    <3>1. i \in n + 1 .. n + (Len(t) - n) /\ i - n \in 1 .. Len(t) - n /\ n + (i - n) = i  BY <2>2
    <3>2. (SubSeq(t, 1, n) \o Compact(t, n))[i] = Compact(t, n)[i - n]
      BY <3>1, <1>1, <1>3, ConcatFacts
    <3> QED BY <3>1, <3>2, <1>3
  <2>3. i <= n \/ i > n  OBVIOUS
  <2> QED BY <2>1, <2>2, <2>3
<1>6. n + (Len(t) - n) = Len(t)  OBVIOUS
<1> QED BY <1>2, <1>4, <1>5, <1>6, SameSeq
-----------------------------------------------------------------------------
(* The n places from the beginning are passed over by the search.          *)
Passed(bytes, n) ==
  \A q \in 0 .. n - 1 : Len(bytes) - q >= 4 /\ ~LooksLikeHeader(bytes, q)

FrameEnd(bytes, n) == n + (4 + PayloadLength(bytes, n))

(* A frame is there after n places. *)
FrameAt(bytes, n) == LooksLikeHeader(bytes, n) /\ FrameEnd(bytes, n) <= Len(bytes)

(* The search in front of the rest of the buffer, as if it were all.       *)
LEMMA LooksAhead ==
  ASSUME NEW s \in Seq(Byte), NEW n \in 0 .. Len(s), NEW q \in Nat, n + q + 4 <= Len(s)
  PROVE  /\ PayloadLength(Compact(s, n), q) = PayloadLength(s, n + q)
         /\ LooksLikeHeader(Compact(s, n), q) <=> LooksLikeHeader(s, n + q)
<1>1. ASSUME NEW i \in 1 .. 4 PROVE Compact(s, n)[q + i] = s[(n + q) + i]
  <2>1. q + i \in 1 .. Len(s) - n /\ n + (q + i) = (n + q) + i  OBVIOUS
  <2> QED BY <2>1, CompactFacts
<1> DEFINE t == Compact(s, n)
           m == n + q
<1>2. m \in Nat /\ \A i \in 1 .. 4 : t[q + i] = s[m + i]  BY <1>1
<1> HIDE DEF t, m
<1>3. PayloadLength(t, q) = PayloadLength(s, m) /\ (LooksLikeHeader(t, q) <=> LooksLikeHeader(s, m))
  BY <1>2, SameBytes
<1> QED BY <1>3 DEF t, m

LEMMA LooksBehind ==
  ASSUME NEW s \in Seq(Byte), NEW t \in Seq(Byte), NEW q \in Nat, q + 4 <= Len(s)
  PROVE  /\ PayloadLength(s \o t, q) = PayloadLength(s, q)
         /\ LooksLikeHeader(s \o t, q) <=> LooksLikeHeader(s, q)
<1>1. ASSUME NEW i \in 1 .. 4 PROVE (s \o t)[q + i] = s[q + i]
  <2>1. q + i \in 1 .. Len(s)  OBVIOUS
  <2> QED BY <2>1, ConcatFacts
<1> QED BY <1>1, SameBytes

(* Either the search passes over n bytes, and those that are left are      *)
(* fewer than a frame; or it takes the frame behind them.                  *)
Found(rest, next, n) ==
  /\ Passed(rest, n)
  /\ \/ /\ next.frame = <<>> /\ Compact(next.buf, next.start) = Compact(rest, n)
        /\ Len(rest) - n < MaxFrameSize /\ ~FrameAt(rest, n)
     \/ /\ next.frame # <<>> /\ FrameAt(rest, n)
        /\ next.frame = SubSeq(rest, n + 1, FrameEnd(rest, n))
        /\ Compact(next.buf, next.start) = Compact(rest, FrameEnd(rest, n))

(* What nextFrame (SX1262/main.go:167-193) does, in terms of the bytes      *)
(* from receiveStart on.                                                   *)
LEMMA NextFrameDoes ==
  ASSUME NEW buf \in Seq(Byte), NEW start \in 0 .. Len(buf),
         NEW next, next = NextFrame(buf, start), NEW rest, rest = Compact(buf, start)
  PROVE  /\ next.buf \in Seq(Byte) /\ next.start \in 0 .. Len(next.buf)
         /\ Len(next.buf) <= Len(buf) /\ next.frame \in Seq(Byte)
         /\ \E n \in 0 .. Len(rest) : Found(rest, next, n)
<1> DEFINE p == Scan(buf, start)
           end == p + (4 + PayloadLength(buf, p))
           n == p - start
<1>1. /\ p \in start .. Len(buf) /\ Stops(buf, p)
      /\ \A q \in start .. p - 1 : ~Stops(buf, q)
  BY ScanStops
<1> HIDE DEF p
<1>2. rest \in Seq(Byte) /\ Len(rest) = Len(buf) - start  BY CompactFacts
<1>3. n \in 0 .. Len(rest) /\ start + n = p /\ p \in Nat /\ Len(buf) \in Nat /\ start \in Nat
      /\ n \in 0 .. Len(buf) - start
  BY <1>1, <1>2
<1> HIDE DEF n
<1>4. Passed(rest, n)
  <2> SUFFICES ASSUME NEW q \in 0 .. n - 1
               PROVE  Len(rest) - q >= 4 /\ ~LooksLikeHeader(rest, q)
    BY DEF Passed
  <2>1. start + q \in start .. p - 1  BY <1>3
  <2>2. ~(Len(buf) - (start + q) < 4) /\ ~LooksLikeHeader(buf, start + q)
    BY <2>1, <1>1 DEF Stops
  <2>3. start + q + 4 <= Len(buf) /\ q \in Nat  BY <2>2, <1>3
  <2>4. LooksLikeHeader(rest, q) <=> LooksLikeHeader(buf, start + q)  BY <2>3, LooksAhead
  <2> QED BY <2>2, <2>3, <2>4, <1>2, <1>3
<1>5. CASE Len(buf) - p < 4 \/ Len(buf) < end
  <2>1. next = [frame |-> <<>>, buf |-> buf, start |-> p]
    <3>1. end = (p + 4) + PayloadLength(buf, p) \/ Len(buf) - p < 4
      <4>1. CASE p + 4 <= Len(buf)
        <5>1. PayloadLength(buf, p) \in Nat  BY <4>1, <1>3, PayloadLengthNat
        <5> QED BY <5>1, <1>3
      <4>2. CASE ~(p + 4 <= Len(buf))
        BY <4>2, <1>3
      <4> QED BY <4>1, <4>2
    <3> QED BY <1>5, <3>1 DEF NextFrame, p
  <2>2. next.buf = buf /\ next.start = p /\ next.frame = <<>> /\ <<>> \in Seq(Byte)
    BY <2>1
  <2>3. Compact(buf, p) = Compact(rest, n)  BY <1>3, CompactTwice
  <2>4. Len(rest) - n = Len(buf) - p  BY <1>2, <1>3
  <2>5. Len(rest) - n < MaxFrameSize /\ ~FrameAt(rest, n)
    <3>0. MaxFramePayloadSize \in Nat /\ MaxFramePayloadSize >= 1  BY FramingAssumption
    <3>1. CASE Len(buf) - p < 4
      <4>1. Len(rest) - n < MaxFrameSize  BY <3>1, <2>4, <3>0, <1>3 DEF MaxFrameSize
      <4>2. ASSUME FrameAt(rest, n) PROVE FALSE
        <5>1. PayloadLength(rest, n) \in Nat /\ n + (4 + PayloadLength(rest, n)) <= Len(rest)
          BY <4>2, <3>0 DEF FrameAt, FrameEnd, LooksLikeHeader
        <5> QED BY <5>1, <3>1, <2>4, <1>3, <1>2
      <4> QED BY <4>1, <4>2
    <3>2. CASE ~(Len(buf) - p < 4)
      <4>1. LooksLikeHeader(buf, p) /\ p + 4 <= Len(buf) /\ Len(buf) < end
        BY <3>2, <1>1, <1>3, <1>5 DEF Stops
      <4>2. PayloadLength(buf, p) \in 1 .. MaxFramePayloadSize  BY <4>1 DEF LooksLikeHeader
      <4>3. Len(rest) - n < MaxFrameSize  BY <4>1, <4>2, <2>4, <3>0, <1>3 DEF MaxFrameSize
      <4>4. PayloadLength(rest, n) = PayloadLength(buf, p)
        <5>1. start + n + 4 <= Len(buf) /\ n \in Nat  BY <4>1, <1>3
        <5> QED BY <5>1, <1>3, LooksAhead
      <4>5. ~FrameAt(rest, n)
        <5>1. n + (4 + PayloadLength(buf, p)) > Len(rest)  BY <4>1, <4>2, <2>4, <1>2, <1>3, <3>0
        <5>2. FrameEnd(rest, n) = n + (4 + PayloadLength(buf, p))  BY <4>4 DEF FrameEnd
        <5>3. PayloadLength(buf, p) \in Nat  BY <4>2, <3>0
        <5>4. ~(FrameEnd(rest, n) <= Len(rest))  BY <5>1, <5>2, <5>3, <1>2, <1>3
        <5> QED BY <5>4 DEF FrameAt
      <4> QED BY <4>3, <4>5
    <3> QED BY <3>1, <3>2
  <2>6. Found(rest, next, n)  BY <2>2, <2>3, <2>5, <1>4 DEF Found
  <2> QED BY <2>2, <2>6, <1>3
<1>6. CASE ~(Len(buf) - p < 4 \/ Len(buf) < end)
  <2>0. MaxFramePayloadSize \in Nat  BY FramingAssumption
  <2>1. LooksLikeHeader(buf, p) /\ p + 4 <= Len(buf)
    BY <1>6, <1>1, <1>3 DEF Stops
  <2>2. PayloadLength(buf, p) \in 1 .. MaxFramePayloadSize  BY <2>1 DEF LooksLikeHeader
  <2>3. end \in Nat /\ end <= Len(buf) /\ end > p /\ end = (p + 4) + PayloadLength(buf, p)
    BY <2>2, <1>6, <1>3, <2>0
  <2>4. PayloadLength(rest, n) = PayloadLength(buf, p) /\ LooksLikeHeader(rest, n)
    <3>1. start + n + 4 <= Len(buf) /\ n \in Nat  BY <2>1, <1>3
    <3> QED BY <3>1, <1>3, <2>1, LooksAhead
  <2>5. FrameEnd(rest, n) = end - start /\ end - start \in 0 .. Len(rest)
    <3>1. FrameEnd(rest, n) = n + (4 + PayloadLength(buf, p))  BY <2>4 DEF FrameEnd
    <3>2. PayloadLength(buf, p) \in Nat  BY <2>2, <2>0
    <3>3. n + (4 + PayloadLength(buf, p)) = end - start  BY <3>2, <1>3
    <3>4. end - start \in 0 .. Len(rest)  BY <2>3, <1>2, <1>3, <1>1
    <3> QED BY <3>1, <3>3, <3>4
  <2>6. FrameAt(rest, n)  BY <2>4, <2>5 DEF FrameAt
  <2> DEFINE taken == SubSeq(buf, p + 1, end)
             after == IF end = Len(buf) THEN <<>> ELSE buf
             behind == IF end = Len(buf) THEN 0 ELSE end
  <2>7. next.frame = taken /\ next.buf = after /\ next.start = behind
    <3>1. next = [frame |-> taken, buf |-> after, start |-> behind]
      BY <1>6, <2>3 DEF NextFrame, p
    <3> HIDE DEF taken, after, behind
    <3> QED BY <3>1
  <2> HIDE DEF end
  <2>8. /\ SubSeq(buf, p + 1, end) \in Seq(Byte) /\ Len(SubSeq(buf, p + 1, end)) = end - p
        /\ \A i \in 1 .. end - p : SubSeq(buf, p + 1, end)[i] = buf[p + i]
    <3>1. end \in 0 .. Len(buf) /\ p \in Nat /\ p <= end  BY <2>3, <1>3
    <3> QED BY <3>1, SubSeqFacts
  <2>9. SubSeq(buf, p + 1, end) # <<>>
    <3>1. Len(SubSeq(buf, p + 1, end)) # 0  BY <2>3, <2>8, <1>3
    <3>2. Len(<<>>) = 0  OBVIOUS
    <3> QED BY <3>1, <3>2
  <2>10. SubSeq(buf, p + 1, end) = SubSeq(rest, n + 1, end - start)
    <3>1. /\ SubSeq(rest, n + 1, end - start) \in Seq(Byte)
          /\ Len(SubSeq(rest, n + 1, end - start)) = (end - start) - n
          /\ \A i \in 1 .. (end - start) - n : SubSeq(rest, n + 1, end - start)[i] = rest[n + i]
      <4>1. end - start \in 0 .. Len(rest) /\ n \in Nat /\ n <= end - start
        BY <2>3, <2>5, <1>2, <1>3
      <4> QED BY <4>1, <1>2, SubSeqFacts
    <3>2. (end - start) - n = end - p  BY <1>3, <2>3
    <3>3. ASSUME NEW i \in 1 .. end - p PROVE rest[n + i] = buf[p + i]
      <4>1. n + i \in 1 .. Len(buf) - start /\ start + (n + i) = p + i  BY <1>3, <2>3
      <4> QED BY <4>1, CompactFacts
    <3>4. ASSUME NEW i \in 1 .. end - p
          PROVE  SubSeq(buf, p + 1, end)[i] = SubSeq(rest, n + 1, end - start)[i]
      BY <3>1, <3>2, <3>3, <2>8
    <3>5. /\ SubSeq(rest, n + 1, end - start) \in Seq(Byte)
          /\ Len(SubSeq(rest, n + 1, end - start)) = end - p
      BY <3>1, <3>2
    <3> QED BY <3>4, <3>5, <2>8, SameSeq
  <2>11. Compact(rest, end - start) = Compact(buf, end)
    <3>1. end - start \in 0 .. Len(buf) - start /\ start + (end - start) = end
      BY <1>3, <2>3
    <3> QED BY <3>1, CompactTwice
  <2>12. /\ next.buf \in Seq(Byte) /\ next.start \in 0 .. Len(next.buf)
         /\ Len(next.buf) <= Len(buf) /\ Compact(next.buf, next.start) = Compact(buf, end)
    <3>1. CASE end = Len(buf)
      <4>1. next.buf = <<>> /\ next.start = 0  BY <2>7, <3>1
      <4>2. <<>> \in Seq(Byte) /\ Len(<<>>) = 0 /\ 0 \in 0 .. Len(<<>>)  OBVIOUS
      <4>3. Compact(<<>>, 0) = <<>> /\ Compact(buf, end) = <<>>
        <5>1. Compact(<<>>, 0) \in Seq(Byte) /\ Len(Compact(<<>>, 0)) = 0  BY <4>2, CompactFacts
        <5>2. end \in 0 .. Len(buf) /\ Len(buf) - end = 0  BY <3>1, <2>3
        <5>3. Compact(buf, end) \in Seq(Byte) /\ Len(Compact(buf, end)) = 0
          BY <5>2, CompactFacts
        <5> QED BY <5>1, <5>3
      <4> QED BY <4>1, <4>2, <4>3, <1>3
    <3>2. CASE end # Len(buf)
      <4>1. next.buf = buf /\ next.start = end  BY <2>7, <3>2
      <4> QED BY <4>1, <2>3, <1>3
    <3> QED BY <3>1, <3>2
  <2>13. next.frame = SubSeq(buf, p + 1, end)
    BY <2>7
  <2>14. /\ next.frame # <<>> /\ next.frame \in Seq(Byte)
         /\ next.frame = SubSeq(rest, n + 1, FrameEnd(rest, n))
         /\ Compact(next.buf, next.start) = Compact(rest, FrameEnd(rest, n))
    BY <2>12, <2>13, <2>8, <2>9, <2>10, <2>11, <2>5
  <2>15. Found(rest, next, n)  BY <2>14, <2>6, <1>4 DEF Found
  <2> QED BY <2>12, <2>14, <2>15, <1>3
<1> QED BY <1>5, <1>6
-----------------------------------------------------------------------------
(* WHAT A RECEIVE DOES TO THE BYTES NOT YET LOOKED AT *)

LEMMA FrameRange ==
  ASSUME NEW s \in Seq(Byte), NEW n \in 0 .. Len(s), FrameAt(s, n)
  PROVE  /\ PayloadLength(s, n) \in 1 .. MaxFramePayloadSize
         /\ FrameEnd(s, n) \in 0 .. Len(s) /\ FrameEnd(s, n) >= n + 5 /\ n + 4 <= Len(s)
         /\ FrameEnd(s, n) = n + (4 + PayloadLength(s, n))
<1>1. MaxFramePayloadSize \in Nat  BY FramingAssumption
<1>2. PayloadLength(s, n) \in 1 .. MaxFramePayloadSize  BY DEF FrameAt, LooksLikeHeader
<1>3. n + (4 + PayloadLength(s, n)) <= Len(s)  BY DEF FrameAt, FrameEnd
<1> QED BY <1>1, <1>2, <1>3 DEF FrameEnd

(* More bytes behind change nothing of what has been found. *)
LEMMA PassedBehind ==
  ASSUME NEW s \in Seq(Byte), NEW t \in Seq(Byte), NEW n \in 0 .. Len(s), Passed(s, n)
  PROVE  Passed(s \o t, n)
<1> SUFFICES ASSUME NEW q \in 0 .. n - 1
             PROVE  Len(s \o t) - q >= 4 /\ ~LooksLikeHeader(s \o t, q)
  BY DEF Passed
<1>1. Len(s) - q >= 4 /\ ~LooksLikeHeader(s, q)  BY DEF Passed
<1>2. q \in Nat /\ q + 4 <= Len(s) /\ Len(s \o t) = Len(s) + Len(t) /\ Len(t) \in Nat
  BY <1>1, ConcatFacts
<1> QED BY <1>1, <1>2, LooksBehind

LEMMA FrameBehind ==
  ASSUME NEW s \in Seq(Byte), NEW t \in Seq(Byte), NEW n \in 0 .. Len(s), FrameAt(s, n)
  PROVE  /\ FrameAt(s \o t, n) /\ FrameEnd(s \o t, n) = FrameEnd(s, n)
         /\ SubSeq(s \o t, n + 1, FrameEnd(s, n)) = SubSeq(s, n + 1, FrameEnd(s, n))
<1> DEFINE e == FrameEnd(s, n)
<1>1. e \in 0 .. Len(s) /\ n <= e /\ n + 4 <= Len(s) /\ n \in Nat /\ LooksLikeHeader(s, n)
  BY FrameRange DEF FrameAt
<1>2. PayloadLength(s \o t, n) = PayloadLength(s, n) /\ LooksLikeHeader(s \o t, n)
  BY <1>1, LooksBehind
<1>3. FrameEnd(s \o t, n) = e  BY <1>2 DEF FrameEnd
<1> HIDE DEF e
<1>4. s \o t \in Seq(Byte) /\ e \in 0 .. Len(s \o t) /\ Len(s \o t) = Len(s) + Len(t)
  BY <1>1, ConcatFacts
<1>5. FrameAt(s \o t, n)  BY <1>2, <1>3, <1>4 DEF FrameAt
<1>6. /\ SubSeq(s, n + 1, e) \in Seq(Byte) /\ Len(SubSeq(s, n + 1, e)) = e - n
      /\ SubSeq(s \o t, n + 1, e) \in Seq(Byte) /\ Len(SubSeq(s \o t, n + 1, e)) = e - n
  BY <1>1, <1>4, SubSeqFacts
<1>7. ASSUME NEW i \in 1 .. e - n
      PROVE  SubSeq(s \o t, n + 1, e)[i] = SubSeq(s, n + 1, e)[i]
  <2>1. n + i \in 1 .. Len(s)  BY <1>1
  <2>2. (s \o t)[n + i] = s[n + i]  BY <2>1, ConcatFacts
  <2>3. SubSeq(s \o t, n + 1, e)[i] = (s \o t)[n + i]  BY <1>1, <1>4, SubSeqFacts
  <2>4. SubSeq(s, n + 1, e)[i] = s[n + i]  BY <1>1, SubSeqFacts
  <2> QED BY <2>2, <2>3, <2>4
<1>8. SubSeq(s \o t, n + 1, e) = SubSeq(s, n + 1, e)  BY <1>6, <1>7, SameSeq
<1> QED BY <1>3, <1>5, <1>8 DEF e

(* Searching on from where a search has stopped is one search. *)
LEMMA PassedOn ==
  ASSUME NEW s \in Seq(Byte), NEW m \in 0 .. Len(s), NEW n \in 0 .. Len(s) - m,
         Passed(s, m), Passed(Compact(s, m), n)
  PROVE  Passed(s, m + n)
<1> SUFFICES ASSUME NEW q \in 0 .. (m + n) - 1
             PROVE  Len(s) - q >= 4 /\ ~LooksLikeHeader(s, q)
  BY DEF Passed
<1>1. CASE q < m
  <2>1. q \in 0 .. m - 1  BY <1>1
  <2> QED BY <2>1 DEF Passed
<1>2. CASE q >= m
  <2>1. q - m \in 0 .. n - 1 /\ m + (q - m) = q /\ q - m \in Nat  BY <1>2
  <2>2. Len(Compact(s, m)) - (q - m) >= 4 /\ ~LooksLikeHeader(Compact(s, m), q - m)
    BY <2>1 DEF Passed
  <2>3. m + (q - m) + 4 <= Len(s) /\ Len(s) - q >= 4
    <3>1. Len(Compact(s, m)) = Len(s) - m  BY CompactFacts
    <3> QED BY <3>1, <2>1, <2>2
  <2> QED BY <2>1, <2>2, <2>3, LooksAhead
<1> QED BY <1>1, <1>2

LEMMA FrameOn ==
  ASSUME NEW s \in Seq(Byte), NEW m \in 0 .. Len(s), NEW n \in 0 .. Len(s) - m,
         FrameAt(Compact(s, m), n)
  PROVE  /\ FrameAt(s, m + n)
         /\ FrameEnd(s, m + n) = m + FrameEnd(Compact(s, m), n)
         /\ SubSeq(s, (m + n) + 1, FrameEnd(s, m + n)) =
              SubSeq(Compact(s, m), n + 1, FrameEnd(Compact(s, m), n))
<1> DEFINE t == Compact(s, m)
           e == FrameEnd(t, n)
<1>0. t \in Seq(Byte) /\ Len(t) = Len(s) - m  BY CompactFacts
<1>1. /\ e \in 0 .. Len(t) /\ n <= e /\ n + 4 <= Len(t) /\ n \in Nat /\ LooksLikeHeader(t, n)
      /\ PayloadLength(t, n) \in Nat /\ e = n + (4 + PayloadLength(t, n))
  <2>1. n \in 0 .. Len(t) /\ MaxFramePayloadSize \in Nat  BY <1>0, FramingAssumption
  <2>2. FrameAt(t, n)  OBVIOUS
  <2>3. PayloadLength(t, n) \in 1 .. MaxFramePayloadSize
         /\ FrameEnd(t, n) \in 0 .. Len(t) /\ FrameEnd(t, n) >= n + 5 /\ n + 4 <= Len(t)
         /\ FrameEnd(t, n) = n + (4 + PayloadLength(t, n))
    <3> HIDE DEF t
    <3> QED BY <2>1, <2>2, <1>0, FrameRange
  <2>4. LooksLikeHeader(t, n)  BY <2>2 DEF FrameAt
  <2> QED BY <2>1, <2>3, <2>4
<1>2. PayloadLength(s, m + n) = PayloadLength(t, n) /\ LooksLikeHeader(s, m + n)
  <2>1. m + n + 4 <= Len(s)  BY <1>0, <1>1
  <2> QED BY <2>1, <1>1, LooksAhead
<1>3. FrameEnd(s, m + n) = m + e
  <2> HIDE DEF t
  <2> QED BY <1>1, <1>2 DEF FrameEnd
<1> HIDE DEF e
<1>4. FrameAt(s, m + n)  BY <1>0, <1>1, <1>2, <1>3 DEF FrameAt
<1>5. /\ SubSeq(t, n + 1, e) \in Seq(Byte) /\ Len(SubSeq(t, n + 1, e)) = e - n
      /\ \A i \in 1 .. e - n : SubSeq(t, n + 1, e)[i] = t[n + i]
  <2> HIDE DEF t
  <2> QED BY <1>0, <1>1, SubSeqFacts
<1>6. /\ SubSeq(s, (m + n) + 1, m + e) \in Seq(Byte)
      /\ Len(SubSeq(s, (m + n) + 1, m + e)) = (m + e) - (m + n)
      /\ \A i \in 1 .. (m + e) - (m + n) : SubSeq(s, (m + n) + 1, m + e)[i] = s[(m + n) + i]
  <2>1. m + n \in Nat /\ m + e \in 0 .. Len(s) /\ m + n <= m + e  BY <1>0, <1>1
  <2> QED BY <2>1, SubSeqFacts
<1>7. (m + e) - (m + n) = e - n  BY <1>1
<1>8. ASSUME NEW i \in 1 .. e - n
      PROVE  SubSeq(s, (m + n) + 1, m + e)[i] = SubSeq(t, n + 1, e)[i]
  <2>1. n + i \in 1 .. Len(s) - m /\ m + (n + i) = (m + n) + i  BY <1>0, <1>1
  <2>2. t[n + i] = s[m + (n + i)]  BY <2>1, CompactFacts
  <2> QED BY <2>1, <2>2, <1>5, <1>6, <1>7
<1>9. SubSeq(s, (m + n) + 1, m + e) = SubSeq(t, n + 1, e)
  <2> HIDE DEF t
  <2> QED BY <1>5, <1>6, <1>7, <1>8, SameSeq
<1> QED BY <1>3, <1>4, <1>9 DEF e
-----------------------------------------------------------------------------
(* THE RECEIVER'S STEPS *)

Rest == Compact(receiveBuf, receiveStart)

LEMMA PendingTyped ==
  ASSUME TypeOK
  PROVE  Rest \in Seq(Byte) /\ Pending \in Seq(Byte) /\ Pending = Rest \o line
           /\ line \in Seq(Byte) /\ Len(Pending) = Len(Rest) + Len(line)
<1>1. receiveBuf \in Seq(Byte) /\ receiveStart \in 0 .. Len(receiveBuf) /\ line \in Seq(Byte)
  BY DEF TypeOK
<1>2. Rest \in Seq(Byte)  BY <1>1, CompactFacts DEF Rest
<1>3. Pending = Rest \o line  BY DEF Pending, Rest
<1> QED BY <1>1, <1>2, <1>3, ConcatFacts

(* The search passes over n bytes, of which none begins what looks like a  *)
(* header, and maybe takes the frame behind them.                          *)
Consumes(n) ==
  /\ n \in 0 .. Len(Pending) /\ Passed(Pending, n)
  /\ \/ Pending' = Compact(Pending, n) /\ received' = received
     \/ /\ FrameAt(Pending, n) /\ Pending' = Compact(Pending, FrameEnd(Pending, n))
        /\ received' = Append(received, SubSeq(Pending, n + 1, FrameEnd(Pending, n)))

ReceiverKeeps ==
  /\ receiveBuf' \in Seq(Byte) /\ receiveStart' \in 0 .. Len(receiveBuf')
  /\ line' \in Seq(Byte) /\ UNCHANGED <<sent, written, lost>>
  /\ Len(receiveBuf') <= MaxFrameSize /\ room' \in 1 .. MaxFrameSize

LEMMA BufferedConsumes ==
  ASSUME TypeOK, BufferInv, ReceiveBuffered
  PROVE  ReceiverKeeps /\ \E n \in 0 .. Len(Pending) : Consumes(n)
<1> DEFINE next == NextFrame(receiveBuf, receiveStart)
<1>1. receiveBuf \in Seq(Byte) /\ receiveStart \in 0 .. Len(receiveBuf) /\ line \in Seq(Byte)
  BY DEF TypeOK
<1>2. next.frame # <<>> /\ Take(next) /\ UNCHANGED <<sent, written, line, lost, room>>
  BY DEF ReceiveBuffered
<1>3. Rest = Compact(receiveBuf, receiveStart)  BY DEF Rest
<1>4. /\ next.buf \in Seq(Byte) /\ next.start \in 0 .. Len(next.buf)
      /\ Len(next.buf) <= Len(receiveBuf)
      /\ \E n \in 0 .. Len(Rest) : Found(Rest, next, n)
  BY <1>1, <1>3, NextFrameDoes
<1> HIDE DEF next
<1>5. PICK n \in 0 .. Len(Rest) :
        /\ Passed(Rest, n) /\ FrameAt(Rest, n)
        /\ next.frame = SubSeq(Rest, n + 1, FrameEnd(Rest, n))
        /\ Compact(next.buf, next.start) = Compact(Rest, FrameEnd(Rest, n))
  BY <1>2, <1>4 DEF Found
<1>6. /\ receiveBuf' = next.buf /\ receiveStart' = next.start
      /\ received' = Append(received, next.frame)
  BY <1>2 DEF Take
<1>7. Rest \in Seq(Byte) /\ Pending = Rest \o line /\ Len(Pending) = Len(Rest) + Len(line)
  BY PendingTyped
<1>8. /\ Passed(Pending, n) /\ FrameAt(Pending, n)
      /\ FrameEnd(Pending, n) = FrameEnd(Rest, n)
      /\ SubSeq(Pending, n + 1, FrameEnd(Pending, n)) = next.frame
  <2>1. Passed(Rest \o line, n)  BY <1>1, <1>5, <1>7, PassedBehind
  <2>2. /\ FrameAt(Rest \o line, n) /\ FrameEnd(Rest \o line, n) = FrameEnd(Rest, n)
        /\ SubSeq(Rest \o line, n + 1, FrameEnd(Rest, n)) = SubSeq(Rest, n + 1, FrameEnd(Rest, n))
    BY <1>1, <1>5, <1>7, FrameBehind
  <2> QED BY <1>5, <1>7, <2>1, <2>2, Zenon
<1>9. Pending' = Compact(Pending, FrameEnd(Pending, n))
  <2>1. Pending' = Compact(next.buf, next.start) \o line  BY <1>2, <1>6 DEF Pending
  <2>2. FrameEnd(Rest, n) \in 0 .. Len(Rest)  BY <1>5, <1>7, FrameRange
  <2>3. Compact(Rest \o line, FrameEnd(Rest, n)) = Compact(Rest, FrameEnd(Rest, n)) \o line
    BY <2>2, <1>1, <1>7, CompactConcat
  <2> QED BY <2>1, <2>3, <1>5, <1>7, <1>8
<1>10. n \in 0 .. Len(Pending)  BY <1>1, <1>7
<1>11. Consumes(n)  BY <1>6, <1>8, <1>9, <1>10 DEF Consumes
<1>12. ReceiverKeeps
  <2>1. Len(receiveBuf) \in Nat /\ Len(receiveBuf') \in Nat /\ MaxFrameSize \in Nat
    BY <1>1, <1>4, <1>6, FramingAssumption DEF MaxFrameSize
  <2>2. Len(receiveBuf') <= MaxFrameSize  BY <2>1, <1>4, <1>6 DEF BufferInv
  <2>3. room' \in 1 .. MaxFrameSize  BY <1>2, <2>1 DEF BufferInv, TypeOK
  <2> QED BY <2>2, <2>3, <1>1, <1>2, <1>4, <1>6 DEF ReceiverKeeps
<1> QED BY <1>10, <1>11, <1>12

LEMMA ReadsConsumes ==
  ASSUME TypeOK, BufferInv, NEW k \in 0 .. MaxFrameSize, NEW error \in BOOLEAN,
         ReceiveReads(k, error)
  PROVE  ReceiverKeeps /\ \E n \in 0 .. Len(Pending) : Consumes(n)
<1> DEFINE next == NextFrame(receiveBuf, receiveStart)
           kept == Compact(next.buf, next.start)
           read == SubSeq(line, 1, k)
           bytes == kept \o read
           second == NextFrame(bytes, 0)
           behind == SubSeq(line, k + 1, Len(line))
<1>1. receiveBuf \in Seq(Byte) /\ receiveStart \in 0 .. Len(receiveBuf) /\ line \in Seq(Byte)
  BY DEF TypeOK
<1>2. /\ k \in 0 .. Len(line) /\ next.frame = <<>> /\ Len(kept) + k <= MaxFrameSize
      /\ room' = MaxFrameSize - Len(kept)
      /\ Take(IF error \/ k = 0
              THEN [frame |-> <<>>, buf |-> bytes, start |-> 0] ELSE second)
      /\ line' = behind /\ UNCHANGED <<sent, written, lost>>
  BY DEF ReceiveReads
<1>3. Rest = Compact(receiveBuf, receiveStart)  BY DEF Rest
<1>4. /\ next.buf \in Seq(Byte) /\ next.start \in 0 .. Len(next.buf)
      /\ \E m \in 0 .. Len(Rest) :
           /\ Passed(Rest, m) /\ kept = Compact(Rest, m) /\ Len(Rest) - m < MaxFrameSize
  <2>1. /\ next.buf \in Seq(Byte) /\ next.start \in 0 .. Len(next.buf)
        /\ \E m \in 0 .. Len(Rest) : Found(Rest, next, m)
    BY <1>1, <1>3, NextFrameDoes
  <2>2. kept = Compact(next.buf, next.start)  OBVIOUS
  <2> HIDE DEF kept, next
  <2> QED BY <2>1, <2>2, <1>2 DEF Found
<1> HIDE DEF next
<1>5. PICK m \in 0 .. Len(Rest) :
        Passed(Rest, m) /\ kept = Compact(Rest, m) /\ Len(Rest) - m < MaxFrameSize
  BY <1>4
<1>6. /\ Rest \in Seq(Byte) /\ Pending \in Seq(Byte)
      /\ Pending = Rest \o line /\ Len(Pending) = Len(Rest) + Len(line)
  BY PendingTyped
<1>7. kept \in Seq(Byte) /\ Len(kept) = Len(Rest) - m  BY <1>5, <1>6, CompactFacts
<1> HIDE DEF kept
<1>8. /\ read \in Seq(Byte) /\ Len(read) = k /\ behind \in Seq(Byte)
      /\ read \o behind = line
  <2>1. 0 \in Nat /\ 0 <= k /\ 0 + 1 = 1 /\ k - 0 = k  BY <1>2
  <2>2. read \in Seq(Byte) /\ Len(read) = k  BY <2>1, <1>1, <1>2, SubSeqFacts
  <2>3. behind \in Seq(Byte)  BY <1>1, <1>2, CompactFacts DEF Compact
  <2> QED BY <2>2, <2>3, <1>1, <1>2, Rejoin
<1> HIDE DEF read, behind
<1>9. bytes \in Seq(Byte) /\ Len(bytes) = Len(kept) + k  BY <1>7, <1>8, ConcatFacts
<1>10. m \in 0 .. Len(Pending) /\ Passed(Pending, m)
  BY <1>1, <1>5, <1>6, PassedBehind
<1>11. Compact(Pending, m) = bytes \o behind
  <2>1. Compact(Pending, m) = kept \o line  BY <1>1, <1>5, <1>6, CompactConcat
  <2>2. kept \o (read \o behind) = (kept \o read) \o behind
    BY <1>7, <1>8, ConcatTwice
  <2> QED BY <2>1, <2>2, <1>8
<1>12. room' \in 1 .. MaxFrameSize /\ MaxFrameSize \in Nat /\ Len(bytes) <= MaxFrameSize
  <2>1. MaxFrameSize \in Nat  BY FramingAssumption DEF MaxFrameSize
  <2>2. Len(kept) \in Nat  BY <1>7
  <2> QED BY <2>1, <2>2, <1>2, <1>5, <1>7, <1>9
<1> HIDE DEF bytes
<1>13. CASE error \/ k = 0
  <2>1. receiveBuf' = bytes /\ receiveStart' = 0 /\ received' = received
    <3> DEFINE none == [frame |-> <<>>, buf |-> bytes, start |-> 0]
    <3>1. none.frame = <<>> /\ none.buf = bytes /\ none.start = 0  OBVIOUS
    <3>2. Take(none)  BY <1>2, <1>13
    <3> HIDE DEF none
    <3> QED BY <3>1, <3>2 DEF Take
  <2>2. Compact(bytes, 0) = bytes
    <3>1. 0 \in 0 .. Len(bytes) /\ Len(bytes) - 0 = Len(bytes)
            /\ \A i \in 1 .. Len(bytes) : 0 + i = i
      BY <1>9
    <3>2. /\ Compact(bytes, 0) \in Seq(Byte) /\ Len(Compact(bytes, 0)) = Len(bytes)
          /\ \A i \in 1 .. Len(bytes) : Compact(bytes, 0)[i] = bytes[i]
      BY <3>1, <1>9, CompactFacts
    <3> QED BY <3>2, <1>9, SameSeq
  <2>3. Pending' = Compact(Pending, m)  BY <2>1, <2>2, <1>2, <1>11 DEF Pending
  <2>4. Consumes(m)  BY <2>1, <2>3, <1>10 DEF Consumes
  <2>5. 0 \in 0 .. Len(bytes)  BY <1>9
  <2>6. ReceiverKeeps  BY <2>1, <2>5, <1>2, <1>8, <1>9, <1>12 DEF ReceiverKeeps
  <2> QED BY <2>4, <2>6, <1>10
<1>14. CASE ~(error \/ k = 0)
  <2>1. /\ receiveBuf' = second.buf /\ receiveStart' = second.start
        /\ received' = IF second.frame = <<>> THEN received ELSE Append(received, second.frame)
    BY <1>2, <1>14 DEF Take
  <2>2. 0 \in 0 .. Len(bytes) /\ Compact(bytes, 0) = bytes
    <3>1. 0 \in 0 .. Len(bytes) /\ Len(bytes) - 0 = Len(bytes)
            /\ \A i \in 1 .. Len(bytes) : 0 + i = i
      BY <1>9
    <3>2. /\ Compact(bytes, 0) \in Seq(Byte) /\ Len(Compact(bytes, 0)) = Len(bytes)
          /\ \A i \in 1 .. Len(bytes) : Compact(bytes, 0)[i] = bytes[i]
      BY <3>1, <1>9, CompactFacts
    <3> QED BY <3>1, <3>2, <1>9, SameSeq
  <2>3. /\ second.buf \in Seq(Byte) /\ second.start \in 0 .. Len(second.buf)
        /\ Len(second.buf) <= Len(bytes)
        /\ \E n \in 0 .. Len(bytes) : Found(bytes, second, n)
    BY <2>2, <1>9, NextFrameDoes
  <2> HIDE DEF second
  <2>4. PICK n \in 0 .. Len(bytes) :
          /\ Passed(bytes, n)
          /\ \/ /\ second.frame = <<>>
                /\ Compact(second.buf, second.start) = Compact(bytes, n)
             \/ /\ second.frame # <<>> /\ FrameAt(bytes, n)
                /\ second.frame = SubSeq(bytes, n + 1, FrameEnd(bytes, n))
                /\ Compact(second.buf, second.start) = Compact(bytes, FrameEnd(bytes, n))
    BY <2>3 DEF Found
  <2>50. Len(bytes \o behind) = Len(bytes) + Len(behind) /\ Len(behind) \in Nat
    <3>1. bytes \in Seq(Byte) /\ behind \in Seq(Byte)  BY <1>8, <1>9
    <3> QED BY ONLY <3>1, ConcatFacts
  <2>51. Len(Compact(Pending, m)) = Len(Pending) - m  BY <1>6, <1>10, CompactFacts
  <2>5. Pending' = Compact(second.buf, second.start) \o behind  BY <2>1, <1>2 DEF Pending
  <2>6. n \in 0 .. Len(Pending) - m /\ m + n \in 0 .. Len(Pending)
    <3>1. Len(Pending) - m = Len(bytes) + Len(behind)  BY <2>50, <2>51, <1>11
    <3>2. Len(bytes) \in Nat /\ Len(Pending) \in Nat  BY <1>6, <1>9
    <3> QED BY <3>1, <3>2, <2>50, <1>10
  <2>7. Passed(Pending, m + n)
    <3>1. Passed(Compact(Pending, m), n)  BY <2>4, <1>8, <1>9, <1>11, PassedBehind
    <3> QED BY <3>1, <2>6, <1>6, <1>10, PassedOn
  <2>8. ASSUME second.frame = <<>> PROVE Consumes(m + n)
    <3>1. received' = received  BY <2>1, <2>8
    <3>2. Pending' = Compact(bytes, n) \o behind  BY <2>4, <2>5, <2>8
    <3>3. Compact(bytes \o behind, n) = Compact(bytes, n) \o behind
      BY <1>8, <1>9, CompactConcat
    <3>4. Compact(Compact(Pending, m), n) = Compact(Pending, m + n)
      BY <2>6, <1>6, <1>10, CompactTwice
    <3>5. Pending' = Compact(Pending, m + n)  BY <3>2, <3>3, <3>4, <1>11
    <3> QED BY <3>1, <3>5, <2>6, <2>7 DEF Consumes
  <2>9. ASSUME second.frame # <<>> PROVE Consumes(m + n)
    <3>1. received' = Append(received, second.frame)  BY <2>1, <2>9
    <3>2. /\ FrameAt(bytes, n) /\ second.frame = SubSeq(bytes, n + 1, FrameEnd(bytes, n))
          /\ Pending' = Compact(bytes, FrameEnd(bytes, n)) \o behind
      BY <2>4, <2>5, <2>9
    <3> DEFINE e == FrameEnd(bytes, n)
    <3>3. e \in 0 .. Len(bytes)  BY <3>2, <1>9, FrameRange
    <3>4. /\ FrameAt(bytes \o behind, n) /\ FrameEnd(bytes \o behind, n) = e
          /\ SubSeq(bytes \o behind, n + 1, e) = second.frame
      BY <3>2, <1>8, <1>9, FrameBehind
    <3>5. /\ FrameAt(Pending, m + n) /\ FrameEnd(Pending, m + n) = m + e
          /\ SubSeq(Pending, (m + n) + 1, FrameEnd(Pending, m + n)) = second.frame
      <4>1. FrameAt(Compact(Pending, m), n) /\ FrameEnd(Compact(Pending, m), n) = e
            /\ SubSeq(Compact(Pending, m), n + 1, e) = second.frame
        BY <3>4, <1>11
      <4> HIDE DEF e
      <4> QED BY <4>1, <2>6, <1>6, <1>10, FrameOn
    <3> HIDE DEF e
    <3>6. Compact(bytes \o behind, e) = Compact(bytes, e) \o behind
      BY <3>3, <1>8, <1>9, CompactConcat
    <3>7. Compact(Compact(Pending, m), e) = Compact(Pending, m + e)
      <4>1. e \in 0 .. Len(Pending) - m
        <5>1. Len(Pending) - m = Len(bytes) + Len(behind)  BY <2>50, <2>51, <1>11
        <5>2. Len(bytes) \in Nat  BY <1>9
        <5> QED BY <5>1, <5>2, <2>50, <3>3
      <4> QED BY <4>1, <1>6, <1>10, CompactTwice
    <3>8. Pending' = Compact(Pending, FrameEnd(Pending, m + n))
      BY <3>2, <3>5, <3>6, <3>7, <1>11 DEF e
    <3> QED BY <3>1, <3>5, <3>8, <2>6, <2>7 DEF Consumes
  <2>10. ReceiverKeeps
    <3>1. Len(second.buf) <= MaxFrameSize
      <4>1. Len(second.buf) \in Nat /\ Len(bytes) \in Nat  BY <2>3, <1>9
      <4> QED BY <4>1, <2>3, <1>12
    <3> QED BY <3>1, <2>1, <2>3, <1>2, <1>8, <1>12 DEF ReceiverKeeps
  <2> QED BY <2>6, <2>8, <2>9, <2>10
<1> QED BY <1>13, <1>14
-----------------------------------------------------------------------------
(* A WHOLE FRAME AHEAD *)

LEMMA LineFacts ==
  ASSUME TypeOK, LineInv
  PROVE  /\ Pending \in Seq(Byte) /\ Len(Pending) \in Nat /\ written \in Nat
         /\ \A i \in 1 .. Len(Pending) :
              Pending[i] \in Byte /\ Pending[i].at \in Nat /\ Pending[i].at \in 1 .. written
         /\ \A i, j \in 1 .. Len(Pending) : i < j => Pending[i].at < Pending[j].at
         /\ \A i, j \in 1 .. Len(Pending) : Pending[i].at < Pending[j].at => i < j
         /\ \A i, j \in 1 .. Len(Pending) : Pending[i].at = Pending[j].at => i = j
         /\ \A b \in 1 .. written :
              b \in lost \/ b < NextUp \/ \E i \in 1 .. Len(Pending) : Pending[i].at = b
<1>1. Pending \in Seq(Byte) /\ Len(Pending) \in Nat /\ written \in Nat
  BY PendingTyped DEF TypeOK
<1>2. ASSUME NEW i \in 1 .. Len(Pending)
      PROVE  Pending[i] \in Byte /\ Pending[i].at \in Nat /\ Pending[i].at \in 1 .. written
  <2>1. Pending[i] \in Byte  BY <1>1
  <2>2. Pending[i].at \in 1 .. written  BY DEF LineInv
  <2> QED BY <2>1, <2>2, ByteFields
<1>3. \A i, j \in 1 .. Len(Pending) : i < j => Pending[i].at < Pending[j].at
  BY DEF LineInv
<1>4. ASSUME NEW i \in 1 .. Len(Pending), NEW j \in 1 .. Len(Pending)
      PROVE  /\ Pending[i].at < Pending[j].at => i < j
             /\ Pending[i].at = Pending[j].at => i = j
  <2>1. Pending[i].at \in Nat /\ Pending[j].at \in Nat  BY <1>2
  <2>2. i < j \/ i = j \/ j < i  OBVIOUS
  <2>3. j < i => Pending[j].at < Pending[i].at  BY <1>3
  <2>4. i < j => Pending[i].at < Pending[j].at  BY <1>3
  <2> QED BY <2>1, <2>2, <2>3, <2>4
<1>5. \A b \in 1 .. written :
        b \in lost \/ b < NextUp \/ \E i \in 1 .. Len(Pending) : Pending[i].at = b
  BY DEF LineInv
<1> QED BY <1>1, <1>2, <1>3, <1>4, <1>5

LEMMA NextUpFacts ==
  ASSUME TypeOK, LineInv
  PROVE  /\ NextUp \in 1 .. written + 1
         /\ \A i \in 1 .. Len(Pending) : NextUp <= Pending[i].at
         /\ Len(Pending) = 0 => NextUp = written + 1
         /\ Len(Pending) # 0 => NextUp = Pending[1].at
<1>1. /\ Pending \in Seq(Byte) /\ Len(Pending) \in Nat /\ written \in Nat
      /\ \A i \in 1 .. Len(Pending) : Pending[i].at \in 1 .. written
      /\ \A i, j \in 1 .. Len(Pending) : i < j => Pending[i].at < Pending[j].at
  BY LineFacts
<1>2. CASE Len(Pending) = 0
  <2>1. Pending = <<>>  BY <1>1, <1>2, EmptySeq
  <2> QED BY <2>1, <1>1, <1>2 DEF NextUp
<1>3. CASE Len(Pending) # 0
  <2>1. Pending # <<>> /\ Head(Pending) = Pending[1] /\ 1 \in 1 .. Len(Pending)
    BY <1>1, <1>3, EmptySeq
  <2>2. NextUp = Pending[1].at /\ NextUp \in 1 .. written  BY <2>1, <1>1 DEF NextUp
  <2>3. ASSUME NEW i \in 1 .. Len(Pending) PROVE NextUp <= Pending[i].at
    <3>1. i = 1 \/ 1 < i  OBVIOUS
    <3>2. 1 < i => Pending[1].at < Pending[i].at  BY <2>1, <1>1
    <3>3. Pending[1].at \in Nat /\ Pending[i].at \in Nat  BY <2>1, <1>1
    <3> QED BY <3>1, <3>2, <3>3, <2>2
  <2> QED BY <2>2, <2>3, <1>1, <1>3
<1> QED BY <1>2, <1>3

LEMMA SentFacts ==
  ASSUME TypeOK, SentInv, NEW k \in 1 .. Len(sent)
  PROVE  /\ sent[k].first \in Nat /\ sent[k].length \in 1 .. MaxPayloadSize
         /\ sent[k].length \in Nat /\ written \in Nat
         /\ Last(k) = sent[k].first + 4 + sent[k].length /\ Last(k) <= written
         /\ Whole(k) = Encode(sent[k].first, sent[k].length)
         /\ Whole(k) \in Seq(Byte) /\ Len(Whole(k)) = 4 + sent[k].length
         /\ \A i \in 1 .. 4 + sent[k].length : Whole(k)[i].at = sent[k].first + i
<1> DEFINE frame == [first : Nat, length : 1 .. MaxPayloadSize]
<1>1. sent[k] \in frame /\ written \in Nat
  <2>1. sent \in Seq(frame) /\ written \in Nat  BY DEF TypeOK
  <2> HIDE DEF frame
  <2> QED BY <2>1
<1>2. sent[k].first \in Nat /\ sent[k].length \in 1 .. MaxPayloadSize  BY <1>1
<1>3. sent[k].length \in Nat  BY <1>2
<1>4. Last(k) = sent[k].first + 4 + sent[k].length /\ Last(k) <= written  BY DEF SentInv, Last
<1>5. Whole(k) = Encode(sent[k].first, sent[k].length)  BY DEF Whole
<1>6. /\ Whole(k) \in Seq(Byte) /\ Len(Whole(k)) = 4 + sent[k].length
      /\ \A i \in 1 .. 4 + sent[k].length : Whole(k)[i].at = sent[k].first + i
  <2> DEFINE f == sent[k].first
             l == sent[k].length
  <2>1. f \in Nat /\ l \in 1 .. MaxPayloadSize /\ Whole(k) = Encode(f, l)  BY <1>2, <1>5
  <2> HIDE DEF f, l
  <2>2. /\ Whole(k) \in Seq(Byte) /\ Len(Whole(k)) = 4 + l
        /\ \A i \in 1 .. 4 + l : Whole(k)[i].at = f + i
    BY <2>1, EncodeFacts
  <2> QED BY <2>2 DEF f, l
<1> QED BY <1>1, <1>2, <1>3, <1>4, <1>5, <1>6

(* The bytes of a frame that has lost none lie one behind the other, so    *)
(* that there is what looks like its header, and all of the frame.         *)
LEMMA FrameAhead ==
  ASSUME TypeOK, SentInv, LineInv, NEW k \in 1 .. Len(sent), Intact(k),
         NextUp <= sent[k].first + 1
  PROVE  \E a \in 1 .. Len(Pending) :
           /\ (a - 1) + (4 + sent[k].length) <= Len(Pending)
           /\ \A i \in 1 .. 4 + sent[k].length : Pending[(a - 1) + i] = Whole(k)[i]
           /\ Pending[a].at = sent[k].first + 1
           /\ FrameAt(Pending, a - 1) /\ PayloadLength(Pending, a - 1) = sent[k].length
<1> DEFINE first == sent[k].first
           length == sent[k].length
           P == Pending
           Placed(a, i) == (a - 1) + i <= Len(P) /\ P[(a - 1) + i].at = first + i
<1>1. /\ first \in Nat /\ length \in Nat /\ length \in 1 .. MaxPayloadSize /\ written \in Nat
      /\ Last(k) = (first + 4) + length /\ Last(k) <= written
  BY SentFacts
<1>2. Whole(k) = Encode(first, length)  BY SentFacts
<1>3. NextUp \in Nat  BY NextUpFacts, <1>1
<1>4. NextUp <= first + 1  OBVIOUS
<1>41. \A b \in first + 1 .. Last(k) : b \notin lost  BY DEF Intact
<1>42. \A i \in 1 .. Len(P) :
         P[i].at \in first + 1 .. Last(k) => P[i] = Whole(k)[P[i].at - first]
  BY DEF LineInv
<1> HIDE DEF first, length
<1>5. ASSUME NEW i \in 1 .. 4 + length PROVE \E j \in 1 .. Len(P) : P[j].at = first + i
  <2>1. first + i \in 1 .. written /\ first + i \in first + 1 .. Last(k)  BY <1>1
  <2>2. first + i \notin lost  BY <2>1, <1>41
  <2>3. ~(first + i < NextUp)  BY <1>1, <1>3, <1>4
  <2> QED BY <2>1, <2>2, <2>3, LineFacts
<1>6. PICK a \in 1 .. Len(P) : P[a].at = first + 1
  <2>1. 1 \in 1 .. 4 + length  BY <1>1
  <2> QED BY <2>1, <1>5
<1>7. P \in Seq(Byte) /\ Len(P) \in Nat /\ a \in Nat  BY LineFacts
<1>8. \A i, j \in 1 .. Len(P) : P[i].at < P[j].at => i < j  BY LineFacts
<1>9. \A i, j \in 1 .. Len(P) : i < j => P[i].at < P[j].at  BY LineFacts
<1>10. \A i \in 1 .. Len(P) : P[i].at \in Nat  BY LineFacts
<1> HIDE DEF first, length, P
<1>11. ASSUME NEW i \in 1 .. 4 + length PROVE Placed(a, i)
  <2> DEFINE T == {j \in 1 .. 4 + length : ~Placed(a, j)}
  <2>1. SUFFICES ASSUME T # {} PROVE FALSE  OBVIOUS
  <2>2. T \subseteq Nat  OBVIOUS
  <2>3. PICK m \in T : \A j \in T : m <= j
    <3> HIDE DEF T
    <3> QED BY <2>1, <2>2, LeastNat
  <2>4. m \in 1 .. 4 + length /\ ~Placed(a, m)  BY <2>3
  <2>5. Placed(a, 1)
    <3>1. (a - 1) + 1 = a /\ a <= Len(P)  BY <1>7
    <3> QED BY <3>1, <1>6
  <2>6. m # 1  BY <2>4, <2>5
  <2>7. m - 1 \in 1 .. 4 + length /\ m - 1 < m  BY <2>4, <2>6, <1>1
  <2>8. Placed(a, m - 1)
    <3>1. m - 1 \notin T  BY <2>3, <2>7
    <3> QED BY <3>1, <2>7
  <2> DEFINE b == (a - 1) + (m - 1)
  <2>9. b \in 1 .. Len(P) /\ P[b].at = first + (m - 1)  BY <2>4, <2>7, <2>8, <1>7, <1>1
  <2>10. PICK c \in 1 .. Len(P) : P[c].at = first + m  BY <2>4, <1>5
  <2>11. b + 1 = (a - 1) + m  BY <2>4, <1>7, <1>1
  <2> HIDE DEF b
  <2>12. b < c
    <3>1. P[b].at < P[c].at  BY <2>4, <2>9, <2>10, <1>1
    <3> QED BY <3>1, <2>9, <2>10, <1>8
  <2>13. c = b + 1
    <3>1. SUFFICES ASSUME b + 1 < c PROVE FALSE  BY <2>9, <2>10, <2>12
    <3>2. b + 1 \in 1 .. Len(P)  BY <3>1, <2>9, <2>10
    <3>3. P[b].at < P[b + 1].at /\ P[b + 1].at < P[c].at
      BY <3>1, <3>2, <2>9, <2>10, <1>9
    <3>4. first + (m - 1) < P[b + 1].at /\ P[b + 1].at < first + m /\ P[b + 1].at \in Nat
      BY <3>2, <3>3, <2>9, <2>10, <1>10
    <3>5. first \in Nat /\ m \in Nat  BY <1>1, <2>4
    <3> QED BY <3>4, <3>5
  <2>14. Placed(a, m)  BY <2>10, <2>11, <2>13
  <2> QED BY <2>4, <2>14
<1>12. (a - 1) + (4 + length) <= Len(P)
  <2>1. 4 + length \in 1 .. 4 + length  BY <1>1
  <2> QED BY <2>1, <1>11
<1>13. ASSUME NEW i \in 1 .. 4 + length PROVE P[(a - 1) + i] = Whole(k)[i]
  <2>1. (a - 1) + i \in 1 .. Len(P) /\ P[(a - 1) + i].at = first + i
    <3>1. (a - 1) + i <= Len(P) /\ P[(a - 1) + i].at = first + i  BY <1>11
    <3>2. a >= 1 /\ i >= 1 /\ i \in Nat  BY <1>7, <1>1
    <3>3. (a - 1) + i \in Nat /\ (a - 1) + i >= 1  BY <3>2, <1>7
    <3>4. (a - 1) + i \in 1 .. Len(P)  BY <3>1, <3>3, <1>7
    <3> QED BY <3>1, <3>4
  <2>2. first + i \in first + 1 .. Last(k) /\ (first + i) - first = i  BY <1>1
  <2> QED BY <2>1, <2>2, <1>42
<1>14. PayloadLength(P, a - 1) = length /\ LooksLikeHeader(P, a - 1)
  <2>1. \A i \in 1 .. 4 : P[(a - 1) + i] = Encode(first, length)[i]
    <3>1. \A i \in 1 .. 4 : i \in 1 .. 4 + length  BY <1>1
    <3> QED BY <3>1, <1>2, <1>13
  <2> DEFINE p == a - 1
  <2>2. p \in Nat /\ \A i \in 1 .. 4 : P[p + i] = Encode(first, length)[i]  BY <2>1, <1>7
  <2> HIDE DEF p
  <2>3. PayloadLength(P, p) = length /\ LooksLikeHeader(P, p)  BY <2>2, <1>1, FrameLooks
  <2> QED BY <2>3 DEF p
<1>15. FrameAt(P, a - 1)  BY <1>12, <1>14 DEF FrameAt, FrameEnd
<1> QED BY <1>6, <1>12, <1>13, <1>14, <1>15 DEF first, length, P
-----------------------------------------------------------------------------
(* THE INVARIANT IS KEPT BY THE RECEIVER *)

LEMMA HeadAt ==
  ASSUME NEW s \in Seq(Byte), NEW w, NEW v, v = IF s = <<>> THEN w + 1 ELSE Head(s).at
  PROVE  (Len(s) = 0 => v = w + 1) /\ (Len(s) # 0 => v = s[1].at)
<1>1. CASE Len(s) = 0
  <2>1. s = <<>>  BY <1>1, EmptySeq
  <2> QED BY <2>1, <1>1
<1>2. CASE Len(s) # 0
  <2>1. s # <<>> /\ Head(s) = s[1]  BY <1>2, EmptySeq
  <2> QED BY <2>1, <1>2
<1> QED BY <1>1, <1>2

LEMMA FramesGrow ==
  ASSUME NEW f \in Seq(Byte), received \in Seq(Seq(Byte)), received' = Append(received, f)
  PROVE  /\ Frames' = Frames \cup {f} /\ received' \in Seq(Seq(Byte))
         /\ Len(received') = Len(received) + 1
         /\ \A k \in 1 .. Len(received) : received'[k] = received[k]
         /\ received'[Len(received) + 1] = f
<1>1. /\ received' \in Seq(Seq(Byte)) /\ Len(received') = Len(received) + 1
      /\ \A k \in 1 .. Len(received) : received'[k] = received[k]
      /\ received'[Len(received) + 1] = f /\ Len(received) \in Nat
  OBVIOUS
<1>2. Frames' = {received'[j] : j \in 1 .. Len(received')}  BY DEF Frames
<1>3. Frames = {received[j] : j \in 1 .. Len(received)}  BY DEF Frames
<1>4. ASSUME NEW j \in 1 .. Len(received') PROVE received'[j] \in Frames \cup {f}
  <2>1. j \in 1 .. Len(received) \/ j = Len(received) + 1  BY <1>1
  <2> QED BY <2>1, <1>1, <1>3
<1>5. ASSUME NEW x \in Frames PROVE x \in Frames'
  <2>1. PICK j \in 1 .. Len(received) : x = received[j]  BY <1>3
  <2>2. j \in 1 .. Len(received') /\ received'[j] = x  BY <2>1, <1>1
  <2> QED BY <2>2, <1>2
<1>6. f \in Frames'
  <2>1. Len(received) + 1 \in 1 .. Len(received')  BY <1>1
  <2> QED BY <2>1, <1>1, <1>2
<1> QED BY <1>1, <1>2, <1>4, <1>5, <1>6

(* How far a receive has come.                                             *)
LEMMA ConsumedBytes ==
  ASSUME TypeOK, LineInv, ReceiverKeeps, NEW n \in 0 .. Len(Pending), Consumes(n)
  PROVE  \E d \in 0 .. Len(Pending) :
           /\ Pending' \in Seq(Byte) /\ Len(Pending') = Len(Pending) - d
           /\ \A i \in 1 .. Len(Pending') : Pending'[i] = Pending[d + i]
           /\ NextUp' \in 1 .. written + 1 /\ NextUp <= NextUp'
           /\ \A i \in 1 .. d : Pending[i].at < NextUp'
           /\ \A i \in d + 1 .. Len(Pending) : NextUp' <= Pending[i].at
           /\ d = Len(Pending) => NextUp' = written + 1
           /\ d # Len(Pending) => NextUp' = Pending[d + 1].at
           /\ \/ d = n /\ received' = received
              \/ /\ FrameAt(Pending, n) /\ d = FrameEnd(Pending, n)
                 /\ received' = Append(received, SubSeq(Pending, n + 1, d))
<1>1. /\ Pending \in Seq(Byte) /\ Len(Pending) \in Nat /\ written \in Nat
      /\ \A i \in 1 .. Len(Pending) : Pending[i].at \in Nat /\ Pending[i].at \in 1 .. written
      /\ \A i, j \in 1 .. Len(Pending) : i < j => Pending[i].at < Pending[j].at
  BY LineFacts
<1>2. PICK d \in 0 .. Len(Pending) :
        /\ Pending' = Compact(Pending, d)
        /\ \/ d = n /\ received' = received
           \/ /\ FrameAt(Pending, n) /\ d = FrameEnd(Pending, n)
              /\ received' = Append(received, SubSeq(Pending, n + 1, d))
  <2>1. FrameAt(Pending, n) => FrameEnd(Pending, n) \in 0 .. Len(Pending)
    BY <1>1, FrameRange
  <2> QED BY <2>1 DEF Consumes
<1>3. /\ Pending' \in Seq(Byte) /\ Len(Pending') = Len(Pending) - d
      /\ \A i \in 1 .. Len(Pending') : Pending'[i] = Pending[d + i]
  BY <1>1, <1>2, CompactFacts
<1>4. NextUp' = IF Pending' = <<>> THEN written + 1 ELSE Head(Pending').at
  BY DEF NextUp, ReceiverKeeps
<1>5. /\ Len(Pending') = 0 => NextUp' = written + 1
      /\ Len(Pending') # 0 => NextUp' = Pending'[1].at
  BY <1>3, <1>4, HeadAt
<1>6. /\ d = Len(Pending) => NextUp' = written + 1
      /\ d # Len(Pending) => d + 1 \in 1 .. Len(Pending) /\ NextUp' = Pending[d + 1].at
  <2>1. d # Len(Pending) => 1 \in 1 .. Len(Pending')  BY <1>1, <1>2, <1>3
  <2>2. d = Len(Pending) => Len(Pending') = 0  BY <1>1, <1>3
  <2>3. d # Len(Pending) => d + 1 \in 1 .. Len(Pending) /\ Len(Pending') # 0
    BY <1>1, <1>2, <1>3
  <2> QED BY <2>1, <2>2, <2>3, <1>3, <1>5
<1>7. ASSUME NEW i \in 1 .. d PROVE Pending[i].at < NextUp'
  <2>1. i \in 1 .. Len(Pending) /\ i < d + 1  BY <1>2, <1>1
  <2> QED BY <2>1, <1>6, <1>1
<1>8. ASSUME NEW i \in d + 1 .. Len(Pending) PROVE NextUp' <= Pending[i].at
  <2>1. i \in 1 .. Len(Pending) /\ d # Len(Pending) /\ (i = d + 1 \/ d + 1 < i)
    BY <1>2, <1>1
  <2> QED BY <2>1, <1>6, <1>1
<1>9. NextUp' \in 1 .. written + 1
  <2>1. d # Len(Pending) => Pending[d + 1].at \in 1 .. written  BY <1>6, <1>1
  <2> QED BY <2>1, <1>6, <1>1
<1>10. NextUp <= NextUp'
  <2>1. NextUp \in 1 .. written + 1 /\ \A i \in 1 .. Len(Pending) : NextUp <= Pending[i].at
    BY NextUpFacts
  <2> QED BY <2>1, <1>6, <1>1
<1> QED BY <1>2, <1>3, <1>6, <1>7, <1>8, <1>9, <1>10

LEMMA ReceiverStep ==
  ASSUME IInv, ReceiverKeeps, NEW n \in 0 .. Len(Pending), Consumes(n)
  PROVE  IInv'
<1>1. /\ TypeOK /\ SentInv /\ BufferInv /\ LineInv /\ FramesInv /\ IntactFound /\ AlignedInv
      /\ UNCHANGED <<sent, written, lost>>
  BY DEF IInv, ReceiverKeeps
<1>2. /\ Pending \in Seq(Byte) /\ Len(Pending) \in Nat /\ written \in Nat
      /\ \A i \in 1 .. Len(Pending) : Pending[i].at \in Nat /\ Pending[i].at \in 1 .. written
      /\ \A i, j \in 1 .. Len(Pending) : i < j => Pending[i].at < Pending[j].at
      /\ \A i, j \in 1 .. Len(Pending) : Pending[i].at < Pending[j].at => i < j
      /\ \A i, j \in 1 .. Len(Pending) : Pending[i].at = Pending[j].at => i = j
  BY <1>1, LineFacts
<1>3. PICK d \in 0 .. Len(Pending) :
           /\ Pending' \in Seq(Byte) /\ Len(Pending') = Len(Pending) - d
           /\ \A i \in 1 .. Len(Pending') : Pending'[i] = Pending[d + i]
           /\ NextUp' \in 1 .. written + 1 /\ NextUp <= NextUp'
           /\ \A i \in 1 .. d : Pending[i].at < NextUp'
           /\ \A i \in d + 1 .. Len(Pending) : NextUp' <= Pending[i].at
           /\ d = Len(Pending) => NextUp' = written + 1
           /\ d # Len(Pending) => NextUp' = Pending[d + 1].at
           /\ \/ d = n /\ received' = received
              \/ /\ FrameAt(Pending, n) /\ d = FrameEnd(Pending, n)
                 /\ received' = Append(received, SubSeq(Pending, n + 1, d))
  BY <1>1, ConsumedBytes
<1>4. /\ NextUp \in Nat /\ NextUp \in 1 .. written + 1
      /\ \A i \in 1 .. Len(Pending) : NextUp <= Pending[i].at
  BY <1>1, <1>2, NextUpFacts
<1>5. NextUp' \in Nat  BY <1>2, <1>3
<1>6. FrameAt(Pending, n) =>
        /\ PayloadLength(Pending, n) \in 1 .. MaxFramePayloadSize
        /\ FrameEnd(Pending, n) \in 0 .. Len(Pending) /\ FrameEnd(Pending, n) >= n + 5
        /\ FrameEnd(Pending, n) = n + (4 + PayloadLength(Pending, n))
        /\ PayloadLength(Pending, n) \in Nat
  <2>1. MaxFramePayloadSize \in Nat  BY FramingAssumption
  <2> QED BY <2>1, <1>2, FrameRange
<1> DEFINE f == SubSeq(Pending, n + 1, d)
           takes == FrameAt(Pending, n) /\ d = FrameEnd(Pending, n)
                      /\ received' = Append(received, f)
<1>7. takes \/ (d = n /\ received' = received)  BY <1>3
<1>8. ASSUME takes
      PROVE  /\ f \in Seq(Byte) /\ Len(f) = d - n /\ \A i \in 1 .. d - n : f[i] = Pending[n + i]
             /\ d - n = 4 + PayloadLength(Pending, n) /\ d - n >= 5
  <2>1. n \in Nat /\ d \in 0 .. Len(Pending) /\ n <= d  BY <1>6, <1>8
  <2>2. f \in Seq(Byte) /\ Len(f) = d - n /\ \A i \in 1 .. d - n : f[i] = Pending[n + i]
    BY <2>1, <1>2, SubSeqFacts
  <2> HIDE DEF f
  <2>3. d - n = 4 + PayloadLength(Pending, n) /\ d - n >= 5  BY <2>1, <1>6, <1>8
  <2> QED BY <2>2, <2>3
<1>9. \A k : Whole(k)' = Whole(k) /\ Last(k)' = Last(k) /\ (Intact(k)' <=> Intact(k))
  BY <1>1 DEF Whole, Last, Intact
<1>10. received \in Seq(Seq(Byte))  BY <1>1 DEF TypeOK
<1> HIDE DEF f
<1>11. takes => /\ Frames' = Frames \cup {f} /\ received' \in Seq(Seq(Byte))
                /\ Len(received') = Len(received) + 1
                /\ \A k \in 1 .. Len(received) : received'[k] = received[k]
                /\ received'[Len(received) + 1] = f
  BY <1>8, <1>10, FramesGrow
<1>12. ~takes => Frames' = Frames  BY <1>7 DEF Frames
<1> HIDE DEF takes
<1>13. TypeOK'
  <2>1. received' \in Seq(Seq(Byte))  BY <1>7, <1>10, <1>11
  <2> QED BY <2>1, <1>1 DEF TypeOK, ReceiverKeeps
<1>14. SentInv'  BY <1>1, <1>9 DEF SentInv
<1>15. BufferInv'  BY DEF BufferInv, ReceiverKeeps
<1>16. LineInv'
  <2>1. ASSUME NEW i \in 1 .. Len(Pending')
        PROVE  d + i \in 1 .. Len(Pending) /\ Pending'[i] = Pending[d + i]
    BY <1>2, <1>3
  <2>2. ASSUME NEW i \in 1 .. Len(Pending'), NEW j \in 1 .. Len(Pending'), i < j
        PROVE  Pending'[i].at < Pending'[j].at
    <3>1. d + i < d + j  BY <2>2, <1>3
    <3> QED BY <3>1, <2>1, <1>2
  <2>3. ASSUME NEW i \in 1 .. Len(Pending')
        PROVE  /\ Pending'[i].at \in 1 .. written'
               /\ \A k \in 1 .. Len(sent') :
                    Pending'[i].at \in sent'[k].first + 1 .. Last(k)' =>
                      Pending'[i] = Whole(k)'[Pending'[i].at - sent'[k].first]
    <3>1. d + i \in 1 .. Len(Pending) /\ Pending'[i] = Pending[d + i]  BY <2>1
    <3>2. /\ Pending[d + i].at \in 1 .. written
          /\ \A k \in 1 .. Len(sent) :
               Pending[d + i].at \in sent[k].first + 1 .. Last(k) =>
                 Pending[d + i] = Whole(k)[Pending[d + i].at - sent[k].first]
      BY <3>1, <1>1 DEF LineInv
    <3>3. sent' = sent /\ written' = written  BY <1>1
    <3> QED BY <3>1, <3>2, <3>3, <1>9, Zenon
  <2>4. ASSUME NEW b \in 1 .. written'
        PROVE  b \in lost' \/ b < NextUp' \/ \E i \in 1 .. Len(Pending') : Pending'[i].at = b
    <3>1. b \in 1 .. written /\ b \in Nat  BY <1>1
    <3>2. b \in lost \/ b < NextUp \/ \E i \in 1 .. Len(Pending) : Pending[i].at = b
      BY <3>1, <1>1, LineFacts
    <3>3. CASE b < NextUp
      BY <3>1, <3>3, <1>3, <1>4, <1>5
    <3>4. ASSUME NEW i \in 1 .. Len(Pending), Pending[i].at = b
          PROVE  b < NextUp' \/ \E j \in 1 .. Len(Pending') : Pending'[j].at = b
      <4>1. CASE i <= d
        <5>1. i \in 1 .. d  BY <4>1, <1>3
        <5> QED BY <5>1, <3>4, <1>3
      <4>2. CASE d < i
        <5>1. i - d \in 1 .. Len(Pending') /\ d + (i - d) = i  BY <4>2, <1>2, <1>3
        <5>2. Pending'[i - d].at = b  BY <5>1, <3>4, <1>3
        <5> QED BY <5>1, <5>2
      <4>3. i <= d \/ d < i  OBVIOUS
      <4> QED BY <4>1, <4>2, <4>3
    <3> QED BY <3>2, <3>3, <3>4, <1>1
  <2> QED BY <2>2, <2>3, <2>4 DEF LineInv
<1>17. FramesInv'
  <2> SUFFICES ASSUME NEW g \in Frames'
               PROVE  /\ LooksLikeHeader(g, 0) /\ Len(g) = 4 + PayloadLength(g, 0)
                      /\ g[Len(g)].at < NextUp'
    BY DEF FramesInv
  <2>1. CASE g \in Frames
    <3>1. /\ LooksLikeHeader(g, 0) /\ Len(g) = 4 + PayloadLength(g, 0)
          /\ g[Len(g)].at < NextUp
      BY <2>1, <1>1 DEF FramesInv
    <3>2. g[Len(g)].at \in Nat
      <4>1. PICK j \in 1 .. Len(received) : g = received[j]  BY <2>1 DEF Frames
      <4>2. g \in Seq(Byte)  BY <4>1, <1>10
      <4>3. PayloadLength(g, 0) \in 1 .. MaxFramePayloadSize /\ MaxFramePayloadSize \in Nat
        BY <3>1, FramingAssumption DEF LooksLikeHeader
      <4>4. Len(g) \in 1 .. Len(g)  BY <4>3, <3>1
      <4>5. g[Len(g)] \in Byte  BY <4>2, <4>4
      <4> QED BY <4>5, ByteFields
    <3> QED BY <3>1, <3>2, <1>3, <1>4, <1>5
  <2>2. CASE g \notin Frames
    <3>1. takes /\ g = f  BY <2>2, <1>11, <1>12
    <3>2. \A i \in 1 .. 4 : g[0 + i] = Pending[n + i]
      <4>1. \A i \in 1 .. 4 : i \in 1 .. d - n /\ 0 + i = i  BY <3>1, <1>8
      <4> QED BY <4>1, <3>1, <1>8
    <3>3. PayloadLength(g, 0) = PayloadLength(Pending, n) /\ LooksLikeHeader(g, 0)
      <4> DEFINE z == 0
      <4>1. LooksLikeHeader(Pending, n)  BY <3>1 DEF takes, FrameAt
      <4>2. z \in Nat /\ n \in Nat /\ \A i \in 1 .. 4 : g[z + i] = Pending[n + i]  BY <3>2
      <4> HIDE DEF z
      <4>3. PayloadLength(g, z) = PayloadLength(Pending, n) /\ LooksLikeHeader(g, z)
        BY <4>1, <4>2, SameBytes
      <4> QED BY <4>3 DEF z
    <3>4. Len(g) \in 1 .. d - n /\ n + Len(g) = d /\ d \in 1 .. d  BY <3>1, <1>8, <1>3
    <3>5. g[Len(g)] = Pending[d]  BY <3>1, <3>4, <1>8
    <3>6. Len(g) = 4 + PayloadLength(g, 0)  BY <3>1, <3>3, <1>8
    <3> QED BY <3>3, <3>4, <3>5, <3>6, <1>3
  <2> QED BY <2>1, <2>2
<1>18. IntactFound'
  <2> SUFFICES ASSUME NEW k \in 1 .. Len(sent'), Intact(k)', NextUp' > sent'[k].first + 1
               PROVE  Whole(k)' \in Frames' \/ Swallowed(k)'
    BY DEF IntactFound
  <2>1. k \in 1 .. Len(sent) /\ Intact(k) /\ NextUp' > sent[k].first + 1  BY <1>1, <1>9
  <2>2. Frames \subseteq Frames'  BY <1>11, <1>12
  <2>3. CASE NextUp > sent[k].first + 1
    <3>1. Whole(k) \in Frames \/ Swallowed(k)  BY <2>1, <2>3, <1>1 DEF IntactFound
    <3>2. Swallowed(k) => Swallowed(k)'
      BY <2>2, <1>1 DEF Swallowed
    <3> QED BY <2>2, <3>1, <3>2, <1>9
  <2>4. CASE ~(NextUp > sent[k].first + 1)
    <3> DEFINE length == sent[k].length
               first == sent[k].first
    <3>1. /\ first \in Nat /\ length \in Nat /\ Whole(k) \in Seq(Byte)
          /\ Len(Whole(k)) = 4 + length
      BY <2>1, <1>1, SentFacts
    <3>2. NextUp <= sent[k].first + 1  BY <2>4, <3>1, <1>4
    <3>3. PICK a \in 1 .. Len(Pending) :
           /\ (a - 1) + (4 + length) <= Len(Pending)
           /\ \A i \in 1 .. 4 + length : Pending[(a - 1) + i] = Whole(k)[i]
           /\ Pending[a].at = first + 1
           /\ FrameAt(Pending, a - 1) /\ PayloadLength(Pending, a - 1) = length
      BY <2>1, <3>2, <1>1, FrameAhead
    <3> HIDE DEF first, length
    <3>4. a <= d
      <4>1. SUFFICES ASSUME d < a PROVE FALSE  BY <1>3
      <4>2. a \in d + 1 .. Len(Pending)  BY <4>1, <1>3
      <4>3. NextUp' <= first + 1  BY <4>2, <3>3, <1>3
      <4> QED BY <4>3, <2>1, <3>1, <1>5 DEF first
    <3>5. n <= a - 1
      <4>1. SUFFICES ASSUME a - 1 < n PROVE FALSE  OBVIOUS
      <4>2. a - 1 \in 0 .. n - 1  BY <4>1
      <4>3. ~LooksLikeHeader(Pending, a - 1)  BY <4>2 DEF Consumes, Passed
      <4> QED BY <4>3, <3>3 DEF FrameAt
    <3>6. takes
      <4>1. d # n  BY <3>4, <3>5, <1>3
      <4> QED BY <4>1, <1>7
    <3>7. CASE n = a - 1
      <4>1. d - n = 4 + length  BY <3>3, <3>6, <3>7, <1>8
      <4>2. f = Whole(k)
        <5>1. Len(f) = Len(Whole(k)) /\ f \in Seq(Byte)  BY <4>1, <3>1, <3>6, <1>8
        <5>2. ASSUME NEW i \in 1 .. Len(f) PROVE f[i] = Whole(k)[i]
          <6>1. i \in 1 .. d - n /\ i \in 1 .. 4 + length  BY <4>1, <3>6, <1>8
          <6> QED BY <6>1, <3>3, <3>6, <3>7, <1>8
        <5> QED BY <5>1, <5>2, <3>1, SameSeq
      <4> QED BY <4>2, <3>6, <1>9, <1>11
    <3>8. CASE n # a - 1
      <4>1. a - n \in 1 .. d - n /\ a - n \in 2 .. d - n /\ n + (a - n) = a
        BY <3>4, <3>5, <3>8, <1>3
      <4>2. f[a - n].at = first + 1 /\ Len(f) = d - n  BY <4>1, <3>3, <3>6, <1>8
      <4>3. f \in Frames'  BY <3>6, <1>11
      <4>4. \E g \in Frames' : \E i \in 2 .. Len(g) : g[i].at = sent'[k].first + 1
        BY <4>1, <4>2, <4>3, <1>1 DEF first
      <4> QED BY <4>4 DEF Swallowed
    <3> QED BY <3>7, <3>8
  <2> QED BY <2>3, <2>4
<1>19. AlignedInv'
  <2> DEFINE R == Len(received)
  <2>1. SUFFICES ASSUME lost = {}
                 PROVE  /\ Len(received') <= Len(sent)
                        /\ \A k \in 1 .. Len(received') : received'[k] = Whole(k)
                        /\ NextUp' = 1 + IF Len(received') = Len(sent) THEN written
                                         ELSE sent[Len(received') + 1].first
    BY <1>1, <1>9 DEF AlignedInv
  <2>2. /\ R <= Len(sent) /\ \A k \in 1 .. R : received[k] = Whole(k)
        /\ NextUp = 1 + IF R = Len(sent) THEN written ELSE sent[R + 1].first
    BY <2>1, <1>1 DEF AlignedInv
  <2>3. R \in Nat /\ Len(sent) \in Nat  BY <1>1 DEF TypeOK
  <2>4. CASE R = Len(sent)
    <3>1. NextUp = written + 1  BY <2>2, <2>4, <1>2
    <3>2. Len(Pending) = 0
      <4>1. SUFFICES ASSUME Len(Pending) # 0 PROVE FALSE  OBVIOUS
      <4>2. 1 \in 1 .. Len(Pending)  BY <4>1, <1>2
      <4> QED BY <4>2, <3>1, <1>2, <1>4
    <3>3. ~takes /\ d = 0  BY <3>2, <1>3, <1>8
    <3> QED BY <3>1, <3>2, <3>3, <2>2, <2>4, <1>3, <1>7, <1>2
  <2>5. CASE R # Len(sent)
    <3> DEFINE k == R + 1
               first == sent[k].first
               length == sent[k].length
    <3>1. k \in 1 .. Len(sent) /\ NextUp = first + 1
      <4>1. k \in 1 .. Len(sent)  BY <2>2, <2>3, <2>5
      <4>2. sent[k].first \in Nat  BY <4>1, <1>1, SentFacts
      <4> QED BY <4>1, <4>2, <2>2, <2>5
    <3>2. /\ first \in Nat /\ length \in Nat /\ Last(k) = (first + 4) + length
          /\ Last(k) <= written /\ Whole(k) \in Seq(Byte) /\ Len(Whole(k)) = 4 + length
          /\ \A i \in 1 .. 4 + length : Whole(k)[i].at = first + i
      BY <3>1, <1>1, SentFacts
    <3>3. PICK a \in 1 .. Len(Pending) :
           /\ (a - 1) + (4 + length) <= Len(Pending)
           /\ \A i \in 1 .. 4 + length : Pending[(a - 1) + i] = Whole(k)[i]
           /\ Pending[a].at = first + 1
           /\ FrameAt(Pending, a - 1) /\ PayloadLength(Pending, a - 1) = length
      <4>1. Intact(k)  BY <2>1 DEF Intact
      <4>2. NextUp <= sent[k].first + 1  BY <3>1, <3>2
      <4> QED BY <4>1, <4>2, <3>1, <1>1, FrameAhead
    <3>4. a = 1
      <4>1. 1 \in 1 .. Len(Pending) /\ Len(Pending) # 0  BY <3>3
      <4>2. NextUp = Pending[1].at  BY <4>1, <1>1, NextUpFacts
      <4> QED BY <4>1, <4>2, <3>1, <3>3, <1>2
    <3>5. n = 0
      <4>1. SUFFICES ASSUME 0 < n PROVE FALSE  OBVIOUS
      <4>2. 0 \in 0 .. n - 1  BY <4>1
      <4>3. ~LooksLikeHeader(Pending, 0)  BY <4>2 DEF Consumes, Passed
      <4> QED BY <4>3, <3>3, <3>4 DEF FrameAt
    <3>6. CASE ~takes
      <4>1. d = 0 /\ received' = received /\ d # Len(Pending)  BY <3>3, <3>5, <3>6, <1>7
      <4>2. NextUp' = NextUp
        <5>1. NextUp' = Pending[1].at  BY <4>1, <1>3
        <5> QED BY <5>1, <3>1, <3>3, <3>4
      <4> QED BY <4>1, <4>2, <2>2
    <3>7. CASE takes
      <4> HIDE DEF first, length
      <4>1. d = 4 + length  BY <3>3, <3>4, <3>5, <3>7, <1>8
      <4>2. f = Whole(k)
        <5>1. Len(f) = Len(Whole(k)) /\ f \in Seq(Byte) /\ d - n = d
          BY <4>1, <3>2, <3>5, <3>7, <1>8
        <5>2. ASSUME NEW i \in 1 .. Len(f) PROVE f[i] = Whole(k)[i]
          <6>1. /\ i \in 1 .. d - n /\ i \in 1 .. 4 + length
                /\ n + i = i /\ (a - 1) + i = i
            BY <4>1, <5>1, <3>2, <3>4, <3>5
          <6>2. f[i] = Pending[i]  BY <6>1, <3>7, <1>8
          <6> QED BY <6>1, <6>2, <3>3
        <5> QED BY <5>1, <5>2, <3>2, SameSeq
      <4>3. Len(received') = k /\ \A j \in 1 .. k : received'[j] = Whole(j)
        <5>1. ASSUME NEW j \in 1 .. k PROVE received'[j] = Whole(j)
          <6>1. j \in 1 .. R \/ j = k  BY <2>3
          <6> QED BY <6>1, <4>2, <3>7, <2>2, <1>11
        <5> QED BY <5>1, <3>7, <1>11
      <4>4. Pending[d].at = Last(k) /\ d \in 1 .. Len(Pending)
        <5>1. 4 + length \in 1 .. 4 + length /\ (a - 1) + (4 + length) = d
          BY <4>1, <3>2, <3>4
        <5>2. Pending[d] = Whole(k)[4 + length]  BY <5>1, <3>3
        <5>3. Pending[d].at = first + (4 + length)  BY <5>1, <5>2, <3>2
        <5>4. d \in 1 .. Len(Pending)  BY <4>1, <3>2, <1>3
        <5> QED BY <5>3, <5>4, <3>2
      <4>5. NextUp' = 1 + Last(k)
        <5>1. CASE Last(k) = written
          <6>1. d = Len(Pending)
            <7>1. SUFFICES ASSUME d # Len(Pending) PROVE FALSE  OBVIOUS
            <7>2. d + 1 \in 1 .. Len(Pending) /\ d < d + 1  BY <7>1, <1>3
            <7>3. Pending[d].at < Pending[d + 1].at  BY <7>2, <4>4, <1>2
            <7> QED BY <7>2, <7>3, <4>4, <5>1, <1>2
          <6> QED BY <6>1, <5>1, <1>3, <1>2
        <5>2. CASE Last(k) # written
          <6> DEFINE b == Last(k) + 1
          <6>1. b \in 1 .. written /\ b \in Nat
            <7>1. Last(k) \in Nat  BY <3>2
            <7> QED BY <7>1, <5>2, <3>2, <1>2
          <6>2. b \notin lost /\ ~(b < NextUp)  BY <6>1, <2>1, <3>1, <3>2
          <6>3. PICK j \in 1 .. Len(Pending) : Pending[j].at = b
            BY <6>1, <6>2, <1>1, LineFacts
          <6>4. d < j
            <7>1. Pending[d].at < Pending[j].at  BY <6>3, <4>4, <3>2
            <7> QED BY <7>1, <6>3, <4>4, <1>2
          <6>5. d # Len(Pending) /\ d + 1 \in 1 .. Len(Pending) /\ d + 1 <= j
            BY <6>4, <1>3
          <6>6. NextUp' = Pending[d + 1].at  BY <6>5, <1>3
          <6>7. Pending[d].at < Pending[d + 1].at
            <7>1. d < d + 1  BY <4>4
            <7> QED BY <7>1, <6>5, <4>4, <1>2
          <6>8. Pending[d + 1].at <= b
            <7>1. d + 1 = j \/ d + 1 < j  BY <6>5, <6>3
            <7>2. d + 1 < j => Pending[d + 1].at < Pending[j].at  BY <6>5, <6>3, <1>2
            <7> QED BY <7>1, <7>2, <6>3, <6>1, <6>5, <1>2
          <6>9. Pending[d + 1].at \in Nat /\ Last(k) \in Nat  BY <6>5, <1>2, <3>2
          <6>10. Pending[d + 1].at = b  BY <6>7, <6>8, <6>9, <4>4
          <6> QED BY <6>6, <6>10, <3>2
        <5> QED BY <5>1, <5>2
      <4>6. Last(k) = IF k = Len(sent) THEN written ELSE sent[k + 1].first
        BY <3>1, <1>1 DEF SentInv
      <4>7. k <= Len(sent)  BY <3>1
      <4> QED BY <4>3, <4>5, <4>6, <4>7
    <3> QED BY <3>6, <3>7
  <2> QED BY <2>4, <2>5
<1> QED BY <1>13, <1>14, <1>15, <1>16, <1>17, <1>18, <1>19 DEF IInv
-----------------------------------------------------------------------------
(* THE INVARIANT IS KEPT BY THE SENDER AND THE LINE *)

(* What stays as it is when nothing is received and nothing is passed over *)
(* that has not been lost.                                                 *)
LEMMA FramesStay ==
  ASSUME TypeOK, FramesInv, received' = received, NextUp \in Nat, NextUp' \in Nat,
         NextUp <= NextUp'
  PROVE  FramesInv' /\ Frames' = Frames
<1>1. Frames' = Frames  BY DEF Frames
<1>2. ASSUME NEW g \in Frames
      PROVE  /\ LooksLikeHeader(g, 0) /\ Len(g) = 4 + PayloadLength(g, 0)
             /\ g[Len(g)].at < NextUp'
  <2>1. /\ LooksLikeHeader(g, 0) /\ Len(g) = 4 + PayloadLength(g, 0)
        /\ g[Len(g)].at < NextUp
    BY <1>2 DEF FramesInv
  <2>2. PICK j \in 1 .. Len(received) : g = received[j]  BY <1>2 DEF Frames
  <2>3. g \in Seq(Byte)  BY <2>2 DEF TypeOK
  <2>4. PayloadLength(g, 0) \in 1 .. MaxFramePayloadSize /\ MaxFramePayloadSize \in Nat
    BY <2>1, FramingAssumption DEF LooksLikeHeader
  <2>5. Len(g) \in 1 .. Len(g)  BY <2>4, <2>1
  <2>6. g[Len(g)].at \in Nat
    <3>1. g[Len(g)] \in Byte  BY <2>3, <2>5
    <3> QED BY <3>1, ByteFields
  <2> QED BY <2>1, <2>6
<1> QED BY <1>1, <1>2 DEF FramesInv

LEMMA LoseByteStep ==
  ASSUME IInv, LoseByte
  PROVE  IInv'
<1>1. /\ TypeOK /\ SentInv /\ BufferInv /\ LineInv /\ FramesInv /\ IntactFound /\ AlignedInv
  BY DEF IInv
<1>2. /\ line # <<>> /\ lost' = lost \cup {Head(line).at} /\ line' = Tail(line)
      /\ UNCHANGED <<sent, written, receiveBuf, receiveStart, received, room>>
  BY DEF LoseByte
<1>3. /\ Pending \in Seq(Byte) /\ Len(Pending) \in Nat /\ written \in Nat
      /\ \A i \in 1 .. Len(Pending) : Pending[i].at \in Nat /\ Pending[i].at \in 1 .. written
      /\ \A i, j \in 1 .. Len(Pending) : i < j => Pending[i].at < Pending[j].at
  BY <1>1, LineFacts
<1>4. /\ Rest \in Seq(Byte) /\ line \in Seq(Byte) /\ Pending = Rest \o line
      /\ Len(Pending) = Len(Rest) + Len(line)
  BY <1>1, PendingTyped
<1> DEFINE c == Len(Rest) + 1
<1>5. /\ Head(line) = line[1] /\ Len(line) >= 1 /\ line' \in Seq(Byte)
      /\ Len(line') = Len(line) - 1 /\ \A i \in 1 .. Len(line) - 1 : line'[i] = line[i + 1]
  BY <1>2, <1>4
<1>6. c \in 1 .. Len(Pending) /\ Pending[c] = Head(line)
  <2>1. c \in 1 .. Len(Pending) /\ c \in Len(Rest) + 1 .. Len(Rest) + Len(line)
          /\ c - Len(Rest) = 1
    BY <1>4, <1>5
  <2> QED BY <2>1, <1>4, <1>5, ConcatFacts
<1>7. /\ Pending' \in Seq(Byte) /\ Len(Pending') = Len(Pending) - 1
      /\ \A i \in 1 .. Len(Pending') :
           Pending'[i] = IF i < c THEN Pending[i] ELSE Pending[i + 1]
  <2>1. Pending' = Rest \o line'  BY <1>2 DEF Pending, Rest
  <2>2. Pending' \in Seq(Byte) /\ Len(Pending') = Len(Pending) - 1
    <3>1. Pending' \in Seq(Byte) /\ Len(Pending') = Len(Rest) + Len(line')
      BY <2>1, <1>4, <1>5, ConcatFacts
    <3>2. Len(Rest) \in Nat /\ Len(line) \in Nat  BY <1>4
    <3> QED BY <3>1, <3>2, <1>4, <1>5
  <2>3. ASSUME NEW i \in 1 .. Len(Pending')
        PROVE  Pending'[i] = IF i < c THEN Pending[i] ELSE Pending[i + 1]
    <3>1. CASE i < c
      <4>1. i \in 1 .. Len(Rest)  BY <3>1, <1>4
      <4>2. Pending'[i] = Rest[i]  BY <4>1, <2>1, <1>4, <1>5, ConcatFacts
      <4>3. Pending[i] = Rest[i]  BY <4>1, <1>4, ConcatFacts
      <4> QED BY <4>2, <4>3, <3>1
    <3>2. CASE ~(i < c)
      <4>1. /\ i \in Len(Rest) + 1 .. Len(Rest) + Len(line')
            /\ i + 1 \in Len(Rest) + 1 .. Len(Rest) + Len(line)
            /\ i - Len(Rest) \in 1 .. Len(line) - 1
            /\ (i + 1) - Len(Rest) = (i - Len(Rest)) + 1
        BY <3>2, <2>2, <1>4, <1>5
      <4>2. Pending'[i] = line'[i - Len(Rest)]  BY <4>1, <2>1, <1>4, <1>5, ConcatFacts
      <4>3. Pending[i + 1] = line[(i + 1) - Len(Rest)]  BY <4>1, <1>4, ConcatFacts
      <4> QED BY <4>1, <4>2, <4>3, <3>2, <1>5
    <3> QED BY <3>1, <3>2
  <2> QED BY <2>2, <2>3
<1> HIDE DEF c
<1>8. /\ NextUp \in Nat /\ NextUp \in 1 .. written + 1
      /\ \A i \in 1 .. Len(Pending) : NextUp <= Pending[i].at
      /\ Len(Pending) # 0 => NextUp = Pending[1].at
  BY <1>1, <1>3, NextUpFacts
<1>9. /\ Len(Pending') = 0 => NextUp' = written + 1
      /\ Len(Pending') # 0 => NextUp' = Pending'[1].at
  <2>1. NextUp' = IF Pending' = <<>> THEN written + 1 ELSE Head(Pending').at
    BY <1>2 DEF NextUp
  <2> QED BY <2>1, <1>7, HeadAt
<1>10. ASSUME NEW i \in 1 .. Len(Pending')
       PROVE  /\ i \in 1 .. Len(Pending) /\ i + 1 \in 1 .. Len(Pending)
              /\ i < c => Pending'[i] = Pending[i]
              /\ ~(i < c) => Pending'[i] = Pending[i + 1]
              /\ Pending'[i].at \in Nat /\ Pending'[i].at \in 1 .. written
  <2>1. i \in 1 .. Len(Pending) /\ i + 1 \in 1 .. Len(Pending)  BY <1>3, <1>7
  <2>2. Pending'[i] = IF i < c THEN Pending[i] ELSE Pending[i + 1]  BY <1>7
  <2> QED BY <2>1, <2>2, <1>3
<1>11. NextUp' \in Nat /\ NextUp' \in 1 .. written + 1 /\ NextUp <= NextUp'
  <2>1. CASE Len(Pending') = 0
    BY <2>1, <1>9, <1>8, <1>3
  <2>2. CASE Len(Pending') # 0
    <3>1. 1 \in 1 .. Len(Pending')  BY <2>2, <1>7
    <3>2. NextUp' = Pending'[1].at /\ Pending'[1].at \in Nat /\ Pending'[1].at \in 1 .. written
      BY <3>1, <2>2, <1>9, <1>10
    <3>3. NextUp <= Pending'[1].at
      <4>1. 1 \in 1 .. Len(Pending) /\ 1 + 1 \in 1 .. Len(Pending)  BY <3>1, <1>10
      <4>2. Pending'[1] = Pending[1] \/ Pending'[1] = Pending[1 + 1]  BY <3>1, <1>10
      <4> QED BY <4>1, <4>2, <1>8
    <3> QED BY <3>2, <3>3, <1>3
  <2> QED BY <2>1, <2>2
<1>12. Head(line).at \in 1 .. written /\ Head(line).at = Pending[c].at  BY <1>3, <1>6
<1>13. TypeOK'
  <2>1. lost' \subseteq 1 .. written'  BY <1>1, <1>2, <1>12 DEF TypeOK
  <2> QED BY <2>1, <1>1, <1>2, <1>5 DEF TypeOK
<1>14. \A k : Whole(k)' = Whole(k) /\ Last(k)' = Last(k) /\ (Intact(k)' => Intact(k))
  BY <1>2 DEF Whole, Last, Intact
<1>15. SentInv'  BY <1>1, <1>2, <1>14 DEF SentInv
<1>16. BufferInv'  BY <1>1, <1>2 DEF BufferInv
<1>17. LineInv'
  <2>1. ASSUME NEW i \in 1 .. Len(Pending'), NEW j \in 1 .. Len(Pending'), i < j
        PROVE  Pending'[i].at < Pending'[j].at
    <3>1. /\ i \in 1 .. Len(Pending) /\ i + 1 \in 1 .. Len(Pending)
          /\ j \in 1 .. Len(Pending) /\ j + 1 \in 1 .. Len(Pending)
      BY <1>10
    <3>2. Pending[i].at < Pending[j].at  BY <3>1, <2>1, <1>3
    <3>3. Pending[i].at < Pending[j + 1].at /\ Pending[i + 1].at < Pending[j + 1].at
      <4>1. i < j + 1 /\ i + 1 < j + 1  BY <2>1
      <4> QED BY <4>1, <3>1, <1>3
    <3>4. c \in Int  BY <1>6
    <3>5. ~(i < c) => ~(j < c)  BY <2>1, <3>4
    <3> QED BY <3>2, <3>3, <3>5, <1>10
  <2>2. ASSUME NEW i \in 1 .. Len(Pending')
        PROVE  /\ Pending'[i].at \in 1 .. written'
               /\ \A k \in 1 .. Len(sent') :
                    Pending'[i].at \in sent'[k].first + 1 .. Last(k)' =>
                      Pending'[i] = Whole(k)'[Pending'[i].at - sent'[k].first]
    <3>1. PICK j \in 1 .. Len(Pending) : Pending'[i] = Pending[j]  BY <1>10
    <3>2. /\ Pending[j].at \in 1 .. written
          /\ \A k \in 1 .. Len(sent) :
               Pending[j].at \in sent[k].first + 1 .. Last(k) =>
                 Pending[j] = Whole(k)[Pending[j].at - sent[k].first]
      BY <1>1 DEF LineInv
    <3> QED BY <3>1, <3>2, <1>2, <1>14
  <2>3. ASSUME NEW b \in 1 .. written'
        PROVE  b \in lost' \/ b < NextUp' \/ \E i \in 1 .. Len(Pending') : Pending'[i].at = b
    <3>1. b \in 1 .. written /\ b \in Nat  BY <1>2
    <3>2. b \in lost \/ b < NextUp \/ \E i \in 1 .. Len(Pending) : Pending[i].at = b
      BY <3>1, <1>1, LineFacts
    <3>3. CASE b < NextUp
      BY <3>1, <3>3, <1>8, <1>11
    <3>4. ASSUME NEW i \in 1 .. Len(Pending), Pending[i].at = b
          PROVE  b \in lost' \/ \E j \in 1 .. Len(Pending') : Pending'[j].at = b
      <4>0. c \in 1 .. Len(Pending)  BY <1>6
      <4>1. CASE i = c
        BY <4>1, <3>4, <1>2, <1>12
      <4>2. CASE i < c
        <5>1. i \in 1 .. Len(Pending')  BY <4>0, <4>2, <1>3, <1>7
        <5> QED BY <5>1, <4>2, <3>4, <1>10
      <4>3. CASE c < i
        <5>1. i - 1 \in 1 .. Len(Pending') /\ ~(i - 1 < c) /\ (i - 1) + 1 = i
          BY <4>0, <4>3, <1>3, <1>7
        <5>2. Pending'[i - 1].at = b  BY <5>1, <3>4, <1>10
        <5> QED BY <5>1, <5>2
      <4>4. i = c \/ i < c \/ c < i  BY <4>0
      <4> QED BY <4>1, <4>2, <4>3, <4>4
    <3> QED BY <3>2, <3>3, <3>4, <1>2
  <2> QED BY <2>1, <2>2, <2>3 DEF LineInv
<1>18. FramesInv' /\ Frames' = Frames  BY <1>1, <1>2, <1>8, <1>11, FramesStay
<1>19. IntactFound'
  <2> SUFFICES ASSUME NEW k \in 1 .. Len(sent'), Intact(k)', NextUp' > sent'[k].first + 1
               PROVE  Whole(k)' \in Frames' \/ Swallowed(k)'
    BY DEF IntactFound
  <2>1. k \in 1 .. Len(sent) /\ Intact(k) /\ NextUp' > sent[k].first + 1  BY <1>2, <1>14
  <2>2. CASE NextUp > sent[k].first + 1
    <3>1. Whole(k) \in Frames \/ Swallowed(k)  BY <2>1, <2>2, <1>1 DEF IntactFound
    <3>2. Swallowed(k) => Swallowed(k)'  BY <1>2, <1>18 DEF Swallowed
    <3> QED BY <3>1, <3>2, <1>14, <1>18
  <2>3. CASE ~(NextUp > sent[k].first + 1)
    <3> DEFINE b == sent[k].first + 1
    <3>1. sent[k].first \in Nat /\ b \in 1 .. written /\ b \in sent[k].first + 1 .. Last(k)
      <4>1. /\ sent[k].first \in Nat /\ sent[k].length \in Nat /\ Last(k) <= written
            /\ Last(k) = sent[k].first + 4 + sent[k].length
        BY <2>1, <1>1, SentFacts
      <4> DEFINE first == sent[k].first
                 length == sent[k].length
      <4>2. first \in Nat /\ length \in Nat /\ Last(k) <= written /\ Last(k) = (first + 4) + length
        BY <4>1
      <4> HIDE DEF first, length
      <4>3. first \in Nat /\ first + 1 \in 1 .. written /\ first + 1 \in first + 1 .. Last(k)
        BY <4>2, <1>3
      <4> QED BY <4>3 DEF first
    <3>2. b \notin lost'
      <4>1. b \in sent'[k].first + 1 .. Last(k)'  BY <3>1, <1>2, <1>14
      <4> QED BY <4>1 DEF Intact
    <3>3. b \notin lost /\ b # Pending[c].at  BY <3>2, <1>2, <1>12
    <3>4. ~(b < NextUp) /\ b < NextUp'  BY <2>1, <2>3, <3>1, <1>8, <1>11
    <3>5. PICK i \in 1 .. Len(Pending) : Pending[i].at = b
      BY <3>1, <3>3, <3>4, <1>1, LineFacts
    <3>6. \E j \in 1 .. Len(Pending') : Pending'[j].at = b
      <4>1. b \in lost' \/ b < NextUp' \/ \E j \in 1 .. Len(Pending') : Pending'[j].at = b
        BY <1>17, <1>2, <3>1 DEF LineInv
      <4>2. i # c /\ c \in 1 .. Len(Pending)  BY <3>3, <3>5, <1>6
      <4>3. CASE i < c
        <5>1. i \in 1 .. Len(Pending')  BY <4>2, <4>3, <1>3, <1>7
        <5> QED BY <5>1, <4>3, <3>5, <1>10
      <4>4. CASE c < i
        <5>1. i - 1 \in 1 .. Len(Pending') /\ ~(i - 1 < c) /\ (i - 1) + 1 = i
          BY <4>2, <4>4, <1>3, <1>7
        <5>2. Pending'[i - 1].at = b  BY <5>1, <3>5, <1>10
        <5> QED BY <5>1, <5>2
      <4> QED BY <4>2, <4>3, <4>4
    <3>7. PICK j \in 1 .. Len(Pending') : Pending'[j].at = b  BY <3>6
    <3>8. NextUp' <= Pending'[j].at
      <4>0. Len(Pending') \in Nat /\ j >= 1 /\ j <= Len(Pending')  BY <3>7, <1>7
      <4>1. 1 \in 1 .. Len(Pending') /\ Len(Pending') # 0  BY <4>0
      <4>2. j = 1 \/ 1 < j  OBVIOUS
      <4>3. 1 < j => Pending'[1].at < Pending'[j].at  BY <4>1, <1>17 DEF LineInv
      <4>4. Pending'[1].at \in Nat /\ Pending'[j].at \in Nat  BY <4>1, <1>10
      <4> QED BY <4>1, <4>2, <4>3, <4>4, <1>9
    <3> QED BY <3>4, <3>7, <3>8, <3>1, <1>11
  <2> QED BY <2>2, <2>3
<1>20. AlignedInv'
  <2>1. lost' # {}  BY <1>2
  <2> QED BY <2>1 DEF AlignedInv
<1> QED BY <1>13, <1>15, <1>16, <1>17, <1>18, <1>19, <1>20 DEF IInv

LEMMA SendStep ==
  ASSUME IInv, NEW length \in 1 .. MaxPayloadSize, NEW n, Send(length, n)
  PROVE  IInv'
<1> DEFINE frame == Encode(written, length)
           part == SubSeq(frame, 1, n)
           old == Len(Pending)
<1>0. PICK R \in Nat : R = Len(sent)
  <2>1. Len(sent) \in Nat  BY DEF IInv, TypeOK
  <2> QED BY <2>1
<1>1. /\ TypeOK /\ SentInv /\ BufferInv /\ LineInv /\ FramesInv /\ IntactFound /\ AlignedInv
  BY DEF IInv
<1>2. /\ n \in 1 .. Len(frame) /\ sent' = Append(sent, [first |-> written, length |-> length])
      /\ written' = written + Len(frame) /\ line' = line \o part
      /\ lost' = lost \cup {written + i : i \in n + 1 .. Len(frame)}
      /\ UNCHANGED <<receiveBuf, receiveStart, received, room>>
  BY DEF Send
<1>3. /\ Pending \in Seq(Byte) /\ old \in Nat /\ written \in Nat
      /\ \A i \in 1 .. old : Pending[i].at \in Nat /\ Pending[i].at \in 1 .. written
      /\ \A i, j \in 1 .. old : i < j => Pending[i].at < Pending[j].at
  BY <1>1, LineFacts
<1>4. /\ frame \in Seq(Byte) /\ Len(frame) = 4 + length /\ length \in Nat
      /\ \A i \in 1 .. 4 + length : frame[i].at = written + i
  <2> DEFINE w == written
  <2>1. w \in Nat /\ frame = Encode(w, length)  BY <1>3
  <2> HIDE DEF w, frame
  <2>2. /\ frame \in Seq(Byte) /\ Len(frame) = 4 + length
        /\ \A i \in 1 .. 4 + length : frame[i].at = w + i
    BY <2>1, EncodeFacts
  <2>3. length \in Nat  OBVIOUS
  <2> QED BY <2>2, <2>3 DEF w
<1> HIDE DEF frame
<1>5. n \in Nat /\ n \in 1 .. 4 + length /\ written' \in Nat /\ written' = written + (4 + length)
  BY <1>2, <1>3, <1>4
<1>6. part \in Seq(Byte) /\ Len(part) = n /\ \A i \in 1 .. n : part[i] = frame[i]
  <2>1. 0 \in Nat /\ 0 <= n /\ 0 + 1 = 1 /\ n - 0 = n /\ \A i \in 1 .. n : 0 + i = i  BY <1>5
  <2>2. n \in 0 .. Len(frame)  BY <1>2, <1>5
  <2> QED BY <2>1, <2>2, <1>4, SubSeqFacts
<1> HIDE DEF part
<1>7. /\ Pending' \in Seq(Byte) /\ Len(Pending') = old + n
      /\ \A i \in 1 .. old : Pending'[i] = Pending[i]
      /\ \A i \in old + 1 .. old + n : Pending'[i] = frame[i - old]
      /\ line' \in Seq(Byte)
  <2>1. /\ Rest \in Seq(Byte) /\ line \in Seq(Byte) /\ Pending = Rest \o line
    BY <1>1, PendingTyped
  <2>2. Pending' = Rest \o (line \o part)  BY <1>2 DEF Pending, Rest
  <2>3. Pending' = Pending \o part  BY <2>1, <2>2, <1>6, ConcatTwice
  <2>4. line' \in Seq(Byte)  BY <2>1, <1>2, <1>6, ConcatFacts
  <2>5. /\ Pending' \in Seq(Byte) /\ Len(Pending') = old + n
        /\ \A i \in 1 .. old : Pending'[i] = Pending[i]
        /\ \A i \in old + 1 .. old + n : Pending'[i] = part[i - old]
    BY <2>3, <1>3, <1>6, ConcatFacts
  <2>6. ASSUME NEW i \in old + 1 .. old + n PROVE Pending'[i] = frame[i - old]
    <3>1. i - old \in 1 .. n  BY <1>3, <1>5
    <3> QED BY <3>1, <2>5, <1>6
  <2> QED BY <2>4, <2>5, <2>6
<1> HIDE DEF old
<1>8. ASSUME NEW i \in 1 .. Len(Pending')
      PROVE  \/ i \in 1 .. old /\ Pending'[i] = Pending[i]
             \/ /\ i \in old + 1 .. old + n /\ i - old \in 1 .. n /\ i - old \in 1 .. 4 + length
                /\ Pending'[i] = frame[i - old] /\ Pending'[i].at = written + (i - old)
  <2>1. i \in 1 .. old \/ i \in old + 1 .. old + n  BY <1>3, <1>5, <1>7
  <2>2. CASE i \in 1 .. old
    BY <2>2, <1>7
  <2>3. CASE i \in old + 1 .. old + n
    <3>1. i - old \in 1 .. n /\ i - old \in 1 .. 4 + length  BY <2>3, <1>3, <1>5
    <3> QED BY <2>3, <3>1, <1>4, <1>7
  <2> QED BY <2>1, <2>2, <2>3
<1>9. NextUp' = NextUp /\ NextUp \in Nat /\ NextUp \in 1 .. written + 1
  <2>1. NextUp' = IF Pending' = <<>> THEN written' + 1 ELSE Head(Pending').at
    BY DEF NextUp
  <2>2. Len(Pending') # 0 /\ 1 \in 1 .. Len(Pending')  BY <1>3, <1>5, <1>7
  <2>3. NextUp' = Pending'[1].at
    <3> DEFINE w == written'
               v == NextUp'
               s == Pending'
    <3>1. s \in Seq(Byte) /\ v = IF s = <<>> THEN w + 1 ELSE Head(s).at  BY <2>1, <1>7
    <3> HIDE DEF w, v, s
    <3>2. Len(s) # 0 => v = s[1].at  BY <3>1, HeadAt
    <3> QED BY <3>2, <2>2 DEF v, s
  <2>4. /\ NextUp \in 1 .. written + 1
        /\ old = 0 => NextUp = written + 1
        /\ old # 0 => NextUp = Pending[1].at
    BY <1>1, NextUpFacts DEF old
  <2>5. CASE old = 0
    <3>1. Pending'[1].at = written + 1  BY <2>2, <2>5, <1>8, <1>3, <1>5
    <3> QED BY <3>1, <2>3, <2>4, <2>5, <1>3
  <2>6. CASE old # 0
    <3>1. 1 \in 1 .. old  BY <2>6, <1>3
    <3>2. Pending'[1] = Pending[1]  BY <3>1, <1>7
    <3> QED BY <3>2, <2>3, <2>4, <2>6, <1>3
  <2> QED BY <2>5, <2>6
<1>10. /\ R \in Nat /\ Len(sent') = R + 1 /\ \A k \in 1 .. R : sent'[k] = sent[k]
       /\ sent'[R + 1] = [first |-> written, length |-> length]
       /\ sent' \in Seq([first : Nat, length : 1 .. MaxPayloadSize])
  <2> DEFINE entry == [first : Nat, length : 1 .. MaxPayloadSize]
             new == [first |-> written, length |-> length]
  <2>1. sent \in Seq(entry) /\ R = Len(sent)  BY <1>0, <1>1 DEF TypeOK
  <2>2. new \in entry  BY <1>3
  <2>3. sent' = Append(sent, new)  BY <1>2
  <2> HIDE DEF entry, new
  <2>4. /\ R \in Nat /\ Len(sent') = R + 1 /\ \A k \in 1 .. R : sent'[k] = sent[k]
        /\ sent'[R + 1] = new /\ sent' \in Seq(entry)
    BY <2>1, <2>2, <2>3
  <2> QED BY <2>4 DEF new, entry
<1>11. sent'[R + 1].first = written /\ sent'[R + 1].length = length  BY <1>10
<1>12. ASSUME NEW k \in 1 .. R
       PROVE  /\ k \in 1 .. Len(sent') /\ k \in 1 .. Len(sent) /\ sent'[k].first = sent[k].first
              /\ Whole(k)' = Whole(k) /\ Last(k)' = Last(k) /\ Last(k) <= written
              /\ Last(k) \in Nat /\ (Intact(k)' => Intact(k)) /\ sent[k].first \in Nat
  <2>1. k \in 1 .. Len(sent') /\ k \in 1 .. Len(sent) /\ sent'[k] = sent[k]  BY <1>0, <1>10
  <2>2. Whole(k)' = Whole(k) /\ Last(k)' = Last(k)  BY <2>1 DEF Whole, Last
  <2>3. Last(k) <= written /\ Last(k) \in Nat /\ sent[k].first \in Nat
    <3>1. /\ sent[k].first \in Nat /\ sent[k].length \in Nat /\ Last(k) <= written
          /\ Last(k) = sent[k].first + 4 + sent[k].length
      BY <2>1, <1>1, SentFacts
    <3> QED BY <3>1
  <2>4. Intact(k)' => Intact(k)
    <3>1. Intact(k)' = (\A b \in sent'[k].first + 1 .. Last(k)' : b \notin lost')  BY DEF Intact
    <3>2. Intact(k) = (\A b \in sent[k].first + 1 .. Last(k) : b \notin lost)  BY DEF Intact
    <3> QED BY <3>1, <3>2, <2>1, <2>2, <1>2
  <2> QED BY <2>1, <2>2, <2>3, <2>4
<1>13. Last(R + 1)' = written' /\ Whole(R + 1)' = frame
  <2>1. Last(R + 1)' = (written + 4) + length  BY <1>11 DEF Last
  <2>2. Whole(R + 1)' = Encode(written, length)  BY <1>11 DEF Whole
  <2> QED BY <2>1, <2>2, <1>3, <1>4, <1>5 DEF frame
<1>14. ASSUME NEW k \in 1 .. Len(sent') PROVE k \in 1 .. R \/ k = R + 1
  BY <1>0, <1>10
<1>15. TypeOK'
  <2>1. lost' \subseteq 1 .. written'
    <3>1. lost \subseteq 1 .. written  BY <1>1 DEF TypeOK
    <3>2. 1 .. written \subseteq 1 .. written'  BY <1>3, <1>4, <1>5
    <3>3. \A i \in n + 1 .. Len(frame) : written + i \in 1 .. written'  BY <1>3, <1>4, <1>5
    <3> QED BY <3>1, <3>2, <3>3, <1>2
  <2> QED BY <2>1, <1>1, <1>2, <1>5, <1>7, <1>10 DEF TypeOK
<1>16. SentInv'
  <2> SUFFICES ASSUME NEW k \in 1 .. Len(sent')
               PROVE  /\ Last(k)' = IF k = Len(sent') THEN written' ELSE sent'[k + 1].first
                      /\ Last(k)' <= written'
    BY DEF SentInv
  <2>1. CASE k = R + 1
    <3>1. k = Len(sent')  BY <1>0, <2>1, <1>10
    <3> QED BY <2>1, <3>1, <1>13, <1>5
  <2>2. CASE k \in 1 .. R
    <3>1. Last(k)' = Last(k) /\ Last(k) <= written /\ Last(k) \in Nat  BY <2>2, <1>12
    <3>2. Last(k) = IF k = R THEN written ELSE sent[k + 1].first
      BY <1>0, <2>2, <1>1, <1>12 DEF SentInv
    <3>3. k # Len(sent') /\ R \in Nat  BY <1>0, <2>2, <1>10
    <3>4. CASE k = R
      BY <3>1, <3>2, <3>3, <3>4, <1>3, <1>5, <1>11
    <3>5. CASE k # R
      <4>1. k + 1 \in 1 .. R  BY <2>2, <3>3, <3>5
      <4>2. sent'[k + 1] = sent[k + 1]  BY <1>0, <4>1, <1>10
      <4> QED BY <4>2, <3>1, <3>2, <3>3, <3>5, <1>3, <1>5
    <3> QED BY <3>4, <3>5
  <2> QED BY <2>1, <2>2, <1>14
<1>17. BufferInv'  BY <1>1, <1>2 DEF BufferInv
<1>18. LineInv'
  <2>1. ASSUME NEW i \in 1 .. Len(Pending'), NEW j \in 1 .. Len(Pending'), i < j
        PROVE  Pending'[i].at < Pending'[j].at
    <3>1. CASE j \in 1 .. old
      <4>1. i \in 1 .. old  BY <2>1, <3>1, <1>3
      <4> QED BY <2>1, <3>1, <4>1, <1>3, <1>7 DEF old
    <3>2. CASE j \notin 1 .. old
      <4>1. /\ j - old \in 1 .. n /\ Pending'[j].at = written + (j - old)
        BY <3>2, <1>8
      <4>2. CASE i \in 1 .. old
        <5>1. Pending'[i].at \in Nat /\ Pending'[i].at <= written
          BY <4>2, <1>3, <1>7 DEF old
        <5> QED BY <4>1, <5>1, <1>3
      <4>3. CASE i \notin 1 .. old
        <5>1. i - old \in 1 .. n /\ Pending'[i].at = written + (i - old)  BY <4>3, <1>8
        <5> QED BY <4>1, <5>1, <2>1, <1>3
      <4> QED BY <4>2, <4>3
    <3> QED BY <3>1, <3>2
  <2>2. ASSUME NEW i \in 1 .. Len(Pending')
        PROVE  /\ Pending'[i].at \in 1 .. written'
               /\ \A k \in 1 .. Len(sent') :
                    Pending'[i].at \in sent'[k].first + 1 .. Last(k)' =>
                      Pending'[i] = Whole(k)'[Pending'[i].at - sent'[k].first]
    <3>1. CASE i \in 1 .. old
      <4>1. Pending'[i] = Pending[i] /\ Pending[i].at \in 1 .. written  BY <3>1, <1>3, <1>7 DEF old
      <4>2. ASSUME NEW k \in 1 .. Len(sent'),
                   Pending'[i].at \in sent'[k].first + 1 .. Last(k)'
            PROVE  Pending'[i] = Whole(k)'[Pending'[i].at - sent'[k].first]
        <5>1. CASE k = R + 1
          BY <4>1, <4>2, <5>1, <1>3, <1>5, <1>11, <1>13
        <5>2. CASE k \in 1 .. R
          <6>1. Pending[i].at \in sent[k].first + 1 .. Last(k)  BY <4>1, <4>2, <5>2, <1>12
          <6>2. Pending[i] = Whole(k)[Pending[i].at - sent[k].first]
            BY <6>1, <5>2, <3>1, <1>1, <1>12 DEF LineInv, old
          <6> QED BY <6>2, <4>1, <5>2, <1>12
        <5> QED BY <5>1, <5>2, <1>14
      <4>3. Pending'[i].at \in 1 .. written'  BY <4>1, <1>3, <1>5
      <4> QED BY <4>2, <4>3
    <3>2. CASE i \notin 1 .. old
      <4>1. /\ i - old \in 1 .. n /\ i - old \in 1 .. 4 + length
            /\ Pending'[i] = frame[i - old] /\ Pending'[i].at = written + (i - old)
        BY <3>2, <1>8
      <4>2. ASSUME NEW k \in 1 .. Len(sent'),
                   Pending'[i].at \in sent'[k].first + 1 .. Last(k)'
            PROVE  Pending'[i] = Whole(k)'[Pending'[i].at - sent'[k].first]
        <5>1. CASE k = R + 1
          <6>1. (written + (i - old)) - written = i - old  BY <4>1, <1>3
          <6> QED BY <4>1, <5>1, <6>1, <1>11, <1>13
        <5>2. CASE k \in 1 .. R
          <6>1. Last(k)' <= written /\ Last(k)' \in Nat  BY <5>2, <1>12
          <6>2. Pending'[i].at <= Last(k)'
            <7>1. sent'[k].first \in Nat  BY <5>2, <1>12
            <7> QED BY <7>1, <4>1, <4>2, <6>1, <1>3
          <6> QED BY <4>1, <6>1, <6>2, <1>3
        <5> QED BY <5>1, <5>2, <1>14
      <4>3. Pending'[i].at \in 1 .. written'  BY <4>1, <1>3, <1>5
      <4> QED BY <4>2, <4>3
    <3> QED BY <3>1, <3>2
  <2>3. ASSUME NEW b \in 1 .. written'
        PROVE  b \in lost' \/ b < NextUp' \/ \E i \in 1 .. Len(Pending') : Pending'[i].at = b
    <3>1. CASE b <= written
      <4>1. b \in 1 .. written  BY <3>1, <1>3, <1>5
      <4>2. b \in lost \/ b < NextUp \/ \E i \in 1 .. old : Pending[i].at = b
        BY <4>1, <1>1, LineFacts DEF old
      <4>3. ASSUME NEW i \in 1 .. old, Pending[i].at = b
            PROVE  \E j \in 1 .. Len(Pending') : Pending'[j].at = b
        <5>1. i \in 1 .. Len(Pending')  BY <1>3, <1>5, <1>7
        <5> QED BY <5>1, <4>3, <1>7
      <4> QED BY <4>2, <4>3, <1>2, <1>9
    <3>2. CASE ~(b <= written)
      <4> DEFINE j == b - written
      <4>1. j \in 1 .. 4 + length /\ written + j = b  BY <3>2, <1>3, <1>5
      <4> HIDE DEF j
      <4>2. CASE j <= n
        <5>1. /\ old + j \in 1 .. Len(Pending') /\ old + j \in old + 1 .. old + n
              /\ (old + j) - old = j
          BY <4>1, <4>2, <1>3, <1>5, <1>7
        <5>2. Pending'[old + j].at = b  BY <5>1, <4>1, <1>4, <1>7
        <5> QED BY <5>1, <5>2
      <4>3. CASE ~(j <= n)
        <5>1. j \in n + 1 .. Len(frame)  BY <4>1, <4>3, <1>4, <1>5
        <5> QED BY <5>1, <4>1, <1>2
      <4> QED BY <4>2, <4>3
    <3> QED BY <3>1, <3>2
  <2> QED BY <2>1, <2>2, <2>3 DEF LineInv
<1>19. FramesInv' /\ Frames' = Frames  BY <1>1, <1>2, <1>9, FramesStay
<1>20. IntactFound'
  <2> SUFFICES ASSUME NEW k \in 1 .. Len(sent'), Intact(k)', NextUp' > sent'[k].first + 1
               PROVE  Whole(k)' \in Frames' \/ Swallowed(k)'
    BY DEF IntactFound
  <2>1. CASE k = R + 1
    BY <2>1, <1>3, <1>9, <1>11
  <2>2. CASE k \in 1 .. R
    <3>1. k \in 1 .. Len(sent) /\ Intact(k) /\ NextUp > sent[k].first + 1
      BY <2>2, <1>9, <1>12
    <3>2. Whole(k) \in Frames \/ Swallowed(k)  BY <3>1, <1>1 DEF IntactFound
    <3>3. Swallowed(k) => Swallowed(k)'
      <4>1. sent'[k].first = sent[k].first  BY <2>2, <1>12
      <4> QED BY <4>1, <1>19 DEF Swallowed
    <3> QED BY <3>2, <3>3, <2>2, <1>12, <1>19
  <2> QED BY <2>1, <2>2, <1>14
<1>21. AlignedInv'
  <2> SUFFICES ASSUME lost' = {}
               PROVE  /\ Len(received) <= Len(sent')
                      /\ \A k \in 1 .. Len(received) : received[k] = Whole(k)'
                      /\ NextUp' = 1 + IF Len(received) = Len(sent') THEN written'
                                       ELSE sent'[Len(received) + 1].first
    BY <1>2 DEF AlignedInv
  <2>1. /\ Len(received) <= R /\ \A k \in 1 .. Len(received) : received[k] = Whole(k)
        /\ NextUp = 1 + IF Len(received) = R THEN written ELSE sent[Len(received) + 1].first
    BY <1>0, <1>1, <1>2 DEF AlignedInv
  <2>2. Len(received) \in Nat /\ R \in Nat /\ Len(sent') = R + 1
    BY <1>0, <1>1, <1>10 DEF TypeOK
  <2>3. Len(received) <= Len(sent') /\ Len(received) # Len(sent')  BY <2>1, <2>2
  <2>4. \A k \in 1 .. Len(received) : k \in 1 .. R  BY <2>1, <2>2
  <2>5. NextUp = 1 + sent'[Len(received) + 1].first
    <3>1. CASE Len(received) = R
      BY <2>1, <3>1, <1>11
    <3>2. CASE Len(received) # R
      <4>1. Len(received) + 1 \in 1 .. R  BY <2>1, <2>2, <3>2
      <4>2. sent'[Len(received) + 1] = sent[Len(received) + 1]  BY <1>0, <4>1, <1>10
      <4> QED BY <4>2, <2>1, <3>2
    <3> QED BY <3>1, <3>2
  <2>6. \A k \in 1 .. Len(received) : received[k] = Whole(k)'  BY <2>1, <2>4, <1>12
  <2> QED BY <2>3, <2>5, <2>6, <1>9
<1> QED BY <1>15, <1>16, <1>17, <1>18, <1>19, <1>20, <1>21 DEF IInv
-----------------------------------------------------------------------------
(* THE THEOREMS *)

LEMMA InitIInv ==
  ASSUME Init
  PROVE  IInv
<1>1. /\ sent = <<>> /\ written = 0 /\ line = <<>> /\ lost = {} /\ receiveBuf = <<>>
      /\ receiveStart = 0 /\ received = <<>> /\ room = MaxFrameSize
  BY DEF Init
<1>2. /\ MaxFrameSize \in Nat /\ MaxFrameSize > 0 /\ Len(<<>>) = 0
      /\ Len(sent) = 0 /\ Len(received) = 0 /\ Len(receiveBuf) = 0
  BY <1>1, FramingAssumption DEF MaxFrameSize
<1>3. TypeOK
  <2>1. /\ <<>> \in Seq([first : Nat, length : 1 .. MaxPayloadSize])
        /\ <<>> \in Seq(Byte) /\ <<>> \in Seq(Seq(Byte))
    OBVIOUS
  <2> QED BY <2>1, <1>1, <1>2 DEF TypeOK
<1>4. Pending \in Seq(Byte) /\ Len(Pending) = 0 /\ Pending = <<>>
  <2>1. Rest \in Seq(Byte) /\ Len(Rest) = 0 /\ Pending \in Seq(Byte)
          /\ Len(Pending) = Len(Rest) + Len(line)
    <3>1. receiveBuf \in Seq(Byte) /\ receiveStart \in 0 .. Len(receiveBuf)
      BY <1>3 DEF TypeOK
    <3>2. Len(Rest) = Len(receiveBuf) - receiveStart  BY <3>1, CompactFacts DEF Rest
    <3> QED BY <3>2, <1>1, <1>2, <1>3, PendingTyped
  <2>2. Len(Pending) = 0  BY <2>1, <1>1, <1>2
  <2> QED BY <2>1, <2>2, EmptySeq
<1>5. NextUp = 1  BY <1>1, <1>4 DEF NextUp
<1>6. Frames = {}  BY <1>2 DEF Frames
<1>7. SentInv /\ BufferInv /\ FramesInv /\ IntactFound
  BY <1>1, <1>2, <1>6 DEF SentInv, BufferInv, FramesInv, IntactFound
<1>8. LineInv  BY <1>1, <1>2, <1>4 DEF LineInv
<1>9. AlignedInv  BY <1>1, <1>2, <1>5 DEF AlignedInv
<1> QED BY <1>3, <1>7, <1>8, <1>9 DEF IInv

LEMMA StutterIInv ==
  ASSUME IInv, UNCHANGED vars
  PROVE  IInv'
<1>1. /\ sent' = sent /\ written' = written /\ line' = line /\ lost' = lost
      /\ receiveBuf' = receiveBuf /\ receiveStart' = receiveStart
      /\ received' = received /\ room' = room
  BY DEF vars
<1>2. Pending' = Pending /\ NextUp' = NextUp /\ Frames' = Frames
  BY <1>1 DEF Pending, NextUp, Frames
<1>3. \A k : Whole(k)' = Whole(k) /\ Last(k)' = Last(k) /\ (Intact(k)' <=> Intact(k))
               /\ (Swallowed(k)' <=> Swallowed(k))
  BY <1>1, <1>2 DEF Whole, Last, Intact, Swallowed
<1>4. TypeOK'  BY <1>1 DEF IInv, TypeOK
<1>5. SentInv' /\ BufferInv'  BY <1>1, <1>3 DEF IInv, SentInv, BufferInv
<1>6. LineInv'  BY <1>1, <1>2, <1>3 DEF IInv, LineInv
<1>7. FramesInv'  BY <1>2 DEF IInv, FramesInv
<1>8. IntactFound'  BY <1>1, <1>2, <1>3 DEF IInv, IntactFound
<1>9. AlignedInv'  BY <1>1, <1>2, <1>3 DEF IInv, AlignedInv
<1> QED BY <1>4, <1>5, <1>6, <1>7, <1>8, <1>9 DEF IInv

LEMMA NextIInv ==
  ASSUME IInv, Next
  PROVE  IInv'
<1>1. TypeOK /\ BufferInv  BY DEF IInv
<1>2. CASE \E length \in 1 .. MaxPayloadSize, n \in 1 .. MaxFrameSize : Send(length, n)
  BY <1>2, SendStep
<1>3. CASE LoseByte
  BY <1>3, LoseByteStep
<1>4. CASE ReceiveBuffered
  <2>1. ReceiverKeeps /\ \E n \in 0 .. Len(Pending) : Consumes(n)
    BY <1>1, <1>4, BufferedConsumes
  <2> QED BY <2>1, ReceiverStep
<1>5. ASSUME NEW k \in 0 .. MaxFrameSize, NEW error \in BOOLEAN, ReceiveReads(k, error)
      PROVE  IInv'
  <2>1. ReceiverKeeps /\ \E n \in 0 .. Len(Pending) : Consumes(n)
    BY <1>1, <1>5, ReadsConsumes
  <2> QED BY <2>1, ReceiverStep
<1> QED BY <1>2, <1>3, <1>4, <1>5 DEF Next

(* Bytes are looked at once and in order, frames are cut where they were   *)
(* put together, and the buffer keeps space: the invariant holds in every  *)
(* state, for all values of the constants that FramingAssumption allows    *)
(* (codec.go's EncodeMessage; SX1262/main.go's Receive and nextFrame).     *)
THEOREM Invariance == Spec => []IInv
<1>1. Init => IInv  BY InitIInv
<1>2. IInv /\ [Next]_vars => IInv'  BY NextIInv, StutterIInv
<1> QED BY <1>1, <1>2, PTL DEF Spec

(* With no byte lost the frames come out as they went in, however the      *)
(* reads cut the stream (SX1262/main.go:147-165).                          *)
THEOREM Ordered == Spec => []InOrder
<1>1. IInv => InOrder  BY DEF IInv, AlignedInv, InOrder
<1> QED BY <1>1, Invariance, PTL

(* The search passes over no frame that arrives in one piece               *)
(* (SX1262/main.go:167-193).                                               *)
THEOREM NoneMissed == Spec => []IntactFound
<1>1. IInv => IntactFound  BY DEF IInv
<1> QED BY <1>1, Invariance, PTL

(* A read is never called without space for it (SX1262/main.go:153).       *)
THEOREM Room == Spec => []RoomToRead
<1>1. IInv => RoomToRead  BY DEF IInv, BufferInv, RoomToRead
<1> QED BY <1>1, Invariance, PTL

(* When all has been read and nextFrame finds nothing more, every frame    *)
(* has been returned (SX1262/main.go:167-193).                             *)
THEOREM AllReturned == Spec => []NothingStuck
<1>1. ASSUME IInv PROVE NothingStuck
  <2>1. /\ TypeOK /\ SentInv /\ LineInv /\ AlignedInv  BY <1>1 DEF IInv
  <2> DEFINE next == NextFrame(receiveBuf, receiveStart)
             k == Len(received) + 1
  <2>2. SUFFICES ASSUME lost = {}, line = <<>>, next.frame = <<>>, Len(received) # Len(sent)
                 PROVE  FALSE
    BY DEF NothingStuck
  <2>3. /\ Len(received) <= Len(sent) /\ NextUp = 1 + sent[k].first
    BY <2>1, <2>2 DEF AlignedInv
  <2>4. k \in 1 .. Len(sent)
    <3>1. Len(received) \in Nat /\ Len(sent) \in Nat  BY <2>1 DEF TypeOK
    <3> QED BY <3>1, <2>2, <2>3
  <2>5. sent[k].first \in Nat /\ sent[k].length \in Nat  BY <2>1, <2>4, SentFacts
  <2>6. PICK a \in 1 .. Len(Pending) :
           Pending[a].at = sent[k].first + 1 /\ FrameAt(Pending, a - 1)
    <3>1. Intact(k)  BY <2>2 DEF Intact
    <3>2. NextUp <= sent[k].first + 1  BY <2>3, <2>5
    <3> HIDE DEF k
    <3> QED BY <3>1, <3>2, <2>1, <2>4, FrameAhead
  <2>7. a = 1
    <3>1. 1 \in 1 .. Len(Pending) /\ Len(Pending) # 0  BY <2>6
    <3>2. NextUp = Pending[1].at  BY <3>1, <2>1, NextUpFacts
    <3>3. \A i, j \in 1 .. Len(Pending) : Pending[i].at = Pending[j].at => i = j
      BY <2>1, LineFacts
    <3>4. Pending[a].at = Pending[1].at  BY <3>2, <2>3, <2>5, <2>6
    <3> QED BY <3>1, <3>3, <3>4
  <2>8. Rest \in Seq(Byte) /\ Pending = Rest
    <3>1. Rest \in Seq(Byte) /\ Pending = Rest \o line  BY <2>1, PendingTyped
    <3>2. Rest \o <<>> = Rest  BY <3>1
    <3> QED BY <3>1, <3>2, <2>2
  <2>9. FrameAt(Rest, 0)  BY <2>6, <2>7, <2>8
  <2>10. PICK n \in 0 .. Len(Rest) : Found(Rest, next, n)
    <3>1. receiveBuf \in Seq(Byte) /\ receiveStart \in 0 .. Len(receiveBuf)
      BY <2>1 DEF TypeOK
    <3>2. Rest = Compact(receiveBuf, receiveStart)  BY DEF Rest
    <3> QED BY <3>1, <3>2, NextFrameDoes
  <2> HIDE DEF next
  <2>11. Passed(Rest, n) /\ ~FrameAt(Rest, n)  BY <2>2, <2>10 DEF Found
  <2>12. n # 0  BY <2>9, <2>11
  <2>13. 0 \in 0 .. n - 1  BY <2>12
  <2>14. ~LooksLikeHeader(Rest, 0)  BY <2>11, <2>13 DEF Passed
  <2> QED BY <2>9, <2>14 DEF FrameAt
<1> QED BY <1>1, Invariance, PTL
=============================================================================
