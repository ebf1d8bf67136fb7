--------------------------- MODULE ParsingProofs ---------------------------
(***************************************************************************)
(* Proofs about what reads input piece by piece: read_packet, which takes  *)
(* packets off a byte stream (FrameReader), for any lengths the field can  *)
(* hold, any number of packets and any base of the length field; and       *)
(* topic_matches, which takes levels off a name and a filter (TopicMatch), *)
(* of any length and any characters.                                       *)
(***************************************************************************)
EXTENDS FrameReader, TopicMatch, VectorProofs


-----------------------------------------------------------------------------
(* The length field. *)

(* Multiplying keeps the order (multiplier in io.rs).                      *)
LEMMA TimesOrder ==
    ASSUME NEW a \in Nat, NEW x \in Nat, NEW y \in Nat, x <= y
    PROVE  a * x <= a * y
<1>1. PICK d \in Nat : y = x + d
  <2>1. y - x \in Nat /\ y = x + (y - x)
    OBVIOUS
  <2> QED BY <2>1
<1>2. a * y = a * x + a * d
  BY <1>1
<1>3. a * d \in Nat /\ a * x \in Nat
  OBVIOUS
<1> QED BY <1>2, <1>3

(* One digit is taken off, and there are fewer to come (utils.rs).         *)
LEMMA DigitOff ==
    ASSUME NEW n \in Nat
    PROVE  /\ n \div BASE \in Nat /\ n % BASE \in Nat /\ n % BASE < BASE
           /\ n = BASE * (n \div BASE) + (n % BASE)
           /\ n < BASE => n % BASE = n
           /\ \A m \in Nat : n < BASE * m => n \div BASE < m
<1> USE FrameAssumption
<1>1. BASE \in Nat /\ BASE > 0
  OBVIOUS
<1>2. /\ n \div BASE \in Nat /\ n % BASE \in Nat /\ n % BASE < BASE
      /\ n = BASE * (n \div BASE) + (n % BASE)
  BY <1>1
<1>3. PICK q, r \in Nat : q = n \div BASE /\ r = n % BASE
  BY <1>2
<1>4. ASSUME NEW m \in Nat, n < BASE * m, m <= q PROVE FALSE
  <2>1. BASE * m <= BASE * q
    BY <1>1, <1>2, <1>3, <1>4, TimesOrder
  <2>2. BASE * m \in Nat /\ BASE * q \in Nat
    BY <1>1, <1>2, <1>3
  <2> QED BY <1>2, <1>3, <1>4, <2>1, <2>2
<1>5. n < BASE => n % BASE = n
  BY <1>1
<1> QED BY <1>2, <1>3, <1>4, <1>5

(* The top bit does not change the digit (io.rs, byte & 0x7F).             *)
LEMMA TopBit ==
    ASSUME NEW r \in Nat, r < BASE
    PROVE  r % BASE = r /\ (r + BASE) % BASE = r
<1> USE FrameAssumption
<1>1. BASE \in Nat /\ BASE > 0
  OBVIOUS
<1>2. PICK m, q : m = (r + BASE) % BASE /\ q = (r + BASE) \div BASE
  OBVIOUS
<1>3. m \in Nat /\ q \in Nat /\ m < BASE /\ r + BASE = BASE * q + m
  BY <1>1, <1>2, DigitOff
<1>4. q = 1
  <2>1. ASSUME q = 0 PROVE FALSE
    <3>1. BASE * q = 0
      BY <1>1, <2>1
    <3> QED BY <1>1, <1>3, <3>1
  <2>2. ASSUME q >= 2 PROVE FALSE
    <3>1. BASE * 2 <= BASE * q
      BY <1>1, <1>3, <2>2, TimesOrder
    <3>2. BASE * q \in Nat /\ BASE * 2 = BASE + BASE
      BY <1>1, <1>3
    <3> QED BY <1>1, <1>3, <3>1, <3>2
  <2> QED BY <1>3, <2>1, <2>2
<1>5. BASE * q = BASE
  BY <1>1, <1>4
<1>6. m = r
  BY <1>1, <1>3, <1>5
<1> QED BY <1>1, <1>2, <1>6, DigitOff

(* The value of four digits (io.rs, value += digit * multiplier). *)
Value(a, b, c, d) == a + b * BASE + c * (BASE * BASE) + d * (BASE * BASE * BASE)

(* Taking the lowest digit off.                                            *)
LEMMA ValueOfDigits ==
    ASSUME NEW a \in Nat, NEW b \in Nat, NEW c \in Nat, NEW d \in Nat
    PROVE  /\ Value(a, b, c, d) \in Nat
           /\ Value(a, b, c, d) = BASE * Value(b, c, d, 0) + a
           /\ Value(a, 0, 0, 0) = a
<1>1. BASE \in Nat
  BY FrameAssumption
<1> QED BY <1>1 DEF Value

(* What the digits of n are, up to the last.                               *)
LEMMA EncodedDigits ==
    ASSUME NEW n \in Lengths
    PROVE  /\ n \in Nat /\ \A i \in 1..4 : Encoded(n)[i] \in Nat
           /\ Encoded(n)[4] < BASE
           /\ Encoded(n)[1] = n
           /\ \A i \in 1..3 :
                Encoded(n)[i] = BASE * Encoded(n)[i + 1] + (Encoded(n)[i] % BASE)
<1> USE FrameAssumption
<1>1. BASE \in Nat
  OBVIOUS
<1>2. PICK b, c, d : b = n \div BASE /\ c = b \div BASE /\ d = c \div BASE
  OBVIOUS
<1>3. Encoded(n) = <<n, b, c, d>>
  BY <1>2 DEF Encoded
<1>4. n \in Nat /\ n < BASE * (BASE * (BASE * BASE))
  <2>1. PICK m : m = BASE * BASE * BASE * BASE
    OBVIOUS
  <2>2. m \in Nat /\ m = BASE * (BASE * (BASE * BASE))
    BY <1>1, <2>1
  <2>3. n \in 0..(m - 1)
    BY <2>1
  <2>4. n \in Nat /\ n < m
    BY <2>2, <2>3
  <2> QED BY <2>2, <2>4
<1>5. BASE * BASE \in Nat /\ BASE * (BASE * BASE) \in Nat
  BY <1>1
<1>6. b \in Nat /\ n = BASE * b + (n % BASE) /\ b < BASE * (BASE * BASE)
  BY <1>2, <1>4, <1>5, DigitOff
<1>7. c \in Nat /\ b = BASE * c + (b % BASE) /\ c < BASE * BASE
  BY <1>2, <1>5, <1>6, DigitOff
<1>8. d \in Nat /\ c = BASE * d + (c % BASE) /\ d < BASE
  BY <1>1, <1>2, <1>7, DigitOff
<1>9. PICK e : e = <<n, b, c, d>>
  OBVIOUS
<1>10. /\ \A i \in 1..4 : e[i] \in Nat
       /\ \A i \in 1..3 : e[i] = BASE * e[i + 1] + (e[i] % BASE)
       /\ e[4] = d /\ e[1] = n
  <2>1. e[1] = n /\ e[2] = b /\ e[3] = c /\ e[4] = d
    BY <1>9
  <2>2. \A i \in 1..4 : i = 1 \/ i = 2 \/ i = 3 \/ i = 4
    OBVIOUS
  <2>3. \A i \in 1..3 : (i = 1 /\ i + 1 = 2) \/ (i = 2 /\ i + 1 = 3) \/ (i = 3 /\ i + 1 = 4)
    OBVIOUS
  <2> QED BY <1>4, <1>6, <1>7, <1>8, <2>1, <2>2, <2>3
<1> QED BY <1>3, <1>4, <1>8, <1>9, <1>10

(* Digit i of the field w, of size digits. *)
DigitOf(w, size, i) == IF i <= size THEN w[i] % BASE ELSE 0

(* w is the length field of n. *)
Field(w, size, n) ==
    /\ w \in Seq(Nat) /\ Len(w) = size
    /\ w[size] < BASE /\ \A j \in 1..(size - 1) : w[j] >= BASE
    /\ n = Value(DigitOf(w, size, 1), DigitOf(w, size, 2), DigitOf(w, size, 3),
                 DigitOf(w, size, 4))

(* The field that is written says where it ends, and stands for its length *)
(* (utils.rs write_variable_length).                                       *)
LEMMA LengthWritten ==
    ASSUME NEW n \in Lengths
    PROVE  \E size \in 1..4 : Field(write_variable_length(n), size, n)
<1> USE FrameAssumption
<1>0. BASE \in Nat /\ BASE > 0
  OBVIOUS
<1>1. PICK e : e = Encoded(n)
  OBVIOUS
<1>2. /\ n \in Nat /\ \A i \in 1..4 : e[i] \in Nat
      /\ e[4] < BASE /\ e[1] = n
      /\ \A i \in 1..3 : e[i] = BASE * e[i + 1] + (e[i] % BASE)
  BY <1>1, EncodedDigits
<1> DEFINE Ends(k) == e[k] < BASE /\ \A j \in 1..(k - 1) : e[j] >= BASE
<1>3. \E k \in 1..4 : Ends(k)
  <2>1. CASE e[1] < BASE
    BY <2>1
  <2>2. CASE e[1] >= BASE /\ e[2] < BASE
    <3>1. \A j \in 1..(2 - 1) : j = 1
      OBVIOUS
    <3> QED BY <2>2, <3>1
  <2>3. CASE e[1] >= BASE /\ e[2] >= BASE /\ e[3] < BASE
    <3>1. \A j \in 1..(3 - 1) : j = 1 \/ j = 2
      OBVIOUS
    <3> QED BY <2>3, <3>1
  <2>4. CASE e[1] >= BASE /\ e[2] >= BASE /\ e[3] >= BASE
    <3>1. \A j \in 1..(4 - 1) : j = 1 \/ j = 2 \/ j = 3
      OBVIOUS
    <3> QED BY <1>2, <2>4, <3>1
  <2> QED BY <1>0, <1>2, <2>1, <2>2, <2>3, <2>4
<1>4. PICK size \in 1..4 :
        /\ Ends(size)
        /\ write_variable_length(n) =
             [i \in 1..size |-> (e[i] % BASE) + (IF i < size THEN BASE ELSE 0)]
  <2> DEFINE k == CHOOSE k \in 1..4 : Ends(k)
  <2>1. k \in 1..4 /\ Ends(k)
    BY <1>3
  <2>2. write_variable_length(n) =
             [i \in 1..k |-> (e[i] % BASE) + (IF i < k THEN BASE ELSE 0)]
    BY <1>1 DEF write_variable_length
  <2> HIDE DEF k
  <2> QED BY <2>1, <2>2
<1>5. PICK w : w = [i \in 1..size |-> (e[i] % BASE) + (IF i < size THEN BASE ELSE 0)]
  OBVIOUS
<1>6. PICK r \in [1..4 -> Nat] : \A i \in 1..4 : r[i] = e[i] % BASE
  <2> DEFINE r == [i \in 1..4 |-> e[i] % BASE]
  <2>1. \A i \in 1..4 : e[i] % BASE \in Nat
    BY <1>2, DigitOff
  <2>2. r \in [1..4 -> Nat] /\ \A i \in 1..4 : r[i] = e[i] % BASE
    BY <2>1
  <2> QED BY <2>2
<1>7. ASSUME NEW i \in 1..4 PROVE r[i] < BASE
  <2>1. e[i] \in Nat
    BY <1>2
  <2>2. e[i] % BASE < BASE
    BY <2>1, DigitOff
  <2> QED BY <1>6, <2>2
<1>8. ASSUME NEW i \in 1..size
      PROVE  /\ w[i] = IF i < size THEN r[i] + BASE ELSE r[i]
             /\ w[i] \in Nat /\ w[i] % BASE = r[i]
  <2>1. i \in 1..4 /\ r[i] \in Nat /\ r[i] < BASE
    BY <1>6, <1>7
  <2>2. w[i] = IF i < size THEN r[i] + BASE ELSE r[i]
    BY <1>0, <1>5, <1>6, <2>1
  <2>3. r[i] % BASE = r[i] /\ (r[i] + BASE) % BASE = r[i]
    BY <2>1, TopBit
  <2> QED BY <1>0, <2>1, <2>2, <2>3
<1>9. w \in Seq(Nat) /\ Len(w) = size
  <2>1. w = [i \in 1..size |-> w[i]]
    BY <1>5
  <2>2. w \in [1..size -> Nat]
    BY <1>8, <2>1
  <2> QED BY <2>2
<1>10. w[size] < BASE /\ \A j \in 1..(size - 1) : w[j] >= BASE
  <2>1. size \in 1..size /\ \A j \in 1..(size - 1) : j \in 1..size /\ j < size /\ j \in 1..4
    OBVIOUS
  <2> QED BY <1>0, <1>6, <1>7, <1>8, <2>1
<1>11. n = Value(DigitOf(w, size, 1), DigitOf(w, size, 2), DigitOf(w, size, 3),
                 DigitOf(w, size, 4))
  <2>1. \A i \in 1..4 : DigitOf(w, size, i) = IF i <= size THEN r[i] ELSE 0
    BY <1>8 DEF DigitOf
  <2>2. r[size] = e[size]
    BY <1>2, <1>4, <1>6, DigitOff
  <2>3. \A i \in 1..3 : e[i] = BASE * e[i + 1] + r[i]
    BY <1>2, <1>6
  <2>4. r[1] \in Nat /\ r[2] \in Nat /\ r[3] \in Nat /\ r[4] \in Nat
    BY <1>6
  <2>5. /\ e[1] = BASE * e[2] + r[1] /\ e[2] = BASE * e[3] + r[2]
        /\ e[3] = BASE * e[4] + r[3]
    BY <2>3
  <2>6. CASE size = 1
    <3>1. Value(r[1], 0, 0, 0) = r[1]
      BY <2>4, ValueOfDigits
    <3> QED BY <1>2, <2>1, <2>2, <2>6, <3>1
  <2>7. CASE size = 2
    <3>1. Value(r[1], r[2], 0, 0) = BASE * Value(r[2], 0, 0, 0) + r[1]
      BY <2>4, ValueOfDigits
    <3>2. Value(r[2], 0, 0, 0) = e[2]
      BY <2>2, <2>4, <2>7, ValueOfDigits
    <3> QED BY <1>2, <2>1, <2>5, <2>7, <3>1, <3>2
  <2>8. CASE size = 3
    <3>1. Value(r[1], r[2], r[3], 0) = BASE * Value(r[2], r[3], 0, 0) + r[1]
      BY <2>4, ValueOfDigits
    <3>2. Value(r[2], r[3], 0, 0) = BASE * Value(r[3], 0, 0, 0) + r[2]
      BY <2>4, ValueOfDigits
    <3>3. Value(r[3], 0, 0, 0) = e[3]
      BY <2>2, <2>4, <2>8, ValueOfDigits
    <3> QED BY <1>2, <2>1, <2>5, <2>8, <3>1, <3>2, <3>3
  <2>9. CASE size = 4
    <3>1. Value(r[1], r[2], r[3], r[4]) = BASE * Value(r[2], r[3], r[4], 0) + r[1]
      BY <2>4, ValueOfDigits
    <3>2. Value(r[2], r[3], r[4], 0) = BASE * Value(r[3], r[4], 0, 0) + r[2]
      BY <2>4, ValueOfDigits
    <3>3. Value(r[3], r[4], 0, 0) = BASE * Value(r[4], 0, 0, 0) + r[3]
      BY <2>4, ValueOfDigits
    <3>4. Value(r[4], 0, 0, 0) = e[4]
      BY <2>2, <2>4, <2>9, ValueOfDigits
    <3> QED BY <1>2, <2>1, <2>5, <2>9, <3>1, <3>2, <3>3, <3>4
  <2> QED BY <2>6, <2>7, <2>8, <2>9
<1>12. Field(w, size, n)
  BY <1>9, <1>10, <1>11 DEF Field
<1> QED BY <1>4, <1>5, <1>12

(* f is a type, the length field w and n more bytes. *)
Packed(f, w, size, n) ==
    /\ f \in Seq(Nat) /\ Len(f) = 1 + size + n
    /\ \A j \in 1..size : f[j + 1] = w[j]

(* A packet is its type, the length field and the body.                    *)
LEMMA FrameParts ==
    ASSUME NEW k \in Nat, NEW n \in Lengths, NEW size \in 1..4, NEW w, Field(w, size, n),
           w = write_variable_length(n)
    PROVE  Packed(Frame(k, n), w, size, n)
<1>1. w \in Seq(Nat) /\ Len(w) = size
  BY DEF Field
<1>2. PICK h, body : h = <<k>> /\ body = [i \in 1..n |-> k]
  OBVIOUS
<1>3. n \in Nat
  BY EncodedDigits
<1>4. h \in Seq(Nat) /\ Len(h) = 1
  BY <1>2
<1>5. body \in Seq(Nat) /\ Len(body) = n
  BY <1>2, <1>3
<1>6. PICK a : a = h \o w
  OBVIOUS
<1>7. a \in Seq(Nat) /\ Len(a) = 1 + size /\ \A j \in 1..size : a[j + 1] = w[j]
  <2>1. /\ a \in Seq(Nat) /\ Len(a) = Len(h) + Len(w)
        /\ \A j \in 1..(Len(h) + Len(w)) : a[j] = IF j <= Len(h) THEN h[j] ELSE w[j - Len(h)]
    BY <1>1, <1>4, <1>6, ConcatProperties
  <2>2. ASSUME NEW j \in 1..size PROVE a[j + 1] = w[j]
    <3>1. j + 1 \in 1..(1 + size) /\ ~(j + 1 <= 1) /\ (j + 1) - 1 = j
      OBVIOUS
    <3> QED BY <1>1, <1>4, <2>1, <3>1
  <2> QED BY <1>1, <1>4, <2>1, <2>2
<1>8. PICK f : f = a \o body
  OBVIOUS
<1>9. /\ f \in Seq(Nat) /\ Len(f) = Len(a) + Len(body)
      /\ \A j \in 1..(Len(a) + Len(body)) : f[j] = IF j <= Len(a) THEN a[j] ELSE body[j - Len(a)]
  BY <1>5, <1>7, <1>8, ConcatProperties
<1>10. ASSUME NEW j \in 1..size PROVE f[j + 1] = w[j]
  <2>1. j + 1 \in 1..(Len(a) + Len(body)) /\ j + 1 <= Len(a)
    BY <1>3, <1>5, <1>7
  <2> QED BY <1>7, <1>9, <2>1
<1>11. Frame(k, n) = f
  BY <1>2, <1>6, <1>8 DEF Frame
<1>12. Packed(f, w, size, n)
  BY <1>3, <1>5, <1>7, <1>9, <1>10 DEF Packed
<1> QED BY <1>11, <1>12

(* b begins with f, or is the beginning of it. *)
Begins(b, f) == \A j \in 1..Len(b) : j <= Len(f) => b[j] = f[j]

(* The length that is parsed is the length of the packet at the front,     *)
(* however much of it is there (io.rs read_packet).                        *)
LEMMA LengthParsed ==
    ASSUME NEW k \in Nat, NEW n \in Lengths, NEW b \in Seq(Nat), Begins(b, Frame(k, n)),
           NEW p, p = parse_remaining_length(b), p.result = "Ok"
    PROVE  1 + p.var_len_bytes + p.remaining_len = Len(Frame(k, n))
<1> USE FrameAssumption
<1>1. PICK size \in 1..4, w \in Seq(Nat) : Field(w, size, n) /\ w = write_variable_length(n)
  BY LengthWritten DEF Field
<1>2. PICK f : f = Frame(k, n)
  OBVIOUS
<1>3. f \in Seq(Nat) /\ Len(f) = 1 + size + n /\ \A j \in 1..size : f[j + 1] = w[j]
  <2>1. Packed(Frame(k, n), w, size, n)
    BY <1>1, FrameParts
  <2> QED BY <1>2, <2>1, Zenon DEF Packed
<1>4. n \in Nat /\ Len(b) \in Nat
  BY EncodedDigits, LenProperties
<1>5. ASSUME NEW j \in 1..size, j + 1 <= Len(b) PROVE b[j + 1] = w[j]
  <2>1. j + 1 \in 1..Len(b) /\ j + 1 <= Len(f)
    BY <1>3, <1>4, <1>5
  <2> QED BY <1>2, <1>3, <2>1 DEF Begins
<1> DEFINE Here(i) == i <= Len(b) /\ EndsAt(b, i)
           end == CHOOSE i \in 2..5 : Here(i)
           Digit(i) == IF i <= end THEN b[i] % BASE ELSE 0
<1>6. \E i \in 2..5 : Here(i)
  <2> SUFFICES ASSUME ~\E i \in 2..5 : Here(i) PROVE FALSE
    OBVIOUS
  <2>1. p = [result |-> IF Len(b) >= 5 THEN "InvalidPacketLength" ELSE "IncompletePacket"]
    BY DEF parse_remaining_length
  <2> QED BY <2>1
<1>7. end \in 2..5 /\ Here(end)
  BY <1>6
<1>8. p = [result |-> "Ok", var_len_bytes |-> end - 1,
           remaining_len |-> Digit(2) + Digit(3) * BASE + Digit(4) * (BASE * BASE)
                                      + Digit(5) * (BASE * BASE * BASE)]
  BY <1>6 DEF parse_remaining_length
<1>9. PICK d2, d3, d4, d5 : d2 = Digit(2) /\ d3 = Digit(3) /\ d4 = Digit(4) /\ d5 = Digit(5)
  OBVIOUS
<1>10. p.var_len_bytes = end - 1 /\ p.remaining_len = Value(d2, d3, d4, d5)
  BY <1>8, <1>9 DEF Value
<1> HIDE DEF end
<1>11. end = size + 1
  <2>1. b[end] < BASE /\ \A j \in 2..(end - 1) : b[j] >= BASE
    BY <1>7 DEF EndsAt
  <2>2. w[size] < BASE /\ \A j \in 1..(size - 1) : w[j] >= BASE
    BY <1>1 DEF Field
  <2>3. ASSUME end < size + 1 PROVE FALSE
    <3>1. end - 1 \in 1..(size - 1) /\ end - 1 \in 1..size /\ (end - 1) + 1 = end
      BY <1>7, <2>3
    <3>2. b[end] = w[end - 1]
      BY <1>5, <1>7, <3>1
    <3>3. w[end - 1] \in Nat /\ BASE \in Nat
      BY <1>1, <3>1, ElementOfSeq DEF Field
    <3> QED BY <2>1, <2>2, <3>1, <3>2, <3>3
  <2>4. ASSUME end > size + 1 PROVE FALSE
    <3>1. size \in 1..size /\ size + 1 \in 2..(end - 1) /\ size + 1 <= Len(b)
      BY <1>4, <1>7, <2>4
    <3>2. b[size + 1] = w[size]
      BY <1>5, <3>1
    <3>3. w[size] \in Nat /\ BASE \in Nat
      BY <1>1, <3>1, ElementOfSeq DEF Field
    <3> QED BY <2>1, <2>2, <3>1, <3>2, <3>3
  <2> QED BY <1>7, <2>3, <2>4
<1>12. ASSUME NEW j \in 1..4 PROVE Digit(j + 1) = DigitOf(w, size, j)
  <2>1. CASE j <= size
    <3>1. j \in 1..size /\ j + 1 <= end /\ j + 1 <= Len(b)
      BY <1>4, <1>7, <1>11, <2>1
    <3> QED BY <1>5, <2>1, <3>1 DEF DigitOf
  <2>2. CASE ~(j <= size)
    <3>1. ~(j + 1 <= end)
      BY <1>11, <2>2
    <3> QED BY <2>2, <3>1 DEF DigitOf
  <2> QED BY <2>1, <2>2
<1> HIDE DEF Digit
<1>13. /\ d2 = DigitOf(w, size, 1) /\ d3 = DigitOf(w, size, 2)
       /\ d4 = DigitOf(w, size, 3) /\ d5 = DigitOf(w, size, 4)
  <2>1. 1 + 1 = 2 /\ 2 + 1 = 3 /\ 3 + 1 = 4 /\ 4 + 1 = 5
    OBVIOUS
  <2>2. /\ Digit(1 + 1) = DigitOf(w, size, 1) /\ Digit(2 + 1) = DigitOf(w, size, 2)
        /\ Digit(3 + 1) = DigitOf(w, size, 3) /\ Digit(4 + 1) = DigitOf(w, size, 4)
    BY <1>12
  <2> QED BY <1>9, <2>1, <2>2
<1>14. p.remaining_len = n
  BY <1>1, <1>10, <1>13 DEF Field
<1> QED BY <1>2, <1>3, <1>4, <1>10, <1>11, <1>14

-----------------------------------------------------------------------------
(* The stream. *)

(* it[k] is the bytes of the first k packets of s. *)
Joins(it, s) ==
    /\ it \in [0..Len(s) -> Seq(Nat)]
    /\ it[0] = <<>>
    /\ \A k \in 1..Len(s) : it[k] = it[k - 1] \o s[k]

(* The packets can be joined one after the other.                          *)
LEMMA JoinExists ==
    ASSUME NEW s \in Seq(Seq(Nat))
    PROVE  \E it : Joins(it, s)
<1> DEFINE V == Seq(Nat)
           N == Len(s)
           v0 == <<>>
           F == [x \in V \X (1..N) |-> x[1] \o s[x[2]]]
<1>1. N \in Nat /\ v0 \in V
  BY LenProperties
<1>2. ASSUME NEW v \in V, NEW n \in 1..N
      PROVE  F[<<v, n>>] = v \o s[n] /\ F[<<v, n>>] \in V
  <2>1. s[n] \in Seq(Nat)
    BY ElementOfSeq
  <2>2. v \o s[n] \in Seq(Nat)
    BY <2>1, ConcatProperties
  <2> QED BY <2>2
<1>3. F \in [V \X (1..N) -> V]
  <2>1. ASSUME NEW x \in V \X (1..N) PROVE x[1] \o s[x[2]] \in V
    <3>1. x[1] \in V /\ x[2] \in 1..N /\ s[x[2]] \in Seq(Nat)
      BY ElementOfSeq
    <3> QED BY <3>1, ConcatProperties
  <2> QED BY <2>1
<1> HIDE DEF F, V, N, v0
<1>4. PICK it : Iterates(it, V, N, v0, F)
  BY <1>1, <1>3, Iteration
<1>5. it \in [0..N -> V] /\ it[0] = v0 /\ \A k \in 1..N : it[k] = F[<<it[k - 1], k>>]
  BY <1>4 DEF Iterates
<1>6. ASSUME NEW k \in 1..N PROVE it[k] = it[k - 1] \o s[k]
  <2>1. k - 1 \in 0..N
    BY <1>1
  <2>2. it[k - 1] \in V
    BY <1>5, <2>1
  <2> QED BY <1>2, <1>5, <2>2
<1> QED BY <1>5, <1>6 DEF Joins, V, N, v0

(* The bytes of all packets of s are the last of them (FlattenSeq, the     *)
(* byte stream a client writes).                                           *)
LEMMA FlattenIsJoin ==
    ASSUME NEW s \in Seq(Seq(Nat)), NEW it, Joins(it, s)
    PROVE  FlattenSeq(s) = it[Len(s)] /\ FlattenSeq(s) \in Seq(Nat)
<1>1. Len(s) \in Nat
  BY LenProperties
<1>2. it[Len(s)] \in Seq(Nat)
  BY <1>1 DEF Joins
<1>3. CASE Len(s) = 0
  <2>1. s = <<>>
    BY <1>3, EmptySeq
  <2>2. FlattenSeq(s) = s
    BY <1>3 DEF FlattenSeq
  <2> QED BY <1>2, <1>3, <2>1, <2>2 DEF Joins
<1>4. CASE Len(s) # 0
  <2> DEFINE N == Len(s)
             Step(g) == [i \in 1..N |-> IF i = 1 THEN s[i] ELSE g[i - 1] \o s[i]]
             flatten == CHOOSE g : g = Step(g)
             jt == [i \in 1..N |-> it[i]]
  <2>1. jt = Step(jt)
    <3>1. ASSUME NEW i \in 1..N PROVE it[i] = IF i = 1 THEN s[i] ELSE jt[i - 1] \o s[i]
      <4>1. it[i] = it[i - 1] \o s[i] /\ s[i] \in Seq(Nat)
        BY ElementOfSeq DEF Joins
      <4>2. CASE i = 1
        <5>1. i - 1 = 0 /\ it[0] = <<>>
          BY <4>2 DEF Joins
        <5>2. it[i] = <<>> \o s[i]
          BY <4>1, <5>1, Zenon
        <5>3. <<>> \o s[i] = s[i]
          BY <4>1, ConcatEmptySeq
        <5> QED BY <4>2, <5>2, <5>3
      <4>3. CASE i # 1
        <5>1. i - 1 \in 1..N
          BY <1>1, <4>3
        <5> QED BY <4>1, <4>3, <5>1
      <4> QED BY <4>2, <4>3
    <3> QED BY <3>1
  <2>2. flatten = Step(flatten)
    BY <2>1
  <2>3. FlattenSeq(s) = flatten[N]
    BY <1>4 DEF FlattenSeq
  <2>4. ASSUME NEW i \in 1..N
        PROVE flatten[i] = IF i = 1 THEN s[i] ELSE flatten[i - 1] \o s[i]
    BY <2>2
  <2> HIDE DEF flatten
  <2> DEFINE gt == [k \in 0..N |-> IF k = 0 THEN it[0] ELSE flatten[k]]
             W == [k \in 0..N |-> {it[k]}]
  <2>5. gt[0] \in W[0]
    BY <1>1
  <2>6. ASSUME NEW n \in 1..N, gt[n - 1] \in W[n - 1] PROVE gt[n] \in W[n]
    <3>1. gt[n - 1] = it[n - 1] /\ gt[n] = flatten[n] /\ W[n] = {it[n]}
      BY <1>1, <2>6
    <3>2. CASE n = 1
      <4>1. flatten[n] = s[n] /\ jt[n] = s[n] /\ jt[n] = it[n]
        BY <2>1, <2>4, <3>2
      <4> QED BY <3>1, <4>1
    <3>3. CASE n # 1
      <4>0. flatten[n] = flatten[n - 1] \o s[n]
        BY <2>4, <3>3, Zenon
      <4>1. gt[n - 1] = flatten[n - 1] /\ flatten[n] = flatten[n - 1] \o s[n]
        <5>1. n - 1 \in 0..N /\ n - 1 # 0
          BY <1>1, <3>3
        <5>2. gt[n - 1] = flatten[n - 1]
          BY <5>1
        <5> QED BY <4>0, <5>2
      <4>2. it[n] = it[n - 1] \o s[n]
        BY DEF Joins
      <4>3. flatten[n] = it[n]
        BY <3>1, <4>1, <4>2, Zenon
      <4> QED BY <3>1, <4>3
    <3> QED BY <3>2, <3>3
  <2>7. N \in 1..N
    BY <1>1, <1>4
  <2> HIDE DEF gt, W, N
  <2>8. \A n \in 0..N : gt[n] \in W[n]
    <3>1. N \in Nat
      BY <1>1 DEF N
    <3> QED BY <2>5, <2>6, <3>1, LoopHolds
  <2>9. flatten[N] = it[N]
    BY <2>7, <2>8 DEF gt, W
  <2> QED BY <1>2, <2>3, <2>9 DEF N
<1> QED BY <1>2, <1>3, <1>4

(* The packets of a stream are joined in one way only.                     *)
LEMMA JoinUnique ==
    ASSUME NEW s \in Seq(Seq(Nat)), NEW t \in Seq(Seq(Nat)), NEW it, NEW jt,
           Joins(it, s), Joins(jt, t), NEW N \in Nat, N <= Len(s), N <= Len(t),
           \A k \in 1..N : s[k] = t[k]
    PROVE  it[N] = jt[N]
<1> DEFINE W == [k \in 0..N |-> {jt[k]}]
<1>1. Len(s) \in Nat /\ Len(t) \in Nat
  BY LenProperties
<1>2. it[0] \in W[0]
  BY DEF Joins
<1>3. ASSUME NEW n \in 1..N, it[n - 1] \in W[n - 1] PROVE it[n] \in W[n]
  <2>1. n \in 1..Len(s) /\ n \in 1..Len(t) /\ n - 1 \in 0..N
    BY <1>1
  <2>2. it[n] = it[n - 1] \o s[n] /\ jt[n] = jt[n - 1] \o t[n] /\ s[n] = t[n]
    BY <2>1 DEF Joins
  <2>3. it[n - 1] = jt[n - 1]
    BY <1>3, <2>1
  <2>4. it[n] = jt[n]
    BY <2>2, <2>3, Zenon
  <2> QED BY <2>4
<1> HIDE DEF W
<1>4. \A n \in 0..N : it[n] \in W[n]
  BY <1>2, <1>3, LoopHolds
<1> QED BY <1>4 DEF W

Assoc(x1, x2, x3) == (x1 \o x2) \o x3 = x1 \o (x2 \o x3)

(* Bytes can be cut anywhere. *)
LEMMA Regroup ==
    ASSUME NEW x1 \in Seq(Nat), NEW x2 \in Seq(Nat), NEW x3 \in Seq(Nat)
    PROVE  Assoc(x1, x2, x3)
<1> DEFINE S == Nat
<1>1. x1 \in Seq(S) /\ x2 \in Seq(S) /\ x3 \in Seq(S)
  OBVIOUS
<1> HIDE DEF S
<1>2. (x1 \o x2) \o x3 = x1 \o (x2 \o x3)
  BY <1>1, ConcatAssociative
<1> QED BY <1>2 DEF Assoc

(* b is what comes after a in c. *)
Cut(c, a, b) == c = a \o b

(* Where a part ends does not depend on what is before it.                 *)
LEMMA CutBehind ==
    ASSUME NEW x1 \in Seq(Nat), NEW x2 \in Seq(Nat), NEW x3 \in Seq(Nat),
           NEW x, Cut(x, x2, x3)
    PROVE  Cut(x1 \o x, x1 \o x2, x3)
<1>1. (x1 \o x2) \o x3 = x1 \o (x2 \o x3)
  <2>1. Assoc(x1, x2, x3)
    BY Regroup
  <2> QED BY <2>1, Zenon DEF Assoc
<1>2. x = x2 \o x3
  BY Zenon DEF Cut
<1> QED BY <1>1, <1>2, Zenon DEF Cut

(* One more packet goes to the end of the stream (ClientSends).            *)
LEMMA FlattenAppend ==
    ASSUME NEW s \in Seq(Seq(Nat)), NEW f \in Seq(Nat)
    PROVE  Cut(FlattenSeq(Append(s, f)), FlattenSeq(s), f)
<1> DEFINE t == Append(s, f)
<1>1. t \in Seq(Seq(Nat)) /\ Len(t) = Len(s) + 1 /\ t[Len(s) + 1] = f
      /\ \A k \in 1..Len(s) : t[k] = s[k]
  BY AppendProperties
<1>2. Len(s) \in Nat
  BY LenProperties
<1> HIDE DEF t
<1>3. PICK it : Joins(it, s)
  BY JoinExists
<1>4. PICK jt : Joins(jt, t)
  BY <1>1, JoinExists
<1>5. it[Len(s)] = jt[Len(s)]
  <2>1. PICK N \in Nat : N = Len(s)
    BY <1>2
  <2>2. N <= Len(s) /\ N <= Len(t) /\ \A k \in 1..N : s[k] = t[k]
    BY <1>1, <1>2, <2>1
  <2>3. it[N] = jt[N]
    BY <1>1, <1>3, <1>4, <2>2, JoinUnique
  <2> QED BY <2>1, <2>3
<1>6. FlattenSeq(s) = it[Len(s)] /\ FlattenSeq(t) = jt[Len(t)]
  BY <1>1, <1>3, <1>4, FlattenIsJoin
<1>7. jt[Len(t)] = jt[Len(s)] \o f
  <2>1. Len(t) \in 1..Len(t) /\ Len(t) - 1 = Len(s) /\ t[Len(t)] = f
    BY <1>1, <1>2
  <2>2. jt[Len(t)] = jt[Len(t) - 1] \o t[Len(t)]
    BY <1>4, <2>1 DEF Joins
  <2> QED BY <2>1, <2>2, Zenon
<1>8. FlattenSeq(t) = FlattenSeq(s) \o f
  BY <1>5, <1>6, <1>7, Zenon
<1> QED BY <1>8, Zenon DEF Cut, t

(* What a stream has before one of its packets, the packet, and the rest.  *)
LEMMA FlattenSplit ==
    ASSUME NEW s \in Seq(Seq(Nat)), NEW i \in 0..Len(s)
    PROVE  \E rest \in Seq(Nat) : Cut(FlattenSeq(s), FlattenSeq(SubSeq(s, 1, i)), rest)
<1> DEFINE t == SubSeq(s, 1, i)
<1>0. Len(s) \in Nat
  BY LenProperties
<1>1. t \in Seq(Seq(Nat)) /\ Len(t) = i /\ \A k \in 1..i : t[k] = s[k]
  <2>1. 1 \in 1..(Len(s) + 1) /\ i \in (1 - 1)..Len(s)
    BY <1>0
  <2> QED BY <1>0, <2>1, SubSeqProperties
<1> HIDE DEF t
<1>3. PICK it : Joins(it, s)
  BY JoinExists
<1>4. PICK jt : Joins(jt, t)
  BY <1>1, JoinExists
<1>5. it[i] = jt[i]
  <2>1. i \in Nat /\ i <= Len(s) /\ i <= Len(t) /\ \A k \in 1..i : s[k] = t[k]
    BY <1>0, <1>1
  <2> QED BY <1>1, <1>3, <1>4, <2>1, JoinUnique
<1>6. FlattenSeq(s) = it[Len(s)] /\ FlattenSeq(t) = jt[i]
  BY <1>1, <1>3, <1>4, FlattenIsJoin
<1> DEFINE P(n) == \E rest \in Seq(Nat) : it[n] = it[i] \o rest
           T == {n \in Nat : i <= n /\ n <= Len(s) => P(n)}
<1>7. P(i)
  <2>1. it[i] \in Seq(Nat)
    BY <1>3 DEF Joins
  <2>2. it[i] = it[i] \o <<>> /\ <<>> \in Seq(Nat)
    BY <2>1, ConcatEmptySeq, EmptySeq
  <2> QED BY <2>2
<1>8. 0 \in T
  <2>1. i <= 0 => i = 0
    BY <1>0
  <2> QED BY <1>7, <2>1
<1>9. ASSUME NEW n \in Nat, n \in T PROVE n + 1 \in T
  <2> SUFFICES ASSUME i <= n + 1, n + 1 <= Len(s) PROVE P(n + 1)
    <3> HIDE DEF P
    <3> QED OBVIOUS
  <2>1. CASE i = n + 1
    BY <1>7, <2>1
  <2>2. CASE i # n + 1
    <3>1. i <= n /\ n <= Len(s) /\ n + 1 \in 1..Len(s) /\ (n + 1) - 1 = n
      BY <1>0, <2>2
    <3>2. PICK rest \in Seq(Nat) : it[n] = it[i] \o rest
      BY <1>9, <3>1
    <3>3. it[n + 1] = it[n] \o s[n + 1] /\ s[n + 1] \in Seq(Nat) /\ it[i] \in Seq(Nat)
      BY <1>3, <3>1, ElementOfSeq DEF Joins
    <3>4. (it[i] \o rest) \o s[n + 1] = it[i] \o (rest \o s[n + 1])
      <4>1. Assoc(it[i], rest, s[n + 1])
        BY <3>3, Regroup
      <4> QED BY <4>1, Zenon DEF Assoc
    <3>5. rest \o s[n + 1] \in Seq(Nat)
      BY <3>3, ConcatProperties
    <3>6. it[n + 1] = it[i] \o (rest \o s[n + 1])
      BY <3>2, <3>3, <3>4, Zenon
    <3> QED BY <3>5, <3>6, Zenon
  <2> QED BY <2>1, <2>2
<1> HIDE DEF T
<1>10. Len(s) \in T
  BY <1>0, <1>8, <1>9, NatSet
<1>11. P(Len(s))
  BY <1>0, <1>10 DEF T
<1>12. PICK rest \in Seq(Nat) : it[Len(s)] = it[i] \o rest
  BY <1>11
<1>13. Cut(FlattenSeq(s), FlattenSeq(t), rest)
  BY <1>5, <1>6, <1>12, Zenon DEF Cut
<1> QED BY <1>13, Zenon DEF t

(* All of a stream is a sequence of bytes. *)
LEMMA FlattenType ==
    ASSUME NEW s \in Seq(Seq(Nat))
    PROVE  FlattenSeq(s) \in Seq(Nat)
<1>1. PICK it : Joins(it, s)
  BY JoinExists
<1> QED BY <1>1, FlattenIsJoin

(* Bytes that are taken from the front and those that stay (BytesMut's     *)
(* advance, and a read of some of what has arrived).                       *)
LEMMA SplitAt ==
    ASSUME NEW S, NEW x \in Seq(S), NEW n \in 0..Len(x)
    PROVE  /\ SubSeq(x, 1, n) \in Seq(S) /\ Len(SubSeq(x, 1, n)) = n
           /\ SubSeq(x, n + 1, Len(x)) \in Seq(S)
           /\ Cut(x, SubSeq(x, 1, n), SubSeq(x, n + 1, Len(x)))
<1>1. Len(x) \in Nat /\ n \in Nat
  BY LenProperties
<1>2. /\ 1 \in 1..(Len(x) + 1) /\ n \in (1 - 1)..Len(x) /\ Len(x) \in n..Len(x)
      /\ 1 \in Int /\ n \in Int /\ n + 1 \in Int /\ Len(x) \in Int
  BY <1>1
<1>3. SubSeq(x, 1, n) \o SubSeq(x, n + 1, Len(x)) = SubSeq(x, 1, Len(x))
  BY <1>2, ConcatAdjacentSubSeq
<1>4. SubSeq(x, 1, Len(x)) = x
  BY SubSeqFull
<1>5. /\ \A i \in 1..n : x[i] \in S
      /\ \A i \in (n + 1)..Len(x) : x[i] \in S
  BY <1>1, ElementOfSeq
<1>6. SubSeq(x, 1, n) \in Seq(S) /\ Len(SubSeq(x, 1, n)) = n
  BY <1>1, <1>2, <1>5, SubSeqProperties
<1>7. SubSeq(x, n + 1, Len(x)) \in Seq(S)
  BY <1>2, <1>5, SubSeqProperties
<1>8. x = SubSeq(x, 1, n) \o SubSeq(x, n + 1, Len(x))
  BY <1>3, <1>4, Zenon
<1> QED BY <1>6, <1>7, <1>8, Zenon DEF Cut

(* What is missing of a stream is a sequence of bytes, too.                *)
LEMMA PrefixRest ==
    ASSUME NEW S, NEW p \in Seq(S), NEW t \in Seq(S), IsPrefix(p, t)
    PROVE  \E rest \in Seq(S) : Cut(t, p, rest)
<1>1. Len(p) \in 0..Len(t) /\ SubSeq(p, 1, Len(p)) = SubSeq(t, 1, Len(p))
  BY LenProperties DEF IsPrefix
<1>2. SubSeq(p, 1, Len(p)) = p
  BY SubSeqFull
<1>3. PICK n \in 0..Len(t) : n = Len(p)
  BY <1>1
<1>4. /\ SubSeq(t, n + 1, Len(t)) \in Seq(S)
      /\ Cut(t, SubSeq(t, 1, n), SubSeq(t, n + 1, Len(t)))
  BY SplitAt
<1>5. SubSeq(t, 1, n) = p
  BY <1>1, <1>2, <1>3, Zenon
<1> QED BY <1>4, <1>5, Zenon

(* The bytes read and those on the wire begin the stream.                  *)
LEMMA RestPrefix ==
    ASSUME NEW S, NEW p \in Seq(S), NEW rest \in Seq(S), NEW t, Cut(t, p, rest)
    PROVE  t \in Seq(S) /\ IsPrefix(p, t) /\ \A i \in 1..Len(p) : t[i] = p[i]
<1>1. t = p \o rest
  BY Zenon DEF Cut
<1>2. Len(p) \in Nat /\ Len(rest) \in Nat
  BY LenProperties
<1>3. /\ t \in Seq(S) /\ Len(t) = Len(p) + Len(rest)
      /\ \A i \in 1..(Len(p) + Len(rest)) :
           t[i] = IF i <= Len(p) THEN p[i] ELSE rest[i - Len(p)]
  BY <1>1, ConcatProperties
<1>4. ASSUME NEW i \in 1..Len(p) PROVE t[i] = p[i]
  BY <1>2, <1>3
<1> DEFINE n == Len(p)
           a == SubSeq(p, 1, n)
           b == SubSeq(t, 1, n)
<1>5. 1 \in Int /\ n \in Int
  BY <1>2
<1>6. /\ a \in Seq(S) /\ Len(a) = IF 1 <= n THEN n - 1 + 1 ELSE 0
      /\ \A i \in 1..(n - 1 + 1) : a[i] = p[1 + i - 1]
  <2>1. \A i \in 1..n : p[i] \in S
    BY ElementOfSeq
  <2> HIDE DEF n
  <2> QED BY <1>5, <2>1, SubSeqProperties
<1>7. /\ b \in Seq(S) /\ Len(b) = IF 1 <= n THEN n - 1 + 1 ELSE 0
      /\ \A i \in 1..(n - 1 + 1) : b[i] = t[1 + i - 1]
  <2>1. \A i \in 1..n : t[i] \in S
    BY <1>4, ElementOfSeq
  <2> HIDE DEF n
  <2> QED BY <1>5, <2>1, SubSeqProperties
<1>8. \A i \in 1..Len(a) : a[i] = b[i]
  <2> SUFFICES ASSUME NEW i \in 1..Len(a) PROVE a[i] = b[i]
    OBVIOUS
  <2> HIDE DEF a, b
  <2>1. i \in 1..n /\ i \in 1..(n - 1 + 1) /\ 1 + i - 1 = i
    BY <1>2, <1>6
  <2> QED BY <1>4, <1>6, <1>7, <2>1
<1> HIDE DEF a, b
<1>9. a = b
  <2>1. Len(a) = Len(b)
    BY <1>6, <1>7
  <2> QED BY <1>6, <1>7, <1>8, <2>1, SeqEqual
<1>10. Len(p) <= Len(t)
  BY <1>2, <1>3
<1> QED BY <1>3, <1>4, <1>9, <1>10 DEF IsPrefix, a, b

(* f is the packet of s that comes after those of d. *)
NextOf(f, d, s) == IsPrefix(d, s) /\ Len(d) < Len(s) /\ f = s[Len(d) + 1]

(* t is the first m packets of s. *)
Takes(t, s, m) == t = SubSeq(s, 1, m)

(* The packets returned and the next one are what has been sent up to it.  *)
LEMMA NextPacket ==
    ASSUME NEW s \in Seq(Seq(Nat)), NEW d \in Seq(Seq(Nat)), NEW f \in Seq(Nat),
           NextOf(f, d, s)
    PROVE  \E m \in 0..Len(s) : Takes(Append(d, f), s, m)
<1>0. IsPrefix(d, s) /\ Len(d) < Len(s) /\ f = s[Len(d) + 1]
  BY DEF NextOf
<1>1. PICK more \in Seq(Seq(Nat)) : Cut(s, d, more)
  BY <1>0, PrefixRest
<1>2. \A i \in 1..Len(d) : s[i] = d[i]
  BY <1>1, RestPrefix
<1>3. Len(d) \in Nat /\ Len(s) \in Nat
  BY LenProperties
<1>4. PICK m \in 1..Len(s) : m = Len(d) + 1
  <2>1. Len(d) + 1 \in 1..Len(s)
    BY <1>0, <1>3
  <2> QED BY <2>1
<1>5. f = s[m]
  BY <1>0, <1>4
<1> DEFINE t == SubSeq(s, 1, m)
           a == Append(d, f)
<1>6. /\ t \in Seq(Seq(Nat)) /\ Len(t) = m
      /\ \A i \in 1..m : t[i] = s[i]
  <2>1. \A i \in 1..m : s[i] \in Seq(Nat)
    BY <1>3, <1>4, ElementOfSeq
  <2>2. 1 \in Int /\ m \in Int /\ 1 <= m /\ m - 1 + 1 = m
    BY <1>3, <1>4
  <2>3. \A i \in 1..m : 1 + i - 1 = i
    BY <2>2
  <2>4. /\ t \in Seq(Seq(Nat)) /\ Len(t) = IF 1 <= m THEN m - 1 + 1 ELSE 0
        /\ \A i \in 1..(m - 1 + 1) : t[i] = s[1 + i - 1]
    BY <2>1, <2>2, SubSeqProperties
  <2> HIDE DEF t
  <2> QED BY <2>2, <2>3, <2>4
<1>7. /\ a \in Seq(Seq(Nat)) /\ Len(a) = m /\ a[m] = f
      /\ \A i \in 1..(m - 1) : a[i] = d[i]
  BY <1>3, <1>4, AppendProperties
<1> HIDE DEF t, a
<1>8. t = a
  <2>1. ASSUME NEW i \in 1..Len(t) PROVE t[i] = a[i]
    <3>1. CASE i = m
      BY <1>5, <1>6, <1>7, <3>1
    <3>2. CASE i # m
      <4>1. i \in 1..m /\ i \in 1..(m - 1) /\ i \in 1..Len(d)
        BY <1>3, <1>4, <1>6, <3>2
      <4> QED BY <1>2, <1>6, <1>7, <4>1
    <3> QED BY <3>1, <3>2
  <2> QED BY <1>6, <1>7, <2>1, SeqEqual
<1>9. m \in 0..Len(s)
  BY <1>3
<1>10. Takes(Append(d, f), s, m)
  BY <1>8 DEF t, a, Takes
<1> QED BY <1>9, <1>10, Zenon

(* The bytes after the packets returned begin with the next one.           *)
LEMMA FrontPacket ==
    ASSUME NEW s \in Seq(Seq(Nat)), NEW d \in Seq(Seq(Nat)), IsPrefix(d, s),
           Len(d) < Len(s), NEW x \in Seq(Nat), Cut(FlattenSeq(s), FlattenSeq(d), x)
    PROVE  \E y \in Seq(Nat) : Cut(x, s[Len(d) + 1], y)
<1>1. Len(d) \in Nat /\ Len(s) \in Nat
  BY LenProperties
<1>3. PICK f \in Seq(Nat) : f = s[Len(d) + 1]
  <2>1. Len(d) + 1 \in 1..Len(s)
    BY <1>1
  <2> QED BY <2>1, ElementOfSeq
<1>4. PICK t \in Seq(Seq(Nat)) : t = Append(d, f)
  BY AppendProperties
<1>5. PICK m \in 0..Len(s) : t = SubSeq(s, 1, m)
  <2>1. NextOf(f, d, s)
    BY <1>3 DEF NextOf
  <2>2. PICK m \in 0..Len(s) : Takes(Append(d, f), s, m)
    BY <2>1, NextPacket
  <2> QED BY <1>4, <2>2, Zenon DEF Takes
<1>6. PICK y \in Seq(Nat) : Cut(FlattenSeq(s), FlattenSeq(t), y)
  <2>1. \E y \in Seq(Nat) : Cut(FlattenSeq(s), FlattenSeq(SubSeq(s, 1, m)), y)
    BY FlattenSplit
  <2> QED BY <1>5, <2>1, Zenon
<1>7. Cut(FlattenSeq(t), FlattenSeq(d), f)
  <2>1. Cut(FlattenSeq(Append(d, f)), FlattenSeq(d), f)
    BY FlattenAppend
  <2> QED BY <1>4, <2>1, Zenon
<1>8. PICK u \in Seq(Nat) : u = FlattenSeq(d)
  BY FlattenType
<1>9. (u \o f) \o y = u \o x
  BY <1>6, <1>7, <1>8, Zenon DEF Cut
<1>10. (u \o f) \o y = u \o (f \o y)
  <2>1. Assoc(u, f, y)
    BY Regroup
  <2> QED BY <2>1, Zenon DEF Assoc
<1>11. f \o y \in Seq(Nat)
  BY ConcatProperties
<1>12. PICK g \in Seq(Nat) : g = f \o y
  BY <1>11
<1>13. u \o x = u \o g
  BY <1>9, <1>10, <1>12, Zenon
<1>14. x = g
  BY <1>13, ConcatSimplifications
<1>15. Cut(x, f, y)
  BY <1>12, <1>14, Zenon DEF Cut
<1> QED BY <1>3, <1>15, Zenon

-----------------------------------------------------------------------------
(* The inductive invariant. *)

Typed ==
    /\ sent \in Seq(Seq(Nat)) /\ delivered \in Seq(Seq(Nat))
    /\ buffer \in Seq(Nat) /\ wire \in Seq(Nat)
    /\ total_len \in Nat

FramesSent == \A k \in 1..Len(sent) : \E n \in Lengths : sent[k] = Frame(k, n)

(* The length read_packet knows is that of the packet at the front. *)
LengthKnown ==
    total_len # 0 => /\ Len(delivered) < Len(sent)
                     /\ total_len = Len(sent[Len(delivered) + 1])

(* What has been read and not returned, and what is on the wire, follows   *)
(* the packets returned.                                                   *)
Follows(s, d, b, w, rest) == Cut(FlattenSeq(s), FlattenSeq(d), (b \o w) \o rest)

FrameInv ==
    /\ Typed /\ FramesSent /\ LengthKnown
    /\ IsPrefix(delivered, sent)
    /\ \E rest \in Seq(Nat) :
         Follows(sent, delivered, buffer, wire, rest) /\ (closed \/ rest = <<>>)

(* A packet is a sequence of bytes (Packet::encode). *)
LEMMA FrameIsBytes ==
    ASSUME NEW k \in Nat, NEW n \in Lengths
    PROVE  Frame(k, n) \in Seq(Nat)
<1>1. PICK size \in 1..4, w \in Seq(Nat) : Field(w, size, n) /\ w = write_variable_length(n)
  BY LengthWritten DEF Field
<1>2. Packed(Frame(k, n), w, size, n)
  BY <1>1, FrameParts
<1>3. PICK f : f = Frame(k, n)
  OBVIOUS
<1>4. Packed(f, w, size, n)
  BY <1>2, <1>3, Zenon
<1>5. f \in Seq(Nat)
  BY <1>4 DEF Packed
<1> QED BY <1>3, <1>5

(* A connection begins with nothing sent and nothing read. *)
LEMMA FrameInit == Init => FrameInv
<1> SUFFICES ASSUME Init PROVE FrameInv
  OBVIOUS
<1> DEFINE e == <<>>
<1>1. /\ sent = e /\ delivered = e /\ buffer = e /\ wire = e /\ total_len = 0
      /\ e \in Seq(Nat) /\ e \in Seq(Seq(Nat)) /\ Len(e) = 0
  BY EmptySeq DEF Init
<1> HIDE DEF e
<1>2. Typed /\ FramesSent /\ LengthKnown
  BY <1>1 DEF Typed, FramesSent, LengthKnown
<1>3. e \o e = e
  BY <1>1, ConcatEmptySeq DEF e
<1>4. FlattenSeq(e) = e
  BY <1>1 DEF FlattenSeq
<1>5. Follows(sent, delivered, buffer, wire, e)
  BY <1>1, <1>3, <1>4 DEF Follows, Cut
<1>6. IsPrefix(delivered, sent)
  BY <1>1 DEF IsPrefix
<1>7. e = <<>>
  BY DEF e
<1> QED BY <1>1, <1>2, <1>5, <1>6, <1>7 DEF FrameInv

(* The client writes one more packet. *)
LEMMA SendKeeps ==
    ASSUME FrameInv, ClientSends
    PROVE  FrameInv'
<1>1. PICK n \in Lengths : /\ sent' = Append(sent, Frame(Len(sent) + 1, n))
                           /\ wire' = wire \o Frame(Len(sent) + 1, n)
  BY DEF ClientSends
<1>2. ~closed /\ ~closed' /\ buffer' = buffer /\ total_len' = total_len
      /\ delivered' = delivered
  BY DEF ClientSends
<1>3. Len(sent) \in Nat /\ Len(sent) + 1 \in Nat
  BY LenProperties DEF FrameInv, Typed
<1>4. PICK f \in Seq(Nat) : f = Frame(Len(sent) + 1, n)
  BY <1>3, FrameIsBytes
<1>5. /\ sent' \in Seq(Seq(Nat)) /\ Len(sent') = Len(sent) + 1
      /\ sent'[Len(sent) + 1] = f /\ \A k \in 1..Len(sent) : sent'[k] = sent[k]
  <2>1. sent' = Append(sent, f) /\ sent \in Seq(Seq(Nat))
    BY <1>1, <1>4 DEF FrameInv, Typed
  <2> QED BY <2>1, AppendProperties
<1>6. wire' = wire \o f /\ wire' \in Seq(Nat)
  BY <1>1, <1>4, ConcatProperties DEF FrameInv, Typed
<1>7. Typed'
  BY <1>2, <1>5, <1>6 DEF FrameInv, Typed
<1>8. FramesSent'
  <2> SUFFICES ASSUME NEW k \in 1..Len(sent') PROVE \E m \in Lengths : sent'[k] = Frame(k, m)
    BY DEF FramesSent
  <2>1. CASE k = Len(sent) + 1
    BY <1>4, <1>5, <2>1
  <2>2. CASE k # Len(sent) + 1
    <3>1. k \in 1..Len(sent) /\ sent'[k] = sent[k]
      BY <1>3, <1>5, <2>2
    <3>2. PICK m \in Lengths : sent[k] = Frame(k, m)
      BY <3>1 DEF FrameInv, FramesSent
    <3> QED BY <3>1, <3>2
  <2> QED BY <2>1, <2>2
<1>9. LengthKnown'
  <2> SUFFICES ASSUME total_len # 0
               PROVE  /\ Len(delivered) < Len(sent')
                      /\ total_len = Len(sent'[Len(delivered) + 1])
    BY <1>2 DEF LengthKnown
  <2>1. Len(delivered) < Len(sent) /\ total_len = Len(sent[Len(delivered) + 1])
    BY DEF FrameInv, LengthKnown
  <2>2. Len(delivered) \in Nat
    BY LenProperties DEF FrameInv, Typed
  <2>3. Len(delivered) + 1 \in 1..Len(sent) /\ Len(delivered) < Len(sent')
    BY <1>3, <1>5, <2>1, <2>2
  <2> QED BY <1>5, <2>1, <2>3
<1>10. IsPrefix(delivered', sent')
  <2>1. PICK more \in Seq(Seq(Nat)) : Cut(sent, delivered, more)
    BY PrefixRest DEF FrameInv, Typed
  <2>2. Append(more, f) \in Seq(Seq(Nat))
    BY AppendProperties
  <2>3. delivered \o Append(more, f) = Append(delivered \o more, f)
    <3>1. delivered \in Seq(Seq(Nat))
      BY DEF FrameInv, Typed
    <3>2. PICK d \in Seq(Seq(Nat)) : d = delivered
      BY <3>1
    <3>3. d \o Append(more, f) = Append(d \o more, f)
      <4> DEFINE S == Seq(Nat)
      <4>1. d \in Seq(S) /\ more \in Seq(S) /\ f \in S
        OBVIOUS
      <4> HIDE DEF S
      <4> QED BY <4>1, AppendToConcat
    <3> QED BY <3>2, <3>3, Zenon
  <2>4. Cut(sent', delivered, Append(more, f))
    BY <1>1, <1>4, <2>1, <2>3, Zenon DEF Cut
  <2>5. IsPrefix(delivered, sent')
    BY <2>2, <2>4, RestPrefix DEF FrameInv, Typed
  <2> QED BY <1>2, <2>5
<1>11. Follows(sent', delivered', buffer', wire', <<>>)
  <2>1. PICK rest \in Seq(Nat) : Follows(sent, delivered, buffer, wire, rest) /\ rest = <<>>
    BY <1>2 DEF FrameInv
  <2>2. PICK u \in Seq(Nat) : u = FlattenSeq(delivered)
    BY FlattenType DEF FrameInv, Typed
  <2>3. PICK b \in Seq(Nat), w \in Seq(Nat) : b = buffer /\ w = wire
    BY DEF FrameInv, Typed
  <2>4. PICK x \in Seq(Nat) : x = b \o w
    BY ConcatProperties
  <2>5. x \o rest = x
    BY <2>1, ConcatEmptySeq
  <2>6. FlattenSeq(sent) = u \o x
    BY <2>1, <2>2, <2>3, <2>4, <2>5, Zenon DEF Follows, Cut
  <2>7. FlattenSeq(sent') = (u \o x) \o f
    <3>1. sent \in Seq(Seq(Nat))
      BY DEF FrameInv, Typed
    <3>2. Cut(FlattenSeq(Append(sent, f)), FlattenSeq(sent), f)
      BY <3>1, FlattenAppend
    <3> QED BY <1>1, <1>4, <2>6, <3>2, Zenon DEF Cut
  <2>8. (u \o x) \o f = u \o (x \o f) /\ (b \o w) \o f = b \o (w \o f)
    <3>1. (u \o x) \o f = u \o (x \o f)
      <4>1. Assoc(u, x, f)
        BY Regroup
      <4> QED BY <4>1, Zenon DEF Assoc
    <3>2. (b \o w) \o f = b \o (w \o f)
      <4>1. Assoc(b, w, f)
        BY Regroup
      <4> QED BY <4>1, Zenon DEF Assoc
    <3> QED BY <3>1, <3>2
  <2>9. PICK v \in Seq(Nat) : v = w \o f
    BY ConcatProperties
  <2>10. PICK z \in Seq(Nat) : z = b \o v
    BY ConcatProperties
  <2>11. z \o <<>> = z
    BY ConcatEmptySeq
  <2>12. x \o f = z
    BY <2>4, <2>8, <2>9, <2>10, Zenon
  <2>13. FlattenSeq(sent') = u \o ((b \o v) \o <<>>)
    BY <2>7, <2>8, <2>10, <2>11, <2>12, Zenon
  <2>14. wire' = v /\ buffer' = b /\ FlattenSeq(delivered') = u
    BY <1>2, <1>6, <2>2, <2>3, <2>9, Zenon
  <2> QED BY <2>13, <2>14, Zenon DEF Follows, Cut
<1>12. \E rest \in Seq(Nat) :
          Follows(sent', delivered', buffer', wire', rest) /\ (closed' \/ rest = <<>>)
  BY <1>11, EmptySeq
<1> QED BY <1>7, <1>8, <1>9, <1>10, <1>12, Zenon DEF FrameInv

(* A client that goes away takes the end of its stream with it.            *)
LEMMA CloseKeeps ==
    ASSUME FrameInv, ClientCloses
    PROVE  FrameInv'
<1>1. PICK n \in 0..Len(wire) : wire' = SubSeq(wire, 1, n)
  BY DEF ClientCloses
<1>2. /\ closed' /\ sent' = sent /\ buffer' = buffer /\ total_len' = total_len
      /\ delivered' = delivered
  BY DEF ClientCloses
<1>3. PICK b \in Seq(Nat), w \in Seq(Nat) : b = buffer /\ w = wire
  BY DEF FrameInv, Typed
<1>4. PICK kept \in Seq(Nat), gone \in Seq(Nat) : kept = wire' /\ Cut(w, kept, gone)
  <2>1. n \in 0..Len(w)
    BY <1>3
  <2>2. /\ SubSeq(w, 1, n) \in Seq(Nat) /\ SubSeq(w, n + 1, Len(w)) \in Seq(Nat)
        /\ Cut(w, SubSeq(w, 1, n), SubSeq(w, n + 1, Len(w)))
    BY <2>1, SplitAt
  <2> QED BY <1>1, <1>3, <2>2, Zenon
<1>5. Typed' /\ FramesSent' /\ LengthKnown' /\ IsPrefix(delivered', sent')
  BY <1>2, <1>4 DEF FrameInv, Typed, FramesSent, LengthKnown
<1>6. PICK rest \in Seq(Nat) : Follows(sent, delivered, buffer, wire, rest)
  BY DEF FrameInv
<1>7. PICK more \in Seq(Nat) : more = gone \o rest
  BY ConcatProperties
<1>8. (b \o w) \o rest = (b \o kept) \o more
  <2>1. Cut(b \o w, b \o kept, gone)
    BY <1>4, CutBehind
  <2>2. b \o w = (b \o kept) \o gone
    BY <2>1, Zenon DEF Cut
  <2>3. PICK c \in Seq(Nat) : c = b \o kept
    BY ConcatProperties
  <2>4. (c \o gone) \o rest = c \o (gone \o rest)
    <3>1. Assoc(c, gone, rest)
      BY Regroup
    <3> QED BY <3>1, Zenon DEF Assoc
  <2> QED BY <1>7, <2>1, <2>2, <2>3, <2>4, Zenon
<1>9. Follows(sent', delivered', buffer', wire', more)
  BY <1>2, <1>3, <1>4, <1>6, <1>8, Zenon DEF Follows, Cut
<1> QED BY <1>2, <1>5, <1>9 DEF FrameInv

(* Bytes that are read move from the wire to the end of the read buffer.   *)
LEMMA ReadKeeps ==
    ASSUME FrameInv, ReadBuf
    PROVE  FrameInv'
<1>1. PICK n \in 1..Len(wire) : /\ buffer' = buffer \o SubSeq(wire, 1, n)
                                /\ wire' = SubSeq(wire, n + 1, Len(wire))
  BY DEF ReadBuf
<1>2. /\ closed' = closed /\ sent' = sent /\ total_len' = total_len
      /\ delivered' = delivered
  BY DEF ReadBuf
<1>3. PICK b \in Seq(Nat), w \in Seq(Nat) : b = buffer /\ w = wire
  BY DEF FrameInv, Typed
<1>4. PICK r \in Seq(Nat), v \in Seq(Nat) : Cut(w, r, v) /\ buffer' = b \o r /\ wire' = v
  <2>1. n \in 0..Len(w)
    BY <1>3
  <2>2. /\ SubSeq(w, 1, n) \in Seq(Nat) /\ SubSeq(w, n + 1, Len(w)) \in Seq(Nat)
        /\ Cut(w, SubSeq(w, 1, n), SubSeq(w, n + 1, Len(w)))
    BY <2>1, SplitAt
  <2> QED BY <1>1, <1>3, <2>2, Zenon
<1>5. Typed' /\ FramesSent' /\ LengthKnown' /\ IsPrefix(delivered', sent')
  <2>1. b \o r \in Seq(Nat)
    BY ConcatProperties
  <2>2. buffer' \in Seq(Nat) /\ wire' \in Seq(Nat)
    BY <1>4, <2>1, Zenon
  <2> QED BY <1>2, <2>2 DEF FrameInv, Typed, FramesSent, LengthKnown
<1>6. PICK rest \in Seq(Nat) :
        Follows(sent, delivered, buffer, wire, rest) /\ (closed \/ rest = <<>>)
  BY DEF FrameInv
<1>7. (b \o r) \o v = b \o w
  <2>1. (b \o r) \o v = b \o (r \o v)
    <3>1. Assoc(b, r, v)
      BY Regroup
    <3> QED BY <3>1, Zenon DEF Assoc
  <2>2. w = r \o v
    BY <1>4, Zenon DEF Cut
  <2> QED BY <2>1, <2>2, Zenon
<1>8. Follows(sent', delivered', buffer', wire', rest)
  BY <1>2, <1>3, <1>4, <1>6, <1>7, Zenon DEF Follows, Cut
<1>9. closed' \/ rest = <<>>
  BY <1>2, <1>6
<1> QED BY <1>5, <1>8, <1>9 DEF FrameInv

(* What is in the read buffer is the beginning of the packet that is next, *)
(* or begins with it.                                                      *)
LEMMA BufferBegins ==
    ASSUME FrameInv, NEW b \in Seq(Nat), b = buffer, NEW w \in Seq(Nat), w = wire,
           NEW rest \in Seq(Nat), Follows(sent, delivered, buffer, wire, rest),
           b # <<>> \/ Len(delivered) < Len(sent)
    PROVE  /\ Len(delivered) < Len(sent)
           /\ \E f \in Seq(Nat), y \in Seq(Nat) :
                /\ f = sent[Len(delivered) + 1] /\ Cut((b \o w) \o rest, f, y)
                /\ Begins(b, f)
<1>0. PICK s \in Seq(Seq(Nat)), d \in Seq(Seq(Nat)) : s = sent /\ d = delivered
  BY DEF FrameInv, Typed
<1>1. PICK c \in Seq(Nat) : c = b \o w
  BY ConcatProperties
<1>2. PICK x \in Seq(Nat) : x = c \o rest
  BY ConcatProperties
<1>3. Cut(x, c, rest) /\ Cut(c, b, w)
  BY <1>1, <1>2, Zenon DEF Cut
<1>4. \A i \in 1..Len(b) : x[i] = b[i]
  <2>1. \A i \in 1..Len(c) : x[i] = c[i]
    BY <1>3, RestPrefix
  <2>2. \A i \in 1..Len(b) : c[i] = b[i]
    BY <1>3, RestPrefix
  <2>3. Len(b) <= Len(c) /\ Len(b) \in Nat /\ Len(c) \in Nat
    <3>1. IsPrefix(b, c)
      BY <1>3, RestPrefix
    <3> QED BY <3>1, LenProperties DEF IsPrefix
  <2> QED BY <2>1, <2>2, <2>3
<1>5. Cut(FlattenSeq(s), FlattenSeq(d), x)
  BY <1>0, <1>1, <1>2, Zenon DEF Follows, Cut
<1>6. IsPrefix(d, s)
  BY <1>0, Zenon DEF FrameInv
<1>7. Len(d) < Len(s)
  <2> SUFFICES ASSUME ~(Len(d) < Len(s)) PROVE FALSE
    OBVIOUS
  <2>1. b # <<>> /\ Len(d) \in Nat /\ Len(s) \in Nat
    BY <1>0, LenProperties
  <2>2. PICK more \in Seq(Seq(Nat)) : Cut(s, d, more)
    BY <1>6, PrefixRest
  <2>3. \A i \in 1..Len(d) : s[i] = d[i]
    BY <2>2, RestPrefix
  <2>4. Len(s) = Len(d)
    BY <1>6, <2>1 DEF IsPrefix
  <2>5. s = d
    <3>1. \A i \in 1..Len(s) : s[i] = d[i]
      BY <2>3, <2>4
    <3> QED BY <2>4, <3>1, SeqEqual
  <2>6. PICK u \in Seq(Nat) : u = FlattenSeq(d)
    BY FlattenType
  <2>7. u = u \o x
    BY <1>5, <2>5, <2>6, Zenon DEF Cut
  <2>8. x = <<>>
    BY <2>7, ConcatEqualIffEmpty
  <2>9. c = <<>>
    <3>1. c \o rest = <<>>
      BY <1>2, <2>8, Zenon
    <3> QED BY <3>1, ConcatEqualIffEmpty
  <2>10. b = <<>>
    <3>1. b \o w = <<>>
      BY <1>1, <2>9, Zenon
    <3> QED BY <3>1, ConcatEqualIffEmpty
  <2> QED BY <2>1, <2>10
<1>8. PICK f \in Seq(Nat) : f = s[Len(d) + 1]
  <2>1. Len(d) + 1 \in 1..Len(s)
    BY <1>7, LenProperties
  <2> QED BY <2>1, ElementOfSeq
<1>9. PICK y \in Seq(Nat) : Cut(x, f, y)
  <2>1. \E y \in Seq(Nat) : Cut(x, s[Len(d) + 1], y)
    BY <1>5, <1>6, <1>7, FrontPacket
  <2> QED BY <1>8, <2>1, Zenon
<1>10. \A i \in 1..Len(f) : x[i] = f[i]
  BY <1>9, RestPrefix
<1>11. Begins(b, f)
  <2>1. Len(f) \in Nat /\ Len(b) \in Nat
    BY LenProperties
  <2> QED BY <1>4, <1>10, <2>1 DEF Begins
<1>12. Cut((b \o w) \o rest, f, y)
  BY <1>1, <1>2, <1>9, Zenon
<1>13. Len(delivered) < Len(sent)
  BY <1>0, <1>7
<1>14. f = sent[Len(delivered) + 1]
  BY <1>0, <1>8
<1> QED BY <1>11, <1>12, <1>13, <1>14

(* The length that ParseLength finds is that of the packet at the front.   *)
LEMMA ParseKeeps ==
    ASSUME FrameInv, ParseLength
    PROVE  FrameInv'
<1> DEFINE parsed == parse_remaining_length(buffer)
<1>1. /\ closed' = closed /\ sent' = sent /\ wire' = wire /\ buffer' = buffer
      /\ delivered' = delivered
      /\ total_len = 0 /\ Len(buffer) >= MinHeader
  BY DEF ParseLength
<1>2. \/ /\ parsed.result = "Ok"
         /\ total_len' = 1 + parsed.var_len_bytes + parsed.remaining_len
      \/ total_len' = total_len
  BY DEF ParseLength
<1> HIDE DEF parsed
<1>3. FramesSent' /\ IsPrefix(delivered', sent')
      /\ \E rest \in Seq(Nat) : Follows(sent', delivered', buffer', wire', rest)
                                /\ (closed' \/ rest = <<>>)
  BY <1>1 DEF FrameInv, FramesSent
<1>4. Typed' /\ LengthKnown'
  <2>1. CASE total_len' = total_len
    BY <1>1, <2>1 DEF FrameInv, Typed, LengthKnown
  <2>2. CASE /\ parsed.result = "Ok"
             /\ total_len' = 1 + parsed.var_len_bytes + parsed.remaining_len
    <3>1. PICK b \in Seq(Nat), w \in Seq(Nat) : b = buffer /\ w = wire
      BY DEF FrameInv, Typed
    <3>2. PICK rest \in Seq(Nat) : Follows(sent, delivered, buffer, wire, rest)
      BY DEF FrameInv
    <3>3. b # <<>>
      BY <1>1, <3>1, EmptySeq DEF MinHeader
    <3>4. PICK f \in Seq(Nat) : /\ Len(delivered) < Len(sent)
                                /\ f = sent[Len(delivered) + 1] /\ Begins(b, f)
      BY <3>1, <3>2, <3>3, BufferBegins
    <3>5. PICK k \in Nat : k = Len(delivered) + 1 /\ k \in 1..Len(sent)
      <4>1. Len(delivered) \in Nat /\ Len(sent) \in Nat
        BY LenProperties DEF FrameInv, Typed
      <4>2. Len(delivered) + 1 \in Nat /\ Len(delivered) + 1 \in 1..Len(sent)
        BY <3>4, <4>1
      <4> QED BY <4>2
    <3>6. PICK n \in Lengths : f = Frame(k, n)
      BY <3>4, <3>5 DEF FrameInv, FramesSent
    <3>7. parsed = parse_remaining_length(b)
      BY <3>1 DEF parsed
    <3>8. Begins(b, Frame(k, n))
      BY <3>4, <3>6, Zenon
    <3>9. 1 + parsed.var_len_bytes + parsed.remaining_len = Len(Frame(k, n))
      BY <2>2, <3>7, <3>8, LengthParsed
    <3>10. total_len' = Len(f) /\ Len(f) \in Nat
      BY <2>2, <3>6, <3>9, LenProperties
    <3> QED BY <1>1, <3>4, <3>10 DEF FrameInv, Typed, LengthKnown
  <2> QED BY <1>2, <2>1, <2>2
<1> QED BY <1>3, <1>4, Zenon DEF FrameInv

(* The packet that Decode returns is the next one, and what is after it    *)
(* stays in the buffer.                                                    *)
LEMMA DecodeKeeps ==
    ASSUME FrameInv, Decode
    PROVE  FrameInv'
<1>1. /\ closed' = closed /\ sent' = sent /\ wire' = wire /\ total_len' = 0
      /\ total_len > 0 /\ Len(buffer) >= total_len
      /\ delivered' = Append(delivered, SubSeq(buffer, 1, total_len))
      /\ buffer' = SubSeq(buffer, total_len + 1, Len(buffer))
  BY DEF Decode
<1>2. PICK b \in Seq(Nat), w \in Seq(Nat) : b = buffer /\ w = wire
  BY DEF FrameInv, Typed
<1>3. PICK s \in Seq(Seq(Nat)), d \in Seq(Seq(Nat)) : s = sent /\ d = delivered
  BY DEF FrameInv, Typed
<1>4. PICK rest \in Seq(Nat) :
        Follows(sent, delivered, buffer, wire, rest) /\ (closed \/ rest = <<>>)
  BY DEF FrameInv
<1>5. Len(delivered) < Len(sent) /\ total_len = Len(sent[Len(delivered) + 1])
  BY <1>1 DEF FrameInv, LengthKnown, Typed
<1>6. PICK f \in Seq(Nat) : f = sent[Len(delivered) + 1] /\ Begins(b, f)
  BY <1>2, <1>4, <1>5, BufferBegins
<1>7. PICK n \in 0..Len(b) : n = total_len /\ n = Len(f)
  BY <1>1, <1>2, <1>5, <1>6, LenProperties
<1>8. PICK p \in Seq(Nat), v \in Seq(Nat) :
        /\ p = SubSeq(b, 1, n) /\ v = SubSeq(b, n + 1, Len(b))
        /\ Len(p) = n /\ Cut(b, p, v)
  <2>1. /\ SubSeq(b, 1, n) \in Seq(Nat) /\ Len(SubSeq(b, 1, n)) = n
        /\ SubSeq(b, n + 1, Len(b)) \in Seq(Nat)
        /\ Cut(b, SubSeq(b, 1, n), SubSeq(b, n + 1, Len(b)))
    BY SplitAt
  <2> QED BY <2>1
<1>9. p = f
  <2>1. \A i \in 1..Len(p) : b[i] = p[i]
    BY <1>8, RestPrefix
  <2>2. ASSUME NEW i \in 1..Len(p) PROVE p[i] = f[i]
    <3>1. i \in 1..Len(b) /\ i <= Len(f) /\ b[i] = p[i]
      <4>1. Len(p) = n /\ n \in 0..Len(b) /\ Len(b) \in Nat /\ n = Len(f)
        BY <1>7, <1>8, LenProperties
      <4> QED BY <2>1, <4>1
    <3> QED BY <1>6, <3>1 DEF Begins
  <2> QED BY <1>7, <1>8, <2>2, SeqEqual
<1>10. delivered' = Append(d, f) /\ buffer' = v
  BY <1>1, <1>2, <1>3, <1>7, <1>8, <1>9
<1>11. PICK t \in Seq(Seq(Nat)) : t = Append(d, f)
  BY AppendProperties
<1>12. IsPrefix(t, s)
  <2>1. NextOf(f, d, s)
    <3>1. IsPrefix(d, s)
      BY <1>3, Zenon DEF FrameInv
    <3>2. Len(d) < Len(s) /\ f = s[Len(d) + 1]
      BY <1>3, <1>5, <1>6
    <3> QED BY <3>1, <3>2 DEF NextOf
  <2>2. PICK m \in 0..Len(s) : Takes(Append(d, f), s, m)
    BY <2>1, NextPacket
  <2>3. PICK more \in Seq(Seq(Nat)) : Cut(s, SubSeq(s, 1, m), more)
    BY SplitAt
  <2>4. Cut(s, t, more)
    BY <1>11, <2>2, <2>3, Zenon DEF Takes
  <2> QED BY <2>4, RestPrefix
<1>13. Typed' /\ FramesSent' /\ LengthKnown' /\ IsPrefix(delivered', sent')
  <2>1. delivered' \in Seq(Seq(Nat)) /\ buffer' \in Seq(Nat)
    BY <1>8, <1>10, <1>11
  <2>2. IsPrefix(delivered', sent')
    BY <1>1, <1>3, <1>10, <1>11, <1>12, Zenon
  <2> QED BY <1>1, <2>1, <2>2 DEF FrameInv, Typed, FramesSent, LengthKnown
<1>14. PICK u \in Seq(Nat) : u = FlattenSeq(d)
  BY FlattenType
<1>15. PICK c \in Seq(Nat) : c = v \o w
  BY <1>8, ConcatProperties
<1>16. PICK g \in Seq(Nat) : g = c \o rest
  BY ConcatProperties
<1>17. (b \o w) \o rest = f \o g
  <2>1. (f \o v) \o w = f \o (v \o w)
    <3>1. Assoc(f, v, w)
      BY Regroup
    <3> QED BY <3>1, Zenon DEF Assoc
  <2>2. (f \o c) \o rest = f \o (c \o rest)
    <3>1. Assoc(f, c, rest)
      BY Regroup
    <3> QED BY <3>1, Zenon DEF Assoc
  <2>3. b = f \o v
    BY <1>8, <1>9, Zenon DEF Cut
  <2> QED BY <1>15, <1>16, <2>1, <2>2, <2>3, Zenon
<1>18. FlattenSeq(s) = (u \o f) \o g
  <2>1. FlattenSeq(s) = u \o ((b \o w) \o rest)
    BY <1>2, <1>3, <1>4, <1>14, Zenon DEF Follows, Cut
  <2>2. (u \o f) \o g = u \o (f \o g)
    <3>1. Assoc(u, f, g)
      BY Regroup
    <3> QED BY <3>1, Zenon DEF Assoc
  <2> QED BY <1>17, <2>1, <2>2, Zenon
<1>19. FlattenSeq(t) = u \o f
  <2>1. Cut(FlattenSeq(Append(d, f)), FlattenSeq(d), f)
    BY FlattenAppend
  <2> QED BY <1>11, <1>14, <2>1, Zenon DEF Cut
<1>20. FlattenSeq(s) = FlattenSeq(t) \o ((v \o w) \o rest)
  BY <1>15, <1>16, <1>18, <1>19, Zenon
<1>21. Follows(sent', delivered', buffer', wire', rest)
  BY <1>1, <1>2, <1>3, <1>10, <1>11, <1>20, Zenon DEF Follows, Cut
<1>22. closed' \/ rest = <<>>
  BY <1>1, <1>4
<1> QED BY <1>13, <1>21, <1>22 DEF FrameInv

(* Every step keeps the packets in order. *)
LEMMA FrameStep == FrameInv /\ [Next]_vars => FrameInv'
<1> SUFFICES ASSUME FrameInv, [Next]_vars PROVE FrameInv'
  OBVIOUS
<1>1. CASE ClientSends
  BY <1>1, SendKeeps
<1>2. CASE ClientCloses
  BY <1>2, CloseKeeps
<1>3. CASE ReadHeader
  BY <1>3, ReadKeeps DEF ReadHeader
<1>4. CASE ParseLength
  BY <1>4, ParseKeeps
<1>5. CASE ReadBody
  BY <1>5, ReadKeeps DEF ReadBody
<1>6. CASE Decode
  BY <1>6, DecodeKeeps
<1>7. CASE EndOfStream \/ EndInBody \/ Cancel \/ UNCHANGED vars
  <2>1. /\ closed' = closed /\ sent' = sent /\ wire' = wire /\ buffer' = buffer
        /\ delivered' = delivered /\ (total_len' = total_len \/ total_len' = 0)
    BY <1>7 DEF EndOfStream, EndInBody, Cancel, vars
  <2>2. Typed' /\ LengthKnown'
    BY <2>1 DEF FrameInv, Typed, LengthKnown
  <2> QED BY <2>1, <2>2 DEF FrameInv, FramesSent
<1> QED BY <1>1, <1>2, <1>3, <1>4, <1>5, <1>6, <1>7 DEF Next

(* What the invariant says of the packets and of the bytes. *)
LEMMA InvHolds == FrameInv => NothingLost
<1> SUFFICES ASSUME FrameInv PROVE NothingLost
  OBVIOUS
<1>1. PICK b \in Seq(Nat), w \in Seq(Nat) : b = buffer /\ w = wire
  BY DEF FrameInv, Typed
<1>2. PICK rest \in Seq(Nat) :
        Follows(sent, delivered, buffer, wire, rest) /\ (closed \/ rest = <<>>)
  BY DEF FrameInv
<1>3. PICK u \in Seq(Nat) : u = FlattenSeq(delivered)
  BY FlattenType DEF FrameInv, Typed
<1>4. PICK c \in Seq(Nat) : c = b \o w
  BY ConcatProperties
<1>5. PICK stream \in Seq(Nat) : stream = u \o c
  BY ConcatProperties
<1>6. (u \o c) \o rest = u \o (c \o rest) /\ (u \o b) \o w = u \o (b \o w)
  <2>1. (u \o c) \o rest = u \o (c \o rest)
    <3>1. Assoc(u, c, rest)
      BY Regroup
    <3> QED BY <3>1, Zenon DEF Assoc
  <2>2. (u \o b) \o w = u \o (b \o w)
    <3>1. Assoc(u, b, w)
      BY Regroup
    <3> QED BY <3>1, Zenon DEF Assoc
  <2> QED BY <2>1, <2>2
<1>7. (FlattenSeq(delivered) \o buffer) \o wire = stream
  BY <1>1, <1>3, <1>4, <1>5, <1>6, Zenon
<1>8. Cut(FlattenSeq(sent), stream, rest)
  BY <1>1, <1>2, <1>3, <1>4, <1>5, <1>6, Zenon DEF Follows, Cut
<1>9. IsPrefix(stream, FlattenSeq(sent))
  BY <1>8, RestPrefix
<1>10. closed \/ stream = FlattenSeq(sent)
  <2>1. stream \o <<>> = stream
    BY ConcatEmptySeq
  <2> QED BY <1>2, <1>8, <2>1, Zenon DEF Cut
<1>11. IsPrefix(delivered, sent)
  BY Zenon DEF FrameInv
<1> QED BY <1>7, <1>9, <1>10, <1>11, Zenon DEF NothingLost

(* NothingLost: whatever the lengths of the packets, the pieces in which   *)
(* the network cuts the stream and the reads that are cancelled,           *)
(* read_packet returns the packets the client has sent, in their order,    *)
(* and loses no byte that follows them.                                    *)
THEOREM NothingIsLost == Spec => []NothingLost
<1>1. Init => FrameInv
  BY FrameInit
<1>2. FrameInv /\ [Next]_vars => FrameInv'
  BY FrameStep
<1>3. FrameInv => NothingLost
  BY InvHolds
<1> QED BY <1>1, <1>2, <1>3, PTL DEF Spec

-----------------------------------------------------------------------------
(* Cuts and levels. *)

(* A string has finitely many cuts, and they are numbered from 0 on.       *)
LEMMA CutsOf ==
    ASSUME NEW S, NEW str \in Seq(S)
    PROVE  /\ Cuts(str) \subseteq 0..(Len(str) + 1) /\ IsFiniteSet(Cuts(str))
           /\ 0 \in Cuts(str) /\ Len(str) + 1 \in Cuts(str) /\ Len(str) \in Nat
           /\ \A c \in Cuts(str) : Rank(str, c) \in Nat
           /\ Rank(str, 0) = 0
<1>1. Len(str) \in Nat /\ DOMAIN str = 1..Len(str)
  BY LenProperties
<1>2. /\ Cuts(str) \subseteq 0..(Len(str) + 1)
      /\ 0 \in Cuts(str) /\ Len(str) + 1 \in Cuts(str)
  BY <1>1 DEF Cuts
<1>3. IsFiniteSet(0..(Len(str) + 1))
  BY <1>1, FS_Interval
<1>4. IsFiniteSet(Cuts(str))
  BY <1>2, <1>3, FS_Subset
<1>5. ASSUME NEW c \in Cuts(str) PROVE Rank(str, c) \in Nat
  <2> DEFINE B == {d \in Cuts(str) : d < c}
  <2>1. B \subseteq Cuts(str)
    OBVIOUS
  <2> HIDE DEF B
  <2>2. Cardinality(B) \in Nat
    BY <1>4, <2>1, FS_Subset, FS_CardinalityType
  <2> QED BY <2>2 DEF Rank, B
<1>6. Rank(str, 0) = 0
  <2>1. {d \in Cuts(str) : d < 0} = {}
    BY <1>1, <1>2
  <2> QED BY <2>1, FS_EmptySet DEF Rank
<1> QED BY <1>1, <1>2, <1>4, <1>5, <1>6

(* A later cut has a higher number, the next one by 1.                     *)
LEMMA LaterCut ==
    ASSUME NEW S, NEW str \in Seq(S), NEW c \in Cuts(str), NEW d \in Cuts(str), c < d
    PROVE  /\ Rank(str, c) + 1 <= Rank(str, d)
           /\ (\A e \in Cuts(str) : ~(c < e /\ e < d)) => Rank(str, d) = Rank(str, c) + 1
<1> DEFINE B == {e \in Cuts(str) : e < c}
           D == {e \in Cuts(str) : e < d}
           C == B \cup {c}
<1>1. Cuts(str) \subseteq Nat /\ IsFiniteSet(Cuts(str))
  <2>1. Cuts(str) \subseteq 0..(Len(str) + 1) /\ Len(str) \in Nat
    BY CutsOf
  <2> QED BY <2>1, CutsOf
<1>2. /\ B \subseteq Cuts(str) /\ D \subseteq Cuts(str) /\ c \notin B /\ C \subseteq D
      /\ (\A e \in Cuts(str) : ~(c < e /\ e < d)) => C = D
  BY <1>1
<1>3. Rank(str, c) = Cardinality(B) /\ Rank(str, d) = Cardinality(D)
  BY DEF Rank
<1> HIDE DEF B, D
<1>4. IsFiniteSet(B) /\ IsFiniteSet(D) /\ Cardinality(B) \in Nat
  BY <1>1, <1>2, FS_Subset, FS_CardinalityType
<1>5. Cardinality(C) = Cardinality(B) + 1
  BY <1>2, <1>4, FS_AddElement
<1>6. Cardinality(C) <= Cardinality(D)
  BY <1>2, <1>4, FS_Subset
<1> QED BY <1>2, <1>3, <1>5, <1>6

(* The number of a cut tells which one it is.                              *)
LEMMA NthRank ==
    ASSUME NEW S, NEW str \in Seq(S), NEW c \in Cuts(str)
    PROVE  Nth(str, Rank(str, c)) = c
<1>1. Cuts(str) \subseteq Nat /\ \A e \in Cuts(str) : Rank(str, e) \in Nat
  <2>1. Cuts(str) \subseteq 0..(Len(str) + 1) /\ Len(str) \in Nat
    BY CutsOf
  <2> QED BY <2>1, CutsOf
<1>2. ASSUME NEW e \in Cuts(str), Rank(str, e) = Rank(str, c) PROVE e = c
  <2>1. ~(e < c) /\ ~(c < e)
    <3>1. ASSUME e < c PROVE FALSE
      <4>1. Rank(str, e) + 1 <= Rank(str, c)
        BY <3>1, LaterCut
      <4> QED BY <1>1, <1>2, <4>1
    <3>2. ASSUME c < e PROVE FALSE
      <4>1. Rank(str, c) + 1 <= Rank(str, e)
        BY <3>2, LaterCut
      <4> QED BY <1>1, <1>2, <4>1
    <3> QED BY <3>1, <3>2
  <2> QED BY <1>1, <2>1
<1>3. PICK k : k = Rank(str, c)
  OBVIOUS
<1>4. \E e \in Cuts(str) : Rank(str, e) = k
  BY <1>3
<1>5. Nth(str, k) \in Cuts(str) /\ Rank(str, Nth(str, k)) = k
  BY <1>4 DEF Nth
<1> QED BY <1>2, <1>3, <1>5

(* q is the cut after p. *)
NextCut(str, p, q) ==
    /\ p \in Cuts(str) /\ q \in Cuts(str) /\ p < q
    /\ \A j \in (p + 1)..(q - 1) : str[j] # "/"

(* Between two cuts that follow each other there is a level.               *)
LEMMA LevelBetween ==
    ASSUME NEW S, NEW str \in Seq(S), NEW p, NEW q, NextCut(str, p, q)
    PROVE  /\ Rank(str, q) = Rank(str, p) + 1
           /\ Rank(str, p) \in Nat /\ Rank(str, p) + 1 \in 1..Len(Levels(str))
           /\ Levels(str)[Rank(str, p) + 1] = SubSeq(str, p + 1, q - 1)
           /\ Len(Levels(str)) = Rank(str, Len(str) + 1)
<1>1. /\ Cuts(str) \subseteq 0..(Len(str) + 1) /\ Len(str) \in Nat
      /\ Len(str) + 1 \in Cuts(str) /\ \A e \in Cuts(str) : Rank(str, e) \in Nat
  BY CutsOf
<1>2. p \in Cuts(str) /\ q \in Cuts(str) /\ p < q
  BY DEF NextCut
<1>3. ASSUME NEW e \in Cuts(str), p < e, e < q PROVE FALSE
  <2>1. e \in (p + 1)..(q - 1) /\ e # 0 /\ e # Len(str) + 1
    BY <1>1, <1>2, <1>3
  <2>2. str[e] = "/"
    BY <2>1 DEF Cuts
  <2> QED BY <2>1, <2>2 DEF NextCut
<1>4. Rank(str, q) = Rank(str, p) + 1
  BY <1>2, <1>3, LaterCut
<1>5. Rank(str, q) <= Rank(str, Len(str) + 1)
  <2>1. CASE q = Len(str) + 1
    BY <1>1, <2>1
  <2>2. CASE q # Len(str) + 1
    <3>1. q < Len(str) + 1
      BY <1>1, <1>2, <2>2
    <3>2. Rank(str, q) + 1 <= Rank(str, Len(str) + 1)
      BY <1>1, <1>2, <3>1, LaterCut
    <3> QED BY <1>1, <1>2, <3>2
  <2> QED BY <2>1, <2>2
<1>6. PICK i \in Nat, n \in Nat : i = Rank(str, p) /\ n = Rank(str, Len(str) + 1)
  BY <1>1, <1>2
<1>7. Nth(str, i) = p /\ Nth(str, i + 1) = q
  BY <1>2, <1>4, <1>6, NthRank
<1>8. i + 1 \in 1..n
  BY <1>4, <1>5, <1>6
<1>9. Levels(str) = [k \in 1..n |-> SubSeq(str, Nth(str, k - 1) + 1, Nth(str, k) - 1)]
  BY <1>6 DEF Levels
<1>10. Len(Levels(str)) = n
  BY <1>9
<1>11. (i + 1) - 1 = i
  OBVIOUS
<1>12. Levels(str)[i + 1] = SubSeq(str, p + 1, q - 1)
  <2>1. Levels(str)[i + 1] = SubSeq(str, Nth(str, (i + 1) - 1) + 1, Nth(str, i + 1) - 1)
    BY <1>8, <1>9
  <2> QED BY <1>7, <1>11, <2>1
<1> QED BY <1>4, <1>6, <1>8, <1>10, <1>12

-----------------------------------------------------------------------------
(* The iterator. *)

(* it has yielded what is before the cut p. *)
At(it, str, p) ==
    /\ p \in Cuts(str)
    /\ \/ p = Len(str) + 1 /\ it = [remaining |-> <<>>, pending_empty |-> FALSE]
       \/ p = Len(str) /\ it = [remaining |-> <<>>, pending_empty |-> TRUE]
       \/ /\ p < Len(str)
          /\ it = [remaining |-> SubSeq(str, p + 1, Len(str)), pending_empty |-> FALSE]

(* LevelIterator::new starts before the first level.                       *)
LEMMA AtStart ==
    ASSUME NEW S, NEW str \in Seq(S), str # <<>>
    PROVE  At(LevelIterator(str), str, 0)
<1>1. Len(str) \in Nat /\ 0 \in Cuts(str)
  BY CutsOf
<1>2. 0 < Len(str)
  BY <1>1, EmptySeq
<1>3. SubSeq(str, 0 + 1, Len(str)) = str
  <2>1. 0 + 1 = 1
    OBVIOUS
  <2>2. SubSeq(str, 1, Len(str)) = str
    BY SubSeqFull
  <2> QED BY <2>1, <2>2
<1>4. LevelIterator(str) = [remaining |-> str, pending_empty |-> FALSE]
  BY DEF LevelIterator
<1> QED BY <1>1, <1>2, <1>3, <1>4, Zenon DEF At

(* An iterator at the end yields None.                                     *)
LEMMA NoneAtEnd ==
    ASSUME NEW S, NEW str \in Seq(S), NEW it, At(it, str, Len(str) + 1)
    PROVE  Level(it) = NoLevel
<1>1. Len(str) \in Nat
  BY LenProperties
<1>2. it = [remaining |-> <<>>, pending_empty |-> FALSE]
  BY <1>1 DEF At
<1> QED BY <1>2 DEF Level

(* The characters of the rest of a string. *)
LEMMA RestOf ==
    ASSUME NEW S, NEW str \in Seq(S), NEW p \in 0..Len(str), NEW r,
           r = SubSeq(str, p + 1, Len(str))
    PROVE  /\ r \in Seq(S) /\ Len(r) = Len(str) - p /\ Len(str) \in Nat
           /\ DOMAIN r = 1..(Len(str) - p)
           /\ \A j \in 1..(Len(str) - p) : r[j] = str[p + j]
<1>1. Len(str) \in Nat /\ p \in Nat
  BY LenProperties
<1>2. p + 1 \in Int /\ Len(str) \in Int
  BY <1>1
<1>3. \A j \in (p + 1)..Len(str) : str[j] \in S
  BY <1>1, ElementOfSeq
<1>4. /\ r \in Seq(S)
      /\ Len(r) = IF p + 1 <= Len(str) THEN Len(str) - (p + 1) + 1 ELSE 0
      /\ \A j \in 1..(Len(str) - (p + 1) + 1) : r[j] = str[(p + 1) + j - 1]
  BY <1>2, <1>3, SubSeqProperties
<1>5. Len(r) = Len(str) - p
  BY <1>1, <1>4
<1>6. ASSUME NEW j \in 1..(Len(str) - p) PROVE r[j] = str[p + j]
  <2>1. j \in 1..(Len(str) - (p + 1) + 1) /\ (p + 1) + j - 1 = p + j
    BY <1>1
  <2> QED BY <1>4, <2>1
<1> QED BY <1>1, <1>4, <1>5, <1>6, LenProperties

(* A part without a separator is not the end of the levels.                *)
LEMMA LevelIsNone ==
    ASSUME NEW S, NEW str \in Seq(S), NEW p \in 0..Len(str), NEW q \in (p + 1)..(Len(str) + 1),
           \A j \in (p + 1)..(q - 1) : str[j] # "/"
    PROVE  SubSeq(str, p + 1, q - 1) # NoLevel
<1>1. Len(str) \in Nat /\ p \in Nat /\ p + 1 \in Int /\ q - 1 \in Int /\ q \in Nat
  BY LenProperties
<1>2. PICK l : l = SubSeq(str, p + 1, q - 1)
  OBVIOUS
<1>3. \A j \in (p + 1)..(q - 1) : str[j] \in S
  BY <1>1, ElementOfSeq
<1>4. /\ Len(l) = IF p + 1 <= q - 1 THEN (q - 1) - (p + 1) + 1 ELSE 0
      /\ \A j \in 1..((q - 1) - (p + 1) + 1) : l[j] = str[(p + 1) + j - 1]
  BY <1>1, <1>2, <1>3, SubSeqProperties
<1>5. ASSUME l = NoLevel PROVE FALSE
  <2>1. Len(l) = 1 /\ l[1] = "/"
    BY <1>5 DEF NoLevel
  <2>0. p + 1 <= q - 1
    <3> SUFFICES ASSUME ~(p + 1 <= q - 1) PROVE FALSE
      OBVIOUS
    <3>1. Len(l) = 0
      BY <1>4, Zenon
    <3> QED BY <2>1, <3>1
  <2>2. 1 \in 1..((q - 1) - (p + 1) + 1) /\ (p + 1) + 1 - 1 = p + 1 /\ p + 1 \in (p + 1)..(q - 1)
    BY <1>1, <2>0
  <2>3. str[p + 1] = "/"
    BY <1>4, <2>1, <2>2
  <2> QED BY <2>2, <2>3
<1> QED BY <1>2, <1>5

(* What LevelIterator::next does: it yields the next level and goes to the *)
(* cut behind it.                                                          *)
Yields(it, str, p, q) ==
    /\ NextCut(str, p, q) /\ At(Advance(it), str, q)
    /\ Level(it) = SubSeq(str, p + 1, q - 1) /\ Level(it) # NoLevel

(* After a trailing separator there is one more, empty level.              *)
LEMMA LastEmpty ==
    ASSUME NEW S, NEW str \in Seq(S), NEW it, NEW p, At(it, str, p), p = Len(str)
    PROVE  Yields(it, str, p, Len(str) + 1)
<1>1. Len(str) \in Nat /\ Len(str) + 1 \in Cuts(str)
  BY CutsOf
<1>2. p \in Cuts(str) /\ it = [remaining |-> <<>>, pending_empty |-> TRUE]
  BY <1>1 DEF At
<1>3. NextCut(str, p, Len(str) + 1)
  BY <1>1, <1>2 DEF NextCut
<1>4. Advance(it) = [remaining |-> <<>>, pending_empty |-> FALSE]
  BY <1>2 DEF Advance
<1>5. At(Advance(it), str, Len(str) + 1)
  BY <1>1, <1>2, <1>4 DEF At
<1>6. Level(it) = <<>>
  BY <1>2 DEF Level
<1>7. SubSeq(str, p + 1, (Len(str) + 1) - 1) = <<>>
  BY <1>1, SubSeqEmpty
<1>8. <<>> # NoLevel
  BY DEF NoLevel
<1> QED BY <1>3, <1>5, <1>6, <1>7, <1>8 DEF Yields

(* The first separator of the rest is the next one of the string.          *)
LEMMA FirstSlashIs ==
    ASSUME NEW S, NEW r \in Seq(S), \E i \in DOMAIN r : r[i] = "/"
    PROVE  /\ FirstSlash(r) \in 1..Len(r) /\ r[FirstSlash(r)] = "/"
           /\ \A j \in 1..(FirstSlash(r) - 1) : r[j] # "/"
<1>1. Len(r) \in Nat /\ DOMAIN r = 1..Len(r)
  BY LenProperties
<1> DEFINE T == {n \in Nat : n <= Len(r) => \/ \A j \in 1..n : r[j] # "/"
                                            \/ \E i \in 1..n : /\ r[i] = "/"
                                                               /\ \A j \in 1..(i - 1) : r[j] # "/"}
<1>2. 0 \in T
  OBVIOUS
<1>3. ASSUME NEW n \in Nat, n \in T PROVE n + 1 \in T
  <2> SUFFICES ASSUME n + 1 <= Len(r)
               PROVE  \/ \A j \in 1..(n + 1) : r[j] # "/"
                      \/ \E i \in 1..(n + 1) : /\ r[i] = "/"
                                               /\ \A j \in 1..(i - 1) : r[j] # "/"
    OBVIOUS
  <2>1. CASE \A j \in 1..n : r[j] # "/"
    <3>1. CASE r[n + 1] = "/"
      <4>1. n + 1 \in 1..(n + 1) /\ (n + 1) - 1 = n
        OBVIOUS
      <4> QED BY <2>1, <3>1, <4>1
    <3>2. CASE r[n + 1] # "/"
      <4>1. ASSUME NEW j \in 1..(n + 1) PROVE j \in 1..n \/ j = n + 1
        OBVIOUS
      <4> QED BY <2>1, <3>2, <4>1
    <3> QED BY <3>1, <3>2
  <2>2. CASE \E i \in 1..n : r[i] = "/" /\ \A j \in 1..(i - 1) : r[j] # "/"
    <3>1. PICK i \in 1..n : r[i] = "/" /\ \A j \in 1..(i - 1) : r[j] # "/"
      BY <2>2
    <3>2. i \in 1..(n + 1)
      OBVIOUS
    <3> QED BY <3>1, <3>2
  <2>3. n <= Len(r)
    BY <1>1
  <2> QED BY <1>3, <2>1, <2>2, <2>3
<1> HIDE DEF T
<1>4. Len(r) \in T
  BY <1>1, <1>2, <1>3, NatSet
<1>5. \E i \in DOMAIN r : r[i] = "/" /\ \A j \in 1..(i - 1) : r[j] # "/"
  BY <1>1, <1>4 DEF T
<1>6. /\ FirstSlash(r) \in DOMAIN r /\ r[FirstSlash(r)] = "/"
      /\ \A j \in 1..(FirstSlash(r) - 1) : r[j] # "/"
  BY <1>5 DEF FirstSlash
<1> QED BY <1>1, <1>6

(* A level that ends at a separator: the rest of the string is behind it.  *)
LEMMA LevelThenMore ==
    ASSUME NEW S, NEW str \in Seq(S), NEW it, NEW p, At(it, str, p), p < Len(str),
           NEW r, r = SubSeq(str, p + 1, Len(str)), \E i \in DOMAIN r : r[i] = "/"
    PROVE  \E q : Yields(it, str, p, q)
<1>1. Len(str) \in Nat /\ p \in 0..Len(str)
  <2>1. Len(str) \in Nat /\ Cuts(str) \subseteq 0..(Len(str) + 1)
    BY CutsOf
  <2> QED BY <2>1 DEF At
<1>2. p \in Cuts(str) /\ it = [remaining |-> r, pending_empty |-> FALSE]
  BY <1>1 DEF At
<1>3. /\ r \in Seq(S) /\ Len(r) = Len(str) - p /\ DOMAIN r = 1..(Len(str) - p)
      /\ \A j \in 1..(Len(str) - p) : r[j] = str[p + j]
  BY <1>1, RestOf
<1>4. PICK k : k = FirstSlash(r)
  OBVIOUS
<1>5. k \in 1..Len(r) /\ r[k] = "/" /\ \A j \in 1..(k - 1) : r[j] # "/"
  BY <1>3, <1>4, FirstSlashIs
<1>6. PICK q \in 1..Len(str) : q = p + k
  <2>1. p + k \in 1..Len(str)
    BY <1>1, <1>3, <1>5
  <2> QED BY <2>1
<1>7. str[q] = "/" /\ p < q
  BY <1>1, <1>3, <1>5, <1>6
<1>8. ASSUME NEW j \in (p + 1)..(q - 1) PROVE str[j] # "/"
  <2>1. j - p \in 1..(k - 1) /\ j - p \in 1..(Len(str) - p) /\ p + (j - p) = j
    BY <1>1, <1>3, <1>5, <1>6
  <2> QED BY <1>3, <1>5, <2>1
<1>9. q \in Cuts(str)
  <2>1. DOMAIN str = 1..Len(str)
    BY LenProperties
  <2> QED BY <1>7, <2>1 DEF Cuts
<1>10. NextCut(str, p, q)
  BY <1>2, <1>7, <1>8, <1>9 DEF NextCut
<1>11. PICK l, rest : l = SubSeq(r, 1, k - 1) /\ rest = SubSeq(r, k + 1, Len(r))
  OBVIOUS
<1>12. r # <<>>
  BY <1>3, <1>5, EmptySeq
<1>13. Level(it) = l
  BY <1>2, <1>4, <1>11, <1>12 DEF Level
<1>14. Advance(it) = [remaining |-> rest, pending_empty |-> rest = <<>>]
  BY <1>2, <1>4, <1>11, <1>12 DEF Advance
<1>15. l = SubSeq(str, p + 1, q - 1)
  <2> DEFINE m == SubSeq(str, p + 1, q - 1)
  <2>1. /\ 1 \in Int /\ k - 1 \in Int /\ \A j \in 1..(k - 1) : r[j] \in S
        /\ p + 1 \in Int /\ q - 1 \in Int /\ \A j \in (p + 1)..(q - 1) : str[j] \in S
    <3>1. \A j \in 1..(k - 1) : j \in 1..Len(r)
      BY <1>1, <1>3, <1>5
    <3>2. \A j \in (p + 1)..(q - 1) : j \in 1..Len(str)
      BY <1>1, <1>6
    <3> QED BY <1>1, <1>3, <1>5, <1>6, <3>1, <3>2, ElementOfSeq
  <2>2. /\ l \in Seq(S) /\ Len(l) = IF 1 <= k - 1 THEN (k - 1) - 1 + 1 ELSE 0
        /\ \A j \in 1..((k - 1) - 1 + 1) : l[j] = r[1 + j - 1]
    <3>1. PICK h \in Int : h = k - 1
      BY <2>1
    <3>2. l = SubSeq(r, 1, h) /\ 1 \in Int /\ \A j \in 1..h : r[j] \in S
      BY <1>11, <2>1, <3>1
    <3>3. PICK o : o = r
      OBVIOUS
    <3>4. l = SubSeq(o, 1, h) /\ 1 \in Int /\ \A j \in 1..h : o[j] \in S
      BY <3>2, <3>3
    <3>5. /\ l \in Seq(S) /\ Len(l) = IF 1 <= h THEN h - 1 + 1 ELSE 0
          /\ \A j \in 1..(h - 1 + 1) : l[j] = o[1 + j - 1]
      BY <3>4, SubSeqProperties
    <3> QED BY <3>1, <3>3, <3>5
  <2>3. /\ m \in Seq(S) /\ Len(m) = IF p + 1 <= q - 1 THEN (q - 1) - (p + 1) + 1 ELSE 0
        /\ \A j \in 1..((q - 1) - (p + 1) + 1) : m[j] = str[(p + 1) + j - 1]
    BY <2>1, SubSeqProperties
  <2> HIDE DEF m
  <2>4. Len(l) = k - 1 /\ Len(m) = k - 1
    BY <1>1, <1>3, <1>5, <1>6, <2>2, <2>3
  <2>5. ASSUME NEW j \in 1..(k - 1) PROVE l[j] = m[j]
    <3>1. /\ j \in 1..((k - 1) - 1 + 1) /\ 1 + j - 1 = j
          /\ j \in 1..((q - 1) - (p + 1) + 1) /\ (p + 1) + j - 1 = p + j
          /\ j \in 1..(Len(str) - p)
      BY <1>1, <1>3, <1>5, <1>6
    <3> QED BY <1>3, <2>2, <2>3, <3>1
  <2>6. l = m
    BY <2>2, <2>3, <2>4, <2>5, SeqEqual
  <2> QED BY <2>6 DEF m
<1>16. rest = SubSeq(str, q + 1, Len(str))
  <2> DEFINE m == SubSeq(str, q + 1, Len(str))
  <2>1. /\ m \in Seq(S) /\ Len(m) = Len(str) - q
        /\ \A j \in 1..(Len(str) - q) : m[j] = str[q + j]
    <3>1. q \in 0..Len(str)
      BY <1>1
    <3> QED BY <3>1, RestOf
  <2>2. /\ rest \in Seq(S) /\ Len(rest) = Len(r) - k
        /\ \A j \in 1..(Len(r) - k) : rest[j] = r[k + j]
    <3>1. k \in 0..Len(r) /\ r \in Seq(S) /\ rest = SubSeq(r, k + 1, Len(r))
      BY <1>3, <1>5, <1>11
    <3>2. PICK o : o = r
      OBVIOUS
    <3>3. k \in 0..Len(o) /\ o \in Seq(S) /\ rest = SubSeq(o, k + 1, Len(o))
      BY <3>1, <3>2
    <3>4. /\ rest \in Seq(S) /\ Len(rest) = Len(o) - k
          /\ \A j \in 1..(Len(o) - k) : rest[j] = o[k + j]
      BY <3>3, RestOf
    <3> QED BY <3>2, <3>4
  <2> HIDE DEF m
  <2>3. Len(rest) = Len(m)
    BY <1>1, <1>3, <1>5, <1>6, <2>1, <2>2
  <2>4. ASSUME NEW j \in 1..Len(rest) PROVE rest[j] = m[j]
    <3>1. j \in 1..(Len(r) - k) /\ j \in 1..(Len(str) - q)
          /\ k + j \in 1..(Len(str) - p) /\ p + (k + j) = q + j
      BY <1>1, <1>3, <1>5, <1>6, <2>2, <2>4
    <3> QED BY <1>3, <2>1, <2>2, <3>1
  <2>5. rest = m
    BY <2>1, <2>2, <2>3, <2>4, SeqEqual
  <2> QED BY <2>5 DEF m
<1>17. At(Advance(it), str, q)
  <2>1. CASE q = Len(str)
    <3>1. rest = <<>>
      BY <1>1, <1>16, <2>1, SubSeqEmpty
    <3>2. Advance(it) = [remaining |-> <<>>, pending_empty |-> TRUE]
      BY <1>14, <3>1
    <3> QED BY <1>9, <2>1, <3>2 DEF At
  <2>2. CASE q # Len(str)
    <3>1. q < Len(str)
      BY <1>1, <2>2
    <3>2. rest # <<>>
      <4>1. q \in 0..Len(str)
        BY <1>1
      <4>2. Len(rest) = Len(str) - q
        BY <1>16, <4>1, RestOf
      <4> QED BY <1>1, <3>1, <4>2, EmptySeq
    <3>3. Advance(it) = [remaining |-> rest, pending_empty |-> FALSE]
      BY <1>14, <3>2
    <3> QED BY <1>9, <1>16, <3>1, <3>3 DEF At
  <2> QED BY <2>1, <2>2
<1>18. Level(it) # NoLevel
  <2>1. q \in (p + 1)..(Len(str) + 1)
    BY <1>1, <1>7
  <2>2. SubSeq(str, p + 1, q - 1) # NoLevel
    BY <1>1, <1>8, <2>1, LevelIsNone
  <2> QED BY <1>13, <1>15, <2>2
<1>19. Level(it) = SubSeq(str, p + 1, q - 1)
  BY <1>13, <1>15
<1> QED BY <1>10, <1>17, <1>18, <1>19 DEF Yields

(* The last level: no separator is left.                                   *)
LEMMA LevelThenEnd ==
    ASSUME NEW S, NEW str \in Seq(S), NEW it, NEW p, At(it, str, p), p < Len(str),
           NEW r, r = SubSeq(str, p + 1, Len(str)), ~\E i \in DOMAIN r : r[i] = "/"
    PROVE  Yields(it, str, p, Len(str) + 1)
<1>1. Len(str) \in Nat /\ p \in 0..Len(str) /\ Len(str) + 1 \in Cuts(str)
  <2>1. /\ Len(str) \in Nat /\ Cuts(str) \subseteq 0..(Len(str) + 1)
        /\ Len(str) + 1 \in Cuts(str)
    BY CutsOf
  <2> QED BY <2>1 DEF At
<1>2. p \in Cuts(str) /\ it = [remaining |-> r, pending_empty |-> FALSE]
  BY <1>1 DEF At
<1>3. /\ r \in Seq(S) /\ Len(r) = Len(str) - p /\ DOMAIN r = 1..(Len(str) - p)
      /\ \A j \in 1..(Len(str) - p) : r[j] = str[p + j]
  BY <1>1, RestOf
<1>4. r # <<>>
  <2>1. Len(r) # 0
    BY <1>1, <1>3
  <2> QED BY <2>1, EmptySeq
<1>5. ASSUME NEW j \in (p + 1)..((Len(str) + 1) - 1) PROVE str[j] # "/"
  <2>1. j - p \in 1..(Len(str) - p) /\ p + (j - p) = j
    BY <1>1
  <2> QED BY <1>3, <2>1
<1>6. NextCut(str, p, Len(str) + 1)
  BY <1>1, <1>2, <1>5 DEF NextCut
<1>7. Level(it) = r /\ Advance(it) = [remaining |-> <<>>, pending_empty |-> FALSE]
  BY <1>2, <1>4 DEF Level, Advance
<1>8. At(Advance(it), str, Len(str) + 1)
  BY <1>1, <1>7 DEF At
<1>9. r = SubSeq(str, p + 1, (Len(str) + 1) - 1)
  <2>1. (Len(str) + 1) - 1 = Len(str)
    BY <1>1
  <2> QED BY <2>1, Zenon
<1>10. Level(it) # NoLevel
  <2>1. Len(str) + 1 \in (p + 1)..(Len(str) + 1)
    BY <1>1
  <2>2. SubSeq(str, p + 1, (Len(str) + 1) - 1) # NoLevel
    BY <1>1, <1>5, <2>1, LevelIsNone
  <2> QED BY <1>7, <1>9, <2>2
<1> QED BY <1>6, <1>7, <1>8, <1>9, <1>10 DEF Yields

(* LevelIterator::next yields the level behind any cut but the last.       *)
LEMMA NextLevel ==
    ASSUME NEW S, NEW str \in Seq(S), NEW it, NEW p, At(it, str, p), p # Len(str) + 1
    PROVE  \E q : Yields(it, str, p, q)
<1>1. CASE p = Len(str)
  BY <1>1, LastEmpty
<1>2. CASE p # Len(str)
  <2>1. p < Len(str)
    BY <1>2 DEF At
  <2>2. PICK r : r = SubSeq(str, p + 1, Len(str))
    OBVIOUS
  <2> QED BY <2>1, <2>2, LevelThenMore, LevelThenEnd
<1> QED BY <1>1, <1>2

(* A string has at least one level, and the last cut is behind them all.   *)
LEMMA LevelCount ==
    ASSUME NEW S, NEW str \in Seq(S)
    PROVE  /\ Len(Levels(str)) = Rank(str, Len(str) + 1)
           /\ Len(Levels(str)) \in Nat \ {0}
           /\ \A c \in Cuts(str) : Rank(str, c) = Len(Levels(str)) => c = Len(str) + 1
<1>1. /\ Len(str) \in Nat /\ 0 \in Cuts(str) /\ Len(str) + 1 \in Cuts(str)
      /\ Rank(str, 0) = 0 /\ \A c \in Cuts(str) : Rank(str, c) \in Nat
  BY CutsOf
<1>2. PICK n \in Nat : n = Rank(str, Len(str) + 1)
  BY <1>1
<1>3. Rank(str, 0) + 1 <= Rank(str, Len(str) + 1)
  <2>1. 0 < Len(str) + 1
    BY <1>1
  <2> QED BY <1>1, <2>1, LaterCut
<1>4. Levels(str) = [k \in 1..n |-> SubSeq(str, Nth(str, k - 1) + 1, Nth(str, k) - 1)]
  BY <1>2 DEF Levels
<1>5. Len(Levels(str)) = n
  BY <1>4
<1>6. ASSUME NEW c \in Cuts(str), Rank(str, c) = n PROVE c = Len(str) + 1
  <2>1. Nth(str, Rank(str, c)) = c /\ Nth(str, Rank(str, Len(str) + 1)) = Len(str) + 1
    BY <1>1, NthRank
  <2> QED BY <1>2, <1>6, <2>1
<1> QED BY <1>1, <1>2, <1>3, <1>5, <1>6

-----------------------------------------------------------------------------
(* The loop. *)

(* The first i levels have been compared, and none of them settled it. *)
Compared(pub, sub, i) ==
    \A k \in 1..i : /\ Levels(sub)[k] # <<"#">>
                    /\ Levels(sub)[k] = <<"+">> \/ Levels(sub)[k] = Levels(pub)[k]

(* The loop has compared what is before the cuts p and q. *)
Reached(m, pub, sub, p, q) ==
    /\ At(m.pub, pub, p) /\ At(m.sub, sub, q)
    /\ Rank(pub, p) = Rank(sub, q)
    /\ Compared(pub, sub, Rank(sub, q))

(* What topic_matches has returned is right, or the levels before the two  *)
(* iterators do not settle it.                                             *)
Agreed(m, pub, sub) ==
    IF m.returned # "none" THEN (m.returned = "true") = Matches(pub, sub)
    ELSE \E p, q : Reached(m, pub, sub, p, q)

(* A match is true or false. *)
LEMMA MatchesIsBoolean ==
    ASSUME NEW pub, NEW sub PROVE Matches(pub, sub) \in BOOLEAN
BY DEF Matches

(* A "#" that ends the filter matches the levels that are left.            *)
LEMMA HashMatches ==
    ASSUME NEW S, NEW pub \in Seq(S), NEW sub \in Seq(S), NEW i \in Nat,
           Compared(pub, sub, i), i + 1 = Len(Levels(sub)),
           Levels(sub)[i + 1] = <<"#">>, Len(Levels(pub)) >= i
    PROVE  Matches(pub, sub)
<1>1. PICK P, F : P = Levels(pub) /\ F = Levels(sub)
  OBVIOUS
<1>2. Last(F) = <<"#">> /\ Len(F) - 1 = i /\ i < Len(F)
  BY <1>1 DEF Last
<1>3. \A k \in 1..i : F[k] = <<"+">> \/ F[k] = P[k]
  BY <1>1 DEF Compared
<1>4. Len(P) >= i
  BY <1>1
<1> QED BY <1>1, <1>2, <1>3, <1>4 DEF Matches

(* A filter that is used up matches when the name is, too.                 *)
LEMMA EndMatches ==
    ASSUME NEW S, NEW pub \in Seq(S), NEW sub \in Seq(S), NEW i \in Nat,
           Compared(pub, sub, i), i = Len(Levels(sub)), Len(Levels(pub)) >= i
    PROVE  Matches(pub, sub) <=> Len(Levels(pub)) = i
<1>1. PICK P, F : P = Levels(pub) /\ F = Levels(sub)
  OBVIOUS
<1>2. i \in 1..i
  <2>1. i # 0
    BY LevelCount
  <2> QED BY <2>1
<1>3. Last(F) # <<"#">> /\ ~(Len(F) < Len(F))
  BY <1>1, <1>2 DEF Compared, Last
<1>4. \A k \in 1..Len(F) : F[k] = <<"+">> \/ F[k] = P[k]
  BY <1>1 DEF Compared
<1> QED BY <1>1, <1>3, <1>4 DEF Matches

(* A name that is used up does not match, nor does a level that differs.   *)
LEMMA NoMatch ==
    ASSUME NEW S, NEW pub \in Seq(S), NEW sub \in Seq(S), NEW i \in Nat,
           i + 1 \in 1..Len(Levels(sub)), Levels(sub)[i + 1] # <<"#">>,
           \/ Len(Levels(pub)) = i
           \/ Levels(sub)[i + 1] # <<"+">> /\ Levels(sub)[i + 1] # Levels(pub)[i + 1]
    PROVE  ~Matches(pub, sub)
<1>1. PICK P, F : P = Levels(pub) /\ F = Levels(sub)
  OBVIOUS
<1>2. PICK n : n = IF Last(F) = <<"#">> THEN Len(F) - 1 ELSE Len(F)
  OBVIOUS
<1>3. Len(F) \in Nat
  BY <1>1, LevelCount
<1>4. Last(F) = F[Len(F)]
  BY DEF Last
<1>5. n \in Nat /\ i + 1 \in 1..n
  <2>1. CASE Last(F) = <<"#">>
    <3>1. i + 1 # Len(F)
      BY <1>1, <1>4, <2>1
    <3> QED BY <1>1, <1>2, <1>3, <2>1, <3>1
  <2>2. CASE Last(F) # <<"#">>
    BY <1>1, <1>2, <1>3, <2>2
  <2> QED BY <2>1, <2>2
<1>6. Matches(pub, sub) =>
        /\ IF n < Len(F) THEN Len(P) >= n ELSE Len(P) = n
        /\ \A k \in 1..n : F[k] = <<"+">> \/ F[k] = P[k]
  BY <1>1, <1>2 DEF Matches
<1>7. ASSUME Len(P) = i PROVE ~(IF n < Len(F) THEN Len(P) >= n ELSE Len(P) = n)
  BY <1>5, <1>7
<1> QED BY <1>1, <1>5, <1>6, <1>7

(* What a level the name still has says about the number of its levels.    *)
LEMMA LevelsLeft ==
    ASSUME NEW S, NEW str \in Seq(S), NEW it, NEW p, At(it, str, p)
    PROVE  /\ Rank(str, p) \in Nat /\ Len(Levels(str)) \in Nat
           /\ Rank(str, p) <= Len(Levels(str))
           /\ p = Len(str) + 1 <=> Len(Levels(str)) = Rank(str, p)
<1>1. p \in Cuts(str) /\ Rank(str, p) \in Nat
  BY CutsOf DEF At
<1>2. Len(Levels(str)) = Rank(str, Len(str) + 1) /\ Len(Levels(str)) \in Nat
  BY LevelCount
<1>3. Len(Levels(str)) = Rank(str, p) => p = Len(str) + 1
  BY <1>1, LevelCount
<1>4. CASE p = Len(str) + 1
  BY <1>1, <1>2, <1>4
<1>5. CASE p # Len(str) + 1
  <2>1. PICK q : Yields(it, str, p, q)
    BY <1>5, NextLevel
  <2>2. NextCut(str, p, q)
    BY <2>1 DEF Yields
  <2>3. Rank(str, p) + 1 \in 1..Len(Levels(str))
    BY <2>2, LevelBetween
  <2> QED BY <1>1, <1>2, <1>3, <1>5, <2>3
<1> QED BY <1>4, <1>5

(* One level further on both sides, and it did not settle it.              *)
LEMMA ReachedNext ==
    ASSUME NEW S, NEW pub \in Seq(S), NEW sub \in Seq(S), NEW m, NEW p, NEW q, NEW t, NEW u,
           Reached(m, pub, sub, p, q),
           Yields(m.pub, pub, p, t), Yields(m.sub, sub, q, u), Level(m.sub) # <<"#">>,
           Level(m.sub) = <<"+">> \/ Level(m.pub) = Level(m.sub),
           NEW n, n.pub = Advance(m.pub), n.sub = Advance(m.sub)
    PROVE  Reached(n, pub, sub, t, u)
<1>1. At(n.pub, pub, t) /\ At(n.sub, sub, u)
  BY DEF Yields
<1>2. NextCut(pub, p, t) /\ NextCut(sub, q, u)
  BY DEF Yields
<1>3. PICK i : i = Rank(sub, q)
  OBVIOUS
<1>4. Rank(pub, p) = i /\ Compared(pub, sub, i)
  BY <1>3 DEF Reached
<1>5. /\ i \in Nat /\ Rank(sub, u) = i + 1
      /\ Levels(sub)[i + 1] = SubSeq(sub, q + 1, u - 1)
  BY <1>2, <1>3, LevelBetween
<1>6. Rank(pub, t) = i + 1 /\ Levels(pub)[i + 1] = SubSeq(pub, p + 1, t - 1)
  BY <1>2, <1>4, LevelBetween
<1>7. Levels(sub)[i + 1] = Level(m.sub) /\ Levels(pub)[i + 1] = Level(m.pub)
  BY <1>5, <1>6 DEF Yields
<1>8. /\ Levels(sub)[i + 1] # <<"#">>
      /\ Levels(sub)[i + 1] = <<"+">> \/ Levels(sub)[i + 1] = Levels(pub)[i + 1]
  BY <1>7, Zenon
<1>9. Compared(pub, sub, i + 1)
  <2> SUFFICES ASSUME NEW k \in 1..(i + 1)
               PROVE  /\ Levels(sub)[k] # <<"#">>
                      /\ Levels(sub)[k] = <<"+">> \/ Levels(sub)[k] = Levels(pub)[k]
    BY DEF Compared
  <2>1. CASE k = i + 1
    BY <1>8, <2>1, Zenon
  <2>2. CASE k # i + 1
    <3>1. k \in 1..i
      BY <1>5, <2>2
    <3> QED BY <1>4, <3>1, Zenon DEF Compared
  <2> QED BY <2>1, <2>2
<1> QED BY <1>1, <1>5, <1>6, <1>9, Zenon DEF Reached

(* An iteration of the loop, without the iterators it leaves.              *)
LEMMA IterateReturns ==
    ASSUME NEW m, NEW n, n = Iterate(m)
    PROVE  /\ n.pub = Advance(m.pub)
           /\ Level(m.sub) = <<"#">> /\ Level(Advance(m.sub)) = NoLevel => n.returned = "true"
           /\ Level(m.sub) # <<"#">> => n.sub = Advance(m.sub)
           /\ Level(m.sub) = NoLevel =>
                n.returned = IF Level(m.pub) = NoLevel THEN "true" ELSE "false"
           /\ Level(m.sub) # <<"#">> /\ Level(m.sub) # NoLevel =>
                n.returned = IF \/ Level(m.pub) = NoLevel
                                \/ Level(m.sub) # <<"+">> /\ Level(m.pub) # Level(m.sub)
                             THEN "false" ELSE "none"
<1>1. PICK a, b, c, d : a = Level(m.pub) /\ b = Level(m.sub) /\ c = Advance(m.sub)
                        /\ d = Level(c)
  OBVIOUS
<1>2. NoLevel # <<"#">>
  BY DEF NoLevel
<1>3. n.pub = Advance(m.pub) /\ n.sub = IF b = <<"#">> THEN Advance(c) ELSE c
  BY <1>1 DEF Iterate
<1>4. n.returned = IF b = <<"#">> /\ d = NoLevel THEN "true"
                   ELSE IF b = NoLevel
                   THEN IF a = NoLevel THEN "true" ELSE "false"
                   ELSE IF a = NoLevel THEN "false"
                   ELSE IF b # <<"+">> /\ a # b THEN "false"
                   ELSE "none"
  BY <1>1 DEF Iterate
<1>5. /\ b = <<"#">> /\ d = NoLevel => n.returned = "true"
      /\ b = NoLevel => n.returned = IF a = NoLevel THEN "true" ELSE "false"
      /\ b # <<"#">> /\ b # NoLevel =>
           n.returned = IF a = NoLevel \/ (b # <<"+">> /\ a # b) THEN "false" ELSE "none"
  BY <1>2, <1>4
<1>6. b # <<"#">> => n.sub = Advance(m.sub)
  BY <1>1, <1>3
<1> QED BY <1>1, <1>3, <1>5, <1>6, Zenon

(* An iteration settles it rightly or goes one level further.              *)
LEMMA IterateAgrees ==
    ASSUME NEW S, NEW pub \in Seq(S), NEW sub \in Seq(S), HashOnlyLast(sub),
           NEW m, m.returned = "none", Agreed(m, pub, sub), NEW n, n = Iterate(m)
    PROVE  Agreed(n, pub, sub)
<1>1. PICK p, q : Reached(m, pub, sub, p, q)
  BY DEF Agreed
<1>2. At(m.pub, pub, p) /\ At(m.sub, sub, q)
  BY <1>1 DEF Reached
<1>3. PICK i : i = Rank(sub, q)
  OBVIOUS
<1>4. i = Rank(pub, p) /\ Compared(pub, sub, i)
  BY <1>1, <1>3 DEF Reached
<1>5. /\ i \in Nat /\ Len(Levels(pub)) \in Nat /\ i <= Len(Levels(pub))
      /\ p = Len(pub) + 1 <=> Len(Levels(pub)) = i
  BY <1>2, <1>4, LevelsLeft
<1>6. /\ Len(Levels(sub)) \in Nat
      /\ q = Len(sub) + 1 <=> Len(Levels(sub)) = i
  BY <1>2, <1>3, LevelsLeft
<1>7. Level(m.pub) = NoLevel <=> p = Len(pub) + 1
  <2>1. CASE p = Len(pub) + 1
    <3>1. At(m.pub, pub, Len(pub) + 1)
      BY <1>2, <2>1
    <3>2. Level(m.pub) = NoLevel
      BY <3>1, NoneAtEnd
    <3> QED BY <2>1, <3>2
  <2>2. CASE p # Len(pub) + 1
    <3>1. \E t : Yields(m.pub, pub, p, t)
      BY <1>2, <2>2, NextLevel
    <3> QED BY <2>2, <3>1 DEF Yields
  <2> QED BY <2>1, <2>2
<1>8. CASE q = Len(sub) + 1
  <2>1. At(m.sub, sub, Len(sub) + 1)
    BY <1>2, <1>8
  <2>2. Level(m.sub) = NoLevel
    BY <2>1, NoneAtEnd
  <2>3. n.returned = IF Level(m.pub) = NoLevel THEN "true" ELSE "false"
    BY <2>2, IterateReturns
  <2>4. i = Len(Levels(sub))
    BY <1>6, <1>8
  <2>5. Matches(pub, sub) <=> Len(Levels(pub)) = i
    BY <1>4, <1>5, <2>4, EndMatches
  <2>6. n.returned # "none" /\ ((n.returned = "true") = Matches(pub, sub))
    <3>1. Matches(pub, sub) \in BOOLEAN
      BY MatchesIsBoolean
    <3>2. CASE Len(Levels(pub)) = i
      <4>1. n.returned = "true" /\ Matches(pub, sub) = TRUE
        BY <1>5, <1>7, <2>3, <2>5, <3>1, <3>2
      <4> QED BY <4>1
    <3>3. CASE Len(Levels(pub)) # i
      <4>1. n.returned = "false" /\ Matches(pub, sub) = FALSE
        BY <1>5, <1>7, <2>3, <2>5, <3>1, <3>3
      <4> QED BY <4>1
    <3> QED BY <3>2, <3>3
  <2> QED BY <2>6 DEF Agreed
<1>9. CASE q # Len(sub) + 1
  <2>1. PICK u : Yields(m.sub, sub, q, u)
    BY <1>2, <1>9, NextLevel
  <2>2. NextCut(sub, q, u)
    BY <2>1 DEF Yields
  <2>3. /\ Rank(sub, u) = i + 1 /\ i + 1 \in 1..Len(Levels(sub))
        /\ Levels(sub)[i + 1] = SubSeq(sub, q + 1, u - 1)
    BY <1>3, <2>2, LevelBetween
  <2>4. Levels(sub)[i + 1] = Level(m.sub) /\ Level(m.sub) # NoLevel
    BY <2>1, <2>3 DEF Yields
  <2>5. CASE Level(m.sub) = <<"#">>
    <3>1. i + 1 = Len(Levels(sub))
      <4>1. \A k \in 1..(Len(Levels(sub)) - 1) : Levels(sub)[k] # <<"#">>
        BY DEF HashOnlyLast
      <4>2. ~(i + 1 \in 1..(Len(Levels(sub)) - 1))
        BY <2>4, <2>5, <4>1
      <4> QED BY <1>5, <1>6, <2>3, <4>2
    <3>2. u = Len(sub) + 1
      <4>1. u \in Cuts(sub)
        BY <2>2 DEF NextCut
      <4> QED BY <2>3, <3>1, <4>1, LevelCount
    <3>3. At(Advance(m.sub), sub, Len(sub) + 1)
      BY <2>1, <3>2 DEF Yields
    <3>4. Level(Advance(m.sub)) = NoLevel
      BY <3>3, NoneAtEnd
    <3>5. n.returned = "true"
      BY <2>5, <3>4, IterateReturns
    <3>6. Matches(pub, sub)
      BY <1>4, <1>5, <2>4, <2>5, <3>1, HashMatches
    <3> QED BY <3>5, <3>6 DEF Agreed
  <2>6. CASE Level(m.sub) # <<"#">>
    <3>1. n.returned = IF \/ Level(m.pub) = NoLevel
                          \/ Level(m.sub) # <<"+">> /\ Level(m.pub) # Level(m.sub)
                       THEN "false" ELSE "none"
      BY <2>4, <2>6, IterateReturns
    <3>2. CASE Level(m.pub) = NoLevel
      <4>1. Len(Levels(pub)) = i
        BY <1>5, <1>7, <3>2
      <4>2. Levels(sub)[i + 1] # <<"#">>
        BY <2>4, <2>6
      <4>3. ~Matches(pub, sub)
        BY <1>5, <2>3, <4>1, <4>2, NoMatch
      <4>4. n.returned = "false"
        BY <3>1, <3>2
      <4>5. Matches(pub, sub) = FALSE
        BY <4>3, MatchesIsBoolean
      <4> QED BY <4>4, <4>5 DEF Agreed
    <3>3. CASE Level(m.pub) # NoLevel
      <4>1. p # Len(pub) + 1
        BY <1>7, <3>3
      <4>2. PICK t : Yields(m.pub, pub, p, t)
        BY <1>2, <4>1, NextLevel
      <4>3. CASE Level(m.sub) # <<"+">> /\ Level(m.pub) # Level(m.sub)
        <5>1. NextCut(pub, p, t)
          BY <4>2 DEF Yields
        <5>2. Levels(pub)[i + 1] = SubSeq(pub, p + 1, t - 1)
          BY <1>4, <5>1, LevelBetween
        <5>3. Levels(pub)[i + 1] = Level(m.pub)
          BY <4>2, <5>2 DEF Yields
        <5>4. Levels(sub)[i + 1] # <<"#">>
          BY <2>4, <2>6
        <5>5. Levels(sub)[i + 1] # <<"+">> /\ Levels(sub)[i + 1] # Levels(pub)[i + 1]
          BY <2>4, <4>3, <5>3, Zenon
        <5>6. ~Matches(pub, sub)
          BY <1>5, <2>3, <5>4, <5>5, NoMatch
        <5>7. n.returned = "false"
          BY <3>1, <4>3
        <5>8. Matches(pub, sub) = FALSE
          BY <5>6, MatchesIsBoolean
        <5> QED BY <5>7, <5>8 DEF Agreed
      <4>4. CASE Level(m.sub) = <<"+">> \/ Level(m.pub) = Level(m.sub)
        <5>1. n.returned = "none"
          BY <3>1, <3>3, <4>4
        <5>2. n.pub = Advance(m.pub) /\ n.sub = Advance(m.sub)
          BY <2>6, IterateReturns
        <5>3. Reached(n, pub, sub, t, u)
          BY <1>1, <2>1, <2>6, <4>2, <4>4, <5>2, ReachedNext
        <5> QED BY <5>1, <5>3 DEF Agreed
      <4> QED BY <4>3, <4>4
    <3> QED BY <3>2, <3>3
  <2> QED BY <2>5, <2>6
<1> QED BY <1>8, <1>9

-----------------------------------------------------------------------------
(* What topic_matches returns. *)

(* The name and the filter are not empty, and what the loop has come to    *)
(* agrees with them.                                                       *)
MatchInv ==
    /\ published \in Seq(Characters) /\ published # <<>>
    /\ filter \in Seq(Characters) /\ filter # <<>>
    /\ HashOnlyLast(filter) => Agreed(locals, published, filter)

(* What MatchInit takes strings from. *)
LEMMA StringsAre ==
    ASSUME NEW n \in Nat, NEW str \in Strings(n)
    PROVE  str \in Seq(Characters) /\ str # <<>>
<1>1. PICK k \in 1..n : str \in [1..k -> Characters]
  BY DEF Strings
<1>2. str \in Seq(Characters) /\ Len(str) = k
  BY <1>1
<1> QED BY <1>2, EmptySeq

(* topic_matches starts before the first levels, and each iteration keeps  *)
(* to the reference.                                                       *)
LEMMA MatchInvariant == MatchSpec => []MatchInv
<1>1. MatchInit => MatchInv
  <2> SUFFICES ASSUME MatchInit PROVE MatchInv
    OBVIOUS
  <2>1. /\ published \in Seq(Characters) /\ published # <<>>
        /\ filter \in Seq(Characters) /\ filter # <<>>
    BY BoundsAssumption, StringsAre DEF MatchInit
  <2>2. At(LevelIterator(published), published, 0) /\ At(LevelIterator(filter), filter, 0)
    BY <2>1, AtStart
  <2>3. Rank(published, 0) = 0 /\ Rank(filter, 0) = 0
    BY <2>1, CutsOf
  <2>4. Compared(published, filter, 0)
    BY DEF Compared
  <2>5. /\ locals.pub = LevelIterator(published) /\ locals.sub = LevelIterator(filter)
        /\ locals.returned = "none"
    BY DEF MatchInit, Start
  <2>6. Reached(locals, published, filter, 0, 0)
    BY <2>2, <2>3, <2>4, <2>5, Zenon DEF Reached
  <2>7. Agreed(locals, published, filter)
    BY <2>5, <2>6, Zenon DEF Agreed
  <2> QED BY <2>1, <2>7 DEF MatchInv
<1>2. MatchInv /\ [MatchNext]_matchVars => MatchInv'
  <2> SUFFICES ASSUME MatchInv, [MatchNext]_matchVars PROVE MatchInv'
    OBVIOUS
  <2>1. CASE Loop
    <3>1. published' = published /\ filter' = filter
      BY <2>1 DEF Loop
    <3>2. locals.returned = "none" /\ locals' = Iterate(locals)
      BY <2>1 DEF Loop, Returned
    <3>3. PICK m, n, pub, sub : m = locals /\ n = locals' /\ pub = published /\ sub = filter
      OBVIOUS
    <3>4. pub \in Seq(Characters) /\ sub \in Seq(Characters)
      BY <3>3 DEF MatchInv
    <3>5. m.returned = "none" /\ n = Iterate(m)
      BY <3>2, <3>3
    <3>6. HashOnlyLast(sub) => Agreed(m, pub, sub)
      BY <3>3 DEF MatchInv
    <3>7. HashOnlyLast(sub) => Agreed(n, pub, sub)
      BY <3>4, <3>5, <3>6, IterateAgrees
    <3> QED BY <3>1, <3>3, <3>7 DEF MatchInv
  <2>2. CASE UNCHANGED matchVars
    BY <2>2 DEF MatchInv, matchVars
  <2> QED BY <2>1, <2>2 DEF MatchNext
<1> QED BY <1>1, <1>2, PTL DEF MatchSpec

(* topic_matches (topics.rs) returns what the comparison of the levels of  *)
(* the name with those of the filter says, whatever their length and their *)
(* characters, as long as "#" is nowhere but at the end of the filter.     *)
THEOREM MatchesLikeReference == MatchSpec => []AgreesWithReference
<1>1. MatchInv => AgreesWithReference
  BY DEF MatchInv, AgreesWithReference, Agreed, Returned
<1> QED BY <1>1, MatchInvariant, PTL
=============================================================================
