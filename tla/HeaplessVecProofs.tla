------------------------- MODULE HeaplessVecProofs -------------------------
(***************************************************************************)
(* Theorems about HeaplessVec, for every capacity and every set of items:  *)
(* the array with its length and its loops implements a bounded sequence.  *)
(***************************************************************************)
EXTENDS HeaplessVec, VectorProofs

-----------------------------------------------------------------------------
(* Type correctness. *)

(* The loops' positions: nothing of a loop is left once it has ended, and  *)
(* a loop stays inside of the part of the array that is in use.            *)
LoopInv ==
    /\ pc = "idle" => i = 0
    /\ pc = "shift" => i < length /\ write_idx = 0
    /\ pc = "retain" => i <= length

Inv == TypeOK /\ LoopInv

(* A length that fits the array fits its narrow type.                      *)
LEMMA LengthFits ==
    ASSUME NEW n \in 0..N
    PROVE  n % LENGTHS = n
  BY CapacityAssumption

(* A slice holds Items.                                                    *)
LEMMA SliceType ==
    ASSUME NEW s \in Slices
    PROVE  s \in Seq(Items) /\ Len(s) \in 0..(N + 1)
  BY CapacityAssumption DEF Slices

(* Filled keeps the type of the array. *)
LEMMA FilledType ==
    ASSUME TypeOK, NEW s \in Seq(Items), length + Len(s) <= N
    PROVE  Filled(length, s) \in [0..(N - 1) -> Items \cup {Default}]
<1> SUFFICES ASSUME NEW j \in 0..(N - 1), j \in length..(length + Len(s) - 1)
             PROVE  s[j - length + 1] \in Items
  BY DEF Filled, TypeOK
<1>1. Len(s) \in Nat /\ length \in Nat
  BY CapacityAssumption DEF TypeOK
<1>2. j - length + 1 \in 1..Len(s)
  BY <1>1, CapacityAssumption
<1> QED BY <1>2, ElementOfSeq

(* A new vector (HeaplessVec::new) satisfies Inv.                          *)
LEMMA InitInv == Init => Inv
  BY CapacityAssumption DEF Init, Inv, TypeOK, LoopInv

(* Every call, and every iteration of a loop, keeps Inv.                   *)
LEMMA NextInv ==
    ASSUME Inv, [Next]_vars
    PROVE  Inv'
<1> USE CapacityAssumption
<1>1. ASSUME NEW x \in Items, Push(x) PROVE Inv'
  BY <1>1 DEF Push, Inv, TypeOK, LoopInv, loop
<1>2. ASSUME NEW s \in Slices, ExtendFromSlice(s) PROVE Inv'
  <2>1. s \in Seq(Items) /\ Len(s) \in Nat /\ length \in Nat
    BY SliceType DEF Inv, TypeOK
  <2>2. CASE Fits(s)
    <3>1. data' \in [0..(N - 1) -> Items \cup {Default}]
      BY <1>2, <2>1, <2>2, FilledType DEF Inv, ExtendFromSlice, Fits
    <3>2. length + Len(s) \in 0..N
      BY <2>1, <2>2 DEF Fits
    <3>3. length' \in 0..N
      BY <1>2, <2>2, <3>2, LengthFits DEF ExtendFromSlice
    <3> QED BY <1>2, <3>1, <3>3 DEF ExtendFromSlice, Inv, TypeOK, LoopInv, loop
  <2>3. CASE ~Fits(s)
    BY <1>2, <2>3 DEF ExtendFromSlice, Inv, TypeOK, LoopInv, loop
  <2> QED BY <2>2, <2>3
<1>3. ASSUME NEW s \in Slices, TryFrom(s) PROVE Inv'
  <2>1. s \in Seq(Items) /\ Len(s) \in Nat
    BY SliceType
  <2>2. CASE Len(s) <= N
    <3>1. \A j \in 0..(N - 1) : j < Len(s) => s[j + 1] \in Items
      BY <2>1, ElementOfSeq
    <3>2. length' \in 0..N
      BY <1>3, <2>1, <2>2, LengthFits DEF TryFrom
    <3> QED BY <1>3, <2>1, <2>2, <3>1, <3>2 DEF TryFrom, Inv, TypeOK, LoopInv, loop
  <2>3. CASE ~(Len(s) <= N)
    BY <1>3, <2>1, <2>3 DEF TryFrom, Inv, TypeOK, LoopInv, loop
  <2> QED BY <2>2, <2>3
<1>4. ASSUME NEW s \in Slices, WriteStr(s) PROVE Inv'
  <2> DEFINE to_copy == IF Len(s) < N - length THEN Len(s) ELSE N - length
             part == SubSeq(s, 1, to_copy)
  <2>1. s \in Seq(Items) /\ Len(s) \in Nat /\ length \in 0..N
    BY SliceType DEF Inv, TypeOK
  <2>2. to_copy \in 0..Len(s) /\ length + to_copy \in 0..N
    BY <2>1
  <2>3. data' = Filled(length, part) /\ length' = (length + to_copy) % LENGTHS
    BY <1>4 DEF WriteStr
  <2> HIDE DEF to_copy
  <2>4. part \in Seq(Items) /\ Len(part) = to_copy
    BY <2>1, <2>2, SubSeqProperties
  <2> HIDE DEF part
  <2>5. data' \in [0..(N - 1) -> Items \cup {Default}]
    BY <2>1, <2>2, <2>3, <2>4, FilledType DEF Inv
  <2>6. length' \in 0..N
    BY <2>2, <2>3, LengthFits
  <2> QED BY <1>4, <2>5, <2>6 DEF WriteStr, Inv, TypeOK, LoopInv, loop
<1>5. CASE Clear \/ Pop
  BY <1>5 DEF Clear, Pop, Inv, TypeOK, LoopInv, loop
<1>6. CASE DequeueFront
  BY <1>6 DEF DequeueFront, Inv, TypeOK, LoopInv, loop
<1>7. ASSUME NEW index \in 0..N, RemoveItem(index) PROVE Inv'
  BY <1>7 DEF RemoveItem, Inv, TypeOK, LoopInv, loop
<1>8. ASSUME NEW K \in SUBSET Items, Retain(K) PROVE Inv'
  BY <1>8 DEF Retain, Inv, TypeOK, LoopInv
<1>9. CASE ShiftStep
  BY <1>9 DEF ShiftStep, InShift, Inv, TypeOK, LoopInv
<1>10. CASE ShiftDone
  BY <1>10 DEF ShiftDone, InShift, Inv, TypeOK, LoopInv
<1>11. CASE RetainStep
  BY <1>11 DEF RetainStep, Inv, TypeOK, LoopInv
<1>12. CASE RetainDone
  <2>1. write_idx \in 0..N
    BY DEF Inv, TypeOK
  <2>2. length' = write_idx
    BY <1>12, <2>1, LengthFits DEF RetainDone
  <2> QED BY <1>12, <2>1, <2>2 DEF RetainDone, Inv, TypeOK, LoopInv
<1>13. CASE UNCHANGED vars
  BY <1>13 DEF vars, loop, Inv, TypeOK, LoopInv
<1> QED
  BY <1>1, <1>2, <1>3, <1>4, <1>5, <1>6, <1>7, <1>8, <1>9, <1>10, <1>11, <1>12, <1>13
     DEF Next

(* The length never exceeds the array, narrow as its type is, and no loop  *)
(* reads or writes outside of what is in use (heapless.rs).                *)
THEOREM VectorTypeCorrect == Spec => []TypeOK
<1>1. Inv => TypeOK
  BY DEF Inv
<1> QED BY <1>1, InitInv, NextInv, PTL DEF Spec

-----------------------------------------------------------------------------
(* Sections of an array. *)

Values == Items \cup {Default}

(* The slots of d from j up to k, as a sequence. *)
Section(d, j, k) == [n \in 1..(k - j) |-> d[j + n - 1]]

(* A section of the array of a HeaplessVec (as_slice) is a sequence.       *)
LEMMA SectionSeq ==
    ASSUME NEW d \in [0..(N - 1) -> Values], NEW j \in 0..N, NEW k \in j..N
    PROVE  /\ Section(d, j, k) \in Seq(Values)
           /\ Len(Section(d, j, k)) = k - j
           /\ \A n \in 1..(k - j) : Section(d, j, k)[n] = d[j + n - 1]
<1>1. k - j \in Nat
  BY CapacityAssumption
<1>2. \A n \in 1..(k - j) : j + n - 1 \in 0..(N - 1)
  BY CapacityAssumption
<1>3. \A n \in 1..(k - j) : d[j + n - 1] \in Values
  BY <1>2
<1> QED BY <1>1, <1>3, IsASeq DEF Section

(* The part of the array that is in use.                                   *)
LEMMA UsedSeq ==
    ASSUME NEW d \in [0..(N - 1) -> Values], NEW k \in 0..N
    PROVE  /\ Section(d, 0, k) \in Seq(Values)
           /\ Len(Section(d, 0, k)) = k
           /\ \A n \in 1..k : Section(d, 0, k)[n] = d[n - 1]
<1>1. 0 \in 0..N /\ k - 0 = k /\ \A n \in 1..k : 0 + n - 1 = n - 1
  BY CapacityAssumption
<1>2. /\ Section(d, 0, k) \in Seq(Values) /\ Len(Section(d, 0, k)) = k - 0
      /\ \A n \in 1..(k - 0) : Section(d, 0, k)[n] = d[0 + n - 1]
  BY <1>1, SectionSeq
<1> QED BY <1>1, <1>2

(* A section that ends where it begins is empty.                           *)
LEMMA SectionEmpty ==
    ASSUME NEW d, NEW j \in 0..N
    PROVE  Section(d, j, j) = <<>>
<1>1. 1..(j - j) = {}
  BY CapacityAssumption
<1> QED BY <1>1 DEF Section

(* What is in a section decides it: writes elsewhere do not matter.        *)
LEMMA SectionSame ==
    ASSUME NEW d \in [0..(N - 1) -> Values], NEW e \in [0..(N - 1) -> Values],
           NEW j \in 0..N, NEW k \in j..N, \A n \in j..(k - 1) : d[n] = e[n]
    PROVE  Section(d, j, k) = Section(e, j, k)
<1>1. \A n \in 1..(k - j) : j + n - 1 \in j..(k - 1)
  BY CapacityAssumption
<1>2. \A n \in 1..(k - j) : d[j + n - 1] = e[j + n - 1]
  BY <1>1
<1> QED BY <1>2 DEF Section

(* One more slot at the end.                                               *)
LEMMA SectionLast ==
    ASSUME NEW d \in [0..(N - 1) -> Values], NEW j \in 0..N, NEW k \in j..(N - 1)
    PROVE  Section(d, j, k + 1) = Append(Section(d, j, k), d[k])
<1> DEFINE a == Section(d, j, k + 1)
           b == Append(Section(d, j, k), d[k])
<1>1. k \in j..N /\ k + 1 \in j..N /\ d[k] \in Values /\ (k + 1) - j = (k - j) + 1
  BY CapacityAssumption
<1>2. /\ a \in Seq(Values) /\ Len(a) = (k - j) + 1
      /\ \A n \in 1..((k - j) + 1) : a[n] = d[j + n - 1]
  BY <1>1, SectionSeq
<1>3. /\ Section(d, j, k) \in Seq(Values) /\ Len(Section(d, j, k)) = k - j
      /\ \A n \in 1..(k - j) : Section(d, j, k)[n] = d[j + n - 1]
  BY <1>1, SectionSeq
<1>4. /\ b \in Seq(Values) /\ Len(b) = (k - j) + 1 /\ b[(k - j) + 1] = d[k]
      /\ \A n \in 1..(k - j) : b[n] = d[j + n - 1]
  <2>1. PICK s \in Seq(Values) : s = Section(d, j, k)
    BY <1>3
  <2>2. /\ Append(s, d[k]) \in Seq(Values) /\ Len(Append(s, d[k])) = Len(s) + 1
        /\ Append(s, d[k])[Len(s) + 1] = d[k]
        /\ \A n \in 1..Len(s) : Append(s, d[k])[n] = s[n]
    BY <1>1, AppendProperties
  <2> QED BY <1>3, <2>1, <2>2
<1> HIDE DEF a, b
<1>5. ASSUME NEW n \in 1..((k - j) + 1) PROVE a[n] = b[n]
  <2>1. CASE n = (k - j) + 1
    <3>1. j + n - 1 = k
      BY <2>1, CapacityAssumption
    <3> QED BY <1>2, <1>4, <2>1, <3>1
  <2>2. CASE n # (k - j) + 1
    <3>1. n \in 1..(k - j)
      BY <2>2, CapacityAssumption
    <3> QED BY <1>2, <1>4, <3>1
  <2> QED BY <2>1, <2>2
<1>6. a = b
  BY <1>2, <1>4, <1>5, SeqEqual
<1> QED BY <1>6 DEF a, b

(* One slot less at the front.                                             *)
LEMMA SectionFirst ==
    ASSUME NEW d \in [0..(N - 1) -> Values], NEW k \in 0..N, NEW j \in 0..(k - 1)
    PROVE  Section(d, j, k) = <<d[j]>> \o Section(d, j + 1, k)
<1> DEFINE a == Section(d, j, k)
           c == Section(d, j + 1, k)
           b == <<d[j]>> \o c
<1>1. /\ j \in 0..N /\ k \in j..N /\ j + 1 \in 0..N /\ k \in (j + 1)..N /\ d[j] \in Values
      /\ (k - (j + 1)) + 1 = k - j /\ k - j \in Nat
  BY CapacityAssumption
<1>2. /\ a \in Seq(Values) /\ Len(a) = k - j
      /\ \A n \in 1..(k - j) : a[n] = d[j + n - 1]
  BY <1>1, SectionSeq
<1>3. /\ c \in Seq(Values) /\ Len(c) = k - (j + 1)
      /\ \A n \in 1..(k - (j + 1)) : c[n] = d[(j + 1) + n - 1]
  BY <1>1, SectionSeq
<1> HIDE DEF a, c
<1>4. /\ b \in Seq(Values) /\ Len(b) = k - j /\ b[1] = d[j]
      /\ \A n \in 1..(k - j) : n # 1 => b[n] = c[n - 1]
  <2>1. <<d[j]>> \in Seq(Values) /\ Len(<<d[j]>>) = 1 /\ <<d[j]>>[1] = d[j]
    BY <1>1
  <2>2. /\ b \in Seq(Values) /\ Len(b) = 1 + Len(c)
        /\ \A n \in 1..(1 + Len(c)) : b[n] = IF n <= 1 THEN <<d[j]>>[n] ELSE c[n - 1]
    BY <1>3, <2>1, ConcatProperties
  <2> HIDE DEF b
  <2> QED BY <1>1, <1>3, <2>1, <2>2, CapacityAssumption
<1> HIDE DEF b
<1>5. ASSUME NEW n \in 1..(k - j) PROVE a[n] = b[n]
  <2>1. CASE n = 1
    BY <1>1, <1>2, <1>4, <2>1, CapacityAssumption
  <2>2. CASE n # 1
    <3>1. n - 1 \in 1..(k - (j + 1)) /\ (j + 1) + (n - 1) - 1 = j + n - 1
      BY <1>1, <2>2, CapacityAssumption
    <3> QED BY <1>2, <1>3, <1>4, <2>2, <3>1
  <2> QED BY <2>1, <2>2
<1>6. a = b
  BY <1>2, <1>4, <1>5, SeqEqual
<1> QED BY <1>6 DEF a, b, c

-----------------------------------------------------------------------------
(* Refinement. *)

(* The sequence a HeaplessVec stands for, in the three states of its       *)
(* loops.                                                                  *)
LEMMA ContentsIs ==
    ASSUME Inv
    PROVE  /\ pc = "idle" => Contents = Section(data, 0, length)
           /\ pc = "shift" => Contents = Section(data, 0, i) \o Section(data, i + 1, length)
           /\ pc = "retain" =>
                Contents = Section(data, 0, write_idx) \o Kept(Section(data, i, length), keep)
  BY DEF Contents, Slots, Section

(* The same of the state after a step. *)
LEMMA ContentsWillBe ==
    ASSUME Inv'
    PROVE  /\ pc' = "idle" => Contents' = Section(data', 0, length')
           /\ pc' = "shift" =>
                Contents' = Section(data', 0, i') \o Section(data', i' + 1, length')
           /\ pc' = "retain" =>
                Contents' = Section(data', 0, write_idx') \o Kept(Section(data', i', length'), keep')
  BY DEF Contents, Slots, Section

(* An item moved from the front of the second part to the end of the first.*)
LEMMA MoveOver ==
    ASSUME NEW S, NEW p \in Seq(S), NEW x \in S, NEW q \in Seq(S)
    PROVE  Append(p, x) \o q = p \o (<<x>> \o q)
<1>1. Append(p, x) = p \o <<x>>
  BY AppendIsConcat
<1>2. <<x>> \in Seq(S)
  OBVIOUS
<1> QED BY <1>1, <1>2, ConcatAssociative

(* An iteration of the loop that closes the gap at m changes nothing of    *)
(* the sequence: what it moves stands in its new place already.            *)
LEMMA ShiftKeepsSequence ==
    ASSUME NEW d \in [0..(N - 1) -> Values], NEW e \in [0..(N - 1) -> Values],
           NEW k \in 0..N, NEW m \in 0..N, m + 1 < k,
           e[m] = d[m + 1], \A n \in 0..(N - 1) : n # m => e[n] = d[n]
    PROVE  Section(e, 0, m + 1) \o Section(e, (m + 1) + 1, k)
             = Section(d, 0, m) \o Section(d, m + 1, k)
<1> USE CapacityAssumption
<1> DEFINE p == Section(d, 0, m)
           x == d[m + 1]
           q == Section(d, (m + 1) + 1, k)
<1>1. /\ 0 \in 0..N /\ m \in 0..(N - 1) /\ m + 1 \in 0..(k - 1) /\ m + 1 \in 0..N
      /\ (m + 1) + 1 \in 0..N /\ k \in ((m + 1) + 1)..N /\ m + 1 \in 0..(N - 1)
  OBVIOUS
<1>2. p \in Seq(Values) /\ x \in Values /\ q \in Seq(Values)
  BY <1>1, SectionSeq
<1>3. Section(d, m + 1, k) = <<x>> \o q
  BY <1>1, SectionFirst
<1>4. Section(e, 0, m + 1) = Append(Section(e, 0, m), e[m])
  BY <1>1, SectionLast
<1>5. Section(e, 0, m) = p
  <2>1. \A n \in 0..(m - 1) : e[n] = d[n]
    BY <1>1
  <2> QED BY <1>1, <2>1, SectionSame
<1>6. Section(e, (m + 1) + 1, k) = q
  <2>1. \A n \in ((m + 1) + 1)..(k - 1) : e[n] = d[n]
    BY <1>1
  <2> QED BY <1>1, <2>1, SectionSame
<1> HIDE DEF p, q, x
<1>7. Append(p, x) \o q = p \o (<<x>> \o q)
  BY <1>2, MoveOver
<1> QED BY <1>3, <1>4, <1>5, <1>6, <1>7 DEF p, q, x

(* What retain will have kept of k items in use: those before w, and what  *)
(* is still to be kept from m on.                                          *)
RetainSeq(d, w, m, k, K) == Section(d, 0, w) \o Kept(Section(d, m, k), K)

(* An iteration of the loop of retain, at m, changes nothing of the        *)
(* sequence: it already stands for what will be kept.                      *)
LEMMA RetainKeepsSequence ==
    ASSUME NEW d \in [0..(N - 1) -> Values], NEW e \in [0..(N - 1) -> Values],
           NEW k \in 0..N, NEW m \in 0..(k - 1), NEW w \in 0..m, NEW K,
           d[m] \in K, e[w] = d[m], \A n \in 0..(N - 1) : n # w => e[n] = d[n]
    PROVE  RetainSeq(e, w + 1, m + 1, k, K) = RetainSeq(d, w, m, k, K)
<1> USE CapacityAssumption
<1> DEFINE p == Section(d, 0, w)
           x == d[m]
           q == Section(d, m + 1, k)
<1>1. /\ 0 \in 0..N /\ w \in 0..(N - 1) /\ w \in 0..N /\ m \in 0..(N - 1)
      /\ m + 1 \in 0..N /\ k \in (m + 1)..N
  OBVIOUS
<1>2. p \in Seq(Values) /\ x \in Values /\ q \in Seq(Values)
  BY <1>1, SectionSeq
<1>3. Section(d, m, k) = <<x>> \o q
  BY <1>1, SectionFirst
<1>4. Section(e, 0, w + 1) = Append(Section(e, 0, w), e[w])
  BY <1>1, SectionLast
<1>5. Section(e, 0, w) = p
  <2>1. \A n \in 0..(w - 1) : e[n] = d[n]
    BY <1>1
  <2> QED BY <1>1, <2>1, SectionSame
<1>6. Section(e, m + 1, k) = q
  <2>1. \A n \in (m + 1)..(k - 1) : e[n] = d[n]
    BY <1>1
  <2> QED BY <1>1, <2>1, SectionSame
<1>7. x \in K /\ e[w] = x
  OBVIOUS
<1> HIDE DEF p, q, x
<1>8. Kept(q, K) \in Seq(Values)
  BY <1>2, KeptProperties
<1>9. Kept(<<x>> \o q, K) = <<x>> \o Kept(q, K)
  BY <1>2, <1>7, KeptCons, ZenonT(30)
<1>10. Append(p, x) \o Kept(q, K) = p \o (<<x>> \o Kept(q, K))
  BY <1>2, <1>8, MoveOver, SMTT(30)
<1> QED BY <1>3, <1>4, <1>5, <1>6, <1>7, <1>9, <1>10 DEF p, q, RetainSeq

(* The same for an item that is not kept.                                  *)
LEMMA RetainSkipsItem ==
    ASSUME NEW d \in [0..(N - 1) -> Values],
           NEW k \in 0..N, NEW m \in 0..(k - 1), NEW K, d[m] \notin K
    PROVE  Kept(Section(d, m + 1, k), K) = Kept(Section(d, m, k), K)
<1> USE CapacityAssumption
<1> DEFINE x == d[m]
           q == Section(d, m + 1, k)
<1>1. m \in 0..(N - 1) /\ m + 1 \in 0..N /\ k \in (m + 1)..N
  OBVIOUS
<1>2. x \in Values /\ q \in Seq(Values)
  BY <1>1, SectionSeq
<1>3. Section(d, m, k) = <<x>> \o q
  BY <1>1, SectionFirst
<1>4. x \notin K
  OBVIOUS
<1> HIDE DEF q, x
<1>6. Kept(<<x>> \o q, K) = Kept(q, K)
  BY <1>2, <1>4, KeptCons, Zenon
<1> QED BY <1>3, <1>6 DEF q

(* e is d with the items of s written behind the k in use. *)
WrittenBehind(e, d, k, s) ==
    \A j \in 0..(N - 1) :
        e[j] = IF j \in k..(k + Len(s) - 1) THEN s[j - k + 1] ELSE d[j]

(* Writing the items of s behind the k in use (extend_from_slice) puts s   *)
(* behind the sequence.                                                    *)
LEMMA FillAppends ==
    ASSUME NEW d \in [0..(N - 1) -> Values], NEW e \in [0..(N - 1) -> Values],
           NEW k \in 0..N, NEW s \in Seq(Values), k + Len(s) <= N, WrittenBehind(e, d, k, s)
    PROVE  Section(e, 0, k + Len(s)) = Section(d, 0, k) \o s
<1> USE CapacityAssumption
<1> DEFINE a == Section(e, 0, k + Len(s))
           p == Section(d, 0, k)
           b == p \o s
<1>1. /\ Len(s) \in Nat /\ 0 \in 0..N /\ k + Len(s) \in 0..N /\ k - 0 = k
      /\ (k + Len(s)) - 0 = k + Len(s)
  OBVIOUS
<1>0. \A j \in 0..(N - 1) :
        e[j] = IF j \in k..(k + Len(s) - 1) THEN s[j - k + 1] ELSE d[j]
  BY DEF WrittenBehind
<1>2. /\ a \in Seq(Values) /\ Len(a) = k + Len(s)
      /\ \A n \in 1..(k + Len(s)) : a[n] = e[n - 1]
  BY <1>1, UsedSeq
<1>3. /\ p \in Seq(Values) /\ Len(p) = k
      /\ \A n \in 1..k : p[n] = d[n - 1]
  BY <1>1, UsedSeq
<1> HIDE DEF a, p
<1>4. /\ b \in Seq(Values) /\ Len(b) = k + Len(s)
      /\ \A n \in 1..(k + Len(s)) : b[n] = IF n <= k THEN p[n] ELSE s[n - k]
  BY <1>3, ConcatProperties
<1> HIDE DEF b
<1>5. ASSUME NEW n \in 1..(k + Len(s)) PROVE a[n] = b[n]
  <2>1. n - 1 \in 0..(N - 1)
    BY <1>1
  <2>2. CASE n <= k
    <3>1. n \in 1..k /\ n - 1 \notin k..(k + Len(s) - 1)
      BY <1>1, <2>2
    <3> QED BY <1>0, <1>2, <1>3, <1>4, <2>1, <2>2, <3>1
  <2>3. CASE ~(n <= k)
    <3>1. n - 1 \in k..(k + Len(s) - 1) /\ (n - 1) - k + 1 = n - k
      BY <1>1, <2>3
    <3> QED BY <1>0, <1>2, <1>4, <2>1, <2>3, <3>1
  <2> QED BY <2>2, <2>3
<1>6. a = b
  BY <1>2, <1>4, <1>5, SeqEqual
<1> QED BY <1>6 DEF a, b, p

(* A part of the slots in use is a part of the sequence.                   *)
LEMMA SectionOfSection ==
    ASSUME NEW d \in [0..(N - 1) -> Values], NEW k \in 0..N, NEW j \in 0..k, NEW l \in j..k
    PROVE  SubSeq(Section(d, 0, k), j + 1, l) = Section(d, j, l)
<1> USE CapacityAssumption
<1> DEFINE s == Section(d, 0, k)
           a == SubSeq(s, j + 1, l)
           b == Section(d, j, l)
<1>1. /\ 0 \in 0..N /\ j \in 0..N /\ l \in j..N /\ l \in 0..N /\ k - 0 = k
      /\ k \in Nat /\ j \in Nat /\ l - j \in Nat /\ j + 1 \in 1..(k + 1)
  OBVIOUS
<1>2. /\ s \in Seq(Values) /\ Len(s) = k
      /\ \A n \in 1..k : s[n] = d[n - 1]
  BY <1>1, UsedSeq
<1>3. /\ b \in Seq(Values) /\ Len(b) = l - j
      /\ \A n \in 1..(l - j) : b[n] = d[j + n - 1]
  BY <1>1, SectionSeq
<1> HIDE DEF s, b
<1>4. /\ a \in Seq(Values) /\ Len(a) = l - j
      /\ \A n \in 1..(l - j) : a[n] = s[j + n]
  <2>1. CASE j + 1 <= l
    <3> DEFINE m == j + 1
    <3>1. m \in Int /\ l \in Int /\ m <= l /\ l - m + 1 = l - j
      BY <1>1, <2>1
    <3>2. \A h \in m..l : s[h] \in Values
      <4>1. \A h \in m..l : h \in 1..k
        BY <1>1
      <4> QED BY <1>2, <4>1, ElementOfSeq
    <3> HIDE DEF m
    <3>3. /\ SubSeq(s, m, l) \in Seq(Values)
          /\ Len(SubSeq(s, m, l)) = IF m <= l THEN l - m + 1 ELSE 0
          /\ \A h \in 1..(l - m + 1) : SubSeq(s, m, l)[h] = s[m + h - 1]
      BY <3>1, <3>2, SubSeqProperties
    <3>4. /\ a \in Seq(Values) /\ Len(a) = l - j
          /\ \A n \in 1..(l - j) : a[n] = s[m + n - 1]
      BY <3>1, <3>3 DEF m
    <3>5. \A n \in 1..(l - j) : m + n - 1 = j + n
      BY <1>1 DEF m
    <3> QED BY <3>4, <3>5
  <2>2. CASE ~(j + 1 <= l)
    <3>1. l - j = 0
      BY <1>1, <2>2
    <3>2. a = <<>>
      BY <1>1, <1>2, <2>2, SubSeqEmpty
    <3> QED BY <3>1, <3>2
  <2> QED BY <2>1, <2>2
<1> HIDE DEF a
<1>5. ASSUME NEW n \in 1..(l - j) PROVE a[n] = b[n]
  <2>1. j + n \in 1..k /\ (j + n) - 1 = j + n - 1
    BY <1>1
  <2> QED BY <1>2, <1>3, <1>4, <2>1
<1>6. a = b
  BY <1>3, <1>4, <1>5, SeqEqual
<1> QED BY <1>6 DEF a, b, s

(* What the proofs below need to know of a vector with no loop running.    *)
LEMMA IdleContents ==
    ASSUME Inv, pc = "idle"
    PROVE  /\ data \in [0..(N - 1) -> Values] /\ length \in 0..N
           /\ Contents = Section(data, 0, length)
           /\ Contents \in Seq(Values) /\ Len(Contents) = length
           /\ \A n \in 1..length : Contents[n] = data[n - 1]
           /\ Contents = <<>> <=> length = 0
<1>1. data \in [0..(N - 1) -> Values] /\ length \in 0..N
  BY DEF Inv, TypeOK, Values
<1>2. Contents = Section(data, 0, length)
  BY ContentsIs
<1>3. /\ Contents \in Seq(Values) /\ Len(Contents) = length
      /\ \A n \in 1..length : Contents[n] = data[n - 1]
  BY <1>1, <1>2, UsedSeq
<1> QED BY <1>1, <1>2, <1>3, EmptySeq

(* The same of the state after a step. *)
LEMMA IdleContentsAfter ==
    ASSUME Inv', pc' = "idle"
    PROVE  /\ data' \in [0..(N - 1) -> Values] /\ length' \in 0..N
           /\ Contents' = Section(data', 0, length')
<1>1. data' \in [0..(N - 1) -> Values] /\ length' \in 0..N
  BY DEF Inv, TypeOK, Values
<1> QED BY <1>1, ContentsWillBe

(* push appends, or is refused by a vector that is full.                   *)
LEMMA PushRefines ==
    ASSUME Inv, Inv', NEW x \in Items, Push(x)
    PROVE  Sequence!Push(x)
<1> USE CapacityAssumption
<1>1. pc = "idle" /\ pc' = "idle"
  BY DEF Push, loop
<1>2. /\ data \in [0..(N - 1) -> Values] /\ length \in 0..N /\ Len(Contents) = length
      /\ Contents = Section(data, 0, length) /\ Contents \in Seq(Values)
  BY <1>1, IdleContents
<1>3. /\ data' \in [0..(N - 1) -> Values] /\ length' \in 0..N
      /\ Contents' = Section(data', 0, length')
  BY <1>1, IdleContentsAfter
<1>4. x \in Values
  BY DEF Values
<1>5. Len(Append(Contents, x)) = length + 1
  BY <1>2, <1>4, AppendProperties
<1>6. CASE length >= N
  <2>1. last' = <<"push", x, PushError>> /\ data' = data /\ length' = length
    BY <1>6 DEF Push
  <2>2. ~(Len(Append(Contents, x)) <= N)
    BY <1>2, <1>5, <1>6
  <2>3. Contents' = Contents
    BY <1>2, <1>3, <2>1
  <2> QED BY <2>1, <2>2, <2>3 DEF Sequence!Push, Sequence!Store
<1>7. CASE ~(length >= N)
  <2>1. /\ last' = <<"push", x, Ok>> /\ data' = [data EXCEPT ![length] = x]
        /\ length' = length + 1
    BY <1>7 DEF Push
  <2>2. Len(Append(Contents, x)) <= N
    BY <1>2, <1>5, <1>7
  <2>3. length \in 0..(N - 1) /\ 0 \in 0..N
    BY <1>2, <1>7
  <2>4. data'[length] = x /\ \A n \in 0..(length - 1) : data'[n] = data[n]
    BY <1>2, <2>1, <2>3
  <2>5. Section(data', 0, length + 1) = Append(Section(data', 0, length), data'[length])
    BY <1>3, <2>3, SectionLast
  <2>6. Section(data', 0, length) = Section(data, 0, length)
    BY <1>2, <1>3, <2>3, <2>4, SectionSame
  <2>7. Contents' = Append(Contents, x)
    BY <1>2, <1>3, <2>1, <2>4, <2>5, <2>6
  <2> QED BY <2>1, <2>2, <2>7 DEF Sequence!Push, Sequence!Store
<1> QED BY <1>6, <1>7

(* The array after Filled holds the items of s behind the sequence.        *)
LEMMA FilledContents ==
    ASSUME Inv, pc = "idle", Inv', pc' = "idle", NEW s \in Seq(Values),
           length + Len(s) <= N, data' = Filled(length, s), length' = (length + Len(s)) % LENGTHS
    PROVE  Contents' = Contents \o s
<1> USE CapacityAssumption
<1>2. /\ data \in [0..(N - 1) -> Values] /\ length \in 0..N
      /\ Contents = Section(data, 0, length)
  BY IdleContents
<1>3. data' \in [0..(N - 1) -> Values] /\ Contents' = Section(data', 0, length')
  BY IdleContentsAfter
<1>4. length + Len(s) \in 0..N
  BY <1>2
<1>5. length' = length + Len(s)
  BY <1>4, LengthFits
<1>6. \A j \in 0..(N - 1) :
        data'[j] = IF j \in length..(length + Len(s) - 1) THEN s[j - length + 1] ELSE data[j]
  BY <1>2 DEF Filled
<1>7. PICK d \in [0..(N - 1) -> Values] : d = data
  BY <1>2
<1>8. PICK e \in [0..(N - 1) -> Values] : e = data'
  BY <1>3
<1>9. PICK k \in 0..N : k = length
  BY <1>2
<1>10. k + Len(s) <= N /\ WrittenBehind(e, d, k, s)
  BY <1>6, <1>7, <1>8, <1>9 DEF WrittenBehind
<1>11. Section(e, 0, k + Len(s)) = Section(d, 0, k) \o s
  BY <1>10, FillAppends
<1> QED BY <1>2, <1>3, <1>5, <1>7, <1>8, <1>9, <1>11

(* A slice is a sequence of values.                                        *)
LEMMA SliceValues ==
    ASSUME NEW s \in Slices
    PROVE  s \in Seq(Values) /\ Len(s) \in Nat
<1>1. s \in Seq(Items) /\ Len(s) \in 0..(N + 1)
  BY SliceType
<1> QED BY <1>1, CapacityAssumption, SeqMonotonic DEF Values

(* extend_from_slice and push_str append the whole slice or nothing.       *)
LEMMA ExtendRefines ==
    ASSUME Inv, Inv', NEW s \in Slices, ExtendFromSlice(s)
    PROVE  Sequence!ExtendFromSlice(s)
<1> USE CapacityAssumption
<1>1. pc = "idle" /\ pc' = "idle"
  BY DEF ExtendFromSlice, loop
<1>2. /\ data \in [0..(N - 1) -> Values] /\ length \in 0..N /\ Len(Contents) = length
      /\ Contents = Section(data, 0, length) /\ Contents \in Seq(Values)
      /\ \A n \in 1..length : Contents[n] = data[n - 1]
      /\ Contents = <<>> <=> length = 0
  BY <1>1, IdleContents
<1>3. /\ data' \in [0..(N - 1) -> Values] /\ length' \in 0..N
      /\ Contents' = Section(data', 0, length')
  BY <1>1, IdleContentsAfter
<1>4. s \in Seq(Values) /\ Len(s) \in Nat
  BY SliceValues
<1>5. Len(Contents \o s) = length + Len(s)
  BY <1>2, <1>4, ConcatProperties
<1>6. CASE Fits(s)
  <2>1. /\ last' = <<"extend", s, Ok>> /\ data' = Filled(length, s)
        /\ length' = (length + Len(s)) % LENGTHS
    BY <1>6 DEF ExtendFromSlice
  <2>2. Len(Contents \o s) <= N
    BY <1>5, <1>6 DEF Fits
  <2>3. Contents' = Contents \o s
    BY <1>1, <1>4, <1>6, <2>1, FilledContents DEF Fits
  <2> QED BY <2>1, <2>2, <2>3 DEF Sequence!ExtendFromSlice, Sequence!Store
<1>7. CASE ~Fits(s)
  <2>1. last' = <<"extend", s, PushError>> /\ data' = data /\ length' = length
    BY <1>7 DEF ExtendFromSlice
  <2>2. ~(Len(Contents \o s) <= N)
    BY <1>5, <1>7 DEF Fits
  <2>3. Contents' = Contents
    BY <1>2, <1>3, <2>1
  <2> QED BY <2>1, <2>2, <2>3 DEF Sequence!ExtendFromSlice, Sequence!Store
<1> QED BY <1>6, <1>7

(* try_from gives a string with the slice for contents, or an error.       *)
LEMMA TryFromRefines ==
    ASSUME Inv, Inv', NEW s \in Slices, TryFrom(s)
    PROVE  Sequence!TryFrom(s)
<1> USE CapacityAssumption
<1>1. pc = "idle" /\ pc' = "idle"
  BY DEF TryFrom, loop
<1>2. /\ data \in [0..(N - 1) -> Values] /\ length \in 0..N /\ Len(Contents) = length
      /\ Contents = Section(data, 0, length) /\ Contents \in Seq(Values)
      /\ \A n \in 1..length : Contents[n] = data[n - 1]
      /\ Contents = <<>> <=> length = 0
  BY <1>1, IdleContents
<1>3. /\ data' \in [0..(N - 1) -> Values] /\ length' \in 0..N
      /\ Contents' = Section(data', 0, length')
  BY <1>1, IdleContentsAfter
<1>4. s \in Seq(Values) /\ Len(s) \in Nat
  BY SliceValues
<1>5. CASE Len(s) > N
  <2>1. last' = <<"try_from", s, PushError>> /\ data' = data /\ length' = length
    BY <1>5 DEF TryFrom
  <2>2. Contents' = Contents
    BY <1>2, <1>3, <2>1
  <2>3. ~(Len(s) <= N)
    BY <1>4, <1>5
  <2> QED BY <2>1, <2>2, <2>3 DEF Sequence!TryFrom, Sequence!Store
<1>6. CASE ~(Len(s) > N)
  <2>1. /\ last' = <<"try_from", s, Ok>> /\ length' = Len(s) % LENGTHS
        /\ \A j \in 0..(N - 1) : j < Len(s) => data'[j] = s[j + 1]
    BY <1>2, <1>6 DEF TryFrom
  <2>2. Len(s) \in 0..N /\ Len(s) <= N
    BY <1>4, <1>6
  <2>3. length' = Len(s)
    BY <2>1, <2>2, LengthFits
  <2>4. /\ Contents' \in Seq(Values) /\ Len(Contents') = Len(s)
        /\ \A n \in 1..Len(s) : Contents'[n] = data'[n - 1]
    BY <1>3, <2>2, <2>3, UsedSeq
  <2>5. ASSUME NEW n \in 1..Len(s) PROVE Contents'[n] = s[n]
    <3>1. n - 1 \in 0..(N - 1) /\ n - 1 < Len(s) /\ (n - 1) + 1 = n
      BY <2>2
    <3> QED BY <2>1, <2>4, <3>1
  <2>6. Contents' = s
    BY <1>4, <2>4, <2>5, SeqEqual
  <2> QED BY <2>1, <2>2, <2>6 DEF Sequence!TryFrom, Sequence!Store
<1> QED BY <1>5, <1>6

(* What is left of a concatenation whose end is cut off.                   *)
LEMMA PrefixOfConcat ==
    ASSUME NEW p \in Seq(Values), NEW s \in Seq(Values), NEW c \in 0..Len(s)
    PROVE  SubSeq(p \o s, 1, Len(p) + c) = p \o SubSeq(s, 1, c)
<1> DEFINE w == p \o s
           a == SubSeq(w, 1, Len(p) + c)
           q == SubSeq(s, 1, c)
           b == p \o q
<1>1. Len(p) \in Nat /\ Len(s) \in Nat /\ c \in Nat /\ c <= Len(s)
  OBVIOUS
<1>2. /\ w \in Seq(Values) /\ Len(w) = Len(p) + Len(s)
      /\ \A n \in 1..(Len(p) + Len(s)) : w[n] = IF n <= Len(p) THEN p[n] ELSE s[n - Len(p)]
  BY ConcatProperties
<1> HIDE DEF w
<1>3. /\ q \in Seq(Values) /\ Len(q) = c /\ \A n \in 1..c : q[n] = s[n]
  BY <1>1, SubSeqProperties
<1>4. a \in Seq(Values) /\ Len(a) = Len(p) + c /\ \A n \in 1..(Len(p) + c) : a[n] = w[n]
  <2>1. \A n \in 1..(Len(p) + c) : w[n] \in Values
    BY <1>1, <1>2
  <2>2. Len(p) + c \in Nat
    BY <1>1
  <2> QED BY <2>1, <2>2, SubSeqProperties
<1> HIDE DEF q, a
<1>5. /\ b \in Seq(Values) /\ Len(b) = Len(p) + c
      /\ \A n \in 1..(Len(p) + c) : b[n] = IF n <= Len(p) THEN p[n] ELSE q[n - Len(p)]
  BY <1>3, ConcatProperties
<1> HIDE DEF b
<1>6. ASSUME NEW n \in 1..(Len(p) + c) PROVE a[n] = b[n]
  <2>1. n \in 1..(Len(p) + Len(s))
    BY <1>1
  <2>2. CASE n <= Len(p)
    BY <1>2, <1>4, <1>5, <2>1, <2>2
  <2>3. CASE ~(n <= Len(p))
    <3>1. n - Len(p) \in 1..c
      BY <1>1, <2>3
    <3> QED BY <1>2, <1>3, <1>4, <1>5, <2>1, <2>3, <3>1
  <2> QED BY <2>2, <2>3
<1>7. a = b
  BY <1>4, <1>5, <1>6, SeqEqual
<1> QED BY <1>7 DEF a, b, w, q

(* write_str appends as much of the slice as there is room for.            *)
LEMMA WriteStrRefines ==
    ASSUME Inv, Inv', NEW s \in Slices, WriteStr(s)
    PROVE  Sequence!WriteStr(s)
<1> USE CapacityAssumption
<1>1. pc = "idle" /\ pc' = "idle"
  BY DEF WriteStr, loop
<1>2. /\ data \in [0..(N - 1) -> Values] /\ length \in 0..N /\ Len(Contents) = length
      /\ Contents = Section(data, 0, length) /\ Contents \in Seq(Values)
      /\ \A n \in 1..length : Contents[n] = data[n - 1]
      /\ Contents = <<>> <=> length = 0
  BY <1>1, IdleContents
<1>3. /\ data' \in [0..(N - 1) -> Values] /\ length' \in 0..N
      /\ Contents' = Section(data', 0, length')
  BY <1>1, IdleContentsAfter
<1>4. s \in Seq(Values) /\ Len(s) \in Nat
  BY SliceValues
<1> DEFINE to_copy == IF Len(s) < N - length THEN Len(s) ELSE N - length
           part == SubSeq(s, 1, to_copy)
           whole == Contents \o s
           m == Sequence!Min({N, Len(whole)})
<1>5. /\ data' = Filled(length, part) /\ length' = (length + to_copy) % LENGTHS
      /\ last' = <<"write_str", s, Ok>>
  BY DEF WriteStr
<1>6. to_copy \in 0..Len(s) /\ length + to_copy <= N
  BY <1>2, <1>4
<1>7. Len(whole) = length + Len(s)
  BY <1>2, <1>4, ConcatProperties
<1> HIDE DEF whole
<1>8. m = IF N <= length + Len(s) THEN N ELSE length + Len(s)
  BY <1>2, <1>4, <1>7 DEF Sequence!Min
<1>9. m = length + to_copy
  BY <1>2, <1>4, <1>8
<1> HIDE DEF to_copy, m
<1>10. part \in Seq(Values) /\ Len(part) = to_copy
  BY <1>4, <1>6, SubSeqProperties
<1>11. SubSeq(whole, 1, length + to_copy) = Contents \o part
  BY <1>2, <1>4, <1>6, PrefixOfConcat DEF whole
<1> HIDE DEF part
<1>12. Contents' = Contents \o part
  BY <1>1, <1>5, <1>6, <1>10, FilledContents
<1>13. Len(Contents \o part) <= N
  BY <1>2, <1>6, <1>10, ConcatProperties
<1> QED BY <1>5, <1>9, <1>11, <1>12, <1>13 DEF Sequence!WriteStr, Sequence!Store, m, whole

(* clear leaves the items where they are, and the sequence empty.          *)
LEMMA ClearRefines ==
    ASSUME Inv, Inv', Clear
    PROVE  Sequence!Clear
<1> USE CapacityAssumption
<1>1. pc = "idle" /\ pc' = "idle"
  BY DEF Clear, loop
<1>2. /\ data \in [0..(N - 1) -> Values] /\ length \in 0..N /\ Len(Contents) = length
      /\ Contents = Section(data, 0, length) /\ Contents \in Seq(Values)
      /\ \A n \in 1..length : Contents[n] = data[n - 1]
      /\ Contents = <<>> <=> length = 0
  BY <1>1, IdleContents
<1>3. /\ data' \in [0..(N - 1) -> Values] /\ length' \in 0..N
      /\ Contents' = Section(data', 0, length')
  BY <1>1, IdleContentsAfter
<1>4. length' = 0 /\ last' = <<"clear", None, Ok>>
  BY DEF Clear
<1>5. Contents' = <<>>
  BY <1>3, <1>4, SectionEmpty
<1> QED BY <1>4, <1>5 DEF Sequence!Clear, Sequence!Store

(* pop takes the last item.                                                *)
LEMMA PopRefines ==
    ASSUME Inv, Inv', Pop
    PROVE  Sequence!Pop
<1> USE CapacityAssumption
<1>1. pc = "idle" /\ pc' = "idle"
  BY DEF Pop, loop
<1>2. /\ data \in [0..(N - 1) -> Values] /\ length \in 0..N /\ Len(Contents) = length
      /\ Contents = Section(data, 0, length) /\ Contents \in Seq(Values)
      /\ \A n \in 1..length : Contents[n] = data[n - 1]
      /\ Contents = <<>> <=> length = 0
  BY <1>1, IdleContents
<1>3. /\ data' \in [0..(N - 1) -> Values] /\ length' \in 0..N
      /\ Contents' = Section(data', 0, length')
  BY <1>1, IdleContentsAfter
<1>4. CASE length = 0
  <2>1. last' = <<"pop", None, None>> /\ data' = data /\ length' = length
    BY <1>4 DEF Pop
  <2>2. Contents' = Contents
    BY <1>2, <1>3, <2>1
  <2> QED BY <1>2, <1>4, <2>1, <2>2 DEF Sequence!Pop, Sequence!Take
<1>5. CASE length # 0
  <2>1. /\ length' = length - 1 /\ last' = <<"pop", None, data[length - 1]>>
        /\ data' = [data EXCEPT ![length - 1] = Default]
    BY <1>5 DEF Pop
  <2>2. length \in 1..length /\ length - 1 \in 0..N /\ 0 \in 0..length /\ length - 1 \in 0..length
    BY <1>2, <1>5
  <2>3. Contents[Len(Contents)] = data[length - 1]
    BY <1>2, <2>2
  <2>4. SubSeq(Contents, 1, length - 1) = Section(data, 0, length - 1)
    <3>1. SubSeq(Section(data, 0, length), 0 + 1, length - 1) = Section(data, 0, length - 1)
      BY <1>2, <2>2, SectionOfSection
    <3> QED BY <1>2, <3>1
  <2>5. Section(data', 0, length - 1) = Section(data, 0, length - 1)
    <3>1. PICK k \in 0..N : k = length - 1
      BY <2>2
    <3>2. \A n \in 0..(k - 1) : data'[n] = data[n]
      BY <1>2, <2>1, <3>1
    <3>3. PICK d \in [0..(N - 1) -> Values], e \in [0..(N - 1) -> Values] : d = data /\ e = data'
      BY <1>2, <1>3
    <3>4. 0 \in 0..N /\ \A n \in 0..(k - 1) : e[n] = d[n]
      BY <3>2, <3>3
    <3>5. Section(e, 0, k) = Section(d, 0, k)
      BY <3>4, SectionSame
    <3> QED BY <3>1, <3>3, <3>5
  <2>6. Contents' = SubSeq(Contents, 1, Len(Contents) - 1)
    BY <1>2, <1>3, <2>1, <2>4, <2>5
  <2> QED BY <1>2, <1>5, <2>1, <2>3, <2>6
          DEF Sequence!Pop, Sequence!Take, Sequence!Last, Sequence!Front
<1> QED BY <1>4, <1>5

(* What remove and dequeue_front leave, when their loop begins at m.       *)
LEMMA ShiftBegins ==
    ASSUME Inv, pc = "idle", Inv', pc' = "shift", NEW m \in 0..N, m < length,
           i' = m, data' = data, length' = length
    PROVE  Contents' = SubSeq(Contents, 1, m) \o SubSeq(Contents, m + 2, length)
<1> USE CapacityAssumption
<1>1. /\ data \in [0..(N - 1) -> Values] /\ length \in 0..N
      /\ Contents = Section(data, 0, length)
  BY IdleContents
<1>2. Contents' = Section(data, 0, m) \o Section(data, m + 1, length)
  BY ContentsWillBe
<1>3. SubSeq(Contents, 1, m) = Section(data, 0, m)
  <2>1. 0 \in 0..length /\ m \in 0..length /\ 0 + 1 = 1
    BY <1>1
  <2>2. SubSeq(Section(data, 0, length), 0 + 1, m) = Section(data, 0, m)
    BY <1>1, <2>1, SectionOfSection
  <2> QED BY <1>1, <2>2
<1>4. SubSeq(Contents, m + 2, length) = Section(data, m + 1, length)
  <2>1. m + 1 \in 0..length /\ length \in (m + 1)..length /\ (m + 1) + 1 = m + 2
    BY <1>1
  <2>2. SubSeq(Section(data, 0, length), (m + 1) + 1, length) = Section(data, m + 1, length)
    BY <1>1, <2>1, SectionOfSection
  <2> QED BY <1>1, <2>1, <2>2
<1> QED BY <1>2, <1>3, <1>4

(* remove takes out the item at index.                                     *)
LEMMA RemoveRefines ==
    ASSUME Inv, Inv', NEW index \in 0..N, RemoveItem(index)
    PROVE  Sequence!RemoveItem(index)
<1> USE CapacityAssumption
<1>2. /\ data \in [0..(N - 1) -> Values] /\ length \in 0..N /\ Len(Contents) = length
      /\ Contents = Section(data, 0, length) /\ Contents \in Seq(Values)
      /\ \A n \in 1..length : Contents[n] = data[n - 1]
      /\ Contents = <<>> <=> length = 0
  BY IdleContents DEF RemoveItem
<1>4. CASE index >= length
  <2>1. last' = <<"remove", index, Panicked>> /\ data' = data /\ length' = length /\ pc' = pc
    BY <1>4 DEF RemoveItem, loop
  <2>2. Contents' = Contents
    BY <1>2, <2>1, IdleContentsAfter DEF RemoveItem
  <2>3. ~(index < Len(Contents))
    BY <1>2, <1>4
  <2> QED BY <2>1, <2>2, <2>3 DEF Sequence!RemoveItem
<1>5. CASE ~(index >= length)
  <2>1. /\ last' = <<"remove", index, Ok>> /\ data' = data /\ length' = length
        /\ pc' = "shift" /\ i' = index
    BY <1>5 DEF RemoveItem
  <2>2. index < length
    BY <1>2, <1>5
  <2>3. Contents' = SubSeq(Contents, 1, index) \o SubSeq(Contents, index + 2, length)
    BY <2>1, <2>2, ShiftBegins DEF RemoveItem
  <2>4. Contents' = Sequence!RemoveAt(Contents, index + 1)
    <3>1. (index + 1) - 1 = index /\ (index + 1) + 1 = index + 2
      OBVIOUS
    <3> QED BY <1>2, <2>3, <3>1 DEF Sequence!RemoveAt
  <2>5. Len(Contents') <= N
    <3>1. SubSeq(Contents, 1, index) \in Seq(Values) /\ Len(SubSeq(Contents, 1, index)) = index
      BY <1>2, <2>2, SubSeqProperties
    <3>2. /\ SubSeq(Contents, index + 2, length) \in Seq(Values)
          /\ Len(SubSeq(Contents, index + 2, length)) = length - index - 1
      BY <1>2, <2>2, SubSeqProperties
    <3>3. Len(Contents') = index + (length - index - 1)
      BY <2>3, <3>1, <3>2, ConcatProperties
    <3> QED BY <1>2, <3>3
  <2> QED BY <1>2, <2>1, <2>2, <2>4, <2>5 DEF Sequence!RemoveItem, Sequence!Store
<1> QED BY <1>4, <1>5

(* dequeue_front takes out the first item.                                 *)
LEMMA DequeueRefines ==
    ASSUME Inv, Inv', DequeueFront
    PROVE  Sequence!DequeueFront
<1> USE CapacityAssumption
<1>2. /\ data \in [0..(N - 1) -> Values] /\ length \in 0..N /\ Len(Contents) = length
      /\ Contents = Section(data, 0, length) /\ Contents \in Seq(Values)
      /\ \A n \in 1..length : Contents[n] = data[n - 1]
      /\ Contents = <<>> <=> length = 0
  BY IdleContents DEF DequeueFront
<1>4. CASE length = 0
  <2>1. last' = <<"dequeue_front", None, None>> /\ data' = data /\ length' = length /\ pc' = pc
    BY <1>4 DEF DequeueFront, loop
  <2>2. Contents' = Contents
    BY <1>2, <2>1, IdleContentsAfter DEF DequeueFront
  <2> QED BY <1>2, <1>4, <2>1, <2>2 DEF Sequence!DequeueFront, Sequence!Take
<1>5. CASE length # 0
  <2>1. /\ last' = <<"dequeue_front", None, data[0]>> /\ data' = data /\ length' = length
        /\ pc' = "shift" /\ i' = 0
    BY <1>5 DEF DequeueFront
  <2>2. Contents # <<>> /\ 0 < length /\ 0 \in 0..N /\ 1 \in 1..length
    BY <1>2, <1>5
  <2>3. Contents' = SubSeq(Contents, 1, 0) \o SubSeq(Contents, 2, length)
    <3>1. pc = "idle" /\ 0 + 2 = 2
      BY DEF DequeueFront
    <3>2. Contents' = SubSeq(Contents, 1, 0) \o SubSeq(Contents, 0 + 2, length)
      BY <2>1, <2>2, <3>1, ShiftBegins
    <3> QED BY <3>1, <3>2
  <2>4. SubSeq(Contents, 1, 0) = <<>>
    BY SubSeqEmpty
  <2>5. SubSeq(Contents, 2, length) = Tail(Contents) /\ Tail(Contents) \in Seq(Values)
    BY <1>2, <2>2, TailIsSubSeq, HeadTailProperties
  <2>6. Contents' = Tail(Contents)
    BY <2>3, <2>4, <2>5, ConcatEmptySeq
  <2>7. Head(Contents) = data[0]
    BY <1>2, <2>2
  <2> QED BY <2>1, <2>2, <2>6, <2>7 DEF Sequence!DequeueFront, Sequence!Take
<1> QED BY <1>4, <1>5

(* retain keeps what its predicate accepts, from its first step on.        *)
LEMMA RetainRefines ==
    ASSUME Inv, Inv', NEW K \in SUBSET Items, Retain(K)
    PROVE  Sequence!Retain(K)
<1> USE CapacityAssumption
<1>1. /\ data \in [0..(N - 1) -> Values] /\ length \in 0..N /\ Len(Contents) = length
      /\ Contents = Section(data, 0, length) /\ Contents \in Seq(Values)
  BY IdleContents DEF Retain
<1>2. /\ pc' = "retain" /\ i' = 0 /\ write_idx' = 0 /\ keep' = K
      /\ last' = <<"retain", K, Ok>> /\ data' = data /\ length' = length
  BY DEF Retain
<1>3. Kept(Contents, K) \in Seq(Values) /\ Len(Kept(Contents, K)) <= length
  BY <1>1, KeptProperties
<1>4. Contents' = Section(data, 0, 0) \o Kept(Contents, K)
  BY <1>1, <1>2, ContentsWillBe
<1>5. Section(data, 0, 0) = <<>>
  BY SectionEmpty
<1>6. Contents' = Kept(Contents, K)
  BY <1>3, <1>4, <1>5, ConcatEmptySeq
<1>7. Len(Kept(Contents, K)) <= N
  BY <1>1, <1>3, LenProperties
<1> QED BY <1>2, <1>6, <1>7 DEF Sequence!Retain, Sequence!Store, Sequence!Kept, Kept

(* The iterations of the loops, and their ends, change nothing of the      *)
(* sequence.                                                               *)
LEMMA LoopStutters ==
    ASSUME Inv, Inv', ShiftStep \/ ShiftDone \/ RetainStep \/ RetainDone
    PROVE  Contents' = Contents /\ last' = last
<1> USE CapacityAssumption
<1>1. /\ data \in [0..(N - 1) -> Values] /\ data' \in [0..(N - 1) -> Values]
      /\ length \in 0..N /\ i \in 0..N /\ write_idx \in 0..i
  BY DEF Inv, TypeOK, Values
<1>2. last' = last
  BY DEF ShiftStep, ShiftDone, RetainStep, RetainDone
<1>3. CASE ShiftStep
  <2>1. /\ pc = "shift" /\ pc' = "shift" /\ i + 1 < length /\ i' = i + 1 /\ length' = length
        /\ data' = [data EXCEPT ![i] = data[i + 1]]
    BY <1>1, <1>3 DEF ShiftStep, InShift
  <2>2. data'[i] = data[i + 1] /\ \A n \in 0..(N - 1) : n # i => data'[n] = data[n]
    BY <1>1, <2>1
  <2>3. Contents = Section(data, 0, i) \o Section(data, i + 1, length)
    BY <2>1, ContentsIs
  <2>4. Contents' = Section(data', 0, i + 1) \o Section(data', (i + 1) + 1, length)
    BY <2>1, ContentsWillBe
  <2>5. PICK d \in [0..(N - 1) -> Values], e \in [0..(N - 1) -> Values] : d = data /\ e = data'
    BY <1>1
  <2>6. PICK k \in 0..N, m \in 0..N : k = length /\ m = i
    BY <1>1
  <2>7. m + 1 < k /\ e[m] = d[m + 1] /\ \A n \in 0..(N - 1) : n # m => e[n] = d[n]
    BY <2>1, <2>2, <2>5, <2>6
  <2>8. Section(e, 0, m + 1) \o Section(e, (m + 1) + 1, k)
          = Section(d, 0, m) \o Section(d, m + 1, k)
    BY <2>7, ShiftKeepsSequence
  <2> QED BY <1>2, <2>3, <2>4, <2>5, <2>6, <2>8
<1>4. CASE ShiftDone
  <2>1. /\ pc = "shift" /\ pc' = "idle" /\ i + 1 = length /\ length' = i /\ data' = data
    BY <1>1, <1>4 DEF ShiftDone, InShift, Inv, LoopInv
  <2>2. Contents = Section(data, 0, i) \o Section(data, length, length)
    BY <2>1, ContentsIs
  <2>3. Section(data, length, length) = <<>>
    BY <1>1, SectionEmpty
  <2>4. Section(data, 0, i) \in Seq(Values)
    BY <1>1, UsedSeq
  <2>5. Contents' = Section(data, 0, i)
    BY <2>1, ContentsWillBe
  <2> QED BY <1>2, <2>2, <2>3, <2>4, <2>5, ConcatEmptySeq
<1>5. CASE RetainStep
  <2>1. /\ pc = "retain" /\ pc' = "retain" /\ i \in 0..(length - 1) /\ i' = i + 1
        /\ length' = length /\ keep' = keep
    BY <1>1, <1>5 DEF RetainStep
  <2>2. Contents = Section(data, 0, write_idx) \o Kept(Section(data, i, length), keep)
    BY <2>1, ContentsIs
  <2>3. Contents' = Section(data', 0, write_idx') \o Kept(Section(data', i + 1, length), keep)
    BY <2>1, ContentsWillBe
  <2>4. CASE data[i] \in keep
    <3>1. data' = [data EXCEPT ![write_idx] = data[i]] /\ write_idx' = write_idx + 1
      BY <1>5, <2>4 DEF RetainStep
    <3>2. data'[write_idx] = data[i] /\ \A n \in 0..(N - 1) : n # write_idx => data'[n] = data[n]
      BY <1>1, <2>1, <3>1
    <3>3. Section(data', 0, write_idx + 1) \o Kept(Section(data', i + 1, length), keep)
            = Section(data, 0, write_idx) \o Kept(Section(data, i, length), keep)
      <4>1. PICK d \in [0..(N - 1) -> Values], e \in [0..(N - 1) -> Values] : d = data /\ e = data'
        BY <1>1
      <4>2. PICK k \in 0..N : k = length
        BY <1>1
      <4>3. PICK m \in 0..(k - 1) : m = i
        BY <2>1, <4>2
      <4>4. PICK w \in 0..m : w = write_idx
        BY <1>1, <4>3
      <4>0. PICK K : K = keep
        OBVIOUS
      <4>5. d[m] \in K /\ e[w] = d[m] /\ \A n \in 0..(N - 1) : n # w => e[n] = d[n]
        BY <2>4, <3>2, <4>0, <4>1, <4>3, <4>4
      <4>6. RetainSeq(e, w + 1, m + 1, k, K) = RetainSeq(d, w, m, k, K)
        BY <4>5, RetainKeepsSequence
      <4> QED BY <4>0, <4>1, <4>2, <4>3, <4>4, <4>6 DEF RetainSeq
    <3> QED BY <1>2, <2>2, <2>3, <3>1, <3>3
  <2>5. CASE data[i] \notin keep
    <3>1. data' = data /\ write_idx' = write_idx
      BY <1>5, <2>5 DEF RetainStep
    <3>2. Kept(Section(data, i + 1, length), keep) = Kept(Section(data, i, length), keep)
      BY <1>1, <2>1, <2>5, RetainSkipsItem
    <3> QED BY <1>2, <2>2, <2>3, <3>1, <3>2
  <2> QED BY <2>4, <2>5
<1>6. CASE RetainDone
  <2>1. /\ pc = "retain" /\ pc' = "idle" /\ i = length /\ data' = data
        /\ length' = write_idx % LENGTHS
    BY <1>6 DEF RetainDone
  <2>2. write_idx \in 0..N
    BY <1>1
  <2>3. length' = write_idx
    BY <2>1, <2>2, LengthFits
  <2>4. Contents = Section(data, 0, write_idx) \o Kept(Section(data, length, length), keep)
    BY <2>1, ContentsIs
  <2>5. Section(data, length, length) = <<>>
    BY <1>1, SectionEmpty
  <2>6. Kept(<<>>, keep) = <<>>
    BY KeptEmpty
  <2>7. Section(data, 0, write_idx) \in Seq(Values)
    BY <1>1, <2>2, UsedSeq
  <2>8. Contents' = Section(data, 0, write_idx)
    BY <2>1, <2>3, ContentsWillBe
  <2> QED BY <1>2, <2>4, <2>5, <2>6, <2>7, <2>8, ConcatEmptySeq
<1> QED BY <1>3, <1>4, <1>5, <1>6

(* Every call of a HeaplessVec is one step of the bounded sequence, and    *)
(* the iterations of its loops are none.                                   *)
LEMMA StepRefines ==
    ASSUME Inv, Inv', [Next]_vars
    PROVE  [Sequence!Next]_Sequence!vars
<1>1. ASSUME NEW x \in Items, Push(x) PROVE Sequence!Next
  BY <1>1, PushRefines DEF Sequence!Next
<1>2. ASSUME NEW s \in Slices, ExtendFromSlice(s) \/ TryFrom(s) \/ WriteStr(s)
      PROVE  Sequence!Next
  <2>1. s \in Sequence!Slices
    BY DEF Slices, Sequence!Slices
  <2> QED BY <1>2, <2>1, ExtendRefines, TryFromRefines, WriteStrRefines DEF Sequence!Next
<1>3. CASE Clear \/ Pop \/ DequeueFront
  BY <1>3, ClearRefines, PopRefines, DequeueRefines DEF Sequence!Next
<1>4. ASSUME NEW index \in 0..N, RemoveItem(index) PROVE Sequence!Next
  BY <1>4, RemoveRefines DEF Sequence!Next
<1>5. ASSUME NEW K \in SUBSET Items, Retain(K) PROVE Sequence!Next
  BY <1>5, RetainRefines DEF Sequence!Next
<1>6. CASE ShiftStep \/ ShiftDone \/ RetainStep \/ RetainDone
  BY <1>6, LoopStutters DEF Sequence!vars
<1>7. CASE UNCHANGED vars
  BY <1>7 DEF vars, loop, Sequence!vars, Contents, Slots
<1> QED BY <1>1, <1>2, <1>3, <1>4, <1>5, <1>6, <1>7 DEF Next

(* HeaplessVec and HeaplessString (heapless.rs), with loops that move      *)
(* items in place and slots that keep old items behind the length,         *)
(* implement a bounded sequence, whatever the capacity and the items.      *)
THEOREM VectorImplementsSequence == Spec => ImplementsSequence
<1>1. Init => Sequence!Init
  <2> SUFFICES ASSUME Init PROVE Sequence!Init
    OBVIOUS
  <2>1. pc = "idle" /\ length = 0 /\ Inv
    BY InitInv DEF Init
  <2>2. Contents = <<>>
    BY <2>1, IdleContents
  <2> QED BY <2>2 DEF Init, Sequence!Init
<1>2. Inv /\ Inv' /\ [Next]_vars => [Sequence!Next]_Sequence!vars
  BY StepRefines
<1>3. Spec => []Inv
  BY InitInv, NextInv, PTL DEF Spec
<1> QED BY <1>1, <1>2, <1>3, PTL DEF Spec, ImplementsSequence, Sequence!Spec
=============================================================================
