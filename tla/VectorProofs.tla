---------------------------- MODULE VectorProofs ----------------------------
(***************************************************************************)
(* Lemmas about vectors, which the proofs about the components cite, and   *)
(* the two about induction that the lemmas on loops rest on.               *)
(***************************************************************************)
EXTENDS Vectors, WellFoundedInduction, SequenceTheorems, FiniteSetTheorems, TLAPS

-----------------------------------------------------------------------------
(* Induction, with a set for the predicate.                                *)

(* A set with 0 that is closed under + 1 has all of the numbers: induction *)
(* for what a loop over a vector (heapless.rs) has done after n steps.     *)
LEMMA NatSet ==
    ASSUME NEW T, 0 \in T, \A n \in Nat : n \in T => n + 1 \in T
    PROVE  Nat \subseteq T
<1> DEFINE B == Nat \ T
           R == OpToRel(<, Nat)
<1> SUFFICES ASSUME B # {} PROVE FALSE
  OBVIOUS
<1>1. IsWellFoundedOn(R, Nat)
  BY NatLessThanWellFounded
<1>2. \E x \in B : \A y \in B : <<y, x>> \notin R
  <2> HIDE DEF R
  <2>1. B \subseteq Nat
    OBVIOUS
  <2> HIDE DEF B
  <2> QED BY <1>1, <2>1, WFMin
<1>3. \A x, y \in Nat : y < x => <<y, x>> \in R
  BY DEF OpToRel
<1> HIDE DEF R
<1>4. PICK x \in B : \A y \in B : ~(y < x)
  BY <1>2, <1>3
<1>5. x # 0 /\ x - 1 \in Nat /\ (x - 1) + 1 = x
  OBVIOUS
<1>6. x - 1 \in T
  BY <1>4, <1>5
<1> QED BY <1>5, <1>6, <1>4

(* it[k] is what k steps of F lead to from v0, all of it in V. *)
Iterates(it, V, N, v0, F) ==
    /\ it \in [0..N -> V]
    /\ it[0] = v0
    /\ \A k \in 1..N : it[k] = F[<<it[k - 1], k>>]

(* A step can be repeated: what a fold over a vector of N items computes   *)
(* (the loops of heapless.rs) is well defined.                             *)
LEMMA Iteration ==
    ASSUME NEW V, NEW N \in Nat, NEW v0 \in V, NEW F \in [V \X (1..N) -> V]
    PROVE  \E it : Iterates(it, V, N, v0, F)
<1> DEFINE P(n) == \E it : Iterates(it, V, n, v0, F)
           T == {n \in Nat : n <= N => P(n)}
<1>1. 0 \in T
  <2> DEFINE it == [k \in 0..0 |-> v0]
  <2>1. it \in [0..0 -> V] /\ it[0] = v0 /\ \A k \in 1..0 : it[k] = F[<<it[k - 1], k>>]
    OBVIOUS
  <2>2. P(0)
    BY <2>1 DEF Iterates
  <2> QED BY <2>2
<1>2. ASSUME NEW n \in Nat, n \in T PROVE n + 1 \in T
  <2> SUFFICES ASSUME n + 1 <= N PROVE P(n + 1)
    OBVIOUS
  <2>1. PICK it : it \in [0..n -> V] /\ it[0] = v0 /\ \A k \in 1..n : it[k] = F[<<it[k - 1], k>>]
    BY <1>2 DEF Iterates
  <2> DEFINE jt == [k \in 0..(n + 1) |-> IF k = n + 1 THEN F[<<it[n], n + 1>>] ELSE it[k]]
  <2>2. F[<<it[n], n + 1>>] \in V
    <3>1. it[n] \in V /\ n + 1 \in 1..N
      BY <2>1
    <3> QED BY <3>1
  <2>3. jt \in [0..(n + 1) -> V]
    <3>1. \A k \in 0..(n + 1) : k # n + 1 => k \in 0..n
      OBVIOUS
    <3>2. \A k \in 0..n : it[k] \in V
      BY <2>1
    <3> QED BY <2>2, <3>1, <3>2
  <2>4. jt[0] = v0
    BY <2>1
  <2>5. ASSUME NEW k \in 1..(n + 1) PROVE jt[k] = F[<<jt[k - 1], k>>]
    <3>0. k - 1 \in 0..n /\ k - 1 \in 0..(n + 1) /\ k - 1 # n + 1
      OBVIOUS
    <3>1. jt[k - 1] = it[k - 1]
      BY <3>0
    <3>2. CASE k = n + 1
      <4>1. k - 1 = n /\ jt[k] = F[<<it[n], n + 1>>]
        BY <3>2
      <4> QED BY <3>1, <3>2, <4>1
    <3>3. CASE k # n + 1
      <4>1. k \in 1..n
        BY <3>3
      <4> QED BY <2>1, <3>1, <4>1
    <3> QED BY <3>2, <3>3
  <2> HIDE DEF jt
  <2> QED BY <2>3, <2>4, <2>5 DEF Iterates
<1> HIDE DEF T
<1>3. N \in T
  BY <1>1, <1>2, NatSet
<1> QED BY <1>3 DEF T

(* What holds before a loop and is carried on by each turn holds after     *)
(* each turn; it may depend on the turn.                                   *)
LEMMA LoopHolds ==
    ASSUME NEW N \in Nat, NEW f, NEW W, f[0] \in W[0],
           \A n \in 1..N : f[n - 1] \in W[n - 1] => f[n] \in W[n]
    PROVE  \A n \in 0..N : f[n] \in W[n]
<1> DEFINE T == {n \in Nat : n <= N => f[n] \in W[n]}
<1>1. 0 \in T
  OBVIOUS
<1>2. ASSUME NEW n \in Nat, n \in T PROVE n + 1 \in T
  <2> SUFFICES ASSUME n + 1 <= N PROVE f[n + 1] \in W[n + 1]
    OBVIOUS
  <2>1. n + 1 \in 1..N /\ (n + 1) - 1 = n /\ f[n] \in W[n]
    BY <1>2
  <2> QED BY <2>1
<1> HIDE DEF T
<1>3. \A n \in Nat : n \in T
  BY <1>1, <1>2, NatSet
<1> QED BY <1>3 DEF T

(* What holds before a loop and is kept by each turn holds throughout.     *)
LEMMA LoopStays ==
    ASSUME NEW V, NEW N \in Nat, NEW f, f[0] \in V,
           \A n \in 1..N : f[n - 1] \in V => f[n] \in V
    PROVE  \A n \in 0..N : f[n] \in V
<1> DEFINE W == [n \in 0..N |-> V]
<1>1. W[0] = V /\ \A n \in 1..N : W[n - 1] = V /\ W[n] = V
  OBVIOUS
<1>2. \A n \in 0..N : W[n] = V
  OBVIOUS
<1> HIDE DEF W
<1>3. \A n \in 0..N : f[n] \in W[n]
  BY <1>1, LoopHolds
<1> QED BY <1>2, <1>3

(* What holds at some point of a loop and is kept from there on holds at   *)
(* its end.                                                                *)
LEMMA LoopRests ==
    ASSUME NEW N \in Nat, NEW m \in 0..N, NEW f, NEW V, f[m] \in V,
           \A n \in 1..N : m < n /\ f[n - 1] \in V => f[n] \in V
    PROVE  f[N] \in V
<1> DEFINE T == {n \in Nat : m <= n /\ n <= N => f[n] \in V}
<1>1. 0 \in T
  OBVIOUS
<1>2. ASSUME NEW n \in Nat, n \in T PROVE n + 1 \in T
  <2> SUFFICES ASSUME m <= n + 1, n + 1 <= N PROVE f[n + 1] \in V
    OBVIOUS
  <2>1. CASE m = n + 1
    BY <2>1
  <2>2. CASE m <= n
    <3>1. n + 1 \in 1..N /\ m < n + 1 /\ (n + 1) - 1 = n /\ f[n] \in V
      BY <1>2, <2>2
    <3> QED BY <3>1
  <2> QED BY <2>1, <2>2
<1> HIDE DEF T
<1>3. N \in T
  BY <1>1, <1>2, NatSet
<1> QED BY <1>3 DEF T

-----------------------------------------------------------------------------
(* Taking items out and putting them in. *)

(* RemoveAt drops one position and closes the gap (HeaplessVec::remove).   *)
LEMMA RemoveAtProperties ==
    ASSUME NEW S, NEW q \in Seq(S), NEW i \in 1..Len(q)
    PROVE  /\ RemoveAt(q, i) \in Seq(S)
           /\ Len(RemoveAt(q, i)) = Len(q) - 1
           /\ \A j \in 1..(Len(q) - 1) :
                RemoveAt(q, i)[j] = IF j < i THEN q[j] ELSE q[j + 1]
<1> DEFINE b == SubSeq(q, 1, i - 1)
           e == SubSeq(q, i + 1, Len(q))
<1>1. /\ b \in Seq(S) /\ Len(b) = i - 1
      /\ \A j \in 1..(i - 1) : b[j] = q[j]
  BY SubSeqProperties
<1>2. /\ e \in Seq(S) /\ Len(e) = Len(q) - i
      /\ \A j \in 1..(Len(q) - i) : e[j] = q[i + j]
  BY SubSeqProperties
<1>3. RemoveAt(q, i) = b \o e
  BY DEF RemoveAt
<1> HIDE DEF b, e
<1>4. /\ b \o e \in Seq(S) /\ Len(b \o e) = Len(b) + Len(e)
      /\ \A j \in 1..(Len(b) + Len(e)) :
           (b \o e)[j] = IF j <= Len(b) THEN b[j] ELSE e[j - Len(b)]
  BY <1>1, <1>2, ConcatProperties
<1>5. Len(b) + Len(e) = Len(q) - 1
  BY <1>1, <1>2
<1>6. ASSUME NEW j \in 1..(Len(q) - 1)
      PROVE  (b \o e)[j] = IF j < i THEN q[j] ELSE q[j + 1]
  <2>1. (b \o e)[j] = IF j <= i - 1 THEN b[j] ELSE e[j - (i - 1)]
    BY <1>1, <1>4, <1>5
  <2>2. CASE j < i
    <3>1. j \in 1..(i - 1) /\ j <= i - 1
      BY <2>2
    <3> QED BY <1>1, <2>1, <2>2, <3>1
  <2>3. CASE ~(j < i)
    <3>1. ~(j <= i - 1) /\ j - (i - 1) \in 1..(Len(q) - i) /\ i + (j - (i - 1)) = j + 1
      BY <2>3
    <3> QED BY <1>2, <2>1, <2>3, <3>1
  <2> QED BY <2>2, <2>3
<1> QED BY <1>1, <1>2, <1>3, <1>4, <1>5, <1>6

(* RemoveElement on a vector without duplicates removes the element and    *)
(* nothing else, and makes no duplicates.                                  *)
LEMMA RemoveElementProperties ==
    ASSUME NEW S, NEW q \in Seq(S), IsInjective(q), NEW x
    PROVE  /\ RemoveElement(q, x) \in Seq(S)
           /\ IsInjective(RemoveElement(q, x))
           /\ Range(RemoveElement(q, x)) = Range(q) \ {x}
           /\ Len(RemoveElement(q, x)) <= Len(q)
<1>1. CASE x \notin Range(q)
  BY <1>1 DEF RemoveElement
<1>2. CASE x \in Range(q)
  <2> DEFINE Here(i) == q[i] = x /\ \A j \in DOMAIN q : q[j] = x => i <= j
             i0 == CHOOSE i \in DOMAIN q : Here(i)
             r == RemoveAt(q, i0)
  <2>1. \E i \in DOMAIN q : Here(i)
    BY <1>2 DEF Range, IsInjective
  <2>2. i0 \in DOMAIN q /\ q[i0] = x
    BY <2>1
  <2> HIDE DEF i0
  <2>3. i0 \in 1..Len(q)
    BY <2>2
  <2>4. /\ r \in Seq(S) /\ Len(r) = Len(q) - 1
        /\ \A j \in 1..(Len(q) - 1) : r[j] = IF j < i0 THEN q[j] ELSE q[j + 1]
    BY <2>3, RemoveAtProperties
  <2>5. RemoveElement(q, x) = r
    BY <1>2 DEF RemoveElement, i0
  <2> HIDE DEF r
  <2>6. IsInjective(r)
    <3> SUFFICES ASSUME NEW a \in 1..(Len(q) - 1), NEW b \in 1..(Len(q) - 1), r[a] = r[b]
                 PROVE  a = b
      BY <2>4 DEF IsInjective
    <3> DEFINE Was(j) == IF j < i0 THEN j ELSE j + 1
    <3>1. Was(a) \in DOMAIN q /\ r[a] = q[Was(a)]
      BY <2>3, <2>4
    <3>2. Was(b) \in DOMAIN q /\ r[b] = q[Was(b)]
      BY <2>3, <2>4
    <3>3. Was(a) = Was(b)
      BY <3>1, <3>2 DEF IsInjective
    <3> QED BY <2>3, <3>3
  <2>7. Range(r) \subseteq Range(q) \ {x}
    BY <2>2, <2>3, <2>4 DEF IsInjective, Range
  <2>8. ASSUME NEW y \in Range(q) \ {x} PROVE y \in Range(r)
    <3>1. PICK k \in 1..Len(q) : q[k] = y
      BY DEF Range
    <3>2. k # i0
      BY <2>2, <3>1
    <3>3. CASE k < i0
      BY <3>1, <3>3, <2>3, <2>4 DEF Range
    <3>4. CASE k > i0
      <4>1. k - 1 \in 1..(Len(q) - 1) /\ ~(k - 1 < i0) /\ (k - 1) + 1 = k
        BY <3>4, <3>1, <2>3
      <4>2. r[k - 1] = q[k] /\ k - 1 \in DOMAIN r
        BY <4>1, <2>4
      <4> QED BY <4>2, <3>1 DEF Range
    <3> QED BY <3>2, <3>3, <3>4, <3>1, <2>3
  <2> QED BY <2>4, <2>5, <2>6, <2>7, <2>8
<1> QED BY <1>1, <1>2

(* What appending an element to a vector does to the set of its elements.  *)
LEMMA AppendElement ==
    ASSUME NEW S, NEW q \in Seq(S), NEW x \in S
    PROVE  /\ Append(q, x) \in Seq(S)
           /\ Range(Append(q, x)) = Range(q) \cup {x}
           /\ IsInjective(q) /\ x \notin Range(q) => IsInjective(Append(q, x))
<1> DEFINE r == Append(q, x)
<1>1. /\ r \in Seq(S) /\ Len(r) = Len(q) + 1 /\ r[Len(q) + 1] = x
      /\ \A i \in 1..Len(q) : r[i] = q[i]
  BY AppendProperties
<1> HIDE DEF r
<1>2. Range(r) = Range(q) \cup {x}
  BY <1>1 DEF Range
<1>3. IsInjective(q) /\ x \notin Range(q) => IsInjective(r)
  BY <1>1 DEF IsInjective, Range
<1> QED BY <1>1, <1>2, <1>3 DEF r

(* Appending to the second part of a queue is appending to the queue.      *)
LEMMA AppendToConcat ==
    ASSUME NEW S, NEW p \in Seq(S), NEW q \in Seq(S), NEW x \in S
    PROVE  p \o Append(q, x) = Append(p \o q, x)
<1>1. Append(p \o q, x) = (p \o q) \o <<x>> /\ Append(q, x) = q \o <<x>>
  BY ConcatProperties, AppendIsConcat
<1>2. <<x>> \in Seq(S)
  OBVIOUS
<1> QED BY <1>1, <1>2, ConcatAssociative

(* The elements of the rest of a queue are elements of the queue.          *)
LEMMA TailElements ==
    ASSUME NEW S, NEW q \in Seq(S), q # <<>>
    PROVE  /\ Head(q) \in S /\ Head(q) \in Range(q)
           /\ Tail(q) \in Seq(S) /\ Len(Tail(q)) = Len(q) - 1
           /\ Range(Tail(q)) \subseteq Range(q)
  BY HeadTailProperties DEF Range

(* An element of a queue is its first or one of the rest.                  *)
LEMMA HeadOrTail ==
    ASSUME NEW S, NEW q \in Seq(S), q # <<>>, NEW x \in Range(q), x # Head(q)
    PROVE  x \in Range(Tail(q))
<1>1. Tail(q) \in Seq(S) /\ Len(Tail(q)) = Len(q) - 1 /\ Len(q) \in Nat /\ Len(q) # 0
  BY HeadTailProperties, LenProperties, EmptySeq
<1>2. \A i \in 1..(Len(q) - 1) : Tail(q)[i] = q[i + 1]
  BY <1>1, HeadTailProperties
<1>3. PICK i \in 1..Len(q) : q[i] = x
  BY LenProperties DEF Range
<1>4. i # 1
  BY <1>3, HeadTailProperties
<1>5. i - 1 \in 1..(Len(q) - 1) /\ (i - 1) + 1 = i
  BY <1>1, <1>4
<1>6. Tail(q)[i - 1] = x /\ i - 1 \in DOMAIN Tail(q)
  BY <1>1, <1>2, <1>3, <1>5
<1> QED BY <1>6 DEF Range

-----------------------------------------------------------------------------
(* Vectors without duplicates. *)

(* Such a vector is as long as the set of its elements is large.           *)
LEMMA InjectiveLength ==
    ASSUME NEW S, NEW q \in Seq(S), IsInjective(q)
    PROVE  IsFiniteSet(Range(q)) /\ Cardinality(Range(q)) = Len(q)
<1>1. Len(q) \in Nat /\ q \in [1..Len(q) -> Range(q)]
  BY LenProperties DEF Range
<1>2. q \in Bijection(1..Len(q), Range(q))
  BY <1>1 DEF Bijection, Injection, Surjection, IsInjective, Range
<1>3. ExistsBijection(1..Len(q), Range(q))
  BY <1>2 DEF ExistsBijection
<1> QED BY <1>1, <1>3, FS_NatBijection, FS_CountingElements

(* If it has fewer different elements, it is not longer than another one.  *)
LEMMA InjectiveShorter ==
    ASSUME NEW S, NEW q \in Seq(S), NEW r \in Seq(S), IsInjective(q), IsInjective(r),
           Range(r) \subseteq Range(q)
    PROVE  /\ Len(r) <= Len(q)
           /\ \A x \in Range(q) : x \notin Range(r) => Len(r) < Len(q)
<1>1. /\ IsFiniteSet(Range(q)) /\ Cardinality(Range(q)) = Len(q)
      /\ IsFiniteSet(Range(r)) /\ Cardinality(Range(r)) = Len(r)
  BY InjectiveLength
<1>2. Len(q) \in Nat /\ Len(r) \in Nat
  BY LenProperties
<1>3. Len(r) <= Len(q) /\ (Len(q) = Len(r) => Range(q) = Range(r))
  BY <1>1, FS_Subset
<1> QED BY <1>2, <1>3

-----------------------------------------------------------------------------
(* retain. *)

(* k[n] is what the loop of HeaplessVec::retain has kept of the first n    *)
(* items of q.                                                             *)
KeepsInSteps(k, S, q, K) ==
    /\ k \in [0..Len(q) -> Seq(S)]
    /\ k[0] = <<>>
    /\ \A n \in 1..Len(q) :
         k[n] = IF q[n] \in K THEN Append(k[n - 1], q[n]) ELSE k[n - 1]
    /\ Kept(q, K) = k[Len(q)]

(* Kept is what the steps of HeaplessVec::retain lead to.                  *)
LEMMA KeptSteps ==
    ASSUME NEW S, NEW q \in Seq(S), NEW K
    PROVE  \E k : KeepsInSteps(k, S, q, K)
<1> DEFINE F == [x \in Seq(S) \X (1..Len(q)) |->
                   IF q[x[2]] \in K THEN Append(x[1], q[x[2]]) ELSE x[1]]
           Step(k) == [n \in 0..Len(q) |->
                         IF n = 0 THEN <<>>
                         ELSE IF q[n] \in K THEN Append(k[n - 1], q[n]) ELSE k[n - 1]]
           kept == CHOOSE k : k = Step(k)
<1>1. Len(q) \in Nat
  OBVIOUS
<1>2. ASSUME NEW v \in Seq(S), NEW n \in 1..Len(q)
      PROVE  /\ F[<<v, n>>] = IF q[n] \in K THEN Append(v, q[n]) ELSE v
             /\ F[<<v, n>>] \in Seq(S)
  <2>1. q[n] \in S /\ Append(v, q[n]) \in Seq(S)
    BY AppendProperties
  <2> QED BY <2>1
<1> HIDE DEF F
<1>3. PICK k \in [0..Len(q) -> Seq(S)] :
        k[0] = <<>> /\ \A n \in 1..Len(q) : k[n] = F[<<k[n - 1], n>>]
  <2> DEFINE V == Seq(S)
             N == Len(q)
             v0 == <<>>
  <2>1. v0 \in V /\ N \in Nat /\ F \in [V \X (1..N) -> V]
    BY <1>1, <1>2 DEF F
  <2> HIDE DEF V, N, v0
  <2>2. \E k : Iterates(k, V, N, v0, F)
    BY <2>1, Iteration
  <2> QED BY <2>2 DEF Iterates, V, N, v0
<1>4. ASSUME NEW n \in 1..Len(q)
      PROVE  k[n] = IF q[n] \in K THEN Append(k[n - 1], q[n]) ELSE k[n - 1]
  <2>1. k[n - 1] \in Seq(S)
    BY <1>1
  <2> QED BY <1>2, <1>3, <2>1
<1>5. k = Step(k)
  <2>1. ASSUME NEW n \in 0..Len(q) PROVE k[n] = Step(k)[n]
    <3>1. CASE n = 0
      BY <1>3, <3>1
    <3>2. CASE n # 0
      <4>1. n \in 1..Len(q)
        BY <1>1, <3>2
      <4>2. Step(k)[n] = IF q[n] \in K THEN Append(k[n - 1], q[n]) ELSE k[n - 1]
        BY <3>2
      <4> QED BY <1>4, <4>1, <4>2
    <3> QED BY <3>1, <3>2
  <2> HIDE DEF Step
  <2>2. DOMAIN Step(k) = 0..Len(q) /\ Step(k) = [n \in 0..Len(q) |-> Step(k)[n]]
    BY DEF Step
  <2>3. k = [n \in 0..Len(q) |-> k[n]]
    OBVIOUS
  <2> QED BY <2>1, <2>2, <2>3
<1>6. kept = Step(kept)
  BY <1>5
<1>7. Kept(q, K) = kept[Len(q)]
  BY DEF Kept
<1> HIDE DEF kept
<1>8. kept \in [0..Len(q) -> Seq(S)]
  <2> DEFINE T == {n \in Nat : n <= Len(q) => kept[n] \in Seq(S)}
  <2>1. 0 \in T
    BY <1>6
  <2>2. ASSUME NEW n \in Nat, n \in T PROVE n + 1 \in T
    <3> SUFFICES ASSUME n + 1 <= Len(q) PROVE kept[n + 1] \in Seq(S)
      OBVIOUS
    <3>1. kept[n] \in Seq(S) /\ q[n + 1] \in S /\ n + 1 \in 0..Len(q) /\ n + 1 # 0
      BY <2>2
    <3>2. (n + 1) - 1 = n
      OBVIOUS
    <3>3. kept[n + 1] = IF q[n + 1] \in K THEN Append(kept[n], q[n + 1]) ELSE kept[n]
      BY <1>6, <3>1, <3>2
    <3> QED BY <3>1, <3>3, AppendProperties
  <2> HIDE DEF T
  <2>3. Nat \subseteq T
    BY <2>1, <2>2, NatSet
  <2>4. \A n \in 0..Len(q) : kept[n] \in Seq(S)
    BY <2>3 DEF T
  <2> QED BY <1>6, <2>4
<1> QED
  <2>1. kept[0] = <<>>
    BY <1>1, <1>6
  <2>2. ASSUME NEW n \in 1..Len(q)
        PROVE  kept[n] = IF q[n] \in K THEN Append(kept[n - 1], q[n]) ELSE kept[n - 1]
    <3>1. n \in 0..Len(q) /\ n # 0
      OBVIOUS
    <3>2. kept[n] = Step(kept)[n]
      BY <1>6
    <3> HIDE <1>6
    <3> QED BY <3>1, <3>2
  <2> QED BY <1>7, <1>8, <2>1, <2>2 DEF KeepsInSteps

(* HeaplessVec::retain keeps the items it is asked to keep and no others,  *)
(* and makes no duplicates.                                                *)
LEMMA KeptProperties ==
    ASSUME NEW S, NEW q \in Seq(S), NEW K
    PROVE  /\ Kept(q, K) \in Seq(S)
           /\ Len(Kept(q, K)) <= Len(q)
           /\ Range(Kept(q, K)) = Range(q) \cap K
           /\ IsInjective(q) => IsInjective(Kept(q, K))
<1>1. Len(q) \in Nat /\ DOMAIN q = 1..Len(q)
  BY LenProperties
<1>0. PICK k : KeepsInSteps(k, S, q, K)
  BY KeptSteps
<1>2. /\ k \in [0..Len(q) -> Seq(S)] /\ k[0] = <<>>
      /\ \A n \in 1..Len(q) :
           k[n] = IF q[n] \in K THEN Append(k[n - 1], q[n]) ELSE k[n - 1]
      /\ Kept(q, K) = k[Len(q)]
  BY <1>0 DEF KeepsInSteps
<1> DEFINE First(n) == {q[j] : j \in 1..n}
           Good(n) == /\ Len(k[n]) <= n
                      /\ Range(k[n]) = First(n) \cap K
                      /\ IsInjective(q) => IsInjective(k[n])
           T == {n \in Nat : n <= Len(q) => Good(n)}
<1>3. 0 \in T
  <2>1. First(0) = {}
    OBVIOUS
  <2>2. Len(k[0]) = 0 /\ Range(k[0]) = {} /\ IsInjective(k[0])
    BY <1>2 DEF Range, IsInjective
  <2> QED BY <2>1, <2>2
<1>4. ASSUME NEW n \in Nat, n \in T PROVE n + 1 \in T
  <2> SUFFICES ASSUME n + 1 <= Len(q) PROVE Good(n + 1)
    OBVIOUS
  <2>1. /\ n + 1 \in 1..Len(q) /\ n \in 0..Len(q) /\ (n + 1) - 1 = n
        /\ k[n] \in Seq(S) /\ q[n + 1] \in S
    BY <1>1, <1>2
  <2>2. Good(n)
    BY <1>4, <2>1
  <2>3. k[n + 1] = IF q[n + 1] \in K THEN Append(k[n], q[n + 1]) ELSE k[n]
    BY <1>2, <2>1
  <2>4. First(n + 1) = First(n) \cup {q[n + 1]}
    <3>1. \A j \in 1..(n + 1) : j \in 1..n \/ j = n + 1
      OBVIOUS
    <3>2. \A j \in 1..n : j \in 1..(n + 1)
      OBVIOUS
    <3>3. n + 1 \in 1..(n + 1)
      OBVIOUS
    <3> QED BY <3>1, <3>2, <3>3
  <2>5. IsInjective(q) => q[n + 1] \notin First(n)
    BY <2>1, <1>1 DEF IsInjective
  <2> HIDE DEF First
  <2>6. CASE q[n + 1] \in K
    <3>1. k[n + 1] = Append(k[n], q[n + 1])
      BY <2>3, <2>6
    <3>2. Len(k[n + 1]) = Len(k[n]) + 1 /\ Len(k[n]) \in Nat
      BY <2>1, <3>1, AppendProperties, LenProperties
    <3>3. /\ Range(k[n + 1]) = Range(k[n]) \cup {q[n + 1]}
          /\ IsInjective(k[n]) /\ q[n + 1] \notin Range(k[n]) => IsInjective(k[n + 1])
      BY <2>1, <3>1, AppendElement
    <3> QED BY <2>2, <2>4, <2>5, <2>6, <3>2, <3>3
  <2>7. CASE q[n + 1] \notin K
    <3>1. k[n + 1] = k[n] /\ Len(k[n]) \in Nat
      BY <2>1, <2>3, <2>7, LenProperties
    <3> QED BY <2>2, <2>4, <2>7, <3>1
  <2> QED BY <2>6, <2>7
<1> HIDE DEF T
<1>5. Len(q) \in T
  BY <1>1, <1>3, <1>4, NatSet
<1>6. Good(Len(q))
  BY <1>5 DEF T
<1>7. First(Len(q)) = Range(q)
  BY <1>1 DEF Range
<1> QED BY <1>1, <1>2, <1>6, <1>7

(* HeaplessVec::retain of an empty vector.                                 *)
LEMMA KeptEmpty ==
    ASSUME NEW K
    PROVE  Kept(<<>>, K) = <<>>
<1>1. <<>> \in Seq({}) /\ Len(<<>>) = 0
  OBVIOUS
<1>2. Kept(<<>>, K) \in Seq({}) /\ Len(Kept(<<>>, K)) <= 0
  BY <1>1, KeptProperties
<1> QED BY <1>2, EmptySeq, LenProperties

(* What HeaplessVec::retain does with the first item and with the rest.    *)
LEMMA KeptCons ==
    ASSUME NEW S, NEW q \in Seq(S), NEW x \in S, NEW K
    PROVE  /\ x \in K => Kept(<<x>> \o q, K) = <<x>> \o Kept(q, K)
           /\ x \notin K => Kept(<<x>> \o q, K) = Kept(q, K)
<1> DEFINE r == <<x>> \o q
           pre == IF x \in K THEN <<x>> ELSE <<>>
<1>1. /\ r \in Seq(S) /\ Len(r) = Len(q) + 1 /\ Len(q) \in Nat /\ r[1] = x
      /\ \A n \in 1..Len(q) : r[n + 1] = q[n]
      /\ pre \in Seq(S)
  OBVIOUS
<1> HIDE DEF r
<1>0. PICK k : KeepsInSteps(k, S, q, K)
  BY KeptSteps
<1>2. /\ k \in [0..Len(q) -> Seq(S)] /\ k[0] = <<>>
      /\ \A n \in 1..Len(q) :
           k[n] = IF q[n] \in K THEN Append(k[n - 1], q[n]) ELSE k[n - 1]
      /\ Kept(q, K) = k[Len(q)]
  BY <1>0 DEF KeepsInSteps
<1>9. PICK m : KeepsInSteps(m, S, r, K)
  BY <1>1, KeptSteps
<1>3. /\ m \in [0..Len(r) -> Seq(S)] /\ m[0] = <<>>
      /\ \A n \in 1..Len(r) :
           m[n] = IF r[n] \in K THEN Append(m[n - 1], r[n]) ELSE m[n - 1]
      /\ Kept(r, K) = m[Len(r)]
  BY <1>9 DEF KeepsInSteps
<1> HIDE DEF pre
<1> DEFINE T == {n \in Nat : n <= Len(q) => m[n + 1] = pre \o k[n]}
<1>4. 0 \in T
  <2>1. 1 \in 1..Len(r) /\ 1 - 1 = 0 /\ 0 + 1 = 1
    BY <1>1
  <2>2. m[1] = IF r[1] \in K THEN Append(m[0], r[1]) ELSE m[0]
    BY <1>3, <2>1
  <2>3. Append(<<>>, x) = <<x>>
    OBVIOUS
  <2>4. m[1] = pre
    BY <1>1, <1>3, <2>2, <2>3 DEF pre
  <2>5. pre \o <<>> = pre
    BY <1>1, ConcatEmptySeq
  <2>6. m[0 + 1] = pre \o k[0]
    BY <1>2, <2>1, <2>4, <2>5
  <2> QED BY <2>6
<1>5. ASSUME NEW n \in Nat, n \in T PROVE n + 1 \in T
  <2> SUFFICES ASSUME n + 1 <= Len(q) PROVE m[(n + 1) + 1] = pre \o k[n + 1]
    OBVIOUS
  <2>1. PICK i \in 1..Len(q) : i = n + 1 /\ i - 1 = n
    OBVIOUS
  <2>2. PICK j \in 1..Len(r) : j = i + 1 /\ j - 1 = i
    BY <1>1
  <2>3. m[i] = pre \o k[n]
    BY <1>5, <2>1
  <2>4. r[j] = q[i] /\ q[i] \in S
    BY <1>1, <2>2
  <2>5. k[n] \in Seq(S)
    <3>1. n \in 0..Len(q)
      BY <1>1
    <3> QED BY <1>2, <3>1
  <2>6. k[i] = IF q[i] \in K THEN Append(k[n], q[i]) ELSE k[n]
    BY <1>2, <2>1
  <2>7. m[j] = IF q[i] \in K THEN Append(pre \o k[n], q[i]) ELSE pre \o k[n]
    BY <1>3, <2>2, <2>3, <2>4
  <2>8. pre \o Append(k[n], q[i]) = Append(pre \o k[n], q[i])
    <3>1. pre \in Seq(S)
      BY <1>1
    <3>2. \A c \in Seq(S), d \in Seq(S), e \in S : c \o Append(d, e) = Append(c \o d, e)
      BY AppendToConcat
    <3> HIDE DEF T
    <3> QED BY <2>4, <2>5, <3>1, <3>2
  <2>9. m[j] = pre \o k[i]
    BY <2>6, <2>7, <2>8
  <2> QED BY <2>1, <2>2, <2>9
<1> HIDE DEF T
<1>6. Len(q) \in T
  BY <1>1, <1>4, <1>5, NatSet
<1>7. m[Len(q) + 1] = pre \o k[Len(q)]
  BY <1>1, <1>6 DEF T
<1>8. Kept(r, K) = pre \o Kept(q, K)
  BY <1>1, <1>2, <1>3, <1>7
<1>10. Kept(q, K) \in Seq(S) /\ <<>> \o Kept(q, K) = Kept(q, K)
  BY KeptProperties, ConcatEmptySeq
<1> QED BY <1>8, <1>10 DEF r, pre
=============================================================================
