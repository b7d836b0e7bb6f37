------------------------------ MODULE DataProofs -----------------------------
(***************************************************************************)
(* Lemmas about data: how many of n messages are at a place, and how many  *)
(* entries of a sequence are of a kind, and what sending, moving and       *)
(* consuming one of them does to the counts; what a loop puts together of  *)
(* sequences; where a text has a symbol.                                   *)
(***************************************************************************)
EXTENDS Strings, SequencesExt, FiniteSetTheorems, SequenceTheorems,
        WellFoundedInduction, TLAPS

(* The messages, of the n there are, at a place.                            *)
HeldAt(n, where, place) == {m \in 1..n : where[m] = place}

(* There are at most n of them.                                             *)
LEMMA HeldType ==
    ASSUME NEW n \in Nat, NEW where, NEW place
    PROVE  /\ IsFiniteSet(HeldAt(n, where, place))
           /\ Cardinality(HeldAt(n, where, place)) \in 0..n
  <1>1. IsFiniteSet(1..n) /\ Cardinality(1..n) = n BY FS_Interval
  <1>2. HeldAt(n, where, place) \in SUBSET (1..n) BY DEF HeldAt
  <1> QED BY <1>1, <1>2, FS_Subset, FS_CardinalityType

(* A place where a positive number of messages is has one.                  *)
LEMMA HeldSome ==
    ASSUME NEW n \in Nat, NEW where, NEW place,
           Cardinality(HeldAt(n, where, place)) > 0
    PROVE  \E m \in 1..n : where[m] = place
  <1>1. HeldAt(n, where, place) # {} BY FS_EmptySet
  <1> QED BY <1>1 DEF HeldAt

(* One more message, at a place of its own choice.                          *)
LEMMA HeldMore ==
    ASSUME NEW n \in Nat, NEW P, NEW where \in [1..n -> P], NEW new \in P,
           NEW after, after = [m \in 1..(n + 1) |->
                                   IF m = n + 1 THEN new ELSE where[m]]
    PROVE  /\ after \in [1..(n + 1) -> P]
           /\ Cardinality(HeldAt(n + 1, after, new))
                  = Cardinality(HeldAt(n, where, new)) + 1
           /\ \A place \in P : place # new =>
                  HeldAt(n + 1, after, place) = HeldAt(n, where, place)
  <1>1. after \in [1..(n + 1) -> P] OBVIOUS
  <1>2. HeldAt(n + 1, after, new) = HeldAt(n, where, new) \union {n + 1}
    BY DEF HeldAt
  <1>3. n + 1 \notin HeldAt(n, where, new) BY DEF HeldAt
  <1>4. Cardinality(HeldAt(n + 1, after, new))
            = Cardinality(HeldAt(n, where, new)) + 1
    BY <1>2, <1>3, HeldType, FS_AddElement
  <1>5. \A place \in P : place # new =>
            HeldAt(n + 1, after, place) = HeldAt(n, where, place)
    BY DEF HeldAt
  <1> QED BY <1>1, <1>4, <1>5

(* A message that moves is one less where it was and one more where it is.  *)
LEMMA HeldMoves ==
    ASSUME NEW n \in Nat, NEW where, NEW m \in 1..n, NEW from, where[m] = from,
           NEW to, to # from, NEW after, after[m] = to,
           \A k \in 1..n : k # m => after[k] = where[k]
    PROVE  /\ Cardinality(HeldAt(n, after, to))
                  = Cardinality(HeldAt(n, where, to)) + 1
           /\ Cardinality(HeldAt(n, after, from))
                  = Cardinality(HeldAt(n, where, from)) - 1
           /\ \A place : place # to /\ place # from =>
                  HeldAt(n, after, place) = HeldAt(n, where, place)
  <1>1. HeldAt(n, after, to) = HeldAt(n, where, to) \union {m} BY DEF HeldAt
  <1>2. m \notin HeldAt(n, where, to) BY DEF HeldAt
  <1>3. HeldAt(n, after, from) = HeldAt(n, where, from) \ {m} BY DEF HeldAt
  <1>4. m \in HeldAt(n, where, from) BY DEF HeldAt
  <1>5. \A place : place # to /\ place # from =>
            HeldAt(n, after, place) = HeldAt(n, where, place)
    BY DEF HeldAt
  <1>6. Cardinality(HeldAt(n, after, to))
            = Cardinality(HeldAt(n, where, to)) + 1
    BY <1>1, <1>2, HeldType, FS_AddElement
  <1>7. Cardinality(HeldAt(n, after, from))
            = Cardinality(HeldAt(n, where, from)) - 1
    BY <1>3, <1>4, HeldType, FS_RemoveElement
  <1> QED BY <1>5, <1>6, <1>7

(* As long as a message is elsewhere, not all of them are at a place.       *)
LEMMA HeldNotAll ==
    ASSUME NEW n \in Nat, NEW where, NEW place, NEW m \in 1..n,
           where[m] # place
    PROVE  Cardinality(HeldAt(n, where, place)) < n
  <1>1. IsFiniteSet(1..n) /\ Cardinality(1..n) = n BY FS_Interval
  <1>2. HeldAt(n, where, place) \in SUBSET (1..n) BY DEF HeldAt
  <1>3. HeldAt(n, where, place) # 1..n BY DEF HeldAt
  <1> QED BY <1>1, <1>2, <1>3, HeldType, FS_Subset
-----------------------------------------------------------------------------
(* The entries of a sequence that are of a kind.                            *)
OfKind(seq, kind) == {i \in 1..Len(seq) : seq[i] = kind}

(* They can be counted.                                                     *)
LEMMA KindType ==
    ASSUME NEW S, NEW seq \in Seq(S), NEW kind
    PROVE  /\ IsFiniteSet(OfKind(seq, kind))
           /\ Cardinality(OfKind(seq, kind)) \in Nat
  <1>1. IsFiniteSet(1..Len(seq)) BY FS_Interval
  <1>2. OfKind(seq, kind) \in SUBSET (1..Len(seq)) BY DEF OfKind
  <1> QED BY <1>1, <1>2, FS_Subset, FS_CardinalityType

(* The empty sequence has none.                                             *)
LEMMA KindEmpty ==
    ASSUME NEW kind PROVE Cardinality(OfKind(<<>>, kind)) = 0
  <1>1. OfKind(<<>>, kind) = {} BY DEF OfKind
  <1> QED BY <1>1, FS_EmptySet

(* An entry at the end is counted if it is of the kind.                     *)
LEMMA KindAppend ==
    ASSUME NEW S, NEW seq \in Seq(S), NEW e \in S, NEW kind
    PROVE  Cardinality(OfKind(Append(seq, e), kind))
               = Cardinality(OfKind(seq, kind)) + (IF e = kind THEN 1 ELSE 0)
  <1> DEFINE n == Len(seq) + 1
  <1>1. /\ n \in Nat /\ Len(Append(seq, e)) = n
        /\ Append(seq, e)[n] = e
        /\ \A i \in 1..Len(seq) : Append(seq, e)[i] = seq[i]
    OBVIOUS
  <1>2. n \notin OfKind(seq, kind) BY DEF OfKind
  <1>3. CASE e = kind
    <2>1. OfKind(Append(seq, e), kind) = OfKind(seq, kind) \union {n}
      BY <1>1, <1>3 DEF OfKind
    <2> QED BY <1>2, <1>3, <2>1, KindType, FS_AddElement
  <1>4. CASE e # kind
    <2>1. OfKind(Append(seq, e), kind) = OfKind(seq, kind)
      BY <1>1, <1>4 DEF OfKind
    <2>2. Cardinality(OfKind(seq, kind)) \in Nat BY KindType
    <2> QED BY <1>4, <2>1, <2>2
  <1> QED BY <1>3, <1>4

(* The entry at the front is no longer counted once it is gone.             *)
LEMMA KindTail ==
    ASSUME NEW S, NEW seq \in Seq(S), seq # <<>>, NEW kind
    PROVE  Cardinality(OfKind(seq, kind))
               = Cardinality(OfKind(Tail(seq), kind))
                 + (IF Head(seq) = kind THEN 1 ELSE 0)
  <1> DEFINE T == OfKind(Tail(seq), kind)
             R == OfKind(seq, kind) \ {1}
             shift == [i \in T |-> i + 1]
  <1>1. /\ Tail(seq) \in Seq(S) /\ Len(Tail(seq)) = Len(seq) - 1
        /\ Len(seq) \in Nat \ {0}
        /\ \A i \in 1..Len(Tail(seq)) : Tail(seq)[i] = seq[i + 1]
        /\ Head(seq) = seq[1]
    OBVIOUS
  <1>2. shift \in [T -> R] BY <1>1 DEF OfKind
  <1>3. \A i, j \in T : shift[i] = shift[j] => i = j BY <1>1 DEF OfKind
  <1>4. \A k \in R : \E i \in T : shift[i] = k
    <2> SUFFICES ASSUME NEW k \in R PROVE \E i \in T : shift[i] = k OBVIOUS
    <2>1. k - 1 \in T /\ (k - 1) + 1 = k BY <1>1 DEF OfKind
    <2> QED BY <2>1
  <1>5. shift \in Bijection(T, R)
    BY <1>2, <1>3, <1>4 DEF Bijection, Injection, Surjection, IsInjective
  <1>6. ExistsBijection(T, R) BY <1>5 DEF ExistsBijection
  <1>7. IsFiniteSet(T) BY <1>1, KindType
  <1>8. Cardinality(R) = Cardinality(T) BY <1>6, <1>7, FS_Bijection
  <1>9. IsFiniteSet(OfKind(seq, kind)) BY KindType
  <1>10. 1 \in OfKind(seq, kind) <=> Head(seq) = kind BY <1>1 DEF OfKind
  <1>11. Cardinality(OfKind(seq, kind)) \in Nat /\ Cardinality(T) \in Nat
    BY <1>1, KindType
  <1>12. Cardinality(R) = IF 1 \in OfKind(seq, kind)
                          THEN Cardinality(OfKind(seq, kind)) - 1
                          ELSE Cardinality(OfKind(seq, kind))
    BY <1>9, FS_RemoveElement
  <1> QED BY <1>8, <1>10, <1>11, <1>12
-----------------------------------------------------------------------------
(* Counting up.                                                             *)

(* A set of natural numbers that is not empty has a least element.          *)
LEMMA LeastNatural ==
    ASSUME NEW T \in SUBSET Nat, T # {}
    PROVE  \E n \in T : \A k \in T : n <= k
  <1> DEFINE Less == OpToRel(<, Nat)
  <1>1. IsWellFoundedOn(Less, Nat) BY NatLessThanWellFounded, Zenon
  <1>2. \A x, y \in Nat : x < y => <<x, y>> \in Less BY Zenon DEF OpToRel
  <1> HIDE DEF Less
  <1>3. PICK n \in T : \A k \in T : ~(<<k, n>> \in Less) BY <1>1, WFMin
  <1>4. \A k \in T : k \in Nat /\ n \in Nat /\ ~(k < n) BY <1>2, <1>3
  <1>5. \A k \in T : n <= k BY <1>4
  <1> QED BY <1>5

(* Induction: a set that holds 0, and n + 1 when it holds n, holds every    *)
(* natural number.                                                          *)
LEMMA SetInduction ==
    ASSUME NEW S, 0 \in S, \A n \in Nat : n \in S => n + 1 \in S
    PROVE  \A n \in Nat : n \in S
  <1> SUFFICES ASSUME NEW k \in Nat, k \notin S PROVE FALSE OBVIOUS
  <1> DEFINE T == {n \in Nat : n \notin S}
  <1>1. PICK n \in T : \A j \in T : n <= j BY LeastNatural
  <1>2. n # 0 /\ n - 1 \in Nat /\ n - 1 \notin T BY <1>1
  <1> QED BY <1>1, <1>2
-----------------------------------------------------------------------------
(* Greatest and least elements.                                             *)

(* The greatest of some numbers.                                            *)
LEMMA MaxIs ==
    ASSUME NEW T \in SUBSET Int, NEW x \in T, \A y \in T : x >= y
    PROVE  Max(T) = x
  <1>1. \A z \in T : (\A y \in T : z >= y) => z = x OBVIOUS
  <1>2. \E z \in T : \A y \in T : z >= y OBVIOUS
  <1> QED BY <1>1, <1>2 DEF Max

(* The least of some numbers.                                               *)
LEMMA MinIs ==
    ASSUME NEW T \in SUBSET Int, NEW x \in T, \A y \in T : x <= y
    PROVE  Min(T) = x
  <1>1. \A z \in T : (\A y \in T : z <= y) => z = x OBVIOUS
  <1>2. \E z \in T : \A y \in T : z <= y OBVIOUS
  <1> QED BY <1>1, <1>2 DEF Min

(* Numbers up to a bound have a greatest.                                   *)
LEMMA MaxFacts ==
    ASSUME NEW n \in Nat, NEW T \in SUBSET (0..n), T # {}
    PROVE  Max(T) \in T /\ \A y \in T : Max(T) >= y
  <1> DEFINE U == {k \in 0..n : n - k \in T}
  <1>1. U \in SUBSET Nat OBVIOUS
  <1>2. U # {}
    <2>1. PICK t \in T : TRUE OBVIOUS
    <2>2. n - t \in 0..n /\ n - (n - t) = t BY <2>1
    <2> QED BY <2>1, <2>2
  <1>3. PICK k \in U : \A j \in U : k <= j BY <1>1, <1>2, LeastNatural
  <1>4. n - k \in T /\ k \in 0..n BY <1>3
  <1>5. ASSUME NEW y \in T PROVE n - k >= y
    <2>1. n - y \in 0..n /\ n - (n - y) = y OBVIOUS
    <2>2. n - y \in U BY <2>1
    <2>3. k <= n - y BY <1>3, <2>2
    <2> QED BY <1>4, <2>1, <2>3
  <1>6. Max(T) = n - k
    <2>1. T \in SUBSET Int OBVIOUS
    <2> HIDE DEF U
    <2> QED BY <1>4, <1>5, <2>1, MaxIs
  <1> QED BY <1>4, <1>5, <1>6

(* Natural numbers have a least.                                            *)
LEMMA MinFacts ==
    ASSUME NEW T \in SUBSET Nat, T # {}
    PROVE  Min(T) \in T /\ \A y \in T : Min(T) <= y
  <1>1. PICK n \in T : \A y \in T : n <= y BY LeastNatural
  <1>2. Min(T) = n
    <2>1. T \in SUBSET Int OBVIOUS
    <2> QED BY <1>1, <2>1, MinIs
  <1> QED BY <1>1, <1>2
-----------------------------------------------------------------------------
(* Sequences that are put together in a loop.                               *)

(* Prefixes holds what there is behind each turn of the loop.               *)
ArePrefixes(D, S, seqs) ==
    /\ D \in [0..Len(seqs) -> Seq(S)]
    /\ D[0] = <<>>
    /\ \A i \in 1..Len(seqs) : D[i] = D[i - 1] \o seqs[i]

(* What a loop puts together it reaches turn by turn.                       *)
LEMMA FlattenPrefixes ==
    ASSUME NEW S, NEW seqs \in Seq(Seq(S))
    PROVE  \E D : ArePrefixes(D, S, seqs) /\ D[Len(seqs)] = FlattenSeq(seqs)
  <1> DEFINE L == Len(seqs)
             UpTo(D, n) == /\ D \in [0..n -> Seq(S)]
                           /\ D[0] = <<>>
                           /\ \A i \in 1..n : D[i] = D[i - 1] \o seqs[i]
             Reached(n) == \E D : UpTo(D, n)
             T == {n \in Nat : n <= L => Reached(n)}
             Recursion(f) ==
                 f = [i \in 1..L |-> IF i = 1 THEN seqs[i] ELSE f[i - 1] \o seqs[i]]
             flatten == CHOOSE f : Recursion(f)
  <1>1. L \in Nat /\ \A i \in 1..L : seqs[i] \in Seq(S) OBVIOUS
  <1> HIDE DEF L
  <1>2. \A n \in Nat : n \in T
    <2>1. 0 \in T
      <3>1. UpTo([n \in 0..0 |-> <<>>], 0) OBVIOUS
      <3> QED BY <3>1
    <2>2. ASSUME NEW n \in Nat, n \in T PROVE n + 1 \in T
      <3>1. SUFFICES ASSUME n + 1 <= L PROVE Reached(n + 1)
        <4> HIDE DEF Reached
        <4> QED OBVIOUS
      <3>2. PICK D : UpTo(D, n)
        <4>1. Reached(n)
          <5> HIDE DEF Reached
          <5> QED BY <1>1, <2>2, <3>1
        <4> QED BY <4>1, Zenon
      <3> DEFINE E == [i \in 0..(n + 1) |-> IF i <= n THEN D[i] ELSE D[n] \o seqs[n + 1]]
      <3>3. E \in [0..(n + 1) -> Seq(S)] BY <1>1, <3>1, <3>2
      <3>4. E[0] = <<>> BY <3>2
      <3>5. \A i \in 1..(n + 1) : E[i] = E[i - 1] \o seqs[i]
        <4>1. \A i \in 1..n : E[i] = D[i] /\ E[i - 1] = D[i - 1] OBVIOUS
        <4>2. /\ n \in 0..(n + 1) /\ n + 1 \in 0..(n + 1)
              /\ n <= n /\ ~(n + 1 <= n) /\ (n + 1) - 1 = n
          OBVIOUS
        <4>3. E[n] = D[n] /\ E[n + 1] = D[n] \o seqs[n + 1] BY <4>2
        <4> HIDE DEF E
        <4>4. \A i \in 1..n : E[i] = E[i - 1] \o seqs[i] BY <3>2, <4>1
        <4>5. E[n + 1] = E[(n + 1) - 1] \o seqs[n + 1] BY <4>2, <4>3
        <4>6. \A i \in 1..(n + 1) : i \in 1..n \/ i = n + 1 OBVIOUS
        <4> QED BY <4>4, <4>5, <4>6
      <3> HIDE DEF E
      <3> QED BY <3>3, <3>4, <3>5
    <2> HIDE DEF T
    <2> QED BY <2>1, <2>2, SetInduction
  <1>3. PICK D : UpTo(D, L)
    <2>1. Reached(L)
      <3> HIDE DEF Reached
      <3> QED BY <1>1, <1>2
    <2> QED BY <2>1, Zenon
  <1>4. Recursion([i \in 1..L |-> D[i]])
    <2> DEFINE h == [i \in 1..L |-> D[i]]
    <2>1. ASSUME NEW i \in 1..L
          PROVE  h[i] = IF i = 1 THEN seqs[i] ELSE h[i - 1] \o seqs[i]
      <3>1. D[i] = D[i - 1] \o seqs[i] BY <1>1, <1>3
      <3>2. CASE i = 1
        <4>1. D[0] = <<>> /\ i - 1 = 0 BY <1>3, <3>2
        <4>2. D[i] = <<>> \o seqs[i] BY <3>1, <4>1
        <4> QED BY <1>1, <3>2, <4>2
      <3>3. CASE i # 1
        <4>1. i - 1 \in 1..L BY <1>1, <3>3
        <4>2. h[i - 1] = D[i - 1] /\ h[i] = D[i] BY <4>1
        <4> QED BY <3>1, <3>3, <4>2
      <3> QED BY <3>2, <3>3
    <2> QED BY <2>1
  <1>5. Recursion(flatten)
    <2> HIDE DEF Recursion
    <2> QED BY <1>4
  <1>6. \A n \in Nat : n + 1 <= L => flatten[n + 1] = D[n + 1]
    <2> DEFINE U == {n \in Nat : n + 1 <= L => flatten[n + 1] = D[n + 1]}
    <2> HIDE DEF flatten
    <2>1. 0 \in U
      <3>1. SUFFICES ASSUME 1 <= L PROVE flatten[1] = D[1] OBVIOUS
      <3>2. 1 \in 1..L BY <1>1, <3>1
      <3>3. flatten[1] = seqs[1] BY <1>5, <3>2
      <3>4. D[1] = <<>> \o seqs[1]
        <4>1. D[0] = <<>> BY <1>3
        <4>2. D[1] = D[1 - 1] \o seqs[1] BY <1>3, <3>2
        <4>3. 1 - 1 = 0 OBVIOUS
        <4> QED BY <4>1, <4>2, <4>3
      <3> QED BY <1>1, <3>2, <3>3, <3>4
    <2>2. ASSUME NEW n \in Nat, n \in U PROVE n + 1 \in U
      <3>1. SUFFICES ASSUME (n + 1) + 1 <= L
                     PROVE  flatten[(n + 1) + 1] = D[(n + 1) + 1]
        OBVIOUS
      <3> DEFINE k == (n + 1) + 1
      <3>2. k \in 1..L /\ k # 1 /\ k - 1 = n + 1 /\ flatten[n + 1] = D[n + 1]
        BY <1>1, <2>2, <3>1
      <3> HIDE DEF k
      <3>3. flatten[k] = flatten[k - 1] \o seqs[k] BY <1>5, <3>2
      <3>4. D[k] = D[k - 1] \o seqs[k] BY <1>3, <3>2
      <3> QED BY <3>2, <3>3, <3>4 DEF k
    <2> HIDE DEF U
    <2>3. \A n \in Nat : n \in U BY <2>1, <2>2, SetInduction
    <2> QED BY <2>3 DEF U
  <1>7. D[L] = FlattenSeq(seqs)
    <2>1. CASE L = 0
      <3>1. FlattenSeq(seqs) = seqs BY <2>1 DEF FlattenSeq, L
      <3>2. seqs = <<>> BY <2>1 DEF L
      <3> QED BY <1>3, <2>1, <3>1, <3>2
    <2>2. CASE L # 0
      <3>1. FlattenSeq(seqs) = flatten[L] BY <2>2 DEF FlattenSeq, L
      <3>2. L - 1 \in Nat /\ (L - 1) + 1 = L BY <1>1, <2>2
      <3> HIDE DEF flatten
      <3>3. flatten[(L - 1) + 1] = D[(L - 1) + 1] BY <1>6, <3>2
      <3> QED BY <3>1, <3>2, <3>3
    <2> QED BY <2>1, <2>2
  <1>8. ArePrefixes(D, S, seqs) BY <1>3 DEF ArePrefixes, L
  <1> QED BY <1>7, <1>8 DEF L

(* What is put together of texts is a text.                                 *)
LEMMA FlattenType ==
    ASSUME NEW S, NEW seqs \in Seq(Seq(S))
    PROVE  FlattenSeq(seqs) \in Seq(S)
  <1>1. PICK D : ArePrefixes(D, S, seqs) /\ D[Len(seqs)] = FlattenSeq(seqs)
    BY FlattenPrefixes
  <1>2. Len(seqs) \in 0..Len(seqs) OBVIOUS
  <1> QED BY <1>1, <1>2 DEF ArePrefixes

(* There is only one way to put them together.                              *)
LEMMA FlattenUnique ==
    ASSUME NEW S, NEW seqs \in Seq(Seq(S)), NEW D, ArePrefixes(D, S, seqs)
    PROVE  D[Len(seqs)] = FlattenSeq(seqs)
  <1>1. PICK E : ArePrefixes(E, S, seqs) /\ E[Len(seqs)] = FlattenSeq(seqs)
    BY FlattenPrefixes
  <1> DEFINE T == {n \in Nat : n <= Len(seqs) => D[n] = E[n]}
  <1>2. 0 \in T BY <1>1 DEF ArePrefixes
  <1>3. ASSUME NEW n \in Nat, n \in T PROVE n + 1 \in T
    <2>1. SUFFICES ASSUME n + 1 <= Len(seqs) PROVE D[n + 1] = E[n + 1] OBVIOUS
    <2>2. n + 1 \in 1..Len(seqs) /\ (n + 1) - 1 = n /\ D[n] = E[n] BY <1>3, <2>1
    <2>3. D[n + 1] = D[n] \o seqs[n + 1] /\ E[n + 1] = E[n] \o seqs[n + 1]
      BY <1>1, <2>2 DEF ArePrefixes
    <2> QED BY <2>2, <2>3
  <1>4. \A n \in Nat : n \in T
    <2> HIDE DEF T
    <2> QED BY <1>2, <1>3, SetInduction
  <1>5. Len(seqs) \in Nat OBVIOUS
  <1> QED BY <1>1, <1>4, <1>5

(* Nothing put together is nothing.                                         *)
LEMMA FlattenNothing == FlattenSeq(<<>>) = <<>>
  BY DEF FlattenSeq

(* Turns that add nothing make no difference.                               *)
LEMMA FlattenPad ==
    ASSUME NEW S, NEW p \in Seq(Seq(S)), NEW q \in Seq(Seq(S)), Len(p) <= Len(q),
           \A i \in 1..Len(p) : q[i] = p[i],
           \A i \in (Len(p) + 1)..Len(q) : q[i] = <<>>
    PROVE  FlattenSeq(q) = FlattenSeq(p)
  <1>1. PICK D : ArePrefixes(D, S, p) /\ D[Len(p)] = FlattenSeq(p)
    BY FlattenPrefixes
  <1> DEFINE E == [i \in 0..Len(q) |-> IF i <= Len(p) THEN D[i] ELSE FlattenSeq(p)]
  <1>2. Len(p) \in Nat /\ Len(q) \in Nat OBVIOUS
  <1>3. FlattenSeq(p) \in Seq(S) BY FlattenType
  <1>4. \A i \in 0..Len(p) : D[i] \in Seq(S) BY <1>1 DEF ArePrefixes
  <1>5. E \in [0..Len(q) -> Seq(S)] BY <1>2, <1>3, <1>4
  <1>6. E[0] = <<>> BY <1>1, <1>2 DEF ArePrefixes
  <1>7. ASSUME NEW i \in 1..Len(q) PROVE E[i] = E[i - 1] \o q[i]
    <2>1. CASE i <= Len(p)
      <3>1. i \in 1..Len(p) /\ E[i] = D[i] /\ E[i - 1] = D[i - 1] BY <1>2, <2>1
      <3>2. D[i] = D[i - 1] \o p[i] BY <1>1, <3>1 DEF ArePrefixes
      <3>3. q[i] = p[i] BY <3>1
      <3> HIDE DEF E
      <3> QED BY <3>1, <3>2, <3>3
    <2>2. CASE ~(i <= Len(p))
      <3>1. i \in (Len(p) + 1)..Len(q) BY <1>2, <2>2
      <3>2. E[i] = FlattenSeq(p) BY <1>2, <2>2
      <3>3. E[i - 1] = FlattenSeq(p)
        <4>1. CASE i - 1 <= Len(p)
          <5>1. i - 1 = Len(p) BY <1>2, <2>2, <4>1
          <5> QED BY <1>1, <1>2, <4>1, <5>1
        <4>2. CASE ~(i - 1 <= Len(p)) BY <1>2, <4>2
        <4> QED BY <4>1, <4>2
      <3>4. q[i] = <<>> BY <3>1
      <3> HIDE DEF E
      <3>5. E[i - 1] \o q[i] = E[i - 1]
        <4> DEFINE t == E[i - 1]
        <4>1. t \in Seq(S) BY <1>3, <3>3
        <4> HIDE DEF t
        <4>2. t \o <<>> = t BY <4>1
        <4> QED BY <3>4, <4>2 DEF t
      <3> QED BY <3>2, <3>3, <3>5
    <2> QED BY <2>1, <2>2
  <1>8. E[Len(q)] = FlattenSeq(p)
    <2>1. Len(q) <= Len(p) => Len(q) = Len(p) BY <1>2
    <2> QED BY <1>1, <1>2, <2>1
  <1> HIDE DEF E
  <1>9. ArePrefixes(E, S, q) BY <1>5, <1>6, <1>7 DEF ArePrefixes
  <1> QED BY <1>8, <1>9, FlattenUnique

(* One turn more adds what it adds at the end.                              *)
LEMMA FlattenLast ==
    ASSUME NEW S, NEW p \in Seq(Seq(S)), NEW q \in Seq(Seq(S)),
           Len(q) = Len(p) + 1, \A i \in 1..Len(p) : q[i] = p[i]
    PROVE  FlattenSeq(q) = FlattenSeq(p) \o q[Len(q)]
  <1>1. PICK E : ArePrefixes(E, S, q) /\ E[Len(q)] = FlattenSeq(q)
    BY FlattenPrefixes
  <1>2. Len(p) \in Nat /\ Len(q) \in 1..Len(q) /\ Len(q) - 1 = Len(p) OBVIOUS
  <1>3. E[Len(q)] = E[Len(p)] \o q[Len(q)] BY <1>1, <1>2 DEF ArePrefixes
  <1> DEFINE D == [i \in 0..Len(p) |-> E[i]]
  <1>4. ArePrefixes(D, S, p)
    <2>1. \A i \in 0..Len(p) : i \in 0..Len(q) BY <1>2
    <2>2. D \in [0..Len(p) -> Seq(S)] BY <1>1, <2>1 DEF ArePrefixes
    <2>3. D[0] = <<>> BY <1>1, <1>2 DEF ArePrefixes
    <2>4. ASSUME NEW i \in 1..Len(p) PROVE D[i] = D[i - 1] \o p[i]
      <3>1. i \in 1..Len(q) /\ D[i] = E[i] /\ D[i - 1] = E[i - 1] BY <1>2
      <3>2. E[i] = E[i - 1] \o q[i] BY <1>1, <3>1 DEF ArePrefixes
      <3>3. q[i] = p[i] OBVIOUS
      <3> HIDE DEF D
      <3> QED BY <3>1, <3>2, <3>3
    <2> HIDE DEF D
    <2> QED BY <2>2, <2>3, <2>4 DEF ArePrefixes
  <1>5. D[Len(p)] = E[Len(p)] BY <1>2
  <1> HIDE DEF D
  <1>6. E[Len(p)] = FlattenSeq(p) BY <1>4, <1>5, FlattenUnique
  <1> QED BY <1>1, <1>3, <1>6

(* Whether it does not matter which of three are put together first.        *)
AreAssociative(S) == \A t, u, v \in Seq(S) : (t \o u) \o v = t \o (u \o v)

(* It does not, for any sequences.                                          *)
LEMMA Associates ==
    ASSUME NEW S
    PROVE  AreAssociative(S)
  BY ConcatAssociative DEF AreAssociative

(* One turn before them adds what it adds at the front.                     *)
LEMMA FlattenFirst ==
    ASSUME NEW S, NEW p \in Seq(Seq(S)), NEW q \in Seq(Seq(S)),
           Len(q) = Len(p) + 1, \A i \in 1..Len(p) : q[i + 1] = p[i]
    PROVE  FlattenSeq(q) = q[1] \o FlattenSeq(p)
  <1>1. PICK D : ArePrefixes(D, S, p) /\ D[Len(p)] = FlattenSeq(p)
    BY FlattenPrefixes
  <1> DEFINE E == [i \in 0..Len(q) |-> IF i = 0 THEN <<>> ELSE q[1] \o D[i - 1]]
  <1>2. Len(p) \in Nat /\ 1 \in 1..Len(q) /\ q[1] \in Seq(S) OBVIOUS
  <1>3. \A i \in 0..Len(p) : D[i] \in Seq(S) BY <1>1 DEF ArePrefixes
  <1>4. \A i \in 1..Len(q) : E[i] = q[1] \o D[i - 1] /\ i - 1 \in 0..Len(p)
    BY <1>2
  <1>5. E \in [0..Len(q) -> Seq(S)]
    <2>1. ASSUME NEW i \in 0..Len(q)
          PROVE  (IF i = 0 THEN <<>> ELSE q[1] \o D[i - 1]) \in Seq(S)
      <3>1. CASE i = 0 BY <3>1
      <3>2. CASE i # 0
        <4>1. D[i - 1] \in Seq(S) BY <1>2, <1>3, <3>2
        <4>2. q[1] \o D[i - 1] \in Seq(S) BY <1>2, <4>1
        <4> QED BY <3>2, <4>2
      <3> QED BY <3>1, <3>2
    <2> QED BY <2>1
  <1>6. E[0] = <<>> BY <1>2
  <1> HIDE DEF E
  <1>7. ASSUME NEW i \in 1..Len(q) PROVE E[i] = E[i - 1] \o q[i]
    <2>1. CASE i = 1
      <3>1. D[i - 1] = <<>> /\ E[i - 1] = <<>> BY <1>1, <1>6, <2>1 DEF ArePrefixes
      <3>2. q[1] \o <<>> = <<>> \o q[1] BY <1>2
      <3> QED BY <1>4, <2>1, <3>1, <3>2
    <2>2. CASE i # 1
      <3>1. /\ i - 1 \in 1..Len(p) /\ i - 1 \in 1..Len(q)
            /\ (i - 1) + 1 = i /\ (i - 1) - 1 \in 0..Len(p)
        BY <1>2, <2>2
      <3>2. D[i - 1] = D[(i - 1) - 1] \o p[i - 1] BY <1>1, <3>1 DEF ArePrefixes
      <3>3. q[i] = p[i - 1] BY <3>1
      <3>4. E[i] = q[1] \o D[i - 1] /\ E[i - 1] = q[1] \o D[(i - 1) - 1]
        BY <1>4, <3>1
      <3>5. /\ D[(i - 1) - 1] \in Seq(S) /\ q[i] \in Seq(S)
        BY <1>3, <3>1
      <3>6. (q[1] \o D[(i - 1) - 1]) \o q[i] = q[1] \o (D[(i - 1) - 1] \o q[i])
        <4>1. /\ q[1] \in Seq(S) /\ D[(i - 1) - 1] \in Seq(S)
              /\ q[i] \in Seq(S)
          BY <1>2, <3>5
        <4>2. AreAssociative(S) BY Associates
        <4> QED BY <4>1, <4>2, Zenon DEF AreAssociative
      <3> QED BY <3>2, <3>3, <3>4, <3>6
    <2> QED BY <2>1, <2>2
  <1>8. E[Len(q)] = q[1] \o FlattenSeq(p)
    <2>1. Len(q) \in 1..Len(q) /\ Len(q) - 1 = Len(p) BY <1>2
    <2> QED BY <1>1, <1>4, <2>1
  <1>9. ArePrefixes(E, S, q) BY <1>5, <1>6, <1>7 DEF ArePrefixes
  <1> QED BY <1>8, <1>9, FlattenUnique
(* Turns behind them add what they give alone.                              *)
LEMMA FlattenBoth ==
    ASSUME NEW S, NEW p \in Seq(Seq(S)), NEW r \in Seq(Seq(S)),
           NEW q \in Seq(Seq(S)), Len(q) = Len(p) + Len(r),
           \A i \in 1..Len(p) : q[i] = p[i],
           \A i \in 1..Len(r) : q[Len(p) + i] = r[i]
    PROVE  FlattenSeq(q) = FlattenSeq(p) \o FlattenSeq(r)
  <1>1. PICK D : ArePrefixes(D, S, p) /\ D[Len(p)] = FlattenSeq(p)
    BY FlattenPrefixes
  <1>2. PICK F : ArePrefixes(F, S, r) /\ F[Len(r)] = FlattenSeq(r)
    BY FlattenPrefixes
  <1> DEFINE n == Len(p)
             m == Len(r)
             done == FlattenSeq(p)
             E == [i \in 0..(n + m) |-> IF i <= n THEN D[i] ELSE done \o F[i - n]]
  <1>3. n \in Nat /\ m \in Nat /\ Len(q) = n + m OBVIOUS
  <1>4. /\ D[0] = <<>> /\ D[n] = done
        /\ \A i \in 0..n : D[i] \in Seq(S)
        /\ \A i \in 1..n : D[i] = D[i - 1] \o p[i]
    BY <1>1 DEF ArePrefixes
  <1>5. /\ F[0] = <<>> /\ F[m] = FlattenSeq(r)
        /\ \A i \in 0..m : F[i] \in Seq(S)
        /\ \A i \in 1..m : F[i] = F[i - 1] \o r[i]
    BY <1>2 DEF ArePrefixes
  <1>6. done \in Seq(S) BY FlattenType
  <1>7. /\ \A i \in 1..n : q[i] = p[i]
        /\ \A i \in 1..m : q[n + i] = r[i] /\ r[i] \in Seq(S)
    OBVIOUS
  <1> HIDE DEF n, m, done
  <1>8. \A i \in 0..m : E[n + i] = done \o F[i]
    <2> SUFFICES ASSUME NEW i \in 0..m PROVE E[n + i] = done \o F[i] OBVIOUS
    <2>1. CASE i = 0
      <3>1. n + i \in 0..(n + m) /\ n + i = n BY <1>3, <2>1
      <3>2. E[n + i] = D[n] BY <3>1
      <3>3. done \o <<>> = done BY <1>6
      <3> QED BY <1>4, <1>5, <2>1, <3>2, <3>3
    <2>2. CASE i # 0
      <3>1. n + i \in 0..(n + m) /\ ~(n + i <= n) /\ (n + i) - n = i BY <1>3, <2>2
      <3> QED BY <3>1
    <2> QED BY <2>1, <2>2
  <1>9. E \in [0..(n + m) -> Seq(S)]
    <2>1. ASSUME NEW i \in 0..(n + m)
          PROVE  (IF i <= n THEN D[i] ELSE done \o F[i - n]) \in Seq(S)
      <3>1. CASE i <= n
        <4>1. i \in 0..n BY <1>3, <3>1
        <4> QED BY <1>4, <3>1, <4>1
      <3>2. CASE ~(i <= n)
        <4>1. i - n \in 0..m BY <1>3, <3>2
        <4>2. F[i - n] \in Seq(S) BY <1>5, <4>1
        <4>3. done \o F[i - n] \in Seq(S) BY <1>6, <4>2
        <4> QED BY <3>2, <4>3
      <3> QED BY <3>1, <3>2
    <2> QED BY <2>1
  <1>10. \A i \in 0..n : E[i] = D[i] BY <1>3
  <1> HIDE DEF E
  <1>11. E[0] = <<>> BY <1>3, <1>4, <1>10
  <1>12. ASSUME NEW i \in 1..(n + m) PROVE E[i] = E[i - 1] \o q[i]
    <2>1. CASE i <= n
      <3>1. i \in 1..n /\ i \in 0..n /\ i - 1 \in 0..n BY <1>3, <2>1
      <3> QED BY <1>4, <1>7, <1>10, <3>1
    <2>2. CASE ~(i <= n)
      <3> DEFINE j == i - n
      <3>1. /\ j \in 1..m /\ j \in 0..m /\ j - 1 \in 0..m
            /\ n + j = i /\ n + (j - 1) = i - 1
        BY <1>3, <2>2
      <3> HIDE DEF j
      <3>2. E[i] = done \o F[j] /\ E[i - 1] = done \o F[j - 1] BY <1>8, <3>1
      <3>3. F[j] = F[j - 1] \o r[j] /\ q[i] = r[j] BY <1>5, <1>7, <3>1
      <3>4. F[j - 1] \in Seq(S) /\ r[j] \in Seq(S) BY <1>5, <1>7, <3>1
      <3>5. AreAssociative(S) BY Associates
      <3>6. (done \o F[j - 1]) \o r[j] = done \o (F[j - 1] \o r[j])
        BY <1>6, <3>4, <3>5, Zenon DEF AreAssociative
      <3> QED BY <3>2, <3>3, <3>6
    <2> QED BY <2>1, <2>2
  <1>13. m \in 0..m /\ n + m \in 0..(n + m) BY <1>3
  <1>14. E[Len(q)] = FlattenSeq(p) \o FlattenSeq(r)
    BY <1>3, <1>5, <1>8, <1>13 DEF done
  <1>15. ArePrefixes(E, S, q) BY <1>3, <1>9, <1>11, <1>12 DEF ArePrefixes
  <1> QED BY <1>14, <1>15, FlattenUnique
-----------------------------------------------------------------------------
(* Symbols of a text.                                                       *)

(* A symbol is a text of its own.                                           *)
LEMMA OneSymbol ==
    ASSUME NEW S, NEW c \in S
    PROVE  <<c>> \in Seq(S)
  OBVIOUS

(* Where a symbol is first found.                                           *)
LEMMA FindFacts ==
    ASSUME NEW S, NEW s \in Seq(S), NEW c
    PROVE  \/ Find(s, <<c>>, 0) = NPOS /\ \A i \in 1..Len(s) : s[i] # c
           \/ /\ Find(s, <<c>>, 0) \in 0..(Len(s) - 1)
              /\ s[Find(s, <<c>>, 0) + 1] = c
              /\ \A i \in 1..Find(s, <<c>>, 0) : s[i] # c
  <1> DEFINE hits == {p \in 0..(Len(s) - Len(<<c>>)) :
                         SubSeq(s, p + 1, p + Len(<<c>>)) = <<c>>}
  <1>1. Len(<<c>>) = 1 /\ <<c>>[1] = c OBVIOUS
  <1>2. ASSUME NEW p \in 0..(Len(s) - 1)
        PROVE  SubSeq(s, p + 1, p + 1) = <<c>> <=> s[p + 1] = c
    <2> DEFINE one == SubSeq(s, p + 1, p + 1)
    <2>1. one \in Seq(S) /\ Len(one) = 1 /\ one[1] = s[p + 1]
      <3>1. \A i \in (p + 1)..(p + 1) : s[i] \in S OBVIOUS
      <3>2. /\ one \in Seq(S)
            /\ Len(one) = IF p + 1 <= p + 1 THEN (p + 1) - (p + 1) + 1 ELSE 0
            /\ \A i \in 1..((p + 1) - (p + 1) + 1) : one[i] = s[(p + 1) + i - 1]
        BY <3>1, SubSeqProperties
      <3> HIDE DEF one
      <3> QED BY <3>2
    <2> HIDE DEF one
    <2>2. one = <<c>> => s[p + 1] = c BY <1>1, <2>1
    <2>3. ASSUME s[p + 1] = c PROVE one = <<c>>
      <3>1. c \in S BY <2>3
      <3>2. <<c>> \in Seq(S) BY <3>1, OneSymbol
      <3>3. \A i \in 1..1 : one[i] = <<c>>[i] BY <1>1, <2>1, <2>3
      <3> DEFINE two == <<c>>
      <3> HIDE DEF two
      <3>4. one = two BY <1>1, <2>1, <3>2, <3>3, SeqEqual DEF two
      <3> QED BY <3>4 DEF two
    <2> QED BY <2>2, <2>3 DEF one
  <1>3. hits = {p \in 0..(Len(s) - 1) : s[p + 1] = c} BY <1>1, <1>2
  <1>4. Find(s, <<c>>, 0) = IF hits = {} THEN NPOS ELSE Min(hits)
    BY DEF Find
  <1> HIDE DEF hits
  <1>5. CASE hits = {}
    <2>1. ASSUME NEW i \in 1..Len(s) PROVE s[i] # c
      <3>1. i - 1 \in 0..(Len(s) - 1) /\ (i - 1) + 1 = i OBVIOUS
      <3> QED BY <1>3, <1>5, <3>1
    <2> QED BY <1>4, <1>5, <2>1
  <1>6. CASE hits # {}
    <2>1. hits \in SUBSET Nat BY <1>3
    <2>2. PICK n \in hits : \A k \in hits : n <= k BY <1>6, <2>1, LeastNatural
    <2>3. Min(hits) \in hits /\ \A k \in hits : Min(hits) <= k
      <3>1. Min(hits) = CHOOSE x \in hits : \A y \in hits : x <= y BY DEF Min
      <3> QED BY <2>2, <3>1
    <2> DEFINE at == Min(hits)
    <2>4. at \in 0..(Len(s) - 1) /\ s[at + 1] = c /\ \A k \in hits : at <= k
      BY <1>3, <2>3
    <2> HIDE DEF at
    <2>5. ASSUME NEW i \in 1..at PROVE s[i] # c
      <3>1. i - 1 \in 0..(Len(s) - 1) /\ (i - 1) + 1 = i /\ ~(at <= i - 1) BY <2>4
      <3> QED BY <1>3, <2>4, <3>1
    <2>6. Find(s, <<c>>, 0) = at BY <1>4, <1>6 DEF at
    <2> QED BY <2>4, <2>5, <2>6
  <1> QED BY <1>5, <1>6

(* Whether it holds one.                                                    *)
LEMMA HasFacts ==
    ASSUME NEW S, NEW s \in Seq(S), NEW c
    PROVE  Has(s, c) <=> \E i \in 1..Len(s) : s[i] = c
  <1> DEFINE at == Find(s, <<c>>, 0)
  <1>1. \/ at = -1 /\ \A i \in 1..Len(s) : s[i] # c
        \/ at \in 0..(Len(s) - 1) /\ s[at + 1] = c
    BY FindFacts DEF NPOS
  <1>2. Has(s, c) <=> at # -1 BY DEF Has, NPOS
  <1> HIDE DEF at
  <1>3. at \in 0..(Len(s) - 1) => at + 1 \in 1..Len(s) /\ at # -1 OBVIOUS
  <1> QED BY <1>1, <1>2, <1>3

(* The part of a text before a place in it.                                 *)
LEMMA SubstrFacts ==
    ASSUME NEW S, NEW s \in Seq(S), NEW n \in 0..Len(s)
    PROVE  Substr(s, 0, n) = SubSeq(s, 1, n)
  <1>1. Min({0 + n, Len(s)}) = n
    <2>1. \A x \in {0 + n, Len(s)} :
              (\A y \in {0 + n, Len(s)} : x <= y) <=> x = n
      OBVIOUS
    <2> DEFINE two == {0 + n, Len(s)}
    <2>2. n \in two OBVIOUS
    <2> HIDE DEF two
    <2>3. Min(two) = CHOOSE x \in two : \A y \in two : x <= y BY DEF Min
    <2>4. Min(two) = n BY <2>1, <2>2, <2>3 DEF two
    <2> QED BY <2>4 DEF two
  <1>2. ~(n < 0) /\ 0 + 1 = 1 OBVIOUS
  <1> QED BY <1>1, <1>2 DEF Substr
-----------------------------------------------------------------------------
(* Searching a text.                                                        *)

(* A part stands in a text behind its first p symbols.                      *)
Stands(s, part, p) == \A i \in 1..Len(part) : s[p + i] = part[i]

(* The comparison find makes.                                               *)
LEMMA MatchFacts ==
    ASSUME NEW S, NEW s \in Seq(S), NEW part \in Seq(S),
           NEW p \in 0..(Len(s) - Len(part))
    PROVE  SubSeq(s, p + 1, p + Len(part)) = part <=> Stands(s, part, p)
  <1> DEFINE cut == SubSeq(s, p + 1, p + Len(part))
  <1>1. Len(s) \in Nat /\ Len(part) \in Nat OBVIOUS
  <1>2. \A i \in (p + 1)..(p + Len(part)) : s[i] \in S BY <1>1
  <1>3. p + 1 \in Int /\ p + Len(part) \in Int BY <1>1
  <1>4. /\ cut \in Seq(S)
        /\ Len(cut) = IF p + 1 <= p + Len(part) THEN (p + Len(part)) - (p + 1) + 1 ELSE 0
        /\ \A i \in 1..((p + Len(part)) - (p + 1) + 1) : cut[i] = s[(p + 1) + i - 1]
    BY <1>2, <1>3, SubSeqProperties
  <1> HIDE DEF cut
  <1>5. Len(cut) = Len(part) BY <1>1, <1>4
  <1>6. ASSUME NEW i \in 1..Len(part) PROVE cut[i] = s[p + i]
    <2>1. i \in 1..((p + Len(part)) - (p + 1) + 1) /\ (p + 1) + i - 1 = p + i BY <1>1
    <2> QED BY <1>4, <2>1
  <1>7. cut = part => \A i \in 1..Len(part) : s[p + i] = part[i] BY <1>6
  <1>8. ASSUME \A i \in 1..Len(part) : s[p + i] = part[i] PROVE cut = part
    <2>1. \A i \in 1..Len(cut) : cut[i] = part[i] BY <1>5, <1>6, <1>8
    <2> QED BY <1>4, <1>5, <2>1, SeqEqual
  <1> QED BY <1>7, <1>8 DEF cut, Stands

(* What find returns is the first place where the part stands.               *)
LEMMA FindIs ==
    ASSUME NEW S, NEW s \in Seq(S), NEW part \in Seq(S), NEW from \in Nat,
           NEW n \in from..(Len(s) - Len(part)),
           Stands(s, part, n), \A p \in from..(n - 1) : ~Stands(s, part, p)
    PROVE  Find(s, part, from) = n
  <1> DEFINE hits == {p \in from..(Len(s) - Len(part)) :
                         SubSeq(s, p + 1, p + Len(part)) = part}
  <1>1. Len(s) \in Nat /\ Len(part) \in Nat OBVIOUS
  <1>2. n \in hits
    <2>1. n \in 0..(Len(s) - Len(part)) BY <1>1
    <2> QED BY <2>1, MatchFacts
  <1>3. ASSUME NEW p \in hits PROVE n <= p
    <2> SUFFICES ASSUME ~(n <= p) PROVE FALSE OBVIOUS
    <2>1. p \in 0..(Len(s) - Len(part)) /\ p \in from..(n - 1) BY <1>1
    <2>2. Stands(s, part, p) BY <2>1, MatchFacts
    <2> QED BY <2>1, <2>2
  <1>4. hits \in SUBSET Int BY <1>1
  <1>5. Find(s, part, from) = IF hits = {} THEN NPOS ELSE Min(hits) BY DEF Find
  <1> HIDE DEF hits
  <1>6. Min(hits) = n BY <1>2, <1>3, <1>4, MinIs
  <1> QED BY <1>2, <1>5, <1>6

(* It returns NPOS when the part stands nowhere.                             *)
LEMMA FindNot ==
    ASSUME NEW S, NEW s \in Seq(S), NEW part \in Seq(S), NEW from \in Nat,
           \A p \in from..(Len(s) - Len(part)) : ~Stands(s, part, p)
    PROVE  Find(s, part, from) = NPOS
  <1> DEFINE hits == {p \in from..(Len(s) - Len(part)) :
                         SubSeq(s, p + 1, p + Len(part)) = part}
  <1>1. Len(s) \in Nat /\ Len(part) \in Nat OBVIOUS
  <1>2. ASSUME NEW p \in hits PROVE FALSE
    <2>1. p \in 0..(Len(s) - Len(part)) /\ p \in from..(Len(s) - Len(part)) BY <1>1
    <2>2. Stands(s, part, p) BY <2>1, MatchFacts
    <2> QED BY <2>1, <2>2
  <1>3. Find(s, part, from) = IF hits = {} THEN NPOS ELSE Min(hits) BY DEF Find
  <1> HIDE DEF hits
  <1> QED BY <1>2, <1>3

(* The same of a single symbol.                                             *)
LEMMA FindSymbol ==
    ASSUME NEW S, NEW s \in Seq(S), NEW c \in S, NEW from \in Nat,
           NEW n \in from..(Len(s) - 1),
           s[n + 1] = c, \A i \in (from + 1)..n : s[i] # c
    PROVE  Find(s, <<c>>, from) = n
  <1> DEFINE part == <<c>>
  <1>1. part \in Seq(S) /\ Len(part) = 1 /\ part[1] = c OBVIOUS
  <1>2. Len(s) \in Nat OBVIOUS
  <1> HIDE DEF part
  <1>3. Stands(s, part, n) BY <1>1 DEF Stands
  <1>4. ASSUME NEW p \in from..(n - 1) PROVE ~Stands(s, part, p)
    <2>1. p + 1 \in (from + 1)..n OBVIOUS
    <2>2. s[p + 1] # part[1] /\ 1 \in 1..Len(part) BY <1>1, <2>1
    <2> QED BY <2>2 DEF Stands
  <1>5. n \in from..(Len(s) - Len(part)) BY <1>1
  <1>6. Find(s, part, from) = n BY <1>1, <1>3, <1>4, <1>5, FindIs
  <1> QED BY <1>6 DEF part

(* And when it is nowhere.                                                  *)
LEMMA FindNoSymbol ==
    ASSUME NEW S, NEW s \in Seq(S), NEW c \in S, NEW from \in Nat,
           \A i \in (from + 1)..Len(s) : s[i] # c
    PROVE  Find(s, <<c>>, from) = NPOS
  <1> DEFINE part == <<c>>
  <1>1. part \in Seq(S) /\ Len(part) = 1 /\ part[1] = c OBVIOUS
  <1>2. Len(s) \in Nat OBVIOUS
  <1> HIDE DEF part
  <1>3. ASSUME NEW p \in from..(Len(s) - Len(part))
        PROVE  ~Stands(s, part, p)
    <2>1. p + 1 \in (from + 1)..Len(s) BY <1>1, <1>2
    <2>2. s[p + 1] # part[1] /\ 1 \in 1..Len(part) BY <1>1, <2>1
    <2> QED BY <2>2 DEF Stands
  <1>4. Find(s, part, from) = NPOS BY <1>1, <1>3, FindNot
  <1> QED BY <1>4 DEF part

(* What is cut out of the middle, or off the end, of a text.                *)
LEMMA SubstrIs ==
    ASSUME NEW S, NEW s \in Seq(S), NEW part \in Seq(S), NEW n \in Nat,
           n + Len(part) <= Len(s),
           Stands(s, part, n)
    PROVE  /\ Substr(s, n, Len(part)) = part
           /\ n + Len(part) = Len(s) => From(s, n) = part
  <1>1. Len(s) \in Nat /\ Len(part) \in Nat OBVIOUS
  <1>2. n \in 0..(Len(s) - Len(part)) BY <1>1
  <1>3. SubSeq(s, n + 1, n + Len(part)) = part BY <1>2, MatchFacts
  <1>4. Min({n + Len(part), Len(s)}) = n + Len(part)
    <2> DEFINE two == {n + Len(part), Len(s)}
    <2>1. /\ two \in SUBSET Int /\ n + Len(part) \in two
          /\ \A k \in two : n + Len(part) <= k
      BY <1>1
    <2> HIDE DEF two
    <2>2. Min(two) = n + Len(part) BY <2>1, MinIs
    <2> QED BY <2>2 DEF two
  <1>5. ~(Len(part) < 0) BY <1>1
  <1> QED BY <1>3, <1>4, <1>5 DEF Substr, From
=============================================================================
