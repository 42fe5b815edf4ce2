--------------------------- MODULE Arrays_proofs ---------------------------
(***************************************************************************)
(* Facts about the searches and the shift of Arrays, for the proofs about  *)
(* the tables.                                                             *)
(***************************************************************************)
EXTENDS Arrays, WellFoundedInduction, TLAPS

\* A non-empty set of natural numbers has a least element.
LEMMA LeastNatural ==
  ASSUME NEW S \in SUBSET Nat, S # {}
  PROVE  \E m \in S : \A i \in S : m <= i
<1> DEFINE Less == {pair \in Nat \X Nat : pair[1] < pair[2]}
<1>1. IsWellFoundedOn(Less, Nat)
  BY NatLessThanWellFounded DEF OpToRel
<1>2. PICK m \in S : \A i \in S : ~ (<<i, m>> \in Less)
  <2> HIDE DEF Less
  <2> QED
    BY <1>1, WFMin
<1>3. \A i \in S : ~ (i < m)
  BY <1>2
<1> QED
  BY <1>3

\* So has a non-empty set of array indices: its least element is Min.
LEMMA MinOfIndices ==
  ASSUME NEW S \in SUBSET Nat, S # {}
  PROVE  /\ Min(S) \in S
         /\ \A i \in S : Min(S) <= i
  BY LeastNatural DEF Min

\* And, being bounded by the size of the array, a greatest one, which is Max.
LEMMA MaxOfIndices ==
  ASSUME NEW n \in Nat, NEW S \in SUBSET Slots(n), S # {}
  PROVE  /\ Max(S) \in S
         /\ \A i \in S : i <= Max(S)
<1> DEFINE D == {n - i : i \in S}
<1>1. D \in SUBSET Nat /\ D # {}
  BY DEF Slots
<1>2. PICK d \in D : \A e \in D : d <= e
  BY <1>1, LeastNatural
<1>3. PICK m \in S : d = n - m
  OBVIOUS
<1>4. \A i \in S : m >= i
  <2> TAKE i \in S
  <2>1. d <= n - i
    BY <1>2
  <2>2. m \in Int /\ i \in Int
    BY DEF Slots
  <2> QED
    BY <1>3, <2>1, <2>2
<1>5. /\ Max(S) \in S
      /\ \A i \in S : Max(S) >= i
  BY <1>4 DEF Max
<1> QED
  BY <1>5 DEF Slots

\* A search answers NOT_FOUND when nothing matches and a matching slot
\* otherwise.
LEMMA FirstOfHits ==
  ASSUME NEW n \in Nat, NEW hits \in SUBSET Slots(n)
  PROVE  /\ hits = {} => FirstOf(hits) = NOT_FOUND
         /\ hits # {} => FirstOf(hits) \in hits /\ FirstOf(hits) # NOT_FOUND
<1>1. hits \in SUBSET Nat /\ -1 \notin hits
  BY DEF Slots
<1> QED
  BY <1>1, MinOfIndices DEF FirstOf, NOT_FOUND

\* The same of a search that keeps its last match.
LEMMA LastOfHits ==
  ASSUME NEW n \in Nat, NEW hits \in SUBSET Slots(n)
  PROVE  /\ hits = {} => LastOf(hits) = NOT_FOUND
         /\ hits # {} => LastOf(hits) \in hits /\ LastOf(hits) # NOT_FOUND
<1>1. -1 \notin hits
  BY DEF Slots
<1> QED
  BY <1>1, MaxOfIndices DEF LastOf, NOT_FOUND

\* The shift keeps the type of an array.
LEMMA ShiftLeftType ==
  ASSUME NEW capacity \in Nat, NEW T, NEW array \in [Slots(capacity) -> T],
         NEW size \in Nat, size < capacity, NEW index
  PROVE  ShiftLeft(array, index, size) \in [Slots(capacity) -> T]
<1>1. \A i \in Slots(capacity) : i < size => i + 1 \in Slots(capacity)
  BY DEF Slots
<1> QED
  BY <1>1 DEF ShiftLeft

\* The slots from the gap on take their right neighbours.
LEMMA ShiftLeftSlots ==
  ASSUME NEW capacity \in Nat, NEW array, DOMAIN array = Slots(capacity),
         NEW size \in Nat, size < capacity, NEW index
  PROVE  \A i \in Slots(size) :
           ShiftLeft(array, index, size)[i] =
             IF index <= i THEN array[i + 1] ELSE array[i]
<1>1. \A i \in Slots(size) : i \in Slots(capacity) /\ i < size
  BY DEF Slots
<1> QED
  BY <1>1 DEF ShiftLeft
=============================================================================
