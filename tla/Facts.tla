-------------------------------- MODULE Facts --------------------------------
(***************************************************************************)
(* Facts about numbers and sequences that the proofs of several modules    *)
(* use.                                                                    *)
(***************************************************************************)
EXTENDS Integers, Sequences, FiniteSetTheorems, TLAPS

\* Every non-empty set of natural numbers has a least element.
LEMMA LeastNumber ==
  ASSUME NEW S, S \subseteq Nat, S # {}
  PROVE  \E m \in S : \A n \in S : m <= n
<1> DEFINE Down == {0 .. n : n \in S}
<1>1. Down \subseteq FiniteSubsetsOf(Nat)
  <2> SUFFICES ASSUME NEW n \in S PROVE 0 .. n \in FiniteSubsetsOf(Nat)
    OBVIOUS
  <2>1. IsFiniteSet(0 .. n)
    BY FS_Interval
  <2> QED BY <2>1 DEF FiniteSubsetsOf
<1>2. Down # {}
  OBVIOUS
<1>3. IsWellFoundedOn(StrictSubsetOrdering(Nat), FiniteSubsetsOf(Nat))
  BY FS_StrictSubsetOrderingWellFounded
<1>4. PICK D \in Down : \A E \in Down : ~(<<E, D>> \in StrictSubsetOrdering(Nat))
  <2> HIDE DEF Down
  <2> QED BY <1>1, <1>2, <1>3, WFMin
<1>5. PICK m \in S : D = 0 .. m
  OBVIOUS
<1>6. ASSUME NEW n \in S, n < m PROVE FALSE
  <2>1. 0 .. n \in Down /\ 0 .. n \subseteq D /\ 0 .. n # D
    <3>1. m \in 0 .. m /\ m \notin 0 .. n
      BY <1>6
    <3> QED BY <1>5, <1>6, <3>1
  <2>2. <<0 .. n, D>> \in StrictSubsetOrdering(Nat)
    <3>1. 0 .. n \in SUBSET Nat /\ D \in SUBSET Nat
      BY <1>5
    <3> HIDE DEF Down
    <3> QED BY <2>1, <3>1 DEF StrictSubsetOrdering
  <2> QED BY <1>4, <2>1, <2>2
<1>7. \A n \in S : m <= n
  BY <1>6
<1> QED BY <1>7

\* A sequence of two and more elements has a tail.
LEMMA LongTail == ASSUME NEW T, NEW s \in Seq(T), Len(s) > 1 PROVE Tail(s) # <<>>
<1>1. Tail(s) \in Seq(T) /\ Len(Tail(s)) = Len(s) - 1 /\ Len(s) \in Nat
  OBVIOUS
<1>2. Len(s) - 1 # 0
  BY <1>1
<1>3. Len(Tail(s)) # 0
  BY <1>1, <1>2
<1>4. Len(<<>>) = 0
  OBVIOUS
<1> QED BY <1>3, <1>4, Zenon

\* The places of s that hold a member of A.
Places(s, A) == {i \in DOMAIN s : s[i] \in A}

\* One more element of a sequence.
LEMMA OneMore ==
  ASSUME NEW T, NEW s \in Seq(T), NEW e \in T
  PROVE  /\ Append(s, e) \in Seq(T) /\ Len(s) \in Nat /\ Len(Append(s, e)) = Len(s) + 1
         /\ DOMAIN s = 1 .. Len(s) /\ DOMAIN Append(s, e) = 1 .. Len(s) + 1
         /\ \A i \in 1 .. Len(s) : Append(s, e)[i] = s[i]
         /\ Append(s, e)[Len(s) + 1] = e
OBVIOUS

\* The places of A grow by one if the new element is in A.
LEMMA OneMorePlace ==
  ASSUME NEW T, NEW s \in Seq(T), NEW e \in T, NEW A
  PROVE  /\ Cardinality(Places(s, A)) \in Nat
         /\ \A i \in Places(s, A) : i \in 1 .. Len(s)
         /\ Places(Append(s, e), A)
              = IF e \in A THEN Places(s, A) \cup {Len(s) + 1} ELSE Places(s, A)
         /\ Cardinality(Places(Append(s, e), A))
              = Cardinality(Places(s, A)) + IF e \in A THEN 1 ELSE 0
<1>1. /\ Len(s) \in Nat /\ DOMAIN s = 1 .. Len(s) /\ DOMAIN Append(s, e) = 1 .. Len(s) + 1
      /\ \A i \in 1 .. Len(s) : Append(s, e)[i] = s[i]
      /\ Append(s, e)[Len(s) + 1] = e
  BY OneMore
<1>2. Places(s, A) \in SUBSET (1 .. Len(s))
  BY <1>1 DEF Places
<1>3. IsFiniteSet(Places(s, A))
  <2>1. IsFiniteSet(1 .. Len(s))
    BY <1>1, FS_Interval
  <2> QED BY <1>2, <2>1, FS_Subset
<1>4. Cardinality(Places(s, A)) \in Nat
  BY <1>3, FS_CardinalityType
<1>5. Len(s) + 1 \notin Places(s, A)
  BY <1>1, <1>2
<1>6. 1 .. Len(s) + 1 = (1 .. Len(s)) \cup {Len(s) + 1}
  BY <1>1
<1>7. Places(Append(s, e), A)
        = IF e \in A THEN Places(s, A) \cup {Len(s) + 1} ELSE Places(s, A)
  BY <1>1, <1>6 DEF Places
<1>8. Cardinality(Places(s, A) \cup {Len(s) + 1}) = Cardinality(Places(s, A)) + 1
  BY <1>3, <1>5, FS_AddElement
<1> QED BY <1>2, <1>4, <1>7, <1>8
=============================================================================
