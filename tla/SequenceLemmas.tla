--------------------------- MODULE SequenceLemmas ---------------------------
(***************************************************************************)
(* Lemmas about the sequences the models use for the driver's linked       *)
(* lists: appending an element, removing a position, and lists in which    *)
(* each element occurs once (IsInjective).                                 *)
(***************************************************************************)
EXTENDS SequencesExt, SequenceTheorems, FiniteSetTheorems, TLAPS

(* Removing position k of a sequence yields a sequence of the same set in  *)
(* which the later elements have moved down (the cancel-safe queue's       *)
(* removal of a cancelled IRP).                                            *)
LEMMA RemoveAtProperties ==
  ASSUME NEW S, NEW s \in Seq(S), NEW k \in DOMAIN s
  PROVE  /\ RemoveAt(s, k) \in Seq(S)
         /\ Len(RemoveAt(s, k)) = Len(s) - 1
         /\ \A m \in 1..(Len(s) - 1) :
              RemoveAt(s, k)[m] = IF m < k THEN s[m] ELSE s[m + 1]
<1> DEFINE a == SubSeq(s, 1, k - 1)
           b == SubSeq(s, k + 1, Len(s))
<1>1. k \in 1..Len(s) /\ Len(s) \in Nat
  BY LenProperties
<1>2. /\ a \in Seq(S) /\ Len(a) = k - 1
      /\ \A m \in 1..(k - 1) : a[m] = s[m]
  BY <1>1, SubSeqProperties
<1>3. /\ b \in Seq(S) /\ Len(b) = Len(s) - k
      /\ \A m \in 1..(Len(s) - k) : b[m] = s[k + m]
  BY <1>1, SubSeqProperties
<1> HIDE DEF a, b
<1>4. /\ a \o b \in Seq(S) /\ Len(a \o b) = Len(a) + Len(b)
      /\ \A m \in 1..(Len(a) + Len(b)) :
           (a \o b)[m] = IF m <= Len(a) THEN a[m] ELSE b[m - Len(a)]
  BY <1>2, <1>3, ConcatProperties
<1>5. \A m \in 1..(Len(s) - 1) :
         (a \o b)[m] = IF m < k THEN s[m] ELSE s[m + 1]
  <2> TAKE m \in 1..(Len(s) - 1)
  <2>1. CASE m < k
    <3>1. m \in 1..(Len(a) + Len(b)) /\ m <= Len(a) /\ m \in 1..(k - 1)
      BY <1>1, <1>2, <1>3, <2>1
    <3> QED
      BY <1>2, <1>4, <2>1, <3>1
  <2>2. CASE ~(m < k)
    <3>0. /\ m \in 1..(Len(a) + Len(b)) /\ ~(m <= Len(a))
          /\ m - Len(a) = m - (k - 1) /\ m - (k - 1) \in 1..(Len(s) - k)
      BY <1>1, <1>2, <1>3, <2>2
    <3>1. (a \o b)[m] = b[m - (k - 1)]
      BY <1>4, <3>0
    <3>2. b[m - (k - 1)] = s[k + (m - (k - 1))]
      BY <1>3, <3>0
    <3>3. k + (m - (k - 1)) = m + 1
      BY <1>1
    <3> QED
      BY <2>2, <3>1, <3>2, <3>3
  <2> QED
    BY <2>1, <2>2
<1>6. RemoveAt(s, k) = a \o b
  BY DEF RemoveAt, a, b
<1>7. Len(a) + Len(b) = Len(s) - 1
  BY <1>1, <1>2, <1>3
<1> QED
  BY <1>4, <1>5, <1>6, <1>7

(* The elements of a queue after an insertion or a removal, position by    *)
(* position.                                                               *)
LEMMA AppendElements ==
  ASSUME NEW S, NEW s \in Seq(S), NEW e \in S
  PROVE  /\ Append(s, e) \in Seq(S)
         /\ \A k \in DOMAIN Append(s, e) :
              \/ k \in DOMAIN s /\ Append(s, e)[k] = s[k]
              \/ k \notin DOMAIN s /\ k = Len(s) + 1 /\ Append(s, e)[k] = e
  BY AppendProperties, LenProperties

LEMMA TailElements ==
  ASSUME NEW S, NEW s \in Seq(S), s # <<>>
  PROVE  /\ 1 \in DOMAIN s /\ Head(s) = s[1] /\ Head(s) \in S
         /\ Tail(s) \in Seq(S)
         /\ \A k \in DOMAIN Tail(s) :
              k \in Nat /\ k # 0 /\ k + 1 \in DOMAIN s /\ Tail(s)[k] = s[k + 1]
<1>1. Len(s) \in Nat /\ Len(s) # 0 /\ DOMAIN s = 1..Len(s)
  BY LenProperties, EmptySeq
<1>2. Tail(s) \in Seq(S) /\ DOMAIN Tail(s) = 1..(Len(s) - 1)
  BY HeadTailProperties, LenProperties
<1> QED
  BY <1>1, <1>2, HeadTailProperties

(* The position an element had before position k was removed. *)
Before(m, k) == IF m < k THEN m ELSE m + 1

LEMMA RemoveAtElements ==
  ASSUME NEW S, NEW s \in Seq(S), NEW k \in DOMAIN s
  PROVE  /\ RemoveAt(s, k) \in Seq(S)
         /\ \A m \in DOMAIN RemoveAt(s, k) :
              /\ m \in Nat /\ Before(m, k) \in DOMAIN s /\ Before(m, k) # k
              /\ RemoveAt(s, k)[m] = s[Before(m, k)]
<1>1. Len(s) \in Nat /\ DOMAIN s = 1..Len(s)
  BY LenProperties
<1>2. /\ RemoveAt(s, k) \in Seq(S)
      /\ DOMAIN RemoveAt(s, k) = 1..(Len(s) - 1)
  BY <1>1, RemoveAtProperties, LenProperties
<1>3. \A m \in 1..(Len(s) - 1) : RemoveAt(s, k)[m] = IF m < k THEN s[m] ELSE s[m + 1]
  BY RemoveAtProperties
<1>4. k \in 1..Len(s)
  BY <1>1
<1> QED
  BY <1>1, <1>2, <1>3, <1>4 DEF Before

(* Taking the head of a queue is removing its first position. *)
LEMMA TailIsRemoval ==
  ASSUME NEW S, NEW s \in Seq(S), s # <<>>
  PROVE  1 \in DOMAIN s /\ Head(s) = s[1] /\ Tail(s) = RemoveAt(s, 1)
<1>1. 1 \in DOMAIN s /\ Head(s) = s[1]
  BY TailElements
<1>2. Len(s) \in Nat /\ Len(s) # 0 /\ DOMAIN s = 1..Len(s)
  BY LenProperties, EmptySeq
<1>3. /\ Tail(s) \in Seq(S) /\ Len(Tail(s)) = Len(s) - 1
      /\ \A m \in 1..(Len(s) - 1) : Tail(s)[m] = s[m + 1]
  BY <1>2, HeadTailProperties
<1>4. /\ RemoveAt(s, 1) \in Seq(S) /\ Len(RemoveAt(s, 1)) = Len(s) - 1
      /\ \A m \in 1..(Len(s) - 1) : RemoveAt(s, 1)[m] = s[m + 1]
  BY <1>1, RemoveAtProperties
<1>5. Tail(s) = RemoveAt(s, 1)
  BY <1>2, <1>3, <1>4, SeqEqual
<1> QED
  BY <1>1, <1>5

-----------------------------------------------------------------------------
(* Appending an element that a list does not have keeps it injective. *)
LEMMA AppendInjectiveList ==
  ASSUME NEW S, NEW s \in Seq(S), NEW e \in S
  PROVE  /\ ToSet(Append(s, e)) = ToSet(s) \cup {e}
         /\ IsInjective(s) /\ e \notin ToSet(s) => IsInjective(Append(s, e))
<1>1. /\ Len(s) \in Nat /\ DOMAIN s = 1..Len(s)
      /\ DOMAIN Append(s, e) = 1..(Len(s) + 1)
      /\ \A k \in 1..Len(s) : Append(s, e)[k] = s[k]
      /\ Append(s, e)[Len(s) + 1] = e
  BY AppendProperties, LenProperties
<1>2. \A k \in 1..(Len(s) + 1) : k \in 1..Len(s) \/ k = Len(s) + 1
  BY <1>1
<1>3. Len(s) + 1 \in 1..(Len(s) + 1) /\ \A k \in 1..Len(s) : k \in 1..(Len(s) + 1)
  BY <1>1
<1>4. ToSet(Append(s, e)) = ToSet(s) \cup {e}
  <2>1. ASSUME NEW x \in ToSet(Append(s, e)) PROVE x \in ToSet(s) \cup {e}
    BY <1>1, <1>2, <2>1 DEF ToSet
  <2>2. ASSUME NEW x \in ToSet(s) PROVE x \in ToSet(Append(s, e))
    BY <1>1, <1>3, <2>2 DEF ToSet
  <2>3. e \in ToSet(Append(s, e))
    BY <1>1, <1>3 DEF ToSet
  <2> QED
    BY <2>1, <2>2, <2>3
<1>5. ASSUME IsInjective(s), e \notin ToSet(s),
             NEW k \in 1..(Len(s) + 1), NEW m \in 1..(Len(s) + 1),
             Append(s, e)[k] = Append(s, e)[m]
      PROVE  k = m
  <2>1. CASE k \in 1..Len(s) /\ m \in 1..Len(s)
    BY <1>1, <1>5, <2>1 DEF IsInjective
  <2>2. CASE k \in 1..Len(s) /\ m = Len(s) + 1
    BY <1>1, <1>5, <2>2 DEF ToSet
  <2>3. CASE k = Len(s) + 1 /\ m \in 1..Len(s)
    BY <1>1, <1>5, <2>3 DEF ToSet
  <2> QED
    BY <1>2, <2>1, <2>2, <2>3
<1> QED
  BY <1>1, <1>4, <1>5 DEF IsInjective

(* Removing a position of an injective list removes that element only. *)
LEMMA RemoveAtInjectiveList ==
  ASSUME NEW S, NEW s \in Seq(S), IsInjective(s), NEW k \in DOMAIN s
  PROVE  /\ IsInjective(RemoveAt(s, k))
         /\ ToSet(RemoveAt(s, k)) = ToSet(s) \ {s[k]}
<1> DEFINE r == RemoveAt(s, k)
<1>1. /\ Len(s) \in Nat /\ DOMAIN s = 1..Len(s) /\ k \in 1..Len(s)
      /\ DOMAIN r = 1..(Len(s) - 1)
      /\ \A m \in 1..(Len(s) - 1) : r[m] = IF m < k THEN s[m] ELSE s[m + 1]
  BY RemoveAtProperties, LenProperties
<1>2. \A m, n \in 1..Len(s) : s[m] = s[n] => m = n
  BY <1>1 DEF IsInjective
<1> HIDE DEF r
<1>3. IsInjective(r)
  <2> SUFFICES ASSUME NEW m \in 1..(Len(s) - 1), NEW n \in 1..(Len(s) - 1), r[m] = r[n]
               PROVE  m = n
    BY <1>1 DEF IsInjective
  <2>1. m \in 1..Len(s) /\ n \in 1..Len(s) /\ m + 1 \in 1..Len(s) /\ n + 1 \in 1..Len(s)
    BY <1>1
  <2> QED
    BY <1>1, <1>2, <2>1
<1>4. ASSUME NEW e \in ToSet(r) PROVE e \in ToSet(s) \ {s[k]}
  <2>1. PICK m \in 1..(Len(s) - 1) : e = r[m]
    BY <1>1, <1>4 DEF ToSet
  <2>2. m \in 1..Len(s) /\ m + 1 \in 1..Len(s)
    BY <1>1
  <2>3. CASE m < k
    <3>1. e = s[m] /\ m # k
      BY <1>1, <2>1, <2>3
    <3> QED
      BY <1>1, <1>2, <2>2, <3>1 DEF ToSet
  <2>4. CASE ~(m < k)
    <3>1. e = s[m + 1] /\ m + 1 # k
      BY <1>1, <2>1, <2>4
    <3> QED
      BY <1>1, <1>2, <2>2, <3>1 DEF ToSet
  <2> QED
    BY <2>3, <2>4
<1>5. ASSUME NEW e \in ToSet(s) \ {s[k]} PROVE e \in ToSet(r)
  <2>1. PICK m \in 1..Len(s) : e = s[m] /\ m # k
    BY <1>1, <1>5 DEF ToSet
  <2>2. CASE m < k
    <3>1. m \in DOMAIN r /\ r[m] = e
      BY <1>1, <2>1, <2>2
    <3> QED
      BY <3>1 DEF ToSet
  <2>3. CASE ~(m < k)
    <3>1. m - 1 \in 1..(Len(s) - 1) /\ ~(m - 1 < k) /\ (m - 1) + 1 = m
      BY <1>1, <2>1, <2>3
    <3>2. m - 1 \in DOMAIN r /\ r[m - 1] = e
      BY <1>1, <2>1, <3>1
    <3> QED
      BY <3>2 DEF ToSet
  <2> QED
    BY <2>2, <2>3
<1> QED
  BY <1>3, <1>4, <1>5 DEF r

(* An injective list has as many elements as positions. *)
LEMMA InjectiveListCardinality ==
  ASSUME NEW S, NEW s \in Seq(S), IsInjective(s)
  PROVE  IsFiniteSet(ToSet(s)) /\ Cardinality(ToSet(s)) = Len(s) /\ Len(s) \in Nat
<1>1. Len(s) \in Nat /\ DOMAIN s = 1..Len(s) /\ s \in [1..Len(s) -> S]
  BY LenProperties
<1>2. \A k \in 1..Len(s) : s[k] \in ToSet(s)
  BY <1>1 DEF ToSet
<1>3. s \in [1..Len(s) -> ToSet(s)]
  BY <1>1, <1>2
<1>4. s \in Bijection(1..Len(s), ToSet(s))
  BY <1>1, <1>3 DEF Bijection, Injection, Surjection, IsInjective, ToSet
<1>5. ExistsBijection(1..Len(s), ToSet(s))
  BY <1>4 DEF ExistsBijection
<1>6. IsFiniteSet(1..Len(s)) /\ Cardinality(1..Len(s)) = Len(s)
  BY <1>1, FS_Interval
<1> QED
  BY <1>1, <1>5, <1>6, FS_Bijection
=============================================================================
