--------------------------- MODULE SequenceLemmas ---------------------------
(***************************************************************************)
(* Facts about numbers and sequences that the proofs of other modules use. *)
(***************************************************************************)
EXTENDS Integers, SequencesExt, FiniteSetTheorems, TLAPS

(***************************************************************************)
(* Induction over numbers, as a fact about sets of them: a set without a   *)
(* smallest number would have an element less than it has.                 *)
(***************************************************************************)
LEMMA SmallestNumber ==
  ASSUME NEW T \in SUBSET Nat, T # {}
  PROVE  \E n \in T : \A m \in T : n <= m
  <1>. SUFFICES ASSUME \A n \in T : \E m \in T : m < n PROVE FALSE
    OBVIOUS
  <1>1. PICK top \in T : TRUE
    OBVIOUS
  <1> DEFINE above == {x \in 0 .. top : \E n \in T : n <= x}
             predecessor == [x \in above |-> x - 1]
  <1>2. IsFiniteSet(above) /\ top \in above
    <2>1. IsFiniteSet(0 .. top)
      BY FS_Interval
    <2>2. above \subseteq 0 .. top
      OBVIOUS
    <2>. QED  BY <2>1, <2>2, <1>1, FS_Subset
  <1>3. predecessor \in [above -> above \ {top}]
    BY <1>1
  <1>4. IsFiniteSet(above \ {top}) /\ Cardinality(above \ {top}) = Cardinality(above) - 1
          /\ Cardinality(above) \in Nat
    BY <1>2, FS_RemoveElement, FS_CardinalityType
  <1>5. \E x, y \in above : x # y /\ predecessor[x] = predecessor[y]
    <2>1. Cardinality(above \ {top}) < Cardinality(above)
      BY <1>4
    <2> HIDE DEF above, predecessor
    <2>. QED  BY <1>2, <1>3, <1>4, <2>1, FS_PigeonHole
  <1>. QED  BY <1>5
-----------------------------------------------------------------------------
(***************************************************************************)
(* FlattenSeq puts sequences one after the other.                          *)
(***************************************************************************)
LEMMA ConcatElements ==
  ASSUME NEW S, NEW s \in Seq(S), NEW t \in Seq(S)
  PROVE  /\ s \o t \in Seq(S) /\ Len(s \o t) = Len(s) + Len(t)
         /\ Len(s) \in Nat /\ Len(t) \in Nat
         /\ \A i \in 1 .. Len(s) : (s \o t)[i] = s[i]
         /\ \A i \in 1 .. Len(t) : (s \o t)[Len(s) + i] = t[i]
  <1>1. s \o t \in Seq(S) /\ Len(s \o t) = Len(s) + Len(t)
         /\ Len(s) \in Nat /\ Len(t) \in Nat
    OBVIOUS
  <1>2. ASSUME NEW i \in 1 .. Len(s) PROVE (s \o t)[i] = s[i]
    BY <1>2
  <1>3. ASSUME NEW i \in 1 .. Len(t) PROVE (s \o t)[Len(s) + i] = t[i]
    BY <1>3
  <1>. QED  BY <1>1, <1>2, <1>3

\* What FlattenSeq computes for the first n sequences.
IsFlattening(parts, n, flat) ==
    flat = [k \in 1 .. n |-> IF k = 1 THEN parts[k] ELSE flat[k - 1] \o parts[k]]

\* The recursion of FlattenSeq defines a function.
LEMMA FlatteningExists ==
  ASSUME NEW parts, NEW n \in Nat
  PROVE  \E flat : IsFlattening(parts, n, flat)
  <1> DEFINE Missing == {m \in Nat : ~ \E flat : IsFlattening(parts, m, flat)}
  <1>. SUFFICES ASSUME Missing # {} PROVE FALSE
    OBVIOUS
  <1>1. PICK m \in Missing : \A j \in Missing : m <= j
    BY SmallestNumber
  <1>2. m # 0
    <2>1. IsFlattening(parts, 0, [k \in 1 .. 0 |-> {}])
      BY DEF IsFlattening
    <2>. QED  BY <2>1, <1>1
  <1>3. m - 1 \in Nat /\ m - 1 \notin Missing
    BY <1>1, <1>2
  <1>4. PICK flat : IsFlattening(parts, m - 1, flat)
    BY <1>3
  <1> DEFINE longer == [k \in 1 .. m |-> IF k = 1 THEN parts[k] ELSE flat[k - 1] \o parts[k]]
  <1>5. \A k \in 1 .. m - 1 : longer[k] = flat[k]
    <2>. TAKE k \in 1 .. m - 1
    <2>1. flat[k] = IF k = 1 THEN parts[k] ELSE flat[k - 1] \o parts[k]
      BY <1>4, Zenon DEF IsFlattening
    <2>2. k \in 1 .. m
      BY <1>3
    <2>. QED  BY <2>1, <2>2, Zenon
  <1>6. IsFlattening(parts, m, longer)
    <2>1. \A k \in 1 .. m : k # 1 => k - 1 \in 1 .. m - 1
      BY <1>3
    <2>2. \A k \in 1 .. m : longer[k] = IF k = 1 THEN parts[k] ELSE longer[k - 1] \o parts[k]
      <3>. TAKE k \in 1 .. m
      <3>1. longer[k] = IF k = 1 THEN parts[k] ELSE flat[k - 1] \o parts[k]
        BY Zenon
      <3>2. k # 1 => longer[k - 1] = flat[k - 1]
        BY <2>1, <1>5, Zenon
      <3>. QED  BY <3>1, <3>2, Zenon
    <2>3. longer = [k \in 1 .. m |-> longer[k]]
      BY Zenon
    <2>4. longer = [k \in 1 .. m |-> IF k = 1 THEN parts[k] ELSE longer[k - 1] \o parts[k]]
      <3> HIDE DEF longer
      <3>. QED  BY <2>2, <2>3, Zenon
    <2>. QED  BY <2>4, Zenon DEF IsFlattening
  <1>. QED  BY <1>6, <1>1

LEMMA FlattenIs ==
  ASSUME NEW parts, Len(parts) \in Nat, Len(parts) # 0
  PROVE  \E flat : IsFlattening(parts, Len(parts), flat)
                     /\ FlattenSeq(parts) = flat[Len(parts)]
  <1> DEFINE n == Len(parts)
             chosen == CHOOSE flat : flat = [k \in 1 .. n |-> IF k = 1 THEN parts[k]
                                                             ELSE flat[k - 1] \o parts[k]]
  <1>1. \E flat : flat = [k \in 1 .. n |-> IF k = 1 THEN parts[k] ELSE flat[k - 1] \o parts[k]]
    BY FlatteningExists, Zenon DEF IsFlattening
  <1>2. chosen = [k \in 1 .. n |-> IF k = 1 THEN parts[k] ELSE chosen[k - 1] \o parts[k]]
    BY <1>1, Zenon
  <1>3. FlattenSeq(parts) = chosen[n]
    BY Zenon DEF FlattenSeq
  <1>. QED  BY <1>2, <1>3, Zenon DEF IsFlattening

\* Where each sequence ends in the whole one, and that it is there.
LEMMA FlattenPlaces ==
  ASSUME NEW S, NEW parts \in Seq(Seq(S)), Len(parts) # 0
  PROVE  \E ends \in [0 .. Len(parts) -> Nat] :
            /\ ends[0] = 0
            /\ \A k \in 1 .. Len(parts) : ends[k] = ends[k - 1] + Len(parts[k])
            /\ FlattenSeq(parts) \in Seq(S) /\ Len(FlattenSeq(parts)) = ends[Len(parts)]
            /\ \A k \in 1 .. Len(parts) : \A i \in 1 .. Len(parts[k]) :
                  FlattenSeq(parts)[ends[k - 1] + i] = parts[k][i]
            /\ \A k, m \in 1 .. Len(parts) : k <= m => ends[k] <= ends[m]
            /\ \A p \in 1 .. ends[Len(parts)] :
                  \E k \in 1 .. Len(parts) : ends[k - 1] < p /\ p <= ends[k]
  <1> DEFINE n == Len(parts)
  <1>0. n \in Nat /\ n # 0
    OBVIOUS
  <1>1. PICK flat : IsFlattening(parts, n, flat) /\ FlattenSeq(parts) = flat[n]
    BY FlattenIs
  <1>2. /\ flat[1] = parts[1]
        /\ \A k \in 2 .. n : flat[k] = flat[k - 1] \o parts[k]
    <2>1. \A k \in 1 .. n : flat[k] = IF k = 1 THEN parts[k] ELSE flat[k - 1] \o parts[k]
      BY <1>1, Zenon DEF IsFlattening
    <2>2. 1 \in 1 .. n /\ \A k \in 2 .. n : k \in 1 .. n /\ k # 1
      OBVIOUS
    <2>. QED  BY <2>1, <2>2, Zenon
  <1>3. \A k \in 1 .. n : parts[k] \in Seq(S)
    OBVIOUS
  <1>. HIDE DEF n
  <1>. USE <1>0
  <1>4. \A k \in 1 .. n : flat[k] \in Seq(S)
    <2> DEFINE Bad == {k \in 1 .. n : flat[k] \notin Seq(S)}
    <2>. SUFFICES ASSUME Bad # {} PROVE FALSE
      OBVIOUS
    <2>0. Bad \in SUBSET Nat
      BY <1>0
    <2>1. PICK k \in Bad : \A j \in Bad : k <= j
      BY <2>0, SmallestNumber
    <2>2. k # 1
      BY <1>2, <1>3, <2>1
    <2>3. k - 1 \in 1 .. n /\ k - 1 \notin Bad /\ k \in 2 .. n /\ k \in 1 .. n
      BY <2>1, <2>2
    <2>4. flat[k - 1] \in Seq(S) /\ parts[k] \in Seq(S) /\ flat[k] = flat[k - 1] \o parts[k]
      BY <2>1, <2>2, <2>3, <1>2, <1>3
    <2>5. flat[k] \in Seq(S)
      BY <2>4
    <2>. QED  BY <2>1, <2>5
  <1> DEFINE ends == [k \in 0 .. n |-> IF k = 0 THEN 0 ELSE Len(flat[k])]
  <1>5. ends \in [0 .. n -> Nat] /\ ends[0] = 0 /\ \A k \in 1 .. n : ends[k] = Len(flat[k])
    BY <1>4
  <1>6. \A k \in 1 .. n : ends[k] = ends[k - 1] + Len(parts[k])
    <2>. TAKE k \in 1 .. n
    <2>1. CASE k = 1
      BY <2>1, <1>2, <1>3, <1>5
    <2>2. CASE k # 1
      <3>1. k - 1 \in 1 .. n /\ flat[k] = flat[k - 1] \o parts[k]
        <4>1. k \in 2 .. n /\ k - 1 \in 1 .. n
          BY <2>2
        <4>. QED  BY <4>1, <1>2, Zenon
      <3>2. Len(flat[k]) = Len(flat[k - 1]) + Len(parts[k])
        BY <3>1, <1>3, <1>4
      <3>. QED  BY <3>1, <3>2, <1>5
    <2>. QED  BY <2>1, <2>2
  <1>. HIDE DEF ends
  <1>7. \A k \in 1 .. n : \A i \in 1 .. Len(parts[k]) : flat[k][ends[k - 1] + i] = parts[k][i]
    <2>. TAKE k \in 1 .. n
    <2>. TAKE i \in 1 .. Len(parts[k])
    <2>1. CASE k = 1
      BY <2>1, <1>2, <1>3, <1>5
    <2>2. CASE k # 1
      <3>1. k - 1 \in 1 .. n /\ flat[k] = flat[k - 1] \o parts[k]
        <4>1. k \in 2 .. n /\ k - 1 \in 1 .. n
          BY <2>2
        <4>. QED  BY <4>1, <1>2, Zenon
      <3>2. flat[k - 1] \in Seq(S) /\ parts[k] \in Seq(S)
        BY <3>1, <1>3, <1>4
      <3>3. (flat[k - 1] \o parts[k])[Len(flat[k - 1]) + i] = parts[k][i]
        <4> DEFINE a == flat[k - 1]
                   b == parts[k]
        <4>1. a \in Seq(S) /\ b \in Seq(S) /\ i \in 1 .. Len(b)
          BY <3>2
        <4> HIDE DEF a, b
        <4>2. (a \o b)[Len(a) + i] = b[i]
          BY <4>1, ConcatElements
        <4>. QED  BY <4>2, Zenon DEF a, b
      <3>. QED  BY <3>1, <3>3, <1>5
    <2>. QED  BY <2>1, <2>2
  <1>8. \A m \in 1 .. n : \A k \in 1 .. m : ends[k] <= ends[m] /\
            \A p \in 1 .. ends[k] : flat[m][p] = flat[k][p]
    <2> DEFINE Kept(m) == \A k \in 1 .. m : ends[k] <= ends[m] /\
                             \A p \in 1 .. ends[k] : flat[m][p] = flat[k][p]
               Bad == {m \in 1 .. n : ~ Kept(m)}
    <2>. SUFFICES ASSUME Bad # {} PROVE FALSE
      OBVIOUS
    <2>0. Bad \in SUBSET Nat
      BY <1>0
    <2>1. PICK m \in Bad : \A j \in Bad : m <= j
      BY <2>0, SmallestNumber
    <2>2. m # 1
      BY <2>1, <1>5
    <2>3. m - 1 \in 1 .. n /\ m \in 2 .. n /\ m \in 1 .. n
      BY <2>1, <2>2
    <2>k. Kept(m - 1)
      BY <2>1, <2>3
    <2>4. flat[m] = flat[m - 1] \o parts[m] /\ flat[m - 1] \in Seq(S) /\ parts[m] \in Seq(S)
            /\ ends[m] = ends[m - 1] + Len(parts[m]) /\ ends[m - 1] = Len(flat[m - 1])
      BY <2>1, <2>2, <2>3, <1>2, <1>3, <1>4, <1>5, <1>6
    <2>5. \A p \in 1 .. ends[m - 1] : flat[m][p] = flat[m - 1][p]
      <3>1. \A p \in 1 .. Len(flat[m - 1]) : (flat[m - 1] \o parts[m])[p] = flat[m - 1][p]
        <4> DEFINE a == flat[m - 1]
                   b == parts[m]
        <4>1. a \in Seq(S) /\ b \in Seq(S)
          BY <2>4
        <4> HIDE DEF a, b
        <4>2. \A p \in 1 .. Len(a) : (a \o b)[p] = a[p]
          BY <4>1, ConcatElements
        <4>. QED  BY <4>2, Zenon DEF a, b
      <3>. QED  BY <3>1, <2>4, Zenon
    <2>6. Kept(m)
      <3>. SUFFICES ASSUME NEW k \in 1 .. m
                    PROVE  ends[k] <= ends[m] /\ \A p \in 1 .. ends[k] : flat[m][p] = flat[k][p]
        OBVIOUS
      <3>1. CASE k = m
        BY <3>1, <1>5, <2>1
      <3>2. CASE k # m
        <4>1. k \in 1 .. m - 1
          BY <3>2, <2>1
        <4>2. ends[k] <= ends[m - 1] /\ \A p \in 1 .. ends[k] : flat[m - 1][p] = flat[k][p]
          BY <4>1, <2>k
        <4>3. ends[k] \in Nat /\ ends[m - 1] \in Nat /\ Len(parts[m]) \in Nat
          <5>1. k \in 0 .. n /\ m - 1 \in 0 .. n
            BY <4>1, <2>3
          <5>2. ends[k] \in Nat /\ ends[m - 1] \in Nat
            BY <5>1, <1>5
          <5>3. Len(parts[m]) \in Nat
            BY <2>4
          <5>. QED  BY <5>2, <5>3
        <4>4. \A p \in 1 .. ends[k] : p \in 1 .. ends[m - 1]
          BY <4>2, <4>3
        <4>5. ends[k] <= ends[m]
          <5>1. ends[m] = ends[m - 1] + Len(parts[m])
            BY <2>4
          <5>. QED  BY <5>1, <4>2, <4>3
        <4>. QED  BY <4>2, <4>4, <4>5, <2>5, Zenon
      <3>. QED  BY <3>1, <3>2
    <2>. QED  BY <2>1, <2>6
  <1>9. \A k \in 1 .. n : \A i \in 1 .. Len(parts[k]) : flat[n][ends[k - 1] + i] = parts[k][i]
    <2>. TAKE k \in 1 .. n
    <2>. TAKE i \in 1 .. Len(parts[k])
    <2>1. ends[k] = ends[k - 1] + Len(parts[k]) /\ ends[k - 1] \in Nat /\ Len(parts[k]) \in Nat
      BY <1>5, <1>6, <1>3
    <2>2. ends[k - 1] + i \in 1 .. ends[k]
      BY <2>1
    <2>3. n \in 1 .. n
      OBVIOUS
    <2>4. flat[n][ends[k - 1] + i] = flat[k][ends[k - 1] + i]
      BY <2>2, <2>3, <1>8, Zenon
    <2>. QED  BY <2>4, <1>7, Zenon
  <1>10. \A p \in 1 .. ends[n] : \E k \in 1 .. n : ends[k - 1] < p /\ p <= ends[k]
    <2>. TAKE p \in 1 .. ends[n]
    <2> DEFINE T == {k \in 1 .. n : p <= ends[k]}
    <2>1. n \in T
      BY <1>5
    <2>2. PICK k \in T : \A j \in T : k <= j
      <3>1. T \in SUBSET Nat
        BY <1>0
      <3>. QED  BY <2>1, <3>1, SmallestNumber
    <2>3. k - 1 \in 0 .. n /\ k - 1 \notin T
      BY <2>2
    <2>4. ends[k - 1] < p
      BY <2>3, <1>5
    <2>. QED  BY <2>2, <2>4
  <1>11. FlattenSeq(parts) \in Seq(S) /\ Len(FlattenSeq(parts)) = ends[n]
    BY <1>1, <1>4, <1>5
  <1>12. \A k \in 1 .. n : \A i \in 1 .. Len(parts[k]) :
            FlattenSeq(parts)[ends[k - 1] + i] = parts[k][i]
    BY <1>1, <1>9, Zenon
  <1>13. \A k, m \in 1 .. n : k <= m => ends[k] <= ends[m]
    BY <1>8
  <1>. QED  BY <1>5, <1>6, <1>10, <1>11, <1>12, <1>13, Zenon DEF n
=============================================================================
