----------------------- MODULE InstrumentedThreadProofs -----------------------
(***************************************************************************)
(* What the pass makes of a function, for all functions, and then what a   *)
(* thread of an instrumented program does: the properties of               *)
(* InstrumentedThread, proved for all programs from the inductive          *)
(* invariant ThreadInv.                                                    *)
(***************************************************************************)
EXTENDS InstrumentedThreadInvariant, SequenceLemmas

\* A nonempty set of numbers up to n has a greatest one.
LEMMA GreatestNumber ==
  ASSUME NEW n \in Nat, NEW T \in SUBSET (1 .. n), T # {}
  PROVE  Max(T) \in T /\ \A m \in T : m <= Max(T)
  <1> DEFINE below == {n - m : m \in T}
  <1>0. \A m \in T : m \in Nat /\ n - m \in Nat
    OBVIOUS
  <1>1. below \in SUBSET Nat /\ below # {}
    BY <1>0
  <1>2. PICK d \in below : \A m \in below : d <= m
    BY <1>1, SmallestNumber
  <1>3. PICK m \in T : d = n - m
    BY <1>2
  <1>4. \A k \in T : n - k \in below
    OBVIOUS
  <1>5. \A k \in T : m >= k
    <2>. TAKE k \in T
    <2> HIDE DEF below
    <2>1. n - m <= n - k
      BY <1>2, <1>3, <1>4
    <2>. QED  BY <2>1, <1>0
  <1>. QED  BY <1>0, <1>5 DEF Max
-----------------------------------------------------------------------------
(***************************************************************************)
(* A function with calls of wrappers put between its instructions.         *)
(***************************************************************************)
\* The instructions pre[k] come before the k-th one, which is now at place[k].
IsWeave(body, pre, new, place) ==
    /\ place \in [1 .. Len(body) -> 1 .. Len(new)]
    /\ \A j, k \in 1 .. Len(body) : j < k => place[j] < place[k]
    /\ \A k \in 1 .. Len(body) : new[place[k]] = body[k]
    /\ place[1] = 1 + Len(pre[1]) /\ place[Len(body)] = Len(new)
    /\ \A k \in 2 .. Len(body) : place[k] = place[k - 1] + 1 + Len(pre[k])
    /\ \A k \in 1 .. Len(body) : \A i \in 1 .. Len(pre[k]) :
          new[place[k] - 1 - Len(pre[k]) + i] = pre[k][i]
    /\ \A p \in 1 .. Len(new) : \E k \in 1 .. Len(body) :
          \/ p = place[k]
          \/ \E i \in 1 .. Len(pre[k]) : p = place[k] - 1 - Len(pre[k]) + i

LEMMA WeaveExists ==
  ASSUME NEW body \in Seq(Instruction), Len(body) # 0,
         NEW pre, \A k \in 1 .. Len(body) : pre[k] \in Seq(Instruction),
         NEW new, new = FlattenSeq([k \in DOMAIN body |-> pre[k] \o <<body[k]>>])
  PROVE  /\ new \in Seq(Instruction)
         /\ \E place : IsWeave(body, pre, new, place)
  <1> DEFINE n == Len(body)
             parts == [k \in DOMAIN body |-> pre[k] \o <<body[k]>>]
  <1>1. n \in Nat /\ n # 0 /\ DOMAIN body = 1 .. n /\ \A k \in 1 .. n : body[k] \in Instruction
    OBVIOUS
  <1>2. ASSUME NEW k \in 1 .. n
        PROVE  /\ parts[k] \in Seq(Instruction) /\ Len(parts[k]) = Len(pre[k]) + 1
               /\ Len(pre[k]) \in Nat
               /\ \A i \in 1 .. Len(pre[k]) : parts[k][i] = pre[k][i]
               /\ parts[k][Len(pre[k]) + 1] = body[k]
    <2> DEFINE a == pre[k]
               b == <<body[k]>>
    <2>1. a \in Seq(Instruction) /\ b \in Seq(Instruction) /\ Len(b) = 1 /\ b[1] = body[k]
      BY <1>1
    <2>2. parts[k] = a \o b
      BY <1>1
    <2> HIDE DEF a, b, parts
    <2>3. a \o b \in Seq(Instruction) /\ Len(a \o b) = Len(a) + Len(b) /\ Len(a) \in Nat
      BY <2>1, ConcatElements
    <2>4. \A i \in 1 .. Len(a) : (a \o b)[i] = a[i]
      BY <2>1, ConcatElements
    <2>5. (a \o b)[Len(a) + 1] = b[1]
      <3> DEFINE i == 1
      <3>1. i \in 1 .. Len(b)
        BY <2>1
      <3> HIDE DEF i
      <3>2. (a \o b)[Len(a) + i] = b[i]
        <4>1. a \in Seq(Instruction) /\ b \in Seq(Instruction) /\ i \in 1 .. Len(b)
          BY <2>1, <3>1
        <4>2. \A S : \A s, t \in Seq(S) : \A j \in 1 .. Len(t) : (s \o t)[Len(s) + j] = t[j]
          BY ConcatElements
        <4>. QED  BY <4>1, <4>2, Zenon
      <3>. QED  BY <3>2, Zenon DEF i
    <2>. QED  BY <2>1, <2>2, <2>3, <2>4, <2>5, Zenon DEF a
  <1>3. parts \in Seq(Seq(Instruction)) /\ Len(parts) = n
    <2>1. parts \in [1 .. n -> Seq(Instruction)]
      <3>1. DOMAIN parts = 1 .. n /\ parts = [k \in 1 .. n |-> parts[k]]
        BY <1>1
      <3> HIDE DEF parts
      <3>. QED  BY <3>1, <1>2
    <2> HIDE DEF parts
    <2>. QED  BY <2>1, <1>1
  <1> HIDE DEF parts, n
  <1>4. PICK ends \in [0 .. n -> Nat] :
            /\ ends[0] = 0
            /\ \A k \in 1 .. n : ends[k] = ends[k - 1] + Len(parts[k])
            /\ FlattenSeq(parts) \in Seq(Instruction) /\ Len(FlattenSeq(parts)) = ends[n]
            /\ \A k \in 1 .. n : \A i \in 1 .. Len(parts[k]) :
                  FlattenSeq(parts)[ends[k - 1] + i] = parts[k][i]
            /\ \A k, m \in 1 .. n : k <= m => ends[k] <= ends[m]
            /\ \A p \in 1 .. ends[n] :
                  \E k \in 1 .. n : ends[k - 1] < p /\ p <= ends[k]
    <2>1. Len(parts) # 0
      BY <1>1, <1>3
    <2>. QED  BY <1>3, <2>1, FlattenPlaces
  <1>5. new = FlattenSeq(parts)
    BY Zenon DEF parts
  <1> DEFINE place == [k \in 1 .. n |-> ends[k]]
  <1>6. \A k \in 1 .. n : place[k] = ends[k] /\ ends[k] \in Nat /\ ends[k - 1] \in Nat
                           /\ ends[k] = ends[k - 1] + Len(pre[k]) + 1
                           /\ Len(pre[k]) \in Nat
    BY <1>1, <1>2, <1>4
  <1>7. Len(new) = ends[n] /\ n \in 1 .. n /\ 1 \in 1 .. n
    BY <1>1, <1>4, <1>5
  <1>8. place \in [1 .. n -> 1 .. Len(new)]
    <2>1. \A k \in 1 .. n : ends[k] \in 1 .. Len(new)
      <3>. TAKE k \in 1 .. n
      <3>1. ends[k] <= ends[n]
        <4>1. n \in 1 .. n /\ k <= n
          BY <1>7
        <4>. QED  BY <4>1, <1>4, Zenon
      <3>2. /\ ends[k] \in Nat /\ ends[k - 1] \in Nat /\ Len(pre[k]) \in Nat
            /\ ends[k] = ends[k - 1] + Len(pre[k]) + 1
        BY <1>6, Zenon
      <3>3. Len(new) = ends[n] /\ ends[n] \in Nat
        BY <1>6, <1>7, Zenon
      <3>. QED  BY <3>1, <3>2, <3>3
    <2>. QED  BY <2>1
  <1> HIDE DEF place
  <1>9. \A j, k \in 1 .. n : j < k => place[j] < place[k]
    <2>. TAKE j, k \in 1 .. n
    <2>. HAVE j < k
    <2>1. k - 1 \in 1 .. n /\ j <= k - 1
      BY <1>1
    <2>2. ends[j] <= ends[k - 1]
      BY <2>1, <1>4
    <2>3. /\ place[j] = ends[j] /\ ends[j] \in Nat
          /\ place[k] = ends[k - 1] + Len(pre[k]) + 1
          /\ ends[k - 1] \in Nat /\ Len(pre[k]) \in Nat
      BY <1>6
    <2>. QED  BY <2>2, <2>3
  <1>10. \A k \in 1 .. n : new[place[k]] = body[k]
    <2>. TAKE k \in 1 .. n
    <2>1. Len(pre[k]) + 1 \in 1 .. Len(parts[k])
      BY <1>2
    <2>2. FlattenSeq(parts)[ends[k - 1] + (Len(pre[k]) + 1)] = parts[k][Len(pre[k]) + 1]
      BY <1>4, <2>1
    <2>3. place[k] = ends[k - 1] + (Len(pre[k]) + 1)
      BY <1>6
    <2>. QED  BY <2>2, <2>3, <1>2, <1>5
  <1>11. place[1] = 1 + Len(pre[1]) /\ place[n] = Len(new)
    <2>1. ends[1] = ends[1 - 1] + Len(pre[1]) + 1 /\ place[1] = ends[1]
            /\ Len(pre[1]) \in Nat
      BY <1>6, <1>7
    <2>2. place[n] = ends[n]
      BY <1>6, <1>7
    <2>. QED  BY <2>1, <2>2, <1>4, <1>7
  <1>12. \A k \in 2 .. n : place[k] = place[k - 1] + 1 + Len(pre[k])
    <2>. TAKE k \in 2 .. n
    <2>1. k \in 1 .. n /\ k - 1 \in 1 .. n
      BY <1>1
    <2>. QED  BY <2>1, <1>6
  <1>13. \A k \in 1 .. n : \A i \in 1 .. Len(pre[k]) :
            new[place[k] - 1 - Len(pre[k]) + i] = pre[k][i]
    <2>. TAKE k \in 1 .. n
    <2>. TAKE i \in 1 .. Len(pre[k])
    <2>1. i \in 1 .. Len(parts[k])
      BY <1>2
    <2>2. FlattenSeq(parts)[ends[k - 1] + i] = parts[k][i]
      BY <1>4, <2>1
    <2>3. place[k] - 1 - Len(pre[k]) + i = ends[k - 1] + i
      <3>1. /\ place[k] = ends[k] /\ ends[k - 1] \in Nat /\ Len(pre[k]) \in Nat
            /\ ends[k] = ends[k - 1] + Len(pre[k]) + 1
        BY <1>6, Zenon
      <3>. QED  BY <3>1
    <2>. QED  BY <2>2, <2>3, <1>2, <1>5
  <1>14. \A p \in 1 .. Len(new) : \E k \in 1 .. n :
            \/ p = place[k]
            \/ \E i \in 1 .. Len(pre[k]) : p = place[k] - 1 - Len(pre[k]) + i
    <2>. TAKE p \in 1 .. Len(new)
    <2>1. PICK k \in 1 .. n : ends[k - 1] < p /\ p <= ends[k]
      BY <1>4, <1>7
    <2>2. CASE p = ends[k]
      BY <2>2, <1>6
    <2>3. CASE p # ends[k]
      <3>1. p - ends[k - 1] \in 1 .. Len(pre[k])
        BY <2>1, <2>3, <1>6
      <3>2. p = place[k] - 1 - Len(pre[k]) + (p - ends[k - 1])
        <4>1. place[k] = ends[k - 1] + Len(pre[k]) + 1 /\ ends[k - 1] \in Nat
                /\ Len(pre[k]) \in Nat
          BY <1>6
        <4>2. p \in Nat
          BY <1>7
        <4>. QED  BY <4>1, <4>2
      <3>. QED  BY <3>1, <3>2
    <2>. QED  BY <2>2, <2>3
  <1>15. IsWeave(body, pre, new, place)
    BY <1>8, <1>9, <1>10, <1>11, <1>12, <1>13, <1>14, Zenon DEF IsWeave, n
  <1>. QED  BY <1>4, <1>5, <1>15

\* What is inserted are calls of wrappers, and never in front of a label.
OnlyWrappers(body, pre) ==
    \A k \in 1 .. Len(body) :
        /\ pre[k] \in Seq(Instruction)
        /\ \A i \in 1 .. Len(pre[k]) : pre[k][i].kind \in Wrappers /\ pre[k][i].to = <<>>
        /\ body[k].kind = "label" => pre[k] = <<>>

\* The instructions of new are those of body, in their order, and wrappers.
IsWoven(body, new, place) ==
    /\ \A k \in 1 .. Len(body) : place[k] \in 1 .. Len(new) /\ new[place[k]] = body[k]
    /\ \A j, k \in 1 .. Len(body) : j < k => place[j] < place[k]
    /\ \A k \in 2 .. Len(body) : body[k].kind = "label" => place[k] = place[k - 1] + 1
    /\ \A p \in 1 .. Len(new) :
          \/ \E k \in 1 .. Len(body) : p = place[k]
          \/ new[p].kind \in Wrappers /\ new[p].to = <<>> /\ p < Len(new)
    /\ place[Len(body)] = Len(new)

LEMMA WeaveIsWoven ==
  ASSUME NEW body \in Seq(Instruction), NEW new \in Seq(Instruction), NEW pre, NEW place,
         OnlyWrappers(body, pre), IsWeave(body, pre, new, place)
  PROVE  IsWoven(body, new, place)
  <1>1. /\ \A k \in 1 .. Len(body) : place[k] \in 1 .. Len(new) /\ new[place[k]] = body[k]
        /\ \A j, k \in 1 .. Len(body) : j < k => place[j] < place[k]
    BY DEF IsWeave
  <1>2. ASSUME NEW k \in 2 .. Len(body), body[k].kind = "label"
        PROVE  place[k] = place[k - 1] + 1
    <2>1. k \in 1 .. Len(body) /\ k - 1 \in 1 .. Len(body)
      OBVIOUS
    <2>2. pre[k] = <<>>
      BY <2>1, <1>2 DEF OnlyWrappers
    <2>3. place[k] = place[k - 1] + 1 + Len(pre[k])
      BY <1>2, Zenon DEF IsWeave
    <2>4. place[k - 1] \in Nat
      BY <2>1, <1>1
    <2>. QED  BY <2>2, <2>3, <2>4
  <1>3. ASSUME NEW p \in 1 .. Len(new), NEW k \in 1 .. Len(body), NEW i \in 1 .. Len(pre[k]),
               p = place[k] - 1 - Len(pre[k]) + i
        PROVE  new[p].kind \in Wrappers /\ new[p].to = <<>> /\ p < Len(new)
    <2>1. new[p] = pre[k][i]
      BY <1>3 DEF IsWeave
    <2>2. pre[k][i].kind \in Wrappers /\ pre[k][i].to = <<>> /\ Len(pre[k]) \in Nat
      BY DEF OnlyWrappers
    <2>3. p < place[k] /\ place[k] <= Len(new)
      BY <1>1, <1>3, <2>2
    <2>. QED  BY <2>1, <2>2, <2>3, <1>1
  <1>4. \A p \in 1 .. Len(new) :
           \/ \E k \in 1 .. Len(body) : p = place[k]
           \/ new[p].kind \in Wrappers /\ new[p].to = <<>> /\ p < Len(new)
    BY <1>3 DEF IsWeave
  <1>5. place[Len(body)] = Len(new)
    BY DEF IsWeave
  <1>. QED  BY <1>1, <1>2, <1>4, <1>5 DEF IsWoven

\* The instructions of body are all there, in their order, and between them are nothing
\* but calls of wrappers.
Keeps(body, new) ==
    \E place \in [1 .. Len(body) -> 1 .. Len(new)] :
        /\ \A j, k \in 1 .. Len(body) : j < k => place[j] < place[k]
        /\ \A k \in 1 .. Len(body) : new[place[k]] = body[k]
        /\ \A p \in 1 .. Len(new) :
              (\E k \in 1 .. Len(body) : p = place[k]) \/ new[p].kind \in Wrappers

LEMMA WovenKeeps ==
  ASSUME NEW body, NEW new, NEW place \in [1 .. Len(body) -> 1 .. Len(new)],
         IsWoven(body, new, place)
  PROVE  Keeps(body, new)
  BY Zenon DEF IsWoven, Keeps

LEMMA KeepsTransitive ==
  ASSUME NEW body, NEW entered, NEW new, Keeps(body, entered), Keeps(entered, new)
  PROVE  Keeps(body, new)
  <1>1. PICK outer \in [1 .. Len(body) -> 1 .. Len(entered)] :
          /\ \A j, k \in 1 .. Len(body) : j < k => outer[j] < outer[k]
          /\ \A k \in 1 .. Len(body) : entered[outer[k]] = body[k]
          /\ \A p \in 1 .. Len(entered) :
                (\E k \in 1 .. Len(body) : p = outer[k]) \/ entered[p].kind \in Wrappers
    BY Zenon DEF Keeps
  <1>2. PICK inner \in [1 .. Len(entered) -> 1 .. Len(new)] :
          /\ \A j, k \in 1 .. Len(entered) : j < k => inner[j] < inner[k]
          /\ \A k \in 1 .. Len(entered) : new[inner[k]] = entered[k]
          /\ \A p \in 1 .. Len(new) :
                (\E k \in 1 .. Len(entered) : p = inner[k]) \/ new[p].kind \in Wrappers
    BY Zenon DEF Keeps
  <1> DEFINE place == [k \in 1 .. Len(body) |-> inner[outer[k]]]
  <1>3. \A k \in 1 .. Len(body) : outer[k] \in 1 .. Len(entered)
    BY <1>1, Zenon
  <1>4. place \in [1 .. Len(body) -> 1 .. Len(new)]
    BY <1>2, <1>3, Zenon
  <1>5. \A k \in 1 .. Len(body) : place[k] = inner[outer[k]]
    BY Zenon
  <1> HIDE DEF place
  <1>6. \A j, k \in 1 .. Len(body) : j < k => place[j] < place[k]
    <2>. TAKE j, k \in 1 .. Len(body)
    <2>. HAVE j < k
    <2>1. outer[j] < outer[k] /\ outer[j] \in 1 .. Len(entered) /\ outer[k] \in 1 .. Len(entered)
      BY <1>1, <1>3, Zenon
    <2>. QED  BY <2>1, <1>2, <1>5, Zenon
  <1>7. \A k \in 1 .. Len(body) : new[place[k]] = body[k]
    BY <1>1, <1>2, <1>3, <1>5, Zenon
  <1>8. \A p \in 1 .. Len(new) :
           (\E k \in 1 .. Len(body) : p = place[k]) \/ new[p].kind \in Wrappers
    <2>. TAKE p \in 1 .. Len(new)
    <2>. SUFFICES ASSUME new[p].kind \notin Wrappers
                  PROVE  \E k \in 1 .. Len(body) : p = place[k]
      OBVIOUS
    <2>1. PICK i \in 1 .. Len(entered) : p = inner[i]
      BY <1>2, Zenon
    <2>2. entered[i].kind \notin Wrappers
      BY <2>1, <1>2, Zenon
    <2>3. PICK k \in 1 .. Len(body) : i = outer[k]
      BY <2>2, <1>1, Zenon
    <2>. QED  BY <2>1, <2>3, <1>5, Zenon
  <1>. QED  BY <1>4, <1>6, <1>7, <1>8, Zenon DEF Keeps

\* The blocks are as before.
LEMMA WovenBlocks ==
  ASSUME NEW body, HasBlocks(body), NEW new \in Seq(Instruction), NEW place,
         IsWoven(body, new, place), Len(body) # 0
  PROVE  HasBlocks(new)
  <1> DEFINE n == Len(body)
  <1>1. body \in Seq(Instruction) /\ n \in Nat /\ n # 0 /\ DOMAIN body = 1 .. n
          /\ DOMAIN new = 1 .. Len(new) /\ Len(new) \in Nat
    BY DEF HasBlocks
  <1>2. /\ \A k \in 1 .. n : place[k] \in 1 .. Len(new) /\ new[place[k]] = body[k]
        /\ \A j, k \in 1 .. n : j < k => place[j] < place[k]
        /\ \A k \in 2 .. n : body[k].kind = "label" => place[k] = place[k - 1] + 1
        /\ \A p \in 1 .. Len(new) :
              \/ \E k \in 1 .. n : p = place[k]
              \/ new[p].kind \in Wrappers /\ new[p].to = <<>> /\ p < Len(new)
    BY DEF IsWoven
  <1>3. body[1].kind # "label"
    BY <1>1 DEF HasBlocks
  <1>4. \A p \in 1 .. Len(new) :
           \/ \E k \in 1 .. n : p = place[k] /\ new[p] = body[k]
           \/ new[p].kind \in Wrappers /\ new[p].to = <<>> /\ p < Len(new)
    BY <1>2
  <1>. HIDE DEF n
  <1>5. ASSUME NEW p \in 1 .. Len(new), NEW k \in 1 .. n, p = place[k], new[p] = body[k]
        PROVE  /\ new[p].kind = "return" => new[p] = Return
               /\ new[p].kind = "resume" => new[p] = Resume
               /\ new[p].kind = "branch" => Len(new[p].to) = 1
               /\ new[p].kind = "invoke" => Len(new[p].to) = 2
               /\ \A i \in DOMAIN new[p].to :
                     \E j \in 1 .. Len(new) : new[j] = Label(new[p].to[i])
               /\ ~ EndsBlock(new[p]) => p < Len(new) /\ new[p + 1].kind # "label"
    <2>1. /\ body[k].kind = "return" => body[k] = Return
          /\ body[k].kind = "resume" => body[k] = Resume
          /\ body[k].kind = "branch" => Len(body[k].to) = 1
          /\ body[k].kind = "invoke" => Len(body[k].to) = 2
          /\ \A i \in DOMAIN body[k].to :
                \E j \in DOMAIN body : body[j] = Label(body[k].to[i])
          /\ ~ EndsBlock(body[k]) => k < Len(body) /\ body[k + 1].kind # "label"
      BY <1>1 DEF HasBlocks
    <2>2. \A i \in DOMAIN new[p].to : \E j \in 1 .. Len(new) : new[j] = Label(new[p].to[i])
      <3>. TAKE i \in DOMAIN new[p].to
      <3>1. PICK j \in 1 .. n : body[j] = Label(body[k].to[i])
        BY <2>1, <1>1, <1>5
      <3>2. place[j] \in 1 .. Len(new) /\ new[place[j]] = body[j]
        BY <1>2
      <3>. QED  BY <3>1, <3>2, <1>5, Zenon
    <2>3. ASSUME ~ EndsBlock(new[p]) PROVE p < Len(new) /\ new[p + 1].kind # "label"
      <3>1. k + 1 \in 1 .. n /\ k < k + 1 /\ body[k + 1].kind # "label"
        BY <2>1, <2>3, <1>5, <1>1 DEF n
      <3>2. place[k] < place[k + 1] /\ place[k + 1] \in 1 .. Len(new)
        BY <3>1, <1>2
      <3>3. p + 1 \in 1 .. Len(new)
        BY <3>2, <1>5, <1>1
      <3>4. new[p + 1].kind # "label"
        <4>. SUFFICES ASSUME new[p + 1].kind = "label" PROVE FALSE
          OBVIOUS
        <4>1. PICK j \in 1 .. n : p + 1 = place[j] /\ new[p + 1] = body[j]
          BY <1>4, <3>3 DEF Wrappers
        <4>2. j # k + 1
          BY <4>1, <3>1
        <4>3. k < j
          <5>1. place[j] > place[k] /\ place[k] \in Nat
            BY <4>1, <1>5
          <5>. QED  BY <5>1, <1>2, <1>1
        <4>4. k + 1 < j
          BY <4>2, <4>3, <1>1
        <4>5. place[k + 1] < place[j]
          BY <4>4, <3>1, <1>2
        <4>. QED  BY <4>5, <3>2, <4>1, <1>5
      <3>. QED  BY <3>3, <3>4
    <2>. QED  BY <2>1, <2>2, <2>3, <1>5
  <1>6. ASSUME NEW p \in 1 .. Len(new), new[p].kind \in Wrappers, new[p].to = <<>>, p < Len(new),
               ~ \E k \in 1 .. n : p = place[k]
        PROVE  new[p + 1].kind # "label"
    <2>. SUFFICES ASSUME new[p + 1].kind = "label" PROVE FALSE
      OBVIOUS
    <2>1. p + 1 \in 1 .. Len(new)
      BY <1>6, <1>1
    <2>2. PICK j \in 1 .. n : p + 1 = place[j] /\ new[p + 1] = body[j]
      BY <1>4, <2>1 DEF Wrappers
    <2>3. j # 1
      BY <2>2, <1>3
    <2>4. j \in 2 .. n /\ j - 1 \in 1 .. n
      BY <2>3, <1>1
    <2>5. place[j] = place[j - 1] + 1 /\ place[j - 1] \in Nat
      BY <2>4, <2>2, <1>2
    <2>6. p = place[j - 1]
      BY <2>5, <2>2
    <2>. QED  BY <2>6, <2>4, <1>6
  <1>7. new[1].kind # "label"
    <2>. SUFFICES ASSUME new[1].kind = "label" PROVE FALSE
      OBVIOUS
    <2>1. 1 \in 1 .. Len(new) /\ 1 \in 1 .. n
      <3>1. 1 \in 1 .. n
        BY <1>1
      <3>2. place[1] \in 1 .. Len(new)
        BY <3>1, <1>2
      <3>. QED  BY <3>1, <3>2, <1>1
    <2>2. PICK k \in 1 .. n : 1 = place[k] /\ new[1] = body[k]
      BY <1>4, <2>1 DEF Wrappers
    <2>3. k = 1
      <3>. SUFFICES ASSUME 1 < k PROVE FALSE
        BY <1>1
      <3>1. place[1] < place[k] /\ place[1] \in 1 .. Len(new)
        BY <2>1, <1>2
      <3>. QED  BY <3>1, <2>2
    <2>. QED  BY <2>2, <2>3, <1>3
  <1>8. ASSUME NEW p \in 1 .. Len(new)
        PROVE  /\ new[p].kind = "return" => new[p] = Return
               /\ new[p].kind = "resume" => new[p] = Resume
               /\ new[p].kind = "branch" => Len(new[p].to) = 1
               /\ new[p].kind = "invoke" => Len(new[p].to) = 2
               /\ \A i \in DOMAIN new[p].to :
                     \E j \in 1 .. Len(new) : new[j] = Label(new[p].to[i])
               /\ ~ EndsBlock(new[p]) => p < Len(new) /\ new[p + 1].kind # "label"
    <2>1. CASE \E k \in 1 .. n : p = place[k]
      <3>1. PICK k \in 1 .. n : p = place[k]
        BY <2>1
      <3>2. new[p] = body[k]
        BY <3>1, <1>2
      <3>. QED  BY <3>1, <3>2, <1>5, Zenon
    <2>2. CASE ~ \E k \in 1 .. n : p = place[k]
      <3>1. new[p].kind \in Wrappers /\ new[p].to = <<>> /\ p < Len(new)
        BY <2>2, <1>2, Zenon
      <3>2. new[p + 1].kind # "label"
        BY <2>2, <3>1, <1>6, Zenon
      <3>. QED  BY <3>1, <3>2 DEF Wrappers
    <2>. QED  BY <2>1, <2>2
  <1>. QED  BY <1>1, <1>7, <1>8, ZenonT(40) DEF HasBlocks

\* A wrapper is no instruction of the program.
LEMMA WrappersDoNothing ==
  ASSUME NEW instr, instr.kind \in Wrappers
  PROVE  /\ Visit(instr) = NotVisible /\ Performs(instr) = NotVisible
         /\ ~ IsCall(instr) /\ ~ IsExit(instr) /\ ~ EndsBlock(instr)
         /\ instr.kind # "label"
  BY DEF Wrappers, Visit, Performs, IsCall, IsExit, EndsBlock

\* Creations go on as before.
LEMMA WovenOrder ==
  ASSUME NEW body, HasBlocks(body), NEW new \in Seq(Instruction), NEW place,
         IsWoven(body, new, place), Len(body) # 0,
         CreationsInOrder(body)
  PROVE  CreationsInOrder(new)
  <1> DEFINE n == Len(body)
  <1>1. body \in Seq(Instruction) /\ n \in Nat /\ n # 0 /\ DOMAIN body = 1 .. n
          /\ DOMAIN new = 1 .. Len(new) /\ Len(new) \in Nat
    BY DEF HasBlocks
  <1>2. /\ \A k \in 1 .. n : place[k] \in 1 .. Len(new) /\ new[place[k]] = body[k]
        /\ \A j, k \in 1 .. n : j < k => place[j] < place[k]
        /\ \A k \in 2 .. n : body[k].kind = "label" => place[k] = place[k - 1] + 1
        /\ \A p \in 1 .. Len(new) :
              \/ \E k \in 1 .. n : p = place[k]
              \/ new[p].kind \in Wrappers /\ new[p].to = <<>> /\ p < Len(new)
    BY DEF IsWoven
  <1>3. place[n] = Len(new)
    BY DEF IsWoven
  <1>. SUFFICES ASSUME NEW p \in 1 .. Len(new), new[p].kind = "invoke",
                       Visit(new[p]) = "Spawn", p < Len(new)
                PROVE  /\ new[p + 1] = Label(new[p].to[1])
                       /\ \A q \in 1 .. Len(new) :
                             /\ new[q] = new[p + 1] => q = p + 1
                             /\ \A i \in DOMAIN new[q].to :
                                   new[q].to[i] = new[p].to[1] => q = p /\ i = 1
    BY <1>1, Zenon DEF CreationsInOrder
  <1>. HIDE DEF n
  <1>4. PICK k \in 1 .. n : p = place[k]
    BY <1>2, <1>1 DEF Wrappers
  <1>5. new[p] = body[k] /\ k # n
    BY <1>2, <1>3, <1>4
  <1>6. k + 1 \in 1 .. n /\ k + 1 \in 2 .. n /\ k < Len(body) /\ k \in DOMAIN body
    <2>1. k + 1 \in 1 .. n /\ k + 1 \in 2 .. n /\ k < n
      BY <1>5, <1>1
    <2>. QED  BY <2>1, <1>1 DEF n
  <1>7. /\ body[k + 1] = Label(body[k].to[1])
        /\ \A j \in DOMAIN body :
              /\ body[j] = body[k + 1] => j = k + 1
              /\ \A i \in DOMAIN body[j].to : body[j].to[i] = body[k].to[1] => j = k /\ i = 1
    BY <1>5, <1>6, Zenon DEF CreationsInOrder
  <1>8. body[k + 1].kind = "label"
    BY <1>7 DEF Label, Instr
  <1>9. p + 1 = place[k + 1] /\ new[p + 1] = body[k + 1]
    <2>1. place[k + 1] = place[(k + 1) - 1] + 1
      BY <1>8, <1>6, <1>2, Zenon
    <2>2. (k + 1) - 1 = k
      BY <1>1
    <2>3. new[place[k + 1]] = body[k + 1]
      BY <1>6, <1>2
    <2>. QED  BY <2>1, <2>2, <2>3, <1>4
  <1>10. ASSUME NEW q \in 1 .. Len(new), new[q] = new[p + 1]
         PROVE  q = p + 1
    <2>1. PICK j \in 1 .. n : q = place[j]
      BY <1>2, <1>8, <1>9, <1>10 DEF Wrappers
    <2>2. j = k + 1
      <3>1. body[j] = body[k + 1] /\ j \in DOMAIN body
        BY <2>1, <1>2, <1>9, <1>10, <1>1
      <3>. QED  BY <3>1, <1>7, Zenon
    <2>. QED  BY <2>1, <2>2, <1>9
  <1>11. ASSUME NEW q \in 1 .. Len(new), NEW i \in DOMAIN new[q].to, new[q].to[i] = new[p].to[1]
         PROVE  q = p /\ i = 1
    <2>1. PICK j \in 1 .. n : q = place[j]
      BY <1>2, <1>11
    <2>2. j = k /\ i = 1
      <3>1. new[q] = body[j] /\ j \in DOMAIN body
        BY <2>1, <1>2, <1>1
      <3>. QED  BY <3>1, <1>5, <1>7, <1>11, Zenon
    <2>. QED  BY <2>1, <2>2, <1>4
  <1>. QED  BY <1>5, <1>7, <1>9, <1>10, <1>11

-----------------------------------------------------------------------------
(***************************************************************************)
(* instrumentFunction: the calls that enter a function and exit it.        *)
(***************************************************************************)
LEMMA PrefixElements ==
  ASSUME NEW w \in Instruction, NEW body \in Seq(Instruction)
  PROVE  /\ <<w>> \o body \in Seq(Instruction) /\ Len(<<w>> \o body) = Len(body) + 1
         /\ (<<w>> \o body)[1] = w
         /\ \A k \in 1 .. Len(body) : (<<w>> \o body)[k + 1] = body[k]
         /\ \A p \in 1 .. Len(body) + 1 :
               p = 1 \/ (p - 1 \in 1 .. Len(body) /\ (<<w>> \o body)[p] = body[p - 1])
  <1>1. <<w>> \o body \in Seq(Instruction) /\ Len(<<w>> \o body) = Len(body) + 1
          /\ Len(body) \in Nat
    OBVIOUS
  <1>2. (<<w>> \o body)[1] = w
    OBVIOUS
  <1>3. ASSUME NEW k \in 1 .. Len(body) PROVE (<<w>> \o body)[k + 1] = body[k]
    BY <1>3
  <1>4. ASSUME NEW p \in 1 .. Len(body) + 1, p # 1
        PROVE  p - 1 \in 1 .. Len(body) /\ (<<w>> \o body)[p] = body[p - 1]
    <2>1. p - 1 \in 1 .. Len(body) /\ (p - 1) + 1 = p
      BY <1>4, <1>1
    <2>. QED  BY <2>1, <1>3
  <1>. QED  BY <1>1, <1>2, <1>3, <1>4

\* A call of a wrapper in front of everything.
LEMMA PrefixIsWoven ==
  ASSUME NEW w \in Instruction, w.kind \in Wrappers, w.to = <<>>,
         NEW body \in Seq(Instruction), Len(body) # 0
  PROVE  IsWoven(body, <<w>> \o body, [k \in 1 .. Len(body) |-> k + 1])
  <1> DEFINE n == Len(body)
             new == <<w>> \o body
             place == [k \in 1 .. n |-> k + 1]
  <1>1. n \in Nat /\ n # 0 /\ \A k \in 1 .. n : place[k] = k + 1
    OBVIOUS
  <1>2. /\ Len(new) = n + 1 /\ new[1] = w
        /\ \A k \in 1 .. n : new[k + 1] = body[k]
    BY PrefixElements
  <1> HIDE DEF new, n, place
  <1>3. \A k \in 1 .. n : place[k] \in 1 .. Len(new) /\ new[place[k]] = body[k]
    BY <1>1, <1>2
  <1>4. \A j, k \in 1 .. n : j < k => place[j] < place[k]
    BY <1>1
  <1>5. \A k \in 2 .. n : body[k].kind = "label" => place[k] = place[k - 1] + 1
    <2>. TAKE k \in 2 .. n
    <2>1. k \in 1 .. n /\ k - 1 \in 1 .. n
      BY <1>1
    <2>. QED  BY <2>1, <1>1
  <1>6. \A p \in 1 .. Len(new) :
           \/ \E k \in 1 .. n : p = place[k]
           \/ new[p].kind \in Wrappers /\ new[p].to = <<>> /\ p < Len(new)
    <2>. TAKE p \in 1 .. Len(new)
    <2>1. CASE p = 1
      BY <2>1, <1>1, <1>2
    <2>2. CASE p # 1
      <3>1. p - 1 \in 1 .. n
        BY <2>2, <1>1, <1>2
      <3>2. place[p - 1] = p
        BY <3>1, <1>1
      <3>. QED  BY <3>1, <3>2
    <2>. QED  BY <2>1, <2>2
  <1>7. place[n] = Len(new)
    BY <1>1, <1>2
  <1>8. IsWoven(body, new, place)
    BY <1>3, <1>4, <1>5, <1>6, <1>7, Zenon DEF IsWoven, n
  <1>. QED  BY <1>8, Zenon DEF new, place, n

\* The calls of wrappers are instructions.
LEMMA WrapperInstructions ==
  ASSUME NEW f \in STRING \cup Operations
  PROVE  /\ EnterFunction(f) \in Instruction /\ ExitFunction(f) \in Instruction
         /\ PostInstruction(f) \in Instruction
         /\ RegisterThread \in Instruction /\ RegisterMainThread \in Instruction
         /\ EnterFunction(f).kind = "enter" /\ ExitFunction(f).kind = "exit"
         /\ PostInstruction(f).kind = "post" /\ PostInstruction(f).what = f
         /\ RegisterThread.kind = "register" /\ RegisterMainThread.kind = "register_main"
         /\ EnterFunction(f).to = <<>> /\ ExitFunction(f).to = <<>>
         /\ PostInstruction(f).to = <<>>
         /\ RegisterThread.to = <<>> /\ RegisterMainThread.to = <<>>
         /\ EnterFunction(f).what = f /\ ExitFunction(f).what = f
  <1>1. <<>> \in Seq(STRING)
    OBVIOUS
  <1>2. \A kind \in Kinds : \A what \in STRING \cup Operations \cup {""} :
           /\ Instr(kind, what, <<>>) \in Instruction
           /\ Instr(kind, what, <<>>).kind = kind /\ Instr(kind, what, <<>>).what = what
           /\ Instr(kind, what, <<>>).to = <<>>
    BY <1>1 DEF Instr, Instruction
  <1>3. {"enter", "exit", "post", "register", "register_main"} \subseteq Kinds
    BY Zenon DEF Kinds
  <1>. QED  BY <1>2, <1>3 DEF EnterFunction, ExitFunction, PostInstruction, RegisterThread,
                              RegisterMainThread

\* What AddExits makes of a function.
WithExits(f, body, new) ==
    /\ new \in Seq(Instruction) /\ Len(new) # 0
    /\ HasBlocks(new) /\ Keeps(body, new)
    /\ ExitsLast(f, new)
    /\ \A p \in DOMAIN new : new[p] = ExitFunction(f) \/ \E k \in DOMAIN body : new[p] = body[k]
    /\ new[Len(new)] = body[Len(body)]
    /\ CreationsInOrder(body) => CreationsInOrder(new)

LEMMA ExitsAdded ==
  ASSUME NEW f \in STRING, NEW body, IsFunctionBody(body), body # <<>>
  PROVE  WithExits(f, body, AddExits(f, body))
  <1> DEFINE n == Len(body)
             pre == [k \in DOMAIN body |-> IF IsExit(body[k]) THEN <<ExitFunction(f)>> ELSE <<>>]
             new == AddExits(f, body)
  <1>1. /\ HasBlocks(body) /\ body \in Seq(Instruction) /\ n \in Nat /\ n # 0
        /\ DOMAIN body = 1 .. n
        /\ \A k \in DOMAIN body : body[k].kind \notin Wrappers
    BY DEF IsFunctionBody, HasBlocks
  <1>2. \A k \in 1 .. n : pre[k] = IF IsExit(body[k]) THEN <<ExitFunction(f)>> ELSE <<>>
    BY <1>1
  <1>3. new = FlattenSeq([k \in DOMAIN body |-> pre[k] \o <<body[k]>>])
    <2>1. [k \in DOMAIN body |-> pre[k] \o <<body[k]>>]
            = [k \in DOMAIN body |-> (IF IsExit(body[k]) THEN <<ExitFunction(f)>> ELSE <<>>)
                                     \o <<body[k]>>]
      BY Zenon
    <2>. QED  BY <2>1, Zenon DEF AddExits
  <1>4. \A k \in 1 .. n : pre[k] \in Seq(Instruction)
    <2>1. \A w \in Instruction : <<w>> \in Seq(Instruction)
      OBVIOUS
    <2>2. <<ExitFunction(f)>> \in Seq(Instruction) /\ <<>> \in Seq(Instruction)
      BY <2>1, WrapperInstructions
    <2> HIDE DEF pre
    <2>. QED  BY <1>2, <2>2
  <1> HIDE DEF pre, new, n
  <1>5. new \in Seq(Instruction)
    BY <1>1, <1>3, <1>4, WeaveExists, Zenon DEF n
  <1>6. PICK place : IsWeave(body, pre, new, place)
    BY <1>1, <1>3, <1>4, WeaveExists, Zenon DEF n
  <1>7. \A k \in 1 .. n :
           \/ pre[k] = <<>> /\ Len(pre[k]) = 0
           \/ IsExit(body[k]) /\ Len(pre[k]) = 1 /\ pre[k][1] = ExitFunction(f)
    <2>. TAKE k \in 1 .. n
    <2>1. CASE IsExit(body[k])
      <3>1. pre[k] = <<ExitFunction(f)>>
        BY <1>2, <2>1
      <3>. QED  BY <3>1, <2>1
    <2>2. CASE ~ IsExit(body[k])
      <3>1. pre[k] = <<>>
        BY <1>2, <2>2
      <3>. QED  BY <3>1
    <2>. QED  BY <2>1, <2>2
  <1>8. OnlyWrappers(body, pre)
    <2>1. \A k \in 1 .. n : \A i \in 1 .. Len(pre[k]) :
             pre[k][i].kind \in Wrappers /\ pre[k][i].to = <<>>
      <3>. TAKE k \in 1 .. n
      <3>. TAKE i \in 1 .. Len(pre[k])
      <3>0. Len(pre[k]) # 0
        OBVIOUS
      <3>1. Len(pre[k]) = 1 /\ pre[k][1] = ExitFunction(f)
        BY <3>0, <1>7, Zenon
      <3>2. i = 1
        BY <3>1
      <3>. QED  BY <3>1, <3>2, WrapperInstructions DEF Wrappers
    <2>2. \A k \in 1 .. n : body[k].kind = "label" => pre[k] = <<>>
      BY <1>7 DEF IsExit
    <2>. QED  BY <1>4, <2>1, <2>2, Zenon DEF OnlyWrappers, n
  <1>9. IsWoven(body, new, place)
    BY <1>1, <1>5, <1>6, <1>8, WeaveIsWoven
  <1>10. HasBlocks(new) /\ (CreationsInOrder(body) => CreationsInOrder(new))
    BY <1>1, <1>5, <1>9, WovenBlocks, WovenOrder DEF n
  <1>11. /\ place \in [1 .. n -> 1 .. Len(new)]
         /\ \A k \in 1 .. n : new[place[k]] = body[k]
         /\ place[1] = 1 + Len(pre[1]) /\ place[n] = Len(new)
         /\ \A k \in 2 .. n : place[k] = place[k - 1] + 1 + Len(pre[k])
         /\ \A k \in 1 .. n : \A i \in 1 .. Len(pre[k]) :
               new[place[k] - 1 - Len(pre[k]) + i] = pre[k][i]
         /\ \A p \in 1 .. Len(new) : \E k \in 1 .. n :
               \/ p = place[k]
               \/ \E i \in 1 .. Len(pre[k]) : p = place[k] - 1 - Len(pre[k]) + i
    BY <1>6 DEF IsWeave, n
  <1>12. DOMAIN new = 1 .. Len(new) /\ Len(new) \in Nat /\ new[Len(new)] = body[n] /\ Len(new) # 0
    BY <1>1, <1>5, <1>11
  <1>13. ASSUME NEW k \in 1 .. n, IsExit(body[k])
         PROVE  /\ place[k] \in 1 .. Len(new) /\ place[k] > 1
                /\ new[place[k] - 1] = ExitFunction(f) /\ new[place[k]] = body[k]
    <2>1. pre[k] = <<ExitFunction(f)>>
      BY <1>2, <1>13
    <2>2. Len(pre[k]) = 1 /\ pre[k][1] = ExitFunction(f) /\ 1 \in 1 .. n
      BY <2>1, <1>1
    <2>3. place[k] - 1 - Len(pre[k]) + 1 = place[k] - 1 /\ place[k] \in 1 .. Len(new)
      BY <2>2, <1>11, <1>12
    <2>4. 1 \in 1 .. Len(pre[k])
      BY <2>2
    <2>5. new[place[k] - 1 - Len(pre[k]) + 1] = pre[k][1]
      BY <2>4, <1>11, Zenon
    <2>6. place[k] > 1
      <3>1. CASE k = 1
        <4>1. place[k] = 1 + Len(pre[k])
          BY <3>1, <1>11, Zenon
        <4>. QED  BY <4>1, <2>2
      <3>2. CASE k # 1
        <4>1. k \in 2 .. n /\ k - 1 \in 1 .. n
          BY <3>2, <1>1
        <4>2. place[k] = place[k - 1] + 1 + Len(pre[k]) /\ place[k - 1] \in 1 .. Len(new)
          BY <4>1, <1>11
        <4>. QED  BY <4>2, <2>2, <1>12
      <3>. QED  BY <3>1, <3>2
    <2>. QED  BY <2>2, <2>3, <2>5, <2>6, <1>11
  <1>14. \A p \in 1 .. Len(new) :
            \/ \E k \in 1 .. n : p = place[k] /\ new[p] = body[k]
            \/ \E k \in 1 .. n : IsExit(body[k]) /\ p = place[k] - 1 /\ new[p] = ExitFunction(f)
    <2>. TAKE p \in 1 .. Len(new)
    <2>1. PICK k \in 1 .. n : \/ p = place[k]
                              \/ \E i \in 1 .. Len(pre[k]) : p = place[k] - 1 - Len(pre[k]) + i
      BY <1>11
    <2>2. CASE p = place[k]
      BY <2>2, <1>11
    <2>3. CASE \E i \in 1 .. Len(pre[k]) : p = place[k] - 1 - Len(pre[k]) + i
      <3>1. PICK i \in 1 .. Len(pre[k]) : p = place[k] - 1 - Len(pre[k]) + i
        BY <2>3
      <3>0. Len(pre[k]) # 0
        OBVIOUS
      <3>2. IsExit(body[k]) /\ Len(pre[k]) = 1
        BY <3>0, <1>7, Zenon
      <3>3. p = place[k] - 1
        <4>1. place[k] \in 1 .. Len(new)
          BY <3>2, <1>13
        <4>2. i = 1
          BY <3>2
        <4>. QED  BY <3>1, <3>2, <4>1, <4>2, <1>12
      <3>. QED  BY <3>2, <3>3, <1>13
    <2>. QED  BY <2>1, <2>2, <2>3
  <1>15. ExitsLast(f, new)
    <2>. SUFFICES ASSUME NEW p \in 1 .. Len(new)
                  PROVE  /\ IsExit(new[p]) => p > 1 /\ new[p - 1] = ExitFunction(f)
                         /\ new[p].kind = "exit" =>
                               p < Len(new) /\ new[p] = ExitFunction(f) /\ IsExit(new[p + 1])
      BY <1>12, Zenon DEF ExitsLast
    <2>1. CASE \E k \in 1 .. n : p = place[k] /\ new[p] = body[k]
      <3>1. PICK k \in 1 .. n : p = place[k] /\ new[p] = body[k]
        BY <2>1
      <3>2. new[p].kind # "exit"
        BY <3>1, <1>1 DEF Wrappers
      <3>. QED  BY <3>1, <3>2, <1>13
    <2>2. CASE \E k \in 1 .. n : IsExit(body[k]) /\ p = place[k] - 1 /\ new[p] = ExitFunction(f)
      <3>1. PICK k \in 1 .. n : IsExit(body[k]) /\ p = place[k] - 1 /\ new[p] = ExitFunction(f)
        BY <2>2
      <3>2. new[p].kind = "exit"
        BY <3>1, WrapperInstructions
      <3>3. place[k] \in 1 .. Len(new) /\ new[place[k]] = body[k]
        BY <3>1, <1>13
      <3>4. p < Len(new) /\ p + 1 = place[k]
        BY <3>1, <3>3, <1>12
      <3>. QED  BY <3>1, <3>2, <3>3, <3>4 DEF IsExit
    <2>. QED  BY <2>1, <2>2, <1>14
  <1>16. \A p \in DOMAIN new : new[p] = ExitFunction(f) \/ \E k \in DOMAIN body : new[p] = body[k]
    BY <1>14, <1>12, <1>1
  <1>17. Keeps(body, new)
    <2>1. place \in [1 .. Len(body) -> 1 .. Len(new)]
      BY <1>11, Zenon DEF n
    <2>. QED  BY <2>1, <1>9, WovenKeeps, Zenon
  <1>. QED  BY <1>5, <1>10, <1>12, <1>15, <1>16, <1>17, Zenon DEF WithExits, n, new

\* A call in front of everything leaves the exits where they are.
LEMMA PrefixExits ==
  ASSUME NEW w \in Instruction, w.kind \in {"enter", "register_main"},
         NEW f, NEW body \in Seq(Instruction), ExitsLast(f, body)
  PROVE  ExitsLast(f, <<w>> \o body)
  <1> DEFINE n == Len(body)
             new == <<w>> \o body
  <1>1. n \in Nat /\ DOMAIN body = 1 .. n /\ DOMAIN new = 1 .. n + 1 /\ Len(new) = n + 1
    OBVIOUS
  <1>2. /\ new[1] = w
        /\ \A k \in 1 .. n : new[k + 1] = body[k]
        /\ \A p \in 1 .. n + 1 : p = 1 \/ (p - 1 \in 1 .. n /\ new[p] = body[p - 1])
    BY PrefixElements
  <1>3. \A k \in 1 .. n :
           /\ IsExit(body[k]) => k > 1 /\ body[k - 1] = ExitFunction(f)
           /\ body[k].kind = "exit" => k < n /\ body[k] = ExitFunction(f) /\ IsExit(body[k + 1])
    BY <1>1 DEF ExitsLast
  <1> HIDE DEF n, new
  <1>. SUFFICES ASSUME NEW p \in 1 .. n + 1
                PROVE  /\ IsExit(new[p]) => p > 1 /\ new[p - 1] = ExitFunction(f)
                       /\ new[p].kind = "exit" =>
                             p < n + 1 /\ new[p] = ExitFunction(f) /\ IsExit(new[p + 1])
    <2>1. ExitsLast(f, new)
      BY <1>1, Zenon DEF ExitsLast
    <2>. QED  BY <2>1, Zenon DEF new
  <1>4. CASE p = 1
    <2>1. ~ IsExit(w) /\ w.kind # "exit"
      BY DEF IsExit
    <2>. QED  BY <2>1, <1>4, <1>2
  <1>5. CASE p # 1
    <2>1. p - 1 \in 1 .. n /\ new[p] = body[p - 1] /\ p > 1
      BY <1>5, <1>2
    <2>2. ASSUME IsExit(new[p]) PROVE new[p - 1] = ExitFunction(f)
      <3>1. p - 1 > 1 /\ body[(p - 1) - 1] = ExitFunction(f)
        BY <2>1, <2>2, <1>3
      <3>2. (p - 1) - 1 \in 1 .. n /\ ((p - 1) - 1) + 1 = p - 1
        BY <3>1, <2>1, <1>1
      <3>. QED  BY <3>1, <3>2, <1>2
    <2>3. ASSUME new[p].kind = "exit"
          PROVE  p < n + 1 /\ new[p] = ExitFunction(f) /\ IsExit(new[p + 1])
      <3>1. p - 1 < n /\ body[p - 1] = ExitFunction(f) /\ IsExit(body[(p - 1) + 1])
        BY <2>1, <2>3, <1>3
      <3>2. (p - 1) + 1 = p /\ p \in 1 .. n
        BY <3>1, <2>1, <1>1
      <3>. QED  BY <3>1, <3>2, <2>1, <1>1, <1>2
    <2>. QED  BY <2>1, <2>2, <2>3
  <1>. QED  BY <1>4, <1>5

\* What instrumentFunction makes of a function.
EnteredAs(f, body, new) ==
    /\ HasBlocks(new) /\ Len(new) # 0 /\ Keeps(body, new)
    /\ EntersAt(f, new, 1)
    /\ ExitsLast(f, new)
    /\ \A p \in DOMAIN new :
          \/ new[p].kind \in {"enter", "exit"} /\ new[p].what = f
          \/ \E k \in DOMAIN body : new[p] = body[k]
    /\ new[Len(new)] = body[Len(body)]
    /\ CreationsInOrder(body) => CreationsInOrder(new)

LEMMA IsEntered ==
  ASSUME NEW f \in STRING, NEW body, IsFunctionBody(body), body # <<>>
  PROVE  EnteredAs(f, body, Entered(f, body))
  <1> DEFINE x == AddExits(f, body)
             w == EnterFunction(f)
             new == <<w>> \o x
             n == Len(x)
  <1>1. WithExits(f, body, x)
    BY ExitsAdded
  <1> HIDE DEF x
  <1>2. /\ x \in Seq(Instruction) /\ n # 0 /\ n \in Nat /\ DOMAIN x = 1 .. n
        /\ HasBlocks(x) /\ ExitsLast(f, x) /\ Keeps(body, x)
        /\ \A p \in 1 .. n : x[p] = ExitFunction(f) \/ \E k \in DOMAIN body : x[p] = body[k]
        /\ x[n] = body[Len(body)]
        /\ CreationsInOrder(body) => CreationsInOrder(x)
    <2>1. x \in Seq(Instruction) /\ n # 0
      BY <1>1 DEF WithExits
    <2>2. n \in Nat /\ DOMAIN x = 1 .. n
      BY <2>1
    <2>. QED  BY <1>1, <2>1, <2>2, Zenon DEF WithExits
  <1>3. /\ w \in Instruction /\ w.kind = "enter" /\ w.to = <<>> /\ w.what = f
        /\ ExitFunction(f).kind = "exit" /\ ExitFunction(f).what = f
    BY WrapperInstructions
  <1> HIDE DEF w
  <1>4. /\ new \in Seq(Instruction) /\ Len(new) = n + 1 /\ new[1] = w
        /\ \A k \in 1 .. n : new[k + 1] = x[k]
        /\ \A p \in 1 .. n + 1 : p = 1 \/ (p - 1 \in 1 .. n /\ new[p] = x[p - 1])
    BY <1>2, <1>3, PrefixElements
  <1>5. IsWoven(x, new, [k \in 1 .. n |-> k + 1])
    BY <1>2, <1>3, PrefixIsWoven DEF Wrappers
  <1>6. ExitsLast(f, new)
    BY <1>2, <1>3, PrefixExits
  <1>0. DOMAIN new = 1 .. n + 1
    BY <1>2, <1>4
  <1> HIDE DEF n, new
  <1>7. HasBlocks(new) /\ (CreationsInOrder(body) => CreationsInOrder(new))
    BY <1>2, <1>4, <1>5, WovenBlocks, WovenOrder DEF n
  <1>8. \A p \in 1 .. n + 1 :
           \/ new[p].kind \in {"enter", "exit"} /\ new[p].what = f
           \/ \E k \in DOMAIN body : new[p] = body[k]
    <2>. TAKE p \in 1 .. n + 1
    <2>1. CASE p = 1
      BY <2>1, <1>3, <1>4
    <2>2. CASE p # 1
      <3>1. p - 1 \in 1 .. n /\ new[p] = x[p - 1]
        BY <2>2, <1>4
      <3>. QED  BY <3>1, <1>2, <1>3
    <2>. QED  BY <2>1, <2>2
  <1>9. EntersAt(f, new, 1)
    <2>1. \A p \in 1 .. n + 1 : new[p].kind = "enter" => p = 1
      <3>. TAKE p \in 1 .. n + 1
      <3>. HAVE new[p].kind = "enter"
      <3>. SUFFICES ASSUME p # 1 PROVE FALSE
        OBVIOUS
      <3>1. p - 1 \in 1 .. n /\ new[p] = x[p - 1]
        BY <1>4
      <3>2. \A k \in DOMAIN body : body[k].kind # "enter"
        BY DEF IsFunctionBody, Wrappers
      <3>. QED  BY <3>1, <3>2, <1>2, <1>3
    <2>2. 1 \in 1 .. n + 1 /\ \A p \in 1 .. n + 1 : ~ (p < 1)
      BY <1>2
    <2>. QED  BY <2>1, <2>2, <1>0, <1>4, Zenon DEF EntersAt, w
  <1>10. new[Len(new)] = body[Len(body)] /\ Len(new) # 0
    <2>1. n \in 1 .. n
      BY <1>2
    <2>. QED  BY <2>1, <1>2, <1>4
  <1>11. Keeps(body, new)
    <2>1. [k \in 1 .. n |-> k + 1] \in [1 .. n -> 1 .. Len(new)]
      BY <1>2, <1>4
    <2>2. Keeps(x, new)
      BY <2>1, <1>5, WovenKeeps, Zenon DEF n
    <2>. QED  BY <2>2, <1>2, KeepsTransitive, Zenon
  <1>12. EnteredAs(f, body, new)
    BY <1>0, <1>6, <1>7, <1>8, <1>9, <1>10, <1>11, Zenon DEF EnteredAs
  <1>. QED  BY <1>12, Zenon DEF Entered, new, w, x

\* What a visitor sees is what the instruction performs.
LEMMA VisitsWhatPerforms ==
  ASSUME NEW instr
  PROVE  /\ Visit(instr) = Performs(instr)
         /\ Visit(instr) \in Operations \cup {NotVisible}
         /\ NotVisible \notin Operations
  <1>1. DOMAIN [pthread_create |-> "Spawn", pthread_mutex_lock |-> "Lock",
                pthread_mutex_unlock |-> "Unlock"]
          = {"pthread_create", "pthread_mutex_lock", "pthread_mutex_unlock"}
    OBVIOUS
  <1>2. CASE instr.kind = "access"
    BY <1>2 DEF Visit, Performs, Operations, NotVisible, IsCall
  <1>3. CASE IsCall(instr)
    <2> DEFINE operationOf == [pthread_create |-> "Spawn", pthread_mutex_lock |-> "Lock",
                               pthread_mutex_unlock |-> "Unlock"]
    <2>1. /\ operationOf["pthread_create"] = "Spawn"
          /\ operationOf["pthread_mutex_lock"] = "Lock"
          /\ operationOf["pthread_mutex_unlock"] = "Unlock"
      OBVIOUS
    <2>2. instr.kind # "access"
      BY <1>3 DEF IsCall
    <2>3. Performs(instr) =
            IF instr.what \in Joins THEN "Join"
            ELSE IF instr.what \in {"pthread_create", "pthread_mutex_lock",
                                    "pthread_mutex_unlock"}
            THEN operationOf[instr.what]
            ELSE NotVisible
      BY <1>1, <1>3, <2>2, Zenon DEF Performs
    <2> HIDE DEF operationOf
    <2>. QED  BY <1>3, <2>1, <2>2, <2>3 DEF Visit, Operations, NotVisible, Joins
  <1>4. CASE instr.kind # "access" /\ ~ IsCall(instr)
    BY <1>4 DEF Visit, Performs, Operations, NotVisible, IsCall
  <1>. QED  BY <1>2, <1>3, <1>4

-----------------------------------------------------------------------------
(***************************************************************************)
(* WrapBefore: the announcements and the registrations.                    *)
(***************************************************************************)
\* What WrapBefore(body, n) puts in front of the k-th instruction.
Registers(body, n, k) == k <= n /\ FollowsSpawn(body, k)

Announces(body, n, k) == k < n /\ Visit(body[k]) # NotVisible

Inserted(body, n, k) ==
    (IF k <= n /\ FollowsSpawn(body, k) THEN <<RegisterThread>> ELSE <<>>)
    \o (IF k < n /\ Visit(body[k]) # NotVisible
        THEN <<PostInstruction(Visit(body[k]))>> ELSE <<>>)

\* How many calls that is.
Inserts(body, n, k) ==
    (IF Registers(body, n, k) THEN 1 ELSE 0) + (IF Announces(body, n, k) THEN 1 ELSE 0)

\* The calls in front of the k-th instruction.
InsertedCalls(body, n, k) ==
    /\ Inserted(body, n, k) \in Seq(Instruction)
    /\ Len(Inserted(body, n, k)) = Inserts(body, n, k)
    /\ Registers(body, n, k) => Inserted(body, n, k)[1] = RegisterThread
    /\ Announces(body, n, k) =>
          Inserted(body, n, k)[Inserts(body, n, k)] = PostInstruction(Visit(body[k]))
    /\ \A i \in 1 .. Inserts(body, n, k) :
          \/ Registers(body, n, k) /\ i = 1
          \/ Announces(body, n, k) /\ i = Inserts(body, n, k)

LEMMA InsertedIs ==
  ASSUME NEW body, NEW n, NEW k \in DOMAIN body
  PROVE  InsertedCalls(body, n, k)
  <1> DEFINE post == PostInstruction(Visit(body[k]))
             reg == RegisterThread
             calls == Inserted(body, n, k)
  <1>1. reg \in Instruction
    <2>1. "Spawn" \in STRING \cup Operations
      BY DEF Operations
    <2>. QED  BY <2>1, WrapperInstructions
  <1>2. Announces(body, n, k) => post \in Instruction
    <2>1. Visit(body[k]) \in Operations \cup {NotVisible}
      BY VisitsWhatPerforms, Zenon
    <2>. QED  BY <2>1, WrapperInstructions DEF Announces
  <1>3. calls = (IF Registers(body, n, k) THEN <<reg>> ELSE <<>>)
                  \o (IF Announces(body, n, k) THEN <<post>> ELSE <<>>)
    BY Zenon DEF Inserted, Registers, Announces
  <1> HIDE DEF post, reg, calls
  <1>4. CASE Registers(body, n, k) /\ Announces(body, n, k)
    <2>1. calls = <<reg>> \o <<post>>
      BY <1>3, <1>4, Zenon
    <2>2. <<post>> \in Seq(Instruction) /\ Len(<<post>>) = 1 /\ <<post>>[1] = post
      BY <1>2, <1>4
    <2>3. calls \in Seq(Instruction) /\ Len(calls) = 2 /\ calls[1] = reg /\ calls[2] = post
      <3> DEFINE body1 == <<post>>
      <3> HIDE DEF body1
      <3>1. body1 \in Seq(Instruction) /\ Len(body1) = 1 /\ body1[1] = post
        BY <2>2, Zenon DEF body1
      <3>2. 1 \in 1 .. Len(body1) /\ 1 + 1 = 2
        BY <3>1
      <3>3. /\ <<reg>> \o body1 \in Seq(Instruction)
            /\ Len(<<reg>> \o body1) = Len(body1) + 1
            /\ (<<reg>> \o body1)[1] = reg
            /\ \A j \in 1 .. Len(body1) : (<<reg>> \o body1)[j + 1] = body1[j]
        BY <3>1, <1>1, PrefixElements, Zenon
      <3>4. (<<reg>> \o body1)[2] = post
        BY <3>1, <3>2, <3>3
      <3>5. calls = <<reg>> \o body1
        BY <2>1, Zenon DEF body1
      <3>. QED  BY <3>1, <3>3, <3>4, <3>5
    <2>4. Inserts(body, n, k) = 2
      BY <1>4 DEF Inserts
    <2>5. \A i \in 1 .. 2 : i = 1 \/ i = 2
      OBVIOUS
    <2>. QED  BY <2>3, <2>4, <2>5, <1>4, Zenon DEF InsertedCalls, post, reg, calls
  <1>5. CASE Registers(body, n, k) /\ ~ Announces(body, n, k)
    <2>1. calls = <<reg>> \o <<>>
      BY <1>3, <1>5, Zenon
    <2>2. calls = <<reg>>
      BY <2>1
    <2>3. calls \in Seq(Instruction) /\ Len(calls) = 1 /\ calls[1] = reg
      BY <2>2, <1>1
    <2>4. Inserts(body, n, k) = 1
      BY <1>5 DEF Inserts
    <2>5. \A i \in 1 .. 1 : i = 1
      OBVIOUS
    <2>. QED  BY <2>3, <2>4, <2>5, <1>5, Zenon DEF InsertedCalls, post, reg, calls
  <1>6. CASE ~ Registers(body, n, k) /\ Announces(body, n, k)
    <2>1. calls = <<>> \o <<post>>
      BY <1>3, <1>6, Zenon
    <2>2. calls = <<post>>
      BY <2>1
    <2>3. calls \in Seq(Instruction) /\ Len(calls) = 1 /\ calls[1] = post
      BY <2>2, <1>2, <1>6
    <2>4. Inserts(body, n, k) = 1
      BY <1>6 DEF Inserts
    <2>5. \A i \in 1 .. 1 : i = 1
      OBVIOUS
    <2>. QED  BY <2>3, <2>4, <2>5, <1>6, Zenon DEF InsertedCalls, post, reg, calls
  <1>7. CASE ~ Registers(body, n, k) /\ ~ Announces(body, n, k)
    <2>1. calls = <<>> \o <<>>
      BY <1>3, <1>7, Zenon
    <2>2. calls \in Seq(Instruction) /\ Len(calls) = 0
      BY <2>1
    <2>4. Inserts(body, n, k) = 0
      BY <1>7 DEF Inserts
    <2>5. \A i \in 1 .. 0 : FALSE
      OBVIOUS
    <2>. QED  BY <2>2, <2>4, <2>5, <1>7, Zenon DEF InsertedCalls, calls
  <1>. QED  BY <1>4, <1>5, <1>6, <1>7

\* Where everything is after WrapBefore(body, n).
IsWrapping(body, n, new, place) ==
    /\ place \in [1 .. Len(body) -> 1 .. Len(new)]
    /\ \A k \in 1 .. Len(body) : new[place[k]] = body[k]
    /\ place[1] = 1 + Inserts(body, n, 1) /\ place[Len(body)] = Len(new)
    /\ \A k \in 2 .. Len(body) : place[k] = place[k - 1] + 1 + Inserts(body, n, k)
    /\ \A k \in 1 .. Len(body) : Registers(body, n, k) =>
          new[place[k] - Inserts(body, n, k)] = RegisterThread
    /\ \A k \in 1 .. Len(body) : Announces(body, n, k) =>
          new[place[k] - 1] = PostInstruction(Visit(body[k]))
    /\ \A p \in 1 .. Len(new) : \E k \in 1 .. Len(body) :
          \/ p = place[k]
          \/ /\ Registers(body, n, k)
             /\ p = place[k] - Inserts(body, n, k) /\ new[p] = RegisterThread
          \/ /\ Announces(body, n, k)
             /\ p = place[k] - 1 /\ new[p] = PostInstruction(Visit(body[k]))

\* What WrapBefore makes of a function, however far it comes.
WrappedAs(body, n, new) ==
    /\ new \in Seq(Instruction) /\ Len(new) # 0
    /\ HasBlocks(new) /\ Keeps(body, new)
    /\ CreationsInOrder(body) => CreationsInOrder(new)
    /\ \E place : IsWrapping(body, n, new, place)

LEMMA IsWrapped ==
  ASSUME NEW body, HasBlocks(body), Len(body) # 0, NEW n
  PROVE  WrappedAs(body, n, WrapBefore(body, n))
  <1> DEFINE m == Len(body)
             pre == [k \in DOMAIN body |-> Inserted(body, n, k)]
             new == WrapBefore(body, n)
  <1>1. body \in Seq(Instruction) /\ m \in Nat /\ m # 0 /\ DOMAIN body = 1 .. m
    BY DEF HasBlocks
  <1>2. \A k \in 1 .. m : pre[k] = Inserted(body, n, k)
    BY <1>1
  <1>3. new = FlattenSeq([k \in DOMAIN body |-> pre[k] \o <<body[k]>>])
    <2>1. [k \in DOMAIN body |-> pre[k] \o <<body[k]>>]
            = [k \in DOMAIN body |-> Inserted(body, n, k) \o <<body[k]>>]
      BY Zenon
    <2>. QED  BY <2>1, Zenon DEF WrapBefore, Inserted
  <1>4. \A k \in 1 .. m :
           /\ pre[k] \in Seq(Instruction) /\ Len(pre[k]) = Inserts(body, n, k)
           /\ Registers(body, n, k) => pre[k][1] = RegisterThread
           /\ Announces(body, n, k) =>
                 pre[k][Inserts(body, n, k)] = PostInstruction(Visit(body[k]))
           /\ \A i \in 1 .. Inserts(body, n, k) :
                 \/ Registers(body, n, k) /\ i = 1
                 \/ Announces(body, n, k) /\ i = Inserts(body, n, k)
    <2>. TAKE k \in 1 .. m
    <2>1. InsertedCalls(body, n, k)
      BY <1>1, InsertedIs, Zenon
    <2>. QED  BY <2>1, <1>2, Zenon DEF InsertedCalls
  <1> HIDE DEF pre, new, m
  <1>5. new \in Seq(Instruction) /\ \E place : IsWeave(body, pre, new, place)
    BY <1>1, <1>3, <1>4, WeaveExists, Zenon DEF m
  <1>6. PICK place : IsWeave(body, pre, new, place)
    BY <1>5
  <1>7. \A k \in 1 .. m :
           /\ Inserts(body, n, k) \in 0 .. 2
           /\ Registers(body, n, k) => Inserts(body, n, k) \in 1 .. 2
           /\ Announces(body, n, k) => Inserts(body, n, k) \in 1 .. 2
    BY DEF Inserts
  <1>8. OnlyWrappers(body, pre)
    <2>1. \A k \in 1 .. m : \A i \in 1 .. Len(pre[k]) :
             pre[k][i].kind \in Wrappers /\ pre[k][i].to = <<>>
      <3>. TAKE k \in 1 .. m
      <3>. TAKE i \in 1 .. Len(pre[k])
      <3>1. i \in 1 .. Inserts(body, n, k)
        BY <1>4
      <3>2. \/ Registers(body, n, k) /\ i = 1
            \/ Announces(body, n, k) /\ i = Inserts(body, n, k)
        BY <3>1, <1>4
      <3>3. pre[k][i] = RegisterThread \/ pre[k][i] = PostInstruction(Visit(body[k]))
        BY <3>2, <1>4, Zenon
      <3>4. /\ RegisterThread.kind = "register" /\ RegisterThread.to = <<>>
            /\ \A what : PostInstruction(what).kind = "post" /\ PostInstruction(what).to = <<>>
        BY DEF RegisterThread, PostInstruction, Instr
      <3>5. "register" \in Wrappers /\ "post" \in Wrappers
        BY DEF Wrappers
      <3>. QED  BY <3>3, <3>4, <3>5, Zenon
    <2>2. \A k \in 1 .. m : body[k].kind = "label" => pre[k] = <<>>
      <3>. TAKE k \in 1 .. m
      <3>. HAVE body[k].kind = "label"
      <3>1. ~ Registers(body, n, k) /\ ~ Announces(body, n, k)
        BY DEF Registers, FollowsSpawn, Announces, Visit, IsCall
      <3>2. Len(pre[k]) = 0 /\ pre[k] \in Seq(Instruction)
        BY <3>1, <1>4 DEF Inserts
      <3>. QED  BY <3>2
    <2>. QED  BY <1>4, <2>1, <2>2, Zenon DEF OnlyWrappers, m
  <1>9. IsWoven(body, new, place)
    BY <1>1, <1>5, <1>6, <1>8, WeaveIsWoven
  <1>10. HasBlocks(new) /\ (CreationsInOrder(body) => CreationsInOrder(new))
    BY <1>1, <1>5, <1>9, WovenBlocks, WovenOrder DEF m
  <1>11. /\ place \in [1 .. m -> 1 .. Len(new)]
         /\ \A k \in 1 .. m : new[place[k]] = body[k]
         /\ place[1] = 1 + Len(pre[1]) /\ place[m] = Len(new)
         /\ \A k \in 2 .. m : place[k] = place[k - 1] + 1 + Len(pre[k])
         /\ \A k \in 1 .. m : \A i \in 1 .. Len(pre[k]) :
               new[place[k] - 1 - Len(pre[k]) + i] = pre[k][i]
         /\ \A p \in 1 .. Len(new) : \E k \in 1 .. m :
               \/ p = place[k]
               \/ \E i \in 1 .. Len(pre[k]) : p = place[k] - 1 - Len(pre[k]) + i
    BY <1>6, Zenon DEF IsWeave, m
  <1>12. DOMAIN new = 1 .. Len(new) /\ Len(new) \in Nat /\ Len(new) # 0 /\ 1 \in 1 .. m
    <2>1. m \in 1 .. m /\ 1 \in 1 .. m
      BY <1>1
    <2>2. Len(new) \in 1 .. Len(new)
      <3>1. place \in [1 .. m -> 1 .. Len(new)] /\ place[m] = Len(new)
        BY <1>11, Zenon
      <3>2. place[m] \in 1 .. Len(new)
        BY <2>1, <3>1, Zenon
      <3>. QED  BY <3>1, <3>2, Zenon
    <2>. QED  BY <1>5, <2>1, <2>2
  <1>13. \A k \in 1 .. m : Registers(body, n, k) =>
            new[place[k] - Inserts(body, n, k)] = RegisterThread
    <2>. TAKE k \in 1 .. m
    <2>. HAVE Registers(body, n, k)
    <2>1. 1 \in 1 .. Len(pre[k]) /\ pre[k][1] = RegisterThread /\ Len(pre[k]) = Inserts(body, n, k)
      BY <1>4, <1>7
    <2>2. new[place[k] - 1 - Len(pre[k]) + 1] = pre[k][1]
      BY <2>1, <1>11, Zenon
    <2>3. place[k] - 1 - Len(pre[k]) + 1 = place[k] - Inserts(body, n, k)
      <3>1. place[k] \in 1 .. Len(new)
        BY <1>11, Zenon
      <3>. QED  BY <3>1, <2>1, <1>7, <1>12
    <2>. QED  BY <2>1, <2>2, <2>3
  <1>14. \A k \in 1 .. m : Announces(body, n, k) =>
            new[place[k] - 1] = PostInstruction(Visit(body[k]))
    <2>. TAKE k \in 1 .. m
    <2>. HAVE Announces(body, n, k)
    <2> DEFINE i == Inserts(body, n, k)
    <2>1. i \in 1 .. Len(pre[k]) /\ pre[k][i] = PostInstruction(Visit(body[k])) /\ Len(pre[k]) = i
      BY <1>4, <1>7
    <2> HIDE DEF i
    <2>2. new[place[k] - 1 - Len(pre[k]) + i] = pre[k][i]
      BY <2>1, <1>11, Zenon
    <2>3. place[k] - 1 - Len(pre[k]) + i = place[k] - 1
      <3>1. place[k] \in 1 .. Len(new)
        BY <1>11, Zenon
      <3>. QED  BY <3>1, <2>1, <1>12
    <2>. QED  BY <2>1, <2>2, <2>3
  <1>15. \A p \in 1 .. Len(new) : \E k \in 1 .. m :
            \/ p = place[k]
            \/ /\ Registers(body, n, k)
               /\ p = place[k] - Inserts(body, n, k) /\ new[p] = RegisterThread
            \/ /\ Announces(body, n, k)
               /\ p = place[k] - 1 /\ new[p] = PostInstruction(Visit(body[k]))
    <2>. TAKE p \in 1 .. Len(new)
    <2>1. PICK k \in 1 .. m :
            \/ p = place[k]
            \/ \E i \in 1 .. Len(pre[k]) : p = place[k] - 1 - Len(pre[k]) + i
      BY <1>11, Zenon
    <2>2. CASE p = place[k]
      BY <2>2
    <2>3. CASE \E i \in 1 .. Len(pre[k]) : p = place[k] - 1 - Len(pre[k]) + i
      <3>1. PICK i \in 1 .. Len(pre[k]) : p = place[k] - 1 - Len(pre[k]) + i
        BY <2>3
      <3>2. Len(pre[k]) = Inserts(body, n, k) /\ place[k] \in 1 .. Len(new)
              /\ Inserts(body, n, k) \in 0 .. 2
        BY <1>4, <1>7, <1>11, Zenon
      <3>3. \/ Registers(body, n, k) /\ i = 1
            \/ Announces(body, n, k) /\ i = Inserts(body, n, k)
        <4>1. i \in 1 .. Inserts(body, n, k)
          BY <3>2
        <4>. QED  BY <1>4, <4>1, Zenon
      <3>4. Registers(body, n, k) /\ i = 1 => p = place[k] - Inserts(body, n, k)
        BY <3>1, <3>2, <1>12
      <3>5. Announces(body, n, k) /\ i = Inserts(body, n, k) => p = place[k] - 1
        BY <3>1, <3>2, <1>12
      <3>. QED  BY <3>3, <3>4, <3>5, <1>13, <1>14, Zenon
    <2>. QED  BY <2>1, <2>2, <2>3
  <1>16. /\ place[1] = 1 + Inserts(body, n, 1)
         /\ \A k \in 2 .. m : place[k] = place[k - 1] + 1 + Inserts(body, n, k)
    <2>1. \A k \in 2 .. m : k \in 1 .. m
      BY <1>1
    <2>. QED  BY <2>1, <1>4, <1>11, <1>12, Zenon
  <1>17. IsWrapping(body, n, new, place)
    BY <1>11, <1>13, <1>14, <1>15, <1>16, Zenon DEF IsWrapping, m
  <1>18. Keeps(body, new)
    <2>1. place \in [1 .. Len(body) -> 1 .. Len(new)]
      BY <1>11, Zenon DEF m
    <2>. QED  BY <2>1, <1>9, WovenKeeps, Zenon
  <1>. QED  BY <1>5, <1>10, <1>12, <1>17, <1>18, Zenon DEF WrappedAs, new

\* The instruction before one, a label left out, is the one that Max finds.
LEMMA SpawnBefore ==
  ASSUME NEW body, HasBlocks(body), NEW k \in DOMAIN body
  PROVE  FollowsSpawn(body, k) <=>
            /\ body[k].kind # "label"
            /\ CreationBefore(body, k) \in DOMAIN body
            /\ Visit(body[CreationBefore(body, k)]) = "Spawn"
  <1> DEFINE n == Len(body)
             before == {j \in 1 .. k - 1 : body[j].kind # "label"}
  <1>1. body \in Seq(Instruction) /\ n \in Nat /\ DOMAIN body = 1 .. n /\ k \in 1 .. n
    BY DEF HasBlocks
  <1>2. FollowsSpawn(body, k) <=>
           body[k].kind # "label" /\ before # {} /\ Visit(body[Max(before)]) = "Spawn"
    BY Zenon DEF FollowsSpawn
  <1>3. before \in SUBSET (1 .. k - 1) /\ k - 1 \in Nat
    BY <1>1
  <1>4. CASE k = 1
    <2>1. before = {}
      BY <1>4
    <2>2. CreationBefore(body, k) \notin DOMAIN body
      BY <1>1, <1>4 DEF CreationBefore
    <2>. QED  BY <1>2, <2>1, <2>2, Zenon
  <1>5. CASE k # 1 /\ body[k - 1].kind # "label"
    <2>1. k - 1 \in before /\ k - 1 \in DOMAIN body
      BY <1>1, <1>5
    <2>2. Max(before) \in before /\ \A j \in before : j <= Max(before)
      <3> HIDE DEF before
      <3>. QED  BY <1>3, <2>1, GreatestNumber
    <2>3. k - 1 <= Max(before) /\ Max(before) \in 1 .. k - 1
      BY <2>1, <2>2, <1>3
    <2>4. Max(before) = k - 1
      BY <2>3, <1>1
    <2>5. CreationBefore(body, k) = k - 1
      BY <1>5, Zenon DEF CreationBefore
    <2>. QED  BY <1>2, <2>1, <2>4, <2>5, Zenon
  <1>6. CASE k # 1 /\ body[k - 1].kind = "label"
    <2>1. k - 1 # 1
      BY <1>1, <1>6 DEF HasBlocks
    <2>2. k - 2 \in 1 .. n /\ (k - 2) + 1 = k - 1
      BY <2>1, <1>1, <1>6
    <2>3. body[k - 2].kind # "label"
      <3>1. ~ EndsBlock(body[k - 2]) => body[(k - 2) + 1].kind # "label"
        BY <2>2, <1>1, Zenon DEF HasBlocks
      <3>2. EndsBlock(body[k - 2])
        BY <3>1, <2>2, <1>6
      <3>. QED  BY <3>2 DEF EndsBlock
    <2>4. k - 2 \in before
      BY <2>2, <2>3, <1>1
    <2>5. Max(before) \in before /\ \A j \in before : j <= Max(before)
      <3> HIDE DEF before
      <3>. QED  BY <1>3, <2>4, GreatestNumber
    <2>6. Max(before) # k - 1
      BY <2>5, <1>6
    <2>7. k - 2 <= Max(before) /\ Max(before) \in 1 .. k - 1
      BY <2>4, <2>5, <1>3
    <2>8. Max(before) = k - 2
      <3> DEFINE last == Max(before)
      <3> HIDE DEF last
      <3>1. last # k - 1 /\ k - 2 <= last /\ last \in 1 .. k - 1
        BY <2>6, <2>7, Zenon DEF last
      <3>2. last = k - 2
        BY <3>1, <1>1
      <3>. QED  BY <3>2, Zenon DEF last
    <2>9. CreationBefore(body, k) = k - 2
      BY <1>6, Zenon DEF CreationBefore
    <2>. QED  BY <1>1, <1>2, <2>2, <2>4, <2>8, <2>9, Zenon
  <1>. QED  BY <1>4, <1>5, <1>6

\* An entered function has calls that enter and exit only.
EntersAndExits(body) ==
    \A k \in DOMAIN body : body[k].kind \in Wrappers => body[k].kind \in {"enter", "exit"}

\* The places in arithmetic.
PlacesOf(body, n, new, place) ==
    \A k \in 1 .. Len(body) :
        /\ Inserts(body, n, k) \in 0 .. 2
        /\ place[k] \in 1 .. Len(new) /\ place[k] \in Nat
        /\ place[k] - Inserts(body, n, k) > 0
        /\ k > 1 => /\ k - 1 \in 1 .. Len(body)
                    /\ place[k - 1] = place[k] - Inserts(body, n, k) - 1
        /\ k = 1 => place[k] = 1 + Inserts(body, n, k)
        /\ k = Len(body) => place[k] = Len(new)

LEMMA WrappingPlaces ==
  ASSUME NEW body, HasBlocks(body), Len(body) # 0, NEW n, NEW new \in Seq(Instruction),
         NEW place, IsWrapping(body, n, new, place)
  PROVE  /\ DOMAIN body = 1 .. Len(body) /\ Len(body) \in Nat
         /\ DOMAIN new = 1 .. Len(new) /\ Len(new) \in Nat
         /\ PlacesOf(body, n, new, place)
  <1>1. body \in Seq(Instruction)
    BY DEF HasBlocks
  <1>2. DOMAIN body = 1 .. Len(body) /\ Len(body) \in Nat
         /\ DOMAIN new = 1 .. Len(new) /\ Len(new) \in Nat
    BY <1>1
  <1>3. ASSUME NEW k \in 1 .. Len(body)
        PROVE  /\ Inserts(body, n, k) \in 0 .. 2
               /\ place[k] \in 1 .. Len(new) /\ place[k] \in Nat
               /\ place[k] - Inserts(body, n, k) > 0
               /\ k > 1 => /\ k - 1 \in 1 .. Len(body)
                           /\ place[k - 1] = place[k] - Inserts(body, n, k) - 1
               /\ k = 1 => place[k] = 1 + Inserts(body, n, k)
               /\ k = Len(body) => place[k] = Len(new)
    <2>1. Inserts(body, n, k) \in 0 .. 2
      BY DEF Inserts
    <2>2. place[k] \in 1 .. Len(new) /\ place[k] \in Nat
      BY <1>2 DEF IsWrapping
    <2>3. k = 1 => place[k] = 1 + Inserts(body, n, k)
      BY DEF IsWrapping
    <2>4. k = Len(body) => place[k] = Len(new)
      BY DEF IsWrapping
    <2>5. ASSUME k > 1
          PROVE  k - 1 \in 1 .. Len(body) /\ place[k - 1] = place[k] - Inserts(body, n, k) - 1
                   /\ place[k - 1] \in 1 .. Len(new)
      <3>1. k \in 2 .. Len(body) /\ k - 1 \in 1 .. Len(body)
        BY <2>5, <1>2
      <3>2. place[k] = place[k - 1] + 1 + Inserts(body, n, k)
        BY <3>1, Zenon DEF IsWrapping
      <3>3. place[k - 1] \in 1 .. Len(new)
        BY <3>1 DEF IsWrapping
      <3>. QED  BY <3>1, <3>2, <3>3, <2>1, <1>2
    <2>6. place[k] - Inserts(body, n, k) > 0
      BY <2>1, <2>2, <2>3, <2>5, <1>2
    <2>. QED  BY <2>1, <2>2, <2>3, <2>4, <2>5, <2>6
  <1>. QED  BY <1>2, <1>3, Zenon DEF PlacesOf

\* Each visible instruction is announced.
LEMMA WrappedAnnounces ==
  ASSUME NEW body, HasBlocks(body), Len(body) # 0, EntersAndExits(body),
         NEW new, WrappedAs(body, Len(body) + 1, new)
  PROVE  AnnouncesEach(new)
  <1> DEFINE n == Len(body) + 1
             m == Len(body)
  <1>1. new \in Seq(Instruction)
    BY DEF WrappedAs
  <1>2. PICK place : IsWrapping(body, n, new, place)
    BY DEF WrappedAs
  <1>3. /\ DOMAIN body = 1 .. m /\ m \in Nat
        /\ DOMAIN new = 1 .. Len(new) /\ Len(new) \in Nat
        /\ \A k \in 1 .. m : /\ Inserts(body, n, k) \in 0 .. 2
                             /\ place[k] \in 1 .. Len(new) /\ place[k] \in Nat
                             /\ place[k] - Inserts(body, n, k) > 0
    BY <1>1, <1>2, WrappingPlaces, Zenon DEF PlacesOf
  <1>4. /\ \A k \in 1 .. m : new[place[k]] = body[k]
        /\ \A k \in 1 .. m : Announces(body, n, k) =>
              new[place[k] - 1] = PostInstruction(Visit(body[k]))
        /\ \A p \in 1 .. Len(new) : \E k \in 1 .. m :
              \/ p = place[k]
              \/ new[p] = RegisterThread
              \/ /\ Announces(body, n, k)
                 /\ p = place[k] - 1 /\ new[p] = PostInstruction(Visit(body[k]))
    BY <1>2, Zenon DEF IsWrapping
  <1>5. \A k \in 1 .. m : /\ Visit(body[k]) = Performs(body[k])
                          /\ Announces(body, n, k) <=> Performs(body[k]) # NotVisible
    <2>. TAKE k \in 1 .. m
    <2>1. Visit(body[k]) = Performs(body[k])
      BY <1>3, VisitsWhatPerforms, Zenon
    <2>2. k < n
      BY <1>3
    <2>. QED  BY <2>1, <2>2, Zenon DEF Announces
  <1>6. \A k \in 1 .. m : body[k].kind # "post"
    BY <1>3 DEF EntersAndExits, Wrappers
  <1>7. /\ RegisterThread.kind = "register"
        /\ \A what : PostInstruction(what).kind = "post" /\ PostInstruction(what).what = what
    BY DEF RegisterThread, PostInstruction, Instr
  <1>8. Performs(RegisterThread) = NotVisible
          /\ \A what : Performs(PostInstruction(what)) = NotVisible
    BY <1>7, WrappersDoNothing DEF Wrappers
  <1> HIDE DEF n, m
  <1>. SUFFICES ASSUME NEW p \in 1 .. Len(new)
                PROVE  /\ Performs(new[p]) # NotVisible =>
                             p > 1 /\ new[p - 1] = PostInstruction(Performs(new[p]))
                       /\ new[p].kind = "post" =>
                             /\ p < Len(new) /\ Performs(new[p + 1]) = new[p].what
                             /\ new[p].what # NotVisible
    BY <1>3, Zenon DEF AnnouncesEach
  <1>9. PICK k \in 1 .. m :
           \/ p = place[k]
           \/ new[p] = RegisterThread
           \/ /\ Announces(body, n, k)
              /\ p = place[k] - 1 /\ new[p] = PostInstruction(Visit(body[k]))
    BY <1>4, Zenon
  <1>10. CASE p = place[k]
    <2>1. new[p] = body[k] /\ new[p].kind # "post"
      BY <1>4, <1>6, <1>10
    <2>2. ASSUME Performs(new[p]) # NotVisible
          PROVE  p > 1 /\ new[p - 1] = PostInstruction(Performs(new[p]))
      <3>1. Announces(body, n, k)
        BY <1>5, <2>1, <2>2
      <3>2. Inserts(body, n, k) \in 1 .. 2
        BY <3>1 DEF Inserts
      <3>3. p > 1
        BY <3>2, <1>3, <1>10
      <3>. QED  BY <3>1, <3>3, <1>4, <1>5, <1>10, <2>1
    <2>. QED  BY <2>1, <2>2
  <1>11. CASE new[p] = RegisterThread
    BY <1>7, <1>8, <1>11
  <1>12. CASE Announces(body, n, k) /\ p = place[k] - 1 /\ new[p] = PostInstruction(Visit(body[k]))
    <2>1. p + 1 = place[k] /\ p < Len(new)
      BY <1>3, <1>12
    <2>2. Performs(new[p + 1]) = Visit(body[k]) /\ Visit(body[k]) # NotVisible
      BY <2>1, <1>4, <1>5, <1>12
    <2>. QED  BY <2>1, <2>2, <1>7, <1>8, <1>12
  <1>. QED  BY <1>9, <1>10, <1>11, <1>12

\* The exits stay right before what leaves the function.
LEMMA WrappedExits ==
  ASSUME NEW body, HasBlocks(body), Len(body) # 0, EntersAndExits(body),
         NEW f, ExitsLast(f, body), EntersAt(f, body, 1),
         NEW n, NEW new, WrappedAs(body, n, new)
  PROVE  ExitsLast(f, new) /\ EntersAt(f, new, 1)
  <1> DEFINE m == Len(body)
  <1>1. new \in Seq(Instruction)
    BY DEF WrappedAs
  <1>2. PICK place : IsWrapping(body, n, new, place)
    BY DEF WrappedAs
  <1>3. /\ DOMAIN body = 1 .. m /\ m \in Nat
        /\ DOMAIN new = 1 .. Len(new) /\ Len(new) \in Nat
        /\ \A k \in 1 .. m :
              /\ Inserts(body, n, k) \in 0 .. 2
              /\ place[k] \in 1 .. Len(new) /\ place[k] \in Nat
              /\ k > 1 => /\ k - 1 \in 1 .. m
                          /\ place[k - 1] = place[k] - Inserts(body, n, k) - 1
              /\ k = 1 => place[k] = 1 + Inserts(body, n, k)
    <2>1. /\ DOMAIN body = 1 .. m /\ m \in Nat
          /\ DOMAIN new = 1 .. Len(new) /\ Len(new) \in Nat
          /\ PlacesOf(body, n, new, place)
      BY <1>1, <1>2, WrappingPlaces, Zenon
    <2>. QED  BY <2>1, Zenon DEF PlacesOf
  <1>4. /\ \A k \in 1 .. m : new[place[k]] = body[k]
        /\ \A p \in 1 .. Len(new) : \E k \in 1 .. m :
              \/ p = place[k]
              \/ new[p] = RegisterThread
              \/ new[p] = PostInstruction(Visit(body[k]))
    BY <1>2, Zenon DEF IsWrapping
  <1>5. /\ RegisterThread.kind = "register"
        /\ \A what : PostInstruction(what).kind = "post"
        /\ ExitFunction(f).kind = "exit" /\ EnterFunction(f).kind = "enter"
    BY DEF RegisterThread, PostInstruction, ExitFunction, EnterFunction, Instr
  <1>6. \A p \in 1 .. Len(new) :
           \/ \E k \in 1 .. m : p = place[k] /\ new[p] = body[k]
           \/ new[p].kind \in {"register", "post"}
    <2>. TAKE p \in 1 .. Len(new)
    <2>1. PICK k \in 1 .. m : \/ p = place[k]
                              \/ new[p] = RegisterThread
                              \/ new[p] = PostInstruction(Visit(body[k]))
      BY <1>4, Zenon
    <2>. QED  BY <2>1, <1>4, <1>5
  <1>7. \A k \in 1 .. m :
           /\ IsExit(body[k]) => k > 1 /\ body[k - 1] = ExitFunction(f)
           /\ body[k].kind = "exit" =>
                 k < m /\ body[k] = ExitFunction(f) /\ IsExit(body[k + 1])
    BY <1>3, Zenon DEF ExitsLast
  <1>8. /\ body[1] = EnterFunction(f)
        /\ \A k \in 1 .. m : body[k].kind = "enter" => k = 1
    BY <1>3, Zenon DEF EntersAt
  <1>9. \A k \in 1 .. m : IsExit(body[k]) =>
           k > 1 /\ k - 1 \in 1 .. m /\ body[k - 1] = ExitFunction(f)
             /\ place[k - 1] = place[k] - 1
    <2>. TAKE k \in 1 .. m
    <2>. HAVE IsExit(body[k])
    <2>1. k > 1 /\ k - 1 \in 1 .. m /\ body[k - 1] = ExitFunction(f)
      BY <1>3, <1>7
    <2>2. Visit(body[k]) = NotVisible
      BY DEF IsExit, Visit, IsCall, Joins
    <2>3. ~ FollowsSpawn(body, k)
      <3>1. CreationBefore(body, k) = k - 1
        BY <2>1, <1>5 DEF CreationBefore
      <3>2. Visit(body[k - 1]) = NotVisible
        BY <2>1, <1>5, WrappersDoNothing DEF Wrappers
      <3>. QED  BY <3>1, <3>2, <1>3, SpawnBefore DEF NotVisible
    <2>4. Inserts(body, n, k) = 0
      BY <2>2, <2>3 DEF Inserts, Registers, Announces
    <2>. QED  BY <2>1, <2>4, <1>3
  <1> HIDE DEF m
  <1>10. ASSUME NEW p \in 1 .. Len(new)
         PROVE  /\ IsExit(new[p]) => p > 1 /\ new[p - 1] = ExitFunction(f)
                /\ new[p].kind = "exit" =>
                      p < Len(new) /\ new[p] = ExitFunction(f) /\ IsExit(new[p + 1])
    <2>1. CASE new[p].kind \in {"register", "post"}
      BY <2>1 DEF IsExit
    <2>2. CASE \E k \in 1 .. m : p = place[k] /\ new[p] = body[k]
      <3>1. PICK k \in 1 .. m : p = place[k] /\ new[p] = body[k]
        BY <2>2
      <3>2. ASSUME IsExit(body[k]) PROVE p > 1 /\ new[p - 1] = ExitFunction(f)
        <4>1. k - 1 \in 1 .. m /\ body[k - 1] = ExitFunction(f) /\ place[k - 1] = p - 1
          BY <3>1, <3>2, <1>9
        <4>2. new[p - 1] = ExitFunction(f) /\ p - 1 \in 1 .. Len(new)
          BY <4>1, <1>3, <1>4
        <4>. QED  BY <4>2, <1>3
      <3>3. ASSUME body[k].kind = "exit"
            PROVE  p < Len(new) /\ body[k] = ExitFunction(f) /\ IsExit(new[p + 1])
        <4>1. k < m /\ body[k] = ExitFunction(f) /\ IsExit(body[k + 1])
          BY <3>3, <1>7
        <4>2. k + 1 \in 1 .. m /\ (k + 1) - 1 = k
          BY <4>1, <1>3
        <4>3. place[k] = place[k + 1] - 1 /\ place[k + 1] \in 1 .. Len(new)
          BY <4>1, <4>2, <1>3, <1>9
        <4>4. p + 1 = place[k + 1] /\ p < Len(new)
          BY <4>3, <3>1, <1>3
        <4>. QED  BY <4>1, <4>2, <4>4, <1>4
      <3>. QED  BY <3>1, <3>2, <3>3
    <2>. QED  BY <2>1, <2>2, <1>6
  <1>11. ExitsLast(f, new)
    BY <1>3, <1>10, Zenon DEF ExitsLast
  <1>12. place[1] = 1 /\ 1 \in 1 .. m
    <2>1. 1 \in 1 .. m
      BY <1>3 DEF m
    <2>2. Visit(body[1]) = NotVisible
      BY <1>5, <1>8, WrappersDoNothing DEF Wrappers
    <2>3. ~ FollowsSpawn(body, 1)
      <3>1. CreationBefore(body, 1) \notin 1 .. m
        BY <1>3 DEF CreationBefore
      <3>. QED  BY <3>1, <2>1, <1>3, SpawnBefore
    <2>4. Inserts(body, n, 1) = 0
      BY <2>2, <2>3 DEF Inserts, Registers, Announces
    <2>. QED  BY <2>1, <2>4, <1>3
  <1>13. EntersAt(f, new, 1)
    <2>1. new[1] = EnterFunction(f) /\ 1 \in 1 .. Len(new)
      BY <1>3, <1>4, <1>8, <1>12
    <2>2. \A p \in 1 .. Len(new) : new[p].kind = "enter" => p = 1
      BY <1>6, <1>8, <1>12
    <2>3. \A p \in 1 .. Len(new) : ~ (p < 1)
      BY <1>3
    <2>. QED  BY <2>1, <2>2, <2>3, <1>3, Zenon DEF EntersAt
  <1>. QED  BY <1>11, <1>13

\* Only calls create threads.
LEMMA SpawnCalls ==
  ASSUME NEW instr, Visit(instr) = "Spawn"
  PROVE  IsCall(instr) /\ instr.what = "pthread_create" /\ instr.kind # "label"
  BY DEF Visit, IsCall, NotVisible, Joins

\* A label is not announced: no visitor knows it.
LEMMA LabelDoesNothing ==
  ASSUME NEW instr, instr.kind = "label"
  PROVE  Visit(instr) = NotVisible
  BY DEF Visit, IsCall

\* What a registration follows is what it followed before.
LEMMA WrappedCreation ==
  ASSUME NEW body, HasBlocks(body), Len(body) # 0, NEW n, NEW new \in Seq(Instruction),
         NEW place, IsWrapping(body, n, new, place),
         NEW k \in 1 .. Len(body), Registers(body, n, k)
  PROVE  /\ CreationBefore(body, k) \in 1 .. Len(body)
         /\ Visit(body[CreationBefore(body, k)]) = "Spawn"
         /\ CreationBefore(new, place[k] - Inserts(body, n, k)) = place[CreationBefore(body, k)]
  <1> DEFINE m == Len(body)
             c == CreationBefore(body, k)
             p == place[k] - Inserts(body, n, k)
  <1>1. /\ DOMAIN body = 1 .. m /\ m \in Nat
        /\ DOMAIN new = 1 .. Len(new) /\ Len(new) \in Nat
        /\ PlacesOf(body, n, new, place)
    BY WrappingPlaces, Zenon
  <1>2. \A j \in 1 .. m :
           /\ Inserts(body, n, j) \in 0 .. 2
           /\ place[j] \in 1 .. Len(new) /\ place[j] \in Nat
           /\ j > 1 => /\ j - 1 \in 1 .. m
                       /\ place[j - 1] = place[j] - Inserts(body, n, j) - 1
    BY <1>1, Zenon DEF PlacesOf
  <1>3. \A j \in 1 .. m : new[place[j]] = body[j]
    BY Zenon DEF IsWrapping
  <1>4. /\ c \in 1 .. m /\ Visit(body[c]) = "Spawn" /\ body[k].kind # "label"
    BY <1>1, SpawnBefore, Zenon DEF Registers
  <1>5. k > 1
    BY <1>1, <1>4 DEF CreationBefore
  <1>6. k - 1 \in 1 .. m /\ place[k - 1] = p - 1 /\ new[p - 1] = body[k - 1]
    BY <1>2, <1>3, <1>5
  <1>7. CASE body[k - 1].kind # "label"
    <2>1. c = k - 1 /\ CreationBefore(new, p) = p - 1
      BY <1>6, <1>7, Zenon DEF CreationBefore
    <2>. QED  BY <2>1, <1>4, <1>6
  <1>8. CASE body[k - 1].kind = "label"
    <2>1. c = k - 2 /\ CreationBefore(new, p) = p - 2
      BY <1>6, <1>8, Zenon DEF CreationBefore
    <2>2. Inserts(body, n, k - 1) = 0
      <3>1. ~ Registers(body, n, k - 1)
        <4>1. ~ FollowsSpawn(body, k - 1)
          BY <1>1, <1>6, <1>8, SpawnBefore, Zenon
        <4>. QED  BY <4>1, Zenon DEF Registers
      <3>2. ~ Announces(body, n, k - 1)
        <4>1. Visit(body[k - 1]) = NotVisible
          BY <1>8, LabelDoesNothing, Zenon
        <4>. QED  BY <4>1, Zenon DEF Announces
      <3>. QED  BY <3>1, <3>2 DEF Inserts
    <2>3. k - 1 > 1 /\ (k - 1) - 1 = k - 2
      BY <2>1, <1>4, <1>1
    <2>4. place[k - 2] = place[k - 1] - 0 - 1 /\ place[k - 1] \in Nat
      BY <2>2, <2>3, <1>2, <1>6
    <2>5. place[c] = p - 2
      <3>1. place[k] \in Nat /\ Inserts(body, n, k) \in 0 .. 2
        BY <1>2
      <3>. QED  BY <2>1, <2>4, <1>6, <3>1
    <2>. QED  BY <2>1, <2>5, <1>4
  <1>. QED  BY <1>7, <1>8

\* A thread that is created is registered by what goes on after its creation.
LEMMA WrappedRegisters ==
  ASSUME NEW body, HasBlocks(body), Len(body) # 0, EntersAndExits(body),
         CreationsInOrder(body), Visit(body[Len(body)]) # "Spawn",
         NEW new, WrappedAs(body, Len(body) + 1, new)
  PROVE  RegistersCreated(new)
  <1> DEFINE n == Len(body) + 1
             m == Len(body)
  <1>1. new \in Seq(Instruction)
    BY DEF WrappedAs
  <1>2. PICK place : IsWrapping(body, n, new, place)
    BY DEF WrappedAs
  <1>3. /\ DOMAIN body = 1 .. m /\ m \in Nat
        /\ DOMAIN new = 1 .. Len(new) /\ Len(new) \in Nat
        /\ PlacesOf(body, n, new, place)
    BY <1>1, <1>2, WrappingPlaces, Zenon
  <1>4. \A j \in 1 .. m :
           /\ Inserts(body, n, j) \in 0 .. 2
           /\ place[j] \in 1 .. Len(new) /\ place[j] \in Nat
           /\ place[j] - Inserts(body, n, j) > 0
           /\ j > 1 => /\ j - 1 \in 1 .. m
                       /\ place[j - 1] = place[j] - Inserts(body, n, j) - 1
    BY <1>3, Zenon DEF PlacesOf
  <1>5. /\ \A k \in 1 .. m : new[place[k]] = body[k]
        /\ \A k \in 1 .. m : Registers(body, n, k) =>
              new[place[k] - Inserts(body, n, k)] = RegisterThread
        /\ \A p \in 1 .. Len(new) : \E k \in 1 .. m :
              \/ p = place[k]
              \/ /\ Registers(body, n, k)
                 /\ p = place[k] - Inserts(body, n, k) /\ new[p] = RegisterThread
              \/ new[p] = PostInstruction(Visit(body[k]))
    BY <1>2, Zenon DEF IsWrapping
  <1>6. /\ RegisterThread.kind = "register"
        /\ \A what : PostInstruction(what).kind = "post"
    BY DEF RegisterThread, PostInstruction, Instr
  <1>7. \A k \in 1 .. m : body[k].kind # "register"
    BY <1>3 DEF EntersAndExits, Wrappers
  <1>8. \A k \in 1 .. m : Registers(body, n, k) =>
           /\ CreationBefore(body, k) \in 1 .. m
           /\ Visit(body[CreationBefore(body, k)]) = "Spawn"
           /\ CreationBefore(new, place[k] - Inserts(body, n, k)) = place[CreationBefore(body, k)]
    <2>. TAKE k \in 1 .. m
    <2>. HAVE Registers(body, n, k)
    <2> HIDE DEF n
    <2>. QED  BY <1>1, <1>2, WrappedCreation
  <1>9. ASSUME NEW p \in 1 .. Len(new), new[p] = RegisterThread
        PROVE  CreationBefore(new, p) \in 1 .. Len(new)
                 /\ Visit(new[CreationBefore(new, p)]) = "Spawn"
    <2>1. PICK k \in 1 .. m :
            \/ p = place[k]
            \/ Registers(body, n, k) /\ p = place[k] - Inserts(body, n, k)
            \/ new[p] = PostInstruction(Visit(body[k]))
      BY <1>5, Zenon
    <2>2. Registers(body, n, k) /\ p = place[k] - Inserts(body, n, k)
      BY <2>1, <1>5, <1>6, <1>7, <1>9
    <2>3. CreationBefore(new, p) = place[CreationBefore(body, k)]
            /\ CreationBefore(body, k) \in 1 .. m
            /\ Visit(body[CreationBefore(body, k)]) = "Spawn"
      BY <2>2, <1>8, Zenon
    <2>. QED  BY <2>3, <1>4, <1>5, Zenon
  <1>10. ASSUME NEW p \in 1 .. Len(new), Visit(new[p]) = "Spawn"
         PROVE  \E j \in {p + 1, p + 2} \cap (1 .. Len(new)) :
                   new[j] = RegisterThread /\ CreationBefore(new, j) = p
    <2>1. PICK k \in 1 .. m : p = place[k] /\ new[p] = body[k]
      <3>1. PICK k \in 1 .. m :
              \/ p = place[k]
              \/ new[p] = RegisterThread
              \/ new[p] = PostInstruction(Visit(body[k]))
        BY <1>5, Zenon
      <3>2. Visit(RegisterThread) = NotVisible
              /\ \A what : Visit(PostInstruction(what)) = NotVisible
        BY <1>6, WrappersDoNothing DEF Wrappers
      <3>. QED  BY <3>1, <3>2, <1>5, <1>10 DEF NotVisible
    <2>2. k # m /\ k + 1 \in 1 .. m
      <3>1. k # m
        BY <2>1, <1>10, Zenon
      <3> HIDE DEF m
      <3>. QED  BY <3>1, <1>3
    <2>3. IsCall(body[k]) /\ body[k].what = "pthread_create" /\ body[k].kind # "label"
      BY <2>1, <1>10, SpawnCalls
    \* The instruction after the creation that is no label.
    <2>4. \E j \in {k + 1, k + 2} \cap (1 .. m) :
             FollowsSpawn(body, j) /\ CreationBefore(body, j) = k
               /\ (j = k + 2 => body[k + 1].kind = "label")
      <3>1. CASE body[k].kind = "call"
        <4>1. ~ EndsBlock(body[k])
          BY <2>3, <3>1 DEF EndsBlock, Leaving
        <4>2. body[k + 1].kind # "label"
          BY <4>1, <1>3, Zenon DEF HasBlocks
        <4>3. CreationBefore(body, k + 1) = k
          <5>1. (k + 1) - 1 = k
            BY <1>3
          <5>. QED  BY <5>1, <2>3, Zenon DEF CreationBefore
        <4>4. FollowsSpawn(body, k + 1)
          BY <4>2, <4>3, <2>1, <2>2, <1>3, <1>10, SpawnBefore
        <4>5. k + 1 # k + 2
          BY <1>3
        <4>6. k + 1 \in {k + 1, k + 2} \cap (1 .. m)
          BY <2>2
        <4>. QED  BY <4>3, <4>4, <4>5, <4>6, Zenon
      <3>2. CASE body[k].kind = "invoke"
        <4>1. k < m
          <5> HIDE DEF m
          <5>. QED  BY <2>2, <1>3
        <4>2. body[k + 1].kind = "label"
          <5>1. body[k + 1] = Label(body[k].to[1])
            BY <4>1, <3>2, <2>1, <1>3, <1>10, Zenon DEF CreationsInOrder
          <5>. QED  BY <5>1 DEF Label, Instr
        <4>3. ~ EndsBlock(body[k + 1])
          BY <4>2 DEF EndsBlock
        <4>4. k + 1 < m /\ body[(k + 1) + 1].kind # "label"
          BY <4>3, <2>2, <1>3, Zenon DEF HasBlocks
        <4>5. (k + 1) + 1 = k + 2 /\ k + 2 \in 1 .. m /\ (k + 2) - 1 = k + 1 /\ (k + 2) - 2 = k
          BY <4>4, <1>3
        <4>6. CreationBefore(body, k + 2) = k
          BY <4>2, <4>5, Zenon DEF CreationBefore
        <4>7. FollowsSpawn(body, k + 2)
          BY <4>4, <4>5, <4>6, <2>1, <1>3, <1>10, SpawnBefore
        <4>. QED  BY <4>2, <4>5, <4>6, <4>7
      <3>. QED  BY <2>3, <3>1, <3>2 DEF IsCall
    <2>5. PICK j \in {k + 1, k + 2} \cap (1 .. m) :
             FollowsSpawn(body, j) /\ CreationBefore(body, j) = k
               /\ (j = k + 2 => body[k + 1].kind = "label")
      BY <2>4
    <2> DEFINE q == place[j] - Inserts(body, n, j)
    <2>6. Registers(body, n, j)
      BY <2>5, <1>3 DEF Registers
    <2>7. new[q] = RegisterThread /\ CreationBefore(new, q) = p
      BY <2>1, <2>5, <2>6, <1>5, <1>8, Zenon
    <2>8. q \in {p + 1, p + 2} \cap (1 .. Len(new))
      <3>1. j > 1 /\ place[j - 1] = q - 1 /\ place[j] \in 1 .. Len(new)
              /\ Inserts(body, n, j) \in 0 .. 2 /\ place[j] \in Nat /\ q > 0
        BY <2>5, <1>3, <1>4
      <3>2. q \in 1 .. Len(new)
        BY <3>1, <1>3
      <3>3. CASE j = k + 1
        <4>1. j - 1 = k
          BY <3>3, <1>3
        <4>. QED  BY <4>1, <3>1, <3>2, <2>1
      <3>4. CASE j = k + 2
        <4>1. j - 1 = k + 1 /\ (k + 1) - 1 = k /\ k + 1 > 1
          BY <3>4, <1>3
        <4>2. Inserts(body, n, k + 1) = 0
          <5>1. body[k + 1].kind = "label"
            BY <2>5, <3>4
          <5>2. ~ FollowsSpawn(body, k + 1) /\ Visit(body[k + 1]) = NotVisible
            BY <5>1 DEF FollowsSpawn, Visit, IsCall
          <5>3. ~ Registers(body, n, k + 1) /\ ~ Announces(body, n, k + 1)
            BY <5>2, Zenon DEF Registers, Announces
          <5>. QED  BY <5>3 DEF Inserts
        <4>3. place[k] = place[k + 1] - 0 - 1 /\ place[k + 1] \in Nat
          BY <4>1, <4>2, <2>2, <1>4
        <4>4. q = p + 2
          <5>1. place[k + 1] = q - 1 /\ q \in Nat
            BY <4>1, <3>1, <3>2, <1>3
          <5> HIDE DEF q
          <5>. QED  BY <5>1, <4>3, <2>1
        <4>. QED  BY <4>4, <3>2
      <3>. QED  BY <2>5, <3>3, <3>4
    <2>. QED  BY <2>7, <2>8, Zenon
  <1>. QED  BY <1>3, <1>9, <1>10, Zenon DEF RegistersCreated

\* What instrumentFunction and the loop over the visible instructions make of a function.
InstrumentedAs(f, body, new) ==
    /\ HasBlocks(new) /\ new \in Seq(Instruction) /\ Len(new) # 0
    /\ Keeps(body, new)
    /\ \A p \in DOMAIN new : new[p].kind # "register_main"
    /\ CreationsInOrder(body) => CreationsInOrder(new)
    /\ Refused(body) = {} => IsInstrumented(f, new, 1)
    /\ Refused(body) = {} /\ CreationsInOrder(body) /\ ~ EndsInSpawn(body) =>
          RegistersCreated(new)

\* What the pass makes of a function (instrumentFunction and wrap), for every function
\* made of blocks: its instructions stay, in their order, with nothing but calls of
\* wrappers between them, and the blocks stay whole.  If no join is refused, the function
\* is entered first and only there, each exit and nothing else comes after a call that
\* leaves it, and each visible instruction and nothing else comes after the call that
\* announces it; if threads are created in order, as well, what goes on after a creation
\* registers the thread.
THEOREM PassInstruments ==
  ASSUME NEW f \in STRING, f \notin Library, NEW body, IsFunctionBody(body), body # <<>>
  PROVE  InstrumentedAs(f, body, Instrumented(f, body))
  <1> DEFINE entered == Entered(f, body)
             n == Min(Refused(entered) \cup {Len(entered) + 1})
             new == WrapBefore(entered, n)
  <1>1. EnteredAs(f, body, entered)
    BY IsEntered
  <1> HIDE DEF entered, n
  <1>2. /\ HasBlocks(entered) /\ Len(entered) # 0
        /\ EntersAt(f, entered, 1)
        /\ ExitsLast(f, entered)
        /\ \A p \in DOMAIN entered :
              \/ entered[p].kind \in {"enter", "exit"} /\ entered[p].what = f
              \/ \E k \in DOMAIN body : entered[p] = body[k]
        /\ entered[Len(entered)] = body[Len(body)]
        /\ CreationsInOrder(body) => CreationsInOrder(entered)
        /\ Keeps(body, entered)
    BY <1>1, Zenon DEF EnteredAs
  <1>3. \A k \in DOMAIN body : body[k].kind \notin Wrappers
    BY Zenon DEF IsFunctionBody
  <1>4. EntersAndExits(entered)
    BY <1>2, <1>3 DEF EntersAndExits, Wrappers
  <1>5. WrappedAs(entered, n, new)
    BY <1>2, <1>4, IsWrapped
  <1>0. Instrumented(f, body) = new
    BY Zenon DEF Instrumented, entered, n
  <1> HIDE DEF new
  <1>6. /\ new \in Seq(Instruction) /\ Len(new) # 0 /\ HasBlocks(new)
        /\ CreationsInOrder(body) => CreationsInOrder(new)
        /\ Keeps(body, new)
    BY <1>2, <1>5, KeepsTransitive, Zenon DEF WrappedAs
  <1>7. \A p \in DOMAIN new : new[p].kind # "register_main"
    <2>1. PICK place : IsWrapping(entered, n, new, place)
      BY <1>5, Zenon DEF WrappedAs
    <2>. TAKE p \in DOMAIN new
    <2>2. p \in 1 .. Len(new)
      BY <1>6
    <2>3. PICK k \in 1 .. Len(entered) :
            \/ new[p] = entered[k]
            \/ new[p] = RegisterThread
            \/ new[p] = PostInstruction(Visit(entered[k]))
      <3>1. PICK k \in 1 .. Len(entered) :
              \/ p = place[k]
              \/ new[p] = RegisterThread
              \/ new[p] = PostInstruction(Visit(entered[k]))
        BY <2>1, <2>2, Zenon DEF IsWrapping
      <3>2. new[place[k]] = entered[k]
        BY <2>1, Zenon DEF IsWrapping
      <3>. QED  BY <3>1, <3>2, Zenon
    <2>4. k \in DOMAIN entered
      BY <1>2 DEF HasBlocks
    <2>5. entered[k].kind # "register_main"
      BY <2>4, <1>4 DEF EntersAndExits, Wrappers
    <2>6. /\ RegisterThread.kind = "register"
          /\ \A what : PostInstruction(what).kind = "post"
      BY DEF RegisterThread, PostInstruction, Instr
    <2>. QED  BY <2>3, <2>5, <2>6
  <1>8. Refused(body) = {} => n = Len(entered) + 1
    <2>. HAVE Refused(body) = {}
    <2>1. \A k \in DOMAIN body : body[k].what # "renamed thread::join"
      BY Zenon DEF Refused
    <2>2. f # "renamed thread::join"
      BY DEF Library, Joins
    <2>3. Refused(entered) = {}
      BY <1>2, <2>1, <2>2, Zenon DEF Refused
    <2>4. Len(entered) + 1 \in Nat
      <3>1. entered \in Seq(Instruction)
        BY <1>2, Zenon DEF HasBlocks
      <3>. QED  BY <3>1
    <2>5. n = Min({Len(entered) + 1})
      BY <2>3, Zenon DEF n
    <2> DEFINE after == Len(entered) + 1
    <2>6. after \in {after} /\ \A y \in {after} : after <= y
      BY <2>4
    <2> HIDE DEF after
    <2>7. Min({after}) = after
      BY <2>6 DEF Min
    <2>. QED  BY <2>5, <2>7, Zenon DEF after
  <1>9. Refused(body) = {} => IsInstrumented(f, new, 1)
    <2>. HAVE Refused(body) = {}
    <2>1. AnnouncesEach(new)
      BY <1>2, <1>4, <1>5, <1>8, WrappedAnnounces
    <2>2. ExitsLast(f, new) /\ EntersAt(f, new, 1)
      BY <1>2, <1>4, <1>5, WrappedExits
    <2>. QED  BY <2>1, <2>2, Zenon DEF IsInstrumented
  <1>10. Refused(body) = {} /\ CreationsInOrder(body) /\ ~ EndsInSpawn(body) =>
            RegistersCreated(new)
    <2>. HAVE Refused(body) = {} /\ CreationsInOrder(body) /\ ~ EndsInSpawn(body)
    <2>1. Visit(entered[Len(entered)]) # "Spawn"
      BY <1>2, Zenon DEF EndsInSpawn, Last
    <2>. QED  BY <2>1, <1>2, <1>4, <1>5, <1>8, WrappedRegisters
  <1>. QED  BY <1>0, <1>6, <1>7, <1>9, <1>10, Zenon DEF InstrumentedAs

\* main, with its registration in front of it.
LEMMA MainIsRegistered ==
  ASSUME NEW f, NEW body \in Seq(Instruction), HasBlocks(body), Len(body) # 0,
         NEW new, new = <<RegisterMainThread>> \o body
  PROVE  /\ HasBlocks(new) /\ new # <<>>
         /\ CreationsInOrder(body) => CreationsInOrder(new)
         /\ IsInstrumented(f, body, 1) => IsInstrumented(f, new, 2)
         /\ RegistersCreated(body) => RegistersCreated(new)
  <1> DEFINE w == RegisterMainThread
             n == Len(body)
  <1>1. w \in Instruction /\ w.kind = "register_main" /\ w.to = <<>>
    <2>1. "Spawn" \in STRING \cup Operations
      BY DEF Operations
    <2>. QED  BY <2>1, WrapperInstructions
  <1>0. n \in Nat /\ n # 0 /\ DOMAIN body = 1 .. n
    OBVIOUS
  <1>2. new = <<w>> \o body
    OBVIOUS
  <1> HIDE DEF w
  <1>3. /\ new \in Seq(Instruction) /\ Len(new) = n + 1 /\ new[1] = w
        /\ \A k \in 1 .. n : new[k + 1] = body[k]
        /\ \A p \in 1 .. n + 1 : p = 1 \/ (p - 1 \in 1 .. n /\ new[p] = body[p - 1])
    BY <1>1, <1>2, PrefixElements
  <1>4. IsWoven(body, new, [k \in 1 .. n |-> k + 1])
    BY <1>1, <1>2, PrefixIsWoven DEF Wrappers
  <1>5. HasBlocks(new) /\ (CreationsInOrder(body) => CreationsInOrder(new))
    BY <1>3, <1>4, WovenBlocks, WovenOrder
  <1> HIDE DEF n
  <1>6. DOMAIN new = 1 .. n + 1 /\ new # <<>>
    BY <1>0, <1>3
  <1>7. Visit(w) = NotVisible /\ Performs(w) = NotVisible
    BY <1>1, WrappersDoNothing DEF Wrappers
  <1>8. ASSUME IsInstrumented(f, body, 1) PROVE IsInstrumented(f, new, 2)
    <2>1. ExitsLast(f, new)
      <3>1. ExitsLast(f, body)
        BY <1>8, Zenon DEF IsInstrumented
      <3>. QED  BY <3>1, <1>1, <1>2, PrefixExits
    <2>2. EntersAt(f, new, 2)
      <3>1. /\ body[1] = EnterFunction(f)
            /\ \A k \in 1 .. n : body[k].kind = "enter" => k = 1
        BY <1>0, <1>8, Zenon DEF IsInstrumented, EntersAt
      <3>2. 2 \in 1 .. n + 1 /\ new[2] = EnterFunction(f)
        <4>1. 1 \in 1 .. n /\ 1 + 1 = 2 /\ 2 \in 1 .. n + 1
          BY <1>0
        <4>. QED  BY <4>1, <3>1, <1>3, Zenon
      <3>3. ASSUME NEW p \in 1 .. n + 1, new[p].kind = "enter" PROVE p = 2
        <4>1. p # 1
          BY <3>3, <1>1, <1>3
        <4>2. p - 1 \in 1 .. n /\ new[p] = body[p - 1]
          BY <4>1, <1>3
        <4>3. p - 1 = 1
          BY <4>2, <3>1, <3>3
        <4>. QED  BY <4>3
      <3>4. ASSUME NEW p \in 1 .. n + 1, p < 2 PROVE new[p] = RegisterMainThread
        <4>1. p = 1
          BY <3>4
        <4>. QED  BY <4>1, <1>3 DEF w
      <3>. QED  BY <3>2, <3>3, <3>4, <1>6, Zenon DEF EntersAt
    <2>3. AnnouncesEach(new)
      <3>1. \A k \in 1 .. n :
               /\ Performs(body[k]) # NotVisible =>
                     k > 1 /\ body[k - 1] = PostInstruction(Performs(body[k]))
               /\ body[k].kind = "post" =>
                     /\ k < n /\ Performs(body[k + 1]) = body[k].what
                     /\ body[k].what # NotVisible
        BY <1>0, <1>8, Zenon DEF IsInstrumented, AnnouncesEach, n
      <3>2. ASSUME NEW p \in 1 .. n + 1
            PROVE  /\ Performs(new[p]) # NotVisible =>
                         p > 1 /\ new[p - 1] = PostInstruction(Performs(new[p]))
                   /\ new[p].kind = "post" =>
                         /\ p < n + 1 /\ Performs(new[p + 1]) = new[p].what
                         /\ new[p].what # NotVisible
        <4>1. CASE p = 1
          BY <4>1, <1>1, <1>3, <1>7
        <4>2. CASE p # 1
          <5>1. p - 1 \in 1 .. n /\ new[p] = body[p - 1] /\ p > 1
            BY <4>2, <1>3
          <5>2. ASSUME Performs(new[p]) # NotVisible
                PROVE  new[p - 1] = PostInstruction(Performs(new[p]))
            <6>1. p - 1 > 1 /\ body[(p - 1) - 1] = PostInstruction(Performs(new[p]))
              BY <5>1, <5>2, <3>1
            <6>2. (p - 1) - 1 \in 1 .. n /\ ((p - 1) - 1) + 1 = p - 1
              BY <6>1, <5>1, <1>0
            <6>. QED  BY <6>1, <6>2, <1>3
          <5>3. ASSUME new[p].kind = "post"
                PROVE  /\ p < n + 1 /\ Performs(new[p + 1]) = new[p].what
                       /\ new[p].what # NotVisible
            <6>1. p - 1 < n /\ Performs(body[(p - 1) + 1]) = new[p].what
                    /\ new[p].what # NotVisible
              BY <5>1, <5>3, <3>1
            <6>2. (p - 1) + 1 = p /\ p \in 1 .. n
              BY <6>1, <5>1, <1>0
            <6>. QED  BY <6>1, <6>2, <1>0, <1>3
          <5>. QED  BY <5>1, <5>2, <5>3
        <4>. QED  BY <4>1, <4>2
      <3>. QED  BY <3>2, <1>3, <1>6, Zenon DEF AnnouncesEach
    <2>. QED  BY <2>1, <2>2, <2>3, Zenon DEF IsInstrumented
  <1>9. ASSUME RegistersCreated(body) PROVE RegistersCreated(new)
    <2>1. \A k \in 1 .. n :
             /\ body[k] = RegisterThread =>
                   CreationBefore(body, k) \in 1 .. n
                   /\ Visit(body[CreationBefore(body, k)]) = "Spawn"
             /\ Visit(body[k]) = "Spawn" =>
                   \E j \in {k + 1, k + 2} \cap (1 .. n) :
                       body[j] = RegisterThread /\ CreationBefore(body, j) = k
      BY <1>0, <1>9, Zenon DEF RegistersCreated
    <2>2. \A k \in 1 .. n : CreationBefore(body, k) \in 1 .. n =>
             CreationBefore(new, k + 1) = CreationBefore(body, k) + 1
      <3>. TAKE k \in 1 .. n
      <3>. HAVE CreationBefore(body, k) \in 1 .. n
      <3>1. k > 1
        BY <1>0 DEF CreationBefore
      <3>2. k - 1 \in 1 .. n /\ (k - 1) + 1 = k /\ (k + 1) - 1 = k
        BY <3>1, <1>0
      <3>3. new[(k + 1) - 1] = body[k - 1]
        BY <3>2, <1>3
      <3>. QED  BY <3>2, <3>3, <1>0 DEF CreationBefore
    <2>3. ASSUME NEW p \in 1 .. n + 1, new[p] = RegisterThread
          PROVE  CreationBefore(new, p) \in 1 .. n + 1
                   /\ Visit(new[CreationBefore(new, p)]) = "Spawn"
      <3>1. p # 1
        <4>1. RegisterThread.kind = "register"
          BY DEF RegisterThread, Instr
        <4>. QED  BY <4>1, <2>3, <1>1, <1>3
      <3>2. p - 1 \in 1 .. n /\ new[p] = body[p - 1] /\ (p - 1) + 1 = p
        BY <3>1, <1>3
      <3>3. CreationBefore(body, p - 1) \in 1 .. n
              /\ Visit(body[CreationBefore(body, p - 1)]) = "Spawn"
        BY <3>2, <2>1, <2>3
      <3>4. CreationBefore(new, p) = CreationBefore(body, p - 1) + 1
        BY <3>2, <3>3, <2>2
      <3>5. new[CreationBefore(body, p - 1) + 1] = body[CreationBefore(body, p - 1)]
        BY <3>3, <1>3
      <3>. QED  BY <3>3, <3>4, <3>5, <1>0
    <2>4. ASSUME NEW p \in 1 .. n + 1, Visit(new[p]) = "Spawn"
          PROVE  \E j \in {p + 1, p + 2} \cap (1 .. n + 1) :
                    new[j] = RegisterThread /\ CreationBefore(new, j) = p
      <3>1. p # 1
        BY <2>4, <1>3, <1>7 DEF NotVisible
      <3>2. p - 1 \in 1 .. n /\ new[p] = body[p - 1] /\ (p - 1) + 1 = p
        BY <3>1, <1>3
      <3>3. PICK j \in {(p - 1) + 1, (p - 1) + 2} \cap (1 .. n) :
                body[j] = RegisterThread /\ CreationBefore(body, j) = p - 1
        BY <3>2, <2>1, <2>4
      <3>4. j + 1 \in {p + 1, p + 2} \cap (1 .. n + 1)
        BY <3>3, <1>0
      <3>5. new[j + 1] = RegisterThread
        BY <3>3, <1>3
      <3>6. CreationBefore(new, j + 1) = p
        BY <3>2, <3>3, <2>2
      <3>. QED  BY <3>4, <3>5, <3>6, Zenon
    <2>. QED  BY <2>3, <2>4, <1>6, Zenon DEF RegistersCreated
  <1>. QED  BY <1>5, <1>6, <1>8, <1>9

-----------------------------------------------------------------------------
(***************************************************************************)
(* The steps of the pass.                                                  *)
(***************************************************************************)
\* A part of PassInv, for one function.
FunctionInv(f) ==
    /\ HasBlocks(program[f])
    /\ f \in Library => program[f] = <<>>
    /\ f \in BlackListed => IsFunctionBody(program[f])
    /\ f \in todo /\ ppc \in {"start", "functions"} => IsFunctionBody(program[f])
    /\ f \notin todo \cup BlackListed /\ ppc \in {"functions", "run"} =>
          program[f] = <<>> \/ IsInstrumented(f, program[f], Entry(f))
    /\ ppc # "run" => \A k \in DOMAIN program[f] : program[f][k] # RegisterMainThread

LEMMA SourceBody ==
  ASSUME NEW body, IsFunctionBody(body)
  PROVE  HasBlocks(body) /\ \A k \in DOMAIN body : body[k] # RegisterMainThread
  <1>1. RegisterMainThread.kind \in Wrappers
    BY DEF Wrappers, RegisterMainThread, Instr
  <1>2. HasBlocks(body) /\ \A k \in DOMAIN body : body[k].kind \notin Wrappers
    BY Zenon DEF IsFunctionBody
  <1>. QED  BY <1>1, <1>2, Zenon

LEMMA PassInitially ==
  ASSUME PassInit
  PROVE  PassInv
  <1>1. /\ "main" \in DOMAIN program /\ program["main"] # <<>>
        /\ DOMAIN program \subseteq STRING
        /\ \A f \in DOMAIN program :
              IsFunctionBody(program[f]) /\ (f \in Library => program[f] = <<>>)
    BY ProgramsAssumption, Zenon DEF PassInit
  <1>2. todo = DOMAIN program /\ ppc = "start"
    BY DEF PassInit
  <1>3. \A f \in DOMAIN program : FunctionInv(f)
    BY <1>1, <1>2, SourceBody DEF FunctionInv
  <1>. QED  BY <1>1, <1>2, <1>3 DEF PassInv, FunctionInv

\* One function is gone through, or main gets its registration.
LEMMA PassStep ==
  ASSUME PassInv, PassNext
  PROVE  PassInv'
  <1>1. /\ "main" \in DOMAIN program /\ program["main"] # <<>>
        /\ DOMAIN program \subseteq STRING
        /\ ppc = "start" => todo = DOMAIN program
        /\ ppc = "run" => todo = {}
    BY DEF PassInv
  <1>2. \A f \in DOMAIN program : FunctionInv(f)
    BY Zenon DEF PassInv, FunctionInv
  <1>3. ASSUME OnStartOfPass PROVE PassInv'
    <2>1. /\ ppc = "start" /\ ppc' \in {"functions", "gave_up", "crashed"}
          /\ program' = program /\ todo' = todo /\ todo = DOMAIN program
      BY <1>1, <1>3 DEF OnStartOfPass
    <2>2. \A f \in DOMAIN program : FunctionInv(f)'
      BY <1>2, <2>1 DEF FunctionInv
    <2>. QED  BY <1>1, <2>1, <2>2 DEF PassInv, FunctionInv
  <1>4. ASSUME RunOnFunction PROVE PassInv'
    <2>1. PICK f \in todo :
            /\ todo' = todo \ {f}
            /\ IF f \in BlackListed \/ program[f] = <<>>
               THEN UNCHANGED <<program, ppc>>
               ELSE IF CallsIndirectly(program[f])
                       \/ (EndsInSpawn(program[f]) /\ Refused(program[f]) = {})
               THEN ppc' = "crashed" /\ UNCHANGED program
               ELSE /\ program' = [program EXCEPT ![f] = Instrumented(f, program[f])]
                    /\ ppc' = IF Refused(program[f]) = {} THEN ppc ELSE "gave_up"
      BY <1>4, Zenon DEF RunOnFunction
    <2>2. ppc = "functions"
      BY <1>4 DEF RunOnFunction
    <2>3. CASE f \in BlackListed \/ program[f] = <<>>
      <3>1. program' = program /\ ppc' = ppc
        BY <2>1, <2>3
      <3>2. \A g \in DOMAIN program : FunctionInv(g)'
        BY <1>2, <2>1, <2>2, <2>3, <3>1 DEF FunctionInv, Entry
      <3>. QED  BY <1>1, <2>2, <3>1, <3>2 DEF PassInv, FunctionInv
    <2>4. CASE ~ (f \in BlackListed \/ program[f] = <<>>)
               /\ (CallsIndirectly(program[f])
                   \/ (EndsInSpawn(program[f]) /\ Refused(program[f]) = {}))
      <3>1. program' = program /\ ppc' = "crashed"
        BY <2>1, <2>4
      <3>2. \A g \in DOMAIN program : FunctionInv(g)'
        BY <1>2, <2>1, <2>2, <3>1 DEF FunctionInv
      <3>. QED  BY <1>1, <2>2, <3>1, <3>2 DEF PassInv, FunctionInv
    <2>5. CASE ~ (f \in BlackListed \/ program[f] = <<>>)
               /\ ~ (CallsIndirectly(program[f])
                     \/ (EndsInSpawn(program[f]) /\ Refused(program[f]) = {}))
      <3>1. /\ program' = [program EXCEPT ![f] = Instrumented(f, program[f])]
            /\ ppc' = IF Refused(program[f]) = {} THEN ppc ELSE "gave_up"
        BY <2>1, <2>5
      <3>2. CASE f \notin DOMAIN program
        <4>1. program' = [g \in DOMAIN program |-> program[g]]
          BY <3>1, <3>2
        <4>2. DOMAIN program' = DOMAIN program /\ \A g \in DOMAIN program : program'[g] = program[g]
          BY <4>1
        <4>3. \A g \in DOMAIN program : FunctionInv(g)'
          BY <1>2, <2>1, <2>2, <3>1, <3>2, <4>2 DEF FunctionInv, Entry
        <4>. QED  BY <1>1, <2>2, <3>1, <4>2, <4>3 DEF PassInv, FunctionInv
      <3>3. CASE f \in DOMAIN program
        <4>1. /\ DOMAIN program' = DOMAIN program
              /\ program'[f] = Instrumented(f, program[f])
              /\ \A g \in DOMAIN program : g # f => program'[g] = program[g]
          BY <3>1, <3>3
        <4>2. InstrumentedAs(f, program[f], program'[f])
          <5>1. f \in STRING /\ f \notin Library /\ IsFunctionBody(program[f]) /\ program[f] # <<>>
            BY <1>1, <1>2, <2>1, <2>2, <2>5, <3>3 DEF FunctionInv
          <5>. QED  BY <5>1, <4>1, PassInstruments, Zenon
        <4>3. /\ HasBlocks(program'[f]) /\ program'[f] # <<>>
              /\ \A k \in DOMAIN program'[f] : program'[f][k] # RegisterMainThread
              /\ Refused(program[f]) = {} => IsInstrumented(f, program'[f], 1)
          <5>1. RegisterMainThread.kind = "register_main"
            BY DEF RegisterMainThread, Instr
          <5>2. Len(<<>>) = 0
            OBVIOUS
          <5>. QED  BY <4>2, <5>1, <5>2, Zenon DEF InstrumentedAs
        <4>4. (ppc' = "functions" /\ Refused(program[f]) = {}) \/ ppc' = "gave_up"
          BY <2>2, <3>1
        <4>5. FunctionInv(f)'
          <5>1. f \notin BlackListed /\ f \notin Library
            BY <1>2, <2>5, <3>3 DEF FunctionInv
          <5>2. f \notin todo'
            BY <2>1
          <5>3. ppc' # "run" /\ Entry(f)' = 1
            BY <4>4 DEF Entry
          <5>4. ppc' = "functions" => IsInstrumented(f, program'[f], Entry(f)')
            BY <4>3, <4>4, <5>3
          <5>. QED  BY <4>3, <5>1, <5>2, <5>3, <5>4, Zenon DEF FunctionInv
        <4>6. ASSUME NEW g \in DOMAIN program, g # f PROVE FunctionInv(g)'
          <5>1. program'[g] = program[g] /\ FunctionInv(g)
            BY <4>1, <4>6, <1>2
          <5>2. g \in todo' <=> g \in todo
            BY <2>1, <4>6
          <5>3. Entry(g)' = Entry(g) /\ ppc' # "run"
            BY <2>2, <4>4 DEF Entry
          <5>. QED  BY <2>2, <4>4, <5>1, <5>2, <5>3 DEF FunctionInv
        <4>7. program'["main"] # <<>>
          BY <1>1, <4>1, <4>3
        <4>8. \A g \in DOMAIN program' : FunctionInv(g)'
          BY <4>1, <4>5, <4>6, Zenon
        <4>9. /\ "main" \in DOMAIN program' /\ program'["main"] # <<>>
              /\ DOMAIN program' \subseteq STRING
              /\ ppc' # "start" /\ ppc' # "run"
          BY <1>1, <4>1, <4>4, <4>7
        <4>. QED  BY <4>8, <4>9, Zenon DEF PassInv, FunctionInv
      <3>. QED  BY <3>2, <3>3
    <2>. QED  BY <2>3, <2>4, <2>5
  <1>5. ASSUME OnEndOfPass PROVE PassInv'
    <2>1. /\ ppc = "functions" /\ todo = {} /\ ppc' = "run" /\ todo' = {}
          /\ program' = [program EXCEPT !["main"] = <<RegisterMainThread>> \o @]
      BY <1>5 DEF OnEndOfPass
    <2>2. /\ DOMAIN program' = DOMAIN program
          /\ program'["main"] = <<RegisterMainThread>> \o program["main"]
          /\ \A g \in DOMAIN program : g # "main" => program'[g] = program[g]
      BY <1>1, <2>1
    <2>3. "main" \notin BlackListed /\ "main" \notin Library
      BY FirstAssumption DEF Library, Joins, Leaving
    <2>4. IsInstrumented("main", program["main"], 1) /\ HasBlocks(program["main"])
      BY <1>1, <1>2, <2>1, <2>3 DEF FunctionInv, Entry
    <2>5. HasBlocks(program'["main"]) /\ program'["main"] # <<>>
            /\ IsInstrumented("main", program'["main"], 2)
      <3>1. program["main"] \in Seq(Instruction) /\ Len(program["main"]) # 0
        <4>1. program["main"] \in Seq(Instruction)
          BY <2>4, Zenon DEF HasBlocks
        <4>. QED  BY <1>1, <4>1
      <3>. QED  BY <2>2, <2>4, <3>1, MainIsRegistered
    <2>6. FunctionInv("main")'
      <3>1. Entry("main")' = 2
        BY <2>1 DEF Entry
      <3>. QED  BY <2>1, <2>3, <2>5, <3>1 DEF FunctionInv
    <2>7. ASSUME NEW g \in DOMAIN program, g # "main" PROVE FunctionInv(g)'
      <3>1. program'[g] = program[g] /\ FunctionInv(g)
        BY <2>2, <2>7, <1>2
      <3>2. Entry(g)' = Entry(g)
        BY <2>7 DEF Entry
      <3>. QED  BY <2>1, <3>1, <3>2 DEF FunctionInv
    <2>8. \A g \in DOMAIN program' : FunctionInv(g)'
      BY <2>2, <2>6, <2>7, Zenon
    <2>9. /\ "main" \in DOMAIN program' /\ program'["main"] # <<>>
          /\ DOMAIN program' \subseteq STRING
          /\ ppc' # "start" /\ todo' = {}
      BY <1>1, <2>1, <2>2, <2>5
    <2>. QED  BY <2>8, <2>9, Zenon DEF PassInv, FunctionInv
  <1>. QED  BY <1>3, <1>4, <1>5 DEF PassNext

\* How threads are created is as in the program, if that creates them in order.
LEMMA CreationInitially ==
  ASSUME PassInit, \A module \in Programs : CreatesInOrder(module)
  PROVE  CreationInv
  BY DEF PassInit, CreationInv

LEMMA CreationStep ==
  ASSUME PassInv, CreationInv, PassNext
  PROVE  CreationInv'
  <1>1. /\ "main" \in DOMAIN program /\ program["main"] # <<>>
        /\ DOMAIN program \subseteq STRING
        /\ ppc = "start" => todo = DOMAIN program
    BY DEF PassInv
  <1>2. \A f \in DOMAIN program : FunctionInv(f)
    BY Zenon DEF PassInv, FunctionInv
  <1>3. \A f \in DOMAIN program :
           /\ CreationsInOrder(program[f])
           /\ f \in BlackListed => \A k \in DOMAIN program[f] : Visit(program[f][k]) # "Spawn"
           /\ f \notin todo \cup BlackListed /\ ppc \in {"functions", "run"} =>
                 RegistersCreated(program[f])
    BY Zenon DEF CreationInv, CreatesInOrder
  <1>4. RegistersCreated(<<>>)
    BY DEF RegistersCreated
  <1>5. ASSUME OnStartOfPass PROVE CreationInv'
    <2>1. /\ ppc = "start" /\ program' = program /\ todo' = todo /\ todo = DOMAIN program
      BY <1>1, <1>5 DEF OnStartOfPass
    <2>. QED  BY <1>3, <2>1 DEF CreationInv, CreatesInOrder
  <1>6. ASSUME RunOnFunction PROVE CreationInv'
    <2>1. PICK f \in todo :
            /\ todo' = todo \ {f}
            /\ IF f \in BlackListed \/ program[f] = <<>>
               THEN UNCHANGED <<program, ppc>>
               ELSE IF CallsIndirectly(program[f])
                       \/ (EndsInSpawn(program[f]) /\ Refused(program[f]) = {})
               THEN ppc' = "crashed" /\ UNCHANGED program
               ELSE /\ program' = [program EXCEPT ![f] = Instrumented(f, program[f])]
                    /\ ppc' = IF Refused(program[f]) = {} THEN ppc ELSE "gave_up"
      BY <1>6, Zenon DEF RunOnFunction
    <2>2. ppc = "functions"
      BY <1>6 DEF RunOnFunction
    <2>3. CASE f \in BlackListed \/ program[f] = <<>>
      <3>1. program' = program /\ ppc' = ppc
        BY <2>1, <2>3
      <3>. QED  BY <1>3, <1>4, <2>1, <2>2, <2>3, <3>1 DEF CreationInv, CreatesInOrder
    <2>4. CASE ~ (f \in BlackListed \/ program[f] = <<>>)
               /\ (CallsIndirectly(program[f])
                   \/ (EndsInSpawn(program[f]) /\ Refused(program[f]) = {}))
      <3>1. program' = program /\ ppc' = "crashed"
        BY <2>1, <2>4
      <3>. QED  BY <1>3, <3>1 DEF CreationInv, CreatesInOrder
    <2>5. CASE ~ (f \in BlackListed \/ program[f] = <<>>)
               /\ ~ (CallsIndirectly(program[f])
                     \/ (EndsInSpawn(program[f]) /\ Refused(program[f]) = {}))
      <3>1. /\ program' = [program EXCEPT ![f] = Instrumented(f, program[f])]
            /\ ppc' = IF Refused(program[f]) = {} THEN ppc ELSE "gave_up"
        BY <2>1, <2>5
      <3>2. CASE f \notin DOMAIN program
        <4>1. program' = [g \in DOMAIN program |-> program[g]]
          BY <3>1, <3>2
        <4>2. DOMAIN program' = DOMAIN program /\ \A g \in DOMAIN program : program'[g] = program[g]
          BY <4>1
        <4>. QED  BY <1>3, <2>1, <2>2, <3>1, <3>2, <4>2 DEF CreationInv, CreatesInOrder
      <3>3. CASE f \in DOMAIN program
        <4>1. /\ DOMAIN program' = DOMAIN program
              /\ program'[f] = Instrumented(f, program[f])
              /\ \A g \in DOMAIN program : g # f => program'[g] = program[g]
          BY <3>1, <3>3
        <4>2. InstrumentedAs(f, program[f], program'[f])
          <5>1. f \in STRING /\ f \notin Library /\ IsFunctionBody(program[f]) /\ program[f] # <<>>
            BY <1>1, <1>2, <2>1, <2>2, <2>5, <3>3 DEF FunctionInv
          <5>. QED  BY <5>1, <4>1, PassInstruments, Zenon
        <4>3. /\ CreationsInOrder(program'[f])
              /\ ppc' = "functions" => RegistersCreated(program'[f])
          <5>1. ppc' = "functions" => Refused(program[f]) = {} /\ ~ EndsInSpawn(program[f])
            BY <2>5, <3>1
          <5>. QED  BY <1>3, <3>3, <4>2, <5>1, Zenon DEF InstrumentedAs
        <4>4. ppc' # "run" /\ f \notin BlackListed
          BY <2>2, <2>5, <3>1
        <4>5. \A g \in DOMAIN program' :
                /\ CreationsInOrder(program'[g])
                /\ g \in BlackListed =>
                      \A k \in DOMAIN program'[g] : Visit(program'[g][k]) # "Spawn"
                /\ g \notin todo' \cup BlackListed /\ ppc' \in {"functions", "run"} =>
                      RegistersCreated(program'[g])
          <5>. TAKE g \in DOMAIN program'
          <5>1. CASE g = f
            BY <4>3, <4>4, <5>1
          <5>2. CASE g # f
            BY <1>3, <2>1, <2>2, <4>1, <4>4, <5>2
          <5>. QED  BY <5>1, <5>2
        <4>. QED  BY <4>5 DEF CreationInv, CreatesInOrder
      <3>. QED  BY <3>2, <3>3
    <2>. QED  BY <2>3, <2>4, <2>5
  <1>7. ASSUME OnEndOfPass PROVE CreationInv'
    <2>1. /\ ppc = "functions" /\ todo = {} /\ ppc' = "run" /\ todo' = {}
          /\ program' = [program EXCEPT !["main"] = <<RegisterMainThread>> \o @]
      BY <1>7 DEF OnEndOfPass
    <2>2. /\ DOMAIN program' = DOMAIN program
          /\ program'["main"] = <<RegisterMainThread>> \o program["main"]
          /\ \A g \in DOMAIN program : g # "main" => program'[g] = program[g]
      BY <1>1, <2>1
    <2>3. "main" \notin BlackListed
      BY FirstAssumption
    <2>4. CreationsInOrder(program'["main"]) /\ RegistersCreated(program'["main"])
      <3>1. HasBlocks(program["main"])
        BY <1>1, <1>2 DEF FunctionInv
      <3>2. program["main"] \in Seq(Instruction) /\ Len(program["main"]) # 0
        <4>1. program["main"] \in Seq(Instruction)
          BY <3>1, Zenon DEF HasBlocks
        <4>. QED  BY <1>1, <4>1
      <3>3. CreationsInOrder(program["main"]) /\ RegistersCreated(program["main"])
        BY <1>1, <1>3, <2>1, <2>3
      <3>. QED  BY <2>2, <3>1, <3>2, <3>3, MainIsRegistered
    <2>5. \A g \in DOMAIN program' :
            /\ CreationsInOrder(program'[g])
            /\ g \in BlackListed => \A k \in DOMAIN program'[g] : Visit(program'[g][k]) # "Spawn"
            /\ g \notin todo' \cup BlackListed /\ ppc' \in {"functions", "run"} =>
                  RegistersCreated(program'[g])
      <3>. TAKE g \in DOMAIN program'
      <3>1. CASE g = "main"
        BY <2>3, <2>4, <3>1
      <3>2. CASE g # "main"
        BY <1>3, <2>1, <2>2, <3>2
      <3>. QED  BY <3>1, <3>2
    <2>. QED  BY <2>5 DEF CreationInv, CreatesInOrder
  <1>. QED  BY <1>5, <1>6, <1>7 DEF PassNext

-----------------------------------------------------------------------------
(***************************************************************************)
(* Counting the activations of functions that the pass goes through.       *)
(***************************************************************************)
Ranked(fs, d) == Cardinality({e \in 1 .. d : fs[e].fn \notin BlackListed})

LEMMA RankedNext ==
  ASSUME NEW fs, NEW d \in Nat
  PROVE  /\ Ranked(fs, 0) = 0 /\ Ranked(fs, d) \in Nat
         /\ Ranked(fs, d + 1) = Ranked(fs, d) + (IF fs[d + 1].fn \in BlackListed THEN 0 ELSE 1)
  <1> DEFINE S(n) == {e \in 1 .. n : fs[e].fn \notin BlackListed}
  <1>1. \A n \in Nat : IsFiniteSet(S(n))
    <2>. TAKE n \in Nat
    <2>1. IsFiniteSet(1 .. n) /\ S(n) \subseteq 1 .. n
      BY FS_Interval
    <2>. QED  BY <2>1, FS_Subset
  <1>2. S(0) = {}
    OBVIOUS
  <1>3. Cardinality(S(0)) = 0 /\ Cardinality(S(d)) \in Nat
    <2>1. IsFiniteSet(S(d))
      BY <1>1
    <2>. QED  BY <1>2, <2>1, FS_EmptySet, FS_CardinalityType
  <1>4. Cardinality(S(d + 1)) = Cardinality(S(d)) + (IF fs[d + 1].fn \in BlackListed THEN 0 ELSE 1)
    <2>1. CASE fs[d + 1].fn \in BlackListed
      <3>1. S(d + 1) = S(d)
        BY <2>1
      <3>. QED  BY <2>1, <3>1, <1>3
    <2>2. CASE fs[d + 1].fn \notin BlackListed
      <3>1. S(d + 1) = S(d) \cup {d + 1}
        BY <2>2
      <3>2. d + 1 \notin S(d) /\ IsFiniteSet(S(d))
        BY <1>1
      <3> HIDE DEF S
      <3>3. Cardinality(S(d) \cup {d + 1}) = Cardinality(S(d)) + 1
        BY <3>2, FS_AddElement
      <3>. QED  BY <2>2, <3>1, <3>3
    <2>. QED  BY <2>1, <2>2
  <1>. QED  BY <1>3, <1>4 DEF Ranked

LEMMA RankedGrows ==
  ASSUME NEW fs, NEW d \in Nat, NEW c \in 0 .. d
  PROVE  Ranked(fs, c) <= Ranked(fs, d) /\ Ranked(fs, c) \in Nat /\ Ranked(fs, d) \in Nat
  <1> DEFINE S(n) == {e \in 1 .. n : fs[e].fn \notin BlackListed}
  <1>1. IsFiniteSet(S(d))
    <2>1. IsFiniteSet(1 .. d) /\ S(d) \subseteq 1 .. d
      BY FS_Interval
    <2>. QED  BY <2>1, FS_Subset
  <1>2. S(c) \subseteq S(d) /\ c \in Nat
    OBVIOUS
  <1>3. Cardinality(S(c)) <= Cardinality(S(d))
    <2> HIDE DEF S
    <2>. QED  BY <1>1, <1>2, FS_Subset
  <1>4. Ranked(fs, c) \in Nat /\ Ranked(fs, d) \in Nat
    BY <1>2, RankedNext
  <1>. QED  BY <1>3, <1>4 DEF Ranked

\* An activation counts itself.
LEMMA RankedCounts ==
  ASSUME NEW fs, NEW d \in Nat, NEW c \in 1 .. d, fs[c].fn \notin BlackListed
  PROVE  Ranked(fs, c) \in 1 .. Ranked(fs, d) /\ Ranked(fs, c) = Ranked(fs, c - 1) + 1
  <1>1. c - 1 \in Nat /\ (c - 1) + 1 = c
    OBVIOUS
  <1>2. Ranked(fs, c - 1) \in Nat
          /\ Ranked(fs, (c - 1) + 1)
               = Ranked(fs, c - 1) + (IF fs[(c - 1) + 1].fn \in BlackListed THEN 0 ELSE 1)
    BY <1>1, RankedNext
  <1>3. Ranked(fs, c) = Ranked(fs, c - 1) + 1
    BY <1>1, <1>2
  <1>4. Ranked(fs, c) <= Ranked(fs, d) /\ Ranked(fs, d) \in Nat
    BY RankedGrows
  <1>. QED  BY <1>2, <1>3, <1>4

LEMMA RankedSame ==
  ASSUME NEW fs, NEW gs, NEW d \in Nat, \A e \in 1 .. d : fs[e].fn = gs[e].fn
  PROVE  Ranked(fs, d) = Ranked(gs, d)
  <1>1. {e \in 1 .. d : fs[e].fn \notin BlackListed} = {e \in 1 .. d : gs[e].fn \notin BlackListed}
    OBVIOUS
  <1>. QED  BY <1>1, Zenon DEF Ranked
-----------------------------------------------------------------------------
(***************************************************************************)
(* The stack when an activation goes on.                                   *)
(***************************************************************************)
Frames == [fn : DOMAIN program, at : Nat]

\* The m-th activation is on top, and goes on at q.
Resumed(m, q) == Append(SubSeq(frames, 1, m - 1), Frame(frames[m].fn, q))

LEMMA ResumedFrames ==
  ASSUME frames \in Seq(Frames), NEW m \in 1 .. Len(frames), NEW q \in Nat
  PROVE  /\ Resumed(m, q) \in Seq(Frames) /\ Len(Resumed(m, q)) = m
         /\ \A d \in 1 .. m - 1 : Resumed(m, q)[d] = frames[d]
         /\ Resumed(m, q)[m] = Frame(frames[m].fn, q)
         /\ \A d \in 1 .. m : Resumed(m, q)[d].fn = frames[d].fn
  <1> DEFINE below == SubSeq(frames, 1, m - 1)
             top == Frame(frames[m].fn, q)
  <1>1. m \in Nat /\ m - 1 \in Nat
    OBVIOUS
  <1>2. below \in Seq(Frames) /\ Len(below) = m - 1 /\ \A d \in 1 .. m - 1 : below[d] = frames[d]
    OBVIOUS
  <1>3. top \in Frames /\ top.fn = frames[m].fn
    <2>1. frames[m] \in Frames
      OBVIOUS
    <2>. QED  BY <2>1 DEF Frame, Frames
  <1> HIDE DEF below, top
  <1>4. /\ Append(below, top) \in Seq(Frames) /\ Len(Append(below, top)) = m
        /\ \A d \in 1 .. m - 1 : Append(below, top)[d] = below[d]
        /\ Append(below, top)[m] = top
    BY <1>1, <1>2, <1>3
  <1>5. Resumed(m, q) = Append(below, top)
    BY Zenon DEF Resumed, below, top
  <1>6. \A d \in 1 .. m : d = m \/ d \in 1 .. m - 1
    BY <1>1
  <1>. QED  BY <1>2, <1>3, <1>4, <1>5, <1>6, Zenon DEF top

\* The instruction on top has been executed, or a function on top of it has returned.
LEMMA AdvancedIsResumed ==
  ASSUME frames \in Seq(Frames), frames # <<>>
  PROVE  /\ Advanced(frames) = Resumed(Len(frames), Following(Top.fn, Top.at))
         /\ Len(frames) > 1 =>
               Advanced(Front(frames))
                 = Resumed(Len(frames) - 1,
                           Following(frames[Len(frames) - 1].fn, frames[Len(frames) - 1].at))
  <1> DEFINE n == Len(frames)
  <1>1. n \in Nat /\ n # 0
    OBVIOUS
  <1>2. Advanced(frames) = Resumed(n, Following(Top.fn, Top.at))
    BY Zenon DEF Advanced, Resumed, Top, Front, Last
  <1>3. ASSUME n > 1
        PROVE  Advanced(Front(frames))
                 = Resumed(n - 1, Following(frames[n - 1].fn, frames[n - 1].at))
    <2> DEFINE below == Front(frames)
    <2>1. below = SubSeq(frames, 1, n - 1)
      BY Zenon DEF Front
    <2>2. Len(below) = n - 1 /\ below[n - 1] = frames[n - 1]
      BY <1>1, <1>3, <2>1
    <2>3. Last(below) = frames[n - 1]
      BY <2>2, Zenon DEF Last
    <2>4. Front(below) = SubSeq(frames, 1, (n - 1) - 1)
      <3>1. Front(below) = SubSeq(below, 1, (n - 1) - 1)
        BY <2>2, Zenon DEF Front
      <3>2. SubSeq(SubSeq(frames, 1, n - 1), 1, (n - 1) - 1) = SubSeq(frames, 1, (n - 1) - 1)
        BY <1>1, <1>3
      <3>. QED  BY <2>1, <3>1, <3>2, Zenon
    <2> HIDE DEF below
    <2>5. Advanced(below) = Append(Front(below), Frame(Last(below).fn,
                                                       Following(Last(below).fn, Last(below).at)))
      BY Zenon DEF Advanced
    <2>. QED  BY <2>3, <2>4, <2>5, Zenon DEF Resumed, below
  <1>. QED  BY <1>2, <1>3

-----------------------------------------------------------------------------
(***************************************************************************)
(* Where an activation goes on.                                            *)
(***************************************************************************)
Over == ppc \in {"run", "gave_up"}

\* At k the activation has entered f, and is not leaving it.
InsideAt(f, k) ==
    /\ f \notin BlackListed
    /\ k > Entry(f) /\ ~ IsExit(program[f][k])

\* Where an activation of f may go on, having nothing to perform yet.
Landed(f, k) ==
    /\ k \in DOMAIN program[f]
    /\ f \notin BlackListed /\ ppc = "run" =>
          InsideAt(f, k) /\ Performs(program[f][k]) = NotVisible

\* What the pass has made of a function that has a body.
LEMMA BodyIs ==
  ASSUME PassInv, Over, NEW f \in DOMAIN program, NEW k \in DOMAIN program[f]
  PROVE  /\ HasBlocks(program[f]) /\ program[f] \in Seq(Instruction)
         /\ DOMAIN program[f] = 1 .. Len(program[f]) /\ Len(program[f]) \in Nat
         /\ k \in Nat /\ k >= 1 /\ program[f] # <<>> /\ f \notin Library
         /\ Entry(f) \in {1, 2}
         /\ f \in BlackListed => program[f][k].kind \notin Wrappers
         /\ f \notin BlackListed /\ ppc = "run" => IsInstrumented(f, program[f], Entry(f))
  <1>1. /\ HasBlocks(program[f])
        /\ f \in Library => program[f] = <<>>
        /\ f \in BlackListed => IsFunctionBody(program[f])
        /\ f \notin todo \cup BlackListed /\ ppc \in {"functions", "run"} =>
              program[f] = <<>> \/ IsInstrumented(f, program[f], Entry(f))
        /\ ppc = "run" => todo = {}
    BY Zenon DEF PassInv
  <1>2. program[f] \in Seq(Instruction)
    BY <1>1, Zenon DEF HasBlocks
  <1>3. DOMAIN program[f] = 1 .. Len(program[f]) /\ Len(program[f]) \in Nat
         /\ k \in Nat /\ k >= 1 /\ program[f] # <<>>
    <2>1. DOMAIN program[f] = 1 .. Len(program[f]) /\ Len(program[f]) \in Nat
      BY <1>2
    <2>2. k \in 1 .. Len(program[f])
      BY <2>1
    <2>. QED  BY <2>1, <2>2
  <1>4. f \in BlackListed => program[f][k].kind \notin Wrappers
    BY <1>1, Zenon DEF IsFunctionBody
  <1>5. Entry(f) \in {1, 2}
    BY DEF Entry
  <1>. QED  BY <1>1, <1>2, <1>3, <1>4, <1>5

\* The first instruction of a function performs nothing and leaves nothing.
LEMMA StartsOutside ==
  ASSUME PassInv, Over, NEW f \in DOMAIN program, program[f] # <<>>
  PROVE  /\ 1 \in DOMAIN program[f] /\ ~ InsideAt(f, 1)
         /\ f \notin BlackListed /\ ppc = "run" =>
               Performs(program[f][1]) = NotVisible /\ ~ IsExit(program[f][1])
  <1>1. 1 \in DOMAIN program[f]
    <2>1. program[f] \in Seq(Instruction)
      BY Zenon DEF PassInv, HasBlocks
    <2>. QED  BY <2>1
  <1>2. Entry(f) \in {1, 2}
    BY DEF Entry
  <1>3. ASSUME f \notin BlackListed, ppc = "run"
        PROVE  Performs(program[f][1]) = NotVisible /\ ~ IsExit(program[f][1])
    <2>1. IsInstrumented(f, program[f], Entry(f))
      BY <1>1, <1>3, BodyIs, Zenon
    <2>. QED  BY <1>1, <2>1 DEF IsInstrumented, AnnouncesEach, ExitsLast
  <1>. QED  BY <1>1, <1>2, <1>3 DEF InsideAt

\* A jump lands after a label, where nothing is performed and nothing left.
LEMMA AfterJump ==
  ASSUME PassInv, Over, NEW f \in DOMAIN program, NEW k \in DOMAIN program[f],
         NEW i \in DOMAIN program[f][k].to
  PROVE  /\ Landed(f, AfterLabel(f, program[f][k].to[i]))
         /\ AfterLabel(f, program[f][k].to[i]) - 1 \in DOMAIN program[f]
         /\ program[f][AfterLabel(f, program[f][k].to[i]) - 1] = Label(program[f][k].to[i])
         /\ program[f][AfterLabel(f, program[f][k].to[i])].kind # "label"
  <1> DEFINE body == program[f]
             l == body[k].to[i]
             q == AfterLabel(f, l)
  <1>1. /\ HasBlocks(body) /\ DOMAIN body = 1 .. Len(body) /\ Len(body) \in Nat
        /\ Entry(f) \in {1, 2}
        /\ f \notin BlackListed /\ ppc = "run" => IsInstrumented(f, body, Entry(f))
    BY BodyIs, Zenon
  <1>2. \E j \in DOMAIN body : body[j] = Label(l)
    BY <1>1, Zenon DEF HasBlocks
  <1> DEFINE j == CHOOSE j \in DOMAIN body : body[j] = Label(l)
  <1>3. j \in 1 .. Len(body) /\ body[j] = Label(l) /\ q = 1 + j
    <2>1. j \in DOMAIN body /\ body[j] = Label(l)
      BY <1>2, Zenon
    <2>2. q = 1 + j
      BY Zenon DEF AfterLabel
    <2>. QED  BY <1>1, <2>1, <2>2
  <1> HIDE DEF q, j, l
  <1>4. body[j].kind = "label" /\ ~ EndsBlock(body[j])
    BY <1>3 DEF Label, Instr, EndsBlock
  <1>5. j < Len(body) /\ body[j + 1].kind # "label"
    BY <1>1, <1>3, <1>4, Zenon DEF HasBlocks
  <1>6. q \in 1 .. Len(body) /\ q - 1 = j /\ j + 1 = q
    BY <1>1, <1>3, <1>5
  <1>7. ASSUME f \notin BlackListed, ppc = "run"
        PROVE  InsideAt(f, q) /\ Performs(body[q]) = NotVisible
    <2>1. AnnouncesEach(body) /\ EntersAt(f, body, Entry(f)) /\ ExitsLast(f, body)
      BY <1>1, <1>7, Zenon DEF IsInstrumented
    <2>2. body[q - 1].kind = "label"
      BY <1>4, <1>6
    <2>3. Performs(body[q]) = NotVisible
      <3>1. Performs(body[q]) # NotVisible => body[q - 1] = PostInstruction(Performs(body[q]))
        BY <1>1, <1>6, <2>1, Zenon DEF AnnouncesEach
      <3>. QED  BY <2>2, <3>1 DEF PostInstruction, Instr
    <2>4. ~ IsExit(body[q])
      <3>1. IsExit(body[q]) => body[q - 1] = ExitFunction(f)
        BY <1>1, <1>6, <2>1, Zenon DEF ExitsLast
      <3>. QED  BY <2>2, <3>1 DEF ExitFunction, Instr
    <2>5. q > Entry(f)
      <3>1. body[Entry(f)] = EnterFunction(f)
        BY <2>1, Zenon DEF EntersAt
      <3>2. j < Entry(f) => body[j] = RegisterMainThread
        BY <1>1, <1>3, <2>1, Zenon DEF EntersAt
      <3>3. j # Entry(f) /\ ~ (j < Entry(f))
        <4>1. EnterFunction(f).kind = "enter" /\ RegisterMainThread.kind = "register_main"
          BY DEF EnterFunction, RegisterMainThread, Instr
        <4>. QED  BY <1>4, <3>1, <3>2, <4>1
      <3>. QED  BY <1>1, <1>3, <1>6, <3>3
    <2>. QED  BY <1>7, <2>3, <2>4, <2>5 DEF InsideAt
  <1>8. Landed(f, q)
    BY <1>1, <1>6, <1>7, Zenon DEF Landed
  <1>. QED  BY <1>1, <1>3, <1>5, <1>6, <1>8, Zenon DEF q, l

\* So does an instruction that has been executed, other than an announcement and an exit.
LEMMA AfterInstruction ==
  ASSUME PassInv, Over, NEW f \in DOMAIN program, NEW k \in DOMAIN program[f],
         ~ EndsBlock(program[f][k]), program[f][k].kind \notin {"post", "exit"},
         f \notin BlackListed /\ ppc = "run" => k >= Entry(f)
  PROVE  Landed(f, k + 1) /\ program[f][k + 1].kind # "label"
  <1> DEFINE body == program[f]
  <1>1. /\ HasBlocks(body) /\ DOMAIN body = 1 .. Len(body) /\ Len(body) \in Nat
        /\ Entry(f) \in {1, 2} /\ k \in Nat
        /\ f \notin BlackListed /\ ppc = "run" => IsInstrumented(f, body, Entry(f))
    BY BodyIs, Zenon
  <1>2. k < Len(body) /\ body[k + 1].kind # "label"
    BY <1>1, Zenon DEF HasBlocks
  <1>3. k + 1 \in 1 .. Len(body) /\ (k + 1) - 1 = k
    BY <1>1, <1>2
  <1>4. ASSUME f \notin BlackListed, ppc = "run"
        PROVE  InsideAt(f, k + 1) /\ Performs(body[k + 1]) = NotVisible
    <2>1. AnnouncesEach(body) /\ ExitsLast(f, body)
      BY <1>1, <1>4, Zenon DEF IsInstrumented
    <2>2. Performs(body[k + 1]) = NotVisible
      <3>1. Performs(body[k + 1]) # NotVisible =>
               body[(k + 1) - 1] = PostInstruction(Performs(body[k + 1]))
        BY <1>1, <1>3, <2>1, Zenon DEF AnnouncesEach
      <3>. QED  BY <1>3, <3>1 DEF PostInstruction, Instr
    <2>3. ~ IsExit(body[k + 1])
      <3>1. IsExit(body[k + 1]) => body[(k + 1) - 1] = ExitFunction(f)
        BY <1>1, <1>3, <2>1, Zenon DEF ExitsLast
      <3>. QED  BY <1>3, <3>1 DEF ExitFunction, Instr
    <2>. QED  BY <1>1, <1>4, <2>2, <2>3 DEF InsideAt
  <1>. QED  BY <1>1, <1>2, <1>3, <1>4, Zenon DEF Landed

\* An instruction of the program is inside.
LEMMA ProgramIsInside ==
  ASSUME PassInv, Over, NEW f \in DOMAIN program, NEW k \in DOMAIN program[f],
         f \notin BlackListed, ppc = "run",
         program[f][k].kind \notin {"enter", "register_main"}
  PROVE  k > Entry(f)
  <1> DEFINE body == program[f]
  <1>1. /\ DOMAIN body = 1 .. Len(body) /\ Len(body) \in Nat
        /\ Entry(f) \in {1, 2} /\ k \in Nat
        /\ IsInstrumented(f, body, Entry(f))
    BY BodyIs, Zenon
  <1>2. /\ body[Entry(f)] = EnterFunction(f)
        /\ k < Entry(f) => body[k] = RegisterMainThread
    BY <1>1, Zenon DEF IsInstrumented, EntersAt
  <1>3. EnterFunction(f).kind = "enter" /\ RegisterMainThread.kind = "register_main"
    BY DEF EnterFunction, RegisterMainThread, Instr
  <1>. QED  BY <1>1, <1>2, <1>3

\* Where an instruction of the program goes on.
LEMMA GoesOn ==
  ASSUME PassInv, Over, NEW f \in DOMAIN program, NEW k \in DOMAIN program[f],
         \/ program[f][k].kind \in {"access", "branch"}
         \/ IsCall(program[f][k]) /\ program[f][k].what \notin Leaving
  PROVE  /\ Landed(f, Following(f, k)) /\ program[f][Following(f, k)].kind # "label"
         /\ ~ IsExit(program[f][k])
         /\ f \notin BlackListed /\ ppc = "run" => InsideAt(f, k)
  <1> DEFINE body == program[f]
  <1>1. HasBlocks(body)
    BY BodyIs, Zenon
  <1>2. ~ IsExit(body[k])
    BY DEF IsExit, IsCall, Leaving
  <1>3. f \notin BlackListed /\ ppc = "run" => k > Entry(f)
    BY ProgramIsInside DEF IsCall
  <1>4. CASE body[k].kind \in {"invoke", "branch"}
    <2>1. 1 \in DOMAIN body[k].to
      <3>1. Len(body[k].to) \in {1, 2}
        BY <1>1, <1>4 DEF HasBlocks
      <3>2. body[k].to \in Seq(STRING)
        <4>1. body \in Seq(Instruction) /\ k \in DOMAIN body
          BY <1>1 DEF HasBlocks
        <4>2. body[k] \in Instruction
          BY <4>1
        <4>. QED  BY <4>2 DEF Instruction
      <3>. QED  BY <3>1, <3>2
    <2>2. Following(f, k) = AfterLabel(f, body[k].to[1])
      BY <1>4, Zenon DEF Following
    <2>3. Landed(f, Following(f, k)) /\ program[f][Following(f, k)].kind # "label"
      <3> DEFINE q == AfterLabel(f, program[f][k].to[1])
      <3>1. Landed(f, q) /\ program[f][q].kind # "label"
        BY <2>1, AfterJump, Zenon
      <3>2. Following(f, k) = q
        BY <2>2, Zenon
      <3> HIDE DEF q
      <3>. QED  BY <3>1, <3>2, Zenon
    <2>. QED  BY <1>2, <1>3, <2>3, Zenon DEF InsideAt
  <1>5. CASE body[k].kind \notin {"invoke", "branch"}
    <2>1. Following(f, k) = k + 1
      BY <1>5, Zenon DEF Following
    <2>2. ~ EndsBlock(body[k]) /\ body[k].kind \notin {"post", "exit"}
      BY <1>5 DEF EndsBlock, IsCall
    <2>3. f \notin BlackListed /\ ppc = "run" => k >= Entry(f)
      <3>1. k \in Nat /\ Entry(f) \in {1, 2}
        BY BodyIs, Zenon
      <3>. QED  BY <1>3, <3>1
    <2>. QED  BY <1>2, <1>3, <2>1, <2>2, <2>3, AfterInstruction, Zenon DEF InsideAt
  <1>. QED  BY <1>4, <1>5

-----------------------------------------------------------------------------
(***************************************************************************)
(* The steps after which the thread goes on.                               *)
(***************************************************************************)
\* What is on the call stack when the activation on top, the m-th, is at q.
Stacked(m, q, calls, over) ==
    /\ Len(calls) = Ranked(frames, m - 1) + (IF InsideAt(frames[m].fn, q) THEN 1 ELSE 0)
    /\ \A d \in 1 .. m - 1 : frames[d].fn \notin BlackListed =>
          calls[Ranked(frames, d)] = frames[d].fn
    /\ InsideAt(frames[m].fn, q) => Last(calls) = frames[m].fn
    /\ over <=> m = 1 /\ IsExit(program[frames[m].fn][q])

\* What the invariant says of a thread that runs.
RunsAt(n) ==
    /\ n = Len(frames) /\ n \in Nat /\ n >= 1 /\ DOMAIN frames = 1 .. n
    /\ frames \in Seq(Frames)
    /\ Over /\ first # "none" /\ frames[1].fn = first /\ first \notin BlackListed
    /\ Top = frames[n] /\ Current = program[frames[n].fn][frames[n].at]
    /\ \A d \in 1 .. n : /\ frames[d].fn \in DOMAIN program
                         /\ frames[d].at \in DOMAIN program[frames[d].fn]
    /\ \A d \in 1 .. n - 1 : IsCall(At(d)) /\ HasBody(At(d).what)
    /\ callStack \in Seq(DOMAIN program)
    /\ ppc = "run" => announced = IF frames[n].fn \in BlackListed THEN NotVisible
                                  ELSE Performs(Current)
    /\ ppc = "gave_up" => announced = NotVisible
    /\ ppc = "run" /\ ~ unwound => Stacked(n, frames[n].at, callStack, finished)

LEMMA RunningIs ==
  ASSUME CoreInv, Running
  PROVE  RunsAt(Len(frames))
  <1> DEFINE n == Len(frames)
  <1>1. frames \in Seq(Frames) /\ callStack \in Seq(DOMAIN program)
    BY DEF CoreInv, StackInv, Frames
  <1>2. n \in Nat /\ n >= 1 /\ DOMAIN frames = 1 .. n
    BY <1>1 DEF Running
  <1>3. Over /\ first # "none" /\ frames[1].fn = first /\ first \notin BlackListed
    BY FirstAssumption DEF CoreInv, StartInv, Running, Over
  <1>4. Top = frames[n] /\ Current = program[frames[n].fn][frames[n].at]
    BY Zenon DEF Top, Current, Last
  <1>5. \A d \in 1 .. n : /\ frames[d].fn \in DOMAIN program
                          /\ frames[d].at \in DOMAIN program[frames[d].fn]
    BY <1>2, Zenon DEF CoreInv, TypeOK
  <1>6. \A d \in 1 .. n - 1 : IsCall(At(d)) /\ HasBody(At(d).what)
    <2>. TAKE d \in 1 .. n - 1
    <2>1. d \in DOMAIN frames /\ d < n
      BY <1>2
    <2>. QED  BY <2>1, Zenon DEF CoreInv, StackInv
  <1>7. ppc = "run" => announced = IF frames[n].fn \in BlackListed THEN NotVisible
                                   ELSE Performs(Current)
    BY <1>4, Zenon DEF CoreInv, AnnouncedIffPerformed
  <1>8. ppc = "gave_up" => announced = NotVisible
    BY Zenon DEF CoreInv, AnnouncedIffPerformed
  <1>9. ASSUME ppc = "run", ~ unwound PROVE Stacked(n, frames[n].at, callStack, finished)
    <2>1. Inside <=> InsideAt(frames[n].fn, frames[n].at)
      BY <1>4, Zenon DEF Inside, InsideAt
    <2>2. /\ Len(callStack) = Rank(n - 1) + (IF Inside THEN 1 ELSE 0)
          /\ \A d \in DOMAIN frames :
                d < n /\ frames[d].fn \notin BlackListed => callStack[Rank(d)] = frames[d].fn
          /\ Inside => Last(callStack) = Top.fn
      BY <1>9, Zenon DEF CoreInv, CallsInv
    <2>3. finished <=> n = 1 /\ IsExit(Current)
      BY <1>9, Zenon DEF CoreInv, FinishedInv
    <2>4. \A d : Rank(d) = Ranked(frames, d)
      BY Zenon DEF Rank, Ranked
    <2>5. \A d \in 1 .. n - 1 : d \in DOMAIN frames /\ d < n
      BY <1>2
    <2>. QED  BY <2>1, <2>2, <2>3, <2>4, <2>5, <1>4, Zenon DEF Stacked
  <1>. QED  BY <1>1, <1>2, <1>3, <1>4, <1>5, <1>6, <1>7, <1>8, <1>9, Zenon DEF RunsAt

\* The invariant holds after a step when the m-th activation goes on at q, and the rest
\* is as it has to be there.
LEMMA MovesOn ==
  ASSUME CoreInv, Running, NEW m \in 1 .. Len(frames), NEW q \in DOMAIN program[frames[m].fn],
         frames' = Resumed(m, q), UNCHANGED <<passVars, first, left>>,
         callStack' \in Seq(DOMAIN program),
         registered' \in BOOLEAN, unregistered' \in BOOLEAN, finished' \in BOOLEAN,
         unwound' \in BOOLEAN,
         ppc = "gave_up" =>
            ~ registered' /\ callStack' = <<>> /\ ~ finished' /\ announced' = NotVisible,
         ppc = "run" => announced' = IF frames[m].fn \in BlackListed THEN NotVisible
                                     ELSE Performs(program[frames[m].fn][q]),
         ppc = "run" /\ ~ unwound' => Stacked(m, q, callStack', finished')
  PROVE  CoreInv'
  <1> DEFINE n == Len(frames)
             f == frames[m].fn
  <1>1. /\ n \in Nat /\ n >= 1 /\ DOMAIN frames = 1 .. n /\ frames \in Seq(Frames)
        /\ Over /\ first # "none" /\ frames[1].fn = first
        /\ \A d \in 1 .. n : /\ frames[d].fn \in DOMAIN program
                             /\ frames[d].at \in DOMAIN program[frames[d].fn]
        /\ \A d \in 1 .. n - 1 : IsCall(At(d)) /\ HasBody(At(d).what)
    BY RunningIs, Zenon DEF RunsAt
  <1>2. /\ program' = program /\ todo' = todo /\ ppc' = ppc /\ first' = first
        /\ left' = left /\ left = "no"
    BY DEF passVars, Running
  <1>3. m \in Nat /\ m >= 1 /\ m <= n /\ m \in 1 .. n /\ q \in Nat /\ f \in DOMAIN program
    <2>1. m \in Nat /\ m >= 1 /\ m <= n /\ m \in 1 .. n
      BY <1>1
    <2>2. f \in DOMAIN program
      BY <1>1, <2>1, Zenon
    <2>3. q \in Nat
      BY <1>1, <2>2, BodyIs, Zenon DEF CoreInv
    <2>. QED  BY <2>1, <2>2, <2>3
  <1>4. /\ frames' \in Seq(Frames) /\ Len(frames') = m
        /\ \A d \in 1 .. m - 1 : frames'[d] = frames[d]
        /\ frames'[m] = Frame(f, q)
        /\ \A d \in 1 .. m : frames'[d].fn = frames[d].fn
    BY <1>1, <1>3, ResumedFrames, Zenon
  <1>5. frames'[m].fn = f /\ frames'[m].at = q /\ DOMAIN frames' = 1 .. m /\ frames' # <<>>
    <2>1. frames'[m].fn = f /\ frames'[m].at = q
      BY <1>4 DEF Frame
    <2>2. DOMAIN frames' = 1 .. m /\ frames' # <<>>
      BY <1>3, <1>4
    <2>. QED  BY <2>1, <2>2
  <1>6. Top' = frames'[m] /\ Current' = program[f][q]
    BY <1>2, <1>4, <1>5, Zenon DEF Top, Current, Last
  <1>7. \A d \in 1 .. m : d = m \/ d \in 1 .. m - 1
    BY <1>3
  <1>8. TypeOK'
    <2>1. \A d \in DOMAIN frames' :
             frames'[d].fn \in DOMAIN program' /\ frames'[d].at \in DOMAIN program'[frames'[d].fn]
      <3>. TAKE d \in DOMAIN frames'
      <3>1. d = m \/ d \in 1 .. m - 1
        BY <1>5, <1>7
      <3>2. d \in 1 .. m - 1 => d \in 1 .. n
        BY <1>1, <1>3
      <3>. QED  BY <3>1, <3>2, <1>1, <1>2, <1>3, <1>4, <1>5, Zenon
    <2>2. ToSet(callStack') \subseteq DOMAIN program
      BY DEF ToSet
    <2>3. /\ todo \subseteq DOMAIN program
          /\ ppc \in {"start", "functions", "run", "gave_up", "crashed"}
          /\ first \in DOMAIN program \cup {"none"}
          /\ left \in {"no", "returned", "exited", "invalid", "terminated"}
      BY Zenon DEF CoreInv, TypeOK
    <2>4. {registered', unregistered', finished', unwound'} \subseteq BOOLEAN
      BY Zenon
    <2>. QED  BY <1>2, <2>1, <2>2, <2>3, <2>4, Zenon DEF TypeOK
  <1>9. PassInv'
    BY <1>2 DEF CoreInv, PassInv, Entry
  <1>10. StartInv'
    <2>1. frames'[1].fn = first'
      <3>1. 1 \in 1 .. m
        BY <1>3
      <3>. QED  BY <3>1, <1>1, <1>2, <1>4, Zenon
    <2>2. /\ first \in {"none", "main", StartRoutine, StaticInitializer}
          /\ ppc \notin {"run", "gave_up"} => first = "none"
      BY Zenon DEF CoreInv, StartInv
    <2>. QED  BY <1>1, <1>2, <1>5, <2>1, <2>2, Zenon DEF StartInv
  <1>11. StackInv'
    <2>1. \A d \in DOMAIN frames' : d < Len(frames') => IsCall(At(d)') /\ HasBody(At(d).what)'
      <3>. TAKE d \in DOMAIN frames'
      <3>. HAVE d < Len(frames')
      <3>1. d \in 1 .. m - 1 /\ d \in 1 .. n - 1
        BY <1>1, <1>3, <1>4, <1>5
      <3>2. At(d)' = At(d)
        BY <3>1, <1>2, <1>4, Zenon DEF At
      <3>. QED  BY <3>1, <3>2, <1>1, <1>2, Zenon DEF HasBody
    <2>. QED  BY <1>2, <1>4, <2>1, Zenon DEF StackInv, Frames
  <1>12. GaveUpInv'
    BY <1>2 DEF GaveUpInv
  <1>13. AnnouncedIffPerformed'
    BY <1>2, <1>5, <1>6, Zenon DEF AnnouncedIffPerformed
  <1>14. ASSUME ppc = "run", ~ unwound'
         PROVE  /\ Len(callStack') = Rank(Len(frames) - 1)' + (IF Inside' THEN 1 ELSE 0)
                /\ \A d \in DOMAIN frames' :
                      d < Len(frames') /\ frames'[d].fn \notin BlackListed =>
                          callStack'[Rank(d)'] = frames'[d].fn
                /\ Inside' => Last(callStack') = Top'.fn
                /\ finished' <=> Len(frames') = 1 /\ IsExit(Current')
    <2>1. /\ Len(callStack') = Ranked(frames, m - 1) + (IF InsideAt(f, q) THEN 1 ELSE 0)
          /\ \A d \in 1 .. m - 1 : frames[d].fn \notin BlackListed =>
                callStack'[Ranked(frames, d)] = frames[d].fn
          /\ InsideAt(f, q) => Last(callStack') = f
          /\ finished' <=> m = 1 /\ IsExit(program[f][q])
      BY <1>14, Zenon DEF Stacked
    <2>2. Inside' <=> InsideAt(f, q)
      BY <1>2, <1>5, <1>6, Zenon DEF Inside, InsideAt, Entry
    <2>3. ASSUME NEW d \in 0 .. m - 1 PROVE Rank(d)' = Ranked(frames, d)
      <3>1. d \in Nat /\ \A e \in 1 .. d : frames'[e].fn = frames[e].fn
        BY <1>3, <1>4
      <3>2. Ranked(frames', d) = Ranked(frames, d)
        BY <3>1, RankedSame
      <3>. QED  BY <3>2, Zenon DEF Rank, Ranked
    <2>4. Rank(Len(frames) - 1)' = Ranked(frames, m - 1)
      <3>1. m - 1 \in 0 .. m - 1
        BY <1>3
      <3>2. Rank(m - 1)' = Ranked(frames, m - 1)
        BY <3>1, <2>3, Zenon
      <3>. QED  BY <3>2, <1>4, Zenon DEF Rank
    <2>5. \A d \in DOMAIN frames' :
             d < Len(frames') /\ frames'[d].fn \notin BlackListed =>
                 callStack'[Rank(d)'] = frames'[d].fn
      <3>. TAKE d \in DOMAIN frames'
      <3>. HAVE d < Len(frames') /\ frames'[d].fn \notin BlackListed
      <3>1. d \in 1 .. m - 1 /\ d \in 0 .. m - 1
        BY <1>3, <1>4, <1>5
      <3>. QED  BY <3>1, <1>4, <2>1, <2>3, Zenon
    <2>. QED  BY <1>4, <1>5, <1>6, <2>1, <2>2, <2>4, <2>5, Zenon
  <1>15. CallsInv'
    BY <1>2, <1>14, Zenon DEF CallsInv
  <1>16. FinishedInv'
    BY <1>2, <1>14, Zenon DEF FinishedInv
  <1>17. EndedInv'
    BY <1>2 DEF EndedInv
  <1>. QED  BY <1>8, <1>9, <1>10, <1>11, <1>12, <1>13, <1>15, <1>16, <1>17 DEF CoreInv

LEMMA Booleans ==
  ASSUME CoreInv
  PROVE  /\ registered \in BOOLEAN /\ unregistered \in BOOLEAN /\ finished \in BOOLEAN
         /\ unwound \in BOOLEAN
         /\ callStack \in Seq(DOMAIN program)
         /\ ppc = "gave_up" => ~ registered /\ callStack = <<>> /\ ~ finished
         /\ PassInv
  BY Zenon DEF CoreInv, TypeOK, StackInv, GaveUpInv

LEMMA StackedStays ==
  ASSUME NEW m, NEW k, NEW q, NEW calls, NEW over, Stacked(m, k, calls, over),
         InsideAt(frames[m].fn, k) <=> InsideAt(frames[m].fn, q),
         IsExit(program[frames[m].fn][k]) <=> IsExit(program[frames[m].fn][q])
  PROVE  Stacked(m, q, calls, over)
  BY Zenon DEF Stacked

\* The stack after an instruction.
LEMMA AdvanceIs ==
  ASSUME CoreInv, Running, Advance
  PROVE  frames' = Resumed(Len(frames), Following(Top.fn, Top.at))
  <1>1. frames \in Seq(Frames)
    BY RunningIs, Zenon DEF RunsAt
  <1>. QED  BY <1>1, AdvancedIsResumed, Zenon DEF Advance, Running

\* A call of a wrapper that registers or announces: the activation stays in or out.
LEMMA WrapperGoesOn ==
  ASSUME PassInv, Over, NEW f \in DOMAIN program, NEW k \in DOMAIN program[f],
         f \notin BlackListed, ppc = "run",
         program[f][k].kind \in {"register_main", "post", "register"}
  PROVE  /\ k + 1 \in DOMAIN program[f] /\ Following(f, k) = k + 1
         /\ InsideAt(f, k) <=> InsideAt(f, k + 1)
         /\ ~ IsExit(program[f][k]) /\ ~ IsExit(program[f][k + 1])
         /\ Performs(program[f][k]) = NotVisible
         /\ Performs(program[f][k + 1])
              = IF program[f][k].kind = "post" THEN program[f][k].what ELSE NotVisible
  <1> DEFINE body == program[f]
  <1>1. /\ HasBlocks(body) /\ DOMAIN body = 1 .. Len(body) /\ Len(body) \in Nat
        /\ Entry(f) \in {1, 2} /\ k \in Nat
        /\ IsInstrumented(f, body, Entry(f))
    BY BodyIs, Zenon
  <1>2. Following(f, k) = k + 1
    BY DEF Following
  <1>3. /\ ~ IsExit(body[k]) /\ ~ EndsBlock(body[k]) /\ Performs(body[k]) = NotVisible
    BY WrappersDoNothing DEF Wrappers
  <1>4. k < Len(body)
    BY <1>1, <1>3, Zenon DEF HasBlocks
  <1>5. k + 1 \in 1 .. Len(body) /\ (k + 1) - 1 = k
    BY <1>1, <1>4
  <1>6. AnnouncesEach(body) /\ ExitsLast(f, body) /\ EntersAt(f, body, Entry(f))
    BY <1>1, Zenon DEF IsInstrumented
  <1>7. ~ IsExit(body[k + 1])
    <2>1. IsExit(body[k + 1]) => body[(k + 1) - 1] = ExitFunction(f)
      BY <1>1, <1>5, <1>6, Zenon DEF ExitsLast
    <2>. QED  BY <1>5, <2>1 DEF ExitFunction, Instr
  <1>8. Performs(body[k + 1]) = IF body[k].kind = "post" THEN body[k].what ELSE NotVisible
    <2>1. CASE body[k].kind = "post"
      BY <1>6, <2>1 DEF AnnouncesEach
    <2>2. CASE body[k].kind # "post"
      <3>1. Performs(body[k + 1]) # NotVisible =>
               body[(k + 1) - 1] = PostInstruction(Performs(body[k + 1]))
        BY <1>1, <1>5, <1>6, Zenon DEF AnnouncesEach
      <3>. QED  BY <1>5, <2>2, <3>1 DEF PostInstruction, Instr
    <2>. QED  BY <2>1, <2>2
  <1>9. k # Entry(f)
    <2>1. body[Entry(f)] = EnterFunction(f)
      BY <1>6, Zenon DEF EntersAt
    <2>. QED  BY <2>1 DEF EnterFunction, Instr
  <1>10. k > Entry(f) <=> k + 1 > Entry(f)
    BY <1>1, <1>9
  <1>. QED  BY <1>1, <1>2, <1>3, <1>5, <1>7, <1>8, <1>10, Zenon DEF InsideAt

\* wrapper_register_main_thread: main is registered, and is about to be entered.
LEMMA RegisterMainStep ==
  ASSUME CoreInv, RegisterMain
  PROVE  CoreInv'
  <1> DEFINE n == Len(frames)
             f == frames[n].fn
             k == frames[n].at
  <1>1. /\ Running /\ Current = RegisterMainThread /\ Advance /\ registered'
        /\ registered' \in BOOLEAN
        /\ UNCHANGED <<passVars, first, left>>
        /\ UNCHANGED <<callStack, unregistered, announced, finished, unwound>>
    BY DEF RegisterMain
  <1>2. RunsAt(n) /\ PassInv
    BY <1>1, RunningIs DEF CoreInv
  <1>3. /\ n \in 1 .. n /\ Over /\ Top = frames[n] /\ program[f][k] = RegisterMainThread
        /\ f \in DOMAIN program /\ k \in DOMAIN program[f]
        /\ ppc = "run" => announced = IF f \in BlackListed THEN NotVisible ELSE Performs(Current)
        /\ ppc = "run" /\ ~ unwound => Stacked(n, k, callStack, finished)
    BY <1>1, <1>2 DEF RunsAt
  <1>4. RegisterMainThread.kind = "register_main"
    BY DEF RegisterMainThread, Instr
  <1>5. f \notin BlackListed /\ ppc = "run"
    <2>1. f \in BlackListed => program[f][k].kind \notin Wrappers
      BY <1>2, <1>3, BodyIs, Zenon
    <2>2. ppc # "run" => program[f][k] # RegisterMainThread
      BY <1>2, <1>3, Zenon DEF PassInv
    <2>. QED  BY <1>3, <1>4, <2>1, <2>2 DEF Wrappers
  <1>6. /\ k + 1 \in DOMAIN program[f] /\ Following(f, k) = k + 1
        /\ InsideAt(f, k) <=> InsideAt(f, k + 1)
        /\ ~ IsExit(program[f][k]) /\ ~ IsExit(program[f][k + 1])
        /\ Performs(program[f][k]) = NotVisible /\ Performs(program[f][k + 1]) = NotVisible
    BY <1>2, <1>3, <1>4, <1>5, WrapperGoesOn
  <1>7. frames' = Resumed(n, k + 1)
    BY <1>1, <1>3, <1>6, AdvanceIs, Zenon
  <1>8. ppc = "run" => announced' = IF f \in BlackListed THEN NotVisible
                                    ELSE Performs(program[f][k + 1])
    BY <1>1, <1>2, <1>3, <1>5, <1>6, Zenon DEF RunsAt
  <1>9. ppc = "run" /\ ~ unwound' => Stacked(n, k + 1, callStack', finished')
    BY <1>1, <1>3, <1>6, StackedStays, Zenon
  <1>10. /\ callStack' \in Seq(DOMAIN program) /\ unregistered' \in BOOLEAN
         /\ finished' \in BOOLEAN /\ unwound' \in BOOLEAN
    BY <1>1, Booleans, Zenon
  <1>11. ppc # "gave_up"
    BY <1>5
  <1>. QED  BY <1>1, <1>3, <1>6, <1>7, <1>8, <1>9, <1>10, <1>11, MovesOn, Zenon

\* An announcement: the instruction after it performs what has been announced.
LEMMA PostStep ==
  ASSUME CoreInv, Post
  PROVE  CoreInv'
  <1> DEFINE n == Len(frames)
             f == frames[n].fn
             k == frames[n].at
  <1>1. /\ Running /\ Current.kind = "post" /\ Advance /\ registered
        /\ announced' = Current.what
        /\ UNCHANGED <<passVars, first, left>>
        /\ UNCHANGED <<callStack, registered, unregistered, finished, unwound>>
    BY DEF Post
  <1>2. RunsAt(n) /\ PassInv
    BY <1>1, RunningIs DEF CoreInv
  <1>3. /\ n \in 1 .. n /\ Over /\ Top = frames[n] /\ Current = program[f][k]
        /\ f \in DOMAIN program /\ k \in DOMAIN program[f]
        /\ ppc = "run" /\ ~ unwound => Stacked(n, k, callStack, finished)
    BY <1>1, <1>2 DEF RunsAt
  <1>4. f \notin BlackListed
    <2>1. f \in BlackListed => program[f][k].kind \notin Wrappers
      BY <1>2, <1>3, BodyIs, Zenon
    <2>. QED  BY <1>1, <1>3, <2>1 DEF Wrappers
  <1>5. ppc = "run"
    BY <1>1, <1>3, Booleans DEF Over
  <1>6. /\ k + 1 \in DOMAIN program[f] /\ Following(f, k) = k + 1
        /\ InsideAt(f, k) <=> InsideAt(f, k + 1)
        /\ ~ IsExit(program[f][k]) /\ ~ IsExit(program[f][k + 1])
        /\ Performs(program[f][k + 1]) = Current.what
    BY <1>1, <1>2, <1>3, <1>4, <1>5, WrapperGoesOn
  <1>7. frames' = Resumed(n, k + 1)
    BY <1>1, <1>3, <1>6, AdvanceIs, Zenon
  <1>8. ppc = "run" => announced' = IF f \in BlackListed THEN NotVisible
                                    ELSE Performs(program[f][k + 1])
    BY <1>1, <1>4, <1>6, Zenon
  <1>9. ppc = "run" /\ ~ unwound' => Stacked(n, k + 1, callStack', finished')
    BY <1>1, <1>3, <1>6, StackedStays, Zenon
  <1>10. /\ callStack' \in Seq(DOMAIN program) /\ unregistered' \in BOOLEAN
         /\ finished' \in BOOLEAN /\ unwound' \in BOOLEAN /\ registered' \in BOOLEAN
    BY <1>1, Booleans, Zenon
  <1>11. ppc # "gave_up"
    BY <1>5
  <1>. QED  BY <1>1, <1>3, <1>6, <1>7, <1>8, <1>9, <1>10, <1>11, MovesOn, Zenon

\* A created thread is registered.
LEMMA RegisterStep ==
  ASSUME CoreInv, Register
  PROVE  CoreInv'
  <1> DEFINE n == Len(frames)
             f == frames[n].fn
             k == frames[n].at
  <1>1. /\ Running /\ Current = RegisterThread /\ Advance
        /\ ~ unregistered' /\ unregistered' \in BOOLEAN
        /\ UNCHANGED <<passVars, first, left>>
        /\ UNCHANGED <<callStack, registered, announced, finished, unwound>>
    BY DEF Register
  <1>2. RunsAt(n) /\ PassInv
    BY <1>1, RunningIs DEF CoreInv
  <1>3. /\ n \in 1 .. n /\ Over /\ Top = frames[n] /\ Current = program[f][k]
        /\ f \in DOMAIN program /\ k \in DOMAIN program[f]
        /\ ppc = "gave_up" => announced = NotVisible
        /\ ppc = "run" => announced = IF f \in BlackListed THEN NotVisible ELSE Performs(Current)
        /\ ppc = "run" /\ ~ unwound => Stacked(n, k, callStack, finished)
    BY <1>1, <1>2 DEF RunsAt
  <1>4. program[f][k].kind = "register"
    <2>1. RegisterThread.kind = "register"
      BY DEF RegisterThread, Instr
    <2>. QED  BY <2>1, <1>1, <1>3, Zenon
  <1>5. f \notin BlackListed
    <2>1. f \in BlackListed => program[f][k].kind \notin Wrappers
      BY <1>2, <1>3, BodyIs, Zenon
    <2>. QED  BY <1>4, <2>1 DEF Wrappers
  <1>6. ppc = "run" =>
           /\ InsideAt(f, k) <=> InsideAt(f, k + 1)
           /\ ~ IsExit(program[f][k]) /\ ~ IsExit(program[f][k + 1])
           /\ Performs(program[f][k]) = NotVisible /\ Performs(program[f][k + 1]) = NotVisible
    BY <1>2, <1>3, <1>4, <1>5, WrapperGoesOn
  <1>7. k + 1 \in DOMAIN program[f] /\ Following(f, k) = k + 1
    <2>1. HasBlocks(program[f]) /\ DOMAIN program[f] = 1 .. Len(program[f])
            /\ Len(program[f]) \in Nat /\ k \in Nat
      BY <1>2, <1>3, BodyIs, Zenon
    <2>2. ~ EndsBlock(program[f][k])
      BY <1>4, WrappersDoNothing DEF Wrappers
    <2>3. k < Len(program[f])
      BY <1>3, <2>1, <2>2, Zenon DEF HasBlocks
    <2>. QED  BY <1>4, <2>1, <2>3 DEF Following
  <1>8. frames' = Resumed(n, k + 1)
    BY <1>1, <1>3, <1>7, AdvanceIs, Zenon
  <1>9. ppc = "run" => announced' = IF f \in BlackListed THEN NotVisible
                                    ELSE Performs(program[f][k + 1])
    BY <1>1, <1>3, <1>5, <1>6, Zenon
  <1>10. ppc = "run" /\ ~ unwound' => Stacked(n, k + 1, callStack', finished')
    BY <1>1, <1>3, <1>6, StackedStays, Zenon
  <1>11. /\ callStack' \in Seq(DOMAIN program) /\ registered' \in BOOLEAN
         /\ finished' \in BOOLEAN /\ unwound' \in BOOLEAN
         /\ ppc = "gave_up" =>
               ~ registered' /\ callStack' = <<>> /\ ~ finished' /\ announced' = NotVisible
    BY <1>1, <1>3, Booleans, Zenon
  <1>. QED  BY <1>1, <1>3, <1>7, <1>8, <1>9, <1>10, <1>11, MovesOn, Zenon

\* What the wrappers that enter and exit find.
LEMMA PerformsWhat ==
  ASSUME NEW instr
  PROVE  /\ IsExit(instr) => Performs(instr) = NotVisible
         /\ IsCall(instr) /\ instr.what \notin Library => Performs(instr) = NotVisible
         /\ IsCall(instr) /\ instr.what \notin Leaving => ~ IsExit(instr)
  <1> DEFINE operationOf == [pthread_create |-> "Spawn", pthread_mutex_lock |-> "Lock",
                             pthread_mutex_unlock |-> "Unlock"]
  <1>1. DOMAIN operationOf = {"pthread_create", "pthread_mutex_lock", "pthread_mutex_unlock"}
    OBVIOUS
  <1>2. Performs(instr)
          = IF instr.kind = "access" /\ instr.what \in {"Load", "Store", "ReadModifyWrite"}
            THEN instr.what
            ELSE IF IsCall(instr) /\ instr.what \in Joins THEN "Join"
            ELSE IF IsCall(instr) /\ instr.what \in DOMAIN operationOf
            THEN operationOf[instr.what]
            ELSE NotVisible
    BY Zenon DEF Performs
  <1> HIDE DEF operationOf
  <1>. QED  BY <1>1, <1>2 DEF IsExit, IsCall, Library, Leaving, Joins

LEMMA EnteringAt ==
  ASSUME PassInv, Over, NEW f \in DOMAIN program, NEW k \in DOMAIN program[f],
         f \notin BlackListed, ppc = "run", program[f][k].kind = "enter"
  PROVE  /\ k + 1 \in DOMAIN program[f] /\ Following(f, k) = k + 1
         /\ program[f][k].what = f /\ ~ InsideAt(f, k) /\ InsideAt(f, k + 1)
         /\ ~ IsExit(program[f][k]) /\ Performs(program[f][k + 1]) = NotVisible
  <1>1. /\ Entry(f) \in {1, 2} /\ k \in Nat /\ IsInstrumented(f, program[f], Entry(f))
    BY BodyIs, Zenon
  <1>2. k = Entry(f) /\ program[f][k] = EnterFunction(f)
    BY <1>1, Zenon DEF IsInstrumented, EntersAt
  <1>3. EnterFunction(f).what = f
    BY DEF EnterFunction, Instr
  <1>4. Landed(f, k + 1)
    <2>1. ~ EndsBlock(program[f][k]) /\ program[f][k].kind \notin {"post", "exit"} /\ k >= Entry(f)
      BY <1>1, <1>2, WrappersDoNothing DEF Wrappers
    <2>. QED  BY <2>1, AfterInstruction, Zenon
  <1>5. ~ IsExit(program[f][k])
    BY WrappersDoNothing DEF Wrappers
  <1>6. Following(f, k) = k + 1
    BY DEF Following
  <1>7. ~ InsideAt(f, k)
    BY <1>1, <1>2 DEF InsideAt
  <1>. QED  BY <1>2, <1>3, <1>4, <1>5, <1>6, <1>7, Zenon DEF Landed

LEMMA ExitingAt ==
  ASSUME PassInv, Over, NEW f \in DOMAIN program, NEW k \in DOMAIN program[f],
         f \notin BlackListed, ppc = "run", program[f][k].kind = "exit"
  PROVE  /\ k + 1 \in DOMAIN program[f] /\ Following(f, k) = k + 1
         /\ program[f][k].what = f /\ InsideAt(f, k) /\ ~ InsideAt(f, k + 1)
         /\ ~ IsExit(program[f][k]) /\ IsExit(program[f][k + 1])
         /\ Performs(program[f][k + 1]) = NotVisible
  <1>1. /\ DOMAIN program[f] = 1 .. Len(program[f]) /\ Len(program[f]) \in Nat
        /\ k \in Nat /\ k >= 1 /\ IsInstrumented(f, program[f], Entry(f))
    BY BodyIs, Zenon
  <1>2. k < Len(program[f]) /\ program[f][k] = ExitFunction(f) /\ IsExit(program[f][k + 1])
    BY <1>1, Zenon DEF IsInstrumented, ExitsLast
  <1>3. ExitFunction(f).what = f
    BY DEF ExitFunction, Instr
  <1>4. k + 1 \in DOMAIN program[f]
    BY <1>1, <1>2
  <1>5. ~ IsExit(program[f][k])
    BY WrappersDoNothing DEF Wrappers
  <1>6. Following(f, k) = k + 1
    BY DEF Following
  <1>7. k > Entry(f)
    BY ProgramIsInside
  <1>8. Performs(program[f][k + 1]) = NotVisible
    BY <1>2, PerformsWhat, Zenon
  <1>. QED  BY <1>2, <1>3, <1>4, <1>5, <1>6, <1>7, <1>8, Zenon DEF InsideAt

\* What is on the call stack of a thread that enters the function on top, or exits it.
LEMMA StackedEnters ==
  ASSUME frames \in Seq(Frames), NEW n \in 1 .. Len(frames), NEW k, NEW q,
         NEW calls \in Seq(DOMAIN program), NEW over, Stacked(n, k, calls, over),
         frames[n].fn \in DOMAIN program,
         ~ InsideAt(frames[n].fn, k), InsideAt(frames[n].fn, q),
         ~ IsExit(program[frames[n].fn][k])
  PROVE  Stacked(n, q, Append(calls, frames[n].fn), over)
  <1> DEFINE f == frames[n].fn
             new == Append(calls, f)
             r == Ranked(frames, n - 1)
  <1>1. n - 1 \in Nat /\ r \in Nat
    <2>1. n - 1 \in Nat
      OBVIOUS
    <2>. QED  BY <2>1, RankedNext
  <1>2. Len(calls) = r /\ ~ over
    BY <1>1 DEF Stacked
  <1>3. Len(new) = r + 1 /\ \A i \in 1 .. r : new[i] = calls[i]
    BY <1>1, <1>2
  <1>4. new[r + 1] = f
    BY <1>1, <1>2
  <1>5. Last(new) = f
    BY <1>3, <1>4, Zenon DEF Last
  <1>6. \A d \in 1 .. n - 1 : frames[d].fn \notin BlackListed =>
           new[Ranked(frames, d)] = frames[d].fn
    <2>. TAKE d \in 1 .. n - 1
    <2>. HAVE frames[d].fn \notin BlackListed
    <2>1. Ranked(frames, d) \in 1 .. r
      BY <1>1, RankedCounts
    <2>2. calls[Ranked(frames, d)] = frames[d].fn
      BY Zenon DEF Stacked
    <2>. QED  BY <1>3, <2>1, <2>2, Zenon
  <1>7. ~ IsExit(program[f][q])
    BY DEF InsideAt
  <1> HIDE DEF new, r
  <1>8. Len(new) = r + (IF InsideAt(f, q) THEN 1 ELSE 0)
    BY <1>3
  <1>. QED  BY <1>2, <1>5, <1>6, <1>7, <1>8, Zenon DEF Stacked, new, r

LEMMA StackedExits ==
  ASSUME frames \in Seq(Frames), NEW n \in 1 .. Len(frames), NEW k, NEW q,
         frames[1].fn \notin BlackListed,
         NEW calls \in Seq(DOMAIN program), NEW over, Stacked(n, k, calls, over),
         InsideAt(frames[n].fn, k), ~ InsideAt(frames[n].fn, q),
         ~ IsExit(program[frames[n].fn][k]), IsExit(program[frames[n].fn][q])
  PROVE  /\ calls # <<>> /\ Last(calls) = frames[n].fn
         /\ Front(calls) \in Seq(DOMAIN program)
         /\ Stacked(n, q, Front(calls), over \/ Front(calls) = <<>>)
  <1> DEFINE f == frames[n].fn
             new == Front(calls)
             r == Ranked(frames, n - 1)
  <1>1. n - 1 \in Nat /\ r \in Nat
    <2>1. n - 1 \in Nat
      OBVIOUS
    <2>. QED  BY <2>1, RankedNext
  <1>2. Len(calls) = r + 1 /\ ~ over /\ Last(calls) = f
    BY <1>1 DEF Stacked
  <1>3. new = SubSeq(calls, 1, r)
    BY <1>1, <1>2 DEF Front
  <1>4. /\ new \in Seq(DOMAIN program) /\ Len(new) = r /\ \A i \in 1 .. r : new[i] = calls[i]
        /\ calls # <<>> /\ (new = <<>> <=> r = 0)
    BY <1>1, <1>2, <1>3
  <1>5. \A d \in 1 .. n - 1 : frames[d].fn \notin BlackListed =>
           new[Ranked(frames, d)] = frames[d].fn
    <2>. TAKE d \in 1 .. n - 1
    <2>. HAVE frames[d].fn \notin BlackListed
    <2>1. Ranked(frames, d) \in 1 .. r
      BY <1>1, RankedCounts
    <2>2. calls[Ranked(frames, d)] = frames[d].fn
      BY Zenon DEF Stacked
    <2>. QED  BY <1>4, <2>1, <2>2, Zenon
  <1>6. r = 0 <=> n = 1
    <2>1. CASE n = 1
      <3>1. n - 1 = 0
        BY <2>1
      <3>. QED  BY <2>1, <3>1, RankedNext, Zenon
    <2>2. CASE n # 1
      <3> DEFINE i == 1
      <3>1. i \in 1 .. n - 1 /\ frames[i].fn \notin BlackListed
        BY <2>2
      <3> HIDE DEF i
      <3>2. Ranked(frames, i) \in 1 .. r
        BY <1>1, <3>1, RankedCounts
      <3>. QED  BY <2>2, <3>2, <1>1
    <2>. QED  BY <2>1, <2>2
  <1> HIDE DEF new, r
  <1>7. Len(new) = r + (IF InsideAt(f, q) THEN 1 ELSE 0)
    BY <1>1, <1>4
  <1>8. (over \/ new = <<>>) <=> n = 1 /\ IsExit(program[f][q])
    BY <1>2, <1>4, <1>6, Zenon
  <1>. QED  BY <1>2, <1>4, <1>5, <1>7, <1>8, Zenon DEF Stacked, new, r

-----------------------------------------------------------------------------
(***************************************************************************)
(* The steps of a thread, one after the other.                             *)
(***************************************************************************)
\* A step after which the thread does not go on.
LEMMA Ends ==
  ASSUME CoreInv, Running,
         UNCHANGED <<passVars, first, frames, callStack, registered, unregistered,
                     announced, finished, unwound>>,
         left' \in {"returned", "exited", "invalid", "terminated"},
         left' = "invalid" => unwound /\ ppc # "gave_up",
         left' = "returned" /\ ~ unwound /\ ppc = "run" => finished,
         left' = "exited" /\ ~ unwound /\ ppc = "run" =>
            (finished <=> Len(frames) = 1 /\ Current.kind = "call")
  PROVE  CoreInv'
  <1>1. /\ program' = program /\ todo' = todo /\ ppc' = ppc /\ first' = first
        /\ frames' = frames /\ callStack' = callStack /\ registered' = registered
        /\ unregistered' = unregistered /\ announced' = announced /\ finished' = finished
        /\ unwound' = unwound
    BY DEF passVars
  <1>2. Top' = Top /\ Current' = Current /\ left' # "no" /\ ~ Running'
    BY <1>1 DEF Top, Current, Running
  <1>3. TypeOK'
    BY <1>1 DEF CoreInv, TypeOK
  <1>4. PassInv'
    BY <1>1 DEF CoreInv, PassInv, Entry
  <1>5. StartInv'
    <2>1. first # "none"
      BY RunningIs, Zenon DEF RunsAt
    <2>. QED  BY <1>1, <2>1 DEF CoreInv, StartInv
  <1>6. StackInv'
    <2>1. \A d : At(d)' = At(d)
      BY <1>1, Zenon DEF At
    <2>2. \A f : HasBody(f)' <=> HasBody(f)
      BY <1>1, Zenon DEF HasBody
    <2>. QED  BY <1>1, <2>1, <2>2 DEF CoreInv, StackInv, HasBody, At
  <1>7. GaveUpInv'
    BY <1>1 DEF CoreInv, GaveUpInv
  <1>8. AnnouncedIffPerformed'
    BY <1>1, <1>2 DEF CoreInv, AnnouncedIffPerformed
  <1>9. CallsInv' /\ FinishedInv'
    BY <1>2, Zenon DEF CallsInv, FinishedInv
  <1>10. EndedInv'
    BY <1>1, <1>2 DEF EndedInv
  <1>. QED  BY <1>3, <1>4, <1>5, <1>6, <1>7, <1>8, <1>9, <1>10 DEF CoreInv

\* enter_function
LEMMA EnterStep ==
  ASSUME CoreInv, Enter
  PROVE  CoreInv'
  <1> DEFINE n == Len(frames)
             f == frames[n].fn
             k == frames[n].at
  <1>1. /\ Running /\ Current.kind = "enter" /\ Advance /\ registered
        /\ callStack' = Append(callStack, Current.what)
        /\ UNCHANGED <<passVars, first, left>>
        /\ UNCHANGED <<announced, registered, unregistered, finished, unwound>>
    BY DEF Enter
  <1>2. RunsAt(n) /\ PassInv
    BY <1>1, RunningIs DEF CoreInv
  <1>3. /\ n \in 1 .. n /\ Over /\ Top = frames[n] /\ Current = program[f][k]
        /\ f \in DOMAIN program /\ k \in DOMAIN program[f]
        /\ frames \in Seq(Frames) /\ callStack \in Seq(DOMAIN program)
        /\ ppc = "run" => announced = IF f \in BlackListed THEN NotVisible ELSE Performs(Current)
        /\ ppc = "run" /\ ~ unwound => Stacked(n, k, callStack, finished)
    BY <1>1, <1>2 DEF RunsAt
  <1>4. f \notin BlackListed
    <2>1. f \in BlackListed => program[f][k].kind \notin Wrappers
      BY <1>2, <1>3, BodyIs, Zenon
    <2>. QED  BY <1>1, <1>3, <2>1 DEF Wrappers
  <1>5. ppc = "run"
    BY <1>1, <1>3, Booleans DEF Over
  <1>6. /\ k + 1 \in DOMAIN program[f] /\ Following(f, k) = k + 1
        /\ program[f][k].what = f /\ ~ InsideAt(f, k) /\ InsideAt(f, k + 1)
        /\ ~ IsExit(program[f][k]) /\ Performs(program[f][k + 1]) = NotVisible
    BY <1>1, <1>2, <1>3, <1>4, <1>5, EnteringAt
  <1>7. frames' = Resumed(n, k + 1)
    BY <1>1, <1>3, <1>6, AdvanceIs, Zenon
  <1>8. ppc = "run" => announced' = IF f \in BlackListed THEN NotVisible
                                    ELSE Performs(program[f][k + 1])
    <2>1. Performs(program[f][k]) = NotVisible
      BY <1>1, <1>3, WrappersDoNothing DEF Wrappers
    <2>. QED  BY <1>1, <1>3, <1>6, <2>1, Zenon
  <1>9. ppc = "run" /\ ~ unwound' => Stacked(n, k + 1, callStack', finished')
    BY <1>1, <1>3, <1>6, StackedEnters, Zenon
  <1>10. callStack' \in Seq(DOMAIN program)
    BY <1>1, <1>3, <1>6
  <1>11. /\ unregistered' \in BOOLEAN /\ registered' \in BOOLEAN
         /\ finished' \in BOOLEAN /\ unwound' \in BOOLEAN
    BY <1>1, Booleans, Zenon
  <1>12. ppc # "gave_up"
    BY <1>5
  <1>. QED  BY <1>1, <1>3, <1>6, <1>7, <1>8, <1>9, <1>10, <1>11, <1>12, MovesOn, Zenon

\* exit_function finds the function on top of the call stack.
LEMMA ExitStep ==
  ASSUME CoreInv, Exit
  PROVE  CoreInv'
  <1> DEFINE n == Len(frames)
             f == frames[n].fn
             k == frames[n].at
  <1>1. /\ Running /\ Current.kind = "exit" /\ Advance /\ registered
        /\ callStack # <<>> /\ callStack' = Front(callStack)
        /\ finished' = (finished \/ callStack' = <<>>)
        /\ UNCHANGED <<passVars, first, left>>
        /\ UNCHANGED <<announced, registered, unregistered, unwound>>
    BY DEF Exit
  <1>2. RunsAt(n) /\ PassInv
    BY <1>1, RunningIs DEF CoreInv
  <1>3. /\ n \in 1 .. n /\ Over /\ Top = frames[n] /\ Current = program[f][k]
        /\ f \in DOMAIN program /\ k \in DOMAIN program[f]
        /\ frames \in Seq(Frames) /\ callStack \in Seq(DOMAIN program)
        /\ frames[1].fn \notin BlackListed
        /\ ppc = "run" => announced = IF f \in BlackListed THEN NotVisible ELSE Performs(Current)
        /\ ppc = "run" /\ ~ unwound => Stacked(n, k, callStack, finished)
    BY <1>1, <1>2 DEF RunsAt
  <1>4. f \notin BlackListed
    <2>1. f \in BlackListed => program[f][k].kind \notin Wrappers
      BY <1>2, <1>3, BodyIs, Zenon
    <2>. QED  BY <1>1, <1>3, <2>1 DEF Wrappers
  <1>5. ppc = "run"
    BY <1>1, <1>3, Booleans DEF Over
  <1>6. /\ k + 1 \in DOMAIN program[f] /\ Following(f, k) = k + 1
        /\ InsideAt(f, k) /\ ~ InsideAt(f, k + 1)
        /\ ~ IsExit(program[f][k]) /\ IsExit(program[f][k + 1])
        /\ Performs(program[f][k + 1]) = NotVisible
    BY <1>1, <1>2, <1>3, <1>4, <1>5, ExitingAt
  <1>7. frames' = Resumed(n, k + 1)
    BY <1>1, <1>3, <1>6, AdvanceIs, Zenon
  <1>8. ppc = "run" => announced' = IF f \in BlackListed THEN NotVisible
                                    ELSE Performs(program[f][k + 1])
    <2>1. Performs(program[f][k]) = NotVisible
      BY <1>1, <1>3, WrappersDoNothing DEF Wrappers
    <2>. QED  BY <1>1, <1>3, <1>6, <2>1, Zenon
  <1>9. ppc = "run" /\ ~ unwound' => Stacked(n, k + 1, callStack', finished')
    <2>. HAVE ppc = "run" /\ ~ unwound'
    <2>1. Stacked(n, k, callStack, finished)
      BY <1>1, <1>3, Zenon
    <2>3. n \in 1 .. Len(frames)
      BY <1>3
    <2> HIDE DEF n, k
    <2>2. Stacked(n, k + 1, Front(callStack), finished \/ Front(callStack) = <<>>)
      BY <1>3, <1>6, <2>1, <2>3, StackedExits
    <2>. QED  BY <1>1, <2>2, Zenon
  <1>10. callStack' \in Seq(DOMAIN program)
    BY <1>1, <1>3 DEF Front
  <1>11. /\ unregistered' \in BOOLEAN /\ registered' \in BOOLEAN
         /\ finished' \in BOOLEAN /\ unwound' \in BOOLEAN
    BY <1>1, Booleans, Zenon
  <1>12. ppc # "gave_up"
    BY <1>5
  <1>. QED  BY <1>1, <1>3, <1>6, <1>7, <1>8, <1>9, <1>10, <1>11, <1>12, MovesOn, Zenon

\* exit_function does not find it: an exception has passed a function.
LEMMA InvalidStep ==
  ASSUME CoreInv, InvalidCallStack
  PROVE  CoreInv'
  <1> DEFINE n == Len(frames)
             f == frames[n].fn
             k == frames[n].at
  <1>1. /\ Running /\ Current.kind = "exit" /\ registered /\ left' = "invalid"
        /\ callStack = <<>> \/ Last(callStack) # Current.what
        /\ UNCHANGED <<passVars, first, frames, callStack, registered, unregistered,
                       announced, finished, unwound>>
    BY DEF InvalidCallStack
  <1>2. RunsAt(n) /\ PassInv
    BY <1>1, RunningIs DEF CoreInv
  <1>3. /\ n \in 1 .. n /\ Over /\ Current = program[f][k]
        /\ f \in DOMAIN program /\ k \in DOMAIN program[f]
        /\ frames \in Seq(Frames) /\ callStack \in Seq(DOMAIN program)
        /\ frames[1].fn \notin BlackListed
        /\ ppc = "run" /\ ~ unwound => Stacked(n, k, callStack, finished)
    BY <1>1, <1>2 DEF RunsAt
  <1>4. f \notin BlackListed
    <2>1. f \in BlackListed => program[f][k].kind \notin Wrappers
      BY <1>2, <1>3, BodyIs, Zenon
    <2>. QED  BY <1>1, <1>3, <2>1 DEF Wrappers
  <1>5. ppc = "run"
    BY <1>1, <1>3, Booleans DEF Over
  <1>6. /\ program[f][k].what = f /\ InsideAt(f, k) /\ ~ InsideAt(f, k + 1)
        /\ ~ IsExit(program[f][k]) /\ IsExit(program[f][k + 1])
    BY <1>1, <1>2, <1>3, <1>4, <1>5, ExitingAt
  <1>7. unwound
    <2>. SUFFICES ASSUME ~ unwound PROVE FALSE
      OBVIOUS
    <2>1. Stacked(n, k, callStack, finished)
      BY <1>3, <1>5, Zenon
    <2>3. n \in 1 .. Len(frames)
      BY <1>3
    <2> HIDE DEF n, k
    <2>2. callStack # <<>> /\ Last(callStack) = f
      BY <1>3, <1>6, <2>1, <2>3, StackedExits, Zenon
    <2>. QED  BY <1>1, <1>3, <1>6, <2>2, Zenon
  <1>. QED  BY <1>1, <1>5, <1>7, Ends, Zenon

\* An activation that goes on inside of its function.
LEMMA StackedLands ==
  ASSUME NEW n, NEW k, NEW q, NEW calls, NEW over, Stacked(n, k, calls, over),
         ppc = "run", frames[1].fn \notin BlackListed,
         ~ IsExit(program[frames[n].fn][k]),
         frames[n].fn \notin BlackListed => InsideAt(frames[n].fn, k),
         Landed(frames[n].fn, q)
  PROVE  Stacked(n, q, calls, over)
  <1> DEFINE f == frames[n].fn
  <1>1. InsideAt(f, k) <=> InsideAt(f, q)
    BY Zenon DEF Landed, InsideAt
  <1>2. n = 1 => ~ IsExit(program[f][q])
    BY Zenon DEF Landed, InsideAt
  <1>. QED  BY <1>1, <1>2, Zenon DEF Stacked

\* A function that has been left is not on the call stack any more.
LEMMA StackedReturns ==
  ASSUME frames \in Seq(Frames), NEW n \in 1 .. Len(frames), n > 1, NEW k, NEW q,
         NEW calls \in Seq(DOMAIN program), NEW over, Stacked(n, k, calls, over),
         ppc = "run", frames[1].fn \notin BlackListed,
         IsExit(program[frames[n].fn][k]),
         Landed(frames[n - 1].fn, q)
  PROVE  Stacked(n - 1, q, calls, over)
  <1> DEFINE m == n - 1
             g == frames[m].fn
  <1>1. n \in Nat /\ m \in 1 .. m /\ m \in Nat /\ m - 1 \in Nat /\ (m - 1) + 1 = m /\ n # 1
    OBVIOUS
  <1>2. /\ Len(calls) = Ranked(frames, m) /\ ~ over
        /\ \A d \in 1 .. m : frames[d].fn \notin BlackListed =>
              calls[Ranked(frames, d)] = frames[d].fn
    <2>1. ~ InsideAt(frames[n].fn, k)
      BY Zenon DEF InsideAt
    <2>2. Len(calls) = Ranked(frames, m) + 0
      BY <2>1, Zenon DEF Stacked
    <2>3. Ranked(frames, m) \in Nat
      BY <1>1, RankedNext
    <2>. QED  BY <1>1, <2>2, <2>3 DEF Stacked
  <1>3. /\ Ranked(frames, m - 1) \in Nat
        /\ Ranked(frames, m) = Ranked(frames, m - 1) + (IF g \in BlackListed THEN 0 ELSE 1)
    <2>1. /\ Ranked(frames, m - 1) \in Nat
          /\ Ranked(frames, (m - 1) + 1)
               = Ranked(frames, m - 1) + (IF frames[(m - 1) + 1].fn \in BlackListed THEN 0 ELSE 1)
      BY <1>1, RankedNext
    <2>. QED  BY <1>1, <2>1
  <1>4. InsideAt(g, q) <=> g \notin BlackListed
    BY Zenon DEF Landed, InsideAt
  <1>5. m = 1 => ~ IsExit(program[g][q])
    BY Zenon DEF Landed, InsideAt
  <1>6. \A d \in 1 .. m - 1 : frames[d].fn \notin BlackListed =>
           calls[Ranked(frames, d)] = frames[d].fn
    BY <1>1, <1>2
  <1>7. InsideAt(g, q) => Last(calls) = g
    BY <1>1, <1>2, <1>4, Zenon DEF Last
  <1> HIDE DEF m, g
  <1>8. Len(calls) = Ranked(frames, m - 1) + (IF InsideAt(g, q) THEN 1 ELSE 0)
    BY <1>2, <1>3, <1>4
  <1>. QED  BY <1>2, <1>5, <1>6, <1>7, <1>8, Zenon DEF Stacked, m, g

\* A function that is called is not on the call stack yet.
LEMMA StackedCalls ==
  ASSUME frames \in Seq(Frames), NEW n \in 1 .. Len(frames), NEW k,
         NEW calls \in Seq(DOMAIN program), NEW over, Stacked(n, k, calls, over),
         ~ IsExit(program[frames[n].fn][k]),
         frames[n].fn \notin BlackListed => InsideAt(frames[n].fn, k)
  PROVE  /\ Len(calls) = Ranked(frames, n) /\ ~ over
         /\ \A d \in 1 .. n : frames[d].fn \notin BlackListed =>
               calls[Ranked(frames, d)] = frames[d].fn
  <1> DEFINE f == frames[n].fn
  <1>1. n \in Nat /\ n - 1 \in Nat /\ (n - 1) + 1 = n
    OBVIOUS
  <1>2. InsideAt(f, k) <=> f \notin BlackListed
    BY Zenon DEF InsideAt
  <1>3. /\ Ranked(frames, n - 1) \in Nat
        /\ Ranked(frames, n) = Ranked(frames, n - 1) + (IF f \in BlackListed THEN 0 ELSE 1)
    <2>1. /\ Ranked(frames, n - 1) \in Nat
          /\ Ranked(frames, (n - 1) + 1)
               = Ranked(frames, n - 1) + (IF frames[(n - 1) + 1].fn \in BlackListed THEN 0 ELSE 1)
      BY <1>1, RankedNext
    <2>. QED  BY <1>1, <2>1
  <1>4. /\ Len(calls) = Ranked(frames, n - 1) + (IF InsideAt(f, k) THEN 1 ELSE 0)
        /\ \A d \in 1 .. n - 1 : frames[d].fn \notin BlackListed =>
              calls[Ranked(frames, d)] = frames[d].fn
        /\ InsideAt(f, k) => Last(calls) = f
        /\ over <=> n = 1 /\ IsExit(program[f][k])
    BY Zenon DEF Stacked
  <1>5. Len(calls) = Ranked(frames, n)
    BY <1>2, <1>3, <1>4
  <1>6. \A d \in 1 .. n : frames[d].fn \notin BlackListed =>
           calls[Ranked(frames, d)] = frames[d].fn
    <2>. TAKE d \in 1 .. n
    <2>. HAVE frames[d].fn \notin BlackListed
    <2>1. CASE d = n
      <3>1. f \notin BlackListed
        BY <2>1, Zenon
      <3>2. Last(calls) = calls[Ranked(frames, n)]
        BY <1>5, Zenon DEF Last
      <3>3. Last(calls) = f
        BY <1>2, <1>4, <3>1, Zenon
      <3>. QED  BY <2>1, <3>2, <3>3, Zenon
    <2>2. CASE d # n
      <3>1. d \in 1 .. n - 1
        BY <1>1, <2>2
      <3>. QED  BY <1>4, <3>1, Zenon
    <2>. QED  BY <2>1, <2>2
  <1>. QED  BY <1>4, <1>5, <1>6, Zenon

\* An instruction of the program.
LEMMA PerformStep ==
  ASSUME CoreInv, Perform
  PROVE  CoreInv'
  <1> DEFINE n == Len(frames)
             f == frames[n].fn
             k == frames[n].at
             q == Following(f, k)
  <1>1. /\ Running /\ Advance /\ announced' = NotVisible
        /\ \/ Current.kind \in {"access", "branch"}
           \/ IsCall(Current) /\ Current.what \notin Leaving
        /\ unregistered' = (unregistered \/ Performs(Current) = "Spawn")
        /\ UNCHANGED <<passVars, first, left>>
        /\ UNCHANGED <<callStack, registered, finished, unwound>>
    BY DEF Perform
  <1>2. RunsAt(n) /\ PassInv
    BY <1>1, RunningIs DEF CoreInv
  <1>3. /\ n \in 1 .. n /\ Over /\ Top = frames[n] /\ Current = program[f][k]
        /\ f \in DOMAIN program /\ k \in DOMAIN program[f]
        /\ frames[1].fn \notin BlackListed
        /\ ppc = "run" /\ ~ unwound => Stacked(n, k, callStack, finished)
    BY <1>1, <1>2 DEF RunsAt
  <1>4. /\ Landed(f, q) /\ ~ IsExit(program[f][k])
        /\ f \notin BlackListed /\ ppc = "run" => InsideAt(f, k)
    BY <1>1, <1>2, <1>3, GoesOn
  <1>5. frames' = Resumed(n, q)
    BY <1>1, <1>3, AdvanceIs, Zenon
  <1> HIDE DEF q
  <1>6. q \in DOMAIN program[f]
    BY <1>4, Zenon DEF Landed
  <1>7. ppc = "run" => announced' = IF f \in BlackListed THEN NotVisible
                                    ELSE Performs(program[f][q])
    BY <1>1, <1>4, Zenon DEF Landed
  <1>8. ppc = "run" /\ ~ unwound' => Stacked(n, q, callStack', finished')
    BY <1>1, <1>3, <1>4, StackedLands, Zenon
  <1>9. /\ callStack' \in Seq(DOMAIN program) /\ unregistered' \in BOOLEAN
        /\ finished' \in BOOLEAN /\ unwound' \in BOOLEAN /\ registered' \in BOOLEAN
        /\ ppc = "gave_up" =>
              ~ registered' /\ callStack' = <<>> /\ ~ finished' /\ announced' = NotVisible
    BY <1>1, Booleans, Zenon
  <1>. QED  BY <1>1, <1>3, <1>5, <1>6, <1>7, <1>8, <1>9, MovesOn, Zenon

\* A call: what is called starts at its first instruction.
LEMMA CallStep ==
  ASSUME CoreInv, CallFunction
  PROVE  CoreInv'
  <1> DEFINE n == Len(frames)
             f == frames[n].fn
             k == frames[n].at
             g == Current.what
  <1>1. /\ Running /\ IsCall(Current) /\ HasBody(g)
        /\ frames' = Append(frames, Frame(g, 1))
        /\ UNCHANGED <<passVars, first, left>>
        /\ UNCHANGED <<callStack, registered, unregistered, announced, finished, unwound>>
    BY DEF CallFunction
  <1>2. RunsAt(n) /\ PassInv
    BY <1>1, RunningIs DEF CoreInv
  <1>3. /\ n \in 1 .. n /\ n \in Nat /\ Over /\ Top = frames[n] /\ Current = program[f][k]
        /\ n \in 1 .. Len(frames) /\ DOMAIN frames = 1 .. n
        /\ f \in DOMAIN program /\ k \in DOMAIN program[f]
        /\ frames \in Seq(Frames) /\ callStack \in Seq(DOMAIN program)
        /\ first # "none" /\ frames[1].fn = first
        /\ \A d \in 1 .. n : /\ frames[d].fn \in DOMAIN program
                             /\ frames[d].at \in DOMAIN program[frames[d].fn]
        /\ \A d \in 1 .. n - 1 : IsCall(At(d)) /\ HasBody(At(d).what)
        /\ ppc = "run" => announced = IF f \in BlackListed THEN NotVisible ELSE Performs(Current)
        /\ ppc = "gave_up" => announced = NotVisible
        /\ ppc = "run" /\ ~ unwound => Stacked(n, k, callStack, finished)
    <2>1. n \in 1 .. n /\ n \in Nat /\ n \in 1 .. Len(frames) /\ DOMAIN frames = 1 .. n
      BY <1>2 DEF RunsAt
    <2>2. /\ Over /\ Top = frames[n] /\ Current = program[f][k]
          /\ frames \in Seq(Frames) /\ callStack \in Seq(DOMAIN program)
          /\ first # "none" /\ frames[1].fn = first
      BY <1>2, Zenon DEF RunsAt
    <2>3. \A d \in 1 .. n : /\ frames[d].fn \in DOMAIN program
                            /\ frames[d].at \in DOMAIN program[frames[d].fn]
      BY <1>2, Zenon DEF RunsAt
    <2>4. /\ \A d \in 1 .. n - 1 : IsCall(At(d)) /\ HasBody(At(d).what)
          /\ ppc = "run" => announced = IF f \in BlackListed THEN NotVisible
                                        ELSE Performs(Current)
          /\ ppc = "gave_up" => announced = NotVisible
          /\ ppc = "run" /\ ~ unwound => Stacked(n, k, callStack, finished)
      BY <1>2, Zenon DEF RunsAt
    <2>. QED  BY <2>1, <2>2, <2>3, <2>4, Zenon
  <1>4. /\ program' = program /\ todo' = todo /\ ppc' = ppc /\ first' = first
        /\ left' = left /\ left = "no"
    BY <1>1 DEF passVars, Running
  <1>5. /\ g \in DOMAIN program /\ g \notin Library
        /\ 1 \in DOMAIN program[g] /\ ~ InsideAt(g, 1)
        /\ g \notin BlackListed /\ ppc = "run" =>
              Performs(program[g][1]) = NotVisible /\ ~ IsExit(program[g][1])
    <2>1. g \in DOMAIN program /\ program[g] # <<>>
      BY <1>1, Zenon DEF HasBody
    <2>2. /\ 1 \in DOMAIN program[g] /\ ~ InsideAt(g, 1)
          /\ g \notin BlackListed /\ ppc = "run" =>
                Performs(program[g][1]) = NotVisible /\ ~ IsExit(program[g][1])
      BY <1>2, <1>3, <2>1, StartsOutside, Zenon
    <2>3. g \notin Library
      BY <2>1, <1>2, Zenon DEF PassInv
    <2>. QED  BY <2>1, <2>2, <2>3
  <1>6. Performs(Current) = NotVisible /\ ~ IsExit(Current)
    BY <1>1, <1>5, PerformsWhat DEF Library
  <1>7. f \notin BlackListed /\ ppc = "run" => InsideAt(f, k)
    <2>1. Current.kind \notin {"enter", "register_main"}
      BY <1>1 DEF IsCall
    <2>. QED  BY <1>2, <1>3, <1>6, <2>1, ProgramIsInside, Zenon DEF InsideAt
  <1> HIDE DEF g
  <1>8. Frame(g, 1) \in Frames /\ Frame(g, 1).fn = g /\ Frame(g, 1).at = 1
    BY <1>5 DEF Frame, Frames
  <1>9. /\ frames' \in Seq(Frames) /\ Len(frames') = n + 1 /\ DOMAIN frames' = 1 .. n + 1
        /\ \A d \in 1 .. n : frames'[d] = frames[d]
        /\ frames'[n + 1] = Frame(g, 1)
    BY <1>1, <1>3, <1>8
  <1>10. Top' = Frame(g, 1) /\ Current' = program[g][1] /\ frames' # <<>>
    <2>1. Top' = Frame(g, 1)
      BY <1>9, Zenon DEF Top, Last
    <2>2. frames' # <<>>
      BY <1>3, <1>9
    <2>. QED  BY <1>4, <1>8, <2>1, <2>2, Zenon DEF Current
  <1>11. \A d \in 1 .. n + 1 : d = n + 1 \/ d \in 1 .. n
    BY <1>3
  <1>12. TypeOK'
    <2>1. \A d \in DOMAIN frames' :
             frames'[d].fn \in DOMAIN program' /\ frames'[d].at \in DOMAIN program'[frames'[d].fn]
      <3>. TAKE d \in DOMAIN frames'
      <3>1. d = n + 1 \/ d \in 1 .. n
        BY <1>9, <1>11
      <3>. QED  BY <3>1, <1>3, <1>4, <1>5, <1>8, <1>9, Zenon
    <2>2. /\ ToSet(callStack') \subseteq DOMAIN program
          /\ todo \subseteq DOMAIN program
          /\ ppc \in {"start", "functions", "run", "gave_up", "crashed"}
          /\ first \in DOMAIN program \cup {"none"}
          /\ left \in {"no", "returned", "exited", "invalid", "terminated"}
          /\ {registered', unregistered', finished', unwound'} \subseteq BOOLEAN
      BY <1>1 DEF CoreInv, TypeOK
    <2>. QED  BY <1>4, <2>1, <2>2, Zenon DEF TypeOK
  <1>13. PassInv'
    BY <1>2, <1>4 DEF PassInv, Entry
  <1>14. StartInv'
    <2>1. frames'[1].fn = first'
      <3>1. 1 \in 1 .. n
        BY <1>3
      <3>. QED  BY <3>1, <1>3, <1>4, <1>9, Zenon
    <2>2. /\ first \in {"none", "main", StartRoutine, StaticInitializer}
          /\ ppc \notin {"run", "gave_up"} => first = "none"
      BY Zenon DEF CoreInv, StartInv
    <2>. QED  BY <1>3, <1>4, <1>10, <2>1, <2>2, Zenon DEF StartInv
  <1>15. StackInv'
    <2>1. \A d \in DOMAIN frames' : d < Len(frames') => IsCall(At(d)') /\ HasBody(At(d).what)'
      <3>. TAKE d \in DOMAIN frames'
      <3>. HAVE d < Len(frames')
      <3>1. d \in 1 .. n /\ (d = n \/ d \in 1 .. n - 1)
        BY <1>3, <1>9
      <3>2. At(d)' = At(d)
        BY <3>1, <1>4, <1>9, Zenon DEF At
      <3>3. d = n => At(d) = Current
        BY <1>3, Zenon DEF At
      <3>4. HasBody(Current.what)
        BY <1>1, Zenon DEF g
      <3>. QED  BY <3>1, <3>2, <3>3, <3>4, <1>1, <1>3, <1>4, Zenon DEF HasBody
    <2>2. callStack' \in Seq(DOMAIN program')
      BY <1>1, <1>3, <1>4
    <2>. QED  BY <1>4, <1>9, <2>1, <2>2, Zenon DEF StackInv, Frames
  <1>16. GaveUpInv'
    BY <1>1, <1>4 DEF CoreInv, GaveUpInv
  <1>17. AnnouncedIffPerformed'
    BY <1>1, <1>3, <1>4, <1>5, <1>6, <1>8, <1>10, Zenon DEF AnnouncedIffPerformed
  <1>18. ASSUME ppc = "run", ~ unwound'
         PROVE  /\ Len(callStack') = Rank(Len(frames) - 1)' + (IF Inside' THEN 1 ELSE 0)
                /\ \A d \in DOMAIN frames' :
                      d < Len(frames') /\ frames'[d].fn \notin BlackListed =>
                          callStack'[Rank(d)'] = frames'[d].fn
                /\ ~ Inside'
                /\ ~ finished' /\ Len(frames') # 1
    <2>1. /\ Len(callStack) = Ranked(frames, n) /\ ~ finished
          /\ \A d \in 1 .. n : frames[d].fn \notin BlackListed =>
                callStack[Ranked(frames, d)] = frames[d].fn
      <3>1. Stacked(n, k, callStack, finished) /\ ~ IsExit(program[f][k])
             /\ (f \notin BlackListed => InsideAt(f, k))
        BY <1>1, <1>3, <1>6, <1>7, <1>18, Zenon
      <3>. QED  BY <1>3, <3>1, StackedCalls, Zenon
    <2>2. ~ Inside'
      BY <1>4, <1>5, <1>8, <1>10, Zenon DEF Inside, InsideAt, Entry
    <2>3. ASSUME NEW d \in 1 .. n PROVE Rank(d)' = Ranked(frames, d)
      <3>1. d \in Nat /\ \A e \in 1 .. d : frames'[e].fn = frames[e].fn
        BY <1>3, <1>9
      <3>2. Ranked(frames', d) = Ranked(frames, d)
        BY <3>1, RankedSame
      <3>. QED  BY <3>2, Zenon DEF Rank, Ranked
    <2>4. Rank(Len(frames) - 1)' = Ranked(frames, n)
      <3>1. Len(frames') - 1 = n
        BY <1>3, <1>9
      <3>2. Ranked(frames', n) = Ranked(frames, n)
        <4>1. \A e \in 1 .. n : frames'[e].fn = frames[e].fn
          BY <1>9, Zenon
        <4>. QED  BY <1>3, <4>1, RankedSame, Zenon
      <3>. QED  BY <3>1, <3>2, Zenon DEF Rank, Ranked
    <2>5. \A d \in DOMAIN frames' :
             d < Len(frames') /\ frames'[d].fn \notin BlackListed =>
                 callStack'[Rank(d)'] = frames'[d].fn
      <3>. TAKE d \in DOMAIN frames'
      <3>. HAVE d < Len(frames') /\ frames'[d].fn \notin BlackListed
      <3>1. d \in 1 .. n
        BY <1>3, <1>9
      <3>. QED  BY <3>1, <1>1, <1>9, <2>1, <2>3, Zenon
    <2>6. Len(frames') # 1
      BY <1>3, <1>9
    <2>7. Ranked(frames, n) + 0 = Ranked(frames, n)
      <3>1. Ranked(frames, n) \in Nat
        BY <1>3, RankedNext
      <3>. QED  BY <3>1
    <2>. QED  BY <1>1, <2>1, <2>2, <2>4, <2>5, <2>6, <2>7, Zenon
  <1>19. CallsInv'
    BY <1>4, <1>18, Zenon DEF CallsInv
  <1>20. FinishedInv'
    BY <1>4, <1>18, Zenon DEF FinishedInv
  <1>21. EndedInv'
    BY <1>4 DEF EndedInv
  <1>. QED  BY <1>12, <1>13, <1>14, <1>15, <1>16, <1>17, <1>19, <1>20, <1>21 DEF CoreInv

\* A return: the caller goes on after the call, or the thread ends.
LEMMA ReturnStep ==
  ASSUME CoreInv, ReturnFromFunction
  PROVE  CoreInv'
  <1> DEFINE n == Len(frames)
             f == frames[n].fn
             k == frames[n].at
             g == frames[n - 1].fn
             q == Following(g, frames[n - 1].at)
  <1>1. /\ Running /\ Current = Return
        /\ n = 1 => left' = "returned" /\ frames' = frames
        /\ n # 1 => frames' = Advanced(Front(frames)) /\ left' = left
        /\ UNCHANGED <<passVars, first>>
        /\ UNCHANGED <<callStack, registered, unregistered, announced, finished, unwound>>
    BY DEF ReturnFromFunction
  <1>2. RunsAt(n) /\ PassInv
    BY <1>1, RunningIs DEF CoreInv
  <1>3. /\ n \in 1 .. n /\ n \in Nat /\ Over /\ Current = program[f][k]
        /\ n \in 1 .. Len(frames)
        /\ frames \in Seq(Frames) /\ callStack \in Seq(DOMAIN program)
        /\ frames[1].fn \notin BlackListed
        /\ \A d \in 1 .. n : /\ frames[d].fn \in DOMAIN program
                             /\ frames[d].at \in DOMAIN program[frames[d].fn]
        /\ \A d \in 1 .. n - 1 : IsCall(At(d)) /\ HasBody(At(d).what)
        /\ ppc = "run" => announced = IF f \in BlackListed THEN NotVisible ELSE Performs(Current)
        /\ ppc = "gave_up" => announced = NotVisible
        /\ ppc = "run" /\ ~ unwound => Stacked(n, k, callStack, finished)
    BY <1>1, <1>2 DEF RunsAt
  <1>4. IsExit(Current) /\ Performs(Current) = NotVisible
    <2>1. Return.kind = "return"
      BY DEF Return, Instr
    <2>2. IsExit(Current)
      BY <1>1, <2>1 DEF IsExit
    <2>. QED  BY <2>2, PerformsWhat, Zenon
  <1>5. CASE n = 1
    <2>1. ~ unwound /\ ppc = "run" => finished
      BY <1>3, <1>4, <1>5, Zenon DEF Stacked
    <2>. QED  BY <1>1, <1>5, <2>1, Ends
  <1>6. CASE n # 1
    <2>1. n - 1 \in 1 .. n - 1 /\ n - 1 \in 1 .. n /\ n > 1
      <3>1. n \in Nat /\ n # 0 /\ n # 1
        BY <1>1, <1>3, <1>6 DEF Running
      <3> HIDE DEF n
      <3>. QED  BY <3>1
    <2>2. /\ Landed(g, q)
      <3>1. g \in DOMAIN program /\ frames[n - 1].at \in DOMAIN program[g]
        BY <1>3, <2>1, Zenon
      <3>2. IsCall(program[g][frames[n - 1].at]) /\ HasBody(program[g][frames[n - 1].at].what)
        BY <1>3, <2>1, Zenon DEF At
      <3>3. program[g][frames[n - 1].at].what \notin Library
        BY <1>2, <3>2, Zenon DEF PassInv, HasBody
      <3>. QED  BY <1>2, <1>3, <3>1, <3>2, <3>3, GoesOn DEF Library
    <2>3. frames' = Resumed(n - 1, q)
      BY <1>1, <1>3, <1>6, <2>1, AdvancedIsResumed, Zenon DEF Running
    <2> HIDE DEF q
    <2>4. q \in DOMAIN program[g]
      BY <2>2, Zenon DEF Landed
    <2>5. ppc = "run" => announced' = IF g \in BlackListed THEN NotVisible
                                      ELSE Performs(program[g][q])
      BY <1>1, <1>3, <1>4, <2>2, Zenon DEF Landed
    <2>6. ppc = "run" /\ ~ unwound' => Stacked(n - 1, q, callStack', finished')
      BY <1>1, <1>3, <1>4, <2>1, <2>2, StackedReturns, Zenon
    <2>7. /\ callStack' \in Seq(DOMAIN program) /\ unregistered' \in BOOLEAN
          /\ finished' \in BOOLEAN /\ unwound' \in BOOLEAN /\ registered' \in BOOLEAN
          /\ ppc = "gave_up" =>
                ~ registered' /\ callStack' = <<>> /\ ~ finished' /\ announced' = NotVisible
      BY <1>1, <1>3, Booleans, Zenon
    <2>. QED  BY <1>1, <1>6, <2>1, <2>3, <2>4, <2>5, <2>6, <2>7, MovesOn, Zenon
  <1>. QED  BY <1>5, <1>6

\* pthread_exit
LEMMA ExitThreadStep ==
  ASSUME CoreInv, ExitThread
  PROVE  CoreInv'
  <1> DEFINE n == Len(frames)
  <1>1. /\ Running /\ IsCall(Current) /\ Current.what = "pthread_exit" /\ left' = "exited"
        /\ UNCHANGED <<passVars, first, frames, callStack, registered, unregistered,
                       announced, finished, unwound>>
    BY DEF ExitThread
  <1>2. RunsAt(n)
    BY <1>1, RunningIs
  <1>3. /\ Current = program[frames[n].fn][frames[n].at]
        /\ ppc = "run" /\ ~ unwound => Stacked(n, frames[n].at, callStack, finished)
    BY <1>2, Zenon DEF RunsAt
  <1>4. IsExit(Current) <=> Current.kind = "call"
    BY <1>1 DEF IsExit, IsCall
  <1>5. ~ unwound /\ ppc = "run" => (finished <=> n = 1 /\ Current.kind = "call")
    BY <1>3, <1>4, Zenon DEF Stacked
  <1>. QED  BY <1>1, <1>5, Ends

\* An exception goes on with a handler, or ends everything.
LEMMA UnwindStep ==
  ASSUME CoreInv, Running, NEW depth \in 0 .. Len(frames), Unwind(depth),
         UNCHANGED <<passVars, first, callStack, registered, unregistered, announced, finished>>,
         Performs(Current) = NotVisible,
         depth = Len(frames) \/ (depth = Len(frames) - 1 /\ IsExit(Current))
  PROVE  CoreInv'
  <1> DEFINE n == Len(frames)
             f == frames[n].fn
             k == frames[n].at
             handlers == {d \in 1 .. depth :
                              program[frames[d].fn][frames[d].at].kind = "invoke"}
             m == Max(handlers)
             h == frames[m]
             q == AfterLabel(h.fn, program[h.fn][h.at].to[2])
  <1>1. RunsAt(n) /\ PassInv
    BY RunningIs DEF CoreInv
  <1>2. /\ n \in 1 .. n /\ n \in Nat /\ Over /\ Current = program[f][k]
        /\ n \in 1 .. Len(frames)
        /\ f \in DOMAIN program /\ k \in DOMAIN program[f]
        /\ frames \in Seq(Frames) /\ callStack \in Seq(DOMAIN program)
        /\ frames[1].fn \notin BlackListed
        /\ \A d \in 1 .. n : /\ frames[d].fn \in DOMAIN program
                             /\ frames[d].at \in DOMAIN program[frames[d].fn]
        /\ ppc = "run" => announced = IF f \in BlackListed THEN NotVisible ELSE Performs(Current)
        /\ ppc = "gave_up" => announced = NotVisible
        /\ ppc = "run" /\ ~ unwound => Stacked(n, k, callStack, finished)
    <2>1. n \in 1 .. n /\ n \in Nat /\ n \in 1 .. Len(frames) /\ frames[1].fn \notin BlackListed
      <3>1. n = Len(frames) /\ n \in Nat /\ n >= 1 /\ frames[1].fn = first /\ first \notin BlackListed
        BY <1>1, Zenon DEF RunsAt
      <3> HIDE DEF n
      <3>. QED  BY <3>1
    <2>. QED  BY <1>1, <2>1, Zenon DEF RunsAt
  <1>3. /\ handlers = {} => left' = "terminated" /\ frames' = frames /\ unwound' = unwound
        /\ handlers # {} =>
              /\ frames' = Append(SubSeq(frames, 1, m - 1), Frame(h.fn, q))
              /\ unwound' = (unwound \/ m < depth)
              /\ left' = left
    BY DEF Unwind
  <1>4. CASE handlers = {}
    BY <1>3, <1>4, Ends
  <1>5. CASE handlers # {}
    <2>1. m \in handlers
      <3>1. depth \in Nat /\ handlers \in SUBSET (1 .. depth)
        BY <1>2
      <3> HIDE DEF handlers
      <3>. QED  BY <3>1, <1>5, GreatestNumber
    <2>2. m \in 1 .. depth /\ program[h.fn][h.at].kind = "invoke"
      BY <2>1, Zenon
    <2> HIDE DEF m
    <2>3. m \in 1 .. n /\ m \in Nat /\ m <= depth
      BY <1>2, <2>2
    <2>4. h.fn \in DOMAIN program /\ h.at \in DOMAIN program[h.fn]
      BY <1>2, <2>3, Zenon
    <2>5. 2 \in DOMAIN program[h.fn][h.at].to
      <3>1. HasBlocks(program[h.fn])
        BY <1>1, <2>4, Zenon DEF PassInv
      <3>2. program[h.fn][h.at] \in Instruction /\ Len(program[h.fn][h.at].to) = 2
        <4>1. program[h.fn] \in Seq(Instruction) /\ Len(program[h.fn][h.at].to) = 2
          BY <3>1, <2>2, <2>4, Zenon DEF HasBlocks
        <4> HIDE DEF h
        <4>. QED  BY <4>1, <2>4
      <3> HIDE DEF h
      <3>3. program[h.fn][h.at].to \in Seq(STRING)
        BY <3>2 DEF Instruction
      <3>. QED  BY <3>2, <3>3
    <2>6. Landed(h.fn, q)
      BY <1>1, <1>2, <2>4, <2>5, AfterJump, Zenon
    <2>7. frames' = Resumed(m, q)
      BY <1>3, <1>5, Zenon DEF Resumed
    <2> HIDE DEF q
    <2>8. q \in DOMAIN program[frames[m].fn]
      BY <2>6, Zenon DEF Landed
    <2>9. ppc = "run" => announced' = IF frames[m].fn \in BlackListed THEN NotVisible
                                      ELSE Performs(program[frames[m].fn][q])
      BY <1>2, <2>6, Zenon DEF Landed
    <2>10. ASSUME ppc = "run", ~ unwound' PROVE Stacked(m, q, callStack', finished')
      <3>1. m = depth /\ ~ unwound
        <4>1. ~ unwound /\ ~ (m < depth)
          BY <1>3, <1>5, <2>10, Zenon
        <4>2. depth \in Nat
          BY <1>2
        <4>. QED  BY <2>3, <4>1, <4>2
      <3>2. Stacked(n, k, callStack, finished)
        BY <1>2, <2>10, <3>1, Zenon
      <3>3. CASE depth = n
        <4>1. f = h.fn /\ k = h.at
          BY <3>1, <3>3, Zenon
        <4>2. program[f][k].kind = "invoke"
          BY <2>2, <4>1, Zenon
        <4>3. ~ IsExit(program[f][k])
          BY <4>2 DEF IsExit
        <4>4. f \notin BlackListed => InsideAt(f, k)
          <5>. HAVE f \notin BlackListed
          <5>1. k > Entry(f)
            BY <1>1, <1>2, <2>10, <4>2, ProgramIsInside
          <5>. QED  BY <4>3, <5>1, Zenon DEF InsideAt
        <4>5. Landed(f, q)
          BY <2>6, <4>1, Zenon
        <4>6. Stacked(n, q, callStack, finished)
          BY <1>2, <2>10, <3>2, <4>3, <4>4, <4>5, StackedLands, Zenon
        <4>. QED  BY <3>1, <3>3, <4>6, Zenon
      <3>4. CASE depth # n
        <4>1. depth = n - 1 /\ m = n - 1 /\ n > 1 /\ IsExit(program[f][k])
          BY <1>2, <2>3, <3>1, <3>4
        <4>2. Landed(frames[n - 1].fn, q)
          BY <2>6, <4>1, Zenon
        <4>3. Stacked(n - 1, q, callStack, finished)
          BY <1>2, <2>10, <3>2, <4>1, <4>2, StackedReturns, Zenon
        <4>. QED  BY <4>1, <4>3, Zenon
      <3>. QED  BY <3>3, <3>4
    <2>11. /\ callStack' \in Seq(DOMAIN program) /\ unregistered' \in BOOLEAN
           /\ finished' \in BOOLEAN /\ unwound' \in BOOLEAN /\ registered' \in BOOLEAN
           /\ ppc = "gave_up" =>
                 ~ registered' /\ callStack' = <<>> /\ ~ finished' /\ announced' = NotVisible
      BY <1>2, <1>3, <1>5, Booleans, Zenon
    <2>. QED  BY <1>3, <1>5, <2>3, <2>7, <2>8, <2>9, <2>10, <2>11, MovesOn, Zenon
  <1>. QED  BY <1>4, <1>5

LEMMA ThrowStep ==
  ASSUME CoreInv, Throw
  PROVE  CoreInv'
  <1>1. /\ Running /\ IsCall(Current) /\ Current.what \in {"throw", "library"}
        /\ Unwind(Len(frames))
        /\ UNCHANGED <<passVars, first, callStack, registered, unregistered, announced, finished>>
    BY DEF Throw
  <1>2. Len(frames) \in 0 .. Len(frames)
    BY DEF CoreInv, StackInv
  <1>3. Performs(Current) = NotVisible
    <2> DEFINE operationOf == [pthread_create |-> "Spawn", pthread_mutex_lock |-> "Lock",
                               pthread_mutex_unlock |-> "Unlock"]
    <2>1. DOMAIN operationOf = {"pthread_create", "pthread_mutex_lock", "pthread_mutex_unlock"}
      OBVIOUS
    <2>2. Performs(Current)
            = IF Current.kind = "access" /\ Current.what \in {"Load", "Store", "ReadModifyWrite"}
              THEN Current.what
              ELSE IF IsCall(Current) /\ Current.what \in Joins THEN "Join"
              ELSE IF IsCall(Current) /\ Current.what \in DOMAIN operationOf
              THEN operationOf[Current.what]
              ELSE NotVisible
      BY Zenon DEF Performs
    <2> HIDE DEF operationOf
    <2>. QED  BY <1>1, <2>1, <2>2 DEF IsCall, Joins
  <1>. QED  BY <1>1, <1>2, <1>3, UnwindStep, Zenon

LEMMA ResumeStep ==
  ASSUME CoreInv, ResumeException
  PROVE  CoreInv'
  <1>1. /\ Running /\ Current = Resume /\ Unwind(Len(frames) - 1)
        /\ UNCHANGED <<passVars, first, callStack, registered, unregistered, announced, finished>>
    BY DEF ResumeException
  <1>2. Len(frames) - 1 \in 0 .. Len(frames)
    <2>1. RunsAt(Len(frames))
      BY <1>1, RunningIs
    <2>. QED  BY <2>1 DEF RunsAt
  <1>3. IsExit(Current) /\ Performs(Current) = NotVisible
    <2>1. Resume.kind = "resume"
      BY DEF Resume, Instr
    <2>2. IsExit(Current)
      BY <1>1, <2>1 DEF IsExit
    <2>. QED  BY <2>2, PerformsWhat, Zenon
  <1>. QED  BY <1>1, <1>2, <1>3, UnwindStep, Zenon

-----------------------------------------------------------------------------
\* The thread starts with the first instruction of its first function.
LEMMA StartStep ==
  ASSUME CoreInv, Start
  PROVE  CoreInv'
  <1>1. PICK f \in {"main", StartRoutine, StaticInitializer} :
           /\ HasBody(f)
           /\ first' = f
           /\ frames' = <<Frame(f, 1)>>
           /\ registered' = (ppc = "run" /\ f = StartRoutine)
    BY DEF Start
  <1>2. /\ Over /\ first = "none"
        /\ program' = program /\ todo' = todo /\ ppc' = ppc
        /\ callStack' = callStack /\ unregistered' = unregistered
        /\ announced' = announced /\ finished' = finished /\ left' = left /\ unwound' = unwound
    BY DEF Start, Over, passVars
  <1>3. /\ callStack = <<>> /\ ~ unregistered /\ announced = NotVisible /\ ~ finished
        /\ left = "no" /\ ~ unwound /\ PassInv
    BY <1>2 DEF CoreInv, StartInv, ThreadInit
  <1>4. f \notin BlackListed /\ f # "none" /\ f \in DOMAIN program /\ program[f] # <<>>
    BY <1>1, FirstAssumption DEF HasBody
  <1>5. /\ 1 \in DOMAIN program[f] /\ ~ InsideAt(f, 1)
        /\ ppc = "run" => Performs(program[f][1]) = NotVisible /\ ~ IsExit(program[f][1])
    BY <1>2, <1>3, <1>4, StartsOutside, Zenon
  <1>6. Frame(f, 1) \in Frames /\ Frame(f, 1).fn = f /\ Frame(f, 1).at = 1
    BY <1>4 DEF Frame, Frames
  <1>7. /\ frames' \in Seq(Frames) /\ Len(frames') = 1 /\ DOMAIN frames' = {1} /\ frames' # <<>>
        /\ frames'[1] = Frame(f, 1)
    BY <1>1, <1>6
  <1>8. Top' = Frame(f, 1) /\ Current' = program[f][1]
    <2>1. Top' = Frame(f, 1)
      BY <1>7, Zenon DEF Top, Last
    <2>. QED  BY <1>2, <1>6, <2>1, Zenon DEF Current
  <1>9. TypeOK'
    <2>1. \A d \in DOMAIN frames' :
             frames'[d].fn \in DOMAIN program' /\ frames'[d].at \in DOMAIN program'[frames'[d].fn]
      <3>. TAKE d \in DOMAIN frames'
      <3>1. d = 1
        BY <1>7
      <3>. QED  BY <3>1, <1>2, <1>4, <1>5, <1>6, <1>7, Zenon
    <2>2. /\ ToSet(callStack') \subseteq DOMAIN program'
          /\ todo' \subseteq DOMAIN program'
          /\ ppc' \in {"start", "functions", "run", "gave_up", "crashed"}
          /\ left' \in {"no", "returned", "exited", "invalid", "terminated"}
      BY <1>2, <1>3, Zenon DEF CoreInv, TypeOK
    <2>3. {registered', unregistered', finished', unwound'} \subseteq BOOLEAN
      <3>1. registered' \in BOOLEAN
        BY <1>1, Zenon
      <3>2. unregistered' \in BOOLEAN /\ finished' \in BOOLEAN /\ unwound' \in BOOLEAN
        BY <1>2, Booleans, Zenon
      <3>. QED  BY <3>1, <3>2, Zenon
    <2>4. first' \in DOMAIN program' \cup {"none"}
      BY <1>1, <1>2, <1>4, Zenon
    <2>. QED  BY <2>1, <2>2, <2>3, <2>4, Zenon DEF TypeOK
  <1>10. PassInv'
    BY <1>2, <1>3 DEF PassInv, Entry
  <1>11. StartInv'
    <2>1. frames'[1].fn = first' /\ first' # "none"
      BY <1>1, <1>4, <1>6, <1>7, Zenon
    <2>. QED  BY <1>1, <1>2, <1>7, <2>1, Zenon DEF StartInv, Over
  <1>12. StackInv'
    <2>1. \A d \in DOMAIN frames' : ~ (d < Len(frames'))
      BY <1>7
    <2>2. callStack' \in Seq(DOMAIN program')
      BY <1>2, <1>3
    <2>. QED  BY <1>2, <1>7, <2>1, <2>2, Zenon DEF StackInv, Frames
  <1>13. GaveUpInv'
    BY <1>1, <1>2, <1>3 DEF GaveUpInv
  <1>14. AnnouncedIffPerformed'
    BY <1>2, <1>3, <1>4, <1>5, <1>6, <1>8, Zenon DEF AnnouncedIffPerformed
  <1>15. CallsInv'
    <2>1. ~ Inside'
      BY <1>2, <1>5, <1>6, <1>8, Zenon DEF Inside, InsideAt, Entry
    <2>2. Rank(Len(frames) - 1)' = 0
      <3>1. Len(frames') - 1 = 0
        BY <1>7
      <3>2. 0 \in Nat
        OBVIOUS
      <3>3. Ranked(frames', 0) = 0
        BY <3>2, RankedNext, Zenon
      <3>. QED  BY <3>1, <3>3, Zenon DEF Rank, Ranked
    <2>3. Len(callStack') = 0 /\ 0 + 0 = 0
      BY <1>2, <1>3
    <2>4. \A d \in DOMAIN frames' : ~ (d < Len(frames'))
      BY <1>7
    <2>. QED  BY <2>1, <2>2, <2>3, <2>4, Zenon DEF CallsInv
  <1>16. FinishedInv'
    BY <1>2, <1>3, <1>5, <1>8, Zenon DEF FinishedInv
  <1>17. EndedInv'
    BY <1>2, <1>3 DEF EndedInv
  <1>. QED  BY <1>9, <1>10, <1>11, <1>12, <1>13, <1>14, <1>15, <1>16, <1>17 DEF CoreInv

\* Nothing runs before the pass is over.
LEMMA NothingRuns ==
  ASSUME PassInv', first = "none", ThreadInit, UNCHANGED threadVars,
         todo' \subseteq DOMAIN program',
         ppc' \in {"start", "functions", "run", "gave_up", "crashed"}
  PROVE  CoreInv'
  <1>1. /\ first' = "none" /\ frames' = <<>> /\ callStack' = <<>>
        /\ registered' = FALSE /\ unregistered' = FALSE /\ announced' = NotVisible
        /\ finished' = FALSE /\ left' = "no" /\ unwound' = FALSE
    BY DEF ThreadInit, threadVars
  <1>2. ThreadInit' /\ ~ Running'
    BY <1>1 DEF ThreadInit, Running
  <1>3. TypeOK'
    <2>1. ToSet(callStack') = {} /\ DOMAIN frames' = {}
      BY <1>1 DEF ToSet
    <2>. QED  BY <1>1, <2>1 DEF TypeOK
  <1>4. StartInv'
    BY <1>1, <1>2 DEF StartInv
  <1>5. StackInv'
    BY <1>1 DEF StackInv
  <1>6. GaveUpInv'
    BY <1>1 DEF GaveUpInv
  <1>7. AnnouncedIffPerformed'
    BY <1>1, <1>2, Zenon DEF AnnouncedIffPerformed
  <1>8. CallsInv' /\ FinishedInv'
    BY <1>2, Zenon DEF CallsInv, FinishedInv
  <1>9. EndedInv'
    BY <1>1 DEF EndedInv
  <1>. QED  BY <1>3, <1>4, <1>5, <1>6, <1>7, <1>8, <1>9 DEF CoreInv

LEMMA PassPart ==
  ASSUME CoreInv, PassNext, UNCHANGED threadVars
  PROVE  CoreInv'
  <1>1. PassInv'
    BY PassStep, Zenon DEF CoreInv
  <1>2. ppc \in {"start", "functions"}
    BY DEF PassNext, OnStartOfPass, RunOnFunction, OnEndOfPass
  <1>3. first = "none" /\ ThreadInit
    BY <1>2 DEF CoreInv, StartInv
  <1>4. todo \subseteq DOMAIN program /\ ppc \in {"start", "functions", "run", "gave_up", "crashed"}
    BY Zenon DEF CoreInv, TypeOK
  <1>5. /\ todo' \subseteq todo /\ DOMAIN program' = DOMAIN program
        /\ ppc' \in {"start", "functions", "run", "gave_up", "crashed"}
    <2>1. CASE OnStartOfPass
      BY <2>1, <1>4 DEF OnStartOfPass
    <2>2. CASE RunOnFunction
      <3>1. PICK f \in todo :
               /\ todo' = todo \ {f}
               /\ \/ program' = program /\ ppc' \in {ppc, "crashed"}
                  \/ /\ program' = [program EXCEPT ![f] = Instrumented(f, program[f])]
                     /\ ppc' \in {ppc, "gave_up"}
        BY <2>2 DEF RunOnFunction
      <3>. QED  BY <3>1, <1>4
    <2>3. CASE OnEndOfPass
      BY <2>3 DEF OnEndOfPass
    <2>. QED  BY <2>1, <2>2, <2>3 DEF PassNext
  <1>6. todo' \subseteq DOMAIN program'
    BY <1>4, <1>5
  <1>. QED  BY <1>1, <1>3, <1>5, <1>6, NothingRuns

LEMMA NothingHappens ==
  ASSUME CoreInv, UNCHANGED vars
  PROVE  CoreInv'
  <1>1. /\ program' = program /\ todo' = todo /\ ppc' = ppc /\ first' = first
        /\ frames' = frames /\ callStack' = callStack /\ registered' = registered
        /\ unregistered' = unregistered /\ announced' = announced /\ finished' = finished
        /\ left' = left /\ unwound' = unwound
    BY DEF vars, passVars, threadVars
  <1>2. Top' = Top /\ Current' = Current /\ (Running' <=> Running) /\ (Inside' <=> Inside)
    BY <1>1 DEF Top, Current, Running, Inside, Entry
  <1>3. TypeOK'
    BY <1>1 DEF CoreInv, TypeOK
  <1>4. PassInv'
    BY <1>1 DEF CoreInv, PassInv, Entry
  <1>5. StartInv'
    BY <1>1 DEF CoreInv, StartInv, ThreadInit
  <1>6. StackInv' /\ GaveUpInv'
    BY <1>1 DEF CoreInv, StackInv, GaveUpInv, HasBody, At
  <1>7. AnnouncedIffPerformed'
    BY <1>1, <1>2 DEF CoreInv, AnnouncedIffPerformed
  <1>8. CallsInv' /\ FinishedInv'
    BY <1>1, <1>2 DEF CoreInv, CallsInv, FinishedInv, Rank
  <1>9. EndedInv'
    BY <1>1, <1>2 DEF CoreInv, EndedInv
  <1>. QED  BY <1>3, <1>4, <1>5, <1>6, <1>7, <1>8, <1>9 DEF CoreInv

LEMMA CoreInitially ==
  ASSUME Init
  PROVE  CoreInv
  <1>1. /\ first = "none" /\ frames = <<>> /\ callStack = <<>>
        /\ registered = FALSE /\ unregistered = FALSE /\ announced = NotVisible
        /\ finished = FALSE /\ left = "no" /\ unwound = FALSE /\ ThreadInit
    BY DEF Init, ThreadInit
  <1>2. ~ Running
    BY <1>1 DEF Running
  <1>3. PassInv
    BY PassInitially, Zenon DEF Init
  <1>4. TypeOK
    <2>1. ToSet(callStack) = {} /\ DOMAIN frames = {}
      BY <1>1 DEF ToSet
    <2>2. todo = DOMAIN program /\ ppc = "start"
      BY DEF Init, PassInit
    <2>. QED  BY <1>1, <2>1, <2>2 DEF TypeOK
  <1>5. StartInv
    BY <1>1 DEF StartInv
  <1>6. StackInv
    BY <1>1 DEF StackInv
  <1>7. GaveUpInv
    BY <1>1 DEF GaveUpInv
  <1>8. AnnouncedIffPerformed
    BY <1>1, <1>2, Zenon DEF AnnouncedIffPerformed
  <1>9. CallsInv /\ FinishedInv
    BY <1>2, Zenon DEF CallsInv, FinishedInv
  <1>10. EndedInv
    BY <1>1 DEF EndedInv
  <1>. QED  BY <1>3, <1>4, <1>5, <1>6, <1>7, <1>8, <1>9, <1>10 DEF CoreInv

LEMMA CoreNext ==
  ASSUME CoreInv, [Next]_vars
  PROVE  CoreInv'
  <1>1. CASE PassNext /\ UNCHANGED threadVars
    BY <1>1, PassPart, Zenon
  <1>2. CASE ThreadNext
    BY <1>2, StartStep, RegisterMainStep, PostStep, RegisterStep, EnterStep, ExitStep,
       InvalidStep, CallStep, PerformStep, ReturnStep, ExitThreadStep, ThrowStep, ResumeStep,
       Zenon DEF ThreadNext
  <1>3. CASE UNCHANGED vars
    BY <1>3, NothingHappens, Zenon
  <1>. QED  BY <1>1, <1>2, <1>3, Zenon DEF Next

\* What is announced is announced inside of a function, where the call stack is known.
LEMMA CallStackIs ==
  ASSUME CoreInv
  PROVE  CallStackIsStack
  <1> DEFINE n == Len(frames)
             f == frames[n].fn
             k == frames[n].at
  <1>1. ASSUME Running, announced # NotVisible, ~ unwound
        PROVE  /\ n = Len(frames) /\ Len(callStack) = Rank(n)
               /\ \A d \in DOMAIN frames :
                     frames[d].fn \notin BlackListed => callStack[Rank(d)] = frames[d].fn
    <2>1. RunsAt(n) /\ PassInv
      BY <1>1, RunningIs DEF CoreInv
    <2>2. /\ n \in Nat /\ n >= 1 /\ DOMAIN frames = 1 .. n /\ Over /\ Current = program[f][k]
          /\ frames \in Seq(Frames) /\ callStack \in Seq(DOMAIN program)
          /\ \A d \in 1 .. n : /\ frames[d].fn \in DOMAIN program
                               /\ frames[d].at \in DOMAIN program[frames[d].fn]
          /\ ppc = "run" => announced = IF f \in BlackListed THEN NotVisible ELSE Performs(Current)
          /\ ppc = "gave_up" => announced = NotVisible
          /\ ppc = "run" /\ ~ unwound => Stacked(n, k, callStack, finished)
      BY <2>1, Zenon DEF RunsAt
    <2>3. /\ ppc = "run" /\ f \notin BlackListed /\ Performs(Current) # NotVisible
          /\ Stacked(n, k, callStack, finished)
      BY <1>1, <2>2, Zenon DEF Over
    <2>4. n \in 1 .. Len(frames) /\ n \in 1 .. n
      <3>1. n \in Nat /\ n >= 1 /\ n = Len(frames)
        BY <2>2
      <3> HIDE DEF n
      <3>. QED  BY <3>1
    <2>5. f \in DOMAIN program /\ k \in DOMAIN program[f]
      BY <2>2, <2>4, Zenon
    <2>6. Current.kind \notin {"enter", "register_main"} /\ ~ IsExit(Current)
      BY <2>3, WrappersDoNothing, PerformsWhat DEF Wrappers
    <2>7. InsideAt(f, k)
      <3>1. k > Entry(f)
        BY <2>1, <2>2, <2>3, <2>5, <2>6, ProgramIsInside
      <3>. QED  BY <2>2, <2>3, <2>6, <3>1, Zenon DEF InsideAt
    <2>8. /\ Len(callStack) = Ranked(frames, n)
          /\ \A d \in 1 .. n : frames[d].fn \notin BlackListed =>
                callStack[Ranked(frames, d)] = frames[d].fn
      BY <2>2, <2>3, <2>4, <2>6, <2>7, StackedCalls, Zenon
    <2>9. \A d : Rank(d) = Ranked(frames, d)
      BY Zenon DEF Rank, Ranked
    <2>. QED  BY <2>2, <2>8, <2>9, Zenon
  <1>2. left = "invalid" => unwound
    BY Zenon DEF CoreInv, EndedInv
  <1>. QED  BY <1>1, <1>2, Zenon DEF CallStackIsStack

LEMMA FinishedIs ==
  ASSUME CoreInv
  PROVE  FinishedIffEnded
  <1>1. ASSUME finished, ~ unwound, left = "no"
        PROVE  Len(frames) = 1 /\ IsExit(Current)
    <2>1. first # "none" /\ frames # <<>>
      BY <1>1, Zenon DEF CoreInv, StartInv, ThreadInit
    <2>2. Running
      BY <1>1, <2>1 DEF Running
    <2>3. ppc = "run"
      <3>1. Over
        BY <2>2, RunningIs, Zenon DEF RunsAt
      <3>2. ppc # "gave_up"
        BY <1>1, Zenon DEF CoreInv, GaveUpInv
      <3>. QED  BY <3>1, <3>2 DEF Over
    <2>. QED  BY <1>1, <2>2, <2>3, Zenon DEF CoreInv, FinishedInv
  <1>2. /\ left = "returned" /\ ~ unwound /\ ppc = "run" => finished
        /\ left = "exited" /\ ~ unwound /\ ppc = "run" =>
              (finished <=> Len(frames) = 1 /\ Current.kind = "call")
    BY Zenon DEF CoreInv, EndedInv
  <1>. QED  BY <1>1, <1>2, Zenon DEF FinishedIffEnded

\* The core of the invariant is inductive, and the rest of it follows.
LEMMA CoreIsAll ==
  ASSUME CoreInv
  PROVE  ThreadInv
  <1>1. CallStackIsStack
    BY CallStackIs
  <1>2. FinishedIffEnded
    BY FinishedIs
  <1>. QED  BY <1>1, <1>2, Zenon DEF CoreInv, ThreadInv

LEMMA CoreInvariance == Spec => []CoreInv
  <1>1. Init => CoreInv
    BY CoreInitially
  <1>2. CoreInv /\ [Next]_vars => CoreInv'
    BY CoreNext
  <1>. QED  BY <1>1, <1>2, PTL DEF Spec

\* What a thread of an instrumented program has announced, entered and left is always
\* what the code that it runs says, in every program.
THEOREM ThreadInvariance == Spec => []ThreadInv
  <1>1. CoreInv => ThreadInv
    BY CoreIsAll
  <1>. QED  BY <1>1, CoreInvariance, PTL

\* The pass misses no visible instruction and announces none that is not performed:
\* what the thread has announced (wrapper_post_instruction) is what it performs next,
\* whatever the program calls, throws and catches.
THEOREM EachIsAnnounced == Spec => []AnnouncedIffPerformed
  <1>1. ThreadInv => AnnouncedIffPerformed
    BY Zenon DEF ThreadInv, CoreInv
  <1>. QED  BY <1>1, ThreadInvariance, PTL

\* exit_function never meets an invalid call stack, as long as no exception has passed a
\* function without a handler.
THEOREM CallStackIsRight == Spec => []CallStackIsStack
  <1>1. ThreadInv => CallStackIsStack
    BY Zenon DEF ThreadInv
  <1>. QED  BY <1>1, ThreadInvariance, PTL

\* A thread is finished for the scheduler when it has ended, and not before.
THEOREM FinishedWhenEnded == Spec => []FinishedIffEnded
  <1>1. ThreadInv => FinishedIffEnded
    BY Zenon DEF ThreadInv
  <1>. QED  BY <1>1, ThreadInvariance, PTL

-----------------------------------------------------------------------------
(***************************************************************************)
(* The registration of the threads that are created.                       *)
(***************************************************************************)
LEMMA RegistrationsIn ==
  ASSUME PassInv, CreationInv, ppc = "run", NEW f \in DOMAIN program, program[f] # <<>>
  PROVE  /\ CreationsInOrder(program[f])
         /\ f \notin BlackListed => RegistersCreated(program[f])
         /\ f \in BlackListed =>
               \A j \in DOMAIN program[f] : /\ Visit(program[f][j]) # "Spawn"
                                            /\ program[f][j] # RegisterThread
  <1>1. CreationsInOrder(program[f])
    BY Zenon DEF CreationInv, CreatesInOrder
  <1>2. f \notin BlackListed => RegistersCreated(program[f])
    <2>1. todo = {}
      BY Zenon DEF PassInv
    <2>2. f \notin BlackListed => f \notin todo \cup BlackListed
      BY <2>1
    <2>. QED  BY <2>2, Zenon DEF CreationInv
  <1>3. ASSUME f \in BlackListed, NEW j \in DOMAIN program[f]
        PROVE  Visit(program[f][j]) # "Spawn" /\ program[f][j] # RegisterThread
    <2>1. Visit(program[f][j]) # "Spawn"
      BY <1>3, Zenon DEF CreationInv, CreatesInOrder
    <2>2. program[f][j].kind \notin Wrappers
      BY <1>3, Zenon DEF PassInv, IsFunctionBody
    <2>3. RegisterThread.kind \in Wrappers
      BY DEF RegisterThread, Instr, Wrappers
    <2>. QED  BY <2>1, <2>2, <2>3, Zenon
  <1>. QED  BY <1>1, <1>2, <1>3, Zenon

\* The first instruction of a function registers nobody.
LEMMA FirstRegistersNone ==
  ASSUME PassInv, CreationInv, ppc = "run", NEW f \in DOMAIN program, program[f] # <<>>
  PROVE  program[f][1] # RegisterThread
  <1> DEFINE body == program[f]
  <1>1. CASE f \in BlackListed
    <2>1. 1 \in DOMAIN body
      BY StartsOutside, Zenon DEF Over
    <2>. QED  BY <1>1, <2>1, RegistrationsIn, Zenon
  <1>2. CASE f \notin BlackListed
    <2>1. Over
      BY DEF Over
    <2>2. 1 \in DOMAIN body
      BY <2>1, StartsOutside, Zenon
    <2>3. Entry(f) \in {1, 2} /\ EntersAt(f, body, Entry(f))
      BY <1>2, <2>1, <2>2, BodyIs, Zenon DEF IsInstrumented
    <2>4. body[1] \in {EnterFunction(f), RegisterMainThread}
      <3>1. CASE Entry(f) = 1
        BY <2>3, <3>1, Zenon DEF EntersAt
      <3>2. CASE Entry(f) = 2
        <4>1. 1 < Entry(f)
          BY <3>2
        <4>. QED  BY <2>2, <2>3, <4>1, Zenon DEF EntersAt
      <3>. QED  BY <2>3, <3>1, <3>2
    <2>5. /\ EnterFunction(f).kind = "enter" /\ RegisterMainThread.kind = "register_main"
          /\ RegisterThread.kind = "register"
      BY DEF EnterFunction, RegisterMainThread, RegisterThread, Instr
    <2>. QED  BY <2>4, <2>5
  <1>. QED  BY <1>1, <1>2

\* An instruction is followed by a registration in its block iff it creates a thread.
LEMMA StepRegisters ==
  ASSUME PassInv, CreationInv, ppc = "run", NEW f \in DOMAIN program,
         NEW k \in DOMAIN program[f],
         ~ EndsBlock(program[f][k]), program[f][k].kind # "label"
  PROVE  program[f][k + 1] = RegisterThread <=> Visit(program[f][k]) = "Spawn"
  <1> DEFINE body == program[f]
  <1>1. /\ HasBlocks(body) /\ DOMAIN body = 1 .. Len(body) /\ Len(body) \in Nat /\ k \in Nat
        /\ k >= 1 /\ body # <<>>
    BY BodyIs, Zenon DEF Over
  <1>2. k < Len(body) /\ body[k + 1].kind # "label"
    BY <1>1, Zenon DEF HasBlocks
  <1>3. k + 1 \in DOMAIN body /\ (k + 1) - 1 = k /\ (k + 2) - 1 = k + 1 /\ k + 1 # k
    BY <1>1, <1>2
  <1>4. CASE f \in BlackListed
    BY <1>1, <1>3, <1>4, RegistrationsIn, Zenon
  <1>5. CASE f \notin BlackListed
    <2>1. RegistersCreated(body)
      BY <1>1, <1>5, RegistrationsIn, Zenon
    <2>2. CreationBefore(body, k + 1) = k
      BY <1>3, Zenon DEF CreationBefore
    <2>3. CreationBefore(body, k + 2) = k + 1
      BY <1>2, <1>3, Zenon DEF CreationBefore
    <2>4. body[k + 1] = RegisterThread => Visit(body[k]) = "Spawn"
      BY <1>3, <2>1, <2>2, Zenon DEF RegistersCreated
    <2>5. ASSUME Visit(body[k]) = "Spawn" PROVE body[k + 1] = RegisterThread
      <3>1. PICK j \in {k + 1, k + 2} \cap DOMAIN body :
               body[j] = RegisterThread /\ CreationBefore(body, j) = k
        BY <2>1, <2>5, Zenon DEF RegistersCreated
      <3>2. j # k + 2
        BY <1>3, <2>3, <3>1, Zenon
      <3>. QED  BY <3>1, <3>2, Zenon
    <2>. QED  BY <2>4, <2>5, Zenon
  <1>. QED  BY <1>4, <1>5

\* A jump goes on with a registration iff it is the return of a creation.
LEMMA JumpRegisters ==
  ASSUME PassInv, CreationInv, ppc = "run", NEW f \in DOMAIN program,
         NEW k \in DOMAIN program[f], program[f][k].kind \in {"invoke", "branch"},
         NEW i \in DOMAIN program[f][k].to
  PROVE  program[f][AfterLabel(f, program[f][k].to[i])] = RegisterThread
            <=> i = 1 /\ Visit(program[f][k]) = "Spawn"
  <1> DEFINE body == program[f]
             l == body[k].to[i]
             q == AfterLabel(f, l)
  <1>1. /\ HasBlocks(body) /\ DOMAIN body = 1 .. Len(body) /\ Len(body) \in Nat /\ k \in Nat
        /\ k >= 1 /\ body # <<>>
    BY BodyIs, Zenon DEF Over
  <1>2. /\ q \in DOMAIN body /\ q - 1 \in DOMAIN body /\ body[q - 1] = Label(l)
    BY AfterJump, Zenon DEF Over, Landed
  <1> HIDE DEF q, l
  <1>3. \A x : Label(x).kind = "label" /\ Label(x).what = x
    BY DEF Label, Instr
  <1>4. CreationBefore(body, q) = q - 2
    BY <1>2, <1>3, Zenon DEF CreationBefore
  <1>5. /\ q \in Nat /\ q - 2 \in Int /\ (q - 2) + 1 = q - 1 /\ q - 2 < Len(body)
    BY <1>1, <1>2
  <1>6. ASSUME f \in BlackListed
        PROVE  body[q] = RegisterThread <=> i = 1 /\ Visit(body[k]) = "Spawn"
    <2>1. body[q] # RegisterThread /\ Visit(body[k]) # "Spawn"
      BY <1>1, <1>2, <1>6, RegistrationsIn, Zenon
    <2> HIDE DEF body
    <2>. QED  BY <2>1
  <1>7. ASSUME f \notin BlackListed
        PROVE  body[q] = RegisterThread <=> i = 1 /\ Visit(body[k]) = "Spawn"
    <2>1. RegistersCreated(body) /\ CreationsInOrder(body)
      BY <1>1, <1>7, RegistrationsIn, Zenon
    <2>2. ASSUME body[q] = RegisterThread PROVE i = 1 /\ Visit(body[k]) = "Spawn"
      <3> DEFINE c == q - 2
      <3>1. c \in DOMAIN body /\ Visit(body[c]) = "Spawn"
        BY <1>2, <1>4, <2>1, <2>2, Zenon DEF RegistersCreated
      <3>2. c < Len(body) /\ body[c + 1] = Label(l)
        BY <1>2, <1>5, Zenon
      <3> HIDE DEF c
      <3>3. body[c].kind = "invoke"
        <4>1. EndsBlock(body[c])
          BY <1>1, <1>3, <3>1, <3>2, Zenon DEF HasBlocks
        <4>. QED  BY <3>1, <4>1, SpawnCalls DEF EndsBlock, IsCall, Leaving
      <3>4. body[c + 1] = Label(body[c].to[1])
               /\ \A j \in DOMAIN body : \A h \in DOMAIN body[j].to :
                     body[j].to[h] = body[c].to[1] => j = c /\ h = 1
        BY <2>1, <3>1, <3>2, <3>3, Zenon DEF CreationsInOrder
      <3>5. body[k].to[i] = body[c].to[1]
        <4>1. body[c].to[1] = l
          <5>1. Label(body[c].to[1]) = Label(l)
            BY <3>2, <3>4, Zenon
          <5>. QED  BY <5>1 DEF Label, Instr
        <4>. QED  BY <4>1, Zenon DEF l
      <3>6. k = c /\ i = 1
        BY <3>4, <3>5, Zenon
      <3>. QED  BY <3>1, <3>6, Zenon
    <2>3. ASSUME i = 1, Visit(body[k]) = "Spawn" PROVE body[q] = RegisterThread
      <3>1. body[k].kind = "invoke"
        BY <2>3, SpawnCalls DEF IsCall
      <3>2. PICK j \in {k + 1, k + 2} \cap DOMAIN body :
               body[j] = RegisterThread /\ CreationBefore(body, j) = k
        BY <2>1, <2>3, Zenon DEF RegistersCreated
      <3>3. k < Len(body)
        BY <1>1, <3>2
      <3>4. body[k + 1] = Label(l)
               /\ \A h \in DOMAIN body : body[h] = body[k + 1] => h = k + 1
        BY <2>1, <2>3, <3>1, <3>3, Zenon DEF CreationsInOrder, l
      <3>5. q - 1 = k + 1
        BY <1>2, <3>4, Zenon
      <3>6. q = k + 2
        BY <1>1, <1>5, <3>5
      <3>7. j # k + 1
        <4>1. RegisterThread.kind = "register"
          BY DEF RegisterThread, Instr
        <4>. QED  BY <1>3, <3>2, <3>4, <4>1
      <3>. QED  BY <3>2, <3>6, <3>7, Zenon
    <2> HIDE DEF body
    <2>. QED  BY <2>2, <2>3
  <1>8. body[q] = RegisterThread <=> i = 1 /\ Visit(body[k]) = "Spawn"
    <2> HIDE DEF body
    <2>. QED  BY <1>6, <1>7
  <1>. QED  BY <1>8, Zenon DEF q, l

\* Where an instruction of the program goes on.
LEMMA GoesOnRegisters ==
  ASSUME PassInv, CreationInv, ppc = "run", NEW f \in DOMAIN program,
         NEW k \in DOMAIN program[f],
         \/ program[f][k].kind \in {"access", "branch"}
         \/ IsCall(program[f][k]) /\ program[f][k].what \notin Leaving
  PROVE  program[f][Following(f, k)] = RegisterThread <=> Visit(program[f][k]) = "Spawn"
  <1> DEFINE body == program[f]
  <1>1. CASE body[k].kind \in {"invoke", "branch"}
    <2> DEFINE i == 1
    <2>1. i \in DOMAIN body[k].to
      <3>1. HasBlocks(body)
        BY BodyIs, Zenon DEF Over
      <3>2. body[k] \in Instruction /\ Len(body[k].to) \in {1, 2}
        BY <1>1, <3>1 DEF HasBlocks
      <3>3. body[k].to \in Seq(STRING)
        BY <3>2 DEF Instruction
      <3>. QED  BY <3>2, <3>3
    <2>2. Following(f, k) = AfterLabel(f, body[k].to[i])
      BY <1>1, Zenon DEF Following
    <2>3. i = 1
      OBVIOUS
    <2> HIDE DEF i
    <2>4. body[AfterLabel(f, body[k].to[i])] = RegisterThread
            <=> i = 1 /\ Visit(body[k]) = "Spawn"
      BY <1>1, <2>1, JumpRegisters, Zenon
    <2>. QED  BY <2>2, <2>3, <2>4
  <1>2. CASE body[k].kind \notin {"invoke", "branch"}
    <2>1. Following(f, k) = k + 1
      BY <1>2, Zenon DEF Following
    <2>2. ~ EndsBlock(body[k]) /\ body[k].kind # "label"
      BY <1>2 DEF EndsBlock, IsCall
    <2>3. body[k + 1] = RegisterThread <=> Visit(body[k]) = "Spawn"
      BY <2>2, StepRegisters, Zenon
    <2>. QED  BY <2>1, <2>3
  <1>. QED  BY <1>1, <1>2

\* The property holds after a step when the m-th activation goes on at q.
LEMMA RegistersOn ==
  ASSUME CoreInv, Running, NEW m \in 1 .. Len(frames), NEW q \in Nat,
         frames' = Resumed(m, q), UNCHANGED passVars,
         ppc = "run" => (unregistered' <=> program[frames[m].fn][q] = RegisterThread)
  PROVE  CreatedIsRegisteredNext'
  <1>1. frames \in Seq(Frames)
    BY RunningIs, Zenon DEF RunsAt
  <1>2. Len(frames') = m /\ frames'[m] = Frame(frames[m].fn, q)
    BY <1>1, ResumedFrames, Zenon
  <1>3. program' = program /\ ppc' = ppc
    BY DEF passVars
  <1>4. Frame(frames[m].fn, q).fn = frames[m].fn /\ Frame(frames[m].fn, q).at = q
    BY DEF Frame
  <1>5. Current' = program[frames[m].fn][q]
    BY <1>2, <1>3, <1>4, Zenon DEF Current, Top, Last
  <1>. QED  BY <1>3, <1>5 DEF CreatedIsRegisteredNext

\* The wrappers.
LEMMA WrapperRegisters ==
  ASSUME CoreInv, CreationInv, CreatedIsRegisteredNext, Running, Current.kind \in Wrappers,
         Advance, UNCHANGED passVars,
         ~ unregistered' \/ (Current # RegisterThread /\ unregistered' = unregistered)
  PROVE  CreatedIsRegisteredNext'
  <1> DEFINE n == Len(frames)
             f == frames[n].fn
             k == frames[n].at
  <1>1. RunsAt(n) /\ PassInv
    BY RunningIs DEF CoreInv
  <1>2. /\ n \in Nat /\ n >= 1 /\ Over /\ Top = frames[n] /\ Current = program[f][k]
        /\ \A d \in 1 .. n : /\ frames[d].fn \in DOMAIN program
                             /\ frames[d].at \in DOMAIN program[frames[d].fn]
    BY <1>1, Zenon DEF RunsAt
  <1>3. n \in 1 .. Len(frames) /\ n \in 1 .. n
    <2>1. n \in Nat /\ n >= 1 /\ n = Len(frames)
      BY <1>2, Zenon
    <2> HIDE DEF n
    <2>. QED  BY <2>1
  <1>4. f \in DOMAIN program /\ k \in DOMAIN program[f]
    BY <1>2, <1>3, Zenon
  <1>5. k \in Nat /\ k + 1 \in Nat
    <2>1. k \in Nat
      BY <1>1, <1>2, <1>4, BodyIs, Zenon
    <2> HIDE DEF k
    <2>. QED  BY <2>1
  <1>6. frames' = Resumed(n, k + 1)
    <2>1. Following(f, k) = k + 1
      BY <1>2 DEF Following, Wrappers
    <2>. QED  BY <1>2, <2>1, AdvanceIs, Zenon
  <1>7. ppc = "run" => program[f][k + 1] # RegisterThread
    <2>1. ~ EndsBlock(Current) /\ Current.kind # "label" /\ Visit(Current) = NotVisible
      BY WrappersDoNothing
    <2>2. Visit(Current) # "Spawn"
      BY <2>1 DEF NotVisible
    <2>. QED  BY <1>1, <1>2, <1>4, <2>1, <2>2, StepRegisters, Zenon
  <1>8. ppc = "run" => ~ unregistered'
    BY DEF CreatedIsRegisteredNext
  <1>9. ppc = "run" => (unregistered' <=> program[f][k + 1] = RegisterThread)
    BY <1>7, <1>8, Zenon
  <1>. QED  BY <1>3, <1>5, <1>6, <1>9, RegistersOn, Zenon

LEMMA PerformRegisters ==
  ASSUME CoreInv, CreationInv, CreatedIsRegisteredNext, Perform
  PROVE  CreatedIsRegisteredNext'
  <1> DEFINE n == Len(frames)
             f == frames[n].fn
             k == frames[n].at
             q == Following(f, k)
  <1>1. /\ Running /\ Advance /\ UNCHANGED passVars
        /\ \/ Current.kind \in {"access", "branch"}
           \/ IsCall(Current) /\ Current.what \notin Leaving
        /\ unregistered' = (unregistered \/ Performs(Current) = "Spawn")
    BY DEF Perform
  <1>2. RunsAt(n) /\ PassInv
    BY <1>1, RunningIs DEF CoreInv
  <1>3. /\ n \in Nat /\ n >= 1 /\ Over /\ Top = frames[n] /\ Current = program[f][k]
        /\ \A d \in 1 .. n : /\ frames[d].fn \in DOMAIN program
                             /\ frames[d].at \in DOMAIN program[frames[d].fn]
    BY <1>2, Zenon DEF RunsAt
  <1>4. n \in 1 .. Len(frames) /\ n \in 1 .. n
    <2>1. n \in Nat /\ n >= 1 /\ n = Len(frames)
      BY <1>3, Zenon
    <2> HIDE DEF n
    <2>. QED  BY <2>1
  <1>5. f \in DOMAIN program /\ k \in DOMAIN program[f]
    BY <1>3, <1>4, Zenon
  <1>6. Landed(f, q)
    BY <1>1, <1>2, <1>3, <1>5, GoesOn, Zenon
  <1>7. frames' = Resumed(n, q)
    BY <1>1, <1>3, AdvanceIs, Zenon
  <1>8. ppc = "run" => (program[f][q] = RegisterThread <=> Performs(Current) = "Spawn")
    <2>. HAVE ppc = "run"
    <2>1. program[f][q] = RegisterThread <=> Visit(Current) = "Spawn"
      BY <1>1, <1>2, <1>3, <1>5, GoesOnRegisters, Zenon
    <2>2. Visit(Current) = Performs(Current)
      BY VisitsWhatPerforms, Zenon
    <2>. QED  BY <2>1, <2>2
  <1> HIDE DEF q
  <1>9. q \in Nat
    <2>1. q \in DOMAIN program[f]
      BY <1>6, Zenon DEF Landed
    <2>. QED  BY <1>2, <1>3, <1>5, <2>1, BodyIs, Zenon
  <1>10. ppc = "run" => ~ unregistered
    <2>1. Current # RegisterThread
      <3>1. RegisterThread.kind = "register"
        BY DEF RegisterThread, Instr
      <3>. QED  BY <1>1, <3>1 DEF IsCall
    <2>. QED  BY <1>1, <2>1, Zenon DEF CreatedIsRegisteredNext
  <1>11. ppc = "run" => (unregistered' <=> program[f][q] = RegisterThread)
    <2>. HAVE ppc = "run"
    <2>1. unregistered' <=> Performs(Current) = "Spawn"
      BY <1>1, <1>10, Zenon
    <2>. QED  BY <1>8, <2>1, Zenon
  <1>. QED  BY <1>1, <1>4, <1>7, <1>9, <1>11, RegistersOn, Zenon

\* A thread that does not go on has registered what it has created.
LEMMA NobodyIsUnregistered ==
  ASSUME CreatedIsRegisteredNext, Running, ppc = "run", Current # RegisterThread
  PROVE  ~ unregistered
  BY DEF CreatedIsRegisteredNext

LEMMA CallRegisters ==
  ASSUME CoreInv, CreationInv, CreatedIsRegisteredNext, CallFunction
  PROVE  CreatedIsRegisteredNext'
  <1> DEFINE g == Current.what
  <1>1. /\ Running /\ IsCall(Current) /\ HasBody(g)
        /\ frames' = Append(frames, Frame(g, 1))
        /\ program' = program /\ ppc' = ppc /\ unregistered' = unregistered
    BY DEF CallFunction, passVars
  <1>2. g \in DOMAIN program /\ program[g] # <<>> /\ PassInv
    BY <1>1 DEF HasBody, CoreInv
  <1>3. Current # RegisterThread
    <2>1. RegisterThread.kind = "register"
      BY DEF RegisterThread, Instr
    <2>. QED  BY <1>1, <2>1 DEF IsCall
  <1> HIDE DEF g
  <1>4. Current' = program[g][1]
    <2>1. Frame(g, 1) \in Frames /\ Frame(g, 1).fn = g /\ Frame(g, 1).at = 1
      BY <1>2 DEF Frame, Frames
    <2>2. frames'[Len(frames')] = Frame(g, 1)
      <3>1. frames \in Seq(Frames)
        BY <1>1, RunningIs, Zenon DEF RunsAt
      <3>. QED  BY <1>1, <2>1, <3>1
    <2>. QED  BY <1>1, <2>1, <2>2, Zenon DEF Current, Top, Last
  <1>5. ppc = "run" => program[g][1] # RegisterThread /\ ~ unregistered
    BY <1>1, <1>2, <1>3, FirstRegistersNone, NobodyIsUnregistered, Zenon
  <1>. QED  BY <1>1, <1>4, <1>5 DEF CreatedIsRegisteredNext

LEMMA ReturnRegisters ==
  ASSUME CoreInv, CreationInv, CreatedIsRegisteredNext, ReturnFromFunction
  PROVE  CreatedIsRegisteredNext'
  <1> DEFINE n == Len(frames)
             m == n - 1
             g == frames[m].fn
             k == frames[m].at
             q == Following(g, k)
  <1>1. /\ Running /\ Current = Return
        /\ n = 1 => left' = "returned"
        /\ n # 1 => frames' = Advanced(Front(frames))
        /\ UNCHANGED passVars /\ unregistered' = unregistered
    BY DEF ReturnFromFunction
  <1>2. RunsAt(n) /\ PassInv
    BY <1>1, RunningIs DEF CoreInv
  <1>3. /\ n \in Nat /\ n >= 1 /\ Over /\ frames \in Seq(Frames)
        /\ \A d \in 1 .. n : /\ frames[d].fn \in DOMAIN program
                             /\ frames[d].at \in DOMAIN program[frames[d].fn]
        /\ \A d \in 1 .. n - 1 : IsCall(At(d)) /\ HasBody(At(d).what)
    BY <1>2, Zenon DEF RunsAt
  <1>4. CASE n = 1
    BY <1>1, <1>4 DEF CreatedIsRegisteredNext, Running
  <1>5. CASE n # 1
    <2>1. m \in 1 .. n - 1 /\ m \in 1 .. n /\ n > 1 /\ m \in 1 .. Len(frames)
      <3>1. n \in Nat /\ n >= 1 /\ n # 1 /\ n = Len(frames)
        BY <1>3, <1>5, Zenon
      <3> HIDE DEF n
      <3>. QED  BY <3>1
    <2>2. g \in DOMAIN program /\ k \in DOMAIN program[g]
      BY <1>3, <2>1, Zenon
    <2>3. IsCall(program[g][k]) /\ program[g][k].what \notin Library
      <3>1. IsCall(program[g][k]) /\ HasBody(program[g][k].what)
        BY <1>3, <2>1, Zenon DEF At
      <3>. QED  BY <1>2, <3>1, Zenon DEF PassInv, HasBody
    <2>4. Landed(g, q)
      BY <1>2, <1>3, <2>2, <2>3, GoesOn DEF Library
    <2>5. ppc = "run" => program[g][q] # RegisterThread
      <3>. HAVE ppc = "run"
      <3>1. Visit(program[g][k]) # "Spawn"
        BY <2>3, SpawnCalls DEF Library
      <3>2. program[g][k].what \notin Leaving
        BY <2>3 DEF Library
      <3>. QED  BY <1>2, <2>2, <2>3, <3>1, <3>2, GoesOnRegisters, Zenon
    <2>6. frames' = Resumed(m, q)
      BY <1>1, <1>3, <1>5, <2>1, AdvancedIsResumed, Zenon DEF Running
    <2> HIDE DEF q
    <2>7. q \in Nat
      <3>1. q \in DOMAIN program[g]
        BY <2>4, Zenon DEF Landed
      <3>. QED  BY <1>2, <1>3, <2>2, <3>1, BodyIs, Zenon
    <2>8. ppc = "run" => ~ unregistered
      <3>1. Return # RegisterThread
        BY DEF Return, RegisterThread, Instr
      <3>. QED  BY <1>1, <3>1, NobodyIsUnregistered, Zenon
    <2>9. ppc = "run" => (unregistered' <=> program[g][q] = RegisterThread)
      BY <1>1, <2>5, <2>8, Zenon
    <2>. QED  BY <1>1, <2>1, <2>6, <2>7, <2>9, RegistersOn, Zenon
  <1>. QED  BY <1>4, <1>5

\* A handler registers nobody.
LEMMA UnwindRegisters ==
  ASSUME CoreInv, CreationInv, CreatedIsRegisteredNext, Running,
         NEW depth \in 0 .. Len(frames), Unwind(depth),
         Current # RegisterThread, UNCHANGED passVars, unregistered' = unregistered
  PROVE  CreatedIsRegisteredNext'
  <1> DEFINE n == Len(frames)
             handlers == {d \in 1 .. depth :
                              program[frames[d].fn][frames[d].at].kind = "invoke"}
             m == Max(handlers)
             h == frames[m]
             i == 2
             q == AfterLabel(h.fn, program[h.fn][h.at].to[i])
  <1>1. RunsAt(n) /\ PassInv
    BY RunningIs DEF CoreInv
  <1>2. /\ n \in Nat /\ n >= 1 /\ Over /\ DOMAIN frames = 1 .. n
        /\ \A d \in 1 .. n : /\ frames[d].fn \in DOMAIN program
                             /\ frames[d].at \in DOMAIN program[frames[d].fn]
    BY <1>1, Zenon DEF RunsAt
  <1>3. /\ handlers = {} => left' = "terminated"
        /\ handlers # {} => frames' = Append(SubSeq(frames, 1, m - 1), Frame(h.fn, q))
    BY DEF Unwind
  <1>4. CASE handlers = {}
    BY <1>3, <1>4 DEF CreatedIsRegisteredNext, Running
  <1>5. CASE handlers # {}
    <2>1. m \in handlers
      <3>1. depth \in Nat /\ handlers \in SUBSET (1 .. depth)
        BY <1>2
      <3> HIDE DEF handlers
      <3>. QED  BY <3>1, <1>5, GreatestNumber
    <2>2. m \in 1 .. depth /\ program[h.fn][h.at].kind = "invoke"
      BY <2>1, Zenon
    <2> HIDE DEF m
    <2>3. m \in 1 .. n /\ m \in 1 .. Len(frames)
      BY <1>2, <2>2
    <2>4. h.fn \in DOMAIN program /\ h.at \in DOMAIN program[h.fn]
      BY <1>2, <2>3, Zenon
    <2>5. i \in DOMAIN program[h.fn][h.at].to /\ i # 1
      <3>1. HasBlocks(program[h.fn])
        BY <1>1, <2>4, Zenon DEF PassInv
      <3>2. program[h.fn][h.at] \in Instruction /\ Len(program[h.fn][h.at].to) = 2
        <4>1. program[h.fn] \in Seq(Instruction) /\ Len(program[h.fn][h.at].to) = 2
          BY <3>1, <2>2, <2>4, Zenon DEF HasBlocks
        <4> HIDE DEF h
        <4>. QED  BY <4>1, <2>4
      <3> HIDE DEF h
      <3>3. program[h.fn][h.at].to \in Seq(STRING)
        BY <3>2 DEF Instruction
      <3>. QED  BY <3>2, <3>3
    <2> HIDE DEF i
    <2>6. Landed(h.fn, q)
      BY <1>1, <1>2, <2>4, <2>5, AfterJump, Zenon
    <2>7. ppc = "run" => program[h.fn][q] # RegisterThread
      <3>. HAVE ppc = "run"
      <3>1. program[h.fn][q] = RegisterThread => i = 1
        BY <1>1, <2>2, <2>4, <2>5, JumpRegisters
      <3>. QED  BY <3>1, <2>5, Zenon
    <2>8. frames' = Resumed(m, q)
      BY <1>3, <1>5, Zenon DEF Resumed
    <2> HIDE DEF q
    <2>9. q \in Nat
      <3>1. q \in DOMAIN program[h.fn]
        BY <2>6, Zenon DEF Landed
      <3>. QED  BY <1>1, <1>2, <2>4, <3>1, BodyIs, Zenon
    <2>10. ppc = "run" => (unregistered' <=> program[frames[m].fn][q] = RegisterThread)
      <3>1. ppc = "run" => ~ unregistered
        BY NobodyIsUnregistered, Zenon
      <3>. QED  BY <2>7, <3>1, Zenon
    <2>. QED  BY <2>3, <2>8, <2>9, <2>10, RegistersOn, Zenon
  <1>. QED  BY <1>4, <1>5

LEMMA StartRegisters ==
  ASSUME CoreInv, CreationInv, Start
  PROVE  CreatedIsRegisteredNext'
  <1>1. PICK f \in {"main", StartRoutine, StaticInitializer} :
           HasBody(f) /\ frames' = <<Frame(f, 1)>>
    BY DEF Start
  <1>2. /\ first = "none" /\ program' = program /\ ppc' = ppc /\ unregistered' = unregistered
    BY DEF Start, passVars
  <1>3. ~ unregistered /\ PassInv
    BY <1>2 DEF CoreInv, StartInv, ThreadInit
  <1>4. f \in DOMAIN program /\ program[f] # <<>>
    BY <1>1, Zenon DEF HasBody
  <1>5. Current' = program[f][1]
    <2>1. Frame(f, 1) \in Frames /\ Frame(f, 1).fn = f /\ Frame(f, 1).at = 1
      BY <1>4 DEF Frame, Frames
    <2>2. frames'[Len(frames')] = Frame(f, 1)
      BY <1>1, <2>1
    <2>. QED  BY <1>2, <2>1, <2>2, Zenon DEF Current, Top, Last
  <1>6. ppc = "run" => program[f][1] # RegisterThread
    BY <1>3, <1>4, FirstRegistersNone, Zenon
  <1>. QED  BY <1>2, <1>3, <1>5, <1>6 DEF CreatedIsRegisteredNext

\* The thread has not started, or does not go on.
LEMMA DoneRegisters ==
  ASSUME ~ Running'
  PROVE  CreatedIsRegisteredNext'
  BY Zenon DEF CreatedIsRegisteredNext

LEMMA ThreadRegisters ==
  ASSUME CoreInv, CreationInv, CreatedIsRegisteredNext, ThreadNext
  PROVE  CreatedIsRegisteredNext'
  <1>1. /\ RegisterThread.kind = "register" /\ RegisterMainThread.kind = "register_main"
        /\ Resume.kind = "resume"
    BY DEF RegisterThread, RegisterMainThread, Resume, Instr
  <1>2. CASE Start
    BY <1>2, StartRegisters
  <1>3. CASE RegisterMain \/ Post \/ Enter \/ Exit
    <2>1. /\ Running /\ Current.kind \in {"register_main", "post", "enter", "exit"} /\ Advance
          /\ UNCHANGED passVars /\ unregistered' = unregistered
      BY <1>1, <1>3 DEF RegisterMain, Post, Enter, Exit
    <2>2. Current.kind \in Wrappers /\ Current # RegisterThread
      BY <1>1, <2>1 DEF Wrappers
    <2>. QED  BY <2>1, <2>2, WrapperRegisters, Zenon
  <1>4. CASE Register
    <2>1. /\ Running /\ Current.kind \in Wrappers /\ Advance /\ UNCHANGED passVars
          /\ ~ unregistered'
      BY <1>1, <1>4 DEF Register, Wrappers
    <2>. QED  BY <2>1, WrapperRegisters, Zenon
  <1>5. CASE InvalidCallStack \/ ExitThread
    <2>1. ~ Running'
      BY <1>5 DEF InvalidCallStack, ExitThread, Running
    <2>. QED  BY <2>1, DoneRegisters
  <1>6. CASE CallFunction
    BY <1>6, CallRegisters
  <1>7. CASE Perform
    BY <1>7, PerformRegisters
  <1>8. CASE ReturnFromFunction
    BY <1>8, ReturnRegisters
  <1>9. CASE Throw
    <2>1. /\ Running /\ IsCall(Current) /\ Unwind(Len(frames)) /\ UNCHANGED passVars
          /\ unregistered' = unregistered
      BY <1>9 DEF Throw
    <2>2. Current # RegisterThread
      BY <1>1, <2>1 DEF IsCall
    <2>3. Len(frames) \in 0 .. Len(frames)
      BY DEF CoreInv, StackInv
    <2>. QED  BY <2>1, <2>2, <2>3, UnwindRegisters, Zenon
  <1>10. CASE ResumeException
    <2>1. /\ Running /\ Current = Resume /\ Unwind(Len(frames) - 1) /\ UNCHANGED passVars
          /\ unregistered' = unregistered
      BY <1>10 DEF ResumeException
    <2>2. Current # RegisterThread
      BY <1>1, <2>1
    <2>3. Len(frames) - 1 \in 0 .. Len(frames)
      <3>1. RunsAt(Len(frames))
        BY <2>1, RunningIs
      <3>. QED  BY <3>1 DEF RunsAt
    <2>. QED  BY <2>1, <2>2, <2>3, UnwindRegisters, Zenon
  <1>. QED  BY <1>2, <1>3, <1>4, <1>5, <1>6, <1>7, <1>8, <1>9, <1>10, Zenon DEF ThreadNext

LEMMA CreatedNext ==
  ASSUME CoreInv, CreationInv, CreatedIsRegisteredNext, [Next]_vars
  PROVE  CreationInv' /\ CreatedIsRegisteredNext'
  <1>1. CASE PassNext /\ UNCHANGED threadVars
    <2>1. CreationInv'
      BY <1>1, CreationStep, Zenon DEF CoreInv
    <2>2. ~ Running'
      <3>1. ppc \in {"start", "functions"}
        BY <1>1 DEF PassNext, OnStartOfPass, RunOnFunction, OnEndOfPass
      <3>2. frames = <<>>
        BY <3>1 DEF CoreInv, StartInv
      <3>. QED  BY <1>1, <3>2 DEF threadVars, Running
    <2>. QED  BY <2>1, <2>2, DoneRegisters
  <1>2. CASE ThreadNext
    <2>1. UNCHANGED passVars
      BY <1>2 DEF ThreadNext, Start, RegisterMain, Post, Register, Enter, Exit,
         InvalidCallStack, CallFunction, Perform, ReturnFromFunction, ExitThread, Throw,
         ResumeException
    <2>2. CreationInv'
      BY <2>1 DEF passVars, CreationInv
    <2>. QED  BY <1>2, <2>2, ThreadRegisters
  <1>3. CASE UNCHANGED vars
    <2>1. /\ program' = program /\ todo' = todo /\ ppc' = ppc /\ frames' = frames
          /\ left' = left /\ unregistered' = unregistered
      BY <1>3 DEF vars, passVars, threadVars
    <2>2. CreationInv'
      BY <2>1 DEF CreationInv
    <2>3. CreatedIsRegisteredNext'
      BY <2>1 DEF CreatedIsRegisteredNext, Running, Current, Top
    <2>. QED  BY <2>2, <2>3
  <1>. QED  BY <1>1, <1>2, <1>3, Zenon DEF Next

\* Each thread that is created (pthread_create, called or invoked) is registered by the
\* next step of its creator, and nothing else is, in every program in which the block that
\* an invoked creation goes on with is the next one in the layout of the function, and
\* nothing else goes on with that block: the pass inserts the registration there, without
\* looking at the control flow.
THEOREM CreatedAreRegistered ==
  ASSUME \A module \in Programs : CreatesInOrder(module)
  PROVE  Spec => []CreatedIsRegisteredNext
  <1>1. Init => CreationInv /\ CreatedIsRegisteredNext
    <2>. HAVE Init
    <2>1. CreationInv
      BY CreationInitially, Zenon DEF Init
    <2>2. CreatedIsRegisteredNext
      BY DEF Init, ThreadInit, CreatedIsRegisteredNext, Running
    <2>. QED  BY <2>1, <2>2
  <1>2. CoreInv /\ CreationInv /\ CreatedIsRegisteredNext /\ [Next]_vars
           => CreationInv' /\ CreatedIsRegisteredNext'
    BY CreatedNext
  <1>. QED  BY <1>1, <1>2, CoreInvariance, PTL DEF Spec
=============================================================================
