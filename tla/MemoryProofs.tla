---------------------------- MODULE MemoryProofs ----------------------------
(***************************************************************************)
(* Theorems about the two modules of the memory's periphery.               *)
(*                                                                         *)
(* Recall, for any number of turns, rows and texts, any scores, any order  *)
(* the rows come in, any budget and limits, and however slow or broken the *)
(* database and the embedder are: what the variables hold, that no use is  *)
(* counted twice or forgotten without cause, and that a turn is reminded   *)
(* of the best that was found.                                             *)
(*                                                                         *)
(* IdleScan, for any number of sessions, any batch, and however often      *)
(* queries, LLM calls and the process itself fail: what the variables      *)
(* hold, that no session costs two calls in one life of the process, and   *)
(* what a summary may leave out.                                           *)
(***************************************************************************)
EXTENDS Recall, IdleScan, FiniteSetTheorems, SequenceTheorems, WellFoundedInduction, TLAPS

\* A set of numbers that is not empty has a least one.
LEMMA LeastOf ==
    ASSUME NEW S \in SUBSET Nat, S # {}
    PROVE  Min(S) \in S /\ \A y \in S : Min(S) <= y
  <1>1. PICK x \in S : \A y \in S : ~ <<y, x>> \in OpToRel(<, Nat)
    BY NatLessThanWellFounded, WFMin
  <1>2. ASSUME NEW y \in S PROVE x <= y
    <2>1. ~ (y < x)
      BY <1>1 DEF OpToRel
    <2>2. x \in Nat /\ y \in Nat
      OBVIOUS
    <2> QED
      BY <2>1, <2>2
  <1> QED
    BY <1>2 DEF Min

\* One that is finite as well has a greatest: the one that the fewest exceed.
LEMMA GreatestOf ==
    ASSUME NEW S \in SUBSET Nat, S # {}, IsFiniteSet(S)
    PROVE  Max(S) \in S /\ \A y \in S : Max(S) >= y
  <1> DEFINE above(x) == {y \in S : y > x}
             counts == {Cardinality(above(x)) : x \in S}
  <1>1. ASSUME NEW x \in S
        PROVE  IsFiniteSet(above(x)) /\ Cardinality(above(x)) \in Nat
    <2>1. above(x) \in SUBSET S
      OBVIOUS
    <2> QED
      BY <2>1, FS_Subset, FS_CardinalityType
  <1>2. counts \in SUBSET Nat /\ counts # {}
    BY <1>1
  <1>3. Min(counts) \in counts /\ \A m \in counts : Min(counts) <= m
    <2> HIDE DEF counts
    <2> QED
      BY <1>2, LeastOf
  <1>4. PICK x \in S : \A y \in S : Cardinality(above(x)) <= Cardinality(above(y))
    BY <1>3
  <1>5. ASSUME NEW y \in S, y > x PROVE FALSE
    <2>1. above(y) \in SUBSET above(x) /\ y \in above(x) /\ y \notin above(y)
      <3>1. x \in Nat /\ y \in Nat
        OBVIOUS
      <3>2. ASSUME NEW z \in S, z > y PROVE z > x
        <4>1. z \in Nat
          OBVIOUS
        <4> QED
          BY <1>5, <3>1, <3>2, <4>1
      <3>3. ~ (y > y)
        BY <3>1
      <3> QED
        BY <1>5, <3>2, <3>3
    <2>2. /\ Cardinality(above(y)) <= Cardinality(above(x))
          /\ Cardinality(above(y)) # Cardinality(above(x))
      <3> HIDE DEF above
      <3> QED
        BY <1>1, <2>1, FS_Subset
    <2> QED
      BY <1>1, <1>4, <2>2
  <1>6. ASSUME NEW y \in S PROVE x >= y
    <2>1. x \in Nat /\ y \in Nat
      OBVIOUS
    <2>2. ~ (y > x)
      BY <1>5
    <2> HIDE DEF above
    <2> QED
      BY <2>1, <2>2
  <1> QED
    BY <1>6 DEF Max

\* A list of all elements of S, each once and with its score, the best first.
Lists(list, S, score) ==
    /\ list \in Seq([of : S, score : Nat])
    /\ \A x \in S : \E k \in DOMAIN list : list[k].of = x
    /\ \A k \in DOMAIN list : list[k].score = score[list[k].of]
    /\ Ordered(list)

\* A place for each element.
Places(place, S) ==
    /\ \A x \in S : place[x] \in Nat
    /\ \A x, y \in S : place[x] = place[y] => x = y

LEMMA ListedRight ==
    ASSUME NEW S, NEW score \in [S -> Nat], NEW n \in Nat, NEW elem \in [1 .. n -> S],
           \A x \in S : \E k \in 1 .. n : elem[k] = x,
           \A i, j \in 1 .. n :
              i < j => elem[i] # elem[j] /\ score[elem[i]] >= score[elem[j]],
           NEW list, list = [k \in 1 .. n |-> [of |-> elem[k], score |-> score[elem[k]]]]
    PROVE  Lists(list, S, score)
  <1>1. ASSUME NEW k \in 1 .. n
        PROVE  /\ list[k] \in [of : S, score : Nat]
               /\ list[k].of = elem[k] /\ list[k].score = score[elem[k]]
    <2>1. list[k] = [of |-> elem[k], score |-> score[elem[k]]]
      OBVIOUS
    <2>2. elem[k] \in S /\ score[elem[k]] \in Nat
      OBVIOUS
    <2> QED
      BY <2>1, <2>2
  <1>2. list \in [1 .. n -> [of : S, score : Nat]]
    BY <1>1
  <1>3. list \in Seq([of : S, score : Nat]) /\ DOMAIN list = 1 .. n
    BY <1>2, SeqDef
  <1> QED
    BY <1>1, <1>3 DEF Lists, Ordered

\* All places but one.
LEMMA OneLess ==
    ASSUME NEW n \in Nat, NEW k \in 0 .. n - 1
    PROVE  /\ IsFiniteSet((0 .. n - 1) \ {k})
           /\ Cardinality((0 .. n - 1) \ {k}) = n - 1
  <1>1. IsFiniteSet(0 .. n - 1) /\ Cardinality(0 .. n - 1) = n
    BY FS_Interval
  <1> DEFINE I == 0 .. n - 1
  <1>2. IsFiniteSet(I) /\ k \in I /\ Cardinality(I) = n
    BY <1>1
  <1> HIDE DEF I
  <1>3. IsFiniteSet(I \ {k}) /\ Cardinality(I \ {k}) = n - 1
    BY <1>2, FS_RemoveElement
  <1> QED
    BY <1>3 DEF I

\* What Sorted returns of any finite set: each of its elements at one place,
\* and none behind one that scores less.
LEMMA SortedRight ==
    ASSUME NEW S, IsFiniteSet(S), NEW score \in [S -> Nat],
           NEW place, Places(place, S),
           NEW sorted, sorted = Sorted(score, place)
    PROVE  Lists(sorted, S, score)
  <1> DEFINE n == Cardinality(S)
             before(x) == Before(score, place, x)
             pos == [x \in S |-> Cardinality(before(x))]
  <1>1. n \in Nat /\ DOMAIN score = S
    BY FS_CardinalityType
  <1>2. ASSUME NEW x \in S
        PROVE  /\ before(x) \in SUBSET S /\ x \notin before(x)
               /\ IsFiniteSet(before(x)) /\ pos[x] \in Nat /\ pos[x] = Cardinality(before(x))
    <2>1. before(x) \in SUBSET S /\ x \notin before(x)
      BY DEF Before, Places
    <2> HIDE DEF before
    <2> QED
      BY <2>1, FS_Subset, FS_CardinalityType
  <1>3. ASSUME NEW x \in S PROVE pos[x] \in 0 .. n - 1
    <2>1. Cardinality(before(x)) <= n /\ Cardinality(before(x)) # n
      <3> HIDE DEF before
      <3> QED
        BY <1>2, FS_Subset
    <2> HIDE DEF before, pos, n
    <2> QED
      BY <1>1, <1>2, <2>1
  <1>4. ASSUME NEW x \in S, NEW y \in before(x) PROVE y \in S /\ pos[y] < pos[x]
    <2>1. y \in S /\ before(y) \in SUBSET before(x)
      BY DEF Before, Places
    <2>2. y \notin before(y)
      BY <1>2, <2>1
    <2>3. /\ Cardinality(before(y)) <= Cardinality(before(x))
          /\ Cardinality(before(y)) # Cardinality(before(x))
      <3> HIDE DEF before
      <3> QED
        BY <1>2, <2>1, <2>2, FS_Subset
    <2> HIDE DEF before, pos
    <2> QED
      BY <1>2, <2>1, <2>3
  <1>5. ASSUME NEW x \in S, NEW y \in S, x # y PROVE x \in before(y) \/ y \in before(x)
    BY <1>5 DEF Before, Places
  <1>6. ASSUME NEW x \in S, NEW y \in S, pos[x] = pos[y] PROVE x = y
    <2> HIDE DEF before, pos
    <2> QED
      BY <1>2, <1>4, <1>5, <1>6
  <1>7. ASSUME NEW k \in 0 .. n - 1 PROVE \E x \in S : pos[x] = k
    <2> SUFFICES ASSUME \A x \in S : pos[x] # k PROVE FALSE
      OBVIOUS
    <2> DEFINE T == (0 .. n - 1) \ {k}
    <2>1. IsFiniteSet(T) /\ Cardinality(T) = n - 1
      <3> HIDE DEF n
      <3> QED
        BY <1>1, <1>7, OneLess
    <2>2. pos \in [S -> T]
      <3> HIDE DEF before, n
      <3> QED
        BY <1>3
    <2>3. Cardinality(T) < n
      <3> HIDE DEF T, n
      <3> QED
        BY <1>1, <2>1
    <2>4. \E x, y \in S : x # y /\ pos[x] = pos[y]
      <3> HIDE DEF T, pos
      <3> QED
        BY <2>1, <2>2, <2>3, FS_PigeonHole
    <2> QED
      BY <1>6, <2>4
  <1> DEFINE elem(k) == CHOOSE x \in S : Cardinality(before(x)) = k - 1
  <1>8. ASSUME NEW k \in 1 .. n PROVE elem(k) \in S /\ pos[elem(k)] = k - 1
    <2>1. k - 1 \in 0 .. n - 1
      <3> HIDE DEF n
      <3> QED
        BY <1>1
    <2>2. \E x \in S : Cardinality(before(x)) = k - 1
      BY <1>7, <2>1
    <2> HIDE DEF before, n
    <2> QED
      BY <2>2
  <1>9. sorted = [k \in 1 .. n |-> [of |-> elem(k), score |-> score[elem(k)]]]
    BY <1>1 DEF Sorted
  <1>11. ASSUME NEW x \in S PROVE \E k \in 1 .. n : elem(k) = x
    <2>1. pos[x] + 1 \in 1 .. n /\ (pos[x] + 1) - 1 = pos[x]
      <3> HIDE DEF pos, n
      <3> QED
        BY <1>1, <1>3
    <2>2. pos[elem(pos[x] + 1)] = pos[x] /\ elem(pos[x] + 1) \in S
      <3> HIDE DEF pos, n, elem
      <3> QED
        BY <1>8, <2>1
    <2> HIDE DEF pos, n, elem
    <2> QED
      BY <1>6, <2>1, <2>2
  <1>12. ASSUME NEW i \in 1 .. n, NEW j \in 1 .. n, i < j
         PROVE  elem(i) # elem(j) /\ score[elem(i)] >= score[elem(j)]
    <2>1. /\ elem(i) \in S /\ elem(j) \in S /\ pos[elem(i)] = i - 1 /\ pos[elem(j)] = j - 1
      BY <1>8
    <2>2. elem(i) # elem(j) /\ elem(j) \notin before(elem(i))
      <3> HIDE DEF pos, n, elem, before
      <3> QED
        BY <1>4, <1>12, <2>1
    <2>3. score[elem(j)] \in Nat /\ score[elem(i)] \in Nat
      <3> HIDE DEF elem
      <3> QED
        BY <2>1
    <2>4. ~ score[elem(j)] > score[elem(i)]
      <3> HIDE DEF elem
      <3> QED
        BY <1>1, <2>1, <2>2 DEF Before
    <2> QED
      BY <2>2, <2>3, <2>4
  <1> DEFINE e == [k \in 1 .. n |-> elem(k)]
  <1>13. e \in [1 .. n -> S] /\ \A k \in 1 .. n : e[k] = elem(k)
    <2> HIDE DEF elem, n
    <2> QED
      BY <1>8
  <1> HIDE DEF elem, n, e, before, pos
  <1>14. sorted = [k \in 1 .. n |-> [of |-> e[k], score |-> score[e[k]]]]
    BY <1>9, <1>13
  <1>15. /\ \A x \in S : \E k \in 1 .. n : e[k] = x
         /\ \A i, j \in 1 .. n : i < j => e[i] # e[j] /\ score[e[i]] >= score[e[j]]
    BY <1>11, <1>12, <1>13
  <1> QED
    BY <1>1, <1>13, <1>14, <1>15, ListedRight


\* The elements of a sequence.
LEMMA Lines ==
    ASSUME NEW S, NEW list \in Seq(S)
    PROVE  /\ Len(list) \in Nat /\ DOMAIN list = 1 .. Len(list)
           /\ \A i \in DOMAIN list : list[i] \in S
  <1>1. Len(list) \in Nat /\ DOMAIN list = 1 .. Len(list)
    BY LenProperties
  <1>2. ASSUME NEW i \in DOMAIN list PROVE list[i] \in S
    BY <1>1, <1>2, ElementOfSeq
  <1> QED
    BY <1>1, <1>2

\* A list that has the best of S first: nothing twice, nothing behind a lower
\* score, and before each line everything that scores more.
BestFirst(list, S, score) ==
    /\ list \in Seq([of : S, score : Nat])
    /\ \A i \in DOMAIN list : list[i].score = score[list[i].of]
    /\ Ordered(list)
    /\ \A i \in DOMAIN list, x \in S :
          score[x] > list[i].score => \E k \in 1 .. i - 1 : list[k].of = x

\* Sorted has the best first.
LEMMA SortedBestFirst ==
    ASSUME NEW S, IsFiniteSet(S), NEW score \in [S -> Nat],
           NEW place, Places(place, S),
           NEW list, list = Sorted(score, place)
    PROVE  BestFirst(list, S, score)
  <1>1. Lists(list, S, score)
    BY SortedRight
  <1>2. Len(list) \in Nat /\ DOMAIN list = 1 .. Len(list)
        /\ \A i \in DOMAIN list : list[i] \in [of : S, score : Nat]
    <2>1. list \in Seq([of : S, score : Nat])
      BY <1>1 DEF Lists
    <2> QED
      BY <2>1, Lines
  <1>3. ASSUME NEW i \in DOMAIN list, NEW x \in S, score[x] > list[i].score
        PROVE  \E k \in 1 .. i - 1 : list[k].of = x
    <2>1. PICK k \in DOMAIN list : list[k].of = x
      BY <1>1 DEF Lists
    <2>2. list[k].score = score[x] /\ list[k].score \in Nat /\ list[i].score \in Nat
      BY <1>1, <1>2, <2>1 DEF Lists
    <2>3. list[k].score > list[i].score
      BY <1>3, <2>2
    <2>5. ~ (list[i].score >= list[k].score)
      BY <2>2, <2>3
    <2>4. i # k
      BY <2>2, <2>3
    <2>6. ~ (i < k)
      BY <1>1, <2>5 DEF Lists, Ordered
    <2> QED
      BY <1>2, <2>1, <2>4, <2>6
  <1> QED
    BY <1>1, <1>3 DEF BestFirst, Lists

\* The first lines of a list.
Heads(first, list) ==
    /\ first \in Seq(Range(list)) /\ Len(first) <= Len(list)
    /\ \A i \in DOMAIN first : first[i] = list[i]

\* So have the first lines of a list that has.
LEMMA HeadBestFirst ==
    ASSUME NEW S, NEW score, NEW list, BestFirst(list, S, score),
           NEW first, Heads(first, list)
    PROVE  BestFirst(first, S, score)
  <1>1. /\ list \in Seq([of : S, score : Nat]) /\ Len(list) \in Nat
        /\ DOMAIN list = 1 .. Len(list)
        /\ \A i \in DOMAIN list : list[i] \in [of : S, score : Nat]
    <2>1. list \in Seq([of : S, score : Nat])
      BY DEF BestFirst
    <2> QED
      BY <2>1, Lines
  <1>2. /\ Len(first) \in Nat /\ DOMAIN first = 1 .. Len(first)
        /\ DOMAIN first \subseteq DOMAIN list
    BY <1>1, LenProperties DEF Heads
  <1>3. first \in [1 .. Len(first) -> [of : S, score : Nat]]
    BY <1>1, <1>2, LenProperties DEF Heads
  <1>4. first \in Seq([of : S, score : Nat])
    <2> DEFINE n == Len(first)
    <2>1. n \in Nat /\ first \in [1 .. n -> [of : S, score : Nat]]
      BY <1>2, <1>3
    <2>2. PICK m : m = n
      OBVIOUS
    <2> HIDE DEF n
    <2>3. m \in Nat /\ first \in [1 .. m -> [of : S, score : Nat]]
      BY <2>1, <2>2
    <2>4. first \in UNION {[1 .. k -> [of : S, score : Nat]] : k \in Nat}
      BY <2>3
    <2> QED
      BY <2>4, SeqDef
  <1>5. ASSUME NEW i \in DOMAIN first, NEW x \in S, score[x] > first[i].score
        PROVE  \E k \in 1 .. i - 1 : first[k].of = x
    <2>1. i \in DOMAIN list /\ score[x] > list[i].score
      BY <1>2, <1>5 DEF Heads
    <2>2. PICK k \in 1 .. i - 1 : list[k].of = x
      BY <2>1 DEF BestFirst
    <2>3. k \in DOMAIN first
      BY <1>2
    <2> QED
      BY <2>2, <2>3 DEF Heads
  <1> QED
    BY <1>2, <1>4, <1>5 DEF BestFirst, Heads, Ordered

\* What SubSeq, Cut and TruncateToBudget return are the first lines.
LEMMA HeadsType ==
    ASSUME NEW S, NEW list \in Seq(S), NEW n \in 0 .. Len(list)
    PROVE  Heads(SubSeq(list, 1, n), list)
  <1>1. /\ Len(list) \in Nat /\ DOMAIN list = 1 .. Len(list)
    BY LenProperties
  <1>2. \A i \in 1 .. n : list[i] \in Range(list)
    BY <1>1 DEF Range
  <1>3. /\ SubSeq(list, 1, n) \in Seq(Range(list))
        /\ Len(SubSeq(list, 1, n)) = IF 1 <= n THEN n - 1 + 1 ELSE 0
        /\ \A i \in 1 .. n - 1 + 1 : SubSeq(list, 1, n)[i] = list[1 + i - 1]
    BY <1>1, <1>2, SubSeqProperties
  <1>4. Len(SubSeq(list, 1, n)) = n /\ DOMAIN SubSeq(list, 1, n) = 1 .. n
    BY <1>1, <1>3, LenProperties
  <1>5. \A i \in 1 .. n : SubSeq(list, 1, n)[i] = list[i]
    BY <1>1, <1>3
  <1> QED
    BY <1>1, <1>3, <1>4, <1>5 DEF Heads

LEMMA AllHeads ==
    ASSUME NEW S, NEW list \in Seq(S)
    PROVE  Heads(list, list)
  <1>1. Len(list) \in Nat /\ list \in [1 .. Len(list) -> Range(list)]
    BY LenProperties DEF Range
  <1>2. list \in Seq(Range(list))
    BY <1>1, SeqDef
  <1> QED
    BY <1>1, <1>2 DEF Heads

LEMMA CutHeads ==
    ASSUME NEW S, NEW list \in Seq(S), NEW topK \in Nat
    PROVE  Heads(Cut(list, topK), list)
  <1>1. Len(list) \in Nat
    BY LenProperties
  <1>2. CASE topK > 0 /\ Len(list) > topK
    <2>1. topK \in 0 .. Len(list)
      BY <1>1, <1>2
    <2> QED
      BY <1>2, <2>1, HeadsType DEF Cut
  <1>3. CASE ~ (topK > 0 /\ Len(list) > topK)
    BY <1>3, AllHeads DEF Cut
  <1> QED
    BY <1>2, <1>3

\* Nothing has no length.
LEMMA EmptyTotal == Total(<<>>) = 0
  <1> DEFINE body(f, s) ==
               IF s = {} THEN 0
               ELSE LET x == Max(s) IN f[s \ {x}] + Length[<<>>[x].of] + 1
             iter == CHOOSE f : f = [s \in SUBSET {} |-> body(f, s)]
  <1>1. Total(<<>>) = iter[{}]
    BY DEF Total, FoldLeft, MapThenFoldSet
  <1>2. [s \in SUBSET {} |-> 0] = [s \in SUBSET {} |-> body([r \in SUBSET {} |-> 0], s)]
    OBVIOUS
  <1>3. \E f : f = [s \in SUBSET {} |-> body(f, s)]
    <2> HIDE DEF body
    <2> QED
      BY <1>2
  <1>4. iter = [s \in SUBSET {} |-> body(iter, s)]
    <2> HIDE DEF body
    <2> QED
      BY <1>3
  <1> HIDE DEF iter
  <1>5. iter[{}] = 0
    BY <1>4
  <1> QED
    BY <1>1, <1>5

LEMMA BudgetHeads ==
    ASSUME NEW S, NEW list \in Seq(S)
    PROVE  Heads(TruncateToBudget(list), list) /\ Fits(TruncateToBudget(list))
  <1> DEFINE fits == {n \in 0 .. Len(list) : Total(SubSeq(list, 1, n)) <= Budget}
  <1>1. Len(list) \in Nat /\ Budget \in Nat
    BY LenProperties, RecallAssumption
  <1>2. CASE Budget = 0
    BY <1>2, AllHeads DEF TruncateToBudget, Fits
  <1>3. CASE Budget # 0
    <2>1. 0 \in fits
      <3>1. SubSeq(list, 1, 0) = <<>>
        BY SubSeqEmpty
      <3>2. Total(SubSeq(list, 1, 0)) = 0
        BY <3>1, EmptyTotal
      <3> QED
        BY <1>1, <3>2
    <2>2. fits \in SUBSET Nat /\ IsFiniteSet(fits)
      <3>1. fits \in SUBSET (0 .. Len(list)) /\ IsFiniteSet(0 .. Len(list))
        BY <1>1, FS_Interval
      <3> HIDE DEF fits
      <3>2. IsFiniteSet(fits)
        BY <3>1, FS_Subset
      <3> QED
        BY <1>1, <3>1, <3>2
    <2>3. Max(fits) \in fits /\ \A m \in fits : Max(fits) >= m
      <3> HIDE DEF fits
      <3> QED
        BY <2>1, <2>2, GreatestOf
    <2>4. TruncateToBudget(list) = SubSeq(list, 1, CHOOSE n \in fits : \A m \in fits : m <= n)
      BY <1>3 DEF TruncateToBudget
    <2> DEFINE n == CHOOSE n \in fits : \A m \in fits : m <= n
    <2>5. n \in fits
      <3>1. \E x \in fits : \A m \in fits : m <= x
        <4> HIDE DEF fits
        <4> QED
          BY <2>2, <2>3
      <3> HIDE DEF fits
      <3> QED
        BY <3>1
    <2>6. n \in 0 .. Len(list) /\ Total(SubSeq(list, 1, n)) <= Budget
      <3> HIDE DEF n
      <3> QED
        BY <2>5
    <2> HIDE DEF n, fits
    <2>7. TruncateToBudget(list) = SubSeq(list, 1, n)
      BY <2>4 DEF n
    <2> QED
      BY <2>6, <2>7, HeadsType DEF Fits
  <1> QED
    BY <1>2, <1>3


\* What is recalled are the best of the rows that score enough.
LEMMA BestFactsBest ==
    ASSUME NEW R, IsFiniteSet(R), NEW score \in [R -> Nat], NEW order \in Orders(R),
           NEW best, best = BestFacts(score, order)
    PROVE  BestFirst(best, Enough(score), Restrict(score, Enough(score)))
  <1>1. PICK S : S = Enough(score)
    OBVIOUS
  <1>2. PICK scored : scored = Restrict(score, Enough(score))
    OBVIOUS
  <1>3. S \in SUBSET R /\ scored \in [S -> Nat]
    BY <1>1, <1>2 DEF Enough, Restrict
  <1>4. IsFiniteSet(S)
    BY <1>3, FS_Subset
  <1>5. Places(order, S)
    <2>1. Cardinality(R) \in Nat
      BY FS_CardinalityType
    <2>2. order \in [R -> 1 .. Cardinality(R)] /\ IsInjective(order)
      BY DEF Orders
    <2>3. \A x \in R : order[x] \in Nat
      BY <2>1, <2>2
    <2> QED
      BY <1>3, <2>2, <2>3 DEF Places, IsInjective
  <1>6. PICK list : list = Sorted(scored, order)
    OBVIOUS
  <1>7. BestFirst(list, S, scored)
    BY <1>3, <1>4, <1>5, <1>6, SortedBestFirst
  <1>8. Heads(best, list)
    <2>1. list \in Seq([of : S, score : Nat]) /\ FactTopK \in Nat
      BY <1>7, RecallAssumption DEF BestFirst
    <2>2. best = Cut(list, FactTopK)
      BY <1>2, <1>6 DEF BestFacts
    <2> QED
      BY <2>1, <2>2, CutHeads
  <1>9. BestFirst(best, S, scored)
    BY <1>7, <1>8, HeadBestFirst
  <1> QED
    BY <1>1, <1>2, <1>9

\* What a budget leaves of a list has the best first, too.
LEMMA TruncatedBest ==
    ASSUME NEW S, NEW score, NEW list, BestFirst(list, S, score),
           NEW lines, lines = TruncateToBudget(list)
    PROVE  BestFirst(lines, S, score) /\ Fits(lines)
  <1>1. list \in Seq([of : S, score : Nat])
    BY DEF BestFirst
  <1>2. Heads(lines, list) /\ Fits(lines)
    BY <1>1, BudgetHeads
  <1> QED
    BY <1>2, HeadBestFirst

\* Of any rows, whatever they score and however they come.
LEMMA FactsBest ==
    ASSUME NEW R, IsFiniteSet(R), NEW score \in [R -> Nat], NEW order \in Orders(R)
    PROVE  BestOfFacts(score, order)
  <1>1. PICK S : S = Enough(score)
    OBVIOUS
  <1>2. PICK scored : scored = Restrict(score, Enough(score))
    OBVIOUS
  <1>3. PICK best : best = BestFacts(score, order)
    OBVIOUS
  <1>4. PICK lines : lines = TruncateToBudget(best)
    OBVIOUS
  <1>5. Section("facts", BestFacts(score, order)) = lines
    BY <1>3, <1>4 DEF Section
  <1>6. BestFirst(lines, S, scored) /\ Fits(lines)
    BY <1>1, <1>2, <1>3, <1>4, BestFactsBest, TruncatedBest
  <1>7. ASSUME NEW i \in DOMAIN lines, NEW f \in DOMAIN score, score[f] > lines[i].score
        PROVE  \E k \in 1 .. i : lines[k].of = f
    <2>1. lines \in Seq([of : S, score : Nat])
      BY <1>6 DEF BestFirst
    <2>2. lines[i] \in [of : S, score : Nat] /\ i \in Nat
      <3>1. Len(lines) \in Nat /\ DOMAIN lines = 1 .. Len(lines)
        BY <2>1, Lines
      <3>2. \A n \in DOMAIN lines : lines[n] \in [of : S, score : Nat]
        BY <2>1, Lines
      <3> QED
        BY <3>1, <3>2
    <2>3. lines[i].of \in S /\ lines[i].score = scored[lines[i].of]
      BY <1>6, <2>2 DEF BestFirst
    <2>4. lines[i].score = score[lines[i].of] /\ lines[i].score >= MinScore
      BY <1>1, <1>2, <2>3 DEF Enough, Restrict
    <2>5. score[f] \in Nat /\ lines[i].score \in Nat /\ MinScore \in Nat
      BY <2>2, RecallAssumption
    <2>6. score[f] >= MinScore
      BY <1>7, <2>4, <2>5
    <2>7. f \in S /\ scored[f] = score[f]
      BY <1>1, <1>2, <2>6 DEF Enough, Restrict
    <2>8. PICK k \in 1 .. i - 1 : lines[k].of = f
      BY <1>6, <1>7, <2>7 DEF BestFirst
    <2>9. k \in 1 .. i
      BY <2>2
    <2> QED
      BY <2>8, <2>9
  <1>8. Ordered(lines)
    BY <1>6 DEF BestFirst
  <1> QED
    BY <1>5, <1>6, <1>7, <1>8 DEF BestOfFacts

Hits == [of : Texts, score : Nat, fresh : Nat]

\* Of any hits of the vector store, whichever they are.
LEMMA TextsBest ==
    ASSUME NEW hits \in Seq(Hits)
    PROVE  BestOfTexts(hits)
  <1>1. /\ Len(hits) \in Nat /\ DOMAIN hits = 1 .. Len(hits)
        /\ \A i \in DOMAIN hits : hits[i] \in Hits
    BY Lines
  <1>2. PICK S : S = {hits[i].of : i \in DOMAIN hits}
    OBVIOUS
  <1>3. IsFiniteSet(DOMAIN hits)
    BY <1>1, FS_Interval
  <1>4. IsFiniteSet(S)
    <2> DEFINE name == [i \in DOMAIN hits |-> hits[i].of]
    <2>1. name \in Surjection(DOMAIN hits, S)
      BY <1>2 DEF Surjection
    <2> HIDE DEF name
    <2> QED
      BY <1>3, <2>1, FS_Surjection
  <1>5. ASSUME NEW i \in DOMAIN hits PROVE Blended(hits[i]) \in Nat
    <2>1. hits[i].score \in Nat /\ hits[i].fresh \in Nat
      BY <1>1 DEF Hits
    <2> QED
      BY <2>1 DEF Blended
  <1> DEFINE blends(x) == {Blended(hits[i]) : i \in HitsOf(hits, x)}
  <1>6. ASSUME NEW x \in S
        PROVE  /\ HitsOf(hits, x) \in SUBSET Nat /\ HitsOf(hits, x) # {}
               /\ HitsOf(hits, x) \in SUBSET DOMAIN hits
               /\ blends(x) \in SUBSET Nat /\ blends(x) # {}
    <2>1. /\ HitsOf(hits, x) \in SUBSET DOMAIN hits /\ HitsOf(hits, x) # {}
      BY <1>2 DEF HitsOf
    <2> QED
      BY <1>1, <1>5, <2>1
  <1>7. ASSUME NEW x \in S PROVE IsFiniteSet(blends(x))
    <2> DEFINE blend == [i \in HitsOf(hits, x) |-> Blended(hits[i])]
    <2>1. blend \in Surjection(HitsOf(hits, x), blends(x))
      BY DEF Surjection
    <2>2. IsFiniteSet(HitsOf(hits, x))
      BY <1>3, <1>6, FS_Subset
    <2> HIDE DEF blend, blends
    <2> QED
      BY <2>1, <2>2, FS_Surjection
  <1>8. ASSUME NEW x \in S
        PROVE  Max(blends(x)) \in Nat /\ \A y \in blends(x) : Max(blends(x)) >= y
    <2> HIDE DEF blends
    <2> QED
      BY <1>6, <1>7, GreatestOf
  <1>9. PICK score : score = [x \in S |-> Max(blends(x))]
    OBVIOUS
  <1>10. PICK place : place = [x \in S |-> Min(HitsOf(hits, x))]
    OBVIOUS
  <1>11. score \in [S -> Nat]
    <2> HIDE DEF blends
    <2> QED
      BY <1>8, <1>9
  <1>12. Places(place, S)
    <2>1. ASSUME NEW x \in S PROVE place[x] \in HitsOf(hits, x)
      BY <1>6, <1>10, LeastOf
    <2>2. \A x \in S : place[x] \in Nat /\ hits[place[x]].of = x
      BY <1>1, <2>1 DEF HitsOf
    <2> QED
      BY <2>2 DEF Places
  <1>13. PICK list : list = Sorted(score, place)
    OBVIOUS
  <1>14. BestFirst(list, S, score)
    BY <1>4, <1>11, <1>12, <1>13, SortedBestFirst
  <1>15. PICK lines : lines = TruncateToBudget(list)
    OBVIOUS
  <1>16. BestFirst(lines, S, score) /\ Fits(lines)
    BY <1>14, <1>15, TruncatedBest
  <1>17. Section("texts", hits) = lines
    BY <1>2, <1>9, <1>10, <1>13, <1>15 DEF Section, Rerank
  <1>18. ASSUME NEW i \in DOMAIN lines, NEW k \in DOMAIN hits,
                Blended(hits[k]) > lines[i].score
         PROVE  \E n \in 1 .. i - 1 : lines[n].of = hits[k].of
    <2>1. PICK x : x = hits[k].of
      OBVIOUS
    <2>2. x \in S /\ Blended(hits[k]) \in blends(x)
      BY <1>2, <2>1 DEF HitsOf
    <2>3. score[x] >= Blended(hits[k]) /\ score[x] \in Nat
      <3> HIDE DEF blends
      <3> QED
        BY <1>8, <1>9, <2>2
    <2>4. lines[i].score \in Nat
      <3>1. lines \in Seq([of : S, score : Nat])
        BY <1>16 DEF BestFirst
      <3>2. lines[i] \in [of : S, score : Nat]
        BY <3>1, Lines
      <3> QED
        BY <3>2
    <2>5. score[x] > lines[i].score
      BY <1>5, <1>18, <2>3, <2>4
    <2> QED
      BY <1>16, <2>1, <2>2, <2>5 DEF BestFirst
  <1>19. Ordered(lines)
    BY <1>16 DEF BestFirst
  <1> QED
    BY <1>16, <1>17, <1>18, <1>19 DEF BestOfTexts

-----------------------------------------------------------------------------
\* The ids that are to be marked are those of active rows, none twice.
LEMMA RecalledRows ==
    ASSUME TypeOK, NEW score \in FactScores, NEW order \in Orders(rows),
           NEW best, best = BestFacts(score, order),
           NEW ids, ids = [i \in DOMAIN best |-> best[i].of]
    PROVE  /\ ids \in Seq(Facts) /\ Range(ids) \subseteq rows
           /\ \A i, j \in DOMAIN ids : ids[i] = ids[j] => i = j
  <1>1. IsFiniteSet(rows)
    BY RecallAssumption, FS_Subset DEF TypeOK
  <1>2. score \in [rows -> Nat]
    BY RecallAssumption DEF FactScores
  <1>3. PICK S : S = Enough(score)
    OBVIOUS
  <1>4. BestFirst(best, S, Restrict(score, Enough(score)))
    BY <1>1, <1>2, <1>3, BestFactsBest
  <1>5. S \in SUBSET rows
    BY <1>2, <1>3 DEF Enough
  <1>6. /\ Len(best) \in Nat /\ DOMAIN best = 1 .. Len(best)
        /\ \A i \in DOMAIN best : best[i] \in [of : S, score : Nat]
    <2>1. best \in Seq([of : S, score : Nat])
      BY <1>4 DEF BestFirst
    <2> QED
      BY <2>1, Lines
  <1>7. DOMAIN ids = 1 .. Len(best) /\ \A i \in DOMAIN ids : ids[i] = best[i].of /\ ids[i] \in S
    BY <1>6
  <1>8. ids \in Seq(Facts)
    <2> DEFINE n == Len(best)
    <2>1. n \in Nat /\ ids \in [1 .. n -> Facts]
      BY <1>5, <1>6, <1>7 DEF TypeOK
    <2> HIDE DEF n
    <2> QED
      BY <2>1, SeqDef
  <1>9. ASSUME NEW i \in DOMAIN ids, NEW j \in DOMAIN ids, ids[i] = ids[j] PROVE i = j
    <2>1. i \in DOMAIN best /\ j \in DOMAIN best /\ best[i].of = best[j].of
      BY <1>6, <1>7, <1>9
    <2>2. ~ (i < j) /\ ~ (j < i)
      BY <1>4, <2>1 DEF BestFirst, Ordered
    <2> QED
      BY <1>6, <2>1, <2>2
  <1> QED
    BY <1>5, <1>7, <1>8, <1>9 DEF Range

LEMMA TypeInit == Init => TypeOK
  <1> SUFFICES ASSUME Init PROVE TypeOK
    OBVIOUS
  <1>1. NoJob \in Job
    BY EmptySeq DEF NoJob, Job
  <1>2. /\ queue \in Seq(Facts) /\ Len(queue) = 0 /\ vecs \in Seq(Texts) /\ Len(vecs) = 0
    BY EmptySeq DEF Init
  <1>3. Cardinality({}) = 0
    BY FS_EmptySet
  <1>4. job \in [Turns -> [Channels -> Job]]
    BY <1>1 DEF Init
  <1> QED
    BY <1>2, <1>3, <1>4, RecallAssumption DEF Init, TypeOK

LEMMA TypeNext == TypeOK /\ [Next]_vars => TypeOK'
  <1> SUFFICES ASSUME TypeOK, [Next]_vars PROVE TypeOK'
    OBVIOUS
  <1> USE DEF TypeOK
  <1>1. /\ NoJob \in Job /\ Launched \in Job
    BY EmptySeq DEF NoJob, Launched, Job
  <1>2. ASSUME NEW t \in Turns, NEW c \in Channels, NEW j \in Job
        PROVE  Jobs(t, c, j) \in [Turns -> [Channels -> Job]]
    BY <1>1, <1>2 DEF Jobs, Channels
  <1>3. ASSUME NEW t \in Turns, NEW c \in Channels
        PROVE  job[t][c] \in Job /\ \A s \in {"none", "reading", "answering", "sent"} :
                                       [job[t][c] EXCEPT !.at = s] \in Job
    <2>1. job[t][c] \in Job
      OBVIOUS
    <2> QED
      BY <2>1 DEF Job
  <1>4. ASSUME NEW t \in Turns, NEW c \in Channels, GoOn(t, c)
        PROVE  at' \in [Turns -> {"idle", "facts", "texts", "done"}]
    BY <1>4 DEF GoOn
  <1>5. ASSUME NEW t \in Turns, Ask(t) PROVE TypeOK'
    <2>1. job' \in [Turns -> [Channels -> Job]]
      <3>1. \/ job' = [job EXCEPT ![t]["facts"] = Launched]
            \/ job' = job
        BY <1>5 DEF Ask
      <3>2. [job[t] EXCEPT !["facts"] = Launched] \in [Channels -> Job]
        BY <1>1 DEF Channels
      <3> QED
        BY <3>1, <3>2
    <2>2. at' \in [Turns -> {"idle", "facts", "texts", "done"}]
      BY <1>5 DEF Ask
    <2> QED
      BY <1>5, <2>1, <2>2 DEF Ask, marks, history
  <1>6. ASSUME NEW t \in Turns, ReadFacts(t) PROVE TypeOK'
    <2>1. PICK score \in FactScores, order \in Orders(rows) :
             LET best == BestFacts(score, order)
                 ids == [i \in DOMAIN best |-> best[i].of]
             IN  /\ job' = [job EXCEPT ![t]["facts"] = [at |-> "answering", toMark |-> ids]]
                 /\ recalls' = PlusOne(recalls, Range(ids))
      BY <1>6 DEF ReadFacts
    <2>2. PICK best : best = BestFacts(score, order)
      OBVIOUS
    <2>3. PICK ids : ids = [i \in DOMAIN best |-> best[i].of]
      OBVIOUS
    <2>4. /\ job' = [job EXCEPT ![t]["facts"] = [at |-> "answering", toMark |-> ids]]
          /\ recalls' = PlusOne(recalls, Range(ids))
      BY <2>1, <2>2, <2>3
    <2>5. ids \in Seq(Facts)
      <3> HIDE DEF TypeOK
      <3> QED
        BY <2>2, <2>3, RecalledRows
    <2>6. [at |-> "answering", toMark |-> ids] \in Job
      BY <2>5 DEF Job
    <2>7. job' \in [Turns -> [Channels -> Job]] /\ recalls' \in [Facts -> Nat]
      BY <2>4, <2>6 DEF Channels, PlusOne
    <2> QED
      BY <1>6, <2>7 DEF ReadFacts, marks
  <1>7. ASSUME NEW t \in Turns, NEW c \in Channels, Search(t, c) PROVE TypeOK'
    BY <1>3, <1>7 DEF Search, marks, history
  <1>8. ASSUME NEW t \in Turns, MarkUsed(t) PROVE TypeOK'
    <2> DEFINE j == job[t]["facts"]
    <2>1. j \in Job /\ j.toMark \in Seq(Facts) /\ j.toMark # <<>>
      BY <1>3, <1>8 DEF MarkUsed, Job, Channels
    <2>2. Head(j.toMark) \in Facts /\ Tail(j.toMark) \in Seq(Facts)
      <3> HIDE DEF j
      <3> QED
        BY <2>1, HeadTailProperties
    <2>3. [j EXCEPT !.toMark = Tail(j.toMark)] \in Job
      <3> HIDE DEF j
      <3> QED
        BY <2>1, <2>2 DEF Job
    <2>4. job' \in [Turns -> [Channels -> Job]]
      BY <1>8, <2>3 DEF MarkUsed, Channels
    <2>5. queue' \in Seq(Facts) /\ Len(queue') <= QueueCap
          /\ dropped' \in [Facts -> Nat]
      <3>1. Len(queue) \in Nat /\ QueueCap \in Nat
        BY RecallAssumption, LenProperties
      <3>2. CASE Len(queue) < QueueCap
        <4>1. queue' = Append(queue, Head(j.toMark)) /\ dropped' = dropped
          BY <1>8, <3>2 DEF MarkUsed
        <4>2. queue' \in Seq(Facts) /\ Len(queue') = Len(queue) + 1
          <5> HIDE DEF j
          <5> QED
            BY <2>2, <4>1, AppendProperties
        <4> QED
          BY <3>1, <3>2, <4>1, <4>2
      <3>3. CASE ~ (Len(queue) < QueueCap)
        <4>1. queue' = queue /\ dropped' = PlusOne(dropped, {Head(j.toMark)})
          BY <1>8, <3>3 DEF MarkUsed
        <4> QED
          BY <4>1 DEF PlusOne
      <3> QED
        BY <3>2, <3>3
    <2> QED
      BY <1>8, <2>4, <2>5 DEF MarkUsed
  <1>9. ASSUME NEW t \in Turns, NEW c \in Channels, Send(t, c) PROVE TypeOK'
    <2>1. job' \in [Turns -> [Channels -> Job]]
      BY <1>1, <1>3, <1>9 DEF Send
    <2> QED
      BY <1>9, <2>1 DEF Send, marks, history
  <1>10. ASSUME NEW t \in Turns, NEW c \in Channels, Receive(t, c) PROVE TypeOK'
    <2>1. job' \in [Turns -> [Channels -> Job]]
      BY <1>1, <1>2, <1>10 DEF Receive
    <2> QED
      BY <1>4, <1>10, <2>1 DEF Receive, marks, history
  <1>11. ASSUME NEW t \in Turns, NEW c \in Channels, TimeOut(t, c) PROVE TypeOK'
    <2>1. (IF job[t][c].at = "sent" THEN NoJob ELSE job[t][c]) \in Job
      BY <1>1, <1>3
    <2>2. job' \in [Turns -> [Channels -> Job]]
      BY <1>2, <1>11, <2>1 DEF TimeOut
    <2> QED
      BY <1>4, <1>11, <2>2 DEF TimeOut, marks, history
  <1>12. CASE Collect
    <2>1. Head(queue) \in Facts /\ Tail(queue) \in Seq(Facts) /\ Len(Tail(queue)) = Len(queue) - 1
      BY <1>12, HeadTailProperties DEF Collect
    <2>2. Len(queue) \in Nat /\ QueueCap \in Nat /\ BatchCap \in Nat
      BY RecallAssumption, LenProperties
    <2>3. IsFiniteSet(pending) /\ Cardinality(pending) \in Nat
      BY RecallAssumption, FS_Subset, FS_CardinalityType
    <2>4. Cardinality(pending \cup {Head(queue)}) <= Cardinality(pending) + 1
          /\ Cardinality(pending \cup {Head(queue)}) \in Nat
      <3>1. PICK f : f = Head(queue)
        OBVIOUS
      <3>2. /\ IsFiniteSet(pending \cup {f})
            /\ Cardinality(pending \cup {f}) =
                  IF f \in pending THEN Cardinality(pending) ELSE Cardinality(pending) + 1
        BY <2>3, FS_AddElement
      <3> QED
        BY <2>3, <3>1, <3>2
    <2>5. Cardinality(pending') <= BatchCap
      BY <1>12, <2>2, <2>3, <2>4 DEF Collect
    <2>6. Len(queue') <= QueueCap
      <3>1. queue' = Tail(queue) /\ Len(queue) <= QueueCap
        BY <1>12 DEF Collect
      <3> QED
        BY <2>1, <2>2, <3>1
    <2>7. merged' \in [Facts -> Nat]
      <3>1. PICK S : merged' = PlusOne(merged, S)
        BY <1>12 DEF Collect
      <3>2. merged \in [Facts -> Nat]
        OBVIOUS
      <3> QED
        BY <3>1, <3>2 DEF PlusOne
    <2>8. UNCHANGED <<rows, uses, vecs, at, job, recalls, dropped>> /\ queue' \in Seq(Facts)
      BY <1>12, <2>1 DEF Collect
    <2> QED
      BY <1>12, <2>1, <2>5, <2>6, <2>7, <2>8 DEF Collect
  <1>13. CASE Flush
    <2>1. Cardinality(pending') <= BatchCap
      BY <1>13, FS_EmptySet, RecallAssumption DEF Flush
    <2>2. uses' \in [Facts -> Nat]
      <3>1. CASE uses' = CountUses
        BY <3>1 DEF CountUses, PlusOne
      <3>2. CASE uses' = uses
        BY <3>2
      <3> QED
        BY <1>13, <3>1, <3>2 DEF Flush
    <2>3. dropped' \in [Facts -> Nat]
      <3>1. CASE dropped' = PlusOne(dropped, pending)
        BY <3>1 DEF PlusOne
      <3>2. CASE dropped' = dropped
        BY <3>2
      <3> QED
        BY <1>13, <3>1, <3>2 DEF Flush
    <2> QED
      BY <1>13, <2>1, <2>2, <2>3 DEF Flush
  <1>14. ASSUME NEW f \in rows, Evict(f) PROVE TypeOK'
    BY <1>14 DEF Evict, marks, history
  <1>15. ASSUME NEW text \in Texts, AdmitEpisodic(text) PROVE TypeOK'
    <2> DEFINE longer == Append(vecs, text)
    <2>0. vecs \in Seq(Texts)
      OBVIOUS
    <2>1. longer \in Seq(Texts) /\ longer # <<>> /\ Len(longer) = Len(vecs) + 1
      <3> HIDE DEF TypeOK
      <3> QED
        BY <2>0, AppendProperties
    <2>2. Len(vecs) \in Nat /\ MaxVectors \in Nat
      BY RecallAssumption, LenProperties
    <2>3. vecs' = IF Len(longer) > MaxVectors THEN Tail(longer) ELSE longer
      BY <1>15 DEF AdmitEpisodic, Upsert
    <2> HIDE DEF longer
    <2>4. Tail(longer) \in Seq(Texts) /\ Len(Tail(longer)) = Len(longer) - 1
      BY <2>1, HeadTailProperties
    <2>5. vecs' \in Seq(Texts) /\ Len(vecs') <= MaxVectors
      BY <2>1, <2>2, <2>3, <2>4
    <2> QED
      BY <1>15, <2>5 DEF AdmitEpisodic, marks, history
  <1>16. CASE UNCHANGED vars
    BY <1>16 DEF vars
  <1> QED
    BY <1>5, <1>6, <1>7, <1>8, <1>9, <1>10, <1>11, <1>12, <1>13, <1>14, <1>15, <1>16
       DEF Next, Worker, Turn, MarkLoop

\* The variables of Recall keep to their types: neither the channel, the batch
\* of markLoop nor the texts of the vector store exceed their limits.
THEOREM RecallTypeOK == Spec => []TypeOK
  <1> QED
    BY TypeInit, TypeNext, PTL DEF Spec

\* It is a fact of the ranking alone: any state of the right types has it.
LEMMA BestIsInjected == TypeOK => InjectsTheBest
  <1> SUFFICES ASSUME TypeOK PROVE InjectsTheBest
    OBVIOUS
  <1>1. ASSUME NEW score \in FactScores, NEW order \in Orders(rows)
        PROVE  BestOfFacts(score, order)
    <2>1. IsFiniteSet(rows)
      BY RecallAssumption, FS_Subset DEF TypeOK
    <2>2. score \in [rows -> Nat]
      BY RecallAssumption DEF FactScores
    <2> QED
      BY <2>1, <2>2, FactsBest
  <1>2. ASSUME NEW similar \in Similarities, NEW fresh \in Ages,
               NEW order \in Orders(DOMAIN vecs)
        PROVE  BestOfTexts(Nearest(similar, fresh, order))
    <2>1. /\ Len(vecs) \in Nat /\ DOMAIN vecs = 1 .. Len(vecs)
          /\ \A i \in DOMAIN vecs : vecs[i] \in Texts
      BY Lines DEF TypeOK
    <2>2. PICK S : S = {i \in DOMAIN vecs : similar[vecs[i]] >= MinSimilarity}
      OBVIOUS
    <2>3. PICK score : score = [i \in S |-> similar[vecs[i]]]
      OBVIOUS
    <2>4. IsFiniteSet(DOMAIN vecs) /\ Cardinality(DOMAIN vecs) \in Nat
      BY <2>1, FS_Interval, FS_CardinalityType
    <2>5. IsFiniteSet(S) /\ S \in SUBSET DOMAIN vecs
      BY <2>2, <2>4, FS_Subset
    <2>6. score \in [S -> Nat]
      <3>1. \A i \in DOMAIN vecs : vecs[i] \in Range(vecs)
        BY DEF Range
      <3> QED
        BY <2>3, <2>5, <3>1, RecallAssumption DEF Similarities
    <2>7. Places(order, S)
      <3>1. order \in [DOMAIN vecs -> 1 .. Cardinality(DOMAIN vecs)] /\ IsInjective(order)
        BY DEF Orders
      <3>2. \A x \in DOMAIN vecs : order[x] \in Nat
        BY <2>4, <3>1
      <3> QED
        BY <2>5, <3>1, <3>2 DEF Places, IsInjective
    <2>8. PICK list : list = Sorted(score, order)
      OBVIOUS
    <2>9. BestFirst(list, S, score)
      BY <2>5, <2>6, <2>7, <2>8, SortedBestFirst
    <2>10. PICK near : near = Cut(list, VectorTopK)
      OBVIOUS
    <2>11. Heads(near, list)
      <3>1. list \in Seq([of : S, score : Nat]) /\ VectorTopK \in Nat
        BY <2>9, RecallAssumption DEF BestFirst
      <3> QED
        BY <2>10, <3>1, CutHeads
    <2>12. BestFirst(near, S, score)
      BY <2>9, <2>11, HeadBestFirst
    <2>13. /\ Len(near) \in Nat /\ DOMAIN near = 1 .. Len(near)
           /\ \A i \in DOMAIN near : near[i] \in [of : S, score : Nat]
      <3>1. near \in Seq([of : S, score : Nat])
        BY <2>12 DEF BestFirst
      <3> QED
        BY <3>1, Lines
    <2>14. PICK hits : hits = [k \in DOMAIN near |->
                 [of |-> vecs[near[k].of], score |-> near[k].score,
                  fresh |-> fresh[near[k].of]]]
      OBVIOUS
    <2>15. hits = Nearest(similar, fresh, order)
      BY <2>2, <2>3, <2>8, <2>10, <2>14 DEF Nearest
    <2>16. ASSUME NEW k \in DOMAIN near
           PROVE  [of |-> vecs[near[k].of], score |-> near[k].score,
                  fresh |-> fresh[near[k].of]] \in Hits
      <3>1. near[k].of \in S /\ near[k].score \in Nat
        BY <2>13
      <3>2. vecs[near[k].of] \in Texts /\ fresh[near[k].of] \in Nat
        BY <2>1, <2>5, <3>1, RecallAssumption DEF Ages
      <3> QED
        BY <3>1, <3>2 DEF Hits
    <2>17. hits \in Seq(Hits)
      <3> DEFINE n == Len(near)
      <3>1. n \in Nat /\ hits \in [1 .. n -> Hits]
        BY <2>13, <2>14, <2>16
      <3> HIDE DEF n
      <3> QED
        BY <3>1, SeqDef
    <2> QED
      BY <2>15, <2>17, TextsBest
  <1> QED
    BY <1>1, <1>2 DEF InjectsTheBest

\* Whatever scoreOf, the embedder and the clock make of them, and in whatever
\* order the query returns them and sort.Slice leaves equals, what Retrieve
\* injects fits the budget, names nothing twice and has the best first.
THEOREM RecallInjectsTheBest == Spec => []InjectsTheBest
  <1> QED
    BY RecallTypeOK, BestIsInjected, PTL

-----------------------------------------------------------------------------
\* The ids that the recall of a turn has still to mark.
Marks(t) == job[t]["facts"].toMark

\* Only an answering goroutine has ids to mark, and none of them twice; and a
\* turn that has not asked has no goroutine.
MarksOnce ==
    \A t \in Turns :
        /\ job[t]["facts"].at # "answering" => Marks(t) = <<>>
        /\ \A i, j \in DOMAIN Marks(t) : Marks(t)[i] = Marks(t)[j] => i = j
        /\ at[t] = "idle" => job[t]["facts"].at = "none"

PlacesOf(f, q) == {i \in DOMAIN q : q[i] = f}

\* The uses of a row that are known of; those of a row that was deleted may be
\* forgotten by the update.
Known(f) == uses[f] + dropped[f] + merged[f] + Underway(f)

AllKnown ==
    \A f \in Facts :
        /\ IsFiniteSet(Markers(f))
        /\ Known(f) <= recalls[f] /\ (f \in rows => Known(f) = recalls[f])

CountInv == MarksOnce /\ AllKnown

\* What is known of can be counted.
LEMMA KnownCounts ==
    ASSUME TypeOK, NEW f \in Facts, IsFiniteSet(Markers(f))
    PROVE  /\ Cardinality(Markers(f)) \in Nat
           /\ IsFiniteSet(Queued(f)) /\ Cardinality(Queued(f)) \in Nat
           /\ Collected(f) \in Nat
           /\ uses[f] \in Nat /\ dropped[f] \in Nat /\ merged[f] \in Nat /\ recalls[f] \in Nat
  <1>1. Len(queue) \in Nat /\ DOMAIN queue = 1 .. Len(queue)
    BY Lines DEF TypeOK
  <1>2. IsFiniteSet(DOMAIN queue)
    BY <1>1, FS_Interval
  <1>3. Queued(f) \in SUBSET DOMAIN queue
    BY DEF Queued
  <1>4. IsFiniteSet(Queued(f))
    BY <1>2, <1>3, FS_Subset
  <1> QED
    BY <1>4, FS_CardinalityType DEF Collected, TypeOK

LEMMA CountImplies == TypeOK /\ CountInv => UsesCounted
  BY DEF CountInv, AllKnown, Known, UsesCounted

LEMMA CountInit == Init => CountInv
  <1> SUFFICES ASSUME Init PROVE CountInv
    OBVIOUS
  <1>1. \A t \in Turns : Marks(t) = <<>> /\ job[t]["facts"].at = "none"
    BY DEF Init, Marks, NoJob, Channels
  <1>2. MarksOnce
    BY <1>1 DEF MarksOnce
  <1>3. \A f \in Facts : Markers(f) = {} /\ Queued(f) = {} /\ Collected(f) = 0
    BY <1>1 DEF Markers, Queued, Marks, Collected, Range, Init
  <1>4. \A f \in Facts : uses[f] = 0 /\ dropped[f] = 0 /\ merged[f] = 0 /\ recalls[f] = 0
    BY DEF Init
  <1>5. Cardinality({}) = 0 /\ IsFiniteSet({})
    BY FS_EmptySet
  <1>6. AllKnown
    BY <1>3, <1>4, <1>5 DEF AllKnown, Known, Underway
  <1> QED
    BY <1>2, <1>6 DEF CountInv

\* Steps that neither recall nor mark anything.
LEMMA SameCounts ==
    ASSUME CountInv, \A t \in Turns : Marks(t)' = Marks(t), MarksOnce',
           UNCHANGED <<uses, queue, pending, recalls, dropped, merged>>, rows' \subseteq rows
    PROVE  CountInv'
  <1>1. ASSUME NEW f \in Facts
        PROVE  Markers(f)' = Markers(f) /\ Queued(f)' = Queued(f) /\ Collected(f)' = Collected(f)
    BY DEF Markers, Queued, Collected, Marks
  <1>2. AllKnown'
    BY <1>1 DEF CountInv, AllKnown, Known, Underway
  <1> QED
    BY <1>2 DEF CountInv

\* Taking the first of a queue takes one place of what it holds.
LEMMA TailCount ==
    ASSUME NEW S, NEW q \in Seq(S), q # <<>>, NEW f
    PROVE  Cardinality(PlacesOf(f, q)) =
              Cardinality(PlacesOf(f, Tail(q))) + IF Head(q) = f THEN 1 ELSE 0
  <1>old. PICK old : old = {i \in DOMAIN q : q[i] = f}
    OBVIOUS
  <1>new. PICK new : new = {i \in DOMAIN Tail(q) : Tail(q)[i] = f}
    OBVIOUS
  <1>1. Len(q) \in Nat \ {0} /\ DOMAIN q = 1 .. Len(q) /\ Head(q) = q[1]
    BY Lines, EmptySeq
  <1>2. /\ Tail(q) \in Seq(S) /\ Len(Tail(q)) = Len(q) - 1
        /\ \A i \in 1 .. Len(Tail(q)) : Tail(q)[i] = q[i + 1]
    BY HeadTailProperties
  <1>3. DOMAIN Tail(q) = 1 .. Len(q) - 1
    BY <1>2, Lines
  <1>4. IsFiniteSet(old)
    <2>1. IsFiniteSet(1 .. Len(q))
      BY <1>1, FS_Interval
    <2>2. old \in SUBSET (1 .. Len(q))
      BY <1>1, <1>old
    <2> QED
      BY <2>1, <2>2, FS_Subset
  <1>5. ExistsBijection(new, old \ {1})
    <2>1. PICK shift : shift = [i \in new |-> i + 1]
      OBVIOUS
    <2>2. ASSUME NEW i \in new PROVE i \in Nat /\ shift[i] = i + 1 /\ i + 1 \in old \ {1}
      <3>1. i \in 1 .. Len(q) - 1 /\ Tail(q)[i] = f
        BY <1>3, <1>new
      <3>2. i + 1 \in DOMAIN q /\ q[i + 1] = f /\ i \in Nat /\ i + 1 # 1
        BY <1>1, <1>2, <3>1
      <3> QED
        BY <1>old, <2>1, <3>2
    <2>3. ASSUME NEW k \in old \ {1} PROVE k - 1 \in new /\ (k - 1) + 1 = k
      <3>1. k \in 1 .. Len(q) /\ q[k] = f /\ k # 1
        BY <1>1, <1>old
      <3>2. k - 1 \in 1 .. Len(q) - 1 /\ (k - 1) + 1 = k
        BY <1>1, <3>1
      <3>3. Tail(q)[k - 1] = f
        BY <1>2, <3>1, <3>2
      <3> QED
        BY <1>3, <1>new, <3>2, <3>3
    <2>4. shift \in [new -> old \ {1}]
      BY <2>1, <2>2
    <2>5. \A i, k \in new : shift[i] = shift[k] => i = k
      BY <2>2
    <2>6. \A k \in old \ {1} : \E i \in new : shift[i] = k
      <3>1. ASSUME NEW k \in old \ {1} PROVE shift[k - 1] = k /\ k - 1 \in new
        BY <2>2, <2>3
      <3> QED
        BY <3>1
    <2>7. shift \in Injection(new, old \ {1}) /\ shift \in Surjection(new, old \ {1})
      BY <2>4, <2>5, <2>6 DEF Injection, Surjection, IsInjective
    <2> QED
      BY <2>7 DEF ExistsBijection, Bijection
  <1>6. /\ IsFiniteSet(old \ {1})
        /\ Cardinality(old \ {1}) = IF 1 \in old THEN Cardinality(old) - 1 ELSE Cardinality(old)
    BY <1>4, FS_RemoveElement
  <1>7. Cardinality(new) = Cardinality(old \ {1})
    <2>1. IsFiniteSet(1 .. Len(q) - 1)
      BY <1>1, FS_Interval
    <2>2. new \in SUBSET (1 .. Len(q) - 1)
      BY <1>3, <1>new
    <2>3. IsFiniteSet(new)
      BY <2>1, <2>2, FS_Subset
    <2> QED
      BY <1>5, <2>3, FS_Bijection
  <1>8. 1 \in old <=> Head(q) = f
    BY <1>1, <1>old
  <1>9. Cardinality(old) \in Nat
    BY <1>4, FS_CardinalityType
  <1>10. Cardinality(old) = Cardinality(new) + IF Head(q) = f THEN 1 ELSE 0
    <2>1. CASE Head(q) = f
      BY <1>6, <1>7, <1>8, <1>9, <2>1
    <2>2. CASE Head(q) # f
      BY <1>6, <1>7, <1>8, <1>9, <2>2
    <2> QED
      BY <2>1, <2>2
  <1> QED
    BY <1>old, <1>new, <1>10 DEF PlacesOf

\* A recall adds to the count and sets the same ids under way.
LEMMA ReadCounts ==
    ASSUME TypeOK, CountInv, NEW t \in Turns, ReadFacts(t)
    PROVE  CountInv'
  <1>1. PICK score \in FactScores, order \in Orders(rows) :
           LET best == BestFacts(score, order)
               ids == [i \in DOMAIN best |-> best[i].of]
           IN  /\ job' = [job EXCEPT ![t]["facts"] = [at |-> "answering", toMark |-> ids]]
               /\ recalls' = PlusOne(recalls, Range(ids))
    BY DEF ReadFacts
  <1>2. PICK best : best = BestFacts(score, order)
    OBVIOUS
  <1>3. PICK ids : ids = [i \in DOMAIN best |-> best[i].of]
    OBVIOUS
  <1>4. /\ job' = [job EXCEPT ![t]["facts"] = [at |-> "answering", toMark |-> ids]]
        /\ recalls' = PlusOne(recalls, Range(ids))
    BY <1>1, <1>2, <1>3
  <1>5. \A i, j \in DOMAIN ids : ids[i] = ids[j] => i = j
    BY <1>2, <1>3, RecalledRows
  <1>6. job \in [Turns -> [Channels -> Job]] /\ "facts" \in Channels
    BY DEF TypeOK, Channels
  <1>7. /\ job'[t]["facts"].at = "answering" /\ Marks(t)' = ids
        /\ \A u \in Turns : u # t => job'[u] = job[u] /\ Marks(u)' = Marks(u)
    BY <1>4, <1>6 DEF Marks
  <1>8. Marks(t) = <<>> /\ at[t] # "idle"
    BY DEF ReadFacts, CountInv, MarksOnce
  <1>9. MarksOnce'
    BY <1>5, <1>7, <1>8 DEF CountInv, MarksOnce, ReadFacts
  <1>10. UNCHANGED <<rows, uses, queue, pending, dropped, merged>>
    BY DEF ReadFacts, marks
  <1>11. ASSUME NEW f \in Facts
         PROVE  /\ Markers(f)' = IF f \in Range(ids) THEN Markers(f) \cup {t} ELSE Markers(f)
                /\ t \notin Markers(f)
                /\ Queued(f)' = Queued(f) /\ Collected(f)' = Collected(f)
                /\ recalls'[f] = recalls[f] + IF f \in Range(ids) THEN 1 ELSE 0
    <2>1. t \notin Markers(f)
      BY <1>8 DEF Markers, Marks, Range
    <2>2. Markers(f)' = IF f \in Range(ids) THEN Markers(f) \cup {t} ELSE Markers(f)
      BY <1>7, <2>1 DEF Markers, Marks
    <2>3. recalls'[f] = recalls[f] + IF f \in Range(ids) THEN 1 ELSE 0
      BY <1>4 DEF TypeOK, PlusOne
    <2> QED
      BY <1>10, <2>1, <2>2, <2>3 DEF Queued, Collected
  <1>12. AllKnown'
    <2> SUFFICES ASSUME NEW f \in Facts
                 PROVE  /\ IsFiniteSet(Markers(f)') /\ Known(f)' <= recalls'[f]
                        /\ f \in rows => Known(f)' = recalls'[f]
      BY <1>10 DEF AllKnown
    <2>1. /\ IsFiniteSet(Markers(f)) /\ Known(f) <= recalls[f]
          /\ f \in rows => Known(f) = recalls[f]
      BY DEF CountInv, AllKnown
    <2>2. /\ Cardinality(Markers(f)) \in Nat /\ Cardinality(Queued(f)) \in Nat
          /\ Collected(f) \in Nat
          /\ uses[f] \in Nat /\ dropped[f] \in Nat /\ merged[f] \in Nat /\ recalls[f] \in Nat
      BY <2>1, KnownCounts
    <2>3. /\ IsFiniteSet(Markers(f) \cup {t})
          /\ Cardinality(Markers(f) \cup {t}) =
                IF t \in Markers(f) THEN Cardinality(Markers(f)) ELSE Cardinality(Markers(f)) + 1
      BY <2>1, FS_AddElement
    <2>4. CASE f \in Range(ids)
      <3>1. IsFiniteSet(Markers(f)') /\ Cardinality(Markers(f)') = Cardinality(Markers(f)) + 1
        BY <1>11, <2>3, <2>4
      <3> QED
        BY <1>10, <1>11, <2>1, <2>2, <2>4, <3>1 DEF Known, Underway
    <2>5. CASE f \notin Range(ids)
      BY <1>10, <1>11, <2>1, <2>2, <2>5 DEF Known, Underway
    <2> QED
      BY <2>4, <2>5
  <1> QED
    BY <1>9, <1>12 DEF CountInv

\* A mark takes an id from the goroutine, to the channel or to what is dropped.
LEMMA MarkCounts ==
    ASSUME TypeOK, CountInv, NEW t \in Turns, MarkUsed(t)
    PROVE  CountInv'
  <1>1. job \in [Turns -> [Channels -> Job]] /\ "facts" \in Channels
    BY DEF TypeOK, Channels
  <1>2. PICK left : left = Marks(t)
    OBVIOUS
  <1>3. left \in Seq(Facts) /\ left # <<>> /\ job[t]["facts"].at = "answering"
    <2>1. job[t]["facts"] \in Job
      BY <1>1
    <2> QED
      BY <1>2, <2>1 DEF MarkUsed, Marks, Job
  <1>4. /\ Head(left) \in Facts /\ Tail(left) \in Seq(Facts)
        /\ Len(Tail(left)) = Len(left) - 1
        /\ \A i \in 1 .. Len(Tail(left)) : Tail(left)[i] = left[i + 1]
    BY <1>3, HeadTailProperties
  <1>5. Len(left) \in Nat \ {0} /\ DOMAIN left = 1 .. Len(left) /\ Head(left) = left[1]
    BY <1>3, Lines, EmptySeq
  <1>6. DOMAIN Tail(left) = 1 .. Len(left) - 1
    BY <1>4, Lines
  <1>7. \A i, j \in DOMAIN left : left[i] = left[j] => i = j
    BY <1>2 DEF CountInv, MarksOnce
  <1>8. \A i \in DOMAIN Tail(left) :
           i + 1 \in DOMAIN left /\ Tail(left)[i] = left[i + 1] /\ i \in Nat
    BY <1>4, <1>5, <1>6
  <1>9. Range(Tail(left)) = Range(left) \ {Head(left)}
    <2>1. ASSUME NEW f \in Range(Tail(left)) PROVE f \in Range(left) \ {Head(left)}
      <3>1. PICK i \in DOMAIN Tail(left) : Tail(left)[i] = f
        BY DEF Range
      <3>2. i + 1 \in DOMAIN left /\ left[i + 1] = f /\ i + 1 # 1 /\ 1 \in DOMAIN left
        BY <1>5, <1>6, <1>8, <3>1
      <3>3. f # left[1]
        BY <1>7, <3>2
      <3> QED
        BY <1>5, <3>2, <3>3 DEF Range
    <2>2. ASSUME NEW f \in Range(left), f # Head(left) PROVE f \in Range(Tail(left))
      <3>1. PICK i \in DOMAIN left : left[i] = f
        BY DEF Range
      <3>2. i # 1
        BY <1>5, <2>2, <3>1
      <3>3. i - 1 \in 1 .. Len(left) - 1 /\ (i - 1) + 1 = i
        BY <1>5, <3>2
      <3>4. i - 1 \in DOMAIN Tail(left) /\ Tail(left)[i - 1] = f
        BY <1>6, <1>8, <3>1, <3>3
      <3> QED
        BY <3>4 DEF Range
    <2> QED
      BY <2>1, <2>2
  <1>10. \A i, j \in DOMAIN Tail(left) : Tail(left)[i] = Tail(left)[j] => i = j
    <2>1. ASSUME NEW i \in DOMAIN Tail(left), NEW j \in DOMAIN Tail(left),
                 Tail(left)[i] = Tail(left)[j]
          PROVE  i = j
      <3>1. i + 1 = j + 1 /\ i \in Nat /\ j \in Nat
        BY <1>7, <1>8, <2>1
      <3> QED
        BY <3>1
    <2> QED
      BY <2>1
  <1>11. PICK used : used = Head(left)
    OBVIOUS
  <1>12. /\ Marks(t)' = Tail(left) /\ job'[t]["facts"].at = "answering"
         /\ \A u \in Turns : u # t => job'[u] = job[u] /\ Marks(u)' = Marks(u)
    <2>1. job' = [job EXCEPT ![t]["facts"] = [job[t]["facts"] EXCEPT !.toMark = Tail(left)]]
      BY <1>1, <1>2 DEF MarkUsed, Marks
    <2>2. job[t]["facts"] \in [at : {"none", "reading", "answering", "sent"}, toMark : Seq(Facts)]
      BY <1>1 DEF Job
    <2> QED
      BY <1>1, <1>3, <2>1, <2>2 DEF Marks
  <1>13. MarksOnce'
    <2>1. at' = at /\ MarksOnce
      BY DEF CountInv, MarkUsed
    <2>2. at[t] # "idle"
      BY <1>3, <2>1 DEF MarksOnce
    <2>3. \A i, j \in DOMAIN Marks(t)' : Marks(t)'[i] = Marks(t)'[j] => i = j
      BY <1>10, <1>12
    <2>4. ASSUME NEW u \in Turns
          PROVE  /\ job'[u]["facts"].at # "answering" => Marks(u)' = <<>>
                 /\ \A i, j \in DOMAIN Marks(u)' : Marks(u)'[i] = Marks(u)'[j] => i = j
                 /\ at'[u] = "idle" => job'[u]["facts"].at = "none"
      <3>1. CASE u = t
        BY <1>12, <2>1, <2>2, <2>3, <3>1
      <3>2. CASE u # t
        <4>1. job'[u] = job[u] /\ Marks(u)' = Marks(u)
          BY <1>12, <3>2
        <4> QED
          BY <2>1, <4>1 DEF MarksOnce
      <3> QED
        BY <3>1, <3>2
    <2> QED
      BY <2>4 DEF MarksOnce
  <1>14. UNCHANGED <<rows, uses, pending, recalls, merged>>
    BY DEF MarkUsed
  <1>15. /\ used \in Facts /\ t \in Markers(used) /\ Markers(used)' = Markers(used) \ {t}
         /\ \A f \in Facts : f # used => Markers(f)' = Markers(f)
    <2>1. used \in Range(left)
      BY <1>5, <1>11 DEF Range
    <2>2. ASSUME NEW f \in Facts
          PROVE  \A u \in Turns : f \in Range(Marks(u)') <=>
                    f \in Range(Marks(u)) /\ ~ (u = t /\ f = used)
      BY <1>2, <1>9, <1>11, <1>12
    <2> QED
      BY <1>2, <1>4, <1>11, <2>1, <2>2 DEF Markers, Marks
  <1>16. Len(queue) \in Nat /\ DOMAIN queue = 1 .. Len(queue) /\ queue \in Seq(Facts)
    BY Lines DEF TypeOK
  <1>17. \/ queue' = Append(queue, used) /\ dropped' = dropped
         \/ queue' = queue
            /\ \A f \in Facts : dropped'[f] = dropped[f] + IF f = used THEN 1 ELSE 0
    <2>1. \/ queue' = Append(queue, used) /\ dropped' = dropped
          \/ queue' = queue /\ dropped' = PlusOne(dropped, {used})
      BY <1>2, <1>11 DEF MarkUsed, Marks
    <2> QED
      BY <2>1 DEF TypeOK, PlusOne
  <1>18. ASSUME queue' = Append(queue, used)
         PROVE  /\ Queued(used)' = Queued(used) \cup {Len(queue) + 1}
                /\ Len(queue) + 1 \notin Queued(used)
                /\ \A f \in Facts : f # used => Queued(f)' = Queued(f)
    <2>1. /\ queue' \in Seq(Facts) /\ Len(queue') = Len(queue) + 1
          /\ \A i \in 1 .. Len(queue) : queue'[i] = queue[i]
          /\ queue'[Len(queue) + 1] = used
      BY <1>15, <1>16, <1>18, AppendProperties
    <2>2. DOMAIN queue' = 1 .. (Len(queue) + 1)
      BY <2>1, Lines
    <2>3. DOMAIN queue' = DOMAIN queue \cup {Len(queue) + 1} /\ Len(queue) + 1 \notin DOMAIN queue
      BY <1>16, <2>2
    <2>4. \A i \in DOMAIN queue : queue'[i] = queue[i]
      BY <1>16, <2>1
    <2> QED
      BY <2>1, <2>3, <2>4 DEF Queued
  <1>19. AllKnown'
    <2> SUFFICES ASSUME NEW f \in Facts
                 PROVE  /\ IsFiniteSet(Markers(f)') /\ Known(f)' <= recalls'[f]
                        /\ f \in rows => Known(f)' = recalls'[f]
      BY <1>14 DEF AllKnown
    <2>1. /\ IsFiniteSet(Markers(f)) /\ Known(f) <= recalls[f]
          /\ f \in rows => Known(f) = recalls[f]
      BY DEF CountInv, AllKnown
    <2>2. /\ Cardinality(Markers(f)) \in Nat /\ Cardinality(Queued(f)) \in Nat
          /\ Collected(f) \in Nat /\ IsFiniteSet(Queued(f))
          /\ uses[f] \in Nat /\ dropped[f] \in Nat /\ merged[f] \in Nat /\ recalls[f] \in Nat
      BY <2>1, KnownCounts
    <2>3. Collected(f)' = Collected(f)
      BY <1>14 DEF Collected
    <2>4. CASE f = used
      <3>1. IsFiniteSet(Markers(f)') /\ Cardinality(Markers(f)') = Cardinality(Markers(f)) - 1
        <4>1. /\ IsFiniteSet(Markers(f) \ {t})
              /\ Cardinality(Markers(f) \ {t}) =
                    IF t \in Markers(f) THEN Cardinality(Markers(f)) - 1
                    ELSE Cardinality(Markers(f))
          BY <2>1, FS_RemoveElement
        <4> QED
          BY <1>15, <2>4, <4>1
      <3>2. \/ Cardinality(Queued(f)') = Cardinality(Queued(f)) + 1 /\ dropped'[f] = dropped[f]
            \/ Cardinality(Queued(f)') = Cardinality(Queued(f)) /\ dropped'[f] = dropped[f] + 1
        <4>1. CASE queue' = Append(queue, used) /\ dropped' = dropped
          <5>1. PICK last : last = Len(queue) + 1
            OBVIOUS
          <5>2. Cardinality(Queued(f) \cup {last}) =
                   IF last \in Queued(f) THEN Cardinality(Queued(f)) ELSE Cardinality(Queued(f)) + 1
            BY <2>2, FS_AddElement
          <5> QED
            BY <1>18, <2>4, <4>1, <5>1, <5>2
        <4>2. CASE queue' = queue /\ dropped'[f] = dropped[f] + 1
          BY <4>2 DEF Queued
        <4> QED
          BY <1>17, <2>4, <4>1, <4>2
      <3> QED
        BY <1>14, <2>1, <2>2, <2>3, <3>1, <3>2 DEF Known, Underway
    <2>5. CASE f # used
      <3>1. Queued(f)' = Queued(f) /\ dropped'[f] = dropped[f]
        <4>1. CASE queue' = Append(queue, used) /\ dropped' = dropped
          BY <1>18, <2>5, <4>1
        <4>2. CASE queue' = queue /\ dropped'[f] = dropped[f] + 0
          BY <2>2, <4>2 DEF Queued
        <4> QED
          BY <1>17, <2>5, <4>1, <4>2
      <3> QED
        BY <1>14, <1>15, <2>1, <2>3, <2>5, <3>1 DEF Known, Underway
    <2> QED
      BY <2>4, <2>5
  <1> QED
    BY <1>13, <1>19 DEF CountInv

\* The loop takes it from the channel; a second one of the same row merges.
LEMMA CollectCounts ==
    ASSUME TypeOK, CountInv, Collect
    PROVE  CountInv'
  <1>1. queue \in Seq(Facts) /\ queue # <<>> /\ queue' = Tail(queue)
        /\ pending' = pending \cup {Head(queue)}
    BY DEF TypeOK, Collect
  <1>2. UNCHANGED <<rows, uses, at, job, recalls, dropped>>
    BY DEF Collect
  <1>3. MarksOnce'
    BY <1>2 DEF CountInv, MarksOnce, Marks
  <1>4. \A f \in Facts : Markers(f)' = Markers(f)
    BY <1>2 DEF Markers
  <1>5. \A f \in Facts :
           merged'[f] = merged[f] + IF f \in {Head(queue)} \cap pending THEN 1 ELSE 0
    BY DEF Collect, TypeOK, PlusOne
  <1>6. TypeOK'
    <2>1. [Next]_vars
      BY DEF Next, MarkLoop
    <2> QED
      BY <2>1, TypeNext
  <1>7. AllKnown'
    <2> SUFFICES ASSUME NEW f \in Facts
                 PROVE  /\ IsFiniteSet(Markers(f)') /\ Known(f)' <= recalls'[f]
                        /\ f \in rows => Known(f)' = recalls'[f]
      BY <1>2 DEF AllKnown
    <2>1. /\ IsFiniteSet(Markers(f)) /\ Known(f) <= recalls[f]
          /\ f \in rows => Known(f) = recalls[f]
      BY DEF CountInv, AllKnown
    <2>2. /\ Cardinality(Markers(f)) \in Nat /\ Cardinality(Queued(f)) \in Nat
          /\ Collected(f) \in Nat
          /\ uses[f] \in Nat /\ dropped[f] \in Nat /\ merged[f] \in Nat /\ recalls[f] \in Nat
      BY <2>1, KnownCounts
    <2>3. PICK new : new = PlacesOf(f, Tail(queue))
      OBVIOUS
    <2>4. PICK old : old = PlacesOf(f, queue)
      OBVIOUS
    <2>5. Cardinality(old) = Cardinality(new) + IF Head(queue) = f THEN 1 ELSE 0
      BY <1>1, <2>3, <2>4, TailCount
    <2>6. Queued(f) = old /\ Queued(f)' = new
      BY <1>1, <2>3, <2>4 DEF Queued, PlacesOf
    <2>7. Cardinality(Queued(f)') \in Nat
      <3>1. Len(queue') \in Nat /\ DOMAIN queue' = 1 .. Len(queue')
        BY <1>6, Lines DEF TypeOK
      <3>2. IsFiniteSet(DOMAIN queue')
        BY <3>1, FS_Interval
      <3>3. Queued(f)' \in SUBSET DOMAIN queue'
        BY DEF Queued
      <3> QED
        BY <3>2, <3>3, FS_Subset, FS_CardinalityType
    <2>8. CASE Head(queue) = f
      <3>1. Collected(f)' + merged'[f] = Collected(f) + merged[f] + 1
        BY <1>1, <1>5, <2>2, <2>8 DEF Collected
      <3>2. Collected(f)' \in Nat /\ merged'[f] \in Nat
        BY <1>6 DEF Collected, TypeOK
      <3> QED
        BY <1>2, <1>4, <2>1, <2>2, <2>5, <2>6, <2>7, <2>8, <3>1, <3>2 DEF Known, Underway
    <2>9. CASE Head(queue) # f
      <3>1. Collected(f)' = Collected(f) /\ merged'[f] = merged[f]
        BY <1>1, <1>5, <2>2, <2>9 DEF Collected
      <3> QED
        BY <1>2, <1>4, <2>1, <2>2, <2>5, <2>6, <2>7, <2>9, <3>1 DEF Known, Underway
    <2> QED
      BY <2>8, <2>9
  <1> QED
    BY <1>3, <1>7 DEF CountInv

\* The update counts what was collected, or fails; rows that are gone are none
\* of its business.
LEMMA FlushCounts ==
    ASSUME TypeOK, CountInv, Flush
    PROVE  CountInv'
  <1>1. UNCHANGED <<rows, queue, at, job, recalls, merged>> /\ pending' = {}
    BY DEF Flush
  <1>2. \/ uses' = PlusOne(uses, pending \cap rows) /\ dropped' = dropped
        \/ dropped' = PlusOne(dropped, pending) /\ uses' = uses
    BY DEF Flush, CountUses
  <1>3. MarksOnce'
    BY <1>1 DEF CountInv, MarksOnce, Marks
  <1>4. ASSUME NEW f \in Facts
        PROVE  /\ Markers(f)' = Markers(f) /\ Queued(f)' = Queued(f) /\ Collected(f)' = 0
               /\ uses[f] \in Nat /\ uses'[f] \in Nat /\ dropped[f] \in Nat /\ dropped'[f] \in Nat
               /\ uses'[f] + dropped'[f] <= uses[f] + dropped[f] + Collected(f)
               /\ f \in rows => uses'[f] + dropped'[f] = uses[f] + dropped[f] + Collected(f)
    <2>1. Markers(f)' = Markers(f) /\ Queued(f)' = Queued(f) /\ Collected(f)' = 0
      BY <1>1 DEF Markers, Queued, Collected
    <2>2. uses[f] \in Nat /\ dropped[f] \in Nat
      BY DEF TypeOK
    <2>3. CASE uses' = PlusOne(uses, pending \cap rows) /\ dropped' = dropped
      <3>1. uses'[f] = uses[f] + IF f \in pending \cap rows THEN 1 ELSE 0
        BY <2>3 DEF TypeOK, PlusOne
      <3> QED
        BY <2>1, <2>2, <2>3, <3>1 DEF Collected
    <2>4. CASE dropped' = PlusOne(dropped, pending) /\ uses' = uses
      <3>1. dropped'[f] = dropped[f] + IF f \in pending THEN 1 ELSE 0
        BY <2>4 DEF TypeOK, PlusOne
      <3> QED
        BY <2>1, <2>2, <2>4, <3>1 DEF Collected
    <2> QED
      BY <1>2, <2>3, <2>4
  <1>5. AllKnown'
    <2> SUFFICES ASSUME NEW f \in Facts
                 PROVE  /\ IsFiniteSet(Markers(f)') /\ Known(f)' <= recalls'[f]
                        /\ f \in rows => Known(f)' = recalls'[f]
      BY <1>1 DEF AllKnown
    <2>1. /\ IsFiniteSet(Markers(f)) /\ Known(f) <= recalls[f]
          /\ f \in rows => Known(f) = recalls[f]
      BY DEF CountInv, AllKnown
    <2>2. /\ Cardinality(Markers(f)) \in Nat /\ Cardinality(Queued(f)) \in Nat
          /\ Collected(f) \in Nat /\ merged[f] \in Nat /\ recalls[f] \in Nat
      BY <2>1, KnownCounts
    <2> QED
      BY <1>1, <1>4, <2>1, <2>2 DEF Known, Underway
  <1> QED
    BY <1>3, <1>5 DEF CountInv

\* Every step keeps the account.
LEMMA CountNext == TypeOK /\ CountInv /\ [Next]_vars => CountInv'
  <1> SUFFICES ASSUME TypeOK, CountInv, [Next]_vars PROVE CountInv'
    OBVIOUS
  <1>a. TypeOK'
    BY TypeNext
  <1>b. MarksOnce
    BY DEF CountInv
  <1>c. job \in [Turns -> [Channels -> Job]] /\ at \in [Turns -> {"idle", "facts", "texts", "done"}]
    BY DEF TypeOK
  <1>d. "facts" \in Channels /\ "texts" \in Channels /\ \A c \in Channels : c \in {"facts", "texts"}
    BY DEF Channels
  <1>e. DOMAIN <<>> = {} /\ NoJob.at = "none" /\ NoJob.toMark = <<>>
        /\ Launched.at = "reading" /\ Launched.toMark = <<>>
    BY DEF NoJob, Launched
  <1>1. ASSUME NEW t \in Turns, Ask(t) PROVE CountInv'
    <2>1. job[t]["facts"].at = "none" /\ Marks(t) = <<>>
      BY <1>1, <1>b DEF Ask, MarksOnce
    <2>2. \/ job' = job
          \/ job'[t]["facts"] = Launched
             /\ \A u \in Turns : u # t => job'[u] = job[u]
      BY <1>1, <1>c, <1>d DEF Ask
    <2>3. at' \in [Turns -> {"idle", "facts", "texts", "done"}] /\ at'[t] # "idle"
          /\ \A u \in Turns : u # t => at'[u] = at[u]
      BY <1>1, <1>a, <1>c DEF Ask, TypeOK
    <2>4. \A u \in Turns : Marks(u)' = Marks(u)
      BY <1>e, <2>1, <2>2 DEF Marks
    <2>5. MarksOnce'
      BY <1>b, <1>e, <2>1, <2>2, <2>3, <2>4 DEF MarksOnce
    <2> QED
      BY <1>1, <2>4, <2>5, SameCounts DEF Ask, marks, history
  <1>2. ASSUME NEW t \in Turns, NEW c \in Channels, Search(t, c) PROVE CountInv'
    <2>1. \A u \in Turns : Marks(u)' = Marks(u)
      BY <1>2, <1>c, <1>d DEF Search, Marks, Job
    <2>3. \A u \in Turns : \/ job'[u]["facts"].at = job[u]["facts"].at
                           \/ u = t /\ c = "facts"
      BY <1>2, <1>c, <1>d DEF Search
    <2>4. c = "facts" => at[t] # "idle" /\ Marks(t) = <<>>
      BY <1>2, <1>b DEF Search, MarksOnce
    <2>5. MarksOnce'
      BY <1>2, <1>b, <1>e, <2>1, <2>3, <2>4 DEF MarksOnce, Search
    <2> QED
      BY <1>2, <2>1, <2>5, SameCounts DEF Search, marks, history
  <1>3. ASSUME NEW t \in Turns, NEW c \in Channels, Send(t, c) PROVE CountInv'
    <2>1. job[t][c].toMark = <<>> /\ job[t][c].at = "answering" /\ job[t][c] \in Job
      BY <1>3, <1>c DEF Send
    <2>2. job' = [job EXCEPT ![t][c] = job'[t][c]]
          /\ (job'[t][c] = [job[t][c] EXCEPT !.at = "sent"] \/ job'[t][c] = NoJob)
      BY <1>3, <1>c DEF Send
    <2>3. job'[t][c].toMark = <<>>
      BY <1>e, <2>1, <2>2 DEF Job
    <2>4. \A u \in Turns : \/ job'[u]["facts"] = job[u]["facts"]
                           \/ u = t /\ c = "facts"
      BY <1>c, <1>d, <2>2
    <2>5. \A u \in Turns : Marks(u)' = Marks(u)
      BY <2>1, <2>3, <2>4 DEF Marks
    <2>6. c = "facts" => at[t] # "idle" /\ Marks(t) = <<>>
      BY <1>b, <2>1 DEF MarksOnce, Marks
    <2>7. MarksOnce'
      BY <1>3, <1>b, <1>e, <2>4, <2>5, <2>6 DEF MarksOnce, Send
    <2> QED
      BY <1>3, <2>5, <2>7, SameCounts DEF Send, marks, history
  <1>4. ASSUME NEW t \in Turns, NEW c \in Channels, Receive(t, c) \/ TimeOut(t, c) PROVE CountInv'
    <2>1. PICK j : /\ job' = Jobs(t, c, j)
                   /\ j = job[t][c] \/ (j = NoJob /\ job[t][c].at = "sent")
      BY <1>4 DEF Receive, TimeOut
    <2>2. j \in Job
      <3>1. NoJob \in Job
        BY EmptySeq DEF NoJob, Job
      <3> QED
        BY <1>c, <2>1, <3>1
    <2>3. \A u \in Turns : \/ job'[u]["facts"] = job[u]["facts"]
                           \/ u = t /\ c = "facts" /\ job'[u]["facts"] = NoJob
                              /\ job[u]["facts"].at = "sent"
      BY <1>c, <1>d, <2>1, <2>2 DEF Jobs
    <2>4. at[t] = c /\ (\A u \in Turns : u # t => at'[u] = at[u]) /\ at'[t] # "idle"
      BY <1>4, <1>c, <1>d DEF Receive, TimeOut, GoOn
    <2>5. \A u \in Turns : Marks(u)' = Marks(u)
      <3>1. \A u \in Turns : job[u]["facts"].at = "sent" => Marks(u) = <<>>
        BY <1>b DEF MarksOnce
      <3> QED
        BY <1>e, <2>3, <3>1 DEF Marks
    <2>6. MarksOnce'
      BY <1>b, <1>e, <2>3, <2>4, <2>5 DEF MarksOnce
    <2> QED
      BY <1>4, <2>5, <2>6, SameCounts DEF Receive, TimeOut, marks, history
  <1>5. ASSUME NEW f \in rows, Evict(f) PROVE CountInv'
    <2>1. \A u \in Turns : Marks(u)' = Marks(u)
      BY <1>5 DEF Evict, Marks
    <2>2. MarksOnce'
      BY <1>5, <1>b, <2>1 DEF MarksOnce, Evict
    <2> QED
      BY <1>5, <2>1, <2>2, SameCounts DEF Evict, marks, history
  <1>6. ASSUME NEW text \in Texts, AdmitEpisodic(text) PROVE CountInv'
    <2>1. \A u \in Turns : Marks(u)' = Marks(u)
      BY <1>6 DEF AdmitEpisodic, Marks
    <2>2. MarksOnce'
      BY <1>6, <1>b, <2>1 DEF MarksOnce, AdmitEpisodic
    <2> QED
      BY <1>6, <2>1, <2>2, SameCounts DEF AdmitEpisodic, marks, history
  <1>7. CASE UNCHANGED vars
    <2>1. \A u \in Turns : Marks(u)' = Marks(u)
      BY <1>7 DEF vars, Marks
    <2>2. MarksOnce'
      BY <1>7, <1>b, <2>1 DEF MarksOnce, vars
    <2> QED
      BY <1>7, <2>1, <2>2, SameCounts DEF vars
  <1>8. ASSUME NEW t \in Turns, ReadFacts(t) \/ MarkUsed(t) PROVE CountInv'
    BY <1>8, ReadCounts, MarkCounts
  <1>9. CASE Collect \/ Flush
    BY <1>9, CollectCounts, FlushCounts
  <1> QED
    BY <1>1, <1>2, <1>3, <1>4, <1>5, <1>6, <1>7, <1>8, <1>9 DEF Next, Worker, Turn, MarkLoop

\* However recalls that were given up, MarkUsedAsync, markLoop and evictions
\* interleave, hit_count never exceeds the recalls of a row; and each recall of a
\* row that is there is in hit_count, or on its way there, but for those that met a
\* full channel, a failed update, or a use waiting for the same update.
THEOREM RecallUsesCounted == Spec => []UsesCounted
  <1> QED
    BY TypeInit, TypeNext, CountInit, CountNext, CountImplies, PTL DEF Spec
-----------------------------------------------------------------------------
\* Every call to the LLM is for a session that this life has taken up, and the
\* one being handled has had none before Summarize.
Spent ==
    /\ \A s \in Sessions : asked[s] > 0 => s \in seen
    /\ current # Nobody => current \in seen
    /\ phase \in {"history", "summarize"} => asked[current] = 0

\* No row of the sweep, nor the one being handled, has been marked since the
\* query found it unmarked: nothing but the end of OnIdle marks, and it marks the
\* row that has left the sweep.
Unmarked ==
    /\ todo \cap summarized = {}
    /\ current \notin todo
    /\ phase # "hung" => current \notin summarized

\* What OnIdle has read, and then saved the end of, is all that was said in the
\* session that it handles, unless behind has it.
UpToDate ==
    current \notin behind =>
        /\ phase \in {"summarize", "save"} => read = said[current]
        /\ phase = "mark" => covered[current] = Latest(said[current])

IdleInv == ScanTypeOK /\ Spent /\ SummariesRight /\ Unmarked /\ UpToDate

LEMMA IdleInvInit == ScanInit => IdleInv
  BY IdleAssumption
  DEF ScanInit, IdleInv, ScanTypeOK, Spent, SummariesRight, AskedOnce, NothingSkipped, Unmarked, UpToDate

LEMMA ScanTypeNext == ScanTypeOK /\ [ScanNext]_scanVars => ScanTypeOK'
  <1> SUFFICES ASSUME ScanTypeOK, [ScanNext]_scanVars PROVE ScanTypeOK'
    OBVIOUS
  <1> USE IdleAssumption DEF ScanTypeOK, table
  <1>1. ASSUME NEW s \in Sessions, HumanMessage(s) \/ OtherMessage(s) PROVE ScanTypeOK'
    BY <1>1 DEF HumanMessage, OtherMessage, Say, Stir, Behind
  <1>2. ASSUME NEW s \in Sessions, GoIdle(s) PROVE ScanTypeOK'
    BY <1>2 DEF GoIdle
  <1>3. CASE Sweep
    <2>1. todo' \subseteq Sessions
      BY <1>3 DEF Sweep, Batches, Rows, kSubset
    <2> QED
      BY <1>3, <2>1 DEF Sweep
  <1>4. CASE EndSweep
    BY <1>4 DEF EndSweep
  <1>5. ASSUME NEW s \in Sessions, PassOver(s) PROVE ScanTypeOK'
    BY <1>5 DEF PassOver
  <1>6. ASSUME NEW s \in Sessions, Take(s) PROVE ScanTypeOK'
    BY <1>6 DEF Take, Unseen
  <1>7. CASE ReadHistory
    BY <1>7 DEF ReadHistory
  <1>8. CASE Summarize
    BY <1>8 DEF Summarize, Asking
  <1>9. CASE SaveSummary
    BY <1>9 DEF SaveSummary, Covers, Latest, Behind
  <1>10. CASE Mark
    BY <1>10 DEF Mark, NextRow
  <1>11. CASE GiveUp
    BY <1>11 DEF GiveUp, PerhapsMarked, NextRow, Asking
  <1>12. CASE Restart
    BY <1>12 DEF Restart
  <1>13. CASE UNCHANGED scanVars
    BY <1>13 DEF scanVars
  <1>14. CASE Hang
    BY <1>14 DEF Hang, PerhapsMarked, Untimed
  <1> QED
    BY <1>1, <1>2, <1>3, <1>4, <1>5, <1>6, <1>7, <1>8, <1>9, <1>10, <1>11, <1>12, <1>13, <1>14
       DEF ScanNext, Scan, OnIdle

LEMMA SpentNext == IdleInv /\ [ScanNext]_scanVars => (Spent /\ AskedOnce)'
  <1> SUFFICES ASSUME IdleInv, [ScanNext]_scanVars PROVE (Spent /\ AskedOnce)'
    OBVIOUS
  <1> USE IdleAssumption DEF IdleInv, ScanTypeOK, Spent, SummariesRight, AskedOnce
  <1>1. ASSUME NEW s \in Sessions,
               HumanMessage(s) \/ OtherMessage(s) \/ GoIdle(s) \/ PassOver(s)
        PROVE  (Spent /\ AskedOnce)'
    BY <1>1 DEF HumanMessage, OtherMessage, Say, Stir, Behind, GoIdle, PassOver
  <1>2. ASSUME NEW s \in Sessions, Take(s) PROVE (Spent /\ AskedOnce)'
    BY <1>2 DEF Take, Unseen
  <1>3. CASE Sweep \/ EndSweep \/ ReadHistory \/ SaveSummary \/ Hang
    BY <1>3 DEF Sweep, EndSweep, ReadHistory, SaveSummary, Hang, Untimed
  <1>4. CASE Summarize
    BY <1>4 DEF Summarize, Asking
  <1>5. CASE Mark
    BY <1>5 DEF Mark, NextRow
  <1>6. CASE GiveUp
    BY <1>6 DEF GiveUp, NextRow, Asking
  <1>7. CASE Restart
    BY <1>7 DEF Restart
  <1>8. CASE UNCHANGED scanVars
    BY <1>8 DEF scanVars
  <1> QED
    BY <1>1, <1>2, <1>3, <1>4, <1>5, <1>6, <1>7, <1>8 DEF ScanNext, Scan, OnIdle

LEMMA UnmarkedNext == IdleInv /\ [ScanNext]_scanVars => Unmarked'
  <1> SUFFICES ASSUME IdleInv, [ScanNext]_scanVars PROVE Unmarked'
    OBVIOUS
  <1> USE IdleAssumption DEF IdleInv, ScanTypeOK, Unmarked, table
  <1>1. ASSUME NEW s \in Sessions,
               HumanMessage(s) \/ OtherMessage(s) \/ GoIdle(s) \/ PassOver(s) \/ Take(s)
        PROVE  Unmarked'
    BY <1>1 DEF HumanMessage, OtherMessage, Say, Stir, Behind, GoIdle, PassOver, Take, Unseen
  <1>2. CASE Sweep
    <2>1. todo' \subseteq Rows
      BY <1>2 DEF Sweep, Batches, kSubset
    <2>2. todo' \cap summarized = {} /\ todo' \subseteq Sessions
      BY <2>1 DEF Rows
    <2> QED
      BY <1>2, <2>2 DEF Sweep
  <1>3. CASE EndSweep \/ ReadHistory \/ Summarize \/ SaveSummary
    BY <1>3 DEF EndSweep, ReadHistory, Summarize, SaveSummary
  <1>4. CASE Mark
    BY <1>4 DEF Mark, NextRow
  <1>5. CASE GiveUp \/ Hang \/ Restart
    BY <1>5 DEF GiveUp, Hang, PerhapsMarked, NextRow, Restart
  <1>6. CASE UNCHANGED scanVars
    BY <1>6 DEF scanVars
  <1> QED
    BY <1>1, <1>2, <1>3, <1>4, <1>5, <1>6 DEF ScanNext, Scan, OnIdle

\* A message falls into one of three times: before the history is read, when it
\* is in the summary; while it is handled, when behind has the session; and
\* after the mark, which a message of the user takes away.
LEMMA UpToDateNext == IdleInv /\ [ScanNext]_scanVars => (UpToDate /\ NothingSkipped)'
  <1> SUFFICES ASSUME IdleInv, [ScanNext]_scanVars PROVE (UpToDate /\ NothingSkipped)'
    OBVIOUS
  <1> USE IdleAssumption
      DEF IdleInv, ScanTypeOK, Unmarked, UpToDate, SummariesRight, NothingSkipped, table
  <1>1. ASSUME NEW s \in Sessions, HumanMessage(s) PROVE (UpToDate /\ NothingSkipped)'
    BY <1>1 DEF HumanMessage, Say, Behind, Handled
  <1>2. ASSUME NEW s \in Sessions, OtherMessage(s) PROVE (UpToDate /\ NothingSkipped)'
    BY <1>2 DEF OtherMessage, Say, Behind, Handled
  <1>3. ASSUME NEW s \in Sessions, GoIdle(s) \/ PassOver(s) \/ Take(s)
        PROVE  (UpToDate /\ NothingSkipped)'
    BY <1>3 DEF GoIdle, PassOver, Take, Unseen
  <1>4. CASE Sweep \/ EndSweep
    BY <1>4 DEF Sweep, EndSweep
  <1>5. CASE ReadHistory
    BY <1>5 DEF ReadHistory
  <1>6. CASE Summarize
    BY <1>6 DEF Summarize
  <1>7. CASE SaveSummary
    BY <1>7 DEF SaveSummary, Covers, Behind
  <1>8. CASE Mark
    BY <1>8 DEF Mark, NextRow, Latest
  <1>9. CASE GiveUp \/ Hang \/ Restart
    BY <1>9 DEF GiveUp, Hang, PerhapsMarked, NextRow, Latest, Restart
  <1>10. CASE UNCHANGED scanVars
    BY <1>10 DEF scanVars
  <1> QED
    BY <1>1, <1>2, <1>3, <1>4, <1>5, <1>6, <1>7, <1>8, <1>9, <1>10 DEF ScanNext, Scan, OnIdle

LEMMA IdleInvariance == ScanSpec => []IdleInv
  <1>1. IdleInv /\ [ScanNext]_scanVars => IdleInv'
    BY ScanTypeNext, SpentNext, UnmarkedNext, UpToDateNext DEF IdleInv, SummariesRight
  <1> QED
    BY <1>1, IdleInvInit, PTL DEF ScanSpec

-----------------------------------------------------------------------------
\* The scanner's variables keep to their types, and it handles a session
\* exactly while it is between the sweep and the end of OnIdle.
THEOREM IdleTypeOK == ScanSpec => []ScanTypeOK
  BY IdleInvariance, PTL DEF IdleInv

\* Whatever fails and whenever messages come, a session costs the process at
\* most one call to the LLM, and a marked session has a summary of the latest
\* that was said in it but for what the mark hides.
THEOREM IdleSummariesRight == ScanSpec => []SummariesRight
  BY IdleInvariance, PTL DEF IdleInv
=============================================================================
