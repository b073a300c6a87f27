---------------------------- MODULE KBTextProofs ----------------------------
(***************************************************************************)
(* Proofs about KBText, for every chunk size, overlap, text and budget.    *)
(***************************************************************************)
EXTENDS KBText, SequenceTheorems, TLAPS

\* A character has at least one byte.
LEMMA BytesBound ==
    ASSUME NEW n \in Nat, NEW w \in Nat \ {0}
    PROVE  n * w \in Nat /\ n <= n * w
<1>1. w >= 1
  OBVIOUS
<1>2. n * w = n + n * (w - 1)
  BY <1>1
<1>3. w - 1 \in Nat
  BY <1>1
<1>4. n * (w - 1) \in Nat
  BY <1>3
<1> QED
  BY <1>2, <1>4

\* The last of the pieces of n characters begins before the n-th.
LEMMA PieceBegins ==
    ASSUME NEW n \in Nat \ {0}, NEW s \in Nat \ {0},
           NEW k \in 1 .. ((n + s - 1) \div s)
    PROVE  (k - 1) * s \in Nat /\ (k - 1) * s < n
<1> DEFINE q == (n + s - 1) \div s
<1>1. q \in Nat /\ s * q <= n + s - 1
  OBVIOUS
<1>2. k <= q
  OBVIOUS
<1> HIDE DEF q
<1>3. s * k <= s * q
  BY <1>1, <1>2
<1>4. (k - 1) * s = s * k - s
  OBVIOUS
<1>5. (k - 1) * s \in Nat
  OBVIOUS
<1>6. s * k \in Nat /\ s * q \in Nat
  BY <1>1
<1> QED
  BY <1>1, <1>3, <1>4, <1>5, <1>6

\* There is at least one piece.
LEMMA SomePiece ==
    ASSUME NEW n \in Nat \ {0}, NEW s \in Nat \ {0}
    PROVE  (n + s - 1) \div s \in Nat /\ (n + s - 1) \div s >= 1
  OBVIOUS

-----------------------------------------------------------------------------
Covered(u) == \E k \in DOMAIN chunks : chunks[k].from <= u /\ u < chunks[k].to

Last == chunks[Len(chunks)]

\* What chunking keeps up: nothing before start is lost, the buffer is no
\* longer than a chunk, and the last chunk begins before the one to come.
CutInv ==
    /\ TypeOK /\ i >= 1
    /\ SizeKept /\ InOrder
    /\ \A k \in DOMAIN chunks : chunks[k].runes <= chunks[k].bytes
    /\ pc \in {"fill", "back"} =>
          /\ start \in 1 .. i /\ i <= Len(units) + 1
          /\ buf.runes <= buf.bytes /\ buf.runes <= ChunkSize
          /\ \A u \in 1 .. start - 1 : Covered(u)
    /\ pc = "fill" /\ chunks # <<>> => Last.from < start /\ start <= Last.to
    /\ pc = "back" =>
          /\ chunks # <<>> /\ Last.from = start /\ Last.to = i
          /\ back.to \in start .. i - 1 /\ i <= Len(units)
    /\ NothingLost

LEMMA UnitLength ==
    ASSUME NEW u \in Unit
    PROVE  /\ u.runes \in Nat \ {0} /\ u.width \in Nat \ {0}
           /\ u.runes * u.width \in Nat /\ u.runes <= u.runes * u.width
<1>1. u.runes \in UnitRunes /\ u.width \in Widths
  BY DEF Unit
<1>2. u.runes \in 1 .. ChunkSize + 2
  BY <1>1, TextAssumption
<1>3. u.width \in Nat \ {0}
  BY <1>1, TextAssumption
<1>4. u.runes \in Nat \ {0}
  BY <1>2, TextAssumption
<1> QED
  BY <1>3, <1>4, BytesBound

\* The pieces of a unit: at least one, all of that unit, none too long.
LEMMA PiecesShape ==
    ASSUME NEW at \in Nat, units[at] \in Unit
    PROVE  /\ Pieces(at) \in Seq(Chunk)
           /\ Len(Pieces(at)) >= 1
           /\ \A k \in 1 .. Len(Pieces(at)) :
                 /\ Pieces(at)[k].from = at /\ Pieces(at)[k].to = at + 1
                 /\ Pieces(at)[k].runes <= ChunkSize
                 /\ Pieces(at)[k].runes <= Pieces(at)[k].bytes
<1> DEFINE u == units[at]
           count == (u.runes + ChunkSize - 1) \div ChunkSize
           n(k) == Min2(ChunkSize, u.runes - (k - 1) * ChunkSize)
<1>1. u.runes \in Nat \ {0} /\ u.width \in Nat \ {0} /\ ChunkSize \in Nat \ {0}
  BY UnitLength, TextAssumption
<1>2. count \in Nat /\ count >= 1
  BY <1>1, SomePiece
<1>3. ASSUME NEW k \in 1 .. count PROVE n(k) \in Nat /\ n(k) <= ChunkSize
  <2>1. (k - 1) * ChunkSize \in Nat /\ (k - 1) * ChunkSize < u.runes
    BY <1>1, PieceBegins
  <2> HIDE DEF u
  <2> QED
    BY <1>1, <2>1 DEF Min2
<1>4. ASSUME NEW k \in 1 .. count
      PROVE  n(k) * u.width \in Nat /\ n(k) <= n(k) * u.width
  <2> HIDE DEF n, u
  <2> QED
    BY <1>1, <1>3, BytesBound
<1>5. Pieces(at) = [k \in 1 .. count |->
          [from |-> at, to |-> at + 1, runes |-> n(k), bytes |-> n(k) * u.width]]
  BY DEF Pieces
<1> HIDE DEF n, u, count
<1>6. Pieces(at) \in Seq(Chunk) /\ Len(Pieces(at)) = count
  BY <1>2, <1>3, <1>4, <1>5 DEF Chunk
<1> QED
  BY <1>2, <1>3, <1>4, <1>5, <1>6

\* What is written of a hit while something is left of the budget.
LEMMA WrittenType ==
    ASSUME NEW hit \in Chunk, used \in Nat, budget \in Nat,
           ~(Limited /\ used >= budget)
    PROVE  /\ Written(hit) \in Nat /\ Written(hit) <= hit.runes
           /\ ~Limited => Written(hit) = hit.runes
           /\ Limited /\ hit.runes <= hit.bytes => used + Written(hit) <= budget
           /\ Written(hit) < hit.runes => used + Written(hit) = budget
<1>1. hit.runes \in Nat /\ hit.bytes \in Nat
  BY DEF Chunk
<1> QED
  BY <1>1 DEF Written, Min2, Left, Limited

LEMMA CutInvInit == Init => CutInv
<1> SUFFICES ASSUME Init PROVE CutInv
  OBVIOUS
<1>1. units \in Seq(Unit)
  BY TextAssumption DEF Init
<1>2. chunks = <<>> /\ hits = <<>> /\ out = <<>> /\ DOMAIN chunks = {}
  BY DEF Init
<1>3. TypeOK
  BY <1>1, <1>2, EmptySeq, TextAssumption DEF Init, TypeOK, Empty, Length
<1> QED
  <2>1. i = 1 /\ start = 1 /\ buf = Empty /\ pc = "fill" /\ Len(units) \in Nat
    BY <1>1 DEF Init
  <2>2. buf.runes <= buf.bytes /\ buf.runes <= ChunkSize
    BY <2>1, TextAssumption DEF Empty
  <2>3. 1 .. start - 1 = {} /\ start \in 1 .. i /\ i <= Len(units) + 1
    BY <2>1
  <2> QED
    BY <1>2, <1>3, <2>1, <2>2, <2>3 DEF CutInv, SizeKept, InOrder, NothingLost

LEMMA CutInvNext == CutInv /\ [Next]_vars => CutInv'
<1> SUFFICES ASSUME CutInv, [Next]_vars PROVE CutInv'
  OBVIOUS
<1> USE TextAssumption
<1>1. CASE Take
  <2>1. units[i] \in Unit /\ i \in 1 .. Len(units)
    BY <1>1 DEF Take, More, CutInv, TypeOK
  <2>2. /\ units[i].runes * units[i].width \in Nat
        /\ units[i].runes <= units[i].runes * units[i].width
        /\ units[i].runes \in Nat
    BY <2>1, UnitLength
  <2>a. /\ buf \in Length /\ buf.runes \in Nat /\ buf.bytes \in Nat
        /\ buf.runes <= buf.bytes
        /\ buf.bytes + units[i].runes <= ChunkSize
    BY <1>1 DEF Take, Fits, CutInv, TypeOK, Length
  <2>3. /\ buf'.runes = buf.runes + units[i].runes
        /\ buf'.bytes = buf.bytes + units[i].runes * units[i].width
        /\ buf' \in Length
    BY <1>1, <2>2, <2>a DEF Take, Length
  <2>4. buf'.runes <= buf'.bytes /\ buf'.runes <= ChunkSize
    BY <2>2, <2>3, <2>a
  <2>5. TypeOK'
    BY <1>1, <2>3 DEF Take, CutInv, TypeOK, outVars
  <2> QED
    BY <1>1, <2>1, <2>4, <2>5
    DEF Take, CutInv, TypeOK, SizeKept, InOrder, NothingLost, Covered, Last, outVars
<1>2. CASE HardSplit
  <2> DEFINE p == Pieces(i)
             c == chunks
  <2>1. units[i] \in Unit /\ i \in 1 .. Len(units) /\ i \in Nat /\ i = start /\ pc = "fill"
    BY <1>2 DEF HardSplit, More, CutInv, TypeOK
  <2>2. /\ p \in Seq(Chunk) /\ Len(p) \in Nat /\ Len(p) >= 1
        /\ \A k \in 1 .. Len(p) :
              /\ p[k].from = i /\ p[k].to = i + 1
              /\ p[k].runes <= ChunkSize /\ p[k].runes <= p[k].bytes
    BY <2>1, PiecesShape
  <2>3. /\ c \in Seq(Chunk) /\ Len(c) \in Nat /\ DOMAIN c = 1 .. Len(c)
        /\ chunks' = c \o p
    BY <1>2 DEF HardSplit, CutInv, TypeOK
  <2> HIDE DEF p, c
  <2>4. /\ chunks' \in Seq(Chunk) /\ Len(chunks') = Len(c) + Len(p)
        /\ DOMAIN chunks' = 1 .. Len(c) + Len(p)
        /\ \A k \in 1 .. Len(c) : chunks'[k] = c[k]
        /\ \A k \in 1 .. Len(p) : chunks'[Len(c) + k] = p[k]
    BY <2>2, <2>3, ConcatProperties
  <2>5. ASSUME NEW k \in DOMAIN chunks'
        PROVE  chunks'[k].runes <= ChunkSize /\ chunks'[k].runes <= chunks'[k].bytes
    <3>1. CASE k <= Len(c)
      <4>1. k \in DOMAIN c /\ chunks'[k] = c[k]
        BY <3>1, <2>3, <2>4
      <4> QED
        BY <4>1 DEF CutInv, SizeKept, c
    <3>2. CASE k > Len(c)
      <4>1. k - Len(c) \in 1 .. Len(p) /\ k = Len(c) + (k - Len(c))
        BY <3>2, <2>2, <2>3, <2>4
      <4>2. chunks'[k] = p[k - Len(c)]
        BY <4>1, <2>4
      <4> QED
        BY <4>1, <4>2, <2>2
    <3> QED
      BY <3>1, <3>2, <2>2, <2>3, <2>4
  <2>6. SizeKept' /\ \A k \in DOMAIN chunks' : chunks'[k].runes <= chunks'[k].bytes
    BY <2>5 DEF SizeKept
  <2>7. c # <<>> => c[Len(c)].from < i /\ i <= c[Len(c)].to
    BY <2>1 DEF CutInv, Last, c
  <2>8. InOrder'
    <3> SUFFICES ASSUME NEW k \in DOMAIN chunks', k + 1 \in DOMAIN chunks'
                 PROVE  /\ chunks'[k].from <= chunks'[k + 1].from
                        /\ chunks'[k + 1].from <= chunks'[k].to
                        /\ chunks'[k].from = chunks'[k + 1].from =>
                              chunks'[k].to = chunks'[k].from + 1
      BY DEF InOrder
    <3>1. CASE k + 1 <= Len(c)
      <4>1. k \in DOMAIN c /\ k + 1 \in DOMAIN c
        BY <3>1, <2>3, <2>4
      <4> QED
        BY <4>1, <2>3, <2>4 DEF CutInv, InOrder, c
    <3>2. CASE k = Len(c)
      <4>1. c # <<>> /\ chunks'[k] = c[Len(c)] /\ chunks'[k + 1] = p[1]
        BY <3>2, <2>2, <2>3, <2>4
      <4>2. c[Len(c)] \in Chunk
        BY <3>2, <2>3, <2>4
      <4>3. p[1].from = i /\ c[Len(c)].from < i /\ i <= c[Len(c)].to
        BY <4>1, <2>2, <2>7
      <4>4. c[Len(c)].from \in Nat
        BY <4>2 DEF Chunk
      <4> QED
        BY <4>1, <4>3, <4>4, <2>1
    <3>3. CASE k > Len(c)
      <4>1. /\ k - Len(c) \in 1 .. Len(p) /\ k + 1 - Len(c) \in 1 .. Len(p)
            /\ k = Len(c) + (k - Len(c)) /\ k + 1 = Len(c) + (k + 1 - Len(c))
        BY <3>3, <2>2, <2>3, <2>4
      <4>2. chunks'[k] = p[k - Len(c)] /\ chunks'[k + 1] = p[k + 1 - Len(c)]
        BY <4>1, <2>4
      <4> QED
        BY <4>1, <4>2, <2>1, <2>2
    <3> QED
      BY <3>1, <3>2, <3>3, <2>3, <2>4
  <2>9. chunks' # <<>> /\ Last'.from = i /\ Last'.to = i + 1
    <3>1. chunks'[Len(c) + Len(p)] = p[Len(p)]
      BY <2>2, <2>4
    <3> QED
      BY <3>1, <2>2, <2>3, <2>4 DEF Last
  <2>10. \A u \in 1 .. i : Covered(u)'
    <3> TAKE u \in 1 .. i
    <3>1. CASE u = i
      <4>1. Len(c) + 1 \in DOMAIN chunks' /\ chunks'[Len(c) + 1] = p[1]
        BY <2>2, <2>3, <2>4
      <4> QED
        BY <4>1, <3>1, <2>1, <2>2 DEF Covered
    <3>2. CASE u < i
      <4>1. u \in 1 .. start - 1
        BY <3>2, <2>1
      <4>2. PICK k \in DOMAIN c : c[k].from <= u /\ u < c[k].to
        BY <4>1, <2>1 DEF CutInv, Covered, c
      <4> QED
        BY <4>2, <2>2, <2>3, <2>4 DEF Covered
    <3> QED
      BY <3>1, <3>2, <2>1
  <2>11. /\ i' = i + 1 /\ start' = i + 1 /\ buf' = Empty /\ pc' = "fill"
         /\ UNCHANGED <<units, back, hits, budget, used, out>>
    BY <1>2, <2>1 DEF HardSplit, Restart, outVars
  <2>12. TypeOK'
    <3>1. Empty \in Length
      BY DEF Empty, Length
    <3> QED
      BY <2>4, <2>11, <2>1, <3>1 DEF CutInv, TypeOK
  <2> QED
    BY <2>1, <2>6, <2>8, <2>9, <2>10, <2>11, <2>12
    DEF CutInv, Empty, NothingLost
<1>3. CASE EndChunk
  <2> DEFINE c == chunks
             new == [from |-> start, to |-> i, runes |-> buf.runes, bytes |-> buf.bytes]
  <2>1. /\ pc = "fill" /\ i \in Nat /\ start \in Nat /\ i > start /\ start >= 1
        /\ buf \in Length /\ Len(units) \in Nat
    BY <1>3 DEF EndChunk, CutInv, TypeOK
  <2>2. new \in Chunk /\ c \in Seq(Chunk) /\ Len(c) \in Nat /\ DOMAIN c = 1 .. Len(c)
    BY <2>1 DEF CutInv, TypeOK, Chunk, Length
  <2>3. /\ chunks' = Append(c, new)
        /\ UNCHANGED <<units, hits, budget, used, out>>
    BY <1>3 DEF EndChunk, outVars
  <2>4. /\ new.from = start /\ new.to = i
        /\ new.runes <= ChunkSize /\ new.runes <= new.bytes
    BY <2>1 DEF CutInv
  <2>5. c # <<>> => c[Len(c)].from < start /\ start <= c[Len(c)].to
    BY <2>1 DEF CutInv, Last
  <2>6. /\ SizeKept /\ InOrder /\ \A k \in DOMAIN c : c[k].runes <= c[k].bytes
        /\ \A u \in 1 .. start - 1 : Covered(u)
    BY <2>1 DEF CutInv
  <2>7. ASSUME NEW k \in DOMAIN c PROVE c[k] \in Chunk /\ c[k].from \in Nat
    <3>1. c[k] \in Chunk
      BY <2>2
    <3> QED
      BY <3>1 DEF Chunk
  <2> HIDE DEF new
  <2>8. /\ chunks' \in Seq(Chunk) /\ Len(chunks') = Len(c) + 1
        /\ DOMAIN chunks' = 1 .. Len(c) + 1
        /\ chunks'[Len(c) + 1] = new
        /\ \A k \in 1 .. Len(c) : chunks'[k] = c[k]
    BY <2>2, <2>3
  <2>9. SizeKept' /\ \A k \in DOMAIN chunks' : chunks'[k].runes <= chunks'[k].bytes
    BY <2>2, <2>4, <2>6, <2>8 DEF SizeKept
  <2>10. InOrder'
    <3> SUFFICES ASSUME NEW k \in DOMAIN chunks', k + 1 \in DOMAIN chunks'
                 PROVE  /\ chunks'[k].from <= chunks'[k + 1].from
                        /\ chunks'[k + 1].from <= chunks'[k].to
                        /\ chunks'[k].from = chunks'[k + 1].from =>
                              chunks'[k].to = chunks'[k].from + 1
      BY DEF InOrder
    <3>1. CASE k + 1 <= Len(c)
      <4>1. k \in DOMAIN c /\ k + 1 \in DOMAIN c
        BY <3>1, <2>2, <2>8
      <4> QED
        BY <4>1, <2>2, <2>6, <2>8 DEF InOrder
    <3>2. CASE k = Len(c)
      <4>1. /\ c # <<>> /\ chunks'[k] = c[Len(c)] /\ chunks'[k + 1] = new
            /\ c[Len(c)].from \in Nat
        BY <3>2, <2>2, <2>7, <2>8
      <4>2. c[Len(c)].from < start /\ start <= c[Len(c)].to
        BY <4>1, <2>5
      <4> QED
        BY <4>1, <4>2, <2>1, <2>4
    <3> QED
      BY <3>1, <3>2, <2>2, <2>8
  <2>11. chunks' # <<>> /\ Last'.from = start /\ Last'.to = i
    BY <2>2, <2>4, <2>8 DEF Last
  <2>12. \A u \in 1 .. i - 1 : Covered(u)'
    <3> TAKE u \in 1 .. i - 1
    <3>1. CASE u < start
      <4>0. u \in 1 .. start - 1
        BY <3>1, <2>1
      <4>1. PICK k \in DOMAIN c : c[k].from <= u /\ u < c[k].to
        BY <4>0, <2>6 DEF Covered
      <4> QED
        BY <4>1, <2>2, <2>8 DEF Covered
    <3>2. CASE u >= start
      <4>1. Len(c) + 1 \in DOMAIN chunks' /\ chunks'[Len(c) + 1].from <= u
            /\ u < chunks'[Len(c) + 1].to
        BY <3>2, <2>1, <2>2, <2>4, <2>8
      <4> QED
        BY <4>1 DEF Covered
    <3> QED
      BY <3>1, <3>2, <2>1
  <2> HIDE DEF c
  <2>13. CASE ChunkOverlap > 0 /\ More
    <3>1. /\ pc' = "back" /\ back' = [to |-> i - 1, runes |-> 0]
          /\ UNCHANGED <<i, start, buf>> /\ i <= Len(units)
      BY <1>3, <2>13 DEF EndChunk, More
    <3>2. TypeOK'
      BY <2>1, <2>3, <2>8, <3>1 DEF CutInv, TypeOK
    <3>3. \A u \in 1 .. start - 1 : Covered(u)'
      BY <2>1, <2>12
    <3> QED
      BY <2>1, <2>3, <2>9, <2>10, <2>11, <3>1, <3>2, <3>3 DEF CutInv, NothingLost
  <2>14. CASE ~(ChunkOverlap > 0 /\ More)
    <3>1. i' = i /\ start' = i /\ buf' = Empty /\ pc' = "fill" /\ back' = back
      BY <1>3, <2>1, <2>14 DEF EndChunk, Restart
    <3>2. Empty \in Length /\ Empty.runes <= Empty.bytes /\ Empty.runes <= ChunkSize
      BY DEF Empty, Length
    <3>3. TypeOK'
      BY <2>1, <2>3, <2>8, <3>1, <3>2 DEF CutInv, TypeOK
    <3>4. i <= Len(units) + 1
      BY <2>1 DEF CutInv
    <3> QED
      BY <2>1, <2>3, <2>9, <2>10, <2>11, <2>12, <3>1, <3>2, <3>3, <3>4
      DEF CutInv, NothingLost
  <2> QED
    BY <2>13, <2>14
<1>4. CASE Backtrack
  <2>1. /\ pc = "back" /\ chunks # <<>> /\ Last.from = start /\ Last.to = i
        /\ i \in Nat /\ start \in Nat /\ start >= 1 /\ back.to \in start .. i - 1
        /\ i <= Len(units) /\ Len(units) \in Nat /\ back \in [to : Nat, runes : Nat]
        /\ chunks \in Seq(Chunk)
    BY <1>4 DEF Backtrack, CutInv, TypeOK
  <2>2. UNCHANGED <<units, chunks, hits, budget, used, out>>
    BY <1>4 DEF Backtrack, outVars
  <2>3. \A u \in 1 .. i - 1 : Covered(u)
    <3> TAKE u \in 1 .. i - 1
    <3>1. CASE u < start
      BY <3>1, <2>1 DEF CutInv
    <3>2. CASE u >= start
      BY <3>2, <2>1 DEF Last, Covered
    <3> QED
      BY <3>1, <3>2, <2>1
  <2>4. units[back.to] \in Unit
    BY <2>1 DEF CutInv, TypeOK
  <2>5. units[back.to].runes \in Nat
    BY <2>4, UnitLength
  <2>6. ASSUME NEW at \in Nat, at > start, at <= i, Restart(at), pc' = "fill", back' = back
        PROVE  CutInv'
    <3>1. i' = at /\ start' = at /\ buf' = Empty
      BY <2>6 DEF Restart
    <3>2. Empty \in Length /\ Empty.runes <= Empty.bytes /\ Empty.runes <= ChunkSize
      BY DEF Empty, Length
    <3>3. TypeOK'
      BY <2>1, <2>2, <2>6, <3>1, <3>2 DEF CutInv, TypeOK
    <3>4. \A u \in 1 .. at - 1 : Covered(u)'
      <4> TAKE u \in 1 .. at - 1
      <4>1. u \in 1 .. i - 1
        BY <2>1, <2>6
      <4>2. Covered(u)
        BY <4>1, <2>3
      <4>3. chunks' = chunks
        BY <2>2
      <4> QED
        BY <4>2, <4>3 DEF Covered
    <3>5. Last' = Last /\ (SizeKept /\ InOrder)'
      BY <2>2 DEF Last, SizeKept, InOrder, CutInv
    <3> QED
      BY <2>1, <2>2, <2>6, <3>1, <3>2, <3>3, <3>4, <3>5 DEF CutInv, NothingLost
  <2>7. CASE /\ back.to > start
             /\ back.runes + units[back.to].runes >= ChunkOverlap
    <3>1. Restart(back.to) /\ pc' = "fill" /\ back' = back
      BY <1>4, <2>1, <2>5, <2>7 DEF Backtrack
    <3> QED
      BY <3>1, <2>1, <2>6, <2>7
  <2>8. CASE /\ back.to > start
             /\ back.runes + units[back.to].runes < ChunkOverlap
    <3>1. /\ back' = [to |-> back.to - 1, runes |-> back.runes + units[back.to].runes]
          /\ UNCHANGED <<pc, i, start, buf>>
      BY <1>4, <2>1, <2>5, <2>8 DEF Backtrack
    <3>2. back'.to \in start .. i - 1 /\ back' \in [to : Nat, runes : Nat]
      BY <2>1, <2>5, <2>8, <3>1
    <3>3. TypeOK'
      BY <2>2, <3>1, <3>2 DEF CutInv, TypeOK
    <3> QED
      BY <2>1, <2>2, <3>1, <3>2, <3>3
      DEF CutInv, SizeKept, InOrder, NothingLost, Covered, Last
  <2>9. CASE back.to = start
    <3>1. Restart(i) /\ pc' = "fill" /\ back' = back
      BY <1>4, <2>1, <2>5, <2>9 DEF Backtrack
    <3>2. i > start
      BY <2>1
    <3> QED
      BY <3>1, <3>2, <2>1, <2>6
  <2>10. back.to \in Nat /\ back.runes \in Nat
    BY <2>1
  <2> QED
    BY <2>1, <2>5, <2>7, <2>8, <2>9, <2>10
<1>5. CASE Inject
  <2>1. /\ pc = "fill" /\ pc' = "write" /\ i' = 1 /\ start = i /\ i > Len(units)
        /\ UNCHANGED <<units, start, buf, back, chunks, used, out>>
        /\ budget' \in Nat
    BY <1>5 DEF Inject, More, CutInv, TypeOK
  <2>2. hits' \in Seq(Chunk)
    <3>0. PICK n \in 0 .. TopK : \E picks \in [1 .. n -> DOMAIN chunks] :
             hits' = [k \in 1 .. n |-> chunks[picks[k]]]
      BY <1>5 DEF Inject, Retrieve, RrfFuse
    <3>1. PICK picks \in [1 .. n -> DOMAIN chunks] :
             hits' = [k \in 1 .. n |-> chunks[picks[k]]]
      BY <3>0
    <3>2. \A k \in 1 .. n : chunks[picks[k]] \in Chunk
      BY DEF CutInv, TypeOK
    <3>3. n \in Nat
      BY <3>0
    <3> QED
      BY <3>1, <3>2, <3>3
  <2>3. TypeOK'
    BY <2>1, <2>2 DEF CutInv, TypeOK
  <2>4. \A u \in DOMAIN units : Covered(u)
    BY <2>1 DEF CutInv, TypeOK
  <2> QED
    BY <2>1, <2>3, <2>4 DEF CutInv, SizeKept, InOrder, NothingLost, Covered
<1>6. CASE WriteHit
  <2>1. /\ pc = "write" /\ pc' = pc /\ i' = i + 1 /\ i \in 1 .. Len(hits)
        /\ UNCHANGED <<units, start, buf, back, chunks, hits, budget>>
        /\ out' = Append(out, Written(hits[i])) /\ used' = used + Written(hits[i])
    BY <1>6 DEF WriteHit, CutInv, TypeOK
  <2>2. hits[i] \in Chunk /\ hits \in Seq(Chunk)
    BY <2>1 DEF CutInv, TypeOK
  <2>3. Written(hits[i]) \in Nat
    BY <1>6, <2>2, WrittenType DEF WriteHit, CutInv, TypeOK
  <2>4. TypeOK'
    BY <2>1, <2>3 DEF CutInv, TypeOK
  <2> QED
    BY <2>1, <2>4 DEF CutInv, SizeKept, InOrder, NothingLost, Covered
<1>7. CASE Finish
  BY <1>7 DEF Finish, CutInv, TypeOK, SizeKept, InOrder, NothingLost, Covered, cutVars, outVars
<1>8. CASE UNCHANGED vars
  BY <1>8 DEF vars, CutInv, TypeOK, SizeKept, InOrder, NothingLost, Covered, Last, cutVars, outVars
<1> QED
  BY <1>1, <1>2, <1>3, <1>4, <1>5, <1>6, <1>7, <1>8 DEF Next, Cut, Write

-----------------------------------------------------------------------------
\* What writing keeps up: one entry of out for each hit passed.
WriteInv ==
    /\ CutInv
    /\ pc \in {"fill", "back"} => hits = <<>> /\ out = <<>> /\ budget = 0 /\ used = 0
    /\ \A k \in DOMAIN hits : hits[k].runes <= hits[k].bytes
    /\ Len(out) <= Len(hits)
    /\ pc = "write" => i = Len(out) + 1
    /\ BudgetKept
    /\ \A k \in DOMAIN out : out[k] < hits[k].runes =>
          Limited /\ used = budget /\ k = Len(out)
    /\ BudgetUsed

LEMMA WriteInvInit == Init => WriteInv
<1> SUFFICES ASSUME Init PROVE WriteInv
  OBVIOUS
<1>1. /\ hits = <<>> /\ out = <<>> /\ budget = 0 /\ used = 0 /\ pc = "fill"
      /\ DOMAIN hits = {} /\ DOMAIN out = {} /\ Len(out) = 0 /\ Len(hits) = 0
  BY DEF Init
<1> QED
  BY <1>1, CutInvInit DEF WriteInv, BudgetKept, BudgetUsed, Limited

LEMMA WriteInvNext == WriteInv /\ [Next]_vars => WriteInv'
<1> SUFFICES ASSUME WriteInv, [Next]_vars PROVE WriteInv'
  OBVIOUS
<1>0. CutInv'
  BY CutInvNext DEF WriteInv
<1>t. /\ hits \in Seq(Chunk) /\ out \in Seq(Nat) /\ budget \in Nat /\ used \in Nat
      /\ i \in Nat /\ Len(hits) \in Nat /\ Len(out) \in Nat
      /\ DOMAIN hits = 1 .. Len(hits) /\ DOMAIN out = 1 .. Len(out)
  BY DEF WriteInv, CutInv, TypeOK
<1>1. CASE Cut
  <2>1. /\ pc \in {"fill", "back"} /\ pc' \in {"fill", "back"}
        /\ UNCHANGED outVars
    BY <1>1 DEF Cut, Take, HardSplit, EndChunk, Backtrack, Restart
  <2> QED
    BY <1>0, <2>1 DEF WriteInv, BudgetKept, BudgetUsed, Limited, outVars
<1>2. CASE Inject
  <2>1. /\ pc = "fill" /\ pc' = "write" /\ i' = 1 /\ out = <<>> /\ used = 0
        /\ out' = out /\ used' = used /\ budget' \in Budgets
    BY <1>2 DEF Inject, WriteInv
  <2>2. budget' \in Nat
    BY <2>1, TextAssumption
  <2>3. \A k \in DOMAIN hits' : hits'[k].runes <= hits'[k].bytes
    <3>1. PICK n \in 0 .. TopK : \E picks \in [1 .. n -> DOMAIN chunks] :
             hits' = [k \in 1 .. n |-> chunks[picks[k]]]
      BY <1>2 DEF Inject, Retrieve, RrfFuse
    <3>2. PICK picks \in [1 .. n -> DOMAIN chunks] :
             hits' = [k \in 1 .. n |-> chunks[picks[k]]]
      BY <3>1
    <3> QED
      BY <3>2 DEF WriteInv, CutInv
  <2>4. hits' \in Seq(Chunk)
    BY <1>0 DEF CutInv, TypeOK
  <2>5. Len(hits') \in Nat /\ Len(out') = 0 /\ DOMAIN out' = {}
    BY <2>1, <2>4
  <2> QED
    BY <1>0, <2>1, <2>2, <2>3, <2>5 DEF WriteInv, BudgetKept, BudgetUsed, Limited
<1>3. CASE WriteHit
  <2> DEFINE w == Written(hits[i])
  <2>1. /\ pc = "write" /\ pc' = "write" /\ i' = i + 1
        /\ i \in 1 .. Len(hits) /\ i = Len(out) + 1
        /\ hits' = hits /\ budget' = budget
        /\ out' = Append(out, w) /\ used' = used + w
        /\ ~(Limited /\ used >= budget)
    BY <1>3, <1>t DEF WriteHit, WriteInv
  <2>2. hits[i] \in Chunk /\ hits[i].runes \in Nat /\ hits[i].runes <= hits[i].bytes
    <3>1. i \in DOMAIN hits
      BY <1>t, <2>1
    <3>2. hits[i] \in Chunk
      BY <1>t, <3>1
    <3>3. hits[i].runes <= hits[i].bytes
      BY <3>1 DEF WriteInv
    <3> QED
      BY <3>2, <3>3 DEF Chunk
  <2>3. /\ w \in Nat /\ w <= hits[i].runes
        /\ ~Limited => w = hits[i].runes
        /\ Limited => used + w <= budget
        /\ w < hits[i].runes => used + w = budget
    BY <1>t, <2>1, <2>2, WrittenType
  <2> HIDE DEF w
  <2>4. /\ Len(out') = Len(out) + 1 /\ DOMAIN out' = 1 .. Len(out) + 1
        /\ out'[Len(out) + 1] = w
        /\ \A k \in 1 .. Len(out) : out'[k] = out[k]
    BY <1>t, <2>1, <2>3
  <2>5. BudgetKept'
    BY <2>1, <2>3 DEF BudgetKept, Limited
  <2>6. ASSUME NEW k \in DOMAIN out', out'[k] < hits'[k].runes
        PROVE  Limited' /\ used' = budget' /\ k = Len(out')
    <3>1. CASE k = Len(out) + 1
      BY <3>1, <2>1, <2>2, <2>3, <2>4, <2>6 DEF Limited
    <3>2. CASE k # Len(out) + 1
      <4>1. k \in DOMAIN out /\ out[k] < hits[k].runes
        BY <3>2, <1>t, <2>1, <2>4, <2>6
      <4>2. Limited /\ used = budget
        BY <4>1 DEF WriteInv
      <4> QED
        BY <4>2, <2>1, <1>t
    <3> QED
      BY <3>1, <3>2
  <2>7. BudgetUsed'
    BY <2>1, <2>6 DEF BudgetUsed
  <2> QED
    BY <1>0, <1>t, <2>1, <2>4, <2>5, <2>6, <2>7 DEF WriteInv
<1>4. CASE Finish
  <2>1. /\ pc = "write" /\ pc' = "over" /\ UNCHANGED <<i, hits, budget, used, out>>
        /\ i > Len(hits) \/ (Limited /\ used >= budget)
        /\ i = Len(out) + 1
    BY <1>4 DEF Finish, cutVars, outVars, WriteInv
  <2>2. Len(out) < Len(hits) => used = budget
    BY <2>1, <1>t DEF WriteInv, BudgetKept
  <2> QED
    BY <1>0, <2>1, <2>2 DEF WriteInv, BudgetKept, BudgetUsed, Limited
<1>5. CASE UNCHANGED vars
  BY <1>0, <1>5 DEF vars, cutVars, outVars, WriteInv, BudgetKept, BudgetUsed, Limited
<1> QED
  BY <1>1, <1>2, <1>3, <1>4, <1>5 DEF Next, Write

LEMMA TextInvariant == Spec => []WriteInv
<1> QED
  BY WriteInvInit, WriteInvNext, PTL DEF Spec

-----------------------------------------------------------------------------
\* Type correctness.
THEOREM TextTypeOK == Spec => []TypeOK
<1>1. WriteInv => TypeOK
  BY DEF WriteInv, CutInv
<1> QED
  BY <1>1, TextInvariant, PTL

\* No text, size or overlap makes a chunk longer than the configured size.
THEOREM TextSizeKept == Spec => []SizeKept
<1>1. WriteInv => SizeKept
  BY DEF WriteInv, CutInv
<1> QED
  BY <1>1, TextInvariant, PTL

\* No unit of a text is left out of the chunks, which begin one after the other
\* and leave no gap.
THEOREM TextIsCovered == Spec => []TextCovered
<1>1. WriteInv => TextCovered
  BY DEF WriteInv, CutInv, TextCovered
<1> QED
  BY <1>1, TextInvariant, PTL

\* What formatInjection writes of the hits stays within the budget, and nothing
\* is cut or left out while the budget has room.
THEOREM TextKeepsBudget == Spec => []BudgetRight
<1>1. WriteInv => BudgetRight
  BY DEF WriteInv, BudgetRight
<1> QED
  BY <1>1, TextInvariant, PTL
=============================================================================
