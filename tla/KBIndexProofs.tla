--------------------------- MODULE KBIndexProofs ---------------------------
(***************************************************************************)
(* Theorems about KBIndex for any number of documents, requests and        *)
(* chunks, whatever fails and whichever requests overlap: what the         *)
(* variables hold, that the last request for a document has its full       *)
(* effect, that no vector is left without its text, that no document is    *)
(* left half indexed, and that the counters agree with what they count.    *)
(***************************************************************************)
EXTENDS KBIndex, FiniteSetTheorems, TLAPS

Flaws == {"call", "insert", "odd", "met"}

\* The steps of an indexing after its texts are stored.
Written == {"upsert", "persist", "meta", "count", "ready"}

\* A request is under way from its first step to its last, and goes through
\* the steps of its kind; what was cut is known from then on.
RequestInv ==
    \A r \in Requests :
        /\ req[r].at = "idle" => req[r] = Idle
        /\ req[r].at # "idle" => req[r].on \in Docs
        /\ req[r].kind = "index" => req[r].at \notin {"tally", "archive", "uncount"}
        /\ req[r].kind = "delete" =>
              req[r].at \in {"tally", "list", "purge", "clear", "archive", "uncount",
                             "over", "failed"}
        /\ req[r].kind = "index" /\ req[r].at \in {"list", "purge", "clear", "insert"} \cup Written
           => /\ req[r].pieces \in 1 .. MaxPieces
              /\ req[r].embedded \subseteq 0 .. req[r].pieces - 1

TypeInv ==
    /\ TypeOK /\ RequestInv
    /\ IsFiniteSet(rows)
    /\ \A d \in Docs : doc[d].chunks <= MaxPieces

(***************************************************************************)
(* What a step does to the requests.                                       *)
(***************************************************************************)
\* r goes on to another step; what it has read ends with it.
Moved(r, step, wrong) ==
    /\ \A q \in Requests \ {r} : req'[q] = req[q]
    /\ req'[r].on = req[r].on /\ req'[r].kind = req[r].kind
    /\ req'[r].pieces = req[r].pieces
    /\ req'[r].at = step
    /\ req'[r].wrong = req[r].wrong \cup wrong
    /\ step \notin {"over", "failed"} =>
          /\ req'[r].had = req[r].had /\ req'[r].embedded = req[r].embedded
          /\ req'[r].old = req[r].old

LEMMA ReachMoves ==
    ASSUME TypeOK, NEW r \in Requests, NEW step \in Steps, NEW wrong \in SUBSET Flaws,
           Reach(r, step, wrong)
    PROVE  req' \in [Requests -> Request] /\ Moved(r, step, wrong)
  <1> DEFINE now == [req[r] EXCEPT !.at = step, !.wrong = @ \cup wrong]
             end == [now EXCEPT !.had = 0, !.embedded = {}, !.old = {}, !.gone = FALSE]
  <1>1. req \in [Requests -> Request] /\ req[r] \in Request
    BY DEF TypeOK
  <1>2. now \in Request /\ end \in Request
    BY <1>1 DEF Request, Flaws
  <1>3. /\ now.on = req[r].on /\ now.kind = req[r].kind /\ now.pieces = req[r].pieces
        /\ now.at = step /\ now.wrong = req[r].wrong \cup wrong
        /\ now.had = req[r].had /\ now.embedded = req[r].embedded /\ now.old = req[r].old
    BY <1>1 DEF Request
  <1>4. /\ end.on = req[r].on /\ end.kind = req[r].kind /\ end.pieces = req[r].pieces
        /\ end.at = step /\ end.wrong = req[r].wrong \cup wrong
    BY <1>1 DEF Request
  <1>5. req' = [req EXCEPT ![r] = IF step \in {"over", "failed"} THEN end ELSE now]
    BY DEF Reach
  <1> HIDE DEF now, end
  <1>6. CASE step \in {"over", "failed"}
    <2>1. req' = [req EXCEPT ![r] = end]
      BY <1>5, <1>6
    <2> QED
      BY <1>1, <1>2, <1>4, <1>6, <2>1 DEF Moved
  <1>7. CASE step \notin {"over", "failed"}
    <2>1. req' = [req EXCEPT ![r] = now]
      BY <1>5, <1>7
    <2> QED
      BY <1>1, <1>2, <1>3, <1>7, <2>1 DEF Moved
  <1> QED
    BY <1>6, <1>7

\* The same for Go and GoWrong.
LEMMA GoMoves ==
    ASSUME TypeOK, NEW r \in Requests, NEW step \in Steps, Go(r, step)
    PROVE  req' \in [Requests -> Request] /\ Moved(r, step, {})
  <1>1. Reach(r, step, {})
    BY DEF Go
  <1> QED
    BY <1>1, ReachMoves

LEMMA GoWrongMoves ==
    ASSUME TypeOK, NEW r \in Requests, NEW step \in Steps, NEW what \in Flaws,
           GoWrong(r, step, what)
    PROVE  req' \in [Requests -> Request] /\ Moved(r, step, {what})
  <1>1. Reach(r, step, {what})
    BY DEF GoWrong
  <1>2. {what} \in SUBSET Flaws
    OBVIOUS
  <1> QED
    BY <1>1, <1>2, ReachMoves

\* r comes; the requests for d that are under way have met it.
Begun(r, d, kind, step, odd) ==
    /\ req[r].at = "idle"
    /\ req'[r].on = d /\ req'[r].kind = kind /\ req'[r].at = step
    /\ req'[r].wrong = (IF odd THEN {"odd"} ELSE {}) \cup (IF Busy(d) THEN {"met"} ELSE {})
    /\ \A q \in Requests \ {r} :
          /\ req'[q].on = req[q].on /\ req'[q].kind = req[q].kind /\ req'[q].at = req[q].at
          /\ req'[q].pieces = req[q].pieces /\ req'[q].had = req[q].had
          /\ req'[q].embedded = req[q].embedded /\ req'[q].old = req[q].old
          /\ req'[q].wrong = req[q].wrong \cup (IF q \in UnderWay(d) THEN {"met"} ELSE {})
          /\ q \notin UnderWay(d) => req'[q] = req[q]
    /\ last' = [last EXCEPT ![d] = r]
    /\ UNCHANGED <<rows, vecs, base>>

LEMMA StartBegins ==
    ASSUME TypeOK, NEW r \in Requests, NEW d \in Docs, NEW kind \in {"index", "delete"},
           NEW step \in Steps, NEW odd \in BOOLEAN, Start(r, d, kind, step, odd)
    PROVE  req' \in [Requests -> Request] /\ Begun(r, d, kind, step, odd)
  <1> DEFINE flaws == (IF odd THEN {"odd"} ELSE {}) \cup (IF Busy(d) THEN {"met"} ELSE {})
             new == [Idle EXCEPT !.on = d, !.kind = kind, !.at = step, !.wrong = flaws]
             met(q) == [req[q] EXCEPT !.wrong = @ \cup {"met"}]
  <1>1. req' = [q \in Requests |-> IF q = r THEN new
                                   ELSE IF q \in UnderWay(d) THEN met(q) ELSE req[q]]
    BY DEF Start
  <1>2. flaws \in SUBSET Flaws
    BY DEF Flaws
  <1> HIDE DEF flaws
  <1>3. /\ new \in Request
        /\ new.on = d /\ new.kind = kind /\ new.at = step /\ new.wrong = flaws
    BY <1>2 DEF Idle, Request, Steps, Flaws
  <1>4. ASSUME NEW q \in Requests
        PROVE  /\ met(q) \in Request
               /\ met(q).on = req[q].on /\ met(q).kind = req[q].kind /\ met(q).at = req[q].at
               /\ met(q).pieces = req[q].pieces /\ met(q).had = req[q].had
               /\ met(q).embedded = req[q].embedded /\ met(q).old = req[q].old
               /\ met(q).wrong = req[q].wrong \cup {"met"}
    <2>1. req[q] \in Request
      BY DEF TypeOK
    <2>2. met(q) \in Request
      BY <2>1 DEF Request
    <2> QED
      BY <2>1, <2>2 DEF Request
  <1> HIDE DEF new, met
  <1>5. req' \in [Requests -> Request]
    BY <1>1, <1>3, <1>4 DEF TypeOK
  <1>6. req'[r] = new
    BY <1>1
  <1>7. ASSUME NEW q \in Requests \ {r}
        PROVE  /\ req'[q].on = req[q].on /\ req'[q].kind = req[q].kind /\ req'[q].at = req[q].at
               /\ req'[q].pieces = req[q].pieces /\ req'[q].had = req[q].had
               /\ req'[q].embedded = req[q].embedded /\ req'[q].old = req[q].old
               /\ req'[q].wrong = req[q].wrong \cup (IF q \in UnderWay(d) THEN {"met"} ELSE {})
               /\ q \notin UnderWay(d) => req'[q] = req[q]
    <2>1. CASE q \in UnderWay(d)
      <3>1. req'[q] = met(q)
        BY <1>1, <2>1
      <3> QED
        BY <1>4, <2>1, <3>1
    <2>2. CASE q \notin UnderWay(d)
      <3>1. req'[q] = req[q]
        BY <1>1, <2>2
      <3>2. req[q].wrong = req[q].wrong \cup {}
        OBVIOUS
      <3> QED
        BY <2>2, <3>1, <3>2
    <2> QED
      BY <2>1, <2>2
  <1>8. /\ req[r].at = "idle" /\ last' = [last EXCEPT ![d] = r]
        /\ UNCHANGED <<rows, vecs, base>>
    BY DEF Start
  <1>9. flaws = (IF odd THEN {"odd"} ELSE {}) \cup (IF Busy(d) THEN {"met"} ELSE {})
    BY DEF flaws
  <1> QED
    BY <1>3, <1>5, <1>6, <1>7, <1>8, <1>9 DEF Begun

\* The two lemmas in the form in which the steps below use them.
LEMMA Moves ==
    ASSUME TypeOK
    PROVE  \A r \in Requests, step \in Steps :
              /\ Go(r, step) => req' \in [Requests -> Request] /\ Moved(r, step, {})
              /\ \A what \in Flaws : GoWrong(r, step, what) =>
                    req' \in [Requests -> Request] /\ Moved(r, step, {what})
  BY GoMoves, GoWrongMoves

\* The status changes and nothing else of the document.
LEMMA StatusSet ==
    ASSUME TypeOK
    PROVE  \A d \in Docs, status \in Statuses : SetStatus(d, status) =>
              /\ doc' \in [Docs -> [status : Statuses, chunks : Nat]]
              /\ doc'[d].status = status
              /\ \A e \in Docs : doc'[e].chunks = doc[e].chunks
              /\ \A e \in Docs \ {d} : doc'[e] = doc[e]
  BY DEF TypeOK, SetStatus

LEMMA TypeInit == Init => TypeInv
  <1> SUFFICES ASSUME Init PROVE TypeInv
    OBVIOUS
  <1>1. Idle \in Request
    BY DEF Idle, Request, Steps
  <1>2. IsFiniteSet({})
    BY FS_EmptySet
  <1>3. Idle.at = "idle"
    BY DEF Idle
  <1>4. TypeOK
    BY <1>1 DEF Init, TypeOK, Statuses
  <1>5. RequestInv
    BY <1>3 DEF Init, RequestInv, Idle, Written
  <1> QED
    BY <1>2, <1>4, <1>5, KBAssumption DEF Init, TypeInv

\* A request that begins is on a document and has nothing behind it.
LEMMA TypeStart ==
    ASSUME TypeInv, NEW r \in Requests, NEW d \in Docs,
           AddDoc(r, d) \/ ReindexDoc(r, d) \/ DeleteDoc(r, d)
    PROVE  TypeInv'
  <1> USE DEF TypeInv
  <1>1. PICK kind \in {"index", "delete"}, step \in Steps, odd \in BOOLEAN :
           /\ Start(r, d, kind, step, odd)
           /\ <<kind, step>> \in {<<"index", "load">>, <<"delete", "tally">>}
    BY DEF AddDoc, ReindexDoc, DeleteDoc, Steps
  <1>2. req' \in [Requests -> Request] /\ Begun(r, d, kind, step, odd)
    BY <1>1, StartBegins
  <1>3. /\ doc' \in [Docs -> [status : Statuses, chunks : Nat]]
        /\ \A e \in Docs : doc'[e].chunks = doc[e].chunks
    <2>1. CASE AddDoc(r, d)
      <3>1. SetStatus(d, "pending") /\ "pending" \in Statuses
        BY <2>1 DEF AddDoc, Statuses
      <3> QED
        BY <3>1, StatusSet
    <2>2. CASE doc' = doc
      BY <2>2 DEF TypeOK
    <2> QED
      BY <2>1, <2>2 DEF ReindexDoc, DeleteDoc
  <1>4. last' \in [Docs -> Requests \cup {Nobody}]
    BY <1>2 DEF Begun, TypeOK
  <1>5. TypeOK'
    BY <1>2, <1>3, <1>4 DEF TypeOK, Begun
  <1>6. RequestInv'
    <2> SUFFICES ASSUME NEW q \in Requests PROVE
           /\ req'[q].at = "idle" => req'[q] = Idle
           /\ req'[q].at # "idle" => req'[q].on \in Docs
           /\ req'[q].kind = "index" => req'[q].at \notin {"tally", "archive", "uncount"}
           /\ req'[q].kind = "delete" =>
                 req'[q].at \in {"tally", "list", "purge", "clear", "archive", "uncount",
                                 "over", "failed"}
           /\ req'[q].kind = "index" /\ req'[q].at \in {"list", "purge", "clear", "insert"} \cup Written
              => /\ req'[q].pieces \in 1 .. MaxPieces
                 /\ req'[q].embedded \subseteq 0 .. req'[q].pieces - 1
      BY DEF RequestInv
    <2>1. CASE q = r
      BY <1>1, <1>2, <2>1 DEF Begun, Written
    <2>2. CASE q # r
      BY <1>2, <2>2 DEF Begun, RequestInv, UnderWay, Under
    <2> QED
      BY <2>1, <2>2
  <1> QED
    BY <1>2, <1>3, <1>5, <1>6 DEF Begun

\* The steps of a request, in their order.
Follows(kind, from, to) ==
    \/ to = from
    \/ from = "load" /\ to \in {"mark", "failed"}
    \/ from = "mark" /\ to \in {"cut", "failed"}
    \/ from = "cut" /\ to \in {"list", "clear", "fail"}
    \/ from = "list" /\ to \in {"purge", "clear"}
    \/ from = "purge" /\ to = "clear"
    \/ from = "clear" /\ to = (IF kind = "delete" THEN "archive" ELSE "insert")
    \/ from = "insert" /\ to \in {"upsert", "meta", "fail"}
    \/ from = "upsert" /\ to = "persist"
    \/ from = "persist" /\ to = "meta"
    \/ from = "meta" /\ to = "count"
    \/ from = "count" /\ to = "ready"
    \/ from = "ready" /\ to = "over"
    \/ from = "fail" /\ to = "failed"
    \/ from = "tally" /\ to = "list"
    \/ from = "archive" /\ to \in {"uncount", "failed"}
    \/ from = "uncount" /\ to = "over"

\* A step of a request that is under way.
Onward(r) ==
    /\ Under(r)
    /\ last' = last
    /\ \A q \in Requests \ {r} : req'[q] = req[q]
    /\ req'[r].on = req[r].on /\ req'[r].kind = req[r].kind
    /\ Follows(req[r].kind, req[r].at, req'[r].at)
    /\ \E what \in SUBSET {"call", "insert"} : req'[r].wrong = req[r].wrong \cup what
    /\ req[r].at # "cut" => req'[r].pieces = req[r].pieces
    /\ req[r].at # "cut" /\ req'[r].at \notin {"over", "failed"} =>
          req'[r].embedded = req[r].embedded

Move(r) == Leave(r) \/ Index(r) \/ Delete(r) \/ ListOld(r) \/ Purge(r) \/ Clear(r)

LEMMA MoveOnward ==
    ASSUME TypeInv, NEW r \in Requests, Move(r)
    PROVE  req' \in [Requests -> Request] /\ Onward(r)
  <1> USE DEF TypeInv
  <1>1. req[r] \in Request /\ req \in [Requests -> Request]
    BY DEF TypeOK
  <1>2. ASSUME NEW step \in Steps, NEW wrong \in SUBSET {"call", "insert"},
               req' \in [Requests -> Request], Moved(r, step, wrong),
               Under(r), UNCHANGED last, Follows(req[r].kind, req[r].at, step)
        PROVE  req' \in [Requests -> Request] /\ Onward(r)
    <2>1. \E what \in SUBSET {"call", "insert"} : req'[r].wrong = req[r].wrong \cup what
      BY <1>2 DEF Moved
    <2> QED
      BY <1>2, <2>1 DEF Onward, Moved
  <1>3. ASSUME NEW step \in Steps, Under(r), UNCHANGED last,
               Follows(req[r].kind, req[r].at, step),
               Go(r, step) \/ \E what \in {"call", "insert"} : GoWrong(r, step, what)
        PROVE  req' \in [Requests -> Request] /\ Onward(r)
    <2>1. CASE Go(r, step)
      <3>1. req' \in [Requests -> Request] /\ Moved(r, step, {})
        BY <2>1, Moves
      <3> QED
        BY <1>2, <1>3, <3>1
    <2>2. CASE \E what \in {"call", "insert"} : GoWrong(r, step, what)
      <3>1. PICK what \in {"call", "insert"} : GoWrong(r, step, what)
        BY <2>2
      <3>2. req' \in [Requests -> Request] /\ Moved(r, step, {what})
        BY <3>1, Moves DEF Flaws
      <3>3. {what} \in SUBSET {"call", "insert"}
        BY <3>1
      <3> QED
        BY <1>2, <1>3, <3>2, <3>3
    <2> QED
      BY <1>3, <2>1, <2>2
  <1> USE DEF Under, Follows, Steps
  <1>4. CASE Mark(r) \/ Unreadable(r) \/ Fail(r) \/ Ready(r)
    BY <1>3, <1>4 DEF Mark, Unreadable, Fail, Ready
  <1>5. CASE Purge(r) \/ Upsert(r) \/ PersistVectorIDs(r) \/ UpdateMeta(r) \/ UpdateCounters(r)
    BY <1>3, <1>5 DEF Purge, Upsert, PersistVectorIDs, UpdateMeta, UpdateCounters
  <1>6. CASE Archive(r) \/ Uncount(r)
    BY <1>3, <1>6 DEF Archive, Uncount
  <1>7. CASE Insert(r)
    <2>1. \/ Go(r, "meta") \/ Go(r, "upsert") \/ GoWrong(r, "fail", "insert")
      BY <1>7 DEF Insert
    <2> QED
      BY <1>3, <1>7, <2>1 DEF Insert
  <1>8. CASE Clear(r)
    <2> DEFINE next == IF req[r].kind = "delete" THEN "archive" ELSE "insert"
    <2>1. Go(r, next) \/ GoWrong(r, next, "call")
      BY <1>8 DEF Clear
    <2> QED
      BY <1>3, <1>8, <2>1 DEF Clear
  <1>9. ASSUME NEW new \in Request, req' = [req EXCEPT ![r] = new],
               new.on = req[r].on, new.kind = req[r].kind, new.wrong = req[r].wrong,
               Follows(req[r].kind, req[r].at, new.at),
               req[r].at # "cut" => new.pieces = req[r].pieces /\ new.embedded = req[r].embedded,
               Under(r), UNCHANGED last
        PROVE  req' \in [Requests -> Request] /\ Onward(r)
    <2>1. req'[r] = new /\ \A q \in Requests \ {r} : req'[q] = req[q]
      BY <1>1, <1>9
    <2>2. req'[r].wrong = req[r].wrong \cup {} /\ {} \in SUBSET {"call", "insert"}
      BY <1>9, <2>1
    <2>3. \E what \in SUBSET {"call", "insert"} : req'[r].wrong = req[r].wrong \cup what
      BY <2>2
    <2>4. req' \in [Requests -> Request]
      BY <1>1, <1>9
    <2> HIDE DEF Follows, Under
    <2> QED
      BY <1>9, <2>1, <2>3, <2>4 DEF Onward
  <1>10. CASE Leave(r)
    <2> DEFINE new == [req[r] EXCEPT !.gone = TRUE]
    <2>1. req' = [req EXCEPT ![r] = new]
      BY <1>10 DEF Leave
    <2>2. new \in Request
      BY <1>1 DEF Request
    <2> QED
      BY <1>1, <1>9, <1>10, <2>1, <2>2 DEF Leave, Request
  <1>11. req[r].at # "idle" => req[r].on \in Docs
    BY DEF RequestInv
  <1>12. CASE Load(r)
    <2> DEFINE new == [req[r] EXCEPT !.had = doc[req[r].on].chunks, !.at = "mark"]
    <2>1. CASE req' = [req EXCEPT ![r].had = doc[req[r].on].chunks, ![r].at = "mark"]
      <3>1. req' = [req EXCEPT ![r] = new]
        BY <1>1, <2>1
      <3>2. doc[req[r].on].chunks \in Nat
        BY <1>11, <1>12 DEF Load, TypeOK
      <3>3. new \in Request
        BY <1>1, <3>2 DEF Request
      <3> QED
        BY <1>1, <1>9, <1>12, <3>1, <3>3 DEF Load, Request
    <2>2. CASE GoWrong(r, "failed", "call")
      BY <1>3, <1>12, <2>2 DEF Load
    <2> QED
      BY <1>12, <2>1, <2>2 DEF Load
  <1>13. CASE Tally(r)
    <2> DEFINE new == [req[r] EXCEPT !.had = Cardinality(RowsOf(req[r].on)), !.at = "list"]
    <2>1. CASE req' = [req EXCEPT ![r].had = Cardinality(RowsOf(req[r].on)), ![r].at = "list"]
      <3>1. req' = [req EXCEPT ![r] = new]
        BY <1>1, <2>1
      <3>2. RowsOf(req[r].on) \in SUBSET rows
        BY DEF RowsOf
      <3>3. Cardinality(RowsOf(req[r].on)) \in Nat
        BY <3>2, FS_Subset, FS_CardinalityType
      <3>4. new \in Request
        BY <1>1, <3>3 DEF Request
      <3> QED
        BY <1>1, <1>9, <1>13, <3>1, <3>4 DEF Tally, Request
    <2>2. CASE GoWrong(r, "list", "call")
      BY <1>3, <1>13, <2>2 DEF Tally
    <2> QED
      BY <1>13, <2>1, <2>2 DEF Tally
  <1>14. CASE ListOld(r)
    <2> DEFINE old == {Id(row) : row \in {x \in RowsOf(req[r].on) : x.vid}}
               new == [req[r] EXCEPT !.at = "purge", !.old = old]
    <2>1. CASE req' = [req EXCEPT ![r].at = "purge", ![r].old = old]
      <3>1. req' = [req EXCEPT ![r] = new]
        BY <1>1, <2>1
      <3>2. old \in SUBSET RowId
        BY DEF RowsOf, Id, RowId, TypeOK, Row
      <3> HIDE DEF old
      <3>3. new \in Request
        BY <1>1, <3>2 DEF Request
      <3> QED
        BY <1>1, <1>9, <1>14, <3>1, <3>3 DEF ListOld, Request
    <2>2. CASE GoWrong(r, "clear", "call")
      BY <1>3, <1>14, <2>2 DEF ListOld
    <2> QED
      BY <1>14, <2>1, <2>2 DEF ListOld
  <1>15. CASE Cut(r)
    <2>1. PICK n \in 1 .. MaxPieces : \E embedded \in SUBSET (0 .. n - 1) :
             req' = [req EXCEPT ![r].pieces = n, ![r].embedded = embedded,
                                ![r].at = IF req[r].had > 0 THEN "list" ELSE "clear"]
      BY <1>15 DEF Cut
    <2>2. PICK embedded \in SUBSET (0 .. n - 1) :
             req' = [req EXCEPT ![r].pieces = n, ![r].embedded = embedded,
                                ![r].at = IF req[r].had > 0 THEN "list" ELSE "clear"]
      BY <2>1
    <2> DEFINE step == IF req[r].had > 0 THEN "list" ELSE "clear"
               new == [req[r] EXCEPT !.pieces = n, !.embedded = embedded, !.at = step]
    <2>3. step \in {"list", "clear"} /\ req' = [req EXCEPT ![r] = new]
      BY <1>1, <2>2
    <2> HIDE DEF step
    <2>4. n \in Nat /\ embedded \in SUBSET Nat
      BY KBAssumption
    <2>5. new \in Request
      BY <1>1, <2>3, <2>4 DEF Request
    <2> QED
      BY <1>1, <1>9, <1>15, <2>3, <2>5 DEF Cut, Request
  <1> QED
    BY <1>4, <1>5, <1>6, <1>7, <1>8, <1>10, <1>12, <1>13, <1>14, <1>15
    DEF Move, Index, Delete

(***************************************************************************)
(* What a step does to the documents and the rows.                         *)
(***************************************************************************)
LEMMA MoveDoc ==
    ASSUME TypeInv, NEW r \in Requests, Move(r)
    PROVE  /\ doc' \in [Docs -> [status : Statuses, chunks : Nat]]
           /\ \A e \in Docs : e # req[r].on => doc'[e] = doc[e]
           /\ \A e \in Docs : doc'[e].chunks \in {doc[e].chunks, req[r].pieces}
           /\ req[r].at # "meta" => \A e \in Docs : doc'[e].chunks = doc[e].chunks
           /\ req[r].at \notin {"mark", "meta", "ready", "fail", "archive"} => doc' = doc
           /\ \A e \in Docs : doc'[e].chunks <= MaxPieces
  <1> USE DEF TypeInv
  <1>1. req[r].at # "idle" => req[r].on \in Docs
    BY DEF RequestInv
  <1>2. doc \in [Docs -> [status : Statuses, chunks : Nat]]
    BY DEF TypeOK
  <1>3. CASE doc' = doc
    BY <1>2, <1>3
  <1>4. ASSUME NEW status \in Statuses, SetStatus(req[r].on, status), req[r].on \in Docs,
               req[r].at \in {"mark", "ready", "fail", "archive"}
        PROVE  /\ doc' \in [Docs -> [status : Statuses, chunks : Nat]]
               /\ \A e \in Docs : e # req[r].on => doc'[e] = doc[e]
               /\ \A e \in Docs : doc'[e].chunks = doc[e].chunks
    BY <1>4, StatusSet
  <1>5. CASE Mark(r) \/ Ready(r) \/ Fail(r) \/ Archive(r)
    <2>1. \/ doc' = doc
          \/ SetStatus(req[r].on, "indexing") \/ SetStatus(req[r].on, "ready")
          \/ SetStatus(req[r].on, "failed") \/ SetStatus(req[r].on, "archived")
      BY <1>5 DEF Mark, Ready, Fail, Archive
    <2>2. /\ "indexing" \in Statuses /\ "ready" \in Statuses
          /\ "failed" \in Statuses /\ "archived" \in Statuses
      BY DEF Statuses
    <2>3. req[r].at \in {"mark", "ready", "fail", "archive"}
      BY <1>5 DEF Mark, Ready, Fail, Archive
    <2> QED
      BY <1>1, <1>3, <1>4, <2>1, <2>2, <2>3
  <1>6. CASE UpdateMeta(r)
    <2>1. req[r].at = "meta" /\ req[r].kind = "index"
      BY <1>6 DEF UpdateMeta, RequestInv, TypeOK, Request
    <2>2. req[r].pieces \in 1 .. MaxPieces /\ req[r].on \in Docs
      BY <1>1, <2>1 DEF RequestInv, Written
    <2>3. CASE doc' = [doc EXCEPT ![req[r].on] = [status |-> "ready", chunks |-> req[r].pieces]]
      BY <1>2, <2>1, <2>2, <2>3, KBAssumption DEF Statuses
    <2> QED
      BY <1>3, <1>6, <2>3 DEF UpdateMeta
  <1> QED
    BY <1>3, <1>5, <1>6
    DEF Move, Leave, Index, Delete, ListOld, Purge, Clear, Load, Cut, Unreadable, Insert,
        Upsert, PersistVectorIDs, UpdateCounters, Tally, Uncount

New(r) == [doc : {req[r].on}, by : {r}, idx : 0 .. req[r].pieces - 1, vid : {FALSE}]
Mine(r) == {x \in rows : x.by = r /\ x.idx < Cardinality(req[r].embedded)}
Told(S) == {[x EXCEPT !.vid = TRUE] : x \in S}

\* A step changes the rows in one of three ways, or leaves them alone.
LEMMA MoveRows ==
    ASSUME TypeInv, NEW r \in Requests, Move(r)
    PROVE  \/ rows' = rows
           \/ /\ req[r].at = "clear" /\ rows' = rows \ RowsOf(req[r].on)
              /\ req'[r].wrong = req[r].wrong
           \/ /\ req[r].at = "insert" /\ rows' = rows \cup New(r)
              /\ req'[r].at \in {"meta", "upsert"} /\ req'[r].wrong = req[r].wrong
           \/ /\ req[r].at = "persist"
              /\ \E S \in SUBSET Mine(r) :
                    /\ rows' = (rows \ S) \cup Told(S)
                    /\ "call" \in req'[r].wrong \/ S = Mine(r)
  <1> USE DEF TypeInv
  <1>1. CASE Clear(r)
    <2>1. CASE rows' = rows
      BY <2>1
    <2>2. CASE rows' = rows \ RowsOf(req[r].on) /\ (Go(r, "archive") \/ Go(r, "insert"))
      <3>1. Moved(r, "archive", {}) \/ Moved(r, "insert", {})
        BY <2>2, Moves DEF Steps
      <3> QED
        BY <1>1, <2>2, <3>1 DEF Moved, Clear
    <2> QED
      BY <1>1, <2>1, <2>2 DEF Clear
  <1>2. CASE Insert(r)
    <2>1. CASE rows' = rows
      BY <2>1
    <2>2. CASE rows' = rows \cup New(r) /\ (Go(r, "meta") \/ Go(r, "upsert"))
      <3>1. Moved(r, "meta", {}) \/ Moved(r, "upsert", {})
        BY <2>2, Moves DEF Steps
      <3> QED
        BY <1>2, <2>2, <3>1 DEF Moved, Insert
    <2> QED
      BY <1>2, <2>1, <2>2 DEF Insert, New
  <1>3. CASE PersistVectorIDs(r)
    <2>1. CASE rows' = (rows \ Mine(r)) \cup Told(Mine(r))
      BY <1>3, <2>1 DEF PersistVectorIDs
    <2>2. ASSUME NEW S \in SUBSET Mine(r), rows' = (rows \ S) \cup Told(S),
                 GoWrong(r, "meta", "call")
          PROVE  "call" \in req'[r].wrong
      <3>1. Moved(r, "meta", {"call"})
        BY <2>2, Moves DEF Steps, Flaws
      <3> QED
        BY <3>1 DEF Moved
    <2>3. \/ rows' = (rows \ Mine(r)) \cup Told(Mine(r))
          \/ \E S \in SUBSET Mine(r) :
                rows' = (rows \ S) \cup Told(S) /\ GoWrong(r, "meta", "call")
      BY <1>3 DEF PersistVectorIDs, Mine, Told
    <2> QED
      BY <1>3, <2>1, <2>2, <2>3 DEF PersistVectorIDs
  <1> QED
    BY <1>1, <1>2, <1>3
    DEF Move, Leave, Index, Delete, ListOld, Purge, Load, Mark, Cut, Unreadable, Upsert,
        UpdateMeta, UpdateCounters, Ready, Fail, Tally, Archive, Uncount

LEMMA ImageFinite ==
    ASSUME NEW S, NEW T, IsFiniteSet(S), NEW f \in [S -> T],
           \A t \in T : \E s \in S : f[s] = t
    PROVE  IsFiniteSet(T)
  <1>1. f \in Surjection(S, T)
    BY DEF Surjection
  <1> QED
    BY <1>1, FS_Surjection

LEMMA NewRow ==
    ASSUME NEW r \in Requests, NEW x \in New(r)
    PROVE  /\ x.idx \in 0 .. req[r].pieces - 1
           /\ x = [doc |-> req[r].on, by |-> r, idx |-> x.idx, vid |-> FALSE]
  BY DEF New

LEMMA NewFinite ==
    ASSUME NEW r \in Requests, req[r].pieces \in Nat
    PROVE  IsFiniteSet(New(r))
  <1> DEFINE S == 0 .. req[r].pieces - 1
             f == [i \in S |-> [doc |-> req[r].on, by |-> r, idx |-> i, vid |-> FALSE]]
  <1>1. IsFiniteSet(S)
    BY FS_Interval
  <1>2. f \in [S -> New(r)]
    BY DEF New
  <1>3. ASSUME NEW t \in New(r) PROVE \E s \in S : f[s] = t
    <2>1. t.idx \in S /\ t = [doc |-> req[r].on, by |-> r, idx |-> t.idx, vid |-> FALSE]
      BY NewRow
    <2>2. f[t.idx] = t
      BY <2>1
    <2> QED
      BY <2>1, <2>2
  <1> HIDE DEF f, S
  <1> QED
    BY <1>1, <1>2, <1>3, ImageFinite

LEMMA ToldFinite ==
    ASSUME NEW S, IsFiniteSet(S)
    PROVE  IsFiniteSet(Told(S))
  <1> DEFINE f == [x \in S |-> [x EXCEPT !.vid = TRUE]]
  <1>1. f \in [S -> Told(S)] /\ \A t \in Told(S) : \E s \in S : f[s] = t
    BY DEF Told
  <1> HIDE DEF f
  <1> QED
    BY <1>1, ImageFinite

LEMMA RequestMove ==
    ASSUME TypeInv, NEW r \in Requests, Move(r)
    PROVE  RequestInv'
  <1> USE DEF TypeInv
  <1>1. req' \in [Requests -> Request] /\ Onward(r)
    BY MoveOnward
  <1>2. ASSUME NEW q \in Requests \ {r} PROVE req'[q] = req[q]
    BY <1>1 DEF Onward
  <1>3. /\ req[r].on \in Docs /\ req'[r].on \in Docs /\ req'[r].kind = req[r].kind
        /\ req'[r].at # "idle"
    BY <1>1 DEF Onward, RequestInv, Under, Follows
  <1>4. req[r].kind \in {"index", "delete"} /\ req[r].at \in Steps
    BY DEF TypeOK, Request
  <1>5. /\ req'[r].kind = "index" => req'[r].at \notin {"tally", "archive", "uncount"}
        /\ req'[r].kind = "delete" =>
              req'[r].at \in {"tally", "list", "purge", "clear", "archive", "uncount",
                              "over", "failed"}
    BY <1>1, <1>3, <1>4 DEF Onward, RequestInv, Under, Follows
  <1>6. ASSUME req'[r].kind = "index",
               req'[r].at \in {"list", "purge", "clear", "insert"} \cup Written
        PROVE  /\ req'[r].pieces \in 1 .. MaxPieces
               /\ req'[r].embedded \subseteq 0 .. req'[r].pieces - 1
    <2>1. CASE req[r].at = "cut"
      <3>1. Cut(r) \/ Leave(r) \/ Unreadable(r)
        BY <2>1
        DEF Move, Index, Delete, ListOld, Purge, Clear, Load, Mark, Insert, Upsert,
            PersistVectorIDs, UpdateMeta, UpdateCounters, Ready, Fail, Tally, Archive, Uncount
      <3>2. ~Leave(r)
        BY <1>6, <2>1 DEF Leave, TypeOK, Request, Written
      <3>3. ASSUME Unreadable(r) PROVE FALSE
        <4>1. Moved(r, "fail", {})
          BY <3>3, Moves DEF Unreadable, Steps
        <4> QED
          BY <1>6, <4>1 DEF Moved, Written
      <3>4. PICK n \in 1 .. MaxPieces : \E embedded \in SUBSET (0 .. n - 1) :
               req' = [req EXCEPT ![r].pieces = n, ![r].embedded = embedded,
                                  ![r].at = IF req[r].had > 0 THEN "list" ELSE "clear"]
        BY <3>1, <3>2, <3>3 DEF Cut
      <3>5. PICK embedded \in SUBSET (0 .. n - 1) :
               req' = [req EXCEPT ![r].pieces = n, ![r].embedded = embedded,
                                  ![r].at = IF req[r].had > 0 THEN "list" ELSE "clear"]
        BY <3>4
      <3>6. req'[r].pieces = n /\ req'[r].embedded = embedded
        BY <3>5 DEF TypeOK, Request
      <3> QED
        BY <3>6
    <2>2. CASE req[r].at # "cut"
      <3>1. req'[r].pieces = req[r].pieces /\ req'[r].embedded = req[r].embedded
        BY <1>1, <1>6, <2>2 DEF Onward, Written
      <3>2. req[r].at \in {"list", "purge", "clear", "insert"} \cup Written
        BY <1>1, <1>3, <1>4, <1>6, <2>2 DEF Onward, Follows, Written, RequestInv, Under
      <3> QED
        BY <1>3, <1>6, <3>1, <3>2 DEF RequestInv
    <2> QED
      BY <2>1, <2>2
  <1> HIDE DEF TypeInv
  <1>7. RequestInv
    BY DEF TypeInv
  <1> QED
    BY <1>2, <1>3, <1>5, <1>6, <1>7 DEF RequestInv

LEMMA MoveVecs ==
    ASSUME TypeInv, NEW r \in Requests, Move(r)
    PROVE  \/ vecs' = vecs /\ req[r].at # "purge"
           \/ vecs' = vecs /\ req[r].at = "purge" /\ req'[r].at = "purge"
           \/ vecs' = vecs /\ req[r].at = "purge" /\ "call" \in req'[r].wrong
           \/ /\ req[r].at = "purge"
              /\ vecs' = {v \in vecs : [by |-> v.by, id |-> v.id] \notin req[r].old}
           \/ /\ req[r].at = "upsert" /\ req'[r].at = "persist"
              /\ vecs' = vecs \cup Filed(r)
  <1> USE DEF TypeInv
  <1>1. CASE Purge(r)
    <2>1. ASSUME GoWrong(r, "clear", "call") PROVE "call" \in req'[r].wrong
      <3>1. Moved(r, "clear", {"call"})
        BY <2>1, Moves DEF Steps, Flaws
      <3> QED
        BY <3>1 DEF Moved
    <2> QED
      BY <1>1, <2>1 DEF Purge
  <1>2. CASE Upsert(r)
    <2>1. Go(r, "persist")
      BY <1>2 DEF Upsert
    <2>2. Moved(r, "persist", {})
      BY <2>1, Moves DEF Steps
    <2> QED
      BY <1>2, <2>2 DEF Upsert, Moved
  <1>3. CASE Leave(r)
    BY <1>3 DEF Leave, TypeOK, Request
  <1> QED
    BY <1>1, <1>2, <1>3
    DEF Move, Index, Delete, ListOld, Clear, Load, Mark, Cut, Unreadable, Insert,
        PersistVectorIDs, UpdateMeta, UpdateCounters, Ready, Fail, Tally, Archive, Uncount

LEMMA ColumnInterval ==
    ASSUME NEW n \in Nat
    PROVE  IsFiniteSet(0 .. n - 1) /\ Cardinality(0 .. n - 1) = n
  <1>1. 0 \in Int /\ n - 1 \in Int /\ (IF 0 > n - 1 THEN 0 ELSE n - 1 - 0 + 1) = n
    OBVIOUS
  <1> QED
    BY <1>1, FS_Interval

\* Vectors are filed under the first rows, as many as there are vectors.
LEMMA FiledFirst ==
    ASSUME TypeInv, NEW r \in Requests, req[r].at = "upsert", NEW v \in Filed(r)
    PROVE  /\ v \in Vector /\ v.by = r
           /\ v.id < Cardinality(req[r].embedded)
           /\ Cardinality(req[r].embedded) \in Nat
           /\ Cardinality(req[r].embedded) <= req[r].pieces
  <1> DEFINE E == req[r].embedded
             n == req[r].pieces
  <1>1. req[r].kind = "index"
    BY DEF TypeInv, TypeOK, Request, RequestInv
  <1>2. n \in 1 .. MaxPieces /\ E \subseteq 0 .. n - 1
    BY <1>1 DEF TypeInv, RequestInv, Written
  <1>3. PICK p \in E : v = [by |-> r, piece |-> p, id |-> Cardinality({q \in E : q < p})]
    BY DEF Filed
  <1> HIDE DEF E, n
  <1>4. IsFiniteSet(0 .. n - 1) /\ Cardinality(0 .. n - 1) = n
    BY <1>2, ColumnInterval
  <1>5. IsFiniteSet(E) /\ Cardinality(E) <= n /\ Cardinality(E) \in Nat
    <2>1. E \in SUBSET (0 .. n - 1)
      BY <1>2
    <2>2. IsFiniteSet(E) /\ Cardinality(E) <= Cardinality(0 .. n - 1)
      BY <1>4, <2>1, FS_Subset
    <2> QED
      BY <1>4, <2>2, FS_CardinalityType
  <1> DEFINE L == {q \in E : q < p}
  <1>6. L \in SUBSET E /\ p \in Nat /\ p \notin L
    BY <1>2
  <1>7. /\ IsFiniteSet(L) /\ Cardinality(L) \in Nat
        /\ Cardinality(L) <= Cardinality(E) /\ (Cardinality(E) = Cardinality(L) => E = L)
    BY <1>5, <1>6, FS_Subset, FS_CardinalityType
  <1> HIDE DEF L
  <1>8. Cardinality(L) < Cardinality(E)
    BY <1>3, <1>5, <1>6, <1>7
  <1>9. v = [by |-> r, piece |-> p, id |-> Cardinality(L)]
    BY <1>3 DEF L
  <1> QED
    BY <1>5, <1>6, <1>7, <1>8, <1>9 DEF E, n, Vector

LEMMA TypeMove ==
    ASSUME TypeInv, NEW r \in Requests, Move(r)
    PROVE  TypeInv'
  <1>1. req' \in [Requests -> Request] /\ Onward(r) /\ RequestInv'
    BY MoveOnward, RequestMove DEF TypeInv
  <1>2. /\ doc' \in [Docs -> [status : Statuses, chunks : Nat]]
        /\ \A e \in Docs : doc'[e].chunks <= MaxPieces
    BY MoveDoc
  <1>3. last' \in [Docs -> Requests \cup {Nobody}]
    BY <1>1 DEF Onward, TypeInv, TypeOK
  <1>4. /\ rows \subseteq Row /\ IsFiniteSet(rows) /\ vecs \subseteq Vector
        /\ req[r] \in Request
    BY DEF TypeInv, TypeOK
  <1>5. req[r].on \in Docs
    BY <1>1 DEF Onward, Under, TypeInv, RequestInv
  <1>6. rows' \subseteq Row /\ IsFiniteSet(rows')
    <2>1. CASE rows' = rows
      BY <1>4, <2>1
    <2>2. CASE rows' = rows \ RowsOf(req[r].on)
      <3>1. rows' \in SUBSET rows
        BY <2>2
      <3> QED
        BY <1>4, <3>1, FS_Subset
    <2>3. CASE rows' = rows \cup New(r)
      <3>1. New(r) \subseteq Row /\ IsFiniteSet(New(r))
        <4>1. req[r].pieces \in Nat
          BY <1>4 DEF Request
        <4> QED
          <5>1. IsFiniteSet(New(r))
            BY <4>1, NewFinite
          <5>2. New(r) \subseteq Row
            <6>1. 0 .. req[r].pieces - 1 \subseteq Nat /\ {FALSE} \subseteq BOOLEAN
              BY <4>1
            <6> QED
              BY <1>5, <6>1, Zenon DEF New, Row
          <5> QED
            BY <5>1, <5>2
      <3> QED
        BY <1>4, <2>3, <3>1, FS_Union
    <2>4. ASSUME NEW S \in SUBSET Mine(r), rows' = (rows \ S) \cup Told(S)
          PROVE  rows' \subseteq Row /\ IsFiniteSet(rows')
      <3>1. S \in SUBSET rows /\ rows \ S \in SUBSET rows
        BY DEF Mine
      <3>2. IsFiniteSet(S) /\ IsFiniteSet(rows \ S)
        BY <1>4, <3>1, FS_Subset
      <3>3. Told(S) \subseteq Row /\ IsFiniteSet(Told(S))
        BY <1>4, <3>1, <3>2, ToldFinite DEF Told, Row
      <3> QED
        BY <1>4, <2>4, <3>2, <3>3, FS_Union
    <2> QED
      BY <2>1, <2>2, <2>3, <2>4, MoveRows
  <1>7. vecs' \subseteq Vector
    <2>1. CASE vecs' \subseteq vecs
      BY <1>4, <2>1
    <2>2. CASE req[r].at = "upsert" /\ vecs' = vecs \cup Filed(r)
      <3>1. Filed(r) \subseteq Vector
        BY <2>2, FiledFirst
      <3> QED
        BY <1>4, <2>2, <3>1
    <2> QED
      BY <2>1, <2>2, MoveVecs
  <1>8. base' \in [docs : Int, chunks : Int]
    <2>1. CASE base' = base
      BY <2>1 DEF TypeInv, TypeOK
    <2>2. ASSUME NEW docs \in Int, NEW chunks \in Int, AddTo(docs, chunks)
          PROVE  base' \in [docs : Int, chunks : Int]
      BY <2>2 DEF AddTo, TypeInv, TypeOK
    <2>3. req[r].had \in Nat /\ req[r].pieces \in Nat
      BY <1>4 DEF Request
    <2>4. CASE UpdateCounters(r)
      <3>1. (IF req[r].had = 0 THEN 1 ELSE 0) \in Int /\ req[r].pieces - req[r].had \in Int
        BY <2>3
      <3>2. base' = base \/ AddTo(IF req[r].had = 0 THEN 1 ELSE 0, req[r].pieces - req[r].had)
        BY <2>4 DEF UpdateCounters
      <3> QED
        BY <2>1, <2>2, <3>1, <3>2
    <2>5. CASE Uncount(r)
      <3>1. -1 \in Int /\ -req[r].had \in Int
        BY <2>3
      <3> QED
        BY <2>1, <2>2, <2>5, <3>1 DEF Uncount
    <2> QED
      BY <2>1, <2>4, <2>5
      DEF Move, Leave, Index, Delete, ListOld, Purge, Clear, Load, Mark, Cut, Unreadable,
          Insert, Upsert, PersistVectorIDs, UpdateMeta, Ready, Fail, Tally, Archive
  <1> QED
    BY <1>1, <1>2, <1>3, <1>6, <1>7, <1>8 DEF TypeInv, TypeOK

LEMMA StutterType == TypeInv /\ UNCHANGED vars => TypeInv'
  BY DEF TypeInv, TypeOK, RequestInv, vars

\* A step is the beginning of a request or a step of one under way.
LEMMA NextShape ==
    ASSUME Next
    PROVE  \/ \E r \in Requests, d \in Docs : AddDoc(r, d) \/ ReindexDoc(r, d) \/ DeleteDoc(r, d)
           \/ \E r \in Requests : Move(r)
  BY DEF Next, Move

\* Type correctness: statuses, rows, vectors, counters and what each request
\* has read, for any number of documents, requests and chunks.
THEOREM KBTypeOK == Spec => []TypeOK
  <1>1. Init => TypeInv
    BY TypeInit
  <1>2. TypeInv /\ [Next]_vars => TypeInv'
    BY NextShape, TypeStart, TypeMove, StutterType
  <1>3. TypeInv => TypeOK
    BY DEF TypeInv
  <1> QED
    BY <1>1, <1>2, <1>3, PTL DEF Spec

(***************************************************************************)
(* Who has met whom, and what rows and vectors belong to.                  *)
(***************************************************************************)
\* A request that has met none is the last one for its document while it is
\* under way, and no other is under way beside it, nor after it while it stays
\* the last.
MeetInv ==
    /\ \A d \in Docs : last[d] # Nobody => req[last[d]].on = d
    /\ \A r \in Requests : "met" \notin req[r].wrong =>
          /\ Under(r) => last[req[r].on] = r
          /\ \A q \in Requests \ {r} :
                req[q].on = req[r].on /\ Under(q) => ~Under(r) /\ last[req[r].on] # r

\* A row is of the document of the indexing that wrote it, which is past its
\* insertion, and is there once.
RowInv ==
    \A x \in rows :
        /\ x.doc = req[x.by].on
        /\ req[x.by].kind = "index" /\ req[x.by].at \in Written \cup {"over"}
        /\ \A y \in rows : Id(x) = Id(y) => x = y

VecInv ==
    \A v \in vecs :
        req[v.by].kind = "index" /\ req[v.by].at \in {"persist", "meta", "count", "ready", "over"}

\* A document that waits or is half indexed has an indexing under way, or one
\* of its requests had a call fail.
LeftInv ==
    \A d \in Docs : doc[d].status \in {"pending", "indexing"} =>
        \E r \in Requests :
            req[r].on = d /\ ("call" \in req[r].wrong \/ (Under(r) /\ req[r].kind = "index"))

CoreInv == TypeInv /\ MeetInv /\ RowInv /\ VecInv /\ LeftInv

\* How a request begins.
LEMMA StartShape ==
    ASSUME TypeInv, NEW r \in Requests, NEW d \in Docs,
           AddDoc(r, d) \/ ReindexDoc(r, d) \/ DeleteDoc(r, d)
    PROVE  \E kind \in {"index", "delete"}, step \in Steps, odd \in BOOLEAN :
              /\ Begun(r, d, kind, step, odd)
              /\ <<kind, step>> \in {<<"index", "load">>, <<"delete", "tally">>}
              /\ doc' = doc \/ (kind = "index" /\ SetStatus(d, "pending"))
  <1>1. PICK kind \in {"index", "delete"}, step \in Steps, odd \in BOOLEAN :
           /\ Start(r, d, kind, step, odd)
           /\ <<kind, step>> \in {<<"index", "load">>, <<"delete", "tally">>}
           /\ doc' = doc \/ (kind = "index" /\ SetStatus(d, "pending"))
    BY DEF AddDoc, ReindexDoc, DeleteDoc, Steps
  <1>2. Begun(r, d, kind, step, odd)
    BY <1>1, StartBegins DEF TypeInv
  <1> QED
    BY <1>1, <1>2

LEMMA MeetStart ==
    ASSUME TypeInv, MeetInv, NEW r \in Requests, NEW d \in Docs,
           AddDoc(r, d) \/ ReindexDoc(r, d) \/ DeleteDoc(r, d)
    PROVE  MeetInv'
  <1>1. PICK kind \in {"index", "delete"}, step \in Steps, odd \in BOOLEAN :
           /\ Begun(r, d, kind, step, odd)
           /\ <<kind, step>> \in {<<"index", "load">>, <<"delete", "tally">>}
    BY StartShape
  <1>2. /\ req[r].on \notin Docs /\ req[r].at = "idle"
        /\ \A q \in Requests : Under(q) => req[q].on \in Docs
    BY <1>1, KBAssumption DEF Begun, TypeInv, RequestInv, Idle, Under
  <1>3. last' = [last EXCEPT ![d] = r] /\ last \in [Docs -> Requests \cup {Nobody}]
    BY <1>1 DEF Begun, TypeInv, TypeOK
  <1>4. req'[r].on = d /\ \A q \in Requests \ {r} : req'[q].on = req[q].on /\ req'[q].at = req[q].at
    BY <1>1 DEF Begun
  <1>5. ASSUME NEW e \in Docs, last'[e] # Nobody PROVE req'[last'[e]].on = e
    <2>1. CASE e = d
      BY <1>3, <1>4, <2>1
    <2>2. CASE e # d
      <3>1. last'[e] = last[e] /\ last[e] \in Requests /\ req[last[e]].on = e
        BY <1>3, <1>5, <2>2 DEF MeetInv
      <3> QED
        BY <1>2, <1>4, <3>1
    <2> QED
      BY <2>1, <2>2
  <1>6. ASSUME NEW p \in Requests, "met" \notin req'[p].wrong
        PROVE  /\ Under(p)' => last'[req'[p].on] = p
               /\ \A q \in Requests \ {p} : req'[q].on = req'[p].on /\ Under(q)' =>
                     ~Under(p)' /\ last'[req'[p].on] # p
    <2>1. CASE p = r
      <3>1. UnderWay(d) = {}
        BY <1>1, <1>6, <2>1 DEF Begun, Busy
      <3>2. ASSUME NEW q \in Requests \ {p}, req'[q].on = req'[p].on, Under(q)' PROVE FALSE
        <4>1. q \in UnderWay(d)
          BY <1>4, <2>1, <3>2 DEF UnderWay, Under
        <4> QED
          BY <3>1, <4>1
      <3> QED
        BY <1>3, <1>4, <2>1, <3>2
    <2>2. CASE p # r
      <3>1. p \notin UnderWay(d) /\ "met" \notin req[p].wrong
        BY <1>1, <1>6, <2>2 DEF Begun
      <3>2. (Under(p)' <=> Under(p)) /\ req'[p].on = req[p].on
        BY <1>4, <2>2 DEF Under
      <3>3. ASSUME Under(p) PROVE last'[req[p].on] = p
        <4>1. req[p].on # d /\ req[p].on \in Docs /\ last[req[p].on] = p
          BY <1>2, <3>1, <3>3 DEF UnderWay, MeetInv
        <4> QED
          BY <1>3, <4>1
      <3>4. ASSUME NEW q \in Requests \ {p}, req'[q].on = req'[p].on, Under(q)'
            PROVE  ~Under(p) /\ last'[req[p].on] # p
        <4>1. CASE q = r
          BY <1>3, <1>4, <2>2, <3>1, <3>2, <3>4, <4>1 DEF UnderWay
        <4>2. CASE q # r
          <5>1. Under(q) /\ req[q].on = req[p].on /\ req[q].on \in Docs
            BY <1>2, <1>4, <3>2, <3>4, <4>2 DEF Under
          <5>2. ~Under(p) /\ last[req[p].on] # p
            BY <3>1, <3>4, <5>1 DEF MeetInv
          <5> QED
            BY <1>3, <2>2, <5>1, <5>2
        <4> QED
          BY <4>1, <4>2
      <3> QED
        BY <3>2, <3>3, <3>4
    <2> QED
      BY <2>1, <2>2
  <1> QED
    BY <1>5, <1>6 DEF MeetInv

LEMMA MeetMove ==
    ASSUME TypeInv, MeetInv, NEW r \in Requests, Move(r)
    PROVE  MeetInv'
  <1>1. Onward(r)
    BY MoveOnward
  <1>2. /\ last' = last /\ Under(r)
        /\ \A q \in Requests : /\ req'[q].on = req[q].on
                               /\ Under(q)' => Under(q)
                               /\ "met" \in req'[q].wrong <=> "met" \in req[q].wrong
    BY <1>1 DEF Onward, Under
  <1>3. last \in [Docs -> Requests \cup {Nobody}]
    BY DEF TypeInv, TypeOK
  <1> QED
    BY <1>2, <1>3 DEF MeetInv

LEMMA RowStart ==
    ASSUME TypeInv, RowInv, VecInv, NEW r \in Requests, NEW d \in Docs,
           AddDoc(r, d) \/ ReindexDoc(r, d) \/ DeleteDoc(r, d)
    PROVE  RowInv' /\ VecInv'
  <1>1. PICK kind \in {"index", "delete"}, step \in Steps, odd \in BOOLEAN :
           Begun(r, d, kind, step, odd)
    BY StartShape
  <1>2. rows' = rows /\ vecs' = vecs /\ req[r].at = "idle"
    BY <1>1 DEF Begun
  <1>3. \A q \in Requests : q # r => /\ req'[q].on = req[q].on /\ req'[q].at = req[q].at
                                     /\ req'[q].kind = req[q].kind
    BY <1>1 DEF Begun
  <1>4. /\ \A x \in rows : x.by \in Requests /\ x.by # r
        /\ \A v \in vecs : v.by \in Requests /\ v.by # r
    BY <1>2 DEF TypeInv, TypeOK, Row, Vector, RowInv, VecInv, Written
  <1> QED
    BY <1>2, <1>3, <1>4 DEF RowInv, VecInv, Id

LEMMA RowMove ==
    ASSUME TypeInv, RowInv, NEW r \in Requests, Move(r)
    PROVE  RowInv'
  <1>1. Onward(r)
    BY MoveOnward
  <1>2. \A x \in rows : x \in Row /\ x.by \in Requests
    BY DEF TypeInv, TypeOK, Row
  <1>3. ASSUME NEW q \in Requests, req[q].kind = "index", req[q].at \in Written \cup {"over"}
        PROVE  /\ req'[q].on = req[q].on /\ req'[q].kind = "index"
               /\ req'[q].at \in Written \cup {"over"}
    BY <1>1, <1>3 DEF Onward, Follows, Written, Under
  <1>4. ASSUME NEW x \in rows
        PROVE  /\ x.doc = req'[x.by].on /\ req'[x.by].kind = "index"
               /\ req'[x.by].at \in Written \cup {"over"}
    BY <1>2, <1>3 DEF RowInv
  <1>5. CASE rows' \subseteq rows
    BY <1>4, <1>5 DEF RowInv, Id
  <1>6. CASE req[r].at = "insert" /\ rows' = rows \cup New(r) /\ req'[r].at \in {"meta", "upsert"}
    <2>1. \A x \in rows : x.by # r
      BY <1>6 DEF RowInv, Written
    <2>2. req[r].kind = "index" /\ req'[r].kind = req[r].kind /\ req'[r].on = req[r].on
      BY <1>1, <1>6 DEF Onward, TypeInv, TypeOK, Request, RequestInv
    <2>3. ASSUME NEW x \in New(r)
          PROVE  /\ x.by = r /\ x.doc = req[r].on
                 /\ \A y \in New(r) : x.idx = y.idx => x = y
      <3>1. x = [doc |-> req[r].on, by |-> r, idx |-> x.idx, vid |-> FALSE]
        BY NewRow
      <3>2. ASSUME NEW y \in New(r), x.idx = y.idx PROVE x = y
        BY <3>1, <3>2, NewRow
      <3> QED
        BY <3>1, <3>2
    <2>4. ASSUME NEW x \in rows', NEW y \in rows', Id(x) = Id(y) PROVE x = y
      <3>1. x.by = y.by /\ x.idx = y.idx
        BY <2>4 DEF Id
      <3> QED
        BY <1>6, <2>1, <2>3, <2>4, <3>1 DEF RowInv
    <2>5. ASSUME NEW x \in rows'
          PROVE  /\ x.doc = req'[x.by].on /\ req'[x.by].kind = "index"
                 /\ req'[x.by].at \in Written \cup {"over"}
      BY <1>4, <1>6, <2>2, <2>3 DEF Written
    <2> QED
      BY <2>4, <2>5 DEF RowInv, Id
  <1>7. ASSUME NEW S \in SUBSET Mine(r), rows' = (rows \ S) \cup Told(S)
        PROVE  RowInv'
    <2>1. ASSUME NEW x \in rows'
          PROVE  \E y \in rows : /\ x.doc = y.doc /\ x.by = y.by /\ x.idx = y.idx
                                 /\ y \in S => x = [y EXCEPT !.vid = TRUE]
                                 /\ y \notin S => x = y
      BY <1>2, <1>7 DEF Told, Mine, Row
    <2>2. ASSUME NEW x \in rows', NEW y \in rows', Id(x) = Id(y) PROVE x = y
      <3>1. PICK a \in rows : /\ x.doc = a.doc /\ x.by = a.by /\ x.idx = a.idx
                              /\ a \in S => x = [a EXCEPT !.vid = TRUE]
                              /\ a \notin S => x = a
        BY <2>1
      <3>2. PICK b \in rows : /\ y.doc = b.doc /\ y.by = b.by /\ y.idx = b.idx
                              /\ b \in S => y = [b EXCEPT !.vid = TRUE]
                              /\ b \notin S => y = b
        BY <2>1
      <3>3. Id(a) = Id(b)
        BY <2>2, <3>1, <3>2 DEF Id
      <3>4. a = b
        BY <3>3 DEF RowInv
      <3> QED
        BY <3>1, <3>2, <3>4
    <2>3. ASSUME NEW x \in rows'
          PROVE  /\ x.doc = req'[x.by].on /\ req'[x.by].kind = "index"
                 /\ req'[x.by].at \in Written \cup {"over"}
      BY <1>4, <2>1
    <2> QED
      BY <2>2, <2>3 DEF RowInv, Id
  <1> QED
    BY <1>5, <1>6, <1>7, MoveRows

LEMMA VecMove ==
    ASSUME TypeInv, VecInv, NEW r \in Requests, Move(r)
    PROVE  VecInv'
  <1>1. Onward(r)
    BY MoveOnward
  <1>2. ASSUME NEW q \in Requests, req[q].kind = "index",
               req[q].at \in {"persist", "meta", "count", "ready", "over"}
        PROVE  /\ req'[q].kind = "index"
               /\ req'[q].at \in {"persist", "meta", "count", "ready", "over"}
    BY <1>1, <1>2 DEF Onward, Follows, Under
  <1>3. \A v \in vecs : v.by \in Requests
    BY DEF TypeInv, TypeOK, Vector
  <1>4. CASE vecs' \subseteq vecs
    BY <1>2, <1>3, <1>4 DEF VecInv
  <1>5. CASE req[r].at = "upsert" /\ req'[r].at = "persist" /\ vecs' = vecs \cup Filed(r)
    <2>1. req'[r].kind = "index"
      BY <1>1, <1>5 DEF Onward, TypeInv, TypeOK, Request, RequestInv
    <2>2. \A v \in Filed(r) : v.by = r
      BY <1>5, FiledFirst
    <2> QED
      BY <1>2, <1>3, <1>5, <2>1, <2>2 DEF VecInv
  <1> QED
    BY <1>4, <1>5, MoveVecs

LEMMA LeftStart ==
    ASSUME TypeInv, LeftInv, NEW r \in Requests, NEW d \in Docs,
           AddDoc(r, d) \/ ReindexDoc(r, d) \/ DeleteDoc(r, d)
    PROVE  LeftInv'
  <1>1. PICK kind \in {"index", "delete"}, step \in Steps, odd \in BOOLEAN :
           /\ Begun(r, d, kind, step, odd)
           /\ <<kind, step>> \in {<<"index", "load">>, <<"delete", "tally">>}
           /\ doc' = doc \/ (kind = "index" /\ SetStatus(d, "pending"))
    BY StartShape
  <1>2. ASSUME NEW q \in Requests, NEW e \in Docs, req[q].on = e,
               "call" \in req[q].wrong \/ (Under(q) /\ req[q].kind = "index")
        PROVE  /\ req'[q].on = e
               /\ "call" \in req'[q].wrong \/ (Under(q)' /\ req'[q].kind = "index")
    <2>1. q # r
      BY <1>1, <1>2, KBAssumption DEF Begun, TypeInv, RequestInv, Idle
    <2> QED
      BY <1>1, <1>2, <2>1 DEF Begun, Under
  <1>3. ASSUME NEW e \in Docs, doc'[e].status \in {"pending", "indexing"}
        PROVE  \E q \in Requests :
                  /\ req'[q].on = e
                  /\ "call" \in req'[q].wrong \/ (Under(q)' /\ req'[q].kind = "index")
    <2>1. CASE doc'[e] = doc[e]
      <3>1. PICK q \in Requests : req[q].on = e /\
               ("call" \in req[q].wrong \/ (Under(q) /\ req[q].kind = "index"))
        BY <1>3, <2>1 DEF LeftInv
      <3> QED
        BY <1>2, <3>1
    <2>2. CASE doc'[e] # doc[e]
      <3>1. kind = "index" /\ e = d /\ step = "load"
        BY <1>1, <2>2, StatusSet DEF TypeInv, Statuses
      <3>2. req'[r].on = d /\ Under(r)' /\ req'[r].kind = "index"
        BY <1>1, <3>1 DEF Begun, Under
      <3> QED
        BY <3>1, <3>2
    <2> QED
      BY <2>1, <2>2
  <1> QED
    BY <1>3 DEF LeftInv

\* An indexing ends by setting the status, or by a call that failed.
LEMMA LeftMove ==
    ASSUME TypeInv, LeftInv, NEW r \in Requests, Move(r)
    PROVE  LeftInv'
  <1>1. Onward(r) /\ req[r].on \in Docs /\ req[r].kind \in {"index", "delete"}
    BY MoveOnward DEF Onward, Under, TypeInv, TypeOK, Request, RequestInv
  <1>2. ASSUME NEW q \in Requests, q # r \/ "call" \in req[q].wrong,
               req[q].on \in Docs,
               "call" \in req[q].wrong \/ (Under(q) /\ req[q].kind = "index")
        PROVE  /\ req'[q].on = req[q].on
               /\ "call" \in req'[q].wrong \/ (Under(q)' /\ req'[q].kind = "index")
    BY <1>1, <1>2 DEF Onward, Under
  <1>3. \A e \in Docs : e # req[r].on => doc'[e] = doc[e]
    BY MoveDoc
  <1>4. ASSUME req[r].kind = "index", ~Under(r)',
               doc'[req[r].on].status \in {"pending", "indexing"}
        PROVE  "call" \in req'[r].wrong
    <2>1. req'[r].at \in {"over", "failed"} /\ req[r].at \in {"load", "mark", "ready", "fail"}
      BY <1>1, <1>4 DEF Onward, Under, Follows, TypeInv, RequestInv
    <2>2. Load(r) \/ Mark(r) \/ Ready(r) \/ Fail(r) \/ Leave(r)
      BY <2>1
      DEF Move, Index, Delete, ListOld, Purge, Clear, Cut, Unreadable, Insert, Upsert,
          PersistVectorIDs, UpdateMeta, UpdateCounters, Tally, Archive, Uncount
    <2>3. ASSUME NEW step \in {"over", "failed"}, GoWrong(r, step, "call")
          PROVE  "call" \in req'[r].wrong
      <3>1. Moved(r, step, {"call"})
        BY <2>3, Moves DEF Steps, Flaws, TypeInv
      <3> QED
        BY <3>1 DEF Moved
    <2>4. CASE Load(r)
      BY <2>1, <2>3, <2>4 DEF Load, TypeInv, TypeOK, Request
    <2>5. CASE Mark(r)
      <3>1. ~Go(r, "cut")
        BY <2>1, Moves DEF TypeInv, Steps, Moved
      <3> QED
        BY <2>3, <2>5, <3>1 DEF Mark
    <2>6. ASSUME NEW status \in {"ready", "failed"}, SetStatus(req[r].on, status) PROVE FALSE
      BY <1>1, <1>4, <2>6, StatusSet DEF TypeInv, Statuses
    <2>7. CASE Ready(r) \/ Fail(r)
      BY <2>3, <2>6, <2>7 DEF Ready, Fail
    <2>8. CASE Leave(r)
      BY <2>1, <2>8 DEF Leave, TypeInv, TypeOK, Request
    <2> QED
      BY <2>2, <2>4, <2>5, <2>7, <2>8
  <1>5. ASSUME NEW e \in Docs, doc'[e].status \in {"pending", "indexing"}
        PROVE  \E q \in Requests :
                  /\ req'[q].on = e
                  /\ "call" \in req'[q].wrong \/ (Under(q)' /\ req'[q].kind = "index")
    <2>1. CASE e = req[r].on /\ req[r].kind = "index"
      BY <1>1, <1>4, <1>5, <2>1 DEF Onward
    <2>2. CASE e # req[r].on \/ req[r].kind # "index"
      <3>1. doc[e].status \in {"pending", "indexing"}
        <4>1. CASE e # req[r].on
          BY <1>3, <1>5, <4>1
        <4>2. CASE e = req[r].on /\ req[r].kind # "index"
          <5>1. req[r].at \in {"tally", "list", "purge", "clear", "archive", "uncount"}
            BY <1>1, <4>2 DEF Onward, Under, TypeInv, RequestInv
          <5>2. CASE req[r].at # "archive"
            BY <1>5, <5>1, <5>2, MoveDoc
          <5>3. CASE req[r].at = "archive"
            <6>1. doc' = doc \/ SetStatus(req[r].on, "archived")
              BY <5>3
              DEF Move, Leave, Index, Delete, ListOld, Purge, Clear, Load, Mark, Cut, Unreadable,
                  Insert, Upsert, PersistVectorIDs, UpdateMeta, UpdateCounters, Ready, Fail,
                  Tally, Archive, Uncount
            <6> QED
              BY <1>1, <1>5, <4>2, <6>1, StatusSet DEF TypeInv, Statuses
          <5> QED
            BY <5>2, <5>3
        <4> QED
          BY <2>2, <4>1, <4>2
      <3>2. PICK q \in Requests : req[q].on = e /\
               ("call" \in req[q].wrong \/ (Under(q) /\ req[q].kind = "index"))
        BY <3>1 DEF LeftInv
      <3>3. q # r \/ "call" \in req[q].wrong
        BY <2>2, <3>2
      <3> QED
        BY <1>2, <3>2, <3>3
    <2> QED
      BY <2>1, <2>2
  <1> QED
    BY <1>5 DEF LeftInv

LEMMA CoreInit == Init => CoreInv
  <1> SUFFICES ASSUME Init PROVE CoreInv
    OBVIOUS
  <1>1. TypeInv
    BY TypeInit
  <1>2. MeetInv
    BY KBAssumption DEF Init, MeetInv, Under, Idle
  <1>3. RowInv /\ VecInv /\ LeftInv
    BY DEF Init, RowInv, VecInv, LeftInv
  <1> QED
    BY <1>1, <1>2, <1>3 DEF CoreInv

LEMMA CoreNext == CoreInv /\ [Next]_vars => CoreInv'
  <1> SUFFICES ASSUME CoreInv, [Next]_vars PROVE CoreInv'
    OBVIOUS
  <1> USE DEF CoreInv
  <1>1. ASSUME NEW r \in Requests, NEW d \in Docs,
               AddDoc(r, d) \/ ReindexDoc(r, d) \/ DeleteDoc(r, d)
        PROVE  CoreInv'
    BY <1>1, TypeStart, MeetStart, RowStart, LeftStart
  <1>2. ASSUME NEW r \in Requests, Move(r) PROVE CoreInv'
    BY <1>2, TypeMove, MeetMove, RowMove, VecMove, LeftMove
  <1>3. CASE UNCHANGED vars
    BY <1>3, StutterType DEF vars, MeetInv, RowInv, VecInv, LeftInv, Under, Id
  <1> QED
    BY <1>1, <1>2, <1>3, NextShape

\* Between requests no document waits or is half indexed, whichever requests
\* have met, unless a call of one of its own failed.
THEOREM KBNotLeftIndexing == Spec => []NotLeftIndexing
  <1>1. CoreInv => NotLeftIndexing
    BY DEF CoreInv, LeftInv, NotLeftIndexing, Busy, UnderWay, Unharmed
  <1> QED
    BY <1>1, CoreInit, CoreNext, PTL DEF Spec

(***************************************************************************)
(* What each step does when its call works.                                *)
(***************************************************************************)
\* Only the client's leaving keeps a request at its step.
LEMMA MoveIs ==
    ASSUME TypeInv, NEW r \in Requests, Move(r)
    PROVE  \/ /\ Leave(r) /\ req'[r].at = req[r].at /\ req'[r].wrong = req[r].wrong
              /\ req'[r].had = req[r].had /\ req'[r].pieces = req[r].pieces
              /\ req'[r].old = req[r].old /\ req'[r].embedded = req[r].embedded
           \/ /\ req[r].at = "load" => Load(r)
              /\ req[r].at = "mark" => Mark(r)
              /\ req[r].at = "cut" => Cut(r) \/ Unreadable(r)
              /\ req[r].at = "list" => ListOld(r)
              /\ req[r].at = "purge" => Purge(r)
              /\ req[r].at = "clear" => Clear(r)
              /\ req[r].at = "insert" => Insert(r)
              /\ req[r].at = "upsert" => Upsert(r)
              /\ req[r].at = "persist" => PersistVectorIDs(r)
              /\ req[r].at = "meta" => UpdateMeta(r)
              /\ req[r].at = "count" => UpdateCounters(r)
              /\ req[r].at = "ready" => Ready(r)
              /\ req[r].at = "fail" => Fail(r)
              /\ req[r].at = "tally" => Tally(r)
              /\ req[r].at = "archive" => Archive(r)
              /\ req[r].at = "uncount" => Uncount(r)
              /\ ~Leave(r)
  <1>1. CASE Leave(r)
    BY <1>1 DEF Leave, TypeInv, TypeOK, Request
  <1>2. CASE ~Leave(r)
    BY <1>2
    DEF Move, Index, Delete, ListOld, Purge, Clear, Load, Mark, Cut, Unreadable, Insert,
        Upsert, PersistVectorIDs, UpdateMeta, UpdateCounters, Ready, Fail, Tally, Archive, Uncount
  <1> QED
    BY <1>1, <1>2

\* A call that fails leaves its mark, or is an insertion, which sends r to fail.
LEMMA FailsMarked ==
    ASSUME TypeInv, NEW r \in Requests, NEW step \in Steps, GoWrong(r, step, "call")
    PROVE  "call" \in req'[r].wrong
  <1>1. Moved(r, step, {"call"})
    BY Moves DEF TypeInv, Flaws
  <1> QED
    BY <1>1 DEF Moved

LEMMA ClearDone ==
    ASSUME TypeInv, NEW r \in Requests, Clear(r), "call" \notin req'[r].wrong
    PROVE  rows' = rows \ RowsOf(req[r].on)
  <1>1. ~GoWrong(r, "archive", "call") /\ ~GoWrong(r, "insert", "call")
    BY FailsMarked DEF Steps
  <1> QED
    BY <1>1 DEF Clear

LEMMA InsertDone ==
    ASSUME TypeInv, NEW r \in Requests, Insert(r), req'[r].at \in Written
    PROVE  /\ rows' = rows \cup New(r)
           /\ req'[r].wrong = req[r].wrong
           /\ req[r].kind = "index" /\ req[r].pieces \in 1 .. MaxPieces
  <1>1. ~GoWrong(r, "fail", "insert")
    <2> SUFFICES ASSUME GoWrong(r, "fail", "insert") PROVE FALSE
      OBVIOUS
    <2>1. Moved(r, "fail", {"insert"})
      BY Moves DEF TypeInv, Flaws, Steps
    <2> QED
      BY <2>1 DEF Moved, Written
  <1>2. Go(r, "meta") \/ Go(r, "upsert")
    BY <1>1 DEF Insert
  <1>3. req'[r].wrong = req[r].wrong \cup {}
    BY <1>2, Moves DEF TypeInv, Steps, Moved
  <1>4. req[r].at = "insert"
    BY DEF Insert
  <1>5. req[r].kind = "index"
    BY <1>4 DEF TypeInv, TypeOK, Request, RequestInv
  <1> QED
    BY <1>1, <1>3, <1>4, <1>5 DEF Insert, New, TypeInv, RequestInv

LEMMA MetaDone ==
    ASSUME TypeInv, NEW r \in Requests, UpdateMeta(r), "call" \notin req'[r].wrong
    PROVE  /\ doc' = [doc EXCEPT ![req[r].on] = [status |-> "ready", chunks |-> req[r].pieces]]
           /\ Go(r, "count")
  <1>1. ~GoWrong(r, "count", "call")
    BY FailsMarked DEF Steps
  <1> QED
    BY <1>1 DEF UpdateMeta

LEMMA ReadyDone ==
    ASSUME TypeInv, NEW r \in Requests, Ready(r), "call" \notin req'[r].wrong
    PROVE  SetStatus(req[r].on, "ready") /\ Go(r, "over")
  <1>1. ~GoWrong(r, "over", "call")
    BY FailsMarked DEF Steps
  <1> QED
    BY <1>1 DEF Ready

LEMMA ArchiveDone ==
    ASSUME TypeInv, NEW r \in Requests, Archive(r), "call" \notin req'[r].wrong
    PROVE  SetStatus(req[r].on, "archived") /\ Go(r, "uncount")
  <1>1. ~GoWrong(r, "failed", "call")
    BY FailsMarked DEF Steps
  <1> QED
    BY <1>1 DEF Archive

LEMMA PersistDone ==
    ASSUME TypeInv, NEW r \in Requests, PersistVectorIDs(r), "call" \notin req'[r].wrong
    PROVE  rows' = (rows \ Mine(r)) \cup Told(Mine(r))
  <1>1. ~GoWrong(r, "meta", "call")
    BY FailsMarked DEF Steps
  <1> QED
    BY <1>1 DEF PersistVectorIDs, Mine, Told

(***************************************************************************)
(* The last request for a document.                                        *)
(***************************************************************************)
Quiet(r) == req[r].wrong \cap {"call", "met"} = {}

Ids(d) == {Id(x) : x \in RowsOf(d)}
Texts(r) == [by : {r}, id : 0 .. req[r].pieces - 1]

\* What r has achieved so far if all of its calls worked.
Settled(r) ==
    /\ \/ req[r].at \in {"insert", "archive", "uncount"}
       \/ req[r].at = "over" /\ req[r].kind = "delete"
       => RowsOf(req[r].on) = {}
    /\ req[r].kind = "index" /\ req[r].at \in Written \cup {"over"} =>
          Ids(req[r].on) = Texts(r)
    /\ req[r].kind = "index" /\ req[r].at \in {"count", "ready", "over"} =>
          doc[req[r].on] = [status |-> "ready", chunks |-> req[r].pieces]
    /\ req[r].kind = "delete" /\ req[r].at \in {"uncount", "over"} =>
          doc[req[r].on].status = "archived"

LastInv ==
    \A r \in Requests :
        req[r].on \in Docs /\ last[req[r].on] = r /\ Quiet(r) => Settled(r)

\* A request touches no rows but those of its own document, and telling rows
\* of their vectors does not change their ids.
LEMMA OtherRows ==
    ASSUME TypeInv, RowInv, NEW r \in Requests, Move(r), NEW e \in Docs, e # req[r].on
    PROVE  {x \in rows' : x.doc = e} = {x \in rows : x.doc = e}
  <1>1. CASE rows' = rows
    BY <1>1
  <1>2. CASE rows' = rows \ RowsOf(req[r].on)
    BY <1>2 DEF RowsOf
  <1>3. CASE rows' = rows \cup New(r)
    <2>1. \A x \in New(r) : x.doc # e
      BY DEF New
    <2> QED
      BY <1>3, <2>1
  <1>4. ASSUME NEW S \in SUBSET Mine(r), rows' = (rows \ S) \cup Told(S)
        PROVE  {x \in rows' : x.doc = e} = {x \in rows : x.doc = e}
    <2>1. \A x \in S : x \in Row /\ x.doc = req[r].on
      BY DEF Mine, RowInv, TypeInv, TypeOK
    <2>2. \A x \in Told(S) : x.doc = req[r].on
      BY <2>1 DEF Told, Row
    <2> QED
      BY <1>4, <2>1, <2>2
  <1> QED
    BY <1>1, <1>2, <1>3, <1>4, MoveRows

LEMMA ToldIds ==
    ASSUME rows \subseteq Row, NEW S \in SUBSET rows, NEW d
    PROVE  {Id(x) : x \in {y \in (rows \ S) \cup Told(S) : y.doc = d}} = Ids(d)
  <1> DEFINE new == (rows \ S) \cup Told(S)
             I(T) == {Id(x) : x \in {y \in T : y.doc = d}}
  <1>1. ASSUME NEW x \in S
        PROVE  LET y == [x EXCEPT !.vid = TRUE] IN y \in Told(S) /\ y.doc = x.doc /\ Id(y) = Id(x)
    BY DEF Told, Row, Id
  <1>2. ASSUME NEW y \in Told(S)
        PROVE  \E x \in S : y.doc = x.doc /\ Id(y) = Id(x)
    BY DEF Told, Row, Id
  <1>3. ASSUME NEW i \in I(new) PROVE i \in I(rows)
    <2>1. PICK y \in new : y.doc = d /\ i = Id(y)
      OBVIOUS
    <2>2. CASE y \in rows
      BY <2>1, <2>2
    <2>3. CASE y \in Told(S)
      <3>1. PICK x \in S : y.doc = x.doc /\ Id(y) = Id(x)
        BY <1>2, <2>3
      <3> QED
        BY <2>1, <3>1
    <2> QED
      BY <2>1, <2>2, <2>3
  <1>4. ASSUME NEW i \in I(rows) PROVE i \in I(new)
    <2>1. PICK x \in rows : x.doc = d /\ i = Id(x)
      OBVIOUS
    <2>2. CASE x \in S
      <3> DEFINE y == [x EXCEPT !.vid = TRUE]
      <3>1. y \in new /\ y.doc = d /\ i = Id(y)
        BY <1>1, <2>1, <2>2
      <3> HIDE DEF y
      <3> QED
        BY <3>1
    <2>3. CASE x \notin S
      BY <2>1, <2>3
    <2> QED
      BY <2>2, <2>3
  <1>5. I(new) = I(rows)
    BY <1>3, <1>4
  <1> QED
    BY <1>5 DEF Ids, RowsOf

LEMMA NewIds ==
    ASSUME NEW r \in Requests
    PROVE  {Id(x) : x \in New(r)} = Texts(r)
  <1>1. ASSUME NEW x \in New(r) PROVE Id(x) \in Texts(r)
    BY NewRow DEF Id, Texts
  <1>2. ASSUME NEW i \in Texts(r) PROVE \E x \in New(r) : i = Id(x)
    <2> DEFINE x == [doc |-> req[r].on, by |-> r, idx |-> i.id, vid |-> FALSE]
    <2>1. x \in New(r)
      BY DEF Texts, New
    <2>2. i = Id(x)
      BY DEF Texts, Id
    <2> HIDE DEF x
    <2> QED
      BY <2>1, <2>2
  <1> QED
    BY <1>1, <1>2

LEMMA LastStart ==
    ASSUME TypeInv, LastInv, NEW r \in Requests, NEW d \in Docs,
           AddDoc(r, d) \/ ReindexDoc(r, d) \/ DeleteDoc(r, d)
    PROVE  LastInv'
  <1>1. PICK kind \in {"index", "delete"}, step \in Steps, odd \in BOOLEAN :
           /\ Begun(r, d, kind, step, odd)
           /\ <<kind, step>> \in {<<"index", "load">>, <<"delete", "tally">>}
           /\ doc' = doc \/ (kind = "index" /\ SetStatus(d, "pending"))
    BY StartShape
  <1>2. \A e \in Docs : e # d => doc'[e] = doc[e]
    BY <1>1, StatusSet DEF TypeInv, Statuses
  <1>3. last' = [last EXCEPT ![d] = r] /\ last \in [Docs -> Requests \cup {Nobody}] /\ rows' = rows
    BY <1>1 DEF Begun, TypeInv, TypeOK
  <1>4. ASSUME NEW q \in Requests, req'[q].on \in Docs, last'[req'[q].on] = q, Quiet(q)'
        PROVE  Settled(q)'
    <2>1. CASE q = r
      BY <1>1, <2>1 DEF Settled, Begun, Written
    <2>2. CASE q # r
      <3>1. req'[q].on = req[q].on /\ req[q].on # d
        BY <1>1, <1>3, <1>4, <2>2 DEF Begun
      <3>2. req'[q] = req[q]
        BY <1>1, <2>2, <3>1 DEF Begun, UnderWay
      <3>3. last[req[q].on] = q /\ Quiet(q)
        BY <1>3, <1>4, <3>1, <3>2 DEF Quiet
      <3>4. Settled(q)
        BY <1>4, <3>1, <3>3 DEF LastInv
      <3>5. doc'[req[q].on] = doc[req[q].on]
        BY <1>2, <1>4, <3>1
      <3> QED
        BY <1>3, <3>2, <3>4, <3>5 DEF Settled, RowsOf, Ids, Texts, Id
    <2> QED
      BY <2>1, <2>2
  <1> QED
    BY <1>4 DEF LastInv

\* The request itself: what it has achieved after its step.
LEMMA SettledMove ==
    ASSUME TypeInv, RowInv, NEW r \in Requests, Move(r), "call" \notin req'[r].wrong,
           Settled(r)
    PROVE  Settled(r)'
  <1> DEFINE d == req[r].on
             d2 == req'[r].on
  <1>1. /\ Onward(r) /\ d \in Docs /\ d2 = d /\ req'[r].kind = req[r].kind
        /\ req[r].kind \in {"index", "delete"}
    BY MoveOnward DEF Onward, Under, TypeInv, RequestInv, TypeOK, Request
  <1>2. doc \in [Docs -> [status : Statuses, chunks : Nat]] /\ rows \subseteq Row
    BY DEF TypeInv, TypeOK
  <1>3. CASE Leave(r)
    <2>1. /\ req'[r].at = req[r].at /\ req'[r].pieces = req[r].pieces
          /\ doc' = doc /\ rows' = rows
      BY <1>3 DEF Leave, TypeInv, TypeOK, Request
    <2> QED
      BY <1>1, <2>1 DEF Settled, RowsOf, Ids, Texts, Id
  <1>4. CASE ~Leave(r)
    <2>1. ASSUME \/ req'[r].at \in {"insert", "archive", "uncount"}
                 \/ req'[r].at = "over" /\ req[r].kind = "delete"
          PROVE  {x \in rows' : x.doc = d} = {}
      <3>1. CASE req[r].at = "clear"
        <4>1. rows' = rows \ RowsOf(d)
          BY <1>4, <3>1, MoveIs, ClearDone
        <4> QED
          BY <4>1 DEF RowsOf
      <3>2. CASE req[r].at # "clear"
        <4>1. req[r].at \in {"insert", "archive", "uncount"}
          BY <1>1, <2>1, <3>2 DEF Onward, Follows, Under, TypeInv, RequestInv
        <4>2. RowsOf(d) = {}
          BY <4>1 DEF Settled
        <4>3. rows' = rows \/ req[r].at = "insert"
          BY <4>1, MoveRows
        <4>4. CASE req[r].at = "insert"
          <5>1. Insert(r) /\ req[r].kind = "index"
            BY <1>1, <1>4, <4>4, MoveIs DEF TypeInv, RequestInv
          <5>2. req'[r].at = "insert"
            BY <1>1, <2>1, <4>4, <5>1 DEF Onward, Follows
          <5>3. ~Go(r, "meta") /\ ~Go(r, "upsert") /\ ~GoWrong(r, "fail", "insert")
            BY <5>2, Moves DEF TypeInv, Steps, Flaws, Moved
          <5> QED
            BY <5>1, <5>3 DEF Insert
        <4> QED
          BY <4>2, <4>3, <4>4 DEF RowsOf
      <3> QED
        BY <3>1, <3>2
    <2>2. ASSUME req[r].kind = "index", req'[r].at \in Written \cup {"over"}
          PROVE  /\ {Id(x) : x \in {y \in rows' : y.doc = d}} = Texts(r)
                 /\ req'[r].pieces = req[r].pieces
      <3>1. req[r].at \in {"insert"} \cup Written
        BY <1>1, <2>2 DEF Onward, Follows, Under, Written, TypeInv, RequestInv
      <3>2. req'[r].pieces = req[r].pieces
        BY <1>1, <3>1 DEF Onward, Written
      <3>3. CASE req[r].at = "insert"
        <4>1. rows' = rows \cup New(r)
          <5>1. req'[r].at \in Written
            BY <1>1, <2>2, <3>3 DEF Onward, Follows, Written
          <5> QED
            BY <1>4, <3>3, <5>1, MoveIs, InsertDone
        <4>2. RowsOf(d) = {}
          BY <3>3 DEF Settled
        <4>3. \A x \in New(r) : x.doc = d
          BY NewRow
        <4>4. {y \in rows' : y.doc = d} = New(r)
          BY <4>1, <4>2, <4>3 DEF RowsOf
        <4> QED
          BY <3>2, <4>4, NewIds
      <3>4. CASE req[r].at \in Written
        <4>1. Ids(d) = Texts(r)
          BY <2>2, <3>4 DEF Settled
        <4>2. rows' = rows \/ \E S \in SUBSET Mine(r) : rows' = (rows \ S) \cup Told(S)
          BY <3>4, MoveRows DEF Written
        <4>3. CASE rows' = rows
          BY <3>2, <4>1, <4>3 DEF Ids, RowsOf
        <4>4. ASSUME NEW S \in SUBSET Mine(r), rows' = (rows \ S) \cup Told(S)
              PROVE  {Id(x) : x \in {y \in rows' : y.doc = d}} = Texts(r)
          <5>1. S \in SUBSET rows
            BY DEF Mine
          <5> QED
            BY <1>2, <4>1, <4>4, <5>1, ToldIds
        <4> QED
          BY <3>2, <4>2, <4>3, <4>4
      <3> QED
        BY <3>1, <3>3, <3>4
    <2>3. ASSUME req[r].kind = "index", req'[r].at \in {"count", "ready", "over"}
          PROVE  doc'[d] = [status |-> "ready", chunks |-> req[r].pieces]
      <3>1. req[r].at \in {"meta", "count", "ready"}
        BY <1>1, <2>3 DEF Onward, Follows, Under, TypeInv, RequestInv
      <3>2. CASE req[r].at = "meta"
        BY <1>1, <1>2, <1>4, <3>2, MoveIs, MetaDone
      <3>3. CASE req[r].at = "count"
        BY <2>3, <3>3, MoveDoc DEF Settled
      <3>4. CASE req[r].at = "ready"
        <4>1. SetStatus(d, "ready")
          BY <1>4, <3>4, MoveIs, ReadyDone
        <4>2. doc[d] = [status |-> "ready", chunks |-> req[r].pieces]
          BY <2>3, <3>4 DEF Settled
        <4> QED
          BY <1>1, <1>2, <4>1, <4>2 DEF SetStatus
      <3> QED
        BY <3>1, <3>2, <3>3, <3>4
    <2>4. ASSUME req[r].kind = "delete", req'[r].at \in {"uncount", "over"}
          PROVE  doc'[d].status = "archived"
      <3>1. req[r].at \in {"archive", "uncount"}
        BY <1>1, <2>4 DEF Onward, Follows, Under, TypeInv, RequestInv
      <3>2. CASE req[r].at = "archive"
        <4>1. SetStatus(d, "archived")
          BY <1>4, <3>2, MoveIs, ArchiveDone
        <4> QED
          BY <1>1, <1>2, <4>1 DEF SetStatus
      <3>3. CASE req[r].at = "uncount"
        BY <2>4, <3>3, MoveDoc DEF Settled
      <3> QED
        BY <3>1, <3>2, <3>3
    <2> HIDE DEF d
    <2>5. req'[r].on = d
      BY <1>1
    <2>6. /\ RowsOf(req[r].on)' = {x \in rows' : x.doc = d}
          /\ Ids(req[r].on)' = {Id(x) : x \in {y \in rows' : y.doc = d}}
      BY <2>5 DEF RowsOf, Ids, Id
    <2>7. req'[r].pieces = req[r].pieces => Texts(r)' = Texts(r)
      BY DEF Texts
    <2>8. req'[r].at \in {"count", "ready", "over"} /\ req[r].kind = "index" =>
             req'[r].pieces = req[r].pieces
      BY <2>2 DEF Written
    <2> QED
      BY <1>1, <2>1, <2>2, <2>3, <2>4, <2>5, <2>6, <2>7, <2>8 DEF Settled
  <1> QED
    BY <1>3, <1>4

LEMMA LastMove ==
    ASSUME TypeInv, MeetInv, RowInv, LastInv, NEW r \in Requests, Move(r)
    PROVE  LastInv'
  <1>1. /\ Onward(r) /\ req[r].on \in Docs /\ req'[r].on = req[r].on /\ Under(r)
    BY MoveOnward DEF Onward, Under, TypeInv, RequestInv
  <1>2. ASSUME NEW q \in Requests, req'[q].on \in Docs, last'[req'[q].on] = q, Quiet(q)'
        PROVE  Settled(q)'
    <2>1. req'[q].on = req[q].on /\ last[req[q].on] = q /\ Quiet(q)
      BY <1>1, <1>2 DEF Onward, Quiet
    <2>2. Settled(q)
      BY <1>2, <2>1 DEF LastInv
    <2>3. CASE q = r
      <3>1. "call" \notin req'[r].wrong
        BY <1>2, <2>3 DEF Quiet
      <3> QED
        BY <2>2, <2>3, <3>1, SettledMove
    <2>4. CASE q # r
      <3>1. req[q].on # req[r].on
        BY <1>1, <2>1, <2>4 DEF MeetInv, Quiet
      <3>2. req'[q] = req[q]
        BY <1>1, <2>4 DEF Onward
      <3>3. doc'[req[q].on] = doc[req[q].on]
        BY <1>2, <2>1, <3>1, MoveDoc
      <3>4. {x \in rows' : x.doc = req[q].on} = {x \in rows : x.doc = req[q].on}
        BY <1>2, <2>1, <3>1, OtherRows
      <3>5. RowsOf(req[q].on)' = RowsOf(req[q].on)
        BY <3>2, <3>4 DEF RowsOf
      <3>6. Ids(req[q].on)' = Ids(req[q].on) /\ Texts(q)' = Texts(q)
        BY <3>2, <3>5 DEF Ids, Texts, Id
      <3> QED
        BY <2>2, <3>2, <3>3, <3>5, <3>6 DEF Settled
    <2> QED
      BY <2>3, <2>4
  <1> QED
    BY <1>2 DEF LastInv

LEMMA LastStutter == LastInv /\ UNCHANGED vars => LastInv'
  <1> SUFFICES ASSUME LastInv, UNCHANGED vars, NEW r \in Requests PROVE LastInv'
    BY DEF LastInv
  <1>1. doc' = doc /\ rows' = rows /\ req' = req /\ last' = last
    BY DEF vars
  <1>2. \A q : Ids(q)' = Ids(q) /\ RowsOf(q)' = RowsOf(q) /\ Texts(q)' = Texts(q)
    BY <1>1 DEF Ids, RowsOf, Id, Texts
  <1>3. \A q \in Requests : (Settled(q) => Settled(q)') /\ (Quiet(q)' => Quiet(q))
    BY <1>1, <1>2 DEF Settled, Quiet, Ids, RowsOf, Id, Texts
  <1> QED
    BY <1>1, <1>3 DEF LastInv

\* The last request for a document has its full effect if its own calls worked
\* and it met no other, whatever went wrong before and however many other
\* documents and requests there are.
THEOREM KBLastRequestWins == Spec => []LastRequestWins
  <1>1. Init => CoreInv /\ LastInv
    <2>1. Init => LastInv
      BY KBAssumption DEF Init, LastInv, Idle
    <2> QED
      BY <2>1, CoreInit
  <1>2. CoreInv /\ LastInv /\ [Next]_vars => CoreInv' /\ LastInv'
    <2> SUFFICES ASSUME CoreInv, LastInv, [Next]_vars PROVE CoreInv' /\ LastInv'
      OBVIOUS
    <2>1. CoreInv'
      BY CoreNext
    <2>2. CASE UNCHANGED vars
      BY <2>1, <2>2, LastStutter
    <2>3. CASE Next
      BY <2>1, <2>3, NextShape, LastStart, LastMove DEF CoreInv
    <2> QED
      BY <2>2, <2>3
  <1>3. CoreInv /\ LastInv => LastRequestWins
    <2> SUFFICES ASSUME CoreInv, LastInv, NEW d \in Docs, NEW r \in Requests, last[d] = r,
                        req[r].at = "over", req[r].wrong \cap {"call", "met"} = {}
                 PROVE  IF req[r].kind = "delete"
                        THEN doc[d].status = "archived" /\ RowsOf(d) = {}
                        ELSE /\ doc[d] = [status |-> "ready", chunks |-> req[r].pieces]
                             /\ {Id(row) : row \in RowsOf(d)} = [by : {r}, id : 0 .. req[r].pieces - 1]
      BY DEF LastRequestWins
    <2>1. req[r].on = d /\ req[r].kind \in {"index", "delete"}
      BY KBAssumption DEF CoreInv, MeetInv, TypeInv, TypeOK, Request
    <2>2. Settled(r)
      BY <2>1 DEF LastInv, Quiet
    <2> QED
      BY <2>1, <2>2 DEF Settled, Ids, Texts
  <1> QED
    BY <1>1, <1>2, <1>3, PTL DEF Spec

(***************************************************************************)
(* Vectors and their rows.                                                 *)
(***************************************************************************)
\* Nothing went wrong around v: no call for its document failed, and the
\* request that made it met none.
Sound(v) == Unharmed(req[v.by].on) /\ "met" \notin req[v.by].wrong

VectorId(v) == [by |-> v.by, id |-> v.id]
RowOf(v) == [doc |-> req[v.by].on, by |-> v.by, idx |-> v.id, vid |-> TRUE]

\* Until they are told, all rows of a request are there and know of no vector,
\* and the vectors are filed under the first of them.
FiledInv ==
    /\ \A v \in vecs : req[v.by].at = "persist" => v.id < Cardinality(req[v.by].embedded)
    /\ \A r \in Requests : Quiet(r) /\ req[r].at \in {"upsert", "persist"} =>
          \A i \in 0 .. req[r].pieces - 1 :
             [doc |-> req[r].on, by |-> r, idx |-> i, vid |-> FALSE] \in rows

\* A document that was indexed has chunks, which is how the next request knows
\* that there is something to clean up.
ChunksInv ==
    \A r \in Requests :
        /\ req[r].kind = "index" /\ "call" \notin req[r].wrong
        /\ req[r].at \in {"count", "ready", "over"}
        => doc[req[r].on].chunks > 0

\* A vector has its row.  A request that comes later has it on its list
\* before it purges, and has purged it before it clears the rows.
StrayInv ==
    \A v \in vecs : Sound(v) =>
        /\ req[v.by].at # "persist" => RowOf(v) \in rows
        /\ \A q \in Requests \ {v.by} : req[q].on = req[v.by].on =>
              /\ req[q].at = "purge" => VectorId(v) \in req[q].old
              /\ req[q].at # "clear"
              /\ ~(req[q].kind = "index" /\ req[q].at \in {"mark", "cut"} /\ req[q].had = 0)

LEMMA ListDone ==
    ASSUME TypeInv, NEW r \in Requests, ListOld(r), "call" \notin req'[r].wrong
    PROVE  /\ req'[r].at = "purge"
           /\ req'[r].old = {Id(x) : x \in {y \in RowsOf(req[r].on) : y.vid}}
  <1>1. ~GoWrong(r, "clear", "call")
    BY FailsMarked DEF Steps
  <1> DEFINE old == {Id(x) : x \in {y \in RowsOf(req[r].on) : y.vid}}
  <1>2. req' = [req EXCEPT ![r].at = "purge", ![r].old = old]
    BY <1>1 DEF ListOld
  <1> HIDE DEF old
  <1>3. req'[r].at = "purge" /\ req'[r].old = old
    BY <1>2 DEF TypeInv, TypeOK, Request
  <1> QED
    BY <1>3 DEF old

LEMMA LoadDone ==
    ASSUME TypeInv, NEW r \in Requests, Load(r), "call" \notin req'[r].wrong
    PROVE  req'[r].at = "mark" /\ req'[r].had = doc[req[r].on].chunks
  <1>1. ~GoWrong(r, "failed", "call")
    BY FailsMarked DEF Steps
  <1>2. req' = [req EXCEPT ![r].had = doc[req[r].on].chunks, ![r].at = "mark"]
    BY <1>1 DEF Load
  <1> QED
    BY <1>2 DEF TypeInv, TypeOK, Request

LEMMA MarkDone ==
    ASSUME TypeInv, NEW r \in Requests, Mark(r), "call" \notin req'[r].wrong
    PROVE  SetStatus(req[r].on, "indexing") /\ req'[r].at = "cut" /\ req'[r].had = req[r].had
  <1>1. ~GoWrong(r, "failed", "call")
    BY FailsMarked DEF Steps
  <1>2. Go(r, "cut")
    BY <1>1 DEF Mark
  <1>3. Moved(r, "cut", {})
    BY <1>2, Moves DEF TypeInv, Steps
  <1> QED
    BY <1>1, <1>3 DEF Mark, Moved

LEMMA CutDone ==
    ASSUME TypeInv, NEW r \in Requests, Cut(r) \/ Unreadable(r)
    PROVE  /\ req'[r].at = "clear" => req[r].had = 0
           /\ req'[r].at # "fail" => req'[r].had = req[r].had
           /\ req'[r].wrong = req[r].wrong
  <1>1. CASE Unreadable(r)
    <2>1. Moved(r, "fail", {})
      BY <1>1, Moves DEF Unreadable, TypeInv, Steps
    <2> QED
      BY <2>1 DEF Moved
  <1>2. CASE Cut(r)
    <2>1. PICK n \in 1 .. MaxPieces : \E embedded \in SUBSET (0 .. n - 1) :
             req' = [req EXCEPT ![r].pieces = n, ![r].embedded = embedded,
                                ![r].at = IF req[r].had > 0 THEN "list" ELSE "clear"]
      BY <1>2 DEF Cut
    <2>2. PICK embedded \in SUBSET (0 .. n - 1) :
             req' = [req EXCEPT ![r].pieces = n, ![r].embedded = embedded,
                                ![r].at = IF req[r].had > 0 THEN "list" ELSE "clear"]
      BY <2>1
    <2>3. /\ req'[r].at = (IF req[r].had > 0 THEN "list" ELSE "clear")
          /\ req'[r].had = req[r].had /\ req'[r].wrong = req[r].wrong
          /\ req[r].had \in Nat
      BY <2>2 DEF TypeInv, TypeOK, Request
    <2> QED
      BY <2>3
  <1> QED
    BY <1>1, <1>2

\* A client that leaves changes nothing else.
LEMMA LeaveKeeps ==
    ASSUME TypeInv, NEW r \in Requests, Leave(r)
    PROVE  /\ doc' = doc /\ rows' = rows /\ vecs' = vecs /\ base' = base
           /\ \A q \in Requests :
                 /\ req'[q].on = req[q].on /\ req'[q].kind = req[q].kind
                 /\ req'[q].at = req[q].at /\ req'[q].had = req[q].had
                 /\ req'[q].pieces = req[q].pieces /\ req'[q].embedded = req[q].embedded
                 /\ req'[q].old = req[q].old /\ req'[q].wrong = req[q].wrong
  BY DEF Leave, TypeInv, TypeOK, Request

LEMMA VectorType ==
    ASSUME TypeInv, NEW v \in vecs
    PROVE  v.by \in Requests /\ v.id \in Nat
  BY DEF TypeInv, TypeOK, Vector

LEMMA FiledStart ==
    ASSUME CoreInv, FiledInv, NEW r \in Requests, NEW d \in Docs,
           AddDoc(r, d) \/ ReindexDoc(r, d) \/ DeleteDoc(r, d)
    PROVE  FiledInv'
  <1>1. PICK kind \in {"index", "delete"}, step \in Steps, odd \in BOOLEAN :
           /\ Begun(r, d, kind, step, odd)
           /\ <<kind, step>> \in {<<"index", "load">>, <<"delete", "tally">>}
    BY StartShape DEF CoreInv
  <1>2. rows' = rows /\ vecs' = vecs
    BY <1>1 DEF Begun
  <1>3. ASSUME NEW v \in vecs, req'[v.by].at = "persist"
        PROVE  v.id < Cardinality(req'[v.by].embedded)
    <2>1. v.by \in Requests /\ v.by # r
      BY <1>1, VectorType DEF CoreInv, VecInv, Begun
    <2> QED
      BY <1>1, <1>3, <2>1 DEF Begun, FiledInv
  <1>4. ASSUME NEW q \in Requests, Quiet(q)', req'[q].at \in {"upsert", "persist"},
               NEW i \in 0 .. req'[q].pieces - 1
        PROVE  [doc |-> req'[q].on, by |-> q, idx |-> i, vid |-> FALSE] \in rows
    <2>1. q # r
      BY <1>1, <1>4 DEF Begun
    <2>2. /\ req'[q].on = req[q].on /\ req'[q].at = req[q].at /\ req'[q].pieces = req[q].pieces
          /\ Quiet(q)
      BY <1>1, <1>4, <2>1 DEF Begun, Quiet
    <2> QED
      BY <1>4, <2>2 DEF FiledInv
  <1> QED
    BY <1>2, <1>3, <1>4 DEF FiledInv

LEMMA FiledMove ==
    ASSUME CoreInv, FiledInv, NEW r \in Requests, Move(r)
    PROVE  FiledInv'
  <1> USE DEF CoreInv
  <1>1. /\ Onward(r) /\ req[r].on \in Docs /\ req'[r].on = req[r].on /\ Under(r)
        /\ req[r].kind \in {"index", "delete"} /\ req'[r].kind = req[r].kind
    BY MoveOnward DEF Onward, Under, TypeInv, RequestInv, TypeOK, Request
  <1>2. CASE Leave(r)
    BY <1>2, LeaveKeeps, VectorType DEF FiledInv, Quiet
  <1>3. CASE ~Leave(r)
    <2>1. ASSUME NEW v \in vecs', req'[v.by].at = "persist"
          PROVE  v.id < Cardinality(req'[v.by].embedded)
      <3>1. CASE v \in vecs /\ v.by # r
        <4>1. req'[v.by] = req[v.by]
          BY <1>1, <3>1, VectorType DEF Onward
        <4> QED
          BY <2>1, <3>1, <4>1 DEF FiledInv
      <3>2. CASE v \in vecs /\ v.by = r
        <4>1. req[r].at \notin {"upsert", "persist"}
          <5>1. ~PersistVectorIDs(r) \/ req'[r].at # "persist"
            <6>1. ASSUME PersistVectorIDs(r) PROVE req'[r].at = "meta"
              BY <6>1, Moves DEF PersistVectorIDs, TypeInv, Steps, Flaws, Moved
            <6> QED
              BY <6>1
          <5> QED
            BY <1>3, <2>1, <3>2, <5>1, MoveIs DEF VecInv
        <4> QED
          BY <1>1, <2>1, <3>2, <4>1 DEF Onward, Follows, Under
      <3>3. CASE v \notin vecs
        <4>1. req[r].at = "upsert" /\ v \in Filed(r) /\ req'[r].at = "persist"
          BY <3>3, MoveVecs
        <4>2. v.by = r /\ v.id < Cardinality(req[r].embedded)
          BY <4>1, FiledFirst
        <4>3. req'[r].embedded = req[r].embedded
          BY <1>1, <4>1 DEF Onward
        <4> QED
          BY <4>2, <4>3
      <3> QED
        BY <3>1, <3>2, <3>3
    <2>2. ASSUME NEW q \in Requests, Quiet(q)', req'[q].at \in {"upsert", "persist"},
                 NEW i \in 0 .. req'[q].pieces - 1
          PROVE  [doc |-> req'[q].on, by |-> q, idx |-> i, vid |-> FALSE] \in rows'
      <3>1. CASE q = r
        <4>1. req[r].at \in {"insert", "upsert", "persist"}
          BY <1>1, <2>2, <3>1 DEF Onward, Follows, Under
        <4>2. req'[r].pieces = req[r].pieces
          BY <1>1, <4>1 DEF Onward
        <4>3. CASE req[r].at = "insert"
          <5>1. rows' = rows \cup New(r)
            BY <1>3, <2>2, <3>1, <4>3, MoveIs, InsertDone DEF Written
          <5>2. [doc |-> req[r].on, by |-> r, idx |-> i, vid |-> FALSE] \in New(r)
            BY <2>2, <3>1, <4>2 DEF New
          <5> QED
            BY <1>1, <3>1, <5>1, <5>2
        <4>4. CASE req[r].at = "upsert"
          <5>1. rows' = rows
            BY <4>4, MoveRows
          <5>2. Quiet(r)
            BY <1>1, <2>2, <3>1 DEF Onward, Quiet
          <5> QED
            BY <1>1, <2>2, <3>1, <4>2, <4>4, <5>1, <5>2 DEF FiledInv
        <4>5. CASE req[r].at = "persist"
          <5>1. PersistVectorIDs(r)
            BY <1>3, <4>5, MoveIs
          <5>2. req'[r].at = "meta"
            BY <5>1, Moves DEF PersistVectorIDs, TypeInv, Steps, Flaws, Moved
          <5> QED
            BY <2>2, <3>1, <5>2
        <4> QED
          BY <4>1, <4>3, <4>4, <4>5
      <3>2. CASE q # r
        <4>1. req'[q] = req[q] /\ Quiet(q)
          BY <1>1, <2>2, <3>2 DEF Onward, Quiet
        <4>2. Under(q) /\ req[q].on \in Docs
          BY <2>2, <4>1 DEF Under, TypeInv, RequestInv
        <4>3. req[q].on # req[r].on
          BY <1>1, <3>2, <4>1, <4>2 DEF MeetInv, Quiet
        <4>4. {x \in rows' : x.doc = req[q].on} = {x \in rows : x.doc = req[q].on}
          BY <4>2, <4>3, OtherRows
        <4> DEFINE x == [doc |-> req[q].on, by |-> q, idx |-> i, vid |-> FALSE]
        <4>5. x \in rows /\ x.doc = req[q].on
          BY <2>2, <4>1 DEF FiledInv
        <4> HIDE DEF x
        <4>6. x \in rows'
          BY <4>4, <4>5
        <4> QED
          BY <4>1, <4>6 DEF x
      <3> QED
        BY <3>1, <3>2
    <2> QED
      BY <2>1, <2>2 DEF FiledInv
  <1> QED
    BY <1>2, <1>3

LEMMA ChunksStart ==
    ASSUME CoreInv, ChunksInv, NEW r \in Requests, NEW d \in Docs,
           AddDoc(r, d) \/ ReindexDoc(r, d) \/ DeleteDoc(r, d)
    PROVE  ChunksInv'
  <1>1. PICK kind \in {"index", "delete"}, step \in Steps, odd \in BOOLEAN :
           /\ Begun(r, d, kind, step, odd)
           /\ <<kind, step>> \in {<<"index", "load">>, <<"delete", "tally">>}
           /\ doc' = doc \/ (kind = "index" /\ SetStatus(d, "pending"))
    BY StartShape DEF CoreInv
  <1>2. \A e \in Docs : doc'[e].chunks = doc[e].chunks
    BY <1>1, StatusSet DEF CoreInv, TypeInv, Statuses
  <1>3. ASSUME NEW q \in Requests, req'[q].kind = "index", "call" \notin req'[q].wrong,
               req'[q].at \in {"count", "ready", "over"}
        PROVE  doc'[req'[q].on].chunks > 0
    <2>1. q # r
      BY <1>1, <1>3 DEF Begun
    <2>2. /\ req'[q].on = req[q].on /\ req[q].kind = "index" /\ "call" \notin req[q].wrong
          /\ req[q].at \in {"count", "ready", "over"}
      BY <1>1, <1>3, <2>1 DEF Begun
    <2>3. req[q].on \in Docs
      BY <2>2 DEF CoreInv, TypeInv, RequestInv
    <2> QED
      BY <1>2, <2>2, <2>3 DEF ChunksInv
  <1> QED
    BY <1>3 DEF ChunksInv

LEMMA ChunksMove ==
    ASSUME CoreInv, ChunksInv, NEW r \in Requests, Move(r)
    PROVE  ChunksInv'
  <1> USE DEF CoreInv
  <1>1. /\ Onward(r) /\ req[r].on \in Docs /\ req'[r].on = req[r].on /\ Under(r)
        /\ req[r].kind \in {"index", "delete"} /\ req'[r].kind = req[r].kind
    BY MoveOnward DEF Onward, Under, TypeInv, RequestInv, TypeOK, Request
  <1>2. ASSUME NEW e \in Docs, doc[e].chunks > 0 PROVE doc'[e].chunks > 0
    <2>1. CASE req[r].at = "meta"
      <3>1. req[r].pieces \in 1 .. MaxPieces
        BY <1>1, <2>1 DEF TypeInv, RequestInv, Written
      <3>2. doc'[e].chunks \in {doc[e].chunks, req[r].pieces}
        BY MoveDoc
      <3> QED
        BY <1>2, <3>1, <3>2, KBAssumption
    <2>2. CASE req[r].at # "meta"
      BY <1>2, <2>2, MoveDoc
    <2> QED
      BY <2>1, <2>2
  <1>3. ASSUME NEW q \in Requests, req'[q].kind = "index", "call" \notin req'[q].wrong,
               req'[q].at \in {"count", "ready", "over"}
        PROVE  doc'[req'[q].on].chunks > 0
    <2>1. /\ req'[q].on = req[q].on /\ req[q].kind = "index" /\ "call" \notin req[q].wrong
          /\ q # r => req[q].at = req'[q].at
      BY <1>1, <1>3 DEF Onward
    <2>2. CASE req[q].at \in {"count", "ready", "over"}
      <3>1. req[q].on \in Docs
        BY <2>2 DEF TypeInv, RequestInv
      <3> QED
        BY <1>2, <2>1, <2>2, <3>1 DEF ChunksInv
    <2>3. CASE req[q].at \notin {"count", "ready", "over"}
      <3>1. q = r /\ req[r].at = "meta"
        BY <1>1, <1>3, <2>1, <2>3 DEF Onward, Follows, Under, TypeInv, RequestInv
      <3>2. UpdateMeta(r)
        BY <1>3, <3>1, MoveIs
      <3>3. doc' = [doc EXCEPT ![req[r].on] = [status |-> "ready", chunks |-> req[r].pieces]]
        BY <1>3, <3>1, <3>2, MetaDone
      <3>4. req[r].pieces \in 1 .. MaxPieces /\ doc'[req[r].on].chunks = req[r].pieces
        BY <1>1, <2>1, <3>1, <3>3 DEF TypeInv, RequestInv, Written, TypeOK
      <3> QED
        BY <1>1, <3>1, <3>4, KBAssumption
    <2> QED
      BY <2>2, <2>3
  <1> QED
    BY <1>3 DEF ChunksInv

LEMMA StrayStart ==
    ASSUME CoreInv, StrayInv, NEW r \in Requests, NEW d \in Docs,
           AddDoc(r, d) \/ ReindexDoc(r, d) \/ DeleteDoc(r, d)
    PROVE  StrayInv'
  <1>1. PICK kind \in {"index", "delete"}, step \in Steps, odd \in BOOLEAN :
           /\ Begun(r, d, kind, step, odd)
           /\ <<kind, step>> \in {<<"index", "load">>, <<"delete", "tally">>}
    BY StartShape DEF CoreInv
  <1>2. rows' = rows /\ vecs' = vecs /\ req[r].at = "idle" /\ req[r].wrong = {}
    BY <1>1 DEF Begun, CoreInv, TypeInv, RequestInv, Idle
  <1>3. ASSUME NEW v \in vecs, Sound(v)'
        PROVE  /\ req'[v.by].at # "persist" => RowOf(v)' \in rows
               /\ \A q \in Requests \ {v.by} : req'[q].on = req'[v.by].on =>
                     /\ req'[q].at = "purge" => VectorId(v)' \in req'[q].old
                     /\ req'[q].at # "clear"
                     /\ ~(req'[q].kind = "index" /\ req'[q].at \in {"mark", "cut"} /\ req'[q].had = 0)
    <2>1. v.by \in Requests /\ v.by # r
      BY <1>2, VectorType DEF CoreInv, VecInv
    <2>2. /\ req'[v.by].on = req[v.by].on /\ req'[v.by].at = req[v.by].at
          /\ req[v.by].wrong \subseteq req'[v.by].wrong
      BY <1>1, <2>1 DEF Begun
    <2>3. Sound(v)
      <3>1. ASSUME NEW q \in Requests, req[q].on = req[v.by].on, "call" \in req[q].wrong
            PROVE  FALSE
        <4>1. q # r /\ req'[q].on = req[q].on /\ "call" \in req'[q].wrong
          BY <1>1, <1>2, <3>1 DEF Begun
        <4> QED
          BY <1>3, <2>2, <3>1, <4>1 DEF Sound, Unharmed
      <3> QED
        BY <1>3, <2>2, <3>1 DEF Sound, Unharmed
    <2>4. RowOf(v)' = RowOf(v) /\ VectorId(v)' = VectorId(v)
      BY <2>2 DEF RowOf, VectorId
    <2>5. ASSUME NEW q \in Requests \ {v.by}, req'[q].on = req'[v.by].on
          PROVE  /\ req'[q].at = "purge" => VectorId(v) \in req'[q].old
                 /\ req'[q].at # "clear"
                 /\ ~(req'[q].kind = "index" /\ req'[q].at \in {"mark", "cut"} /\ req'[q].had = 0)
      <3>1. CASE q = r
        BY <1>1, <3>1 DEF Begun
      <3>2. CASE q # r
        <4>1. /\ req'[q].on = req[q].on /\ req'[q].at = req[q].at /\ req'[q].kind = req[q].kind
              /\ req'[q].had = req[q].had /\ req'[q].old = req[q].old
          BY <1>1, <3>2 DEF Begun
        <4> QED
          BY <2>2, <2>3, <2>5, <4>1 DEF StrayInv
      <3> QED
        BY <3>1, <3>2
    <2> QED
      BY <2>2, <2>3, <2>4, <2>5 DEF StrayInv
  <1> QED
    BY <1>2, <1>3 DEF StrayInv

\* A vector that was there, after a step of r.
LEMMA StrayKept ==
    ASSUME CoreInv, FiledInv, ChunksInv, StrayInv, NEW r \in Requests, Move(r), ~Leave(r),
           NEW v \in vecs, v \in vecs', Sound(v)'
    PROVE  /\ req'[v.by].at # "persist" => RowOf(v)' \in rows'
           /\ \A q \in Requests \ {v.by} : req'[q].on = req'[v.by].on =>
                 /\ req'[q].at = "purge" => VectorId(v)' \in req'[q].old
                 /\ req'[q].at # "clear"
                 /\ ~(req'[q].kind = "index" /\ req'[q].at \in {"mark", "cut"} /\ req'[q].had = 0)
  <1> USE DEF CoreInv
  <1> DEFINE p == v.by
             d == req[p].on
  <1>1. /\ Onward(r) /\ req[r].on \in Docs /\ req'[r].on = req[r].on /\ Under(r)
        /\ req[r].kind \in {"index", "delete"} /\ req'[r].kind = req[r].kind
        /\ req[r].wrong \subseteq req'[r].wrong /\ req[r].at \in Steps
    BY MoveOnward DEF Onward, Under, TypeInv, RequestInv, TypeOK, Request
  <1>2. p \in Requests /\ v.id \in Nat
    BY VectorType
  <1>3. /\ \A q \in Requests \ {r} : req'[q] = req[q]
        /\ \A q \in Requests : req'[q].on = req[q].on /\ req[q].wrong \subseteq req'[q].wrong
    BY <1>1 DEF Onward
  <1>4. Sound(v)
    <2>1. \A q \in Requests : req[q].on = d => "call" \notin req[q].wrong
      BY <1>2, <1>3 DEF Sound, Unharmed
    <2>2. "met" \notin req[p].wrong
      BY <1>2, <1>3 DEF Sound
    <2> QED
      BY <2>1, <2>2 DEF Sound, Unharmed
  <1>5. req[r].on = d => "call" \notin req'[r].wrong
    BY <1>2, <1>3 DEF Sound, Unharmed
  <1>6. /\ req[p].kind = "index" /\ req[p].at \in {"persist", "meta", "count", "ready", "over"}
        /\ d \in Docs
    BY <1>2 DEF VecInv, TypeInv, RequestInv
  <1>7. RowOf(v)' = RowOf(v) /\ VectorId(v)' = VectorId(v)
    BY <1>2, <1>3 DEF RowOf, VectorId
  <1>8. ASSUME req'[p].at # "persist" PROVE RowOf(v) \in rows'
    <2>1. CASE p = r /\ req[r].at = "persist"
      <3>1. PersistVectorIDs(r)
        BY <2>1, MoveIs
      <3>2. rows' = (rows \ Mine(r)) \cup Told(Mine(r))
        BY <1>5, <2>1, <3>1, PersistDone
      <3>3. /\ v.id < Cardinality(req[r].embedded) /\ Quiet(r)
            /\ req[r].pieces \in 1 .. MaxPieces /\ req[r].embedded \subseteq 0 .. req[r].pieces - 1
        BY <1>4, <1>6, <2>1 DEF FiledInv, Sound, Unharmed, Quiet, TypeInv, RequestInv, Written
      <3>4. Cardinality(req[r].embedded) \in Nat /\ Cardinality(req[r].embedded) <= req[r].pieces
        <4> DEFINE n == req[r].pieces
                   E == req[r].embedded
        <4> HIDE DEF n, E
        <4>1. n \in 1 .. MaxPieces /\ E \subseteq 0 .. n - 1
          BY <3>3 DEF n, E
        <4>2. 0 \in Int /\ n - 1 \in Int /\ ~(0 > n - 1) /\ n - 1 - 0 + 1 = n
          BY <4>1
        <4>3. IsFiniteSet(0 .. n - 1) /\ Cardinality(0 .. n - 1) = n
          BY <4>2, FS_Interval
        <4>4. IsFiniteSet(E) /\ Cardinality(E) <= n /\ Cardinality(E) \in Nat
          BY <4>1, <4>3, FS_Subset, FS_CardinalityType
        <4> QED
          BY <4>4 DEF n, E
      <3>5. v.id \in 0 .. req[r].pieces - 1
        BY <1>2, <3>3, <3>4
      <3> DEFINE x == [doc |-> req[r].on, by |-> r, idx |-> v.id, vid |-> FALSE]
      <3>6. x \in rows
        BY <2>1, <3>3, <3>5 DEF FiledInv
      <3>7. x \in Mine(r)
        BY <3>3, <3>6 DEF Mine
      <3>8. [x EXCEPT !.vid = TRUE] \in Told(Mine(r))
        BY <3>7 DEF Told
      <3>9. RowOf(v) = [x EXCEPT !.vid = TRUE]
        <4>1. RowOf(v).doc = x.doc /\ RowOf(v).by = x.by /\ RowOf(v).idx = x.idx /\ RowOf(v).vid = TRUE
          BY <2>1 DEF RowOf
        <4>2. RowOf(v) \in Row
          BY <1>1, <1>2, <2>1 DEF RowOf, Row
        <4> HIDE DEF x
        <4>3. x \in Row
          BY <3>6 DEF TypeInv, TypeOK
        <4> QED
          BY <4>1, <4>2, <4>3 DEF Row
      <3> QED
        BY <3>2, <3>8, <3>9
    <2>2. CASE p # r \/ req[r].at # "persist"
      <3>1. req[p].at # "persist" /\ RowOf(v) \in rows
        <4>1. req[p].at # "persist"
          BY <1>2, <1>3, <1>8, <2>2
        <4> QED
          BY <1>4, <4>1 DEF StrayInv
      <3> DEFINE x == RowOf(v)
      <3>2. x.doc = d /\ x.by = p /\ x \in rows
        BY <3>1 DEF RowOf
      <3> HIDE DEF x
      <3>3. CASE req[r].at = "clear" /\ rows' = rows \ RowsOf(req[r].on)
        <4>1. req[r].on # d
          BY <1>2, <1>4, <1>6, <3>3 DEF StrayInv
        <4>2. x \in rows'
          BY <3>2, <3>3, <4>1 DEF RowsOf
        <4> QED
          BY <4>2 DEF x
      <3>4. CASE rows \subseteq rows'
        BY <3>1, <3>4
      <3>5. ASSUME NEW S \in SUBSET Mine(r), rows' = (rows \ S) \cup Told(S),
                   req[r].at = "persist"
            PROVE  RowOf(v) \in rows'
        <4>1. x \notin S
          BY <2>2, <3>2, <3>5 DEF Mine
        <4>2. x \in rows'
          BY <3>2, <3>5, <4>1
        <4> QED
          BY <4>2 DEF x
      <3> QED
        BY <3>3, <3>4, <3>5, MoveRows
    <2> QED
      BY <2>1, <2>2
  <1>9. ASSUME NEW q \in Requests \ {p}, req'[q].on = req'[p].on
        PROVE  /\ req'[q].at = "purge" => VectorId(v) \in req'[q].old
               /\ req'[q].at # "clear"
               /\ ~(req'[q].kind = "index" /\ req'[q].at \in {"mark", "cut"} /\ req'[q].had = 0)
    <2>1. req[q].on = d
      BY <1>2, <1>3, <1>9
    <2>2. /\ req[q].at = "purge" => VectorId(v) \in req[q].old
          /\ req[q].at # "clear"
          /\ ~(req[q].kind = "index" /\ req[q].at \in {"mark", "cut"} /\ req[q].had = 0)
      BY <1>4, <2>1 DEF StrayInv
    <2>3. CASE q # r
      <3>1. req'[q] = req[q]
        BY <1>3, <2>3
      <3> QED
        BY <2>2, <3>1
    <2>4. CASE q = r
      <3>1. "call" \notin req'[r].wrong
        BY <1>5, <2>1, <2>4
      <3>2. ~Under(p) /\ req[p].at = "over"
        BY <1>1, <1>2, <1>4, <1>6, <1>9, <2>1, <2>4 DEF MeetInv, Sound, Under
      <3>3. RowOf(v) \in rows
        BY <1>4, <3>2 DEF StrayInv
      <3>4. ASSUME req'[r].at = "purge" PROVE VectorId(v) \in req'[r].old
        <4>1. req[r].at = "list" \/ req[r].at = "purge"
          BY <1>1, <3>4 DEF Onward, Follows
        <4>2. CASE req[r].at = "list"
          <5>1. req'[r].old = {Id(x) : x \in {y \in RowsOf(req[r].on) : y.vid}}
            BY <3>1, <4>2, MoveIs, ListDone
          <5>2. RowOf(v).doc = d /\ RowOf(v).vid /\ Id(RowOf(v)) = VectorId(v)
            BY DEF RowOf, Id, VectorId
          <5>3. RowOf(v) \in {y \in RowsOf(req[r].on) : y.vid}
            BY <2>1, <2>4, <3>3, <5>2 DEF RowsOf
          <5> QED
            BY <5>1, <5>2, <5>3
        <4>3. CASE req[r].at = "purge"
          <5>1. Purge(r)
            BY <4>3, MoveIs
          <5>2. req'[r].at = "clear"
            BY <5>1, Moves DEF Purge, TypeInv, Steps, Flaws, Moved
          <5> QED
            BY <3>4, <5>2
        <4> QED
          BY <4>1, <4>2, <4>3
      <3>5. ASSUME req'[r].at = "clear" PROVE FALSE
        <4>1. req[r].at \in {"cut", "list", "purge"}
          BY <1>1, <2>2, <2>4, <3>5 DEF Onward, Follows
        <4>2. CASE req[r].at = "cut"
          <5>1. Cut(r) \/ Unreadable(r)
            BY <4>2, MoveIs
          <5>2. req[r].had = 0 /\ req[r].kind = "index"
            BY <1>1, <3>5, <4>2, <5>1, CutDone DEF TypeInv, RequestInv
          <5> QED
            BY <2>2, <2>4, <4>2, <5>2
        <4>3. CASE req[r].at = "list"
          BY <3>1, <3>5, <4>3, MoveIs, ListDone
        <4>4. CASE req[r].at = "purge"
          <5>1. vecs' = {w \in vecs : VectorId(w) \notin req[r].old}
            BY <3>1, <3>5, <4>4, MoveVecs DEF VectorId
          <5> QED
            BY <2>2, <2>4, <4>4, <5>1
        <4> QED
          BY <4>1, <4>2, <4>3, <4>4
      <3>6. ASSUME req'[r].kind = "index", req'[r].at \in {"mark", "cut"}, req'[r].had = 0
            PROVE  FALSE
        <4>1. req[r].at \in {"load", "mark", "cut"}
          BY <1>1, <3>6 DEF Onward, Follows
        <4>2. CASE req[r].at = "load"
          <5>1. req'[r].had = doc[req[r].on].chunks
            BY <3>1, <4>2, MoveIs, LoadDone
          <5>2. doc[d].chunks > 0
            BY <1>2, <1>4, <1>6, <3>2 DEF ChunksInv, Sound, Unharmed
          <5> QED
            BY <2>1, <2>4, <3>6, <5>1, <5>2
        <4>3. CASE req[r].at = "mark"
          <5>1. req'[r].had = req[r].had
            BY <3>1, <4>3, MoveIs, MarkDone
          <5> QED
            BY <1>1, <2>2, <2>4, <3>6, <4>3, <5>1
        <4>4. CASE req[r].at = "cut"
          <5>1. req'[r].had = req[r].had
            BY <3>6, <4>4, MoveIs, CutDone
          <5> QED
            BY <1>1, <2>2, <2>4, <3>6, <4>4, <5>1
        <4> QED
          BY <4>1, <4>2, <4>3, <4>4
      <3> QED
        BY <2>4, <3>4, <3>5, <3>6
    <2> QED
      BY <2>3, <2>4
  <1> QED
    BY <1>7, <1>8, <1>9

LEMMA StrayMove ==
    ASSUME CoreInv, FiledInv, ChunksInv, StrayInv, NEW r \in Requests, Move(r)
    PROVE  StrayInv'
  <1> USE DEF CoreInv
  <1>1. CASE Leave(r)
    <2>1. \A v \in vecs : /\ Sound(v)' <=> Sound(v)
                          /\ RowOf(v)' = RowOf(v) /\ VectorId(v)' = VectorId(v)
      <3>1. \A q \in Requests : req'[q].on = req[q].on /\ req'[q].wrong = req[q].wrong
        BY <1>1, LeaveKeeps
      <3>2. \A v \in vecs : Sound(v)' <=> Sound(v)
        BY <3>1, VectorType DEF Sound, Unharmed
      <3>3. \A v \in vecs : RowOf(v)' = RowOf(v) /\ VectorId(v)' = VectorId(v)
        BY <3>1, VectorType DEF RowOf, VectorId
      <3> QED
        BY <3>2, <3>3
    <2> QED
      BY <1>1, <2>1, LeaveKeeps, VectorType DEF StrayInv
  <1>2. CASE ~Leave(r)
    <2>1. ASSUME NEW v \in vecs', v \notin vecs, Sound(v)'
          PROVE  /\ req'[v.by].at = "persist"
                 /\ \A q \in Requests \ {v.by} : req'[q].on = req'[v.by].on => ~Under(q)'
      <3>1. req[r].at = "upsert" /\ v \in Filed(r) /\ req'[r].at = "persist"
        BY <2>1, MoveVecs
      <3>2. v.by = r
        BY <3>1, FiledFirst
      <3>3. Onward(r) /\ Under(r) /\ "met" \notin req[r].wrong /\ req'[r].on = req[r].on
        BY <2>1, <3>2, MoveOnward DEF Onward, Sound
      <3>4. ASSUME NEW q \in Requests \ {r}, req'[q].on = req'[r].on, Under(q)' PROVE FALSE
        <4>1. req'[q] = req[q]
          BY <3>3 DEF Onward
        <4>2. Under(q) /\ req[q].on = req[r].on
          BY <3>3, <3>4, <4>1 DEF Under
        <4> QED
          BY <3>3, <4>2 DEF MeetInv
      <3> QED
        BY <3>1, <3>2, <3>4
    <2>2. ASSUME NEW v \in vecs', v \notin vecs, Sound(v)', NEW q \in Requests \ {v.by},
                 req'[q].on = req'[v.by].on
          PROVE  req'[q].at \notin {"purge", "clear", "mark", "cut"}
      <3>1. ~Under(q)'
        BY <2>1, <2>2
      <3> QED
        BY <3>1 DEF Under
    <2> QED
      BY <1>2, <2>1, <2>2, StrayKept DEF StrayInv
  <1> QED
    BY <1>1, <1>2

\* Between requests every vector is filed under a row that is there and knows
\* of it, unless a call for its document failed or its own request met
\* another.
THEOREM KBNoStrayVector == Spec => []NoStrayVector
  <1> DEFINE Inv == CoreInv /\ FiledInv /\ ChunksInv /\ StrayInv
  <1>1. Init => Inv
    <2> SUFFICES ASSUME Init PROVE Inv
      OBVIOUS
    <2>1. CoreInv
      BY CoreInit
    <2>2. FiledInv /\ ChunksInv /\ StrayInv
      BY DEF Init, FiledInv, ChunksInv, StrayInv, Idle
    <2> QED
      BY <2>1, <2>2
  <1>2. Inv /\ [Next]_vars => Inv'
    <2> SUFFICES ASSUME Inv, [Next]_vars PROVE Inv'
      OBVIOUS
    <2>1. CoreInv'
      BY CoreNext
    <2>2. CASE UNCHANGED vars
      BY <2>1, <2>2 DEF vars, FiledInv, ChunksInv, StrayInv, Sound, Unharmed, RowOf, VectorId, Quiet
    <2>3. CASE Next
      <3>1. ASSUME NEW r \in Requests, NEW d \in Docs,
                   AddDoc(r, d) \/ ReindexDoc(r, d) \/ DeleteDoc(r, d)
            PROVE  Inv'
        BY <2>1, <3>1, FiledStart, ChunksStart, StrayStart
      <3>2. ASSUME NEW r \in Requests, Move(r) PROVE Inv'
        BY <2>1, <3>2, FiledMove, ChunksMove, StrayMove
      <3> QED
        BY <2>3, <3>1, <3>2, NextShape
    <2> QED
      BY <2>2, <2>3
  <1>3. Inv => NoStrayVector
    <2> SUFFICES ASSUME Inv, NEW v \in vecs, ~Busy(req[v.by].on), Unharmed(req[v.by].on),
                        "met" \notin req[v.by].wrong
                 PROVE  [doc |-> req[v.by].on, by |-> v.by, idx |-> v.id, vid |-> TRUE] \in rows
      BY DEF NoStrayVector
    <2>1. v.by \in Requests
      BY VectorType DEF CoreInv
    <2>2. req[v.by].at # "persist"
      BY <2>1 DEF Busy, UnderWay, Under
    <2> QED
      BY <2>2 DEF StrayInv, Sound, RowOf
  <1> HIDE DEF Inv
  <1> QED
    BY <1>1, <1>2, <1>3, PTL DEF Spec

(***************************************************************************)
(* The counters.                                                           *)
(***************************************************************************)
\* Nothing has gone wrong, and no request was for a document that is deleted
\* or empty.
Clean == \A r \in Requests : req[r].wrong = {}

\* The rows of d are the n chunks of one text.
Whole(d, n) ==
    \/ n = 0 /\ RowsOf(d) = {}
    \/ \E q \in Requests : Ids(d) = [by : {q}, id : 0 .. n - 1]

\* The counters know of n chunks of d, which nobody is at work on.
Rested(d, n) ==
    Whole(d, n) /\ n = (IF doc[d].status = "archived" THEN 0 ELSE doc[d].chunks)

\* They know of the n chunks that the document of r had when r began, and of
\* those that it has now once r has counted them.
Owned(r, n) ==
    /\ req[r].kind = "index" => doc[req[r].on].status # "archived"
    /\ req[r].kind = "delete" => n > 0
    /\ req[r].at \in {"load", "mark", "cut", "list", "purge", "clear", "fail", "tally"} =>
          Whole(req[r].on, n)
    /\ req[r].kind = "index" /\
       req[r].at \in {"load", "mark", "cut", "list", "purge", "clear", "fail"} =>
          doc[req[r].on].chunks = n
    /\ req[r].at \notin {"load", "ready", "fail", "tally"} => req[r].had = n
    /\ req[r].at = "ready" => req[r].pieces = n

Booked(d, n) ==
    /\ ~Busy(d) => Rested(d, n)
    /\ \A r \in UnderWay(d) : Owned(r, n)

\* What the counters count, one element for each: chunks and documents.
Ledger(booked) == {p \in Docs \X (0 .. MaxPieces - 1) : p[2] < booked[p[1]]}
Entered(booked) == {d \in Docs : booked[d] > 0}

Balanced(booked) ==
    /\ \A d \in Docs : Booked(d, booked[d])
    /\ IsFiniteSet(Ledger(booked)) /\ IsFiniteSet(Entered(booked))
    /\ base.chunks = Cardinality(Ledger(booked))
    /\ base.docs = Cardinality(Entered(booked))

LedgerInv == Clean => \E booked \in [Docs -> 0 .. MaxPieces] : Balanced(booked)

LEMMA ColumnSize ==
    ASSUME NEW d, NEW n \in Nat
    PROVE  IsFiniteSet({d} \X (0 .. n - 1)) /\ Cardinality({d} \X (0 .. n - 1)) = n
  <1>1. IsFiniteSet({d}) /\ Cardinality({d}) = 1
    BY FS_Singleton
  <1>2. IsFiniteSet(0 .. n - 1) /\ Cardinality(0 .. n - 1) = n
    BY ColumnInterval
  <1> DEFINE S == {d}
             T == 0 .. n - 1
  <1>3. IsFiniteSet(S) /\ IsFiniteSet(T) /\ Cardinality(S) = 1 /\ Cardinality(T) = n
    BY <1>1, <1>2
  <1> HIDE DEF S, T
  <1>4. IsFiniteSet(S \X T) /\ Cardinality(S \X T) = Cardinality(S) * Cardinality(T)
    BY <1>3, FS_Product
  <1>5. IsFiniteSet(S \X T) /\ Cardinality(S \X T) = n
    BY <1>3, <1>4
  <1> QED
    BY <1>5 DEF S, T

\* Booking m chunks for d in place of what was booked.
LEMMA Rebooked ==
    ASSUME NEW booked \in [Docs -> 0 .. MaxPieces], NEW d \in Docs, NEW m \in 0 .. MaxPieces,
           IsFiniteSet(Ledger(booked)), IsFiniteSet(Entered(booked))
    PROVE  LET new == [booked EXCEPT ![d] = m] IN
           /\ IsFiniteSet(Ledger(new)) /\ IsFiniteSet(Entered(new))
           /\ Cardinality(Ledger(booked)) \in Nat /\ Cardinality(Entered(booked)) \in Nat
           /\ Cardinality(Ledger(new)) = Cardinality(Ledger(booked)) + m - booked[d]
           /\ Cardinality(Entered(new)) =
                 Cardinality(Entered(booked)) + (IF m > 0 THEN 1 ELSE 0)
                                              - (IF booked[d] > 0 THEN 1 ELSE 0)
  <1> DEFINE new == [booked EXCEPT ![d] = m]
             n == booked[d]
             others == {p \in Ledger(booked) : p[1] # d}
             rest == {e \in Entered(booked) : e # d}
  <1>1. /\ new \in [Docs -> 0 .. MaxPieces] /\ new[d] = m
        /\ \A e \in Docs : e # d => new[e] = booked[e]
        /\ n \in Nat /\ m \in Nat /\ n <= MaxPieces /\ m <= MaxPieces
    BY KBAssumption
  <1>2. ASSUME NEW b \in [Docs -> 0 .. MaxPieces]
        PROVE  Ledger(b) = {p \in Ledger(b) : p[1] # d} \cup ({d} \X (0 .. b[d] - 1))
    <2>1. ASSUME NEW p \in Ledger(b), p[1] = d PROVE p \in {d} \X (0 .. b[d] - 1)
      BY <2>1, KBAssumption DEF Ledger
    <2>2. ASSUME NEW p \in {d} \X (0 .. b[d] - 1) PROVE p \in Ledger(b)
      <3>1. p[1] = d /\ p[2] \in 0 .. b[d] - 1 /\ p = <<d, p[2]>> /\ b[d] \in 0 .. MaxPieces
        OBVIOUS
      <3>2. p[2] \in 0 .. MaxPieces - 1 /\ p[2] < b[d]
        BY <3>1, KBAssumption
      <3> QED
        BY <3>1, <3>2 DEF Ledger
    <2> QED
      BY <2>1, <2>2
  <1>3. {p \in Ledger(new) : p[1] # d} = others
    BY <1>1 DEF Ledger
  <1>4. /\ Ledger(booked) = others \cup ({d} \X (0 .. n - 1))
        /\ Ledger(new) = others \cup ({d} \X (0 .. m - 1))
    <2>1. Ledger(new) = {p \in Ledger(new) : p[1] # d} \cup ({d} \X (0 .. new[d] - 1))
      BY <1>1, <1>2
    <2> QED
      BY <1>1, <1>2, <1>3, <2>1
  <1>5. /\ others \cap ({d} \X (0 .. n - 1)) = {} /\ others \cap ({d} \X (0 .. m - 1)) = {}
    OBVIOUS
  <1>6. Entered(new) = rest \cup (IF m > 0 THEN {d} ELSE {})
        /\ Entered(booked) = rest \cup (IF n > 0 THEN {d} ELSE {})
    BY <1>1 DEF Entered
  <1>7. others \in SUBSET Ledger(booked) /\ rest \in SUBSET Entered(booked) /\ d \notin rest
    OBVIOUS
  <1>8. /\ IsFiniteSet(others) /\ Cardinality(others) \in Nat
        /\ IsFiniteSet(rest) /\ Cardinality(rest) \in Nat
    BY <1>7, FS_Subset, FS_CardinalityType
  <1> HIDE DEF new, n, others, rest
  <1>9. ASSUME NEW k \in Nat, others \cap ({d} \X (0 .. k - 1)) = {}
        PROVE  /\ IsFiniteSet(others \cup ({d} \X (0 .. k - 1)))
               /\ Cardinality(others \cup ({d} \X (0 .. k - 1))) = Cardinality(others) + k
    <2> DEFINE C == {d} \X (0 .. k - 1)
    <2>1. IsFiniteSet(C) /\ Cardinality(C) = k
      BY ColumnSize
    <2> HIDE DEF C
    <2>2. others \cap C = {} /\ Cardinality({}) = 0
      BY <1>9, FS_EmptySet DEF C
    <2>3. /\ IsFiniteSet(others \cup C)
          /\ Cardinality(others \cup C) = Cardinality(others) + Cardinality(C) - Cardinality(others \cap C)
      BY <1>8, <2>1, FS_Union
    <2>4. Cardinality(others \cup C) = Cardinality(others) + k
      BY <1>8, <2>1, <2>2, <2>3
    <2> QED
      BY <2>3, <2>4 DEF C
  <1>10. ASSUME NEW k \in Nat
         PROVE  LET T == rest \cup (IF k > 0 THEN {d} ELSE {}) IN
                IsFiniteSet(T) /\ Cardinality(T) = Cardinality(rest) + (IF k > 0 THEN 1 ELSE 0)
    <2>1. CASE k > 0
      BY <1>7, <1>8, <2>1, FS_AddElement
    <2>2. CASE ~(k > 0)
      BY <1>8, <2>2
    <2> QED
      BY <2>1, <2>2
  <1>11. /\ IsFiniteSet(Ledger(new)) /\ Cardinality(Ledger(new)) = Cardinality(others) + m
         /\ Cardinality(Ledger(booked)) = Cardinality(others) + n
    BY <1>1, <1>4, <1>5, <1>9
  <1>12. /\ IsFiniteSet(Entered(new))
         /\ Cardinality(Entered(new)) = Cardinality(rest) + (IF m > 0 THEN 1 ELSE 0)
         /\ Cardinality(Entered(booked)) = Cardinality(rest) + (IF n > 0 THEN 1 ELSE 0)
    BY <1>1, <1>6, <1>10
  <1>13. /\ Cardinality(Ledger(new)) = Cardinality(Ledger(booked)) + m - n
         /\ Cardinality(Ledger(booked)) \in Nat /\ Cardinality(Entered(booked)) \in Nat
    BY <1>1, <1>8, <1>11, <1>12
  <1>14. Cardinality(Entered(new)) =
            Cardinality(Entered(booked)) + (IF m > 0 THEN 1 ELSE 0) - (IF n > 0 THEN 1 ELSE 0)
    BY <1>1, <1>8, <1>12
  <1> QED
    BY <1>11, <1>12, <1>13, <1>14 DEF new, n

\* A document that a step does not touch stays booked.
LEMMA OtherBooked ==
    ASSUME TypeInv, NEW e \in Docs, NEW n \in Nat, Booked(e, n), doc'[e] = doc[e],
           {x \in rows' : x.doc = e} = {x \in rows : x.doc = e},
           \A q \in Requests : req[q].on = e \/ req'[q].on = e =>
              /\ Under(q) /\ req[q].on = e => req'[q] = req[q]
              /\ req'[q].at \notin {"idle", "over", "failed"} /\ req'[q].on = e =>
                    Under(q) /\ req[q].on = e
    PROVE  Booked(e, n)'
  <1>1. RowsOf(e)' = RowsOf(e) /\ Ids(e)' = Ids(e)
    BY DEF RowsOf, Ids, Id
  <1>2. Whole(e, n)' <=> Whole(e, n)
    BY <1>1 DEF Whole
  <1>3. \A q \in Requests : q \in UnderWay(e)' <=> q \in UnderWay(e)
    BY DEF UnderWay, Under
  <1>4. UnderWay(e)' = UnderWay(e) /\ UnderWay(e) \in SUBSET Requests
    BY <1>3 DEF UnderWay
  <1>5. ~Busy(e)' => Rested(e, n)'
    BY <1>2, <1>4 DEF Busy, Rested, Booked
  <1>6. ASSUME NEW q \in UnderWay(e)' PROVE Owned(q, n)'
    <2>1. q \in Requests /\ Under(q) /\ req[q].on = e /\ req'[q] = req[q] /\ Owned(q, n)
      BY <1>4 DEF UnderWay, Booked
    <2> QED
      BY <1>2, <2>1 DEF Owned
  <1> QED
    BY <1>5, <1>6 DEF Booked

\* Where the one request at work on its document goes.
LEMMA AloneBooked ==
    ASSUME NEW r \in Requests, NEW d \in Docs, NEW n \in Nat, req'[r].on = d,
           UnderWay(d)' \subseteq {r}, Under(r)' => Owned(r, n)', ~Under(r)' => Rested(d, n)'
    PROVE  Booked(d, n)'
  <1>1. r \in UnderWay(d)' <=> Under(r)'
    BY DEF UnderWay
  <1>2. ~Busy(d)' => Rested(d, n)'
    BY <1>1 DEF Busy
  <1> QED
    BY <1>1, <1>2 DEF Booked

\* Which requests begin without being odd.
LEMMA StartPlain ==
    ASSUME TypeInv, NEW r \in Requests, NEW d \in Docs,
           AddDoc(r, d) \/ ReindexDoc(r, d) \/ DeleteDoc(r, d), "odd" \notin req'[r].wrong
    PROVE  doc[d].status # "archived" /\ (req'[r].kind = "delete" => doc[d].chunks # 0)
  <1>1. CASE AddDoc(r, d)
    <2>1. Begun(r, d, "index", "load", FALSE)
      BY <1>1, StartBegins DEF AddDoc, TypeInv, Steps
    <2> QED
      BY <1>1, <2>1 DEF AddDoc, Begun
  <1>2. CASE ReindexDoc(r, d)
    <2>1. Begun(r, d, "index", "load", doc[d].status = "archived")
      BY <1>2, StartBegins DEF ReindexDoc, TypeInv, Steps
    <2> QED
      BY <2>1 DEF Begun
  <1>3. CASE DeleteDoc(r, d)
    <2>1. Begun(r, d, "delete", "tally", doc[d].status = "archived" \/ doc[d].chunks = 0)
      BY <1>3, StartBegins DEF DeleteDoc, TypeInv, Steps
    <2> QED
      BY <2>1 DEF Begun
  <1> QED
    BY <1>1, <1>2, <1>3

LEMMA LedgerStart ==
    ASSUME CoreInv, LedgerInv, NEW r \in Requests, NEW d \in Docs,
           AddDoc(r, d) \/ ReindexDoc(r, d) \/ DeleteDoc(r, d)
    PROVE  LedgerInv'
  <1> SUFFICES ASSUME Clean' PROVE \E booked \in [Docs -> 0 .. MaxPieces] : Balanced(booked)'
    BY DEF LedgerInv
  <1>0. TypeInv
    BY DEF CoreInv
  <1>1. PICK kind \in {"index", "delete"}, step \in Steps, odd \in BOOLEAN :
           /\ Begun(r, d, kind, step, odd)
           /\ <<kind, step>> \in {<<"index", "load">>, <<"delete", "tally">>}
           /\ doc' = doc \/ (kind = "index" /\ SetStatus(d, "pending"))
    BY <1>0, StartShape
  <1>2. /\ doc' \in [Docs -> [status : Statuses, chunks : Nat]]
        /\ \A e \in Docs : e # d => doc'[e] = doc[e]
        /\ doc'[d].chunks = doc[d].chunks
        /\ doc'[d].status \in {doc[d].status, "pending"}
    BY <1>0, <1>1, StatusSet DEF TypeInv, TypeOK, Statuses
  <1>3. rows' = rows /\ base' = base
    BY <1>1 DEF Begun
  <1>4. "odd" \notin req'[r].wrong /\ "met" \notin req'[r].wrong
    BY DEF Clean
  <1>5. UnderWay(d) = {}
    BY <1>1, <1>4 DEF Begun, Busy
  <1>6. Clean
    <2>1. req[r] = Idle
      BY <1>0, <1>1 DEF TypeInv, RequestInv, Begun
    <2>2. \A q \in Requests : q # r => req[q].wrong \subseteq req'[q].wrong
      BY <1>1 DEF Begun
    <2> QED
      BY <2>1, <2>2 DEF Clean, Idle
  <1>7. PICK booked \in [Docs -> 0 .. MaxPieces] : Balanced(booked)
    BY <1>6 DEF LedgerInv
  <1>8. ASSUME NEW e \in Docs, e # d PROVE Booked(e, booked[e])'
    <2>1. booked[e] \in Nat /\ Booked(e, booked[e])
      BY <1>7, KBAssumption DEF Balanced
    <2>2. \A q \in Requests : q # r => req'[q] = req[q] /\ req'[q].on = req[q].on
      BY <1>1, <1>5 DEF Begun
    <2>3. req'[r].on # e /\ ~Under(r)
      BY <1>1, <1>8 DEF Begun, Under
    <2>4. \A q \in Requests : req[q].on = e \/ req'[q].on = e =>
              /\ Under(q) /\ req[q].on = e => req'[q] = req[q]
              /\ req'[q].at \notin {"idle", "over", "failed"} /\ req'[q].on = e =>
                    Under(q) /\ req[q].on = e
      BY <2>2, <2>3 DEF Under
    <2> QED
      BY <1>0, <1>2, <1>3, <1>8, <2>1, <2>4, OtherBooked
  <1>9. Booked(d, booked[d])'
    <2>1. booked[d] \in Nat /\ Rested(d, booked[d])
      BY <1>5, <1>7, KBAssumption DEF Balanced, Booked, Busy
    <2>2. req'[r].on = d /\ req'[r].kind = kind /\ req'[r].at = step
      BY <1>1 DEF Begun
    <2>3. UnderWay(d)' \subseteq {r}
      <3>1. ASSUME NEW q \in Requests, q # r PROVE q \notin UnderWay(d)'
        <4>1. q \notin UnderWay(d) /\ req'[q].on = req[q].on /\ req'[q].at = req[q].at
          BY <1>1, <1>5, <3>1 DEF Begun
        <4> QED
          BY <4>1 DEF UnderWay, Under
      <3> QED
        BY <2>2, <3>1 DEF UnderWay
    <2>4. doc[d].status # "archived" /\ (kind = "delete" => doc[d].chunks # 0)
      BY <1>0, <1>4, <2>2, StartPlain
    <2>5. Whole(d, booked[d])' <=> Whole(d, booked[d])
      BY <1>3 DEF Whole, RowsOf, Ids, Id
    <2>6. Under(r)' /\ Owned(r, booked[d])'
      BY <1>1, <1>2, <2>1, <2>2, <2>4, <2>5 DEF Owned, Rested, Under
    <2> QED
      BY <2>1, <2>2, <2>3, <2>6, AloneBooked
  <1>10. Balanced(booked)'
    BY <1>3, <1>7, <1>8, <1>9 DEF Balanced, Ledger, Entered
  <1> QED
    BY <1>10

LEMMA SameSize ==
    ASSUME NEW S, NEW T, IsFiniteSet(S), NEW f \in [S -> T],
           \A x, y \in S : f[x] = f[y] => x = y,
           \A t \in T : \E s \in S : f[s] = t
    PROVE  Cardinality(T) = Cardinality(S)
  <1>1. f \in Bijection(S, T)
    BY DEF Bijection, Injection, IsInjective, Surjection
  <1> QED
    BY <1>1, FS_Bijection DEF ExistsBijection

\* As many rows as chunks.
LEMMA WholeSize ==
    ASSUME TypeInv, RowInv, NEW d \in Docs, NEW n \in Nat, Whole(d, n)
    PROVE  Cardinality(RowsOf(d)) = n
  <1>1. CASE n = 0 /\ RowsOf(d) = {}
    BY <1>1, FS_EmptySet
  <1>2. ASSUME NEW q \in Requests, Ids(d) = [by : {q}, id : 0 .. n - 1]
        PROVE  Cardinality(RowsOf(d)) = n
    <2> DEFINE S == RowsOf(d)
               T == 0 .. n - 1
               f == [x \in S |-> x.idx]
    <2>1. IsFiniteSet(S)
      BY FS_Subset DEF RowsOf, TypeInv
    <2>2. ASSUME NEW x \in S PROVE x.by = q /\ x.idx \in T
      <3>1. Id(x) \in [by : {q}, id : 0 .. n - 1]
        BY <1>2 DEF Ids
      <3> QED
        BY <3>1 DEF Id
    <2>3. ASSUME NEW x \in S, NEW y \in S, x.idx = y.idx PROVE x = y
      <3>1. Id(x) = Id(y) /\ x \in rows /\ y \in rows
        BY <2>2, <2>3 DEF Id, RowsOf
      <3> QED
        BY <3>1 DEF RowInv
    <2>4. ASSUME NEW k \in T PROVE \E x \in S : x.idx = k
      <3>1. [by |-> q, id |-> k] \in Ids(d)
        BY <1>2
      <3>2. PICK x \in S : Id(x) = [by |-> q, id |-> k]
        BY <3>1 DEF Ids
      <3> QED
        BY <3>2 DEF Id
    <2>5. Cardinality(T) = n
      BY ColumnInterval
    <2> HIDE DEF S, T
    <2>6. f \in [S -> T] /\ \A x \in S : f[x] = x.idx
      BY <2>2
    <2> HIDE DEF f
    <2>7. Cardinality(T) = Cardinality(S)
      BY <2>1, <2>3, <2>4, <2>6, SameSize
    <2> QED
      BY <2>5, <2>7 DEF S
  <1> QED
    BY <1>1, <1>2 DEF Whole

\* What a request counted stays with it.
LEMMA HadKept ==
    ASSUME TypeInv, NEW r \in Requests, Move(r), req[r].at \notin {"load", "tally"},
           req'[r].at \notin {"over", "failed", "fail"}
    PROVE  req'[r].had = req[r].had
  <1> DEFINE Plain == \E step \in Steps, wrong \in SUBSET Flaws :
                        Moved(r, step, wrong) /\ req'[r].at = step
  <1>1. Plain => req'[r].had = req[r].had
    BY DEF Moved
  <1>2. ASSUME NEW step \in Steps, Go(r, step) PROVE Plain
    <2>1. Moved(r, step, {}) /\ {} \in SUBSET Flaws
      BY <1>2, Moves DEF TypeInv
    <2> QED
      BY <2>1 DEF Moved
  <1>3. ASSUME NEW step \in Steps, NEW what \in Flaws, GoWrong(r, step, what) PROVE Plain
    <2>1. Moved(r, step, {what}) /\ {what} \in SUBSET Flaws
      BY <1>3, Moves DEF TypeInv
    <2> QED
      BY <2>1 DEF Moved
  <1> HIDE DEF Plain
  <1>4. CASE Leave(r)
    BY <1>4, LeaveKeeps
  <1>5. CASE ~Leave(r)
    <2>1. CASE req[r].at = "cut"
      BY <1>5, <2>1, MoveIs, CutDone
    <2>2. CASE req[r].at = "list"
      <3>1. ListOld(r)
        BY <1>5, <2>2, MoveIs
      <3>2. CASE GoWrong(r, "clear", "call")
        BY <1>1, <1>3, <3>2 DEF Steps, Flaws
      <3>3. CASE ~GoWrong(r, "clear", "call")
        <4> DEFINE old == {Id(row) : row \in {x \in RowsOf(req[r].on) : x.vid}}
        <4>1. req' = [req EXCEPT ![r].at = "purge", ![r].old = old]
          BY <3>1, <3>3 DEF ListOld
        <4> HIDE DEF old
        <4> QED
          BY <4>1 DEF TypeInv, TypeOK, Request
      <3> QED
        BY <3>2, <3>3
    <2>3. CASE req[r].at \notin {"cut", "list"}
      <3>1. \E step \in Steps : Go(r, step) \/ \E what \in Flaws : GoWrong(r, step, what)
        <4>1. \/ req[r].at \in {"mark", "purge"} \/ req[r].at \in {"clear", "insert"}
              \/ req[r].at \in {"upsert", "persist"} \/ req[r].at \in {"meta", "count"}
              \/ req[r].at \in {"ready", "fail"} \/ req[r].at \in {"archive", "uncount"}
          BY <2>3, MoveOnward DEF Onward, Under, TypeInv, TypeOK, Request, Steps
        <4>2. CASE req[r].at \in {"mark", "purge"}
          BY <1>5, <4>2, MoveIs DEF Mark, Purge, Steps, Flaws
        <4>3. CASE req[r].at \in {"clear", "insert"}
          BY <1>5, <4>3, MoveIs DEF Clear, Insert, Steps, Flaws
        <4>4. CASE req[r].at \in {"upsert", "persist"}
          BY <1>5, <4>4, MoveIs DEF Upsert, PersistVectorIDs, Steps, Flaws
        <4>5. CASE req[r].at \in {"meta", "count"}
          BY <1>5, <4>5, MoveIs DEF UpdateMeta, UpdateCounters, Steps, Flaws
        <4>6. CASE req[r].at \in {"ready", "fail"}
          BY <1>5, <4>6, MoveIs DEF Ready, Fail, Steps, Flaws
        <4>7. CASE req[r].at \in {"archive", "uncount"}
          BY <1>5, <4>7, MoveIs DEF Archive, Uncount, Steps, Flaws
        <4> QED
          BY <4>1, <4>2, <4>3, <4>4, <4>5, <4>6, <4>7
      <3> QED
        BY <1>1, <1>2, <1>3, <3>1
    <2> QED
      BY <2>1, <2>2, <2>3
  <1> QED
    BY <1>4, <1>5

\* What is added to the counters when all calls work.
LEMMA MoveBase ==
    ASSUME TypeInv, NEW r \in Requests, Move(r), "call" \notin req'[r].wrong
    PROVE  /\ req'[r].at = req[r].at \/ req[r].at \notin {"count", "uncount"} => base' = base
           /\ req[r].at = "count" /\ req'[r].at # req[r].at =>
                 AddTo(IF req[r].had = 0 THEN 1 ELSE 0, req[r].pieces - req[r].had)
           /\ req[r].at = "uncount" /\ req'[r].at # req[r].at => AddTo(-1, -req[r].had)
  <1>1. CASE Leave(r)
    BY <1>1, LeaveKeeps
  <1>2. CASE ~Leave(r) /\ req[r].at = "count"
    <2>1. UpdateCounters(r) /\ ~GoWrong(r, "ready", "call")
      BY <1>2, MoveIs, FailsMarked DEF Steps
    <2>2. Go(r, "ready") /\ AddTo(IF req[r].had = 0 THEN 1 ELSE 0, req[r].pieces - req[r].had)
      BY <2>1 DEF UpdateCounters
    <2>3. req'[r].at = "ready"
      BY <2>2, Moves DEF TypeInv, Steps, Moved
    <2> QED
      BY <1>2, <2>2, <2>3
  <1>3. CASE ~Leave(r) /\ req[r].at = "uncount"
    <2>1. Uncount(r) /\ ~GoWrong(r, "over", "call")
      BY <1>3, MoveIs, FailsMarked DEF Steps
    <2>2. Go(r, "over") /\ AddTo(-1, -req[r].had)
      BY <2>1 DEF Uncount
    <2>3. req'[r].at = "over"
      BY <2>2, Moves DEF TypeInv, Steps, Moved
    <2> QED
      BY <1>3, <2>2, <2>3
  <1>4. CASE ~Leave(r) /\ req[r].at \notin {"count", "uncount"}
    BY <1>4 DEF Move, Index, Delete, Load, Mark, Cut, Unreadable, Insert, Upsert,
                PersistVectorIDs, UpdateMeta, UpdateCounters, Ready, Fail, Tally, Archive,
                Uncount, ListOld, Purge, Clear
  <1> QED
    BY <1>1, <1>2, <1>3, <1>4

\* The one request at work on a document goes on, all calls having worked.
LEMMA OwnedMove ==
    ASSUME CoreInv, LastInv, NEW r \in Requests, Move(r), Clean, Clean',
           NEW d \in Docs, req[r].on = d, UnderWay(d) = {r},
           NEW n \in 0 .. MaxPieces, Owned(r, n)
    PROVE  \E m \in 0 .. MaxPieces :
              /\ Under(r)' => Owned(r, m)'
              /\ ~Under(r)' => Rested(d, m)'
              /\ base' = [docs |-> base.docs + (IF m > 0 THEN 1 ELSE 0)
                                             - (IF n > 0 THEN 1 ELSE 0),
                          chunks |-> base.chunks + m - n]
  <1> DEFINE from == req[r].at
             to == req'[r].at
  <1>1. TypeInv /\ MeetInv /\ RowInv /\ n \in Nat
    BY KBAssumption DEF CoreInv
  <1>2. /\ Onward(r) /\ d \in Docs /\ req'[r].on = d /\ req'[r].kind = req[r].kind
        /\ req[r].kind \in {"index", "delete"} /\ Follows(req[r].kind, from, to)
        /\ from # "cut" => req'[r].pieces = req[r].pieces
    BY <1>1, MoveOnward DEF Onward, Under, TypeInv, RequestInv, TypeOK, Request
  <1>3. /\ req[r].wrong = {} /\ req'[r].wrong = {}
        /\ "call" \notin req'[r].wrong /\ "insert" \notin req'[r].wrong
    BY DEF Clean
  <1>4. Settled(r) /\ Settled(r)'
    <2>1. last[d] = r /\ Quiet(r)
      BY <1>1, <1>2, <1>3 DEF MeetInv, Onward, Quiet
    <2>2. Settled(r)
      BY <1>2, <2>1 DEF LastInv
    <2> QED
      BY <1>1, <1>3, <2>2, SettledMove
  <1>5. /\ doc' \in [Docs -> [status : Statuses, chunks : Nat]]
        /\ from # "meta" => doc'[d].chunks = doc[d].chunks
        /\ from \notin {"mark", "meta", "ready", "fail", "archive"} => doc' = doc
    BY <1>1, <1>2, MoveDoc
  <1>6. from \notin {"clear", "insert", "persist"} => Whole(d, n)' = Whole(d, n)
    <2>1. from \notin {"clear", "insert", "persist"} => rows' = rows
      BY <1>1, MoveRows
    <2>2. rows' = rows => Ids(d)' = Ids(d) /\ RowsOf(d)' = RowsOf(d)
      BY <1>2 DEF Ids, RowsOf, Id
    <2> QED
      BY <2>1, <2>2 DEF Whole
  <1>7. from \notin {"load", "tally"} /\ to \notin {"over", "failed", "fail"} =>
           req'[r].had = req[r].had
    BY <1>1, HadKept
  <1>8. base \in [docs : Int, chunks : Int]
    BY <1>1 DEF TypeInv, TypeOK
  <1>9. /\ to = from \/ from \notin {"count", "uncount"} => base' = base
        /\ from = "count" /\ to # from =>
              base' = [docs |-> base.docs + (IF req[r].had = 0 THEN 1 ELSE 0),
                       chunks |-> base.chunks + (req[r].pieces - req[r].had)]
        /\ from = "uncount" /\ to # from =>
              base' = [docs |-> base.docs + (-1), chunks |-> base.chunks + (-req[r].had)]
    BY <1>1, <1>3, MoveBase DEF AddTo
  <1> DEFINE Added(m) == base' = [docs |-> base.docs + (IF m > 0 THEN 1 ELSE 0)
                                                     - (IF n > 0 THEN 1 ELSE 0),
                                  chunks |-> base.chunks + m - n]
  <1>10. base' = base => Added(n)
    <2>1. \A x \in Int : x + n - n = x /\ x + (IF n > 0 THEN 1 ELSE 0) - (IF n > 0 THEN 1 ELSE 0) = x
      BY <1>1
    <2>2. base = [docs |-> base.docs, chunks |-> base.chunks]
      BY <1>8
    <2> QED
      BY <1>8, <2>1, <2>2
  <1> HIDE DEF Added
  <1>11. SUFFICES \E m \in 0 .. MaxPieces :
                     Added(m) /\ (Under(r)' => Owned(r, m)') /\ (~Under(r)' => Rested(d, m)')
    BY DEF Added
  <1>12. /\ req[r].kind = "index" => doc[d].status # "archived"
         /\ req[r].kind = "delete" => n > 0
         /\ from \in {"load", "mark", "cut", "list", "purge", "clear", "fail", "tally"} =>
               Whole(d, n)
         /\ req[r].kind = "index" /\
            from \in {"load", "mark", "cut", "list", "purge", "clear", "fail"} =>
               doc[d].chunks = n
         /\ from \notin {"load", "ready", "fail", "tally"} => req[r].had = n
         /\ from = "ready" => req[r].pieces = n
    BY DEF Owned
  <1>13. \A m : Owned(r, m)' <=>
            /\ req[r].kind = "index" => doc'[d].status # "archived"
            /\ req[r].kind = "delete" => m > 0
            /\ to \in {"load", "mark", "cut", "list", "purge", "clear", "fail", "tally"} =>
                  Whole(d, m)'
            /\ req[r].kind = "index" /\
               to \in {"load", "mark", "cut", "list", "purge", "clear", "fail"} =>
                  doc'[d].chunks = m
            /\ to \notin {"load", "ready", "fail", "tally"} => req'[r].had = m
            /\ to = "ready" => req'[r].pieces = m
    BY <1>2 DEF Owned, Whole, RowsOf, Ids
  <1>14. /\ from \in {"load", "mark", "cut", "insert", "upsert", "persist", "meta", "count",
                      "ready", "fail"} => req[r].kind = "index"
         /\ from \in {"tally", "archive", "uncount"} => req[r].kind = "delete"
         /\ from = "count" => req[r].pieces \in 1 .. MaxPieces
    BY <1>1, <1>2 DEF TypeInv, RequestInv, Written
  <1>15. Under(r)' <=> to \notin {"idle", "over", "failed"}
    BY DEF Under
  <1>16. CASE Leave(r)
    <2>1. /\ doc' = doc /\ rows' = rows /\ base' = base /\ to = from
          /\ req'[r].had = req[r].had /\ req'[r].pieces = req[r].pieces
      BY <1>1, <1>16, LeaveKeeps
    <2>2. Whole(d, n)' <=> Whole(d, n)
      BY <2>1 DEF Whole, Ids, RowsOf, Id
    <2>3. Owned(r, n)'
      BY <1>12, <1>13, <2>1, <2>2
    <2>4. Under(r)'
      BY <1>2, <1>15, <2>1 DEF Onward, Under
    <2> QED
      BY <1>10, <2>1, <2>3, <2>4
  <1>17. CASE ~Leave(r)
    <2>1. CASE from = "load"
      <3>1. to = "mark" /\ req'[r].had = doc[d].chunks
        BY <1>1, <1>3, <1>17, <2>1, MoveIs, LoadDone
      <3>2. Owned(r, n)' /\ Under(r)'
        BY <1>5, <1>6, <1>12, <1>13, <1>14, <1>15, <2>1, <3>1
      <3> QED
        BY <1>9, <1>10, <2>1, <3>2
    <2>2. CASE from = "mark"
      <3>1. SetStatus(d, "indexing") /\ to = "cut" /\ req'[r].had = req[r].had
        BY <1>1, <1>3, <1>17, <2>2, MoveIs, MarkDone
      <3>2. doc'[d].status = "indexing"
        BY <1>1, <1>2, <3>1, StatusSet DEF Statuses, TypeInv
      <3>3. Owned(r, n)' /\ Under(r)'
        BY <1>5, <1>6, <1>12, <1>13, <1>14, <1>15, <2>2, <3>1, <3>2
      <3> QED
        BY <1>9, <1>10, <2>2, <3>3
    <2>3. CASE from \in {"cut", "list", "purge"}
      <3>1. to \in {"cut", "list", "purge", "clear", "fail"}
        BY <1>2, <2>3 DEF Follows
      <3>2. to # "fail" => req'[r].had = req[r].had
        BY <1>7, <2>3, <3>1
      <3>3. to = "fail" => req[r].kind = "index"
        BY <1>2, <1>14, <2>3 DEF Follows
      <3>4. Owned(r, n)' /\ Under(r)'
        BY <1>5, <1>6, <1>12, <1>13, <1>14, <1>15, <2>3, <3>1, <3>2, <3>3
      <3> QED
        BY <1>9, <1>10, <2>3, <3>4
    <2>4. CASE from \in {"clear", "insert"}
      <3>1. to \in {"archive", "insert", "upsert", "meta"}
        <4>1. CASE from = "clear"
          <5>1. Clear(r)
            BY <1>1, <1>17, <4>1, MoveIs
          <5>2. Moved(r, "archive", {}) \/ Moved(r, "insert", {})
                \/ GoWrong(r, "archive", "call") \/ GoWrong(r, "insert", "call")
            BY <1>1, <5>1, Moves DEF Clear, TypeInv, Steps
          <5> QED
            BY <1>1, <1>3, <5>2, FailsMarked DEF Moved, Steps
        <4>2. CASE from = "insert"
          <5>1. Insert(r)
            BY <1>1, <1>17, <4>2, MoveIs
          <5>2. Moved(r, "meta", {}) \/ Moved(r, "upsert", {}) \/ Moved(r, "fail", {"insert"})
            BY <1>1, <5>1, Moves DEF Insert, TypeInv, Steps, Flaws
          <5> QED
            BY <1>3, <5>2 DEF Moved
        <4> QED
          BY <2>4, <4>1, <4>2
      <3>2. Owned(r, n)' /\ Under(r)'
        BY <1>5, <1>7, <1>12, <1>13, <1>15, <2>4, <3>1
      <3> QED
        BY <1>9, <1>10, <2>4, <3>2
    <2>5. CASE from \in {"upsert", "persist"}
      <3>1. to \in {"upsert", "persist", "meta"}
        BY <1>2, <2>5 DEF Follows
      <3>2. Owned(r, n)' /\ Under(r)'
        BY <1>5, <1>7, <1>12, <1>13, <1>14, <1>15, <2>5, <3>1
      <3> QED
        BY <1>9, <1>10, <2>5, <3>2
    <2>6. CASE from = "meta"
      <3>1. to \in {"meta", "count"}
        BY <1>2, <2>6 DEF Follows
      <3>2. doc' = [doc EXCEPT ![d] = [status |-> "ready", chunks |-> req[r].pieces]]
        BY <1>1, <1>3, <1>17, <2>6, MoveIs, MetaDone
      <3>3. doc'[d].status = "ready"
        BY <1>1, <1>2, <3>2 DEF TypeInv, TypeOK
      <3>4. Owned(r, n)' /\ Under(r)'
        BY <1>7, <1>12, <1>13, <1>14, <1>15, <2>6, <3>1, <3>3
      <3> QED
        BY <1>9, <1>10, <2>6, <3>4
    <2>7. CASE from = "count"
      <3>1. to = "ready"
        <4>1. UpdateCounters(r)
          BY <1>1, <1>17, <2>7, MoveIs
        <4>2. Moved(r, "ready", {}) \/ GoWrong(r, "ready", "call")
          BY <1>1, <4>1, Moves DEF UpdateCounters, TypeInv, Steps
        <4> QED
          BY <1>1, <1>3, <4>2, FailsMarked DEF Moved, Steps
      <3>0. PICK m \in 1 .. MaxPieces : m = req[r].pieces
        BY <1>14, <2>7
      <3>2. Owned(r, m)' /\ Under(r)'
        BY <1>2, <3>0, <1>5, <1>12, <1>13, <1>14, <1>15, <2>7, <3>1
      <3>3. Added(m)
        <4>1. /\ req[r].had = n /\ m > 0 /\ m \in Nat /\ n \in Nat
          BY <1>1, <1>12, <2>7, KBAssumption
        <4>2. base' = [docs |-> base.docs + (IF n = 0 THEN 1 ELSE 0),
                       chunks |-> base.chunks + (m - n)]
          BY <1>9, <2>7, <3>0, <3>1, <4>1
        <4>3. /\ base.docs + (IF n = 0 THEN 1 ELSE 0) =
                    base.docs + (IF m > 0 THEN 1 ELSE 0) - (IF n > 0 THEN 1 ELSE 0)
              /\ base.chunks + (m - n) = base.chunks + m - n
          BY <1>8, <4>1
        <4> QED
          BY <4>2, <4>3 DEF Added
      <3>4. m \in 0 .. MaxPieces
        BY KBAssumption
      <3> QED
        BY <3>2, <3>3, <3>4
    <2>8. CASE from = "ready"
      <3>1. /\ SetStatus(d, "ready") /\ Go(r, "over")
        BY <1>1, <1>3, <1>17, <2>8, MoveIs, ReadyDone
      <3>2. to = "over"
        BY <1>1, <3>1, Moves DEF TypeInv, Steps, Moved
      <3>3. /\ Ids(d)' = Texts(r)'
            /\ doc'[d] = [status |-> "ready", chunks |-> req'[r].pieces]
        BY <1>2, <1>4, <1>14, <2>8, <3>2 DEF Settled, Ids, RowsOf
      <3>4. req'[r].pieces = n
        BY <1>2, <1>12, <2>8
      <3>5. Whole(d, n)'
        BY <3>3, <3>4 DEF Whole, Texts
      <3>6. Rested(d, n)'
        BY <3>3, <3>4, <3>5 DEF Rested
      <3> QED
        BY <1>9, <1>10, <1>15, <2>8, <3>2, <3>6
    <2>9. CASE from = "fail"
      <3>1. Fail(r) /\ ~GoWrong(r, "failed", "call")
        BY <1>1, <1>3, <1>17, <2>9, MoveIs, FailsMarked DEF Steps
      <3>2. SetStatus(d, "failed") /\ Go(r, "failed")
        BY <3>1 DEF Fail
      <3>3. to = "failed" /\ doc'[d].status = "failed"
        BY <1>1, <1>2, <3>2, StatusSet, Moves DEF TypeInv, Steps, Moved, Statuses
      <3>4. Rested(d, n)'
        BY <1>5, <1>6, <1>12, <1>14, <2>9, <3>3 DEF Rested
      <3> QED
        BY <1>9, <1>10, <1>15, <2>9, <3>3, <3>4
    <2>10. CASE from = "tally"
      <3>1. Tally(r) /\ ~GoWrong(r, "list", "call")
        BY <1>1, <1>3, <1>17, <2>10, MoveIs, FailsMarked DEF Steps
      <3> DEFINE size == Cardinality(RowsOf(d))
      <3>2. req' = [req EXCEPT ![r].had = size, ![r].at = "list"]
        BY <3>1 DEF Tally
      <3>3. size = n
        BY <1>1, <1>2, <1>12, <2>10, WholeSize
      <3> HIDE DEF size
      <3>4. to = "list" /\ req'[r].had = n
        BY <1>1, <3>2, <3>3 DEF TypeInv, TypeOK, Request
      <3>5. Owned(r, n)' /\ Under(r)'
        BY <1>5, <1>6, <1>12, <1>13, <1>14, <1>15, <2>10, <3>4
      <3> QED
        BY <1>9, <1>10, <2>10, <3>5
    <2>11. CASE from = "archive"
      <3>1. Go(r, "uncount")
        BY <1>1, <1>3, <1>17, <2>11, MoveIs, ArchiveDone
      <3>2. to = "uncount"
        BY <1>1, <3>1, Moves DEF TypeInv, Steps, Moved
      <3>3. Owned(r, n)' /\ Under(r)'
        BY <1>7, <1>12, <1>13, <1>14, <1>15, <2>11, <3>2
      <3> QED
        BY <1>9, <1>10, <2>11, <3>3
    <2>12. CASE from = "uncount"
      <3>1. to = "over"
        <4>1. Uncount(r)
          BY <1>1, <1>17, <2>12, MoveIs
        <4>2. Moved(r, "over", {}) \/ GoWrong(r, "over", "call")
          BY <1>1, <4>1, Moves DEF Uncount, TypeInv, Steps
        <4> QED
          BY <1>1, <1>3, <4>2, FailsMarked DEF Moved, Steps
      <3>2. RowsOf(d)' = {} /\ doc'[d].status = "archived"
        BY <1>2, <1>4, <1>14, <2>12, <3>1 DEF Settled, RowsOf
      <3>3. Rested(d, 0)'
        BY <3>2 DEF Rested, Whole
      <3>4. Added(0)
        <4>1. req[r].had = n /\ n > 0
          BY <1>12, <1>14, <2>12
        <4>2. base' = [docs |-> base.docs + (-1), chunks |-> base.chunks + (-n)]
          BY <1>9, <2>12, <3>1, <4>1
        <4>3. /\ base.docs + (-1) =
                    base.docs + (IF 0 > 0 THEN 1 ELSE 0) - (IF n > 0 THEN 1 ELSE 0)
              /\ base.chunks + (-n) = base.chunks + 0 - n
          BY <1>1, <1>8, <4>1
        <4> QED
          BY <4>2, <4>3 DEF Added
      <3>5. 0 \in 0 .. MaxPieces
        BY KBAssumption
      <3> QED
        BY <1>15, <3>1, <3>3, <3>4, <3>5
    <2>13. from \in Steps \ {"idle", "over", "failed"}
      BY <1>1, <1>2 DEF Onward, Under, TypeInv, TypeOK, Request
    <2> QED
      BY <2>1, <2>2, <2>3, <2>4, <2>5, <2>6, <2>7, <2>8, <2>9, <2>10, <2>11, <2>12, <2>13
      DEF Steps
  <1> QED
    BY <1>16, <1>17

LEMMA LedgerMove ==
    ASSUME CoreInv, LastInv, LedgerInv, NEW r \in Requests, Move(r)
    PROVE  LedgerInv'
  <1> SUFFICES ASSUME Clean' PROVE \E booked \in [Docs -> 0 .. MaxPieces] : Balanced(booked)'
    BY DEF LedgerInv
  <1>1. TypeInv /\ MeetInv /\ RowInv /\ Onward(r) /\ req[r].on \in Docs /\ base \in [docs : Int, chunks : Int]
    BY MoveOnward DEF CoreInv, Onward, Under, TypeInv, RequestInv, TypeOK
  <1>2. PICK d \in Docs : req[r].on = d
    BY <1>1
  <1>3. /\ req'[r].on = d
        /\ \A q \in Requests \ {r} : req'[q] = req[q]
    BY <1>1, <1>2 DEF Onward
  <1>4. Clean
    <2>1. req[r].wrong \subseteq req'[r].wrong
      BY <1>1 DEF Onward
    <2> QED
      BY <1>3, <2>1 DEF Clean
  <1>5. UnderWay(d) = {r}
    <2>1. r \in UnderWay(d)
      BY <1>1, <1>2 DEF UnderWay, Onward
    <2>2. ASSUME NEW q \in Requests, q # r PROVE q \notin UnderWay(d)
      <3>1. "met" \notin req[r].wrong
        BY <1>4 DEF Clean
      <3> QED
        BY <1>1, <1>2, <2>2, <3>1 DEF MeetInv, UnderWay, Onward
    <2> QED
      BY <2>1, <2>2 DEF UnderWay
  <1>6. UnderWay(d)' \subseteq {r}
    <2>1. ASSUME NEW q \in Requests, q # r PROVE q \notin UnderWay(d)'
      BY <1>3, <1>5, <2>1 DEF UnderWay, Under
    <2> QED
      BY <2>1 DEF UnderWay
  <1>7. PICK booked \in [Docs -> 0 .. MaxPieces] : Balanced(booked)
    BY <1>4 DEF LedgerInv
  <1>8. booked[d] \in 0 .. MaxPieces /\ Owned(r, booked[d])
    BY <1>5, <1>7 DEF Balanced, Booked
  <1>9. PICK m \in 0 .. MaxPieces :
           /\ Under(r)' => Owned(r, m)'
           /\ ~Under(r)' => Rested(d, m)'
           /\ base' = [docs |-> base.docs + (IF m > 0 THEN 1 ELSE 0)
                                          - (IF booked[d] > 0 THEN 1 ELSE 0),
                       chunks |-> base.chunks + m - booked[d]]
    BY <1>2, <1>4, <1>5, <1>8, OwnedMove
  <1> DEFINE new == [booked EXCEPT ![d] = m]
  <1>10. /\ new \in [Docs -> 0 .. MaxPieces] /\ new[d] = m
         /\ \A e \in Docs : e # d => new[e] = booked[e]
    OBVIOUS
  <1>11. IsFiniteSet(Ledger(booked)) /\ IsFiniteSet(Entered(booked))
    BY <1>7 DEF Balanced
  <1>12. /\ IsFiniteSet(Ledger(new)) /\ IsFiniteSet(Entered(new))
         /\ Cardinality(Ledger(new)) = Cardinality(Ledger(booked)) + m - booked[d]
         /\ Cardinality(Entered(new)) =
               Cardinality(Entered(booked)) + (IF m > 0 THEN 1 ELSE 0)
                                            - (IF booked[d] > 0 THEN 1 ELSE 0)
    BY <1>11, Rebooked
  <1> HIDE DEF new
  <1>13. /\ base'.chunks = Cardinality(Ledger(new))
         /\ base'.docs = Cardinality(Entered(new))
    BY <1>7, <1>9, <1>12 DEF Balanced
  <1>14. ASSUME NEW e \in Docs, e # d PROVE Booked(e, new[e])'
    <2>1. booked[e] \in Nat /\ Booked(e, booked[e]) /\ new[e] = booked[e]
      BY <1>7, <1>10, <1>14, KBAssumption DEF Balanced
    <2>2. doc'[e] = doc[e]
      BY <1>1, <1>2, <1>14, MoveDoc
    <2>3. {x \in rows' : x.doc = e} = {x \in rows : x.doc = e}
      BY <1>1, <1>2, <1>14, OtherRows
    <2>4. \A q \in Requests : req[q].on = e \/ req'[q].on = e =>
              /\ Under(q) /\ req[q].on = e => req'[q] = req[q]
              /\ req'[q].at \notin {"idle", "over", "failed"} /\ req'[q].on = e =>
                    Under(q) /\ req[q].on = e
      BY <1>2, <1>3, <1>14 DEF Under
    <2>5. Booked(e, booked[e])'
      BY <1>1, <2>1, <2>2, <2>3, <2>4, OtherBooked
    <2> QED
      BY <2>1, <2>5
  <1>15. Booked(d, new[d])'
    <2>1. m \in Nat
      BY KBAssumption
    <2>2. Booked(d, m)'
      BY <1>3, <1>6, <1>9, <2>1, AloneBooked
    <2> QED
      BY <1>10, <2>2
  <1>16. Balanced(new)'
    BY <1>12, <1>13, <1>14, <1>15 DEF Balanced, Ledger, Entered
  <1> QED
    BY <1>10, <1>16

\* What a balanced ledger says once nobody is at work.
LEMMA LedgerRead ==
    ASSUME TypeInv, RowInv, NEW booked \in [Docs -> 0 .. MaxPieces], Balanced(booked),
           \A r \in Requests : ~Under(r)
    PROVE  /\ base.chunks = Cardinality(rows)
           /\ base.docs = Cardinality({d \in Docs : RowsOf(d) # {}})
  <1>1. ASSUME NEW d \in Docs
        PROVE  \/ booked[d] = 0 /\ RowsOf(d) = {}
               \/ \E q \in Requests : Ids(d) = [by : {q}, id : 0 .. booked[d] - 1]
    BY DEF Balanced, Booked, Rested, Whole, Busy, UnderWay
  <1>2. rows \subseteq Row /\ IsFiniteSet(rows) /\ \A d \in Docs : booked[d] \in Nat
    BY KBAssumption DEF TypeInv, TypeOK
  <1>3. ASSUME NEW x \in rows
        PROVE  /\ x.doc \in Docs /\ x.idx \in 0 .. booked[x.doc] - 1
               /\ \E q \in Requests : Ids(x.doc) = [by : {q}, id : 0 .. booked[x.doc] - 1]
                                      /\ x.by = q
    <2>1. x.doc \in Docs /\ x \in RowsOf(x.doc) /\ Id(x) \in Ids(x.doc)
      BY <1>2 DEF Row, RowsOf, Ids
    <2>2. PICK q \in Requests : Ids(x.doc) = [by : {q}, id : 0 .. booked[x.doc] - 1]
      BY <1>1, <2>1
    <2>3. Id(x) \in [by : {q}, id : 0 .. booked[x.doc] - 1]
      BY <2>1, <2>2
    <2>4. x.by = q /\ x.idx \in 0 .. booked[x.doc] - 1
      BY <2>3 DEF Id
    <2> QED
      BY <2>1, <2>2, <2>4
  <1>4. ASSUME NEW d \in Docs, NEW k \in Nat, k < booked[d]
        PROVE  \E x \in rows : x.doc = d /\ x.idx = k
    <2>1. booked[d] # 0 /\ k \in 0 .. booked[d] - 1
      BY <1>2, <1>4
    <2>2. PICK q \in Requests : Ids(d) = [by : {q}, id : 0 .. booked[d] - 1]
      BY <1>1, <2>1
    <2>3. [by |-> q, id |-> k] \in Ids(d)
      BY <2>1, <2>2
    <2>4. PICK x \in RowsOf(d) : Id(x) = [by |-> q, id |-> k]
      BY <2>3 DEF Ids
    <2> QED
      BY <2>4 DEF Id, RowsOf
  <1> DEFINE T == Ledger(booked)
             f == [x \in rows |-> <<x.doc, x.idx>>]
  <1>5. ASSUME NEW x \in rows PROVE <<x.doc, x.idx>> \in T
    <2>1. /\ x.doc \in Docs /\ x.idx \in 0 .. booked[x.doc] - 1
          /\ booked[x.doc] \in 0 .. MaxPieces
      BY <1>3
    <2>2. x.idx \in 0 .. MaxPieces - 1 /\ x.idx < booked[x.doc]
      BY <2>1, KBAssumption
    <2> QED
      BY <2>1, <2>2 DEF Ledger
  <1>6. ASSUME NEW x \in rows, NEW y \in rows, x.doc = y.doc, x.idx = y.idx PROVE x = y
    <2>1. PICK q \in Requests :
             Ids(x.doc) = [by : {q}, id : 0 .. booked[x.doc] - 1] /\ x.by = q
      BY <1>3
    <2>2. Id(y) \in Ids(x.doc)
      BY <1>6 DEF Ids, RowsOf
    <2>3. y.by = q
      BY <2>1, <2>2 DEF Id
    <2>4. Id(x) = Id(y)
      BY <1>6, <2>1, <2>3 DEF Id
    <2> QED
      BY <2>4 DEF RowInv
  <1>7. ASSUME NEW t \in T PROVE \E x \in rows : <<x.doc, x.idx>> = t
    <2>1. /\ t = <<t[1], t[2]>> /\ t[1] \in Docs /\ t[2] \in 0 .. MaxPieces - 1
          /\ t[2] < booked[t[1]]
      BY DEF Ledger
    <2>2. t[2] \in Nat
      BY <2>1, KBAssumption
    <2>3. PICK x \in rows : x.doc = t[1] /\ x.idx = t[2]
      BY <1>4, <2>1, <2>2
    <2> QED
      BY <2>1, <2>3
  <1> HIDE DEF T
  <1>8. f \in [rows -> T] /\ \A x \in rows : f[x] = <<x.doc, x.idx>>
    BY <1>5
  <1> HIDE DEF f
  <1>9. \A x, y \in rows : f[x] = f[y] => x = y
    BY <1>6, <1>8
  <1>10. \A t \in T : \E x \in rows : f[x] = t
    BY <1>7, <1>8
  <1>11. Cardinality(T) = Cardinality(rows)
    BY <1>2, <1>8, <1>9, <1>10, SameSize
  <1>12. {d \in Docs : RowsOf(d) # {}} = Entered(booked)
    <2>1. ASSUME NEW d \in Docs PROVE RowsOf(d) # {} <=> booked[d] > 0
      <3>1. ASSUME NEW x \in RowsOf(d) PROVE booked[d] > 0
        <4>1. x \in rows /\ x.doc = d
          BY DEF RowsOf
        <4> QED
          BY <1>2, <1>3, <4>1
      <3>2. ASSUME booked[d] > 0 PROVE RowsOf(d) # {}
        <4>1. 0 \in Nat /\ 0 < booked[d]
          BY <1>2, <3>2
        <4> QED
          BY <1>4, <4>1 DEF RowsOf
      <3> QED
        BY <3>1, <3>2
    <2> QED
      BY <2>1 DEF Entered
  <1> QED
    BY <1>11, <1>12 DEF Balanced, T

LEMMA LedgerInit ==
    ASSUME Init PROVE LedgerInv
  <1> DEFINE booked == [d \in Docs |-> 0]
  <1>1. booked \in [Docs -> 0 .. MaxPieces] /\ \A d \in Docs : booked[d] = 0
    BY KBAssumption
  <1> HIDE DEF booked
  <1>2. Ledger(booked) = {} /\ Entered(booked) = {}
    <2>1. ASSUME NEW p \in Ledger(booked) PROVE FALSE
      BY <1>1, KBAssumption DEF Ledger
    <2> QED
      BY <1>1, <2>1 DEF Entered
  <1>3. ASSUME NEW d \in Docs PROVE Booked(d, booked[d])
    <2>1. UnderWay(d) = {} /\ RowsOf(d) = {} /\ doc[d].status = "none" /\ doc[d].chunks = 0
      BY DEF Init, UnderWay, Under, RowsOf, Idle
    <2> QED
      BY <1>1, <2>1 DEF Booked, Busy, Rested, Whole
  <1>4. base.chunks = 0 /\ base.docs = 0
    BY DEF Init
  <1>5. Balanced(booked)
    BY <1>2, <1>3, <1>4, FS_EmptySet DEF Balanced
  <1> QED
    BY <1>1, <1>5 DEF LedgerInv

\* The counters of the base are the chunks and the documents that it holds
\* whenever no request is under way, as long as no call fails, no two requests
\* meet, and none is for a document that is deleted or has no chunks.
THEOREM KBCountersAgree == Spec => []CountersAgree
  <1> DEFINE Inv == CoreInv /\ LastInv /\ LedgerInv
  <1>1. Init => Inv
    <2>1. Init => LastInv
      BY KBAssumption DEF Init, LastInv, Idle
    <2> QED
      BY <2>1, CoreInit, LedgerInit
  <1>2. Inv /\ [Next]_vars => Inv'
    <2> SUFFICES ASSUME Inv, [Next]_vars PROVE Inv'
      OBVIOUS
    <2>1. CoreInv'
      BY CoreNext
    <2>2. CASE UNCHANGED vars
      <3>1. LastInv'
        BY <2>2, LastStutter
      <3>2. LedgerInv'
        <4>1. doc' = doc /\ rows' = rows /\ base' = base /\ req' = req
          BY <2>2 DEF vars
        <4> SUFFICES ASSUME Clean'
                     PROVE  \E booked \in [Docs -> 0 .. MaxPieces] : Balanced(booked)'
          BY DEF LedgerInv
        <4>2. Clean
          BY <4>1 DEF Clean
        <4>3. PICK booked \in [Docs -> 0 .. MaxPieces] : Balanced(booked)
          BY <4>2 DEF LedgerInv
        <4>4. ASSUME NEW e \in Docs PROVE Booked(e, booked[e])'
          <5>1. booked[e] \in Nat /\ Booked(e, booked[e])
            BY <4>3, KBAssumption DEF Balanced
          <5> QED
            BY <4>1, <5>1, OtherBooked DEF CoreInv, Under
        <4>5. Balanced(booked)'
          BY <4>1, <4>3, <4>4 DEF Balanced, Ledger, Entered
        <4> QED
          BY <4>5
      <3> QED
        BY <2>1, <3>1, <3>2
    <2>3. ASSUME NEW r \in Requests, NEW d \in Docs,
                 AddDoc(r, d) \/ ReindexDoc(r, d) \/ DeleteDoc(r, d)
          PROVE  Inv'
      BY <2>1, <2>3, LastStart, LedgerStart DEF CoreInv
    <2>4. ASSUME NEW r \in Requests, Move(r) PROVE Inv'
      BY <2>1, <2>4, LastMove, LedgerMove DEF CoreInv
    <2> QED
      BY <2>2, <2>3, <2>4, NextShape
  <1>3. Inv => CountersAgree
    <2> SUFFICES ASSUME Inv, \A r \in Requests : ~Under(r) /\ req[r].wrong = {}
                 PROVE  /\ base.chunks = Cardinality(rows)
                        /\ base.docs = Cardinality({d \in Docs : RowsOf(d) # {}})
      BY DEF CountersAgree
    <2>1. PICK booked \in [Docs -> 0 .. MaxPieces] : Balanced(booked)
      BY DEF LedgerInv, Clean
    <2> QED
      BY <2>1, LedgerRead DEF CoreInv
  <1> HIDE DEF Inv
  <1> QED
    BY <1>1, <1>2, <1>3, PTL DEF Spec
=============================================================================
