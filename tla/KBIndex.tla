------------------------------- MODULE KBIndex -------------------------------
(***************************************************************************)
(* The knowledge base of one agent: documents are added, reindexed and     *)
(* deleted by HTTP requests, each of which walks through the document      *)
(* table, the chunk table, the vector store and the counters of the base,  *)
(* one call after the other and without a transaction.                     *)
(*                                                                         *)
(*   doc   kb_docs: the status and the chunk count of every document       *)
(*   rows  kb_chunks.  A row is known by the request that wrote it and the *)
(*         index of its chunk (ids are never used twice); vid tells        *)
(*         whether its column vector_id is filled, with its own id         *)
(*   vecs  the vector store: id is the row a vector is filed under, piece  *)
(*         the chunk of the same request that was embedded                 *)
(*   base  the counters of the table kb                                    *)
(*   req   the requests: what each one does, how far it is, what it read,  *)
(*         and whether its client has left, so that its context is done    *)
(*   last  the last request that began for a document                      *)
(*                                                                         *)
(* last and the field wrong of req only record the past, for the           *)
(* properties.  A text is abstracted to the number of its chunks, an       *)
(* embedding to the chunk it was computed from.                            *)
(***************************************************************************)
EXTENDS Integers, FiniteSets

CONSTANTS
    Docs,
    Requests,
    Nobody,             \* no document, no request
    MaxPieces,          \* bound: the chunks of a document
    Faults              \* what may go wrong

ASSUME KBAssumption ==
    /\ Nobody \notin Docs \cup Requests
    /\ MaxPieces \in Nat \ {0}
    /\ Faults \subseteq {"parse", "embed", "vectors", "db", "gone", "meet"}

VARIABLES doc, rows, vecs, base, req, last

vars == <<doc, rows, vecs, base, req, last>>

Statuses == {"none", "pending", "indexing", "ready", "failed", "archived"}
Steps == {"idle", "load", "mark", "cut", "list", "purge", "clear", "insert",
          "upsert", "persist", "meta", "count", "ready", "fail",
          "tally", "archive", "uncount", "over", "failed"}

Row == [doc : Docs, by : Requests, idx : Nat, vid : BOOLEAN]
Vector == [by : Requests, id : Nat, piece : Nat]
RowId == [by : Requests, id : Nat]
Request == [on : Docs \cup {Nobody}, kind : {"index", "delete"}, at : Steps,
            had : Nat, pieces : Nat, embedded : SUBSET Nat,
            old : SUBSET RowId, gone : BOOLEAN,
            wrong : SUBSET {"call", "insert", "odd", "met"}]

RowsOf(d) == {row \in rows : row.doc = d}
Id(row) == [by |-> row.by, id |-> row.idx]
Idle == [on |-> Nobody, kind |-> "index", at |-> "idle", had |-> 0,
         pieces |-> 0, embedded |-> {}, old |-> {}, gone |-> FALSE, wrong |-> {}]

Init ==
    /\ doc = [d \in Docs |-> [status |-> "none", chunks |-> 0]]
    /\ rows = {} /\ vecs = {}
    /\ base = [docs |-> 0, chunks |-> 0]
    /\ req = [r \in Requests |-> Idle]
    /\ last = [d \in Docs |-> Nobody]

-----------------------------------------------------------------------------
Under(r) == req[r].at \notin {"idle", "over", "failed"}
UnderWay(d) == {r \in Requests : Under(r) /\ req[r].on = d}
Busy(d) == UnderWay(d) # {}

\* Bound: one call fails by itself, one client leaves, or two requests for
\* one document overlap.
Spared == \A r \in Requests :
             ~req[r].gone /\ req[r].wrong \cap {"call", "insert", "met"} = {}
MayFail(fault) == fault \in Faults /\ Spared

\* A database call, which fails whenever the request's context is done.
Works(r) == ~req[r].gone
Breaks(r) == req[r].gone \/ MayFail("db")

\* The next step of r; what it has read ends with it.
Reach(r, step, wrong) ==
    LET now == [req[r] EXCEPT !.at = step, !.wrong = @ \cup wrong] IN
    req' = [req EXCEPT ![r] =
               IF step \in {"over", "failed"}
               THEN [now EXCEPT !.had = 0, !.embedded = {}, !.old = {}, !.gone = FALSE]
               ELSE now]

Go(r, step) == Reach(r, step, {})

\* After a call that failed.
GoWrong(r, step, what) == Reach(r, step, {what})

SetStatus(d, status) == doc' = [doc EXCEPT ![d].status = status]

(***************************************************************************)
(* The requests.                                                           *)
(***************************************************************************)
Start(r, d, kind, step, odd) ==
    /\ req[r].at = "idle"
    /\ Busy(d) => MayFail("meet")
    /\ req' = [q \in Requests |->
                  IF q = r
                  THEN [Idle EXCEPT !.on = d, !.kind = kind, !.at = step,
                                    !.wrong = (IF odd THEN {"odd"} ELSE {})
                                              \cup (IF Busy(d) THEN {"met"} ELSE {})]
                  ELSE IF q \in UnderWay(d) THEN [req[q] EXCEPT !.wrong = @ \cup {"met"}]
                  ELSE req[q]]
    /\ last' = [last EXCEPT ![d] = r]
    /\ UNCHANGED <<rows, vecs, base>>

AddDoc(r, d) ==
    /\ doc[d].status = "none"
    /\ SetStatus(d, "pending")
    /\ Start(r, d, "index", "load", FALSE)

\* Get finds archived documents too.
ReindexDoc(r, d) ==
    /\ doc[d].status # "none"
    /\ Start(r, d, "index", "load", doc[d].status = "archived")
    /\ UNCHANGED doc

DeleteDoc(r, d) ==
    /\ doc[d].status # "none"
    /\ Start(r, d, "delete", "tally",
             doc[d].status = "archived" \/ doc[d].chunks = 0)
    /\ UNCHANGED doc

\* The client disconnects: net/http cancels the request's context.
Leave(r) ==
    /\ Under(r)
    /\ MayFail("gone")
    /\ req' = [req EXCEPT ![r].gone = TRUE]
    /\ UNCHANGED <<doc, rows, vecs, base, last>>

(***************************************************************************)
(* syncIndexer.Index up to the first write.                                *)
(***************************************************************************)
Load(r) ==
    /\ req[r].at = "load"
    /\ \/ /\ Works(r)
          /\ req' = [req EXCEPT ![r].had = doc[req[r].on].chunks, ![r].at = "mark"]
       \/ Breaks(r) /\ GoWrong(r, "failed", "call")
    /\ UNCHANGED <<doc, rows, vecs, base, last>>

Mark(r) ==
    /\ req[r].at = "mark"
    /\ \/ Works(r) /\ SetStatus(req[r].on, "indexing") /\ Go(r, "cut")
       \/ Breaks(r) /\ GoWrong(r, "failed", "call") /\ UNCHANGED doc
    /\ UNCHANGED <<rows, vecs, base, last>>

\* Parse, chunk and embed; a chunk that cannot be embedded has no vector.
Cut(r) ==
    /\ req[r].at = "cut"
    /\ \E n \in 1 .. MaxPieces : \E embedded \in SUBSET (0 .. n - 1) :
          /\ embedded # 0 .. n - 1 => "embed" \in Faults \/ req[r].gone
          /\ req' = [req EXCEPT ![r].pieces = n, ![r].embedded = embedded,
                                ![r].at = IF req[r].had > 0 THEN "list" ELSE "clear"]
    /\ UNCHANGED <<doc, rows, vecs, base, last>>

\* Nothing can be read from the content.
Unreadable(r) ==
    /\ req[r].at = "cut"
    /\ "parse" \in Faults
    /\ Go(r, "fail")
    /\ UNCHANGED <<doc, rows, vecs, base, last>>

(***************************************************************************)
(* The clean-up that Index and DeleteDoc have in common.                   *)
(***************************************************************************)
\* Mutant of ListOld: takes the vectors of the first chunk only.
ListFirst(r) ==
    /\ req[r].at = "list"
    /\ \/ /\ Works(r)
          /\ req' = [req EXCEPT ![r].at = "purge",
                        ![r].old = {Id(row) : row \in {x \in RowsOf(req[r].on) : x.vid /\ x.idx = 0}}]
       \/ Breaks(r) /\ GoWrong(r, "clear", "call")
    /\ UNCHANGED <<doc, rows, vecs, base, last>>

ListOld(r) ==
    /\ req[r].at = "list"
    /\ \/ /\ Works(r)
          /\ req' = [req EXCEPT ![r].at = "purge",
                        ![r].old = {Id(row) : row \in {x \in RowsOf(req[r].on) : x.vid}}]
       \/ Breaks(r) /\ GoWrong(r, "clear", "call")
    /\ UNCHANGED <<doc, rows, vecs, base, last>>

\* DeleteByIDs.  The in-memory vector store pays no heed to the context.
Purge(r) ==
    /\ req[r].at = "purge"
    /\ \/ /\ vecs' = {v \in vecs : [by |-> v.by, id |-> v.id] \notin req[r].old}
          /\ Go(r, "clear")
       \/ MayFail("vectors") /\ GoWrong(r, "clear", "call") /\ UNCHANGED vecs
    /\ UNCHANGED <<doc, rows, base, last>>

\* Mutant of Clear: leaves the chunks beyond the new document's end.
ClearSome(r) ==
    /\ req[r].at = "clear"
    /\ LET next == IF req[r].kind = "delete" THEN "archive" ELSE "insert" IN
       \/ /\ Works(r)
          /\ rows' = {x \in rows : ~(x.doc = req[r].on /\ x.idx < req[r].pieces)}
          /\ Go(r, next)
       \/ Breaks(r) /\ GoWrong(r, next, "call") /\ UNCHANGED rows
    /\ UNCHANGED <<doc, vecs, base, last>>

\* DeleteByDoc
Clear(r) ==
    /\ req[r].at = "clear"
    /\ LET next == IF req[r].kind = "delete" THEN "archive" ELSE "insert" IN
       \/ Works(r) /\ rows' = rows \ RowsOf(req[r].on) /\ Go(r, next)
       \/ Breaks(r) /\ GoWrong(r, next, "call") /\ UNCHANGED rows
    /\ UNCHANGED <<doc, vecs, base, last>>

(***************************************************************************)
(* syncIndexer.Index from the first write.                                 *)
(***************************************************************************)
\* BatchUpsert: one transaction.
Insert(r) ==
    /\ req[r].at = "insert"
    /\ \/ /\ Works(r)
          /\ rows' = rows \cup [doc : {req[r].on}, by : {r},
                                idx : 0 .. req[r].pieces - 1, vid : {FALSE}]
          /\ Go(r, IF req[r].embedded = {} THEN "meta" ELSE "upsert")
       \/ /\ Breaks(r)
          /\ GoWrong(r, "fail", "insert")
          /\ UNCHANGED rows
    /\ UNCHANGED <<doc, vecs, base, last>>

\* Mutant of Filed: counts the rows from one.
FiledFromOne(r) ==
    {[by |-> r, piece |-> p, id |-> Cardinality({q \in req[r].embedded : q < p}) - 1] :
        p \in req[r].embedded}

\* The i-th vector is filed under the i-th row, and the row told so, whether
\* or not it is the i-th chunk that was embedded.
Filed(r) ==
    {[by |-> r, piece |-> p, id |-> Cardinality({q \in req[r].embedded : q < p})] :
        p \in req[r].embedded}

Upsert(r) ==
    /\ req[r].at = "upsert"
    /\ \/ vecs' = vecs \cup Filed(r)
       \/ "vectors" \in Faults /\ UNCHANGED vecs
    /\ Go(r, "persist")
    /\ UNCHANGED <<doc, rows, base, last>>

\* persistVectorIDs: one update after the other, of rows that may be gone.
PersistVectorIDs(r) ==
    /\ req[r].at = "persist"
    /\ LET mine == {row \in rows : row.by = r /\ row.idx < Cardinality(req[r].embedded)}
           Tell(S) == rows' = (rows \ S) \cup {[row EXCEPT !.vid = TRUE] : row \in S} IN
       \/ Works(r) /\ Tell(mine) /\ Go(r, "meta")
       \/ Breaks(r) /\ (\E S \in SUBSET mine : Tell(S)) /\ GoWrong(r, "meta", "call")
    /\ UNCHANGED <<doc, vecs, base, last>>

UpdateMeta(r) ==
    /\ req[r].at = "meta"
    /\ \/ /\ Works(r)
          /\ doc' = [doc EXCEPT ![req[r].on] = [status |-> "ready", chunks |-> req[r].pieces]]
          /\ Go(r, "count")
       \/ Breaks(r) /\ GoWrong(r, "count", "call") /\ UNCHANGED doc
    /\ UNCHANGED <<rows, vecs, base, last>>

AddTo(docs, chunks) ==
    base' = [docs |-> base.docs + docs, chunks |-> base.chunks + chunks]

\* Mutant of UpdateCounters: adds all the chunks of a reindexed document.
UpdateCountersAgain(r) ==
    /\ req[r].at = "count"
    /\ \/ /\ Works(r)
          /\ AddTo(IF req[r].had = 0 THEN 1 ELSE 0, req[r].pieces)
          /\ Go(r, "ready")
       \/ Breaks(r) /\ GoWrong(r, "ready", "call") /\ UNCHANGED base
    /\ UNCHANGED <<doc, rows, vecs, last>>

\* A document without chunks is taken for a new one.
UpdateCounters(r) ==
    /\ req[r].at = "count"
    /\ \/ /\ Works(r)
          /\ AddTo(IF req[r].had = 0 THEN 1 ELSE 0, req[r].pieces - req[r].had)
          /\ Go(r, "ready")
       \/ Breaks(r) /\ GoWrong(r, "ready", "call") /\ UNCHANGED base
    /\ UNCHANGED <<doc, rows, vecs, last>>

Ready(r) ==
    /\ req[r].at = "ready"
    /\ \/ Works(r) /\ SetStatus(req[r].on, "ready") /\ Go(r, "over")
       \/ Breaks(r) /\ GoWrong(r, "over", "call") /\ UNCHANGED doc
    /\ UNCHANGED <<rows, vecs, base, last>>

\* Mutant of Fail: the deferred function is dropped.
FailSilently(r) ==
    /\ req[r].at = "fail"
    /\ Go(r, "failed")
    /\ UNCHANGED <<doc, rows, vecs, base, last>>

\* The deferred function, which uses the context of the request as well.
Fail(r) ==
    /\ req[r].at = "fail"
    /\ \/ Works(r) /\ SetStatus(req[r].on, "failed") /\ Go(r, "failed")
       \/ Breaks(r) /\ GoWrong(r, "failed", "call") /\ UNCHANGED doc
    /\ UNCHANGED <<rows, vecs, base, last>>

Index(r) ==
    \/ Load(r) \/ Mark(r) \/ Cut(r) \/ Unreadable(r)
    \/ Insert(r) \/ Upsert(r) \/ PersistVectorIDs(r)
    \/ UpdateMeta(r) \/ UpdateCounters(r) \/ Ready(r) \/ Fail(r)

(***************************************************************************)
(* DeleteDoc.                                                              *)
(***************************************************************************)
\* CountByDoc, whose error is dropped.
Tally(r) ==
    /\ req[r].at = "tally"
    /\ \/ /\ Works(r)
          /\ req' = [req EXCEPT ![r].had = Cardinality(RowsOf(req[r].on)), ![r].at = "list"]
       \/ Breaks(r) /\ GoWrong(r, "list", "call")
    /\ UNCHANGED <<doc, rows, vecs, base, last>>

Archive(r) ==
    /\ req[r].at = "archive"
    /\ \/ Works(r) /\ SetStatus(req[r].on, "archived") /\ Go(r, "uncount")
       \/ Breaks(r) /\ GoWrong(r, "failed", "call") /\ UNCHANGED doc
    /\ UNCHANGED <<rows, vecs, base, last>>

Uncount(r) ==
    /\ req[r].at = "uncount"
    /\ \/ Works(r) /\ AddTo(-1, -req[r].had) /\ Go(r, "over")
       \/ Breaks(r) /\ GoWrong(r, "over", "call") /\ UNCHANGED base
    /\ UNCHANGED <<doc, rows, vecs, last>>

Delete(r) == Tally(r) \/ Archive(r) \/ Uncount(r)

Next ==
    \E r \in Requests :
        \/ \E d \in Docs : AddDoc(r, d) \/ ReindexDoc(r, d) \/ DeleteDoc(r, d)
        \/ Leave(r)
        \/ Index(r) \/ Delete(r)
        \/ ListOld(r) \/ Purge(r) \/ Clear(r)

Spec == Init /\ [][Next]_vars
-----------------------------------------------------------------------------
TypeOK ==
    /\ doc \in [Docs -> [status : Statuses, chunks : Nat]]
    /\ rows \subseteq Row
    /\ vecs \subseteq Vector
    /\ base \in [docs : Int, chunks : Int]
    /\ req \in [Requests -> Request]
    /\ last \in [Docs -> Requests \cup {Nobody}]

\* No call of a request for d has failed, other than the insertion of chunks.
Unharmed(d) == \A r \in Requests : req[r].on = d => "call" \notin req[r].wrong

\* Whatever went wrong before and whatever happens to other documents, the
\* last request for a document has its full effect if all its own calls
\* worked and it met no other one for the document: it puts right what two
\* that met have left.  After an indexing the document is ready with exactly the chunks of
\* the new text, after a deletion it is archived and nothing of it is left
\* for the keyword search.
LastRequestWins ==
    \A d \in Docs : \A r \in Requests :
        last[d] = r /\ req[r].at = "over" /\ req[r].wrong \cap {"call", "met"} = {} =>
            IF req[r].kind = "delete"
            THEN doc[d].status = "archived" /\ RowsOf(d) = {}
            ELSE /\ doc[d] = [status |-> "ready", chunks |-> req[r].pieces]
                 /\ {Id(row) : row \in RowsOf(d)} = [by : {r}, id : 0 .. req[r].pieces - 1]

\* Between requests, the vectors of a document are filed under rows that
\* exist and know of it, so that the search finds a text for each of them and
\* the next clean-up finds each of them - whatever happens to other documents.
NoStrayVector ==
    \A v \in vecs : LET d == req[v.by].on IN
        ~Busy(d) /\ Unharmed(d) /\ "met" \notin req[v.by].wrong =>
            [doc |-> d, by |-> v.by, idx |-> v.id, vid |-> TRUE] \in rows

\* Between requests no document is left waiting or half indexed, not even if
\* requests for it have met: each one is ready, failed or deleted, unless a
\* call of one of its own requests failed.
NotLeftIndexing ==
    \A d \in Docs :
        ~Busy(d) /\ Unharmed(d) => doc[d].status \notin {"pending", "indexing"}

\* The counters of the base are those of its documents, as long as no call
\* fails, no two requests meet, and none is for a document that is deleted or
\* has no chunks.
CountersAgree ==
    (\A r \in Requests : ~Under(r) /\ req[r].wrong = {}) =>
        /\ base.chunks = Cardinality(rows)
        /\ base.docs = Cardinality({d \in Docs : RowsOf(d) # {}})

\* "vector_id = chunk_id": a vector is filed under the chunk it was made of.
VectorOfItsChunk == \A v \in vecs : v.id = v.piece
=============================================================================
