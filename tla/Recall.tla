------------------------------- MODULE Recall -------------------------------
(***************************************************************************)
(* What a turn is reminded of before the LLM is asked: MemoryManager.      *)
(* Retrieve looks for facts, then for texts (episodes and summaries in the *)
(* vector store), each in a goroutine that it waits for no longer than a   *)
(* timeout.  The fact store notes asynchronously which rows were used: the *)
(* ids go through a bounded channel to one loop that updates the table.    *)
(*                                                                         *)
(*   rows     the active rows of the user                                  *)
(*   uses     hit_count of each row                                        *)
(*   queue    markCh                                                       *)
(*   pending  the ids that markLoop has collected                          *)
(*   vecs     the texts in the vector store, oldest first                  *)
(*   at       where a turn is                                              *)
(*   job      its two goroutines: where each is, the ids it has to mark    *)
(* and, for the properties only:                                           *)
(*   recalls  how often a row was recalled                                 *)
(*   dropped  the uses of each row that met a full channel, or an update   *)
(*            that failed                                                  *)
(*   merged   the uses of each row that met another use of the row, among  *)
(*            those that markLoop had collected                            *)
(*                                                                         *)
(* All channels are configured.  A score stands for the weighted sum of    *)
(* confidence, freshness and relevance, and for the similarity of texts.   *)
(* What a turn receives goes into its prompt and nowhere else: Section     *)
(* says what it is, one section for each channel and each with the whole   *)
(* budget.                                                                 *)
(***************************************************************************)
EXTENDS Integers, FiniteSets, SequencesExt

CONSTANTS
    Turns,
    Facts,       \* ids of rows
    Texts,
    Scores,      \* what a score can be
    Freshness,   \* what the part of it that fades with a text's age can be
    MinScore, MinSimilarity,
    FactTopK, VectorTopK,
    Length,      \* the length of the line of each fact and text
    Budget,      \* budget_ratio * budgetBaseChars, 0 for none
    QueueCap,    \* 256 in the code
    BatchCap,    \* 128 in the code
    MaxVectors   \* maxVectorsPerUser

ASSUME RecallAssumption ==
    /\ IsFiniteSet(Facts) /\ Facts \cap Texts = {}
    /\ Scores \subseteq Nat /\ Freshness \subseteq Nat
    /\ MinScore \in Nat /\ MinSimilarity \in Nat
    /\ FactTopK \in Nat /\ VectorTopK \in Nat /\ Budget \in Nat
    /\ Length \in [Facts \cup Texts -> Nat]
    /\ QueueCap \in Nat \ {0} /\ BatchCap \in Nat \ {0} /\ MaxVectors \in Nat \ {0}

VARIABLES rows, uses, queue, pending, vecs, at, job, recalls, dropped, merged

history == <<recalls, dropped, merged>>
marks == <<uses, queue, pending>>
vars == <<rows, uses, queue, pending, vecs, at, job, recalls, dropped, merged>>

Channels == {"facts", "texts"}
NoJob == [at |-> "none", toMark |-> <<>>]

Init ==
    /\ rows = Facts
    /\ uses = [f \in Facts |-> 0]
    /\ queue = <<>> /\ pending = {}
    /\ vecs = <<>>
    /\ at = [t \in Turns |-> "idle"]
    /\ job = [t \in Turns |-> [c \in Channels |-> NoJob]]
    /\ recalls = [f \in Facts |-> 0]
    /\ dropped = [f \in Facts |-> 0] /\ merged = [f \in Facts |-> 0]
-----------------------------------------------------------------------------
\* Those that come before x: all that score higher, and of its equals the ones
\* that were there first.
Before(score, place, x) ==
    {y \in DOMAIN score :
        \/ score[y] > score[x]
        \/ score[y] = score[x] /\ place[y] < place[x]}

\* What the insertion sort makes of them: each with its score, the best first.
Sorted(score, place) ==
    [k \in 1 .. Cardinality(DOMAIN score) |->
        LET x == CHOOSE y \in DOMAIN score : Cardinality(Before(score, place, y)) = k - 1
        IN  [of |-> x, score |-> score[x]]]

Cut(hits, topK) == IF topK > 0 /\ Len(hits) > topK THEN SubSeq(hits, 1, topK) ELSE hits

\* The query asks for no order and sort.Slice keeps none among equals.
Orders(S) == {place \in [S -> 1 .. Cardinality(S)] : IsInjective(place)}

Enough(score) == {f \in DOMAIN score : score[f] >= MinScore}

BestFacts(score, order) == Cut(Sorted(Restrict(score, Enough(score)), order), FactTopK)

\* What scoreOf makes of each row, from its confidence, age and relevance.
FactScores == [rows -> Scores]

\* How similar the question is to each text, as the embedder and the cosine
\* have it: whatever they make of them, equal texts are equally similar.
Similarities == [Range(vecs) -> Scores]

\* How fresh the texts are, which never makes an older one fresher than a later
\* one: equally so are those of one day.
Ages == {fresh \in [DOMAIN vecs -> Freshness] :
            \A i, k \in DOMAIN vecs : i < k => fresh[i] <= fresh[k]}

\* Search of the vector store.
Nearest(similar, fresh, order) ==
    LET found == {i \in DOMAIN vecs : similar[vecs[i]] >= MinSimilarity}
        near == Cut(Sorted([i \in found |-> similar[vecs[i]]], order), VectorTopK)
    IN  [k \in DOMAIN near |->
            [of |-> vecs[near[k].of], score |-> near[k].score, fresh |-> fresh[near[k].of]]]

\* Each part with its weight in it.
Blended(hit) == hit.score + hit.fresh

HitsOf(hits, text) == {i \in DOMAIN hits : hits[i].of = text}

\* Mutant of Rerank: a text keeps the score that it was first found with.
RerankFirst(hits) ==
    LET found == {hits[i].of : i \in DOMAIN hits}
        first == [x \in found |-> Min(HitsOf(hits, x))]
    IN  Sorted([x \in found |-> Blended(hits[first[x]])], first)

\* Each text is one line, at the place where it was first found; one that was
\* found several times has its best score.
Rerank(hits) ==
    LET found == {hits[i].of : i \in DOMAIN hits}
    IN  Sorted([x \in found |-> Max({Blended(hits[i]) : i \in HitsOf(hits, x)})],
               [x \in found |-> Min(HitsOf(hits, x))])

Total(lines) == FoldLeft(LAMBDA sum, line : sum + Length[line.of] + 1, 0, lines)

\* The lines before the first one that exceeds the budget.
TruncateToBudget(lines) ==
    LET fits == {n \in 0 .. Len(lines) : Total(SubSeq(lines, 1, n)) <= Budget}
    IN  IF Budget = 0 THEN lines
        ELSE SubSeq(lines, 1, CHOOSE n \in fits : \A m \in fits : m <= n)

Section(c, hits) == TruncateToBudget(IF c = "texts" THEN Rerank(hits) ELSE hits)
-----------------------------------------------------------------------------
GoOn(t, c) == at' = [at EXCEPT ![t] = IF c = "facts" THEN "texts" ELSE "done"]

Launched == [NoJob EXCEPT !.at = "reading"]

\* The jobs of t, with j for channel c; after the facts come the texts.
Jobs(t, c, j) ==
    [job EXCEPT ![t][c] = j,
                ![t]["texts"] = IF c = "facts" THEN Launched ELSE j]

\* The router recalls nothing for a message that is no question.
Ask(t) ==
    /\ at[t] = "idle"
    /\ \/ /\ at' = [at EXCEPT ![t] = "facts"]
          /\ job' = [job EXCEPT ![t]["facts"] = Launched]
       \/ at' = [at EXCEPT ![t] = "done"] /\ UNCHANGED job
    /\ UNCHANGED <<rows, marks, vecs, history>>

\* A count of rows, with one more for each row of S.
PlusOne(count, S) == [f \in Facts |-> count[f] + IF f \in S THEN 1 ELSE 0]

\* The goroutine reads the active rows and notes which it returns.
ReadFacts(t) ==
    /\ job[t]["facts"].at = "reading"
    /\ \E score \in FactScores, order \in Orders(rows) :
          LET best == BestFacts(score, order)
              ids == [i \in DOMAIN best |-> best[i].of]
          IN  /\ job' = [job EXCEPT ![t]["facts"] = [at |-> "answering", toMark |-> ids]]
              /\ recalls' = PlusOne(recalls, Range(ids))
    /\ UNCHANGED <<rows, marks, vecs, at, dropped, merged>>

\* The question is embedded and searched for; or this fails, or the query for
\* the facts does, or either gives up with the context.
Search(t, c) ==
    /\ job[t][c].at = "reading"
    /\ job' = [job EXCEPT ![t][c].at = "answering"]
    /\ UNCHANGED <<rows, marks, vecs, at, history>>

\* MarkUsedAsync: one id, dropped when the channel is full.
MarkUsed(t) ==
    LET j == job[t]["facts"] IN
    /\ j.at = "answering" /\ j.toMark # <<>>
    /\ IF Len(queue) < QueueCap
       THEN queue' = Append(queue, Head(j.toMark)) /\ UNCHANGED dropped
       ELSE dropped' = PlusOne(dropped, {Head(j.toMark)}) /\ UNCHANGED queue
    /\ job' = [job EXCEPT ![t]["facts"].toMark = Tail(@)]
    /\ UNCHANGED <<rows, uses, pending, vecs, at, recalls, merged>>

\* Mutant of Send: the channel of the result has no buffer.
SendUnbuffered(t, c) ==
    /\ job[t][c].at = "answering" /\ job[t][c].toMark = <<>> /\ at[t] = c
    /\ job' = [job EXCEPT ![t][c].at = "sent"]
    /\ UNCHANGED <<rows, marks, vecs, at, history>>

\* The channel of the result holds one, so nobody has to wait for it.
Send(t, c) ==
    /\ job[t][c].at = "answering" /\ job[t][c].toMark = <<>>
    /\ job' = [job EXCEPT ![t][c] = IF at[t] = c THEN [@ EXCEPT !.at = "sent"] ELSE NoJob]
    /\ UNCHANGED <<rows, marks, vecs, at, history>>

Receive(t, c) ==
    /\ at[t] = c /\ job[t][c].at = "sent"
    /\ job' = Jobs(t, c, NoJob)
    /\ GoOn(t, c)
    /\ UNCHANGED <<rows, marks, vecs, history>>

\* The timeout, or a client that left; even when a result is there, for
\* select takes either.  The goroutine lives on.
TimeOut(t, c) ==
    /\ at[t] = c
    /\ job' = Jobs(t, c, IF job[t][c].at = "sent" THEN NoJob ELSE job[t][c])
    /\ GoOn(t, c)
    /\ UNCHANGED <<rows, marks, vecs, history>>
-----------------------------------------------------------------------------
\* markLoop takes an id, unless enough have come together.  A set of ids keeps
\* one of several uses.
Collect ==
    /\ queue # <<>> /\ Cardinality(pending) < BatchCap
    /\ pending' = pending \cup {Head(queue)}
    /\ merged' = PlusOne(merged, {Head(queue)} \cap pending)
    /\ queue' = Tail(queue)
    /\ UNCHANGED <<rows, uses, vecs, at, job, recalls, dropped>>

\* One update of all rows that are still there.
CountUses == PlusOne(uses, pending \cap rows)

\* Mutant of Flush: the ids are kept, to be counted again.
FlushKeeps ==
    /\ pending # {}
    /\ uses' = CountUses
    /\ UNCHANGED <<rows, queue, pending, vecs, at, job, history>>

\* On the ticker, or when enough have come; a failure is logged.
Flush ==
    /\ pending # {}
    /\ \/ uses' = CountUses /\ UNCHANGED dropped
       \/ dropped' = PlusOne(dropped, pending) /\ UNCHANGED uses
    /\ pending' = {}
    /\ UNCHANGED <<rows, queue, vecs, at, job, recalls, merged>>

\* Meanwhile Admit evicts a row.  One that it archives is not recalled again
\* either, but its uses are counted, which this leaves out.
Evict(f) ==
    /\ rows' = rows \ {f}
    /\ UNCHANGED <<marks, vecs, at, job, history>>

\* Mutant of Upsert: the cap is checked before the append.
UpsertLate(text) == Append(IF Len(vecs) > MaxVectors THEN Tail(vecs) ELSE vecs, text)

\* Upsert: items that come from no row are never found again by their id, so
\* each is appended; the oldest go.
Upsert(text) ==
    LET longer == Append(vecs, text) IN
    IF Len(longer) > MaxVectors THEN Tail(longer) ELSE longer

\* An episode or the summary of a session is embedded.
AdmitEpisodic(text) ==
    /\ vecs' = Upsert(text)
    /\ UNCHANGED <<rows, marks, at, job, history>>

Worker(t) ==
    \/ MarkUsed(t)
    \/ \E c \in Channels : Send(t, c)

Turn(t) == \E c \in Channels : Receive(t, c) \/ TimeOut(t, c)

MarkLoop == Collect \/ Flush

Next ==
    \/ \E t \in Turns :
          \/ Ask(t) \/ ReadFacts(t)
          \/ \E c \in Channels : Search(t, c)
          \/ Worker(t) \/ Turn(t)
    \/ MarkLoop
    \/ \E f \in rows : Evict(f)
    \/ \E text \in Texts : AdmitEpisodic(text)

\* A timer fires and a goroutine that can run does; the database and the
\* embedder need not answer.
Fairness == \A t \in Turns : WF_vars(Turn(t)) /\ WF_vars(Worker(t))

Spec == Init /\ [][Next]_vars
FairSpec == Spec /\ Fairness
-----------------------------------------------------------------------------
Job == [at : {"none", "reading", "answering", "sent"}, toMark : Seq(Facts)]

TypeOK ==
    /\ rows \subseteq Facts
    /\ uses \in [Facts -> Nat] /\ recalls \in [Facts -> Nat]
    /\ dropped \in [Facts -> Nat] /\ merged \in [Facts -> Nat]
    /\ queue \in Seq(Facts) /\ Len(queue) <= QueueCap
    /\ pending \subseteq Facts /\ Cardinality(pending) <= BatchCap
    /\ vecs \in Seq(Texts) /\ Len(vecs) <= MaxVectors
    /\ at \in [Turns -> {"idle", "facts", "texts", "done"}]
    /\ job \in [Turns -> [Channels -> Job]]

\* The uses of a row that are under way: in goroutines, in the channel and with
\* the loop.
Markers(f) == {t \in Turns : f \in Range(job[t]["facts"].toMark)}
Queued(f) == {i \in DOMAIN queue : queue[i] = f}
Collected(f) == IF f \in pending THEN 1 ELSE 0
Underway(f) == Cardinality(Markers(f)) + Cardinality(Queued(f)) + Collected(f)

\* However recalls, the loop and evictions interleave, a row is never counted
\* as used more often than it was recalled; and each recall of a row that is still
\* there is counted in the end, one by one, but for those that met a full channel,
\* a failed update, or a use that was waiting for the same update.
UsesCounted ==
    \A f \in Facts :
        LET known == uses[f] + dropped[f] + merged[f] + Underway(f) IN
        known <= recalls[f] /\ (f \in rows => known = recalls[f])

\* Whatever the scores are and however the rows come, what is injected fits the
\* budget, names nothing twice and has the best first: no fact that was left
\* out scores higher than one that was not, and each text has the best score it
\* was found with, however often it was stored.
Ordered(lines) ==
    \A i, j \in DOMAIN lines :
        i < j => lines[i].of # lines[j].of /\ lines[i].score >= lines[j].score

Fits(lines) == Budget > 0 => Total(lines) <= Budget

BestOfFacts(score, order) ==
    LET lines == Section("facts", BestFacts(score, order)) IN
    /\ Ordered(lines) /\ Fits(lines)
    /\ \A i \in DOMAIN lines, f \in DOMAIN score :
          score[f] > lines[i].score => \E k \in 1 .. i : lines[k].of = f

BestOfTexts(hits) ==
    LET lines == Section("texts", hits) IN
    /\ Ordered(lines) /\ Fits(lines)
    /\ \A i \in DOMAIN lines, k \in DOMAIN hits :
          Blended(hits[k]) > lines[i].score => \E n \in 1 .. i - 1 : lines[n].of = hits[k].of

Reading(c) == \E t \in Turns : at[t] = c /\ job[t][c].at = "reading"

InjectsTheBest ==
    /\ Reading("facts") =>
          \A score \in FactScores, order \in Orders(rows) : BestOfFacts(score, order)
    /\ Reading("texts") =>
          \A similar \in Similarities, fresh \in Ages, order \in Orders(DOMAIN vecs) :
              BestOfTexts(Nearest(similar, fresh, order))

\* A turn is never held up by its memory, although the database and the
\* embedder may never answer; and once they have answered, the goroutine ends,
\* although nobody may wait for it any more and the mark channel may be full.
Quiet(t) ==
    /\ at[t] \in {"idle", "done"}
    /\ \A c \in Channels : job[t][c].at # "answering"

NothingHangs == \A t \in Turns : []<> Quiet(t)
=============================================================================
