------------------------------ MODULE IdleScan ------------------------------
(***************************************************************************)
(* The idle scanner: once a minute it takes a batch of sessions that have  *)
(* been silent and are not marked as summarized, and gives each one that   *)
(* this process has not handled yet to OnIdle, which reads the history,    *)
(* asks the LLM for a summary, saves it and marks the session.  Messages   *)
(* arrive meanwhile.  There is one scanner, so one OnIdle at a time.       *)
(*                                                                         *)
(*   said        the number of messages stored in a session                *)
(*   activity    last_active_at: "none", "recent", or "idle" when it is    *)
(*               longer ago than idle_ttl                                  *)
(*   summarized  the sessions marked so in the table                       *)
(*   covered     the messages that a session's last summary was made from  *)
(*   seen        the sessions handled in this life of the process          *)
(*   todo        the rows of the current sweep that are still to come      *)
(*   phase       where the scanner is, "hung" in a call that never         *)
(*               returns, and current the session it is at                 *)
(*   read        how many messages it has read of current                  *)
(*   asked       how often the LLM was asked for a session in this life    *)
(*   lives       how often the process has started                         *)
(*   behind      the sessions with a message that the code owes no         *)
(*               summary, or whose summary or reopening was not saved      *)
(*                                                                         *)
(* Time is abstracted to GoIdle.  The texts of messages and summaries, the *)
(* vector store a summary is copied to and deleted sessions are left out.  *)
(***************************************************************************)
EXTENDS Integers, FiniteSets, FiniteSetsExt

CONSTANTS
    Sessions,
    Nobody,         \* no session is being handled
    IdleScanBatch,  \* the most rows of a sweep
    MaxSummaryHistory,  \* the most messages a summary is made from
    MayFail,        \* TRUE: queries and LLM calls may fail
    MaxMessages,    \* the bound on said
    MaxLives        \* the bound on lives

ASSUME IdleAssumption ==
    /\ Nobody \notin Sessions
    /\ IdleScanBatch \in Nat \ {0} /\ MaxSummaryHistory \in Nat \ {0}
    /\ MayFail \in BOOLEAN
    /\ MaxMessages \in Nat /\ MaxLives \in Nat \ {0}

VARIABLES said, activity, summarized, covered, seen, todo, phase, current, read, asked,
          lives, behind

table == <<said, activity, summarized, covered>>
scanVars == <<said, activity, summarized, covered, seen, todo, phase, current, read, asked,
              lives, behind>>

ScanInit ==
    /\ said = [s \in Sessions |-> 0]
    /\ activity = [s \in Sessions |-> "none"] /\ summarized = {}
    /\ covered = [s \in Sessions |-> {}]
    /\ seen = {} /\ todo = {}
    /\ phase = "waiting" /\ current = Nobody /\ read = 0
    /\ asked = [s \in Sessions |-> 0]
    /\ lives = 1
    /\ behind = {}
-----------------------------------------------------------------------------
\* The row of the message, in a transaction that commits whether or not the
\* session's row can be updated as well.
Say(s) ==
    /\ said[s] < MaxMessages
    /\ said' = [said EXCEPT ![s] = @ + 1]
    /\ UNCHANGED <<covered, seen, todo, phase, current, read, asked, lives>>

Stir(s) == activity' = [activity EXCEPT ![s] = "recent"]

\* OnIdle has read the history of s and has not marked it yet.
Handled(s) == current = s /\ phase \in {"summarize", "save", "mark"}

Behind(s) == behind' = behind \cup {s}

\* Mutant of HumanMessage: a session that was summarized stays marked.
HumanMessageKeepsMark(s) ==
    /\ Say(s) /\ Stir(s)
    /\ IF Handled(s) THEN Behind(s) ELSE UNCHANGED behind
    /\ UNCHANGED summarized

\* A message of the user reopens the session, unless the update fails, which is
\* a warning.
HumanMessage(s) ==
    /\ Say(s)
    /\ \/ /\ Stir(s) /\ summarized' = summarized \ {s}
          /\ IF Handled(s) THEN Behind(s) ELSE UNCHANGED behind
       \/ /\ MayFail /\ UNCHANGED <<activity, summarized>>
          /\ IF Handled(s) \/ s \in summarized THEN Behind(s) ELSE UNCHANGED behind

\* An answer, or the messages of a tool call.
OtherMessage(s) ==
    /\ said[s] > 0
    /\ Say(s)
    /\ Stir(s) \/ (MayFail /\ UNCHANGED activity)
    /\ IF Handled(s) \/ s \in summarized THEN Behind(s) ELSE UNCHANGED behind
    /\ UNCHANGED summarized

GoIdle(s) ==
    /\ activity[s] = "recent"
    /\ activity' = [activity EXCEPT ![s] = "idle"]
    /\ UNCHANGED <<said, summarized, covered, seen, todo, phase, current, read, asked, lives,
                   behind>>
-----------------------------------------------------------------------------
\* The query: any rows that qualify, for it has a limit and no order.
Rows == {s \in Sessions : activity[s] = "idle"} \ summarized

\* Mutant of Batches: one row less than there is room for.
BatchesShort == kSubset(Min({IdleScanBatch - 1, Cardinality(Rows)}), Rows)

Batches == kSubset(Min({IdleScanBatch, Cardinality(Rows)}), Rows)

\* A failed query is a sweep without rows, which changes nothing.
Sweep ==
    /\ phase = "waiting" /\ Rows # {}
    /\ todo' \in Batches
    /\ phase' = "row"
    /\ UNCHANGED <<table, seen, current, read, asked, lives, behind>>

EndSweep ==
    /\ phase = "row" /\ todo = {}
    /\ phase' = "waiting"
    /\ UNCHANGED <<table, seen, todo, current, read, asked, lives, behind>>

\* alreadySeen.
PassOver(s) ==
    /\ phase = "row" /\ s \in todo \cap seen
    /\ todo' = todo \ {s}
    /\ UNCHANGED <<table, seen, phase, current, read, asked, lives, behind>>

Unseen == todo \ seen

Take(s) ==
    /\ phase = "row" /\ s \in Unseen
    /\ todo' = todo \ {s}
    /\ seen' = seen \cup {s}
    /\ current' = s /\ phase' = "history"
    /\ UNCHANGED <<table, read, asked, lives, behind>>

\* Of n messages, those that renderHistory passes on.
Latest(n) == {i \in 1 .. n : i > n - MaxSummaryHistory}

ReadHistory ==
    /\ phase = "history"
    /\ read' = said[current] /\ phase' = "summarize"
    /\ behind' = behind \ {current}
    /\ UNCHANGED <<table, seen, todo, current, asked, lives>>

Asking == asked' = [asked EXCEPT ![current] = @ + 1]

Summarize ==
    /\ phase = "summarize"
    /\ Asking /\ phase' = "save"
    /\ UNCHANGED <<table, seen, todo, current, read, lives, behind>>

Covers(c) == c = [covered EXCEPT ![current] = Latest(read)]

\* A failure to save is a warning; the session is marked all the same.
SaveSummary ==
    /\ phase = "save"
    /\ \/ Covers(covered') /\ UNCHANGED behind
       \/ MayFail /\ (Covers(covered') \/ UNCHANGED covered) /\ Behind(current)
    /\ phase' = "mark"
    /\ UNCHANGED <<said, activity, summarized, seen, todo, current, read, asked, lives>>

\* Mutant of NextRow: the session that was handled is kept.
NextRowKeeps == phase' = "row" /\ UNCHANGED <<current, read>>

NextRow == phase' = "row" /\ current' = Nobody /\ read' = 0

\* Whatever was said since the history was read.
Mark ==
    /\ phase = "mark"
    /\ summarized' = summarized \cup {current}
    /\ NextRow
    /\ UNCHANGED <<said, activity, covered, seen, todo, asked, lives, behind>>

\* The update may have been made although OnIdle is not told so.
PerhapsMarked ==
    \/ UNCHANGED summarized
    \/ phase = "mark" /\ summarized' = summarized \cup {current}

\* OnIdle gives up: the history cannot be read, the LLM fails or has nothing to
\* say, the mark cannot be set, or something panics.
GiveUp ==
    /\ MayFail /\ phase \in {"history", "summarize", "save", "mark"}
    /\ IF phase = "summarize" THEN Asking ELSE UNCHANGED asked
    /\ PerhapsMarked
    /\ NextRow
    /\ UNCHANGED <<said, activity, covered, seen, todo, lives, behind>>

\* The calls without a timeout: to the database everywhere, and the embedding of
\* the summary after it is saved.  Only the summarizer's call has one.
Untimed == {"waiting", "history", "save", "mark"}

Hang ==
    /\ phase \in Untimed
    /\ phase' = "hung"
    /\ PerhapsMarked
    /\ UNCHANGED <<said, activity, covered, seen, todo, current, read, asked, lives, behind>>

Restart ==
    /\ lives < MaxLives
    /\ lives' = lives + 1
    /\ seen' = {} /\ todo' = {}
    /\ phase' = "waiting" /\ current' = Nobody /\ read' = 0
    /\ asked' = [s \in Sessions |-> 0]
    /\ UNCHANGED <<table, behind>>

OnIdle == ReadHistory \/ Summarize \/ SaveSummary \/ Mark \/ GiveUp
Scan == Sweep \/ EndSweep \/ (\E s \in Sessions : PassOver(s) \/ Take(s)) \/ OnIdle

ScanNext ==
    \/ \E s \in Sessions : HumanMessage(s) \/ OtherMessage(s) \/ GoIdle(s)
    \/ Scan \/ Hang
    \/ Restart

\* The scanner's goroutine goes on as long as its calls return: the ticker fires,
\* and the summarizer's call has a timeout.  A call that never returns is Hang.
ScanSpec == ScanInit /\ [][ScanNext]_scanVars /\ WF_scanVars(Scan)
-----------------------------------------------------------------------------
ScanTypeOK ==
    /\ said \in [Sessions -> 0 .. MaxMessages]
    /\ covered \in [Sessions -> SUBSET (1 .. MaxMessages)]
    /\ activity \in [Sessions -> {"none", "recent", "idle"}] /\ summarized \subseteq Sessions
    /\ seen \subseteq Sessions /\ todo \subseteq Sessions
    /\ phase \in {"waiting", "row", "history", "summarize", "save", "mark", "hung"}
    /\ current \in Sessions \cup {Nobody} /\ read \in 0 .. MaxMessages
    /\ phase \in {"waiting", "row"} => current = Nobody
    /\ phase \in {"history", "summarize", "save", "mark"} => current # Nobody
    /\ asked \in [Sessions -> Nat] /\ lives \in 1 .. MaxLives
    /\ behind \subseteq Sessions

\* The LLM is asked for a summary of a session at most once in a process's life,
\* as the design limits it to one call per session, whatever fails and however
\* often the session is found again.
AskedOnce == \A s \in Sessions : asked[s] <= 1

\* A session that is marked has a summary of the last MaxSummaryHistory messages
\* in it, but for what was said while the summary was made, which the mark hides
\* although a message of the user reopens a session; for answers that came after
\* it; and for a summary, or a reopening, that could not be saved.
NothingSkipped ==
    \A s \in summarized \ behind : \A i \in 1 .. said[s] :
        said[s] - i < MaxSummaryHistory => i \in covered[s]

\* The summaries cost no more than the design allows and leave out no more
\* than they must, whatever fails and whenever messages come.
SummariesRight == AskedOnce /\ NothingSkipped

\* The rows that were handled and stay unsummarized, which each sweep finds again.
Stuck == (Rows \cap seen) \ {current}

\* A silent session that the process has not handled is handled or becomes active
\* again, unless the scanner hangs, or so many sessions are stuck that they fill a
\* sweep: fewer of them, or whatever else happens to others, do not keep a session
\* out of every sweep.
EveryoneGetsATry ==
    \A s \in Sessions :
        s \in Rows \ seen ~>
            \/ s \in seen \/ s \notin Rows
            \/ phase = "hung" \/ Cardinality(Stuck) >= IdleScanBatch
=============================================================================
