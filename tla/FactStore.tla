------------------------------ MODULE FactStore ------------------------------
(***************************************************************************)
(* The fact channel of the long-term memory (L2) of one user: the table    *)
(* memory_entries, and the Admit calls of the OnTurnEnd goroutines, which  *)
(* read, decide, make room and write in separate database operations.      *)
(*                                                                         *)
(*   rows        the table; unique in (key, value), as its index demands   *)
(*   nextId      the table's auto-increment                                *)
(*   at          how far a call of Admit is                                *)
(*   entry       what it was asked to admit                                *)
(*   archiveIds  decideAdmit's answer: the rows to archive                 *)
(*   victim      enforceQuota's choice                                     *)
(*   latest      the last value admitted for each key                      *)
(*   unenforced  how many admissions went on after enforceQuota failed     *)
(*                                                                         *)
(* latest and unenforced only record the past, for the properties.         *)
(* Confidence is a number, only compared; the age of a row, which breaks   *)
(* ties between victims, is abstracted to a free choice.                   *)
(***************************************************************************)
EXTENDS Integers, FiniteSets

CONSTANTS
    Calls,              \* the calls of Admit
    Keys,
    Single,             \* the keys extracted with cardinality "single"
    Values,
    Nothing,            \* no value admitted yet, no entry at hand
    Confidences,
    WriteThreshold,
    MaxEntriesPerUser,
    Serial              \* TRUE: a call starts when the one before has ended

ASSUME FactAssumption ==
    /\ Single \subseteq Keys
    /\ Nothing \notin Values
    /\ Confidences \subseteq Int
    /\ WriteThreshold \in Int
    /\ MaxEntriesPerUser \in Int
    /\ Serial \in BOOLEAN

VARIABLES rows, nextId, at, entry, archiveIds, victim, latest, unenforced

vars == <<rows, nextId, at, entry, archiveIds, victim, latest, unenforced>>
table == <<rows, nextId>>

Entry == [key : Keys, value : Values, conf : Confidences]
Row == [id : Nat, key : Keys, value : Values, conf : Confidences,
        status : {"active", "archived"}]

Active(S) == {r \in S : r.status = "active"}
OfKey(S, k) == {r \in S : r.key = k}
Ids(S) == {r.id : r \in S}

Init ==
    /\ rows = {} /\ nextId = 1
    /\ at = [c \in Calls |-> "idle"]
    /\ entry = [c \in Calls |-> Nothing]
    /\ archiveIds = [c \in Calls |-> {}]
    /\ victim = [c \in Calls |-> 0]
    /\ latest = [k \in Keys |-> Nothing]
    /\ unenforced = 0

Goto(c, step) == at' = [at EXCEPT ![c] = step]
Idle(c) == at[c] \in {"idle", "end"}

\* Admit returns, and its local variables with it.
Return(c) ==
    /\ Goto(c, "end")
    /\ entry' = [entry EXCEPT ![c] = Nothing]
    /\ archiveIds' = [archiveIds EXCEPT ![c] = {}]
    /\ victim' = [victim EXCEPT ![c] = 0]
-----------------------------------------------------------------------------
\* passesGate; an entry that does not pass is dropped.
Begin(c) ==
    /\ at[c] = "idle"
    /\ Serial => \A d \in Calls : Idle(d)
    /\ \E e \in {e \in Entry : e.conf >= WriteThreshold} :
          entry' = [entry EXCEPT ![c] = e]
    /\ Goto(c, "read")
    /\ UNCHANGED <<rows, nextId, archiveIds, victim, latest, unenforced>>

Existing(c) == OfKey(Active(rows), entry[c].key)

\* decideAdmit, when the value is new.
ToArchive(c, existing) ==
    IF entry[c].key \in Single THEN Ids(existing) ELSE {}

\* The query for the active entries of the key, and decideAdmit.
Decide(c) ==
    /\ at[c] = "read"
    /\ \A r \in Existing(c) : r.value # entry[c].value
    /\ archiveIds' = [archiveIds EXCEPT ![c] = ToArchive(c, Existing(c))]
    /\ Goto(c, "count")
    /\ UNCHANGED <<rows, nextId, entry, victim, latest, unenforced>>

\* actionSkip: the value is there already.
Skip(c) ==
    /\ at[c] = "read"
    /\ \E r \in Existing(c) : r.value = entry[c].value
    /\ latest' = [latest EXCEPT ![entry[c].key] = entry[c].value]
    /\ Return(c)
    /\ UNCHANGED <<rows, nextId, unenforced>>

\* Mutant of AtCap: one more than allowed.
AtCapLate == MaxEntriesPerUser > 0 /\ Cardinality(Active(rows)) > MaxEntriesPerUser

AtCap == MaxEntriesPerUser > 0 /\ Cardinality(Active(rows)) >= MaxEntriesPerUser

\* enforceQuota: the count.
Count(c) ==
    /\ at[c] = "count"
    /\ Goto(c, IF AtCap THEN "pick" ELSE "write")
    /\ UNCHANGED <<rows, nextId, entry, archiveIds, victim, latest, unenforced>>

Lowest(S) == {r \in S : \A q \in S : r.conf <= q.conf}

\* Mutant of Victims: archived entries are not filtered out.
VictimsAny == Lowest(rows)

Victims == Lowest(Active(rows))

\* enforceQuota: the victim.
Pick(c) ==
    /\ at[c] = "pick"
    /\ \E r \in Victims : victim' = [victim EXCEPT ![c] = r.id]
    /\ Goto(c, "evict")
    /\ UNCHANGED <<rows, nextId, entry, archiveIds, latest, unenforced>>

\* enforceQuota: the victim is deleted by its id, whatever has become of it.
Evict(c) ==
    /\ at[c] = "evict"
    /\ rows' = {r \in rows : r.id # victim[c]}
    /\ Goto(c, "write")
    /\ UNCHANGED <<nextId, entry, archiveIds, victim, latest, unenforced>>

\* Any query of enforceQuota fails, or there is no victim: a warning.
QuotaFails(c) ==
    /\ at[c] \in {"count", "pick", "evict"}
    /\ unenforced' = unenforced + 1
    /\ Goto(c, "write")
    /\ UNCHANGED <<rows, nextId, entry, archiveIds, victim, latest>>

Archived(S, ids) ==
    {IF r.id \in ids THEN [r EXCEPT !.status = "archived"] ELSE r : r \in S}

SameKeyValue(S, e) == {r \in S : r.key = e.key /\ r.value = e.value}

\* Mutant of NewRow: the default status is not filled in.
NewRowBare(e) == [id |-> nextId, key |-> e.key, value |-> e.value,
                  conf |-> e.conf, status |-> ""]

NewRow(e) == [id |-> nextId, key |-> e.key, value |-> e.value,
              conf |-> e.conf, status |-> "active"]

\* Mutant of Upsert: the status is not among the columns to update.
UpsertKeepsStatus(S, e) ==
    LET same == SameKeyValue(S, e)
    IN  IF same = {} THEN S \cup {NewRow(e)}
        ELSE {IF r \in same THEN [r EXCEPT !.conf = e.conf] ELSE r : r \in S}

\* INSERT ... ON DUPLICATE KEY UPDATE: an archived row of the value revives.
Upsert(S, e) ==
    LET same == SameKeyValue(S, e)
    IN  IF same = {} THEN S \cup {NewRow(e)}
        ELSE {IF r \in same THEN [r EXCEPT !.conf = e.conf, !.status = "active"] ELSE r : r \in S}

\* The transaction: archive, then upsert.
Write(c) ==
    /\ at[c] = "write"
    /\ rows' = Upsert(Archived(rows, archiveIds[c]), entry[c])
    /\ nextId' = nextId + 1
    /\ latest' = [latest EXCEPT ![entry[c].key] = entry[c].value]
    /\ Return(c)
    /\ UNCHANGED unenforced

\* The query or the transaction fails, or the process dies at any point.
Abort(c) ==
    /\ ~Idle(c)
    /\ Return(c)
    /\ UNCHANGED <<rows, nextId, latest, unenforced>>

Next == \E c \in Calls :
    \/ Begin(c) \/ Decide(c) \/ Skip(c)
    \/ Count(c) \/ Pick(c) \/ Evict(c) \/ QuotaFails(c)
    \/ Write(c) \/ Abort(c)

Spec == Init /\ [][Next]_vars
-----------------------------------------------------------------------------
TypeOK ==
    /\ rows \subseteq Row /\ nextId \in Nat
    /\ at \in [Calls -> {"idle", "read", "count", "pick", "evict", "write", "end"}]
    /\ entry \in [Calls -> Entry \cup {Nothing}]
    /\ archiveIds \in [Calls -> SUBSET Nat] /\ victim \in [Calls -> Nat]
    /\ latest \in [Keys -> Values \cup {Nothing}]
    /\ unenforced \in Nat

\* The proposal: a new value of a single-valued key replaces the old one, which
\* is archived.
SingleValued == \A k \in Single : \A r, q \in OfKey(Active(rows), k) : r = q

\* The value in use of a single-valued key is the last one admitted, and every
\* other one is archived, also after corrections back and forth, evictions and
\* failures.
LatestWins ==
    \A k \in Single : \A r \in OfKey(rows, k) : r.status = "active" <=> r.value = latest[k]

\* The user's quota is exceeded only by as many entries as there were times when
\* it could not be enforced.
QuotaKept ==
    MaxEntriesPerUser > 0 => Cardinality(Active(rows)) <= MaxEntriesPerUser + unenforced

\* In use, and no less certain than any other entry in use.
Least(r) == r \in Active(rows) /\ \A q \in Active(rows) : r.conf <= q.conf

Crowded == Cardinality(Active(rows)) >= MaxEntriesPerUser

\* An entry is deleted only when the user is at the quota, and only the
\* least certain one in use.
EvictsTheLeast ==
    [][\A r \in rows : r.id \notin Ids(rows') => Least(r) /\ Crowded]_table
=============================================================================
