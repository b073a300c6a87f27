------------------------------ MODULE FactProofs ------------------------------
(***************************************************************************)
(* Theorems about FactStore, for any number of Admit calls, keys, values   *)
(* and confidences.                                                        *)
(*                                                                         *)
(* Type correctness holds however calls overlap.  The other theorems are   *)
(* about calls that follow each other (Serial), where what a call has read *)
(* is still true when it writes.  That is what the inductive invariant     *)
(* says: Planned of the rows to archive, Room and Chosen of the quota.     *)
(***************************************************************************)
EXTENDS FactStore, FiniteSetTheorems, TLAPS

\* Rows are told apart by their id and by their key and value.
Unique ==
    /\ \A r, q \in rows : r.id = q.id => r = q
    /\ \A r, q \in rows : r.key = q.key /\ r.value = q.value => r = q
    /\ \A r \in rows : r.id < nextId

\* A call under way knows its entry; it works once it has decided.
Working == {"count", "pick", "evict", "write"}
Busy == \A c \in Calls : ~Idle(c) => entry[c] \in Entry

Base == TypeOK /\ Unique /\ Busy

\* Calls follow each other.
OneAtATime == \A c, d \in Calls : ~Idle(c) /\ ~Idle(d) => c = d

\* The rows a call will archive are of its key, and if the key is single-valued
\* they are all the active ones.
Planned ==
    \A c \in Calls : at[c] \in Working =>
        /\ \A r \in rows : r.id \in archiveIds[c] => r.key = entry[c].key
        /\ entry[c].key \in Single =>
              \A r \in OfKey(Active(rows), entry[c].key) : r.id \in archiveIds[c]

IInv == Base /\ OneAtATime /\ LatestWins /\ Planned

\* The quota: a call that writes has room for one, and a call that evicts has
\* been right to and has chosen what is still the least active row.
Room ==
    MaxEntriesPerUser > 0 => \A c \in Calls :
        at[c] = "write" => Cardinality(Active(rows)) < MaxEntriesPerUser + unenforced

Chosen ==
    /\ \A c \in Calls : at[c] \in {"pick", "evict"} =>
          MaxEntriesPerUser > 0 /\ Crowded
    /\ \A c \in Calls : at[c] = "evict" => \E r \in rows : r.id = victim[c] /\ Least(r)

QInv == IInv /\ IsFiniteSet(Active(rows)) /\ QuotaKept /\ Room /\ Chosen
-------------------------------------------------------------------------------
\* What a write makes of a row it finds.
Touched(s, ids, e) ==
    [id |-> s.id, key |-> s.key, value |-> s.value,
     conf |-> IF s.key = e.key /\ s.value = e.value THEN e.conf ELSE s.conf,
     status |-> IF s.key = e.key /\ s.value = e.value THEN "active"
                ELSE IF s.id \in ids THEN "archived" ELSE s.status]

\* Archiving changes the status of the rows in question and nothing else.
LEMMA ArchivedRows ==
    ASSUME NEW S \in SUBSET Row, NEW ids, NEW a \in Archived(S, ids)
    PROVE  \E s \in S :
              /\ a \in Row
              /\ a.id = s.id /\ a.key = s.key /\ a.value = s.value /\ a.conf = s.conf
              /\ a.status = IF s.id \in ids THEN "archived" ELSE s.status
<1>1. PICK s \in S : a = IF s.id \in ids THEN [s EXCEPT !.status = "archived"] ELSE s
  BY DEF Archived
<1>2. s \in Row
  OBVIOUS
<1>. QED  BY <1>1, <1>2 DEF Row

\* Every row after a write is one that was there, touched, or the new one; the
\* new one comes only if its value is not there yet.
LEMMA WrittenRows ==
    ASSUME rows \subseteq Row, nextId \in Nat, NEW ids, NEW e \in Entry,
           NEW r \in Upsert(Archived(rows, ids), e)
    PROVE  \/ \E s \in rows : r = Touched(s, ids, e)
           \/ r = NewRow(e) /\ \A s \in rows : s.key # e.key \/ s.value # e.value
<1>. DEFINE A == Archived(rows, ids)
            same == SameKeyValue(A, e)
<1>1. CASE same = {}
  <2>1. r \in A \/ r = NewRow(e)
    BY <1>1 DEF Upsert
  <2>2. CASE r \in A
    <3>1. PICK s \in rows :
              /\ r \in Row
              /\ r.id = s.id /\ r.key = s.key /\ r.value = s.value /\ r.conf = s.conf
              /\ r.status = IF s.id \in ids THEN "archived" ELSE s.status
      BY <2>2, ArchivedRows
    <3>2. ~(s.key = e.key /\ s.value = e.value)
      BY <1>1, <2>2, <3>1 DEF SameKeyValue
    <3>3. r = Touched(s, ids, e)
      BY <3>1, <3>2 DEF Touched, Row
    <3>. QED  BY <3>3
  <2>3. CASE r = NewRow(e)
    <3>1. SUFFICES ASSUME NEW s \in rows, s.key = e.key, s.value = e.value PROVE FALSE
      BY <2>3
    <3>2. (IF s.id \in ids THEN [s EXCEPT !.status = "archived"] ELSE s) \in A
      BY DEF Archived
    <3>3. (IF s.id \in ids THEN [s EXCEPT !.status = "archived"] ELSE s) \in same
      BY <3>1, <3>2 DEF SameKeyValue, Row
    <3>. QED  BY <3>3, <1>1
  <2>. QED  BY <2>1, <2>2, <2>3
<1>2. CASE same # {}
  <2>1. PICK a \in A : r = IF a \in same THEN [a EXCEPT !.conf = e.conf, !.status = "active"] ELSE a
    BY <1>2 DEF Upsert
  <2>2. PICK s \in rows :
            /\ a \in Row
            /\ a.id = s.id /\ a.key = s.key /\ a.value = s.value /\ a.conf = s.conf
            /\ a.status = IF s.id \in ids THEN "archived" ELSE s.status
    BY ArchivedRows
  <2>3. a \in same <=> s.key = e.key /\ s.value = e.value
    BY <2>2 DEF SameKeyValue
  <2>4. r = Touched(s, ids, e)
    BY <2>1, <2>2, <2>3 DEF Touched, Row
  <2>. QED  BY <2>4
<1>. QED  BY <1>1, <1>2
-------------------------------------------------------------------------------
\* A write keeps the types and the uniqueness of rows.
LEMMA WriteKeepsBase ==
    ASSUME Base, NEW c \in Calls, Write(c)
    PROVE  rows' \subseteq Row /\ Unique'
<1>. DEFINE e == entry[c]
            ids == archiveIds[c]
<1>1. e \in Entry /\ rows \subseteq Row /\ nextId \in Nat
  BY DEF Base, TypeOK, Busy, Write, Idle
<1>2. /\ rows' = Upsert(Archived(rows, ids), e)
      /\ nextId' = nextId + 1
  BY DEF Write
<1>3. ASSUME NEW r \in rows'
      PROVE  \/ \E s \in rows : r = Touched(s, ids, e)
             \/ r = NewRow(e) /\ \A s \in rows : s.key # e.key \/ s.value # e.value
  <2>. HIDE DEF e, ids
  <2>. QED  BY <1>1, <1>2, <1>3, WrittenRows
<1>4. ASSUME NEW s \in rows PROVE Touched(s, ids, e) \in Row
  <2>1. s \in Row
    BY <1>1
  <2>. HIDE DEF e, ids
  <2>. QED  BY <1>1, <2>1 DEF Touched, Row, Entry
<1>5. NewRow(e) \in Row
  <2>. HIDE DEF e
  <2>. QED  BY <1>1 DEF NewRow, Row, Entry
<1>6. rows' \subseteq Row
  BY <1>3, <1>4, <1>5
<1>7. ASSUME NEW r \in rows'
      PROVE  \/ \E s \in rows : r = Touched(s, ids, e) /\ r.id = s.id /\ r.key = s.key /\ r.value = s.value
             \/ /\ r = NewRow(e) /\ r.id = nextId /\ r.key = e.key /\ r.value = e.value
                /\ \A s \in rows : s.key # e.key \/ s.value # e.value
  <2>. HIDE DEF e, ids
  <2>. QED  BY <1>3 DEF Touched, NewRow
<1>8. \A r \in rows : r.id \in Nat /\ r.id < nextId
  BY <1>1 DEF Base, Unique, Row
<1>9. ASSUME NEW r \in rows', NEW q \in rows', r.id = q.id PROVE r = q
  <2>. HIDE DEF e, ids
  <2>. QED  BY <1>1, <1>7, <1>8, <1>9 DEF Base, Unique
<1>10. ASSUME NEW r \in rows', NEW q \in rows', r.key = q.key, r.value = q.value PROVE r = q
  <2>. HIDE DEF e, ids
  <2>. QED  BY <1>7, <1>10 DEF Base, Unique
<1>11. ASSUME NEW r \in rows' PROVE r.id < nextId'
  <2>. HIDE DEF e, ids
  <2>. QED  BY <1>1, <1>2, <1>7, <1>8
<1>. QED  BY <1>6, <1>9, <1>10, <1>11 DEF Unique

\* The initial table is empty.
LEMMA BaseInit == Init => Base
BY DEF Init, Base, TypeOK, Unique, Busy, Idle

\* Types, uniqueness and the entry of a call under way are kept by every step,
\* however calls overlap.
LEMMA BaseStep ==
    ASSUME Base, [Next]_vars
    PROVE  Base'
<1>. USE DEF Base
<1>1. ASSUME NEW c \in Calls, Begin(c) PROVE Base'
  BY <1>1 DEF TypeOK, Unique, Busy, Begin, Goto, Idle
<1>2. ASSUME NEW c \in Calls, Decide(c) PROVE Base'
  <2>1. ToArchive(c, Existing(c)) \in SUBSET Nat
    BY DEF TypeOK, ToArchive, Ids, Existing, OfKey, Active, Row
  <2>. QED  BY <1>2, <2>1 DEF TypeOK, Unique, Busy, Decide, Goto, Idle
<1>3. ASSUME NEW c \in Calls, Skip(c) PROVE Base'
  <2>1. entry[c] \in Entry
    BY <1>3 DEF TypeOK, Busy, Skip, Idle
  <2>. QED  BY <1>3, <2>1 DEF TypeOK, Unique, Busy, Skip, Return, Goto, Idle, Entry
<1>4. ASSUME NEW c \in Calls, Count(c) PROVE Base'
  BY <1>4 DEF TypeOK, Unique, Busy, Count, Goto, Idle
<1>5. ASSUME NEW c \in Calls, Pick(c) PROVE Base'
  <2>1. PICK r \in rows : victim' = [victim EXCEPT ![c] = r.id]
    BY <1>5 DEF Pick, Victims, Lowest, Active
  <2>2. r.id \in Nat
    BY DEF TypeOK, Row
  <2>. QED  BY <1>5, <2>1, <2>2 DEF TypeOK, Unique, Busy, Pick, Goto, Idle
<1>6. ASSUME NEW c \in Calls, Evict(c) PROVE Base'
  BY <1>6 DEF TypeOK, Unique, Busy, Evict, Goto, Idle
<1>7. ASSUME NEW c \in Calls, QuotaFails(c) PROVE Base'
  BY <1>7 DEF TypeOK, Unique, Busy, QuotaFails, Goto, Idle
<1>8. ASSUME NEW c \in Calls, Write(c) PROVE Base'
  <2>1. rows' \subseteq Row /\ Unique'
    BY <1>8, WriteKeepsBase
  <2>2. entry[c] \in Entry
    BY <1>8 DEF TypeOK, Busy, Write, Idle
  <2>. QED  BY <1>8, <2>1, <2>2 DEF TypeOK, Busy, Write, Return, Goto, Idle, Entry
<1>9. ASSUME NEW c \in Calls, Abort(c) PROVE Base'
  BY <1>9 DEF TypeOK, Unique, Busy, Abort, Return, Goto, Idle
<1>10. CASE UNCHANGED vars
  BY <1>10 DEF vars, TypeOK, Unique, Busy, Idle
<1>. QED  BY <1>1, <1>2, <1>3, <1>4, <1>5, <1>6, <1>7, <1>8, <1>9, <1>10 DEF Next

\* Type correctness of the table and of every call of Admit, also when calls
\* overlap: rows always have a status and a known key, value and confidence.
THEOREM FactTypeOK == Spec => []TypeOK
<1>1. Init => Base
  BY BaseInit
<1>2. Base /\ [Next]_vars => Base'
  BY BaseStep
<1>3. Base => TypeOK
  BY DEF Base
<1>. QED  BY <1>1, <1>2, <1>3, PTL DEF Spec
-------------------------------------------------------------------------------
\* A write puts the value admitted in use and archives the others of its key.
LEMMA WriteLatest ==
    ASSUME IInv, NEW c \in Calls, Write(c)
    PROVE  LatestWins'
<1>. DEFINE e == entry[c]
            ids == archiveIds[c]
<1>1. /\ e \in Entry /\ rows \subseteq Row /\ nextId \in Nat
      /\ rows' = Upsert(Archived(rows, ids), e)
      /\ latest' = [latest EXCEPT ![e.key] = e.value]
      /\ latest \in [Keys -> Values \cup {Nothing}]
  BY DEF IInv, Base, TypeOK, Busy, Write, Idle
<1>2. at[c] \in Working
  BY DEF Write, Working
<1>3. \A s \in rows : s.id \in ids => s.key = e.key
  BY <1>2 DEF IInv, Planned
<1>4. e.key \in Single => \A s \in OfKey(Active(rows), e.key) : s.id \in ids
  BY <1>2 DEF IInv, Planned
<1>5. SUFFICES ASSUME NEW k \in Single, NEW r \in OfKey(rows', k)
               PROVE  r.status = "active" <=> r.value = latest'[k]
  BY DEF LatestWins, OfKey
<1>6. k \in Keys /\ r \in rows' /\ r.key = k
  BY FactAssumption DEF OfKey
<1>. HIDE DEF e, ids
<1>7. latest'[k] = IF k = e.key THEN e.value ELSE latest[k]
  BY <1>1, <1>6
<1>8. \/ \E s \in rows : r = Touched(s, ids, e)
      \/ r = NewRow(e)
  BY <1>1, <1>6, WrittenRows
<1>9. CASE r = NewRow(e)
  BY <1>6, <1>7, <1>9 DEF NewRow
<1>10. ASSUME NEW s \in rows, r = Touched(s, ids, e)
       PROVE  r.status = "active" <=> r.value = latest'[k]
  <2>1. /\ r.key = s.key /\ r.value = s.value
        /\ r.status = IF s.key = e.key /\ s.value = e.value THEN "active"
                      ELSE IF s.id \in ids THEN "archived" ELSE s.status
    BY <1>10 DEF Touched
  <2>2. s.status = "active" <=> s.value = latest[k]
    BY <1>6, <2>1 DEF IInv, LatestWins, OfKey
  <2>3. CASE k = e.key
    <3>1. s.status = "active" => s.id \in ids
      BY <1>4, <1>6, <2>1, <2>3 DEF OfKey, Active
    <3>. QED  BY <1>6, <1>7, <2>1, <2>3, <3>1
  <2>4. CASE k # e.key
    BY <1>3, <1>6, <1>7, <2>1, <2>2, <2>4
  <2>. QED  BY <2>3, <2>4
<1>. QED  BY <1>8, <1>9, <1>10

LEMMA IInvInit == Init => IInv
<1>1. ASSUME Init PROVE OneAtATime /\ LatestWins /\ Planned
  BY <1>1 DEF Init, OneAtATime, LatestWins, Planned, Working, Idle, OfKey
<1>. QED  BY <1>1, BaseInit DEF IInv

\* While one call works nothing else happens to the table, so that what it has
\* planned stays right until it writes.
LEMMA IInvStep ==
    ASSUME Serial, IInv, [Next]_vars
    PROVE  IInv'
<1>. DEFINE Goal == OneAtATime' /\ LatestWins' /\ Planned'
<1>1. Base'
  BY BaseStep DEF IInv
<1>2. at \in [Calls -> {"idle", "read", "count", "pick", "evict", "write", "end"}]
  BY DEF IInv, Base, TypeOK
<1>3. ASSUME NEW c \in Calls, ~Idle(c) PROVE \A d \in Calls \ {c} : Idle(d)
  BY <1>3 DEF IInv, OneAtATime
<1>4. ASSUME NEW c \in Calls, Begin(c) PROVE Goal
  <2>1. OneAtATime'
    BY <1>2, <1>4 DEF Begin, Goto, OneAtATime, Idle
  <2>2. LatestWins'
    BY <1>4 DEF IInv, Begin, LatestWins, OfKey
  <2>3. Planned'
    BY <1>2, <1>4 DEF Begin, Goto, Planned, Working, Idle
  <2>. QED  BY <2>1, <2>2, <2>3
<1>5. ASSUME NEW c \in Calls, Decide(c) PROVE Goal
  <2>1. OneAtATime'
    BY <1>2, <1>5 DEF IInv, Decide, Goto, OneAtATime, Idle
  <2>2. LatestWins'
    BY <1>5 DEF IInv, Decide, LatestWins, OfKey
  <2>3. /\ archiveIds'[c] = ToArchive(c, Existing(c))
        /\ UNCHANGED <<rows, entry>>
    BY <1>5 DEF Decide, IInv, Base, TypeOK
  <2>4. ASSUME NEW r \in rows, r.id \in archiveIds'[c] PROVE r.key = entry[c].key
    <3>1. PICK q \in Existing(c) : r.id = q.id
      BY <2>3, <2>4 DEF ToArchive, Ids
    <3>. QED  BY <3>1 DEF Existing, OfKey, Active, IInv, Base, Unique
  <2>5. ASSUME entry[c].key \in Single, NEW r \in OfKey(Active(rows), entry[c].key)
        PROVE  r.id \in archiveIds'[c]
    BY <2>3, <2>5 DEF ToArchive, Ids, Existing
  <2>6. \A d \in Calls : at'[d] \in Working => d = c
    BY <1>2, <1>3, <1>5 DEF Decide, Goto, Working, Idle
  <2>7. Planned'
    BY <2>3, <2>4, <2>5, <2>6 DEF Planned, OfKey, Active
  <2>. QED  BY <2>1, <2>2, <2>7
<1>6. ASSUME NEW c \in Calls, Skip(c) PROVE Goal
  <2>1. OneAtATime'
    BY <1>2, <1>6 DEF IInv, Skip, Return, Goto, OneAtATime, Idle
  <2>2. PICK q \in Existing(c) : q.value = entry[c].value
    BY <1>6 DEF Skip
  <2>3. /\ q \in rows /\ q.status = "active" /\ q.key = entry[c].key
    BY <2>2 DEF Existing, OfKey, Active
  <2>4. \A k \in Single : latest'[k] = latest[k]
    <3>1. SUFFICES ASSUME NEW k \in Single PROVE latest'[k] = latest[k]
      OBVIOUS
    <3>2. /\ latest' = [latest EXCEPT ![entry[c].key] = entry[c].value]
          /\ latest \in [Keys -> Values \cup {Nothing}]
          /\ k \in Keys
      BY <1>6, FactAssumption DEF Skip, IInv, Base, TypeOK
    <3>3. k = entry[c].key => entry[c].value = latest[k]
      BY <2>2, <2>3 DEF IInv, LatestWins, OfKey
    <3>. QED  BY <3>2, <3>3
  <2>5. rows' = rows
    BY <1>6 DEF Skip
  <2>6. LatestWins'
    BY <2>4, <2>5 DEF IInv, LatestWins, OfKey
  <2>7. \A d \in Calls : at'[d] \notin Working
    BY <1>2, <1>3, <1>6 DEF Skip, Return, Goto, Working, Idle
  <2>. QED  BY <2>1, <2>6, <2>7 DEF Planned
<1>7. ASSUME NEW c \in Calls, Count(c) \/ Pick(c) \/ QuotaFails(c) PROVE Goal
  <2>1. /\ UNCHANGED <<rows, entry, archiveIds, latest>>
        /\ at[c] \in Working
        /\ \E step \in Working : at' = [at EXCEPT ![c] = step]
    BY <1>7 DEF Count, Pick, QuotaFails, Goto, Working
  <2>2. OneAtATime'
    BY <1>2, <2>1 DEF IInv, OneAtATime, Idle, Working
  <2>3. LatestWins'
    BY <2>1 DEF IInv, LatestWins, OfKey
  <2>4. Planned'
    BY <1>2, <2>1 DEF IInv, Planned, OfKey, Active
  <2>. QED  BY <2>2, <2>3, <2>4
<1>8. ASSUME NEW c \in Calls, Evict(c) PROVE Goal
  <2>1. /\ UNCHANGED <<entry, archiveIds, latest>>
        /\ rows' \subseteq rows
        /\ at[c] \in Working
        /\ at' = [at EXCEPT ![c] = "write"]
    BY <1>8 DEF Evict, Goto, Working
  <2>2. OneAtATime'
    BY <1>2, <2>1 DEF IInv, OneAtATime, Idle, Working
  <2>3. LatestWins'
    BY <2>1 DEF IInv, LatestWins, OfKey
  <2>4. Planned'
    BY <1>2, <2>1 DEF IInv, Planned, OfKey, Active, Working
  <2>. QED  BY <2>2, <2>3, <2>4
<1>9. ASSUME NEW c \in Calls, Write(c) PROVE Goal
  <2>1. OneAtATime'
    BY <1>2, <1>9 DEF IInv, Write, Return, Goto, OneAtATime, Idle
  <2>2. LatestWins'
    BY <1>9, WriteLatest
  <2>3. \A d \in Calls : at'[d] \notin Working
    BY <1>2, <1>3, <1>9 DEF Write, Return, Goto, Working, Idle
  <2>. QED  BY <2>1, <2>2, <2>3 DEF Planned
<1>10. ASSUME NEW c \in Calls, Abort(c) PROVE Goal
  <2>1. OneAtATime'
    BY <1>2, <1>10 DEF IInv, Abort, Return, Goto, OneAtATime, Idle
  <2>2. LatestWins'
    BY <1>10 DEF IInv, Abort, LatestWins, OfKey
  <2>3. \A d \in Calls : at'[d] \notin Working
    BY <1>2, <1>3, <1>10 DEF Abort, Return, Goto, Working, Idle
  <2>. QED  BY <2>1, <2>2, <2>3 DEF Planned
<1>11. CASE UNCHANGED vars
  <2>1. OneAtATime'
    BY <1>11 DEF vars, IInv, OneAtATime, Idle
  <2>2. LatestWins'
    BY <1>11 DEF vars, IInv, LatestWins, OfKey
  <2>3. rows' = rows /\ at' = at /\ entry' = entry /\ archiveIds' = archiveIds
    BY <1>11 DEF vars
  <2>4. Planned'
    BY <2>3 DEF IInv, Planned, OfKey, Active
  <2>. QED  BY <1>1, <2>1, <2>2, <2>4 DEF IInv
<1>. QED  BY <1>1, <1>4, <1>5, <1>6, <1>7, <1>8, <1>9, <1>10, <1>11 DEF Next, IInv

\* Corrections take effect: when calls follow each other, the value in use of a
\* single-valued key is the last one admitted and every other one is archived,
\* whatever fails and whatever is evicted.
THEOREM FactLatestWins ==
    ASSUME Serial PROVE Spec => []LatestWins
<1>1. Init => IInv
  BY IInvInit
<1>2. IInv /\ [Next]_vars => IInv'
  BY IInvStep
<1>3. IInv => LatestWins
  BY DEF IInv
<1>. QED  BY <1>1, <1>2, <1>3, PTL DEF Spec

\* So a single-valued key has one value at a time, as the proposal asks.
THEOREM FactSingleValued ==
    ASSUME Serial PROVE Spec => []SingleValued
<1>1. Init => IInv
  BY IInvInit
<1>2. IInv /\ [Next]_vars => IInv'
  BY IInvStep
<1>3. IInv => SingleValued
  BY FactAssumption DEF IInv, Base, Unique, LatestWins, SingleValued, OfKey, Active
<1>. QED  BY <1>1, <1>2, <1>3, PTL DEF Spec
-------------------------------------------------------------------------------
\* A write brings at most one more row into use.
LEMMA WriteCount ==
    ASSUME IInv, IsFiniteSet(Active(rows)), NEW c \in Calls, Write(c)
    PROVE  /\ IsFiniteSet(Active(rows'))
           /\ Cardinality(Active(rows')) <= Cardinality(Active(rows)) + 1
<1>. DEFINE e == entry[c]
            ids == archiveIds[c]
            x == CHOOSE r \in rows' : r.key = e.key /\ r.value = e.value
<1>1. /\ e \in Entry /\ rows \subseteq Row /\ nextId \in Nat
      /\ rows' = Upsert(Archived(rows, ids), e)
  BY DEF IInv, Base, TypeOK, Busy, Write, Idle
<1>2. Unique'
  BY WriteKeepsBase DEF IInv
<1>3. ASSUME NEW r \in rows', r.key = e.key, r.value = e.value PROVE r = x
  <2>1. x \in rows' /\ x.key = e.key /\ x.value = e.value
    BY <1>3
  <2>. QED  BY <1>2, <1>3, <2>1 DEF Unique
<1>. HIDE DEF e, ids, x
<1>4. ASSUME NEW r \in Active(rows') PROVE r \in Active(rows) \/ r = x
  <2>1. r \in rows' /\ r.status = "active"
    BY <1>4 DEF Active
  <2>2. \/ \E s \in rows : r = Touched(s, ids, e)
        \/ r = NewRow(e)
    BY <1>1, <2>1, WrittenRows
  <2>3. CASE r = NewRow(e)
    BY <1>3, <2>1, <2>3 DEF NewRow
  <2>4. ASSUME NEW s \in rows, r = Touched(s, ids, e) PROVE r \in Active(rows) \/ r = x
    <3>1. CASE s.key = e.key /\ s.value = e.value
      BY <1>3, <2>1, <2>4, <3>1 DEF Touched
    <3>2. CASE ~(s.key = e.key /\ s.value = e.value)
      <4>1. s \in Row
        BY <1>1
      <4>2. s.status = "active" /\ r = s
        BY <2>1, <2>4, <3>2, <4>1 DEF Touched, Row
      <4>. QED  BY <4>2 DEF Active
    <3>. QED  BY <3>1, <3>2
  <2>. QED  BY <2>2, <2>3, <2>4
<1>5. Active(rows') \in SUBSET (Active(rows) \cup {x})
  BY <1>4
<1>6. /\ IsFiniteSet(Active(rows) \cup {x})
      /\ Cardinality(Active(rows) \cup {x}) \in {Cardinality(Active(rows)), Cardinality(Active(rows)) + 1}
  BY FS_AddElement
<1>7. /\ IsFiniteSet(Active(rows'))
      /\ Cardinality(Active(rows')) <= Cardinality(Active(rows) \cup {x})
  BY <1>5, <1>6, FS_Subset
<1>8. Cardinality(Active(rows)) \in Nat /\ Cardinality(Active(rows')) \in Nat
  BY <1>7, FS_CardinalityType
<1>. QED  BY <1>6, <1>7, <1>8

\* An eviction takes exactly the chosen row out of use.
LEMMA EvictCount ==
    ASSUME IInv, IsFiniteSet(Active(rows)), NEW v \in Active(rows), NEW c \in Calls,
           Evict(c), v.id = victim[c]
    PROVE  /\ IsFiniteSet(Active(rows'))
           /\ Cardinality(Active(rows')) = Cardinality(Active(rows)) - 1
<1>1. \A r \in rows : r.id = victim[c] <=> r = v
  BY DEF IInv, Base, Unique, Active
<1>2. Active(rows') = Active(rows) \ {v}
  BY <1>1 DEF Evict, Active
<1>. QED  BY <1>2, FS_RemoveElement

LEMMA QInvInit == Init => QInv
<1>1. ASSUME Init PROVE IsFiniteSet(Active(rows)) /\ QuotaKept /\ Room /\ Chosen
  <2>1. rows = {} /\ unenforced = 0 /\ \A c \in Calls : at[c] = "idle"
    BY <1>1 DEF Init
  <2>2. Active(rows) = {}
    BY <2>1 DEF Active
  <2>3. IsFiniteSet(Active(rows)) /\ Cardinality(Active(rows)) = 0
    BY <2>2, FS_EmptySet
  <2>. QED  BY <2>1, <2>3, FactAssumption DEF QuotaKept, Room, Chosen
<1>. QED  BY <1>1, IInvInit DEF QInv

\* The quota survives every step: a call counts, evicts and writes with no other
\* call in between.
LEMMA QInvStep ==
    ASSUME Serial, QInv, [Next]_vars
    PROVE  QInv'
<1>. DEFINE Goal == IsFiniteSet(Active(rows))' /\ QuotaKept' /\ Room' /\ Chosen'
            n == Cardinality(Active(rows))
<1>1. IInv'
  BY IInvStep DEF QInv
<1>2. /\ at \in [Calls -> {"idle", "read", "count", "pick", "evict", "write", "end"}]
      /\ unenforced \in Nat
      /\ MaxEntriesPerUser \in Int
      /\ IsFiniteSet(Active(rows))
      /\ n \in Nat
  BY FactAssumption, FS_CardinalityType DEF QInv, IInv, Base, TypeOK
<1>3. ASSUME NEW c \in Calls, ~Idle(c) PROVE \A d \in Calls \ {c} : Idle(d)
  BY <1>3 DEF QInv, IInv, OneAtATime
<1>4. ASSUME NEW c \in Calls, Begin(c) \/ Decide(c) \/ Skip(c) \/ Abort(c) PROVE Goal
  <2>1. UNCHANGED <<rows, unenforced>>
    BY <1>4 DEF Begin, Decide, Skip, Abort
  <2>2. \A d \in Calls : at'[d] \notin {"pick", "evict", "write"}
    <3>1. CASE Begin(c)
      BY <1>2, <3>1 DEF Begin, Goto, Idle
    <3>2. CASE ~Begin(c)
      <4>1. ~Idle(c) /\ at'[c] \in {"count", "end"} /\ \A d \in Calls \ {c} : at'[d] = at[d]
        BY <1>2, <1>4, <3>2 DEF Decide, Skip, Abort, Return, Goto, Idle
      <4>. QED  BY <1>3, <4>1 DEF Idle
    <3>. QED  BY <3>1, <3>2
  <2>. QED  BY <1>2, <2>1, <2>2 DEF QInv, QuotaKept, Room, Chosen
<1>5. ASSUME NEW c \in Calls, Count(c) PROVE Goal
  <2>1. /\ UNCHANGED <<rows, victim, unenforced>>
        /\ at' = [at EXCEPT ![c] = IF AtCap THEN "pick" ELSE "write"]
        /\ \A d \in Calls \ {c} : Idle(d)
    BY <1>3, <1>5 DEF Count, Goto, Idle
  <2>2. \A d \in Calls : at'[d] \in {"pick", "evict"} => d = c /\ at'[d] = "pick" /\ AtCap
    BY <1>2, <2>1 DEF Idle
  <2>3. \A d \in Calls : at'[d] = "write" => ~AtCap
    BY <1>2, <2>1 DEF Idle
  <2>4. QuotaKept' /\ IsFiniteSet(Active(rows))'
    BY <1>2, <2>1 DEF QInv, QuotaKept
  <2>5. Room'
    BY <1>2, <2>1, <2>3 DEF Room, AtCap
  <2>6. Chosen'
    BY <2>1, <2>2 DEF Chosen, AtCap, Crowded
  <2>. QED  BY <2>4, <2>5, <2>6
<1>6. ASSUME NEW c \in Calls, Pick(c) PROVE Goal
  <2>1. PICK r \in Victims : victim' = [victim EXCEPT ![c] = r.id]
    BY <1>6 DEF Pick
  <2>2. r \in rows /\ Least(r)
    BY <2>1 DEF Victims, Lowest, Least, Active
  <2>3. /\ UNCHANGED <<rows, unenforced>>
        /\ at[c] = "pick"
        /\ at' = [at EXCEPT ![c] = "evict"]
        /\ \A d \in Calls \ {c} : Idle(d)
    BY <1>3, <1>6 DEF Pick, Goto, Idle
  <2>4. \A d \in Calls : at'[d] \in {"pick", "evict", "write"} => d = c /\ at'[d] = "evict"
    BY <1>2, <2>3 DEF Idle
  <2>5. MaxEntriesPerUser > 0 /\ n >= MaxEntriesPerUser
    BY <2>3 DEF QInv, Chosen, Crowded
  <2>6. victim'[c] = r.id
    BY <2>1 DEF QInv, IInv, Base, TypeOK
  <2>7. QuotaKept' /\ Room' /\ IsFiniteSet(Active(rows))'
    BY <1>2, <2>3, <2>4 DEF QInv, QuotaKept, Room
  <2>8. Chosen'
    BY <2>2, <2>3, <2>4, <2>5, <2>6 DEF Chosen, Crowded, Least, Active
  <2>. QED  BY <2>7, <2>8
<1>7. ASSUME NEW c \in Calls, Evict(c) PROVE Goal
  <2>1. /\ at[c] = "evict" /\ unenforced' = unenforced
        /\ at' = [at EXCEPT ![c] = "write"]
        /\ \A d \in Calls \ {c} : Idle(d)
    BY <1>3, <1>7 DEF Evict, Goto, Idle
  <2>2. PICK v \in Active(rows) : v.id = victim[c]
    BY <2>1 DEF QInv, Chosen, Least
  <2>3. IsFiniteSet(Active(rows')) /\ Cardinality(Active(rows')) = n - 1
    BY <1>2, <1>7, <2>2, EvictCount DEF QInv
  <2>4. MaxEntriesPerUser > 0 => n <= MaxEntriesPerUser + unenforced
    BY DEF QInv, QuotaKept
  <2>5. \A d \in Calls : at'[d] \notin {"pick", "evict"}
    BY <1>2, <2>1 DEF Idle
  <2>6. QuotaKept' /\ Room'
    BY <1>2, <2>1, <2>3, <2>4 DEF QuotaKept, Room, Active
  <2>. QED  BY <2>3, <2>5, <2>6 DEF Chosen, Active
<1>8. ASSUME NEW c \in Calls, QuotaFails(c) PROVE Goal
  <2>1. /\ rows' = rows /\ unenforced' = unenforced + 1
        /\ at' = [at EXCEPT ![c] = "write"]
        /\ \A d \in Calls \ {c} : Idle(d)
    BY <1>3, <1>8 DEF QuotaFails, Goto, Idle
  <2>2. \A d \in Calls : at'[d] \notin {"pick", "evict"}
    BY <1>2, <2>1 DEF Idle
  <2>3. MaxEntriesPerUser > 0 => n <= MaxEntriesPerUser + unenforced
    BY DEF QInv, QuotaKept
  <2>4. QuotaKept' /\ Room'
    BY <1>2, <2>1, <2>3 DEF QuotaKept, Room
  <2>. QED  BY <1>2, <2>1, <2>2, <2>4 DEF Chosen
<1>9. ASSUME NEW c \in Calls, Write(c) PROVE Goal
  <2>1. /\ at[c] = "write" /\ unenforced' = unenforced
        /\ at' = [at EXCEPT ![c] = "end"]
        /\ \A d \in Calls \ {c} : Idle(d)
    BY <1>3, <1>9 DEF Write, Return, Goto, Idle
  <2>2. IsFiniteSet(Active(rows')) /\ Cardinality(Active(rows')) <= n + 1
    BY <1>2, <1>9, WriteCount DEF QInv
  <2>3. Cardinality(Active(rows')) \in Nat
    BY <2>2, FS_CardinalityType
  <2>4. MaxEntriesPerUser > 0 => n < MaxEntriesPerUser + unenforced
    BY <2>1 DEF QInv, Room
  <2>5. \A d \in Calls : at'[d] \notin {"pick", "evict", "write"}
    BY <1>2, <2>1 DEF Idle
  <2>6. QuotaKept'
    BY <1>2, <2>1, <2>2, <2>3, <2>4 DEF QuotaKept, Active
  <2>. QED  BY <2>2, <2>5, <2>6 DEF Chosen, Room, Active
<1>10. CASE UNCHANGED vars
  <2>1. rows' = rows /\ at' = at /\ victim' = victim /\ unenforced' = unenforced
    BY <1>10 DEF vars
  <2>2. Goal
    BY <2>1 DEF QInv, QuotaKept, Room, Chosen, Crowded, Least
  <2>. QED  BY <1>1, <2>2 DEF QInv
<1>. QED  BY <1>1, <1>4, <1>5, <1>6, <1>7, <1>8, <1>9, <1>10 DEF Next, QInv

\* enforceQuota keeps the user's quota when calls follow each other: it is
\* exceeded only by as many rows as there were admissions without it.
THEOREM FactQuotaKept ==
    ASSUME Serial PROVE Spec => []QuotaKept
<1>1. Init => QInv
  BY QInvInit
<1>2. QInv /\ [Next]_vars => QInv'
  BY QInvStep
<1>3. QInv => QuotaKept
  BY DEF QInv
<1>. QED  BY <1>1, <1>2, <1>3, PTL DEF Spec
\* A write deletes nothing.
LEMMA WriteKeepsIds ==
    ASSUME NEW c \in Calls, Write(c), NEW s \in rows
    PROVE  s.id \in Ids(rows')
<1>. DEFINE A == Archived(rows, archiveIds[c])
            same == SameKeyValue(A, entry[c])
<1>1. PICK a \in A : a = IF s.id \in archiveIds[c] THEN [s EXCEPT !.status = "archived"] ELSE s
  BY DEF Archived
<1>2. rows' = Upsert(A, entry[c])
  BY DEF Write
<1>3. a.id = s.id
  BY <1>1
<1>4. CASE same = {}
  BY <1>2, <1>3, <1>4 DEF Upsert, Ids
<1>5. CASE same # {}
  <2>. DEFINE r == IF a \in same THEN [a EXCEPT !.conf = entry[c].conf, !.status = "active"] ELSE a
  <2>1. r \in rows'
    BY <1>2, <1>5 DEF Upsert
  <2>2. r.id = a.id
    OBVIOUS
  <2>. QED  BY <1>3, <2>1, <2>2 DEF Ids
<1>. QED  BY <1>4, <1>5

\* enforceQuota evicts only at the quota, and only a row in use that no other is
\* less certain than, when calls follow each other.
THEOREM FactEvictsTheLeast ==
    ASSUME Serial PROVE Spec => EvictsTheLeast
<1>1. Init => QInv
  BY QInvInit
<1>2. QInv /\ [Next]_vars => QInv'
  BY QInvStep
<1>3. ASSUME QInv, [Next]_vars
      PROVE  \A r \in rows : r.id \notin Ids(rows') => Least(r) /\ Crowded
  <2>1. SUFFICES ASSUME NEW r \in rows, r.id \notin Ids(rows') PROVE Least(r) /\ Crowded
    OBVIOUS
  <2>2. r.id \in Ids(rows)
    BY DEF Ids
  <2>3. PICK c \in Calls : Evict(c) \/ Write(c)
    <3>1. SUFFICES ASSUME ~ \E c \in Calls : Evict(c) \/ Write(c) PROVE FALSE
      OBVIOUS
    <3>2. rows' = rows
      BY <1>3, <3>1 DEF Next, vars, Begin, Decide, Skip, Count, Pick, QuotaFails, Abort
    <3>. QED  BY <2>1, <2>2, <3>2
  <2>4. Evict(c)
    BY <2>1, <2>3, WriteKeepsIds
  <2>5. PICK v \in rows : v.id = victim[c] /\ Least(v)
    BY <1>3, <2>4 DEF Evict, QInv, Chosen
  <2>6. r.id = victim[c]
    BY <2>1, <2>4 DEF Evict, Ids
  <2>7. r = v
    BY <1>3, <2>5, <2>6 DEF QInv, IInv, Base, Unique
  <2>8. Crowded
    BY <1>3, <2>4 DEF Evict, QInv, Chosen
  <2>. QED  BY <2>5, <2>7, <2>8
<1>4. QInv /\ [Next]_vars => [\A r \in rows : r.id \notin Ids(rows') => Least(r) /\ Crowded]_table
  BY <1>3
<1>. QED  BY <1>1, <1>2, <1>4, PTL DEF Spec, EvictsTheLeast
=============================================================================
