--------------------------- MODULE SessionStores ----------------------------
(***************************************************************************)
(* The three session stores behind one interface, and the requests that    *)
(* use them: chat turns, which record the agent, store the question, read  *)
(* the history and store what follows; and the HTTP handlers that create,  *)
(* read and delete a session.  The backend is chosen at the start.         *)
(*                                                                         *)
(*   backend  "memory", "redis" or "mysql"                                 *)
(*   now      the time, in steps of which a TTL has several                *)
(*   kept     what the store holds of a session (see Fresh)                *)
(*   turn     where a chat turn is, for which session and agent, and how   *)
(*            often the client has run its current pipeline again          *)
(*   reading  the sessions a handler has fetched from Redis and not renewed *)
(*   faults   how many calls, or runs of a pipeline, have broken off       *)
(* and, for the properties only:                                           *)
(*   touched  when the store last confirmed a message, or the renewal that *)
(*            goes with a read                                             *)
(*   tagged   the agent it last confirmed, when, unless dropped since      *)
(*   life     "new", "open", or since a deletion with no write after it    *)
(*            "deleted", or "unsure" when the deletion was not confirmed   *)
(*                                                                         *)
(* All requests are one user's.  A message is the turn that wrote it and a *)
(* number.  A Redis pipeline is no transaction, but the interleavings of   *)
(* its commands with another client's give no result that some order of    *)
(* the pipelines does not, so each run of it is one step.  The restart of  *)
(* the process, which empties the in-memory store, is left out.            *)
(***************************************************************************)
EXTENDS Integers, Sequences

CONSTANTS
    Backends,   \* the backends to look at
    Sessions, Turns, Agents,
    Unset,      \* no agent: the empty agent_id
    MaxMs,      \* memory.max_messages
    TTL,        \* memory.ttl
    MaxTime,    \* the bound on now
    MaxRetries, \* redis.max_retries
    MaxSaid,    \* the bound on the messages of a turn
    MaxFaults   \* the bound on faults

ASSUME StoresAssumption ==
    /\ Backends \subseteq {"memory", "redis", "mysql"}
    /\ Unset \notin Agents
    /\ MaxMs \in Nat \ {0} /\ TTL \in Nat \ {0} /\ MaxRetries \in Nat
    /\ MaxTime \in Nat /\ MaxSaid \in Nat \ {0} /\ MaxFaults \in Nat

VARIABLES backend, now, kept, turn, reading, faults, touched, tagged, life

history == <<touched, tagged, life>>
vars == <<backend, now, kept, turn, reading, faults, touched, tagged, life>>

\* A key or row that never expires.
Forever == MaxTime + TTL + 1

\* list, agentKey and userKey are the times until which the messages, the
\* agent and the owner are held, 0 when they are not.  In memory the three
\* are one entry, in MySQL the last two are one row.
Fresh == [msgs |-> <<>>, agent |-> Unset, list |-> 0, agentKey |-> 0, userKey |-> 0]

Messages == Turns \X (1 .. MaxSaid)
Untagged == [agent |-> Unset, at |-> 0]
Idle(s) == [at |-> "idle", session |-> s, agent |-> Unset, said |-> 0, tries |-> 0]

Init ==
    /\ backend \in Backends
    /\ now = 0
    /\ kept = [s \in Sessions |-> Fresh]
    /\ turn \in [Turns -> {Idle(s) : s \in Sessions}]
    /\ reading = {} /\ faults = 0
    /\ touched = [s \in Sessions |-> 0]
    /\ tagged = [s \in Sessions |-> Untagged]
    /\ life = [s \in Sessions |-> "new"]

-----------------------------------------------------------------------------
\* Every call of a store gives a set of outcomes: what is kept, and whether
\* the caller is told that it went well.
Ok(k) == [kept |-> k, ok |-> TRUE]
Failed(k) == [kept |-> k, ok |-> FALSE]

\* A call of a server does what it should, or breaks off and leaves one of broken.
Attempt(done, broken) ==
    {Ok(done)} \cup IF faults = MaxFaults THEN {} ELSE {Failed(b) : b \in broken}

\* Mutant of Newest: the list is not cut.
NewestAll(msgs) == msgs

Newest(msgs) ==
    IF Len(msgs) > MaxMs THEN SubSeq(msgs, Len(msgs) - MaxMs + 1, Len(msgs)) ELSE msgs

\* The in-memory store: one entry with one expiry.
Lasting(k, until) == [k EXCEPT !.list = until, !.agentKey = until, !.userKey = until]

\* Mutant of MemoryAdd: only a new entry gets an expiry.
MemoryAddStale(k, m) ==
    {Ok([IF k.list = 0 THEN Lasting(k, now + TTL) ELSE k
            EXCEPT !.msgs = Newest(Append(@, m))])}

MemoryAdd(k, m) == {Ok([Lasting(k, now + TTL) EXCEPT !.msgs = Newest(Append(@, m))])}

MemoryHistory(k) == {Ok(Lasting(k, now + TTL))}

\* The expiry of an entry that is there stays as it is.
MemorySetAgent(k, a) ==
    {Ok([IF k.list = 0 THEN Lasting(k, now + TTL) ELSE k EXCEPT !.agent = a])}
-----------------------------------------------------------------------------
\* Redis commands.  EXPIRE of an absent key does nothing; RPUSH makes a list
\* that stays for ever and leaves the expiry of one that is there.
RPush(k, m) ==
    [k EXCEPT !.msgs = Append(@, m), !.list = IF @ = 0 THEN Forever ELSE @]
Expire(k) == [k EXCEPT !.list = IF @ = 0 THEN 0 ELSE now + TTL]
LTrim(k) == [k EXCEPT !.msgs = Newest(@)]
SetUser(k) == [k EXCEPT !.userKey = now + TTL]

\* The pipeline of AddMessage, and what it may leave behind when it breaks.
Added(k, m) == SetUser(LTrim(Expire(RPush(k, m))))
AddBroken(k, m) ==
    {k, RPush(k, m), Expire(RPush(k, m)), LTrim(Expire(RPush(k, m))), Added(k, m)}

\* Mutant of SetAgentKey: the agent of a session that has one keeps its expiry.
SetAgentKeyStale(k, a) ==
    IF k.agentKey = 0 THEN [k EXCEPT !.agent = a, !.agentKey = now + TTL] ELSE [k EXCEPT !.agent = a]

SetAgentKey(k, a) == [k EXCEPT !.agent = a, !.agentKey = now + TTL]

AgentBroken(k, a) == {k, SetAgentKey(k, a), SetUser(SetAgentKey(k, a))}

\* A connection may break after any command; the caller then decides whether
\* the pipeline is run again (see Again).
RedisAdd(k, m) == Attempt(Added(k, m), AddBroken(k, m))

RedisSetAgent(k, a) == Attempt(SetUser(SetAgentKey(k, a)), AgentBroken(k, a))

\* The second command of History, whose failure is only logged.  The first is
\* FetchContext, or FetchHistory.
RedisRenew(k) == Attempt(Expire(k), {k, Expire(k)})

\* Every key goes at its own time.
RedisAt(k, time) ==
    [msgs  |-> IF k.list <= time THEN <<>> ELSE k.msgs,
     agent |-> IF k.agentKey <= time THEN Unset ELSE k.agent,
     list  |-> IF k.list <= time THEN 0 ELSE k.list,
     agentKey |-> IF k.agentKey <= time THEN 0 ELSE k.agentKey,
     userKey  |-> IF k.userKey <= time THEN 0 ELSE k.userKey]
-----------------------------------------------------------------------------
\* MySQL: every call is one statement or one transaction, without a bound, and
\* may be committed although the reply is lost.
OneCommit(k, k2) == Attempt(k2, {k, k2})

MySQLAdd(k, m) == OneCommit(k, [k EXCEPT !.msgs = Append(@, m), !.list = Forever])

MySQLSetAgent(k, a) ==
    OneCommit(k, [k EXCEPT !.agent = a, !.agentKey = Forever, !.userKey = Forever])
-----------------------------------------------------------------------------
\* The interface.
AddMessage(k, m) ==
    CASE backend = "memory" -> MemoryAdd(k, m)
      [] backend = "redis" -> RedisAdd(k, m)
      [] backend = "mysql" -> MySQLAdd(k, m)

SetAgent(k, a) ==
    CASE backend = "memory" -> MemorySetAgent(k, a)
      [] backend = "redis" -> RedisSetAgent(k, a)
      [] backend = "mysql" -> MySQLSetAgent(k, a)

\* What reading a session that is there does to it.
History(k) ==
    CASE backend = "memory" -> MemoryHistory(k)
      [] backend = "redis" -> RedisRenew(k)
      [] backend = "mysql" -> Attempt(k, {k})

\* Mutant of Cleared: MySQL's row of the session stays.
ClearedHalf(k) ==
    IF backend \in {"redis", "mysql"} THEN [k EXCEPT !.msgs = <<>>, !.list = 0] ELSE Fresh

\* Redis deletes the list and leaves the other two keys to their expiry.
Cleared(k) == IF backend = "redis" THEN [k EXCEPT !.msgs = <<>>, !.list = 0] ELSE Fresh

Delete(k) == IF backend = "memory" THEN {Ok(Cleared(k))} ELSE OneCommit(k, Cleared(k))

\* ListSessions returns it under agent a, or under any when a is Unset.  Redis
\* finds the sessions by their lists.
Owned(k, a) == k.userKey > 0 /\ (a = Unset \/ k.agent = a)
Listed(s, a) == Owned(kept[s], a) /\ (backend = "redis" => kept[s].list > 0)
-----------------------------------------------------------------------------
Store(s, out) ==
    /\ kept' = [kept EXCEPT ![s] = out.kept]
    /\ faults' = faults + IF out.ok THEN 0 ELSE 1

Touch(s, out) ==
    touched' = IF out.ok THEN [touched EXCEPT ![s] = now] ELSE touched

Tag(s, a, out) ==
    tagged' = [tagged EXCEPT ![s] = IF out.ok THEN [agent |-> a, at |-> now] ELSE Untagged]

Open(s) == life' = [life EXCEPT ![s] = "open"]

MoveTo(t, at) == turn' = [turn EXCEPT ![t].at = at, ![t].tries = 0]

\* The Redis client runs a pipeline or a command that broke once more, as it
\* is, up to MaxRetries times; or it gives up, for an error it does not retry.
Again(t, out) ==
    /\ backend = "redis" /\ ~ out.ok
    /\ turn[t].tries < MaxRetries
    /\ turn' = [turn EXCEPT ![t].tries = @ + 1]

Begin(t) ==
    /\ turn[t].at = "idle"
    /\ \E a \in Agents \cup {Unset} :
          turn' = [turn EXCEPT ![t].agent = a,
                               ![t].at = IF a = Unset THEN "question" ELSE "agent"]
    /\ life' = [life EXCEPT ![turn[t].session] = IF @ = "new" THEN "open" ELSE @]
    /\ UNCHANGED <<backend, now, kept, reading, faults, touched, tagged>>

\* A failure is logged.  A disabled agent ends the turn here.
RecordAgent(t) ==
    LET s == turn[t].session IN
    /\ turn[t].at = "agent"
    /\ \E out \in SetAgent(kept[s], turn[t].agent) :
          /\ Store(s, out) /\ Tag(s, turn[t].agent, out)
          /\ Again(t, out) \/ MoveTo(t, "question") \/ MoveTo(t, "done")
    /\ Open(s)
    /\ UNCHANGED <<backend, now, reading, touched>>

\* A question that cannot be stored ends the turn.
SaveQuestion(t) ==
    LET s == turn[t].session IN
    /\ turn[t].at = "question"
    /\ \E out \in AddMessage(kept[s], <<t, 1>>) :
          /\ Store(s, out) /\ Touch(s, out)
          /\ \/ Again(t, out)
             \/ turn' = [turn EXCEPT ![t].at = IF out.ok THEN "history" ELSE "done",
                                     ![t].said = 1, ![t].tries = 0]
    /\ Open(s)
    /\ UNCHANGED <<backend, now, reading, tagged>>

\* The first command of History in Redis; its failure, and an empty list, are
\* errors.  Without a history the turn goes on.
FetchContext(t) ==
    /\ turn[t].at = "history" /\ backend = "redis"
    /\ \/ /\ kept[turn[t].session].list > 0
          /\ MoveTo(t, "renew") /\ UNCHANGED faults
       \/ /\ kept[turn[t].session].list = 0
          /\ MoveTo(t, "talk") /\ UNCHANGED faults
       \/ /\ faults < MaxFaults
          /\ MoveTo(t, "talk") /\ faults' = faults + 1
    /\ UNCHANGED <<backend, now, kept, reading, history>>

Renew(s, out) == Store(s, out) /\ Touch(s, out)

\* The second command, by which time the list may be another or gone.
RenewContext(t) ==
    LET s == turn[t].session IN
    /\ turn[t].at = "renew" /\ backend = "redis"
    /\ \E out \in History(kept[s]) :
          Renew(s, out) /\ (Again(t, out) \/ MoveTo(t, "talk"))
    /\ UNCHANGED <<backend, now, reading, tagged, life>>

\* The other stores read and renew a session at once.
ReadContext(t) ==
    LET s == turn[t].session IN
    /\ turn[t].at = "history" /\ backend # "redis"
    /\ \/ kept[s].list > 0 /\ \E out \in History(kept[s]) : Renew(s, out)
       \/ kept[s].list = 0 /\ UNCHANGED <<kept, faults, touched>>
    /\ MoveTo(t, "talk")
    /\ UNCHANGED <<backend, now, reading, tagged, life>>

\* A tool call, a result or the answer; a failure is logged.
SaveMessage(t) ==
    LET s == turn[t].session  n == turn[t].said + 1 IN
    /\ turn[t].at = "talk" /\ n <= MaxSaid
    /\ \E out \in AddMessage(kept[s], <<t, n>>) :
          /\ Store(s, out) /\ Touch(s, out)
          /\ Again(t, out) \/ turn' = [turn EXCEPT ![t].said = n, ![t].tries = 0]
    /\ Open(s)
    /\ UNCHANGED <<backend, now, reading, tagged>>

EndTurn(t) ==
    /\ turn[t].at = "talk" /\ turn[t].tries = 0
    /\ MoveTo(t, "done")
    /\ UNCHANGED <<backend, now, kept, reading, faults, history>>
-----------------------------------------------------------------------------
\* The handlers of the chat API.
\* Nobody else knows the session yet, so that a second run of the pipeline
\* that works is one that worked at first.
CreateSession(s, a) ==
    /\ life[s] = "new"
    /\ \E out \in SetAgent(kept[s], a) : Store(s, out) /\ Tag(s, a, out)
    /\ Open(s)
    /\ UNCHANGED <<backend, now, turn, reading, touched>>

FetchHistory(s) ==
    /\ backend = "redis" /\ kept[s].list > 0
    /\ s \notin reading
    /\ reading' = reading \cup {s}
    /\ UNCHANGED <<backend, now, kept, turn, faults, history>>

\* The client may run the command again, and another reader may be at it.
RenewHistory(s) ==
    /\ s \in reading /\ backend = "redis"
    /\ \E out \in History(kept[s]) : Renew(s, out)
    /\ reading' \in {reading, reading \ {s}}
    /\ UNCHANGED <<backend, now, turn, tagged, life>>

ReadHistory(s) ==
    /\ backend # "redis" /\ kept[s].list > 0
    /\ \E out \in History(kept[s]) : Renew(s, out)
    /\ UNCHANGED <<backend, now, turn, reading, tagged, life>>

\* A deletion that the client runs again is another one.
DeleteSession(s) ==
    /\ life[s] # "new"
    /\ \E out \in Delete(kept[s]) :
          /\ Store(s, out)
          /\ life' = [life EXCEPT ![s] = IF out.ok THEN "deleted" ELSE "unsure"]
    /\ tagged' = [tagged EXCEPT ![s] = Untagged]
    /\ UNCHANGED <<backend, now, turn, reading, touched>>
-----------------------------------------------------------------------------
Tick ==
    /\ now < MaxTime
    /\ now' = now + 1
    /\ kept' = IF backend = "redis"
               THEN [s \in Sessions |-> RedisAt(kept[s], now + 1)]
               ELSE kept
    /\ UNCHANGED <<backend, turn, reading, faults, history>>

Expired == {s \in Sessions : kept[s].list > 0 /\ now > kept[s].list}

\* The sweep of the in-memory store, every five minutes.
Cleanup ==
    /\ backend = "memory" /\ Expired # {}
    /\ kept' = [s \in Sessions |-> IF s \in Expired THEN Fresh ELSE kept[s]]
    /\ tagged' = [s \in Sessions |-> IF s \in Expired THEN Untagged ELSE tagged[s]]
    /\ UNCHANGED <<backend, now, turn, reading, faults, touched, life>>

Next ==
    \/ \E t \in Turns :
          \/ Begin(t) \/ RecordAgent(t) \/ SaveQuestion(t)
          \/ FetchContext(t) \/ RenewContext(t) \/ ReadContext(t)
          \/ SaveMessage(t) \/ EndTurn(t)
    \/ \E s \in Sessions :
          \/ \E a \in Agents : CreateSession(s, a)
          \/ FetchHistory(s) \/ RenewHistory(s) \/ ReadHistory(s)
          \/ DeleteSession(s)
    \/ Tick
    \/ Cleanup

Spec == Init /\ [][Next]_vars
-----------------------------------------------------------------------------
Steps == {"idle", "agent", "question", "history", "renew", "talk", "done"}
Times == 0 .. Forever
Agent == Agents \cup {Unset}

Kept == [msgs : Seq(Messages), agent : Agent,
         list : Times, agentKey : Times, userKey : Times]
Turn == [at : Steps, session : Sessions, agent : Agent,
         said : 0 .. MaxSaid, tries : 0 .. MaxRetries]

\* Types; and what a store may hold at most: an entry in memory is one thing
\* with one expiry and never more than MaxMs messages, and a Redis list is
\* cut as long as no call failed half way.
TypeOK ==
    /\ backend \in Backends
    /\ now \in 0 .. MaxTime /\ faults \in 0 .. MaxFaults
    /\ kept \in [Sessions -> Kept]
    /\ turn \in [Turns -> Turn] /\ reading \subseteq Sessions
    /\ touched \in [Sessions -> 0 .. MaxTime]
    /\ tagged \in [Sessions -> [agent : Agent, at : 0 .. MaxTime]]
    /\ life \in [Sessions -> {"new", "open", "deleted", "unsure"}]
    /\ \A s \in Sessions :
          /\ backend = "memory" \/ (backend = "redis" /\ faults = 0) => Len(kept[s].msgs) <= MaxMs
          /\ backend = "memory" => kept[s].list = kept[s].agentKey /\ kept[s].list = kept[s].userKey

\* Every store keeps the promise of SessionLog: whatever the turns, readers
\* and deletions of a session do to each other, and wherever a call breaks
\* off and is run again, its messages stay in the order they were stored, none
\* is lost but the oldest beyond MaxMs, and the session does not expire within
\* TTL of a write that the store has confirmed, or of a read that renewed it:
\* History also succeeds when the renewal fails, and such a read promises nothing.
Log == INSTANCE SessionLog WITH
    log <- [s \in Sessions |-> kept[s].msgs],
    dropped <- {s \in Sessions : life[s] \in {"deleted", "unsure"}}
KeepsSessions == Log!Spec

\* A session with messages is listed under the agent that was last recorded
\* for it, for TTL, although the agent and the owner are kept apart from the
\* messages and are renewed by other calls.
FoundByAgent ==
    \A s \in Sessions :
        /\ kept[s].msgs # <<>>
        /\ tagged[s].agent # Unset /\ now - tagged[s].at < TTL
        => Listed(s, tagged[s].agent)

\* A session whose deletion was confirmed is not listed and has no messages,
\* until somebody, perhaps a turn that was in flight, writes to it again.
StaysDeleted ==
    \A s \in Sessions :
        life[s] = "deleted" => ~ Listed(s, Unset) /\ kept[s].msgs = <<>>

\* What the list of sessions says of a session.
ListedRight == FoundByAgent /\ StaysDeleted
=============================================================================
