---------------------------- MODULE StoreProofs -----------------------------
(***************************************************************************)
(* SessionStores implements SessionLog and lists its sessions right, for   *)
(* any number of sessions, turns and failures, any cap and any TTL.        *)
(***************************************************************************)
EXTENDS SessionStores, SequenceTheorems, TLAPS

USE DEF Ok, Failed

\* A session that was touched at time t is empty or held for TTL from then.
Alive(k, t) == (k.list = 0 /\ k.msgs = <<>>) \/ (k.list # 0 /\ k.list >= t + TTL)

\* MySQL's rows do not expire.
Durable(k) == backend = "mysql" => k.list \in {0, Forever}

\* The inductive invariant: what it says of the stores, and of the requests.
StoreHeld ==
    /\ backend \in Backends
    /\ now \in 0 .. MaxTime /\ faults \in 0 .. MaxFaults
    /\ kept \in [Sessions -> Kept]
    /\ touched \in [Sessions -> 0 .. MaxTime]
    /\ life \in [Sessions -> {"new", "open", "deleted", "unsure"}]
    /\ \A s \in Sessions :
          /\ backend = "memory" \/ (backend = "redis" /\ faults = 0) => Len(kept[s].msgs) <= MaxMs
          /\ backend = "memory" => kept[s].list = kept[s].agentKey /\ kept[s].list = kept[s].userKey
          /\ touched[s] <= now /\ Alive(kept[s], touched[s])
          /\ backend = "mysql" => kept[s].list \in {0, Forever}

StoreInv ==
    /\ StoreHeld
    /\ turn \in [Turns -> Turn] /\ reading \subseteq Sessions
    /\ tagged \in [Sessions -> [agent : Agent, at : 0 .. MaxTime]]

\* The mapping to SessionLog.
LogOf == [s \in Sessions |-> kept[s].msgs]
DroppedOf == {s \in Sessions : life[s] \in {"deleted", "unsure"}}
-----------------------------------------------------------------------------
LEMMA StoreInvType == StoreInv => TypeOK
  BY DEF StoreInv, StoreHeld, TypeOK
-----------------------------------------------------------------------------
\* Cutting to the newest messages gives a log of at most MaxMs messages.
LEMMA NewestType ==
    ASSUME StoresAssumption, NEW l \in Seq(Messages)
    PROVE  /\ Newest(l) \in Seq(Messages)
           /\ Len(Newest(l)) <= MaxMs
  <1>1. Len(l) \in Nat /\ MaxMs \in Nat \ {0}
    BY DEF StoresAssumption
  <1>2. CASE Len(l) > MaxMs
    <2>1. \A i \in Len(l) - MaxMs + 1 .. Len(l) : l[i] \in Messages
      BY <1>1, <1>2, ElementOfSeq
    <2>2. Len(l) - MaxMs + 1 \in Int /\ Len(l) \in Int
      BY <1>1
    <2> QED
      BY <1>1, <1>2, <2>1, <2>2, SubSeqProperties DEF Newest
  <1>3. CASE ~ (Len(l) > MaxMs)
    BY <1>1, <1>3 DEF Newest
  <1> QED
    BY <1>2, <1>3

-----------------------------------------------------------------------------
(***************************************************************************)
(* What the operations of the backends make of a session.                  *)
(***************************************************************************)
\* The logs that storing m may make of l.
Logs(l, m) == {Append(l, m), Newest(Append(l, m))}

\* A call has its effect, or breaks off while the bound on failures allows it.
LEMMA AttemptOutcome ==
    ASSUME NEW done, NEW broken, NEW out \in Attempt(done, broken)
    PROVE  \/ out.ok = TRUE /\ out.kept = done
           \/ out.ok = FALSE /\ out.kept \in broken /\ faults # MaxFaults
  <1>1. \/ out = Ok(done)
        \/ faults # MaxFaults /\ \E b \in broken : out = Failed(b)
    BY DEF Attempt
  <1>2. CASE out = Ok(done)
    BY <1>2
  <1>3. ASSUME faults # MaxFaults, NEW b \in broken, out = Failed(b)
        PROVE  out.ok = FALSE /\ out.kept \in broken
    BY <1>3
  <1> QED
    BY <1>1, <1>2, <1>3

LEMMA TimesType ==
    ASSUME StoresAssumption, TypeOK
    PROVE  /\ now \in Nat /\ TTL \in Nat \ {0} /\ MaxTime \in Nat /\ now <= MaxTime
           /\ Forever \in Times /\ 0 \in Times /\ now + TTL \in Times
           /\ Times \subseteq Nat /\ Forever >= now + TTL /\ Forever # 0
  BY DEF StoresAssumption, TypeOK, Times, Forever

\* The pipeline of AddMessage when every command is run.
LEMMA AddedType ==
    ASSUME StoresAssumption, TypeOK, NEW k \in Kept, NEW m \in Messages
    PROVE  /\ Added(k, m) \in Kept
           /\ Added(k, m).list = now + TTL
           /\ Added(k, m).msgs = Newest(Append(k.msgs, m))
  <1>1. k.msgs \in Seq(Messages) /\ k.list \in Times
    BY DEF Kept
  <1>2. Append(k.msgs, m) \in Seq(Messages)
    BY <1>1
  <1>3. Newest(Append(k.msgs, m)) \in Seq(Messages)
    BY <1>2, NewestType
  <1>4. /\ RPush(k, m) \in Kept
        /\ RPush(k, m).msgs = Append(k.msgs, m) /\ RPush(k, m).list # 0
    BY <1>1, <1>2, TimesType DEF RPush, Kept
  <1>5. /\ Expire(RPush(k, m)) \in Kept
        /\ Expire(RPush(k, m)).msgs = Append(k.msgs, m)
        /\ Expire(RPush(k, m)).list = now + TTL
    BY <1>4, TimesType DEF Expire, Kept
  <1>6. /\ LTrim(Expire(RPush(k, m))) \in Kept
        /\ LTrim(Expire(RPush(k, m))).msgs = Newest(Append(k.msgs, m))
        /\ LTrim(Expire(RPush(k, m))).list = now + TTL
    BY <1>3, <1>5 DEF LTrim, Kept
  <1> QED
    BY <1>6, TimesType DEF Added, SetUser, Kept

\* The same pipeline, wherever it breaks off.
LEMMA BrokenType ==
    ASSUME StoresAssumption, TypeOK, NEW k \in Kept, NEW m \in Messages,
           NEW t \in 0 .. now, Alive(k, t), NEW b \in AddBroken(k, m)
    PROVE  /\ b \in Kept /\ Alive(b, t)
           /\ b.msgs \in {k.msgs, Append(k.msgs, m), Newest(Append(k.msgs, m))}
  <1>1. k.msgs \in Seq(Messages) /\ k.list \in Times
    BY DEF Kept
  <1>2. Append(k.msgs, m) \in Seq(Messages)
    BY <1>1
  <1>3. Newest(Append(k.msgs, m)) \in Seq(Messages)
    BY <1>2, NewestType
  <1>4. t \in Nat /\ t <= now
    BY TimesType
  <1>5. /\ RPush(k, m) \in Kept
        /\ RPush(k, m).msgs = Append(k.msgs, m)
        /\ RPush(k, m).list = IF k.list = 0 THEN Forever ELSE k.list
    BY <1>1, <1>2, TimesType DEF RPush, Kept
  <1>6. RPush(k, m).list # 0 /\ RPush(k, m).list >= t + TTL
    BY <1>1, <1>4, <1>5, TimesType DEF Alive
  <1>7. /\ Expire(RPush(k, m)) \in Kept
        /\ Expire(RPush(k, m)).msgs = Append(k.msgs, m)
        /\ Expire(RPush(k, m)).list = now + TTL
    BY <1>5, <1>6, TimesType DEF Expire, Kept
  <1>8. /\ LTrim(Expire(RPush(k, m))) \in Kept
        /\ LTrim(Expire(RPush(k, m))).msgs = Newest(Append(k.msgs, m))
        /\ LTrim(Expire(RPush(k, m))).list = now + TTL
    BY <1>3, <1>7 DEF LTrim, Kept
  <1>9. now + TTL # 0 /\ now + TTL >= t + TTL
    BY <1>4, TimesType
  <1> QED
    BY <1>5, <1>6, <1>7, <1>8, <1>9, AddedType DEF AddBroken, Alive

\* What AddMessage of any backend makes of a session.
AddKeeps(k, m, t, out) ==
    /\ out.kept \in Kept /\ out.ok \in BOOLEAN
    /\ Alive(out.kept, IF out.ok THEN now ELSE t)
    /\ \/ ~ out.ok /\ out.kept.msgs = k.msgs
       \/ out.kept.msgs \in Logs(k.msgs, m)

LEMMA MemoryAddKeeps ==
    ASSUME StoresAssumption, TypeOK, NEW k \in Kept, NEW m \in Messages,
           NEW t \in 0 .. now, NEW out \in MemoryAdd(k, m)
    PROVE  /\ AddKeeps(k, m, t, out) /\ out.ok
           /\ Len(out.kept.msgs) <= MaxMs
           /\ out.kept.list = out.kept.agentKey /\ out.kept.list = out.kept.userKey
  <1>1. k.msgs \in Seq(Messages)
    BY DEF Kept
  <1>2. Append(k.msgs, m) \in Seq(Messages)
    BY <1>1
  <1>3. Newest(Append(k.msgs, m)) \in Seq(Messages) /\ Len(Newest(Append(k.msgs, m))) <= MaxMs
    BY <1>2, NewestType
  <1>4. /\ Lasting(k, now + TTL) \in Kept
        /\ Lasting(k, now + TTL).msgs = k.msgs /\ Lasting(k, now + TTL).list = now + TTL
        /\ Lasting(k, now + TTL).agentKey = now + TTL /\ Lasting(k, now + TTL).userKey = now + TTL
    BY TimesType DEF Lasting, Kept
  <1>5. out = Ok([Lasting(k, now + TTL) EXCEPT !.msgs = Newest(Append(@, m))])
    BY DEF MemoryAdd
  <1>6. /\ out.ok = TRUE /\ out.kept \in Kept
        /\ out.kept.msgs = Newest(Append(k.msgs, m)) /\ out.kept.list = now + TTL
        /\ out.kept.agentKey = now + TTL /\ out.kept.userKey = now + TTL
    BY <1>3, <1>4, <1>5 DEF Kept
  <1>7. Newest(Append(k.msgs, m)) \in Logs(k.msgs, m)
    BY DEF Logs
  <1>8. now + TTL # 0 /\ now + TTL >= now + TTL
    BY TimesType
  <1>9. Alive(out.kept, now)
    BY <1>6, <1>8 DEF Alive
  <1> QED
    BY <1>3, <1>6, <1>7, <1>9 DEF AddKeeps

LEMMA RedisAddKeeps ==
    ASSUME StoresAssumption, TypeOK, NEW k \in Kept, NEW m \in Messages,
           NEW t \in 0 .. now, Alive(k, t), NEW out \in RedisAdd(k, m)
    PROVE  /\ AddKeeps(k, m, t, out)
           /\ out.ok => Len(out.kept.msgs) <= MaxMs
  <1>0. k.msgs \in Seq(Messages) /\ Append(k.msgs, m) \in Seq(Messages)
    BY DEF Kept
  <1>1. \/ out.ok = TRUE /\ out.kept = Added(k, m)
        \/ out.ok = FALSE /\ out.kept \in AddBroken(k, m)
    BY AttemptOutcome DEF RedisAdd
  <1>2. Newest(Append(k.msgs, m)) \in Logs(k.msgs, m) /\ Append(k.msgs, m) \in Logs(k.msgs, m)
    BY DEF Logs
  <1>3. CASE out.ok = TRUE /\ out.kept = Added(k, m)
    <2>1. /\ out.kept \in Kept /\ out.kept.list = now + TTL
          /\ out.kept.msgs = Newest(Append(k.msgs, m))
      BY <1>3, AddedType
    <2>2. now + TTL # 0 /\ now + TTL >= now + TTL
      BY TimesType
    <2>3. Alive(out.kept, now)
      BY <2>1, <2>2 DEF Alive
    <2>4. Len(Newest(Append(k.msgs, m))) <= MaxMs
      BY <1>0, NewestType
    <2> QED
      BY <1>2, <1>3, <2>1, <2>3, <2>4 DEF AddKeeps
  <1>4. CASE out.ok = FALSE /\ out.kept \in AddBroken(k, m)
    <2>1. /\ out.kept \in Kept /\ Alive(out.kept, t)
          /\ out.kept.msgs \in {k.msgs, Append(k.msgs, m), Newest(Append(k.msgs, m))}
      BY <1>4, BrokenType
    <2> QED
      BY <1>2, <1>4, <2>1 DEF AddKeeps
  <1> QED
    BY <1>1, <1>3, <1>4

LEMMA MySQLAddKeeps ==
    ASSUME StoresAssumption, TypeOK, NEW k \in Kept, NEW m \in Messages,
           NEW t \in 0 .. now, Alive(k, t), Durable(k), NEW out \in MySQLAdd(k, m)
    PROVE  AddKeeps(k, m, t, out) /\ Durable(out.kept)
  <1> DEFINE row == [k EXCEPT !.msgs = Append(@, m), !.list = Forever]
  <1>1. k.msgs \in Seq(Messages) /\ Append(k.msgs, m) \in Seq(Messages)
    BY DEF Kept
  <1>2. Append(k.msgs, m) \in Logs(k.msgs, m)
    BY DEF Logs
  <1>3. row \in Kept /\ row.msgs = Append(k.msgs, m) /\ row.list = Forever
    BY <1>1, TimesType DEF Kept
  <1>4. out \in Attempt(row, {k, row})
    BY DEF MySQLAdd, OneCommit
  <1> HIDE DEF row
  <1>5. \/ out.ok = TRUE /\ out.kept = row
        \/ out.ok = FALSE /\ out.kept \in {k, row}
    BY <1>4, AttemptOutcome
  <1>6. t \in Nat /\ t <= now /\ Forever # 0 /\ Forever >= now + TTL /\ Forever >= t + TTL
    BY TimesType
  <1>7. Alive(row, now) /\ Alive(row, t) /\ Durable(row)
    BY <1>3, <1>6 DEF Alive, Durable
  <1>8. CASE out.kept = row /\ out.ok \in BOOLEAN
    BY <1>2, <1>3, <1>7, <1>8 DEF AddKeeps
  <1>9. CASE out.kept = k /\ out.ok = FALSE
    BY <1>9 DEF AddKeeps
  <1> QED
    BY <1>5, <1>8, <1>9

\* What SetAgent and History make of a session.
SetKeeps(k, t, out) ==
    /\ out.kept \in Kept /\ out.ok \in BOOLEAN
    /\ out.kept.msgs = k.msgs /\ Alive(out.kept, t)

LEMMA SetAgentKeeps ==
    ASSUME StoresAssumption, TypeOK, NEW k \in Kept, NEW a \in Agent,
           NEW t \in 0 .. now, Alive(k, t), Durable(k), NEW out \in SetAgent(k, a)
    PROVE  /\ SetKeeps(k, t, out) /\ Durable(out.kept)
           /\ backend = "memory" => out.ok
           /\ backend = "memory" /\ k.list = k.agentKey /\ k.list = k.userKey
                 => out.kept.list = out.kept.agentKey /\ out.kept.list = out.kept.userKey
  <1>0. /\ k.msgs \in Seq(Messages) /\ k.list \in Times /\ k.agentKey \in Times
        /\ k.userKey \in Times /\ a \in Agent /\ t \in Nat /\ t <= now
    BY TimesType DEF Kept, Agent
  <1>1. CASE backend = "memory"
    <2>1. /\ out.ok = TRUE
          /\ out.kept = [IF k.list = 0 THEN Lasting(k, now + TTL) ELSE k EXCEPT !.agent = a]
      BY <1>1 DEF SetAgent, MemorySetAgent
    <2>2. CASE k.list = 0
      <3>1. /\ out.kept \in Kept /\ out.kept.msgs = k.msgs /\ out.kept.list = now + TTL
            /\ out.kept.agentKey = now + TTL /\ out.kept.userKey = now + TTL
        BY <1>0, <2>1, <2>2, TimesType DEF Lasting, Kept
      <3>2. now + TTL # 0 /\ now + TTL >= t + TTL
        BY <1>0, TimesType
      <3>3. Alive(out.kept, t)
        BY <3>1, <3>2 DEF Alive
      <3> QED
        BY <1>1, <2>1, <3>1, <3>3 DEF SetKeeps, Durable
    <2>3. CASE k.list # 0
      <3>1. /\ out.kept \in Kept /\ out.kept.msgs = k.msgs /\ out.kept.list = k.list
            /\ out.kept.agentKey = k.agentKey /\ out.kept.userKey = k.userKey
        BY <1>0, <2>1, <2>3 DEF Kept
      <3> QED
        BY <1>1, <2>1, <3>1 DEF SetKeeps, Alive, Durable
    <2> QED
      BY <2>2, <2>3
  <1>2. CASE backend = "redis"
    <2>1. \A b \in AgentBroken(k, a) : b \in Kept /\ b.msgs = k.msgs /\ b.list = k.list
      BY <1>0, TimesType DEF AgentBroken, SetAgentKey, SetUser, Kept
    <2>2. /\ out.kept \in AgentBroken(k, a) /\ out.ok \in BOOLEAN
      <3>1. SetUser(SetAgentKey(k, a)) \in AgentBroken(k, a)
        BY DEF AgentBroken
      <3>2. out \in Attempt(SetUser(SetAgentKey(k, a)), AgentBroken(k, a))
        BY <1>2 DEF SetAgent, RedisSetAgent
      <3> QED
        BY <3>1, <3>2, AttemptOutcome
    <2> QED
      BY <1>2, <2>1, <2>2 DEF SetKeeps, Alive, Durable
  <1>3. CASE backend = "mysql"
    <2>1. /\ out.kept \in {k, [k EXCEPT !.agent = a, !.agentKey = Forever, !.userKey = Forever]}
          /\ out.ok \in BOOLEAN
      <3> DEFINE row == [k EXCEPT !.agent = a, !.agentKey = Forever, !.userKey = Forever]
      <3>1. out \in Attempt(row, {k, row})
        BY <1>3 DEF SetAgent, MySQLSetAgent, OneCommit
      <3> HIDE DEF row
      <3>2. out.kept \in {k, row} /\ out.ok \in BOOLEAN
        BY <3>1, AttemptOutcome
      <3> QED
        BY <3>2 DEF row
    <2>2. out.kept \in Kept /\ out.kept.msgs = k.msgs /\ out.kept.list = k.list
      BY <1>0, <2>1, TimesType DEF Kept
    <2> QED
      BY <1>3, <2>1, <2>2 DEF SetKeeps, Alive, Durable
  <1> QED
    BY <1>1, <1>2, <1>3 DEF TypeOK, StoresAssumption

LEMMA AddMessageKeeps ==
    ASSUME StoresAssumption, TypeOK, NEW k \in Kept, NEW m \in Messages,
           NEW t \in 0 .. now, Alive(k, t), Durable(k), NEW out \in AddMessage(k, m)
    PROVE  /\ AddKeeps(k, m, t, out) /\ Durable(out.kept)
           /\ backend = "memory" => /\ out.ok
                                   /\ out.kept.list = out.kept.agentKey
                                   /\ out.kept.list = out.kept.userKey
           /\ backend = "memory" \/ (backend = "redis" /\ out.ok) => Len(out.kept.msgs) <= MaxMs
  <1>1. CASE backend = "memory"
    BY <1>1, MemoryAddKeeps DEF AddMessage, Durable
  <1>2. CASE backend = "redis"
    BY <1>2, RedisAddKeeps DEF AddMessage, Durable
  <1>3. CASE backend = "mysql"
    BY <1>3, MySQLAddKeeps DEF AddMessage
  <1> QED
    BY <1>1, <1>2, <1>3 DEF TypeOK, StoresAssumption

\* In Redis this is the renewal, which a list that has gone meanwhile ignores.
LEMMA HistoryKeeps ==
    ASSUME StoresAssumption, TypeOK, NEW k \in Kept,
           NEW t \in 0 .. now, Alive(k, t), Durable(k), NEW out \in History(k)
    PROVE  /\ SetKeeps(k, IF out.ok THEN now ELSE t, out) /\ Durable(out.kept)
           /\ backend = "memory" => /\ out.ok
                                   /\ out.kept.list = out.kept.agentKey
                                   /\ out.kept.list = out.kept.userKey
  <1>0. k.list \in Times /\ t \in Nat /\ t <= now
    BY TimesType DEF Kept
  <1>1. CASE backend = "memory"
    <2>1. out = Ok(Lasting(k, now + TTL))
      BY <1>1 DEF History, MemoryHistory
    <2>2. /\ out.ok = TRUE /\ out.kept \in Kept
          /\ out.kept.msgs = k.msgs /\ out.kept.list = now + TTL
          /\ out.kept.agentKey = now + TTL /\ out.kept.userKey = now + TTL
      BY <2>1, TimesType DEF Lasting, Kept
    <2>3. Alive(out.kept, now)
      BY <2>2, TimesType DEF Alive
    <2> QED
      BY <1>1, <2>2, <2>3 DEF SetKeeps, Durable
  <1>2. CASE backend = "redis"
    <2>1. out \in Attempt(Expire(k), {k, Expire(k)})
      BY <1>2 DEF History, RedisRenew
    <2>2. \/ out.ok = TRUE /\ out.kept = Expire(k)
          \/ out.ok = FALSE /\ out.kept \in {k, Expire(k)}
      BY <2>1, AttemptOutcome
    <2>3. /\ Expire(k) \in Kept /\ Expire(k).msgs = k.msgs
          /\ Expire(k).list = IF k.list = 0 THEN 0 ELSE now + TTL
      BY TimesType DEF Expire, Kept
    <2>4. now + TTL # 0 /\ now + TTL >= now + TTL /\ now + TTL >= t + TTL
      BY <1>0, TimesType
    <2>5. Alive(Expire(k), now) /\ Alive(Expire(k), t)
      BY <2>3, <2>4 DEF Alive
    <2>6. CASE out.ok = TRUE /\ out.kept = Expire(k)
      BY <1>2, <2>3, <2>5, <2>6 DEF SetKeeps, Durable
    <2>7. CASE out.ok = FALSE /\ out.kept = Expire(k)
      BY <1>2, <2>3, <2>5, <2>7 DEF SetKeeps, Durable
    <2>8. CASE out.ok = FALSE /\ out.kept = k
      BY <1>2, <2>8 DEF SetKeeps, Durable
    <2> QED
      BY <2>2, <2>6, <2>7, <2>8
  <1>3. CASE backend = "mysql"
    <2>1. out \in Attempt(k, {k})
      BY <1>3 DEF History
    <2>2. out.kept = k /\ out.ok \in BOOLEAN
      <3>1. \/ out.ok = TRUE /\ out.kept = k
            \/ out.ok = FALSE /\ out.kept \in {k}
        BY <2>1, AttemptOutcome
      <3> QED
        BY <3>1
    <2>3. Alive(k, now)
      BY <1>3, TimesType DEF Alive, Durable
    <2> QED
      BY <1>3, <2>2, <2>3 DEF SetKeeps
  <1> QED
    BY <1>1, <1>2, <1>3 DEF TypeOK, StoresAssumption

LEMMA DeleteKeeps ==
    ASSUME StoresAssumption, TypeOK, NEW k \in Kept,
           NEW t \in 0 .. now, Alive(k, t), Durable(k), NEW out \in Delete(k)
    PROVE  /\ out.kept \in Kept /\ out.ok \in BOOLEAN
           /\ Alive(out.kept, t) /\ Durable(out.kept)
           /\ out.kept.msgs \in {k.msgs, <<>>}
           /\ backend = "memory" => out.ok /\ out.kept = Fresh
  <1>1. Cleared(k) \in Kept /\ Cleared(k).msgs = <<>> /\ Cleared(k).list = 0
    <2>1. Fresh \in Kept
      BY TimesType DEF Fresh, Kept, Agent
    <2>2. <<>> \in Seq(Messages)
      OBVIOUS
    <2> QED
      BY <2>1, <2>2, TimesType DEF Cleared, Kept, Fresh
  <1>2. Alive(Cleared(k), t) /\ Durable(Cleared(k))
    BY <1>1 DEF Alive, Durable
  <1>3. CASE backend = "memory"
    <2>1. out = Ok(Cleared(k))
      BY <1>3 DEF Delete
    <2>2. out.kept = Cleared(k) /\ out.ok = TRUE
      BY <2>1
    <2>3. out.kept = Fresh
      BY <1>3, <2>2 DEF Cleared
    <2> QED
      BY <1>1, <1>2, <2>2, <2>3
  <1>4. CASE backend # "memory"
    <2>1. out \in Attempt(Cleared(k), {k, Cleared(k)})
      BY <1>4 DEF Delete, OneCommit
    <2>2. out.kept \in {k, Cleared(k)} /\ out.ok \in BOOLEAN
      BY <2>1, AttemptOutcome
    <2> QED
      BY <1>1, <1>4, <1>2, <2>2
  <1> QED
    BY <1>3, <1>4

\* A call fails only while the bound on failures allows it.
LEMMA FailuresBounded ==
    ASSUME TypeOK, StoresAssumption, faults = MaxFaults, NEW k, NEW m, NEW a
    PROVE  /\ \A out \in AddMessage(k, m) : out.ok
           /\ \A out \in SetAgent(k, a) : out.ok
           /\ \A out \in History(k) : out.ok
           /\ \A out \in Delete(k) : out.ok
  <1>0. \A done, broken : \A out \in Attempt(done, broken) : out.ok
    BY AttemptOutcome
  <1>1. backend \in {"memory", "redis", "mysql"}
    BY DEF TypeOK, StoresAssumption
  <1>2. \A out \in AddMessage(k, m) : out.ok
    BY <1>0, <1>1 DEF AddMessage, MemoryAdd, RedisAdd, MySQLAdd, OneCommit
  <1>3. \A out \in SetAgent(k, a) : out.ok
    BY <1>0, <1>1 DEF SetAgent, MemorySetAgent, RedisSetAgent, MySQLSetAgent, OneCommit
  <1>4. \A out \in History(k) : out.ok
    BY <1>0, <1>1 DEF History, MemoryHistory, RedisRenew
  <1>5. \A out \in Delete(k) : out.ok
    BY <1>0 DEF Delete, OneCommit
  <1> QED
    BY <1>2, <1>3, <1>4, <1>5
-----------------------------------------------------------------------------
(***************************************************************************)
(* The invariant and the simulation, one lemma for every kind of step.     *)
(***************************************************************************)
\* The parts of the invariant and of the mapping that a step on s disturbs.
LEMMA StoreStep ==
    ASSUME StoresAssumption, StoreHeld, NEW s \in Sessions, NEW out,
           out.kept \in Kept, out.ok \in BOOLEAN, out.ok \/ faults # MaxFaults,
           Store(s, out), touched' \in {touched, [touched EXCEPT ![s] = now]},
           backend' = backend, now' = now,
           life' \in [Sessions -> {"new", "open", "deleted", "unsure"}],
           Alive(out.kept, touched'[s]), Durable(out.kept),
           backend = "memory" => /\ out.kept.list = out.kept.agentKey
                                 /\ out.kept.list = out.kept.userKey,
           backend = "memory" \/ (backend = "redis" /\ faults' = 0)
               => Len(out.kept.msgs) <= MaxMs
    PROVE  /\ StoreHeld'
           /\ LogOf' = [LogOf EXCEPT ![s] = out.kept.msgs]
  <1>1. /\ now \in 0 .. MaxTime /\ faults \in Nat /\ MaxFaults \in Nat /\ faults <= MaxFaults
        /\ kept \in [Sessions -> Kept] /\ touched \in [Sessions -> 0 .. MaxTime]
    BY DEF StoreHeld, StoresAssumption
  <1>2. kept' = [kept EXCEPT ![s] = out.kept] /\ faults' = faults + IF out.ok THEN 0 ELSE 1
    BY DEF Store
  <1>3. faults' \in 0 .. MaxFaults /\ (faults' = 0 => faults = 0)
    BY <1>1, <1>2
  <1>4. kept' \in [Sessions -> Kept] /\ touched' \in [Sessions -> 0 .. MaxTime]
    BY <1>1, <1>2
  <1>5. ASSUME NEW r \in Sessions
        PROVE  /\ backend' = "memory" \/ (backend' = "redis" /\ faults' = 0)
                     => Len(kept'[r].msgs) <= MaxMs
               /\ backend' = "memory" => /\ kept'[r].list = kept'[r].agentKey
                                        /\ kept'[r].list = kept'[r].userKey
               /\ touched'[r] <= now' /\ Alive(kept'[r], touched'[r])
               /\ backend' = "mysql" => kept'[r].list \in {0, Forever}
    <2>1. CASE r = s
      <3>1. kept'[r] = out.kept
        BY <1>1, <1>2, <2>1
      <3>2. touched'[r] <= now'
        BY <1>1, <2>1 DEF StoreHeld
      <3> QED
        BY <2>1, <3>1, <3>2 DEF Durable
    <2>2. CASE r # s
      <3>1. kept'[r] = kept[r] /\ touched'[r] = touched[r]
        BY <1>1, <1>2, <2>2
      <3> QED
        BY <1>3, <3>1 DEF StoreHeld
    <2> QED
      BY <2>1, <2>2
  <1>6. LogOf' = [LogOf EXCEPT ![s] = out.kept.msgs]
    BY <1>1, <1>2 DEF LogOf
  <1>7. StoreHeld'
    <2>1. backend' \in Backends /\ now' \in 0 .. MaxTime
      BY DEF StoreHeld
    <2> QED
      BY <1>3, <1>4, <1>5, <2>1 DEF StoreHeld, Alive
  <1> QED
    BY <1>6, <1>7

\* A step that writes to the session makes it open, and so takes it from the
\* dropped ones.
LEMMA OpenStep ==
    ASSUME life \in [Sessions -> {"new", "open", "deleted", "unsure"}], NEW s \in Sessions, Open(s)
    PROVE  /\ life' \in [Sessions -> {"new", "open", "deleted", "unsure"}]
           /\ DroppedOf' = DroppedOf \ {s}
  BY DEF Open, DroppedOf

LEMMA AddStep ==
    ASSUME StoresAssumption, StoreInv, NEW s \in Sessions, NEW m \in Messages,
           NEW out \in AddMessage(kept[s], m),
           Store(s, out), Touch(s, out), Open(s), backend' = backend, now' = now
    PROVE  /\ StoreHeld'
           /\ Log!Say(s, m) \/ Log!Mark(s)
  <1> USE DEF StoreInv
  <1>1. /\ TypeOK /\ kept[s] \in Kept /\ touched[s] \in 0 .. now /\ now \in 0 .. MaxTime
        /\ Alive(kept[s], touched[s]) /\ Durable(kept[s])
        /\ touched \in [Sessions -> 0 .. MaxTime] /\ LogOf[s] = kept[s].msgs
    BY StoreInvType DEF StoreHeld, Durable, LogOf
  <1>2. /\ AddKeeps(kept[s], m, touched[s], out) /\ Durable(out.kept)
        /\ backend = "memory" => /\ out.ok
                                /\ out.kept.list = out.kept.agentKey
                                /\ out.kept.list = out.kept.userKey
        /\ backend = "memory" \/ (backend = "redis" /\ out.ok) => Len(out.kept.msgs) <= MaxMs
    BY <1>1, AddMessageKeeps
  <1>3. out.ok \in BOOLEAN /\ out.kept \in Kept
    BY <1>2 DEF AddKeeps
  <1>4. out.ok \/ faults # MaxFaults
    BY <1>1, FailuresBounded
  <1>5. touched' \in {touched, [touched EXCEPT ![s] = now]}
    BY DEF Touch
  <1>6. touched'[s] = IF out.ok THEN now ELSE touched[s]
    BY <1>1, <1>3 DEF Touch
  <1>7. Alive(out.kept, touched'[s])
    BY <1>2, <1>6 DEF AddKeeps
  <1>8. faults' = 0 => out.ok
    BY <1>3 DEF Store, StoreHeld
  <1>9. /\ life' \in [Sessions -> {"new", "open", "deleted", "unsure"}]
        /\ DroppedOf' = DroppedOf \ {s}
    BY OpenStep DEF StoreHeld
  <1>10. StoreHeld' /\ LogOf' = [LogOf EXCEPT ![s] = out.kept.msgs]
    BY <1>2, <1>3, <1>4, <1>5, <1>7, <1>8, <1>9, StoreStep
  <1>11. CASE out.kept.msgs \in Logs(kept[s].msgs, m)
    <2>1. Log!Newest(Append(LogOf[s], m)) = Newest(Append(LogOf[s], m))
      BY DEF Log!Newest, Newest
    <2>2. \/ LogOf' = [LogOf EXCEPT ![s] = Append(LogOf[s], m)]
          \/ LogOf' = [LogOf EXCEPT ![s] = Log!Newest(Append(LogOf[s], m))]
      BY <1>1, <1>10, <1>11, <2>1 DEF Logs
    <2>3. Log!Say(s, m)
      BY <1>5, <1>9, <2>2 DEF Log!Say, LogOf, DroppedOf
    <2> QED
      BY <1>10, <2>3
  <1>12. CASE ~ out.ok /\ out.kept.msgs = kept[s].msgs
    <2>1. LogOf' = LogOf
      BY <1>1, <1>10, <1>12 DEF LogOf
    <2>2. touched' = touched
      BY <1>12 DEF Touch
    <2>3. Log!Mark(s)
      BY <1>9, <2>1, <2>2 DEF Log!Mark, LogOf, DroppedOf
    <2> QED
      BY <1>10, <2>3
  <1> QED
    BY <1>2, <1>11, <1>12 DEF AddKeeps

LEMMA SetAgentStep ==
    ASSUME StoresAssumption, StoreInv, NEW s \in Sessions, NEW a \in Agent,
           NEW out \in SetAgent(kept[s], a),
           Store(s, out), Open(s), touched' = touched, backend' = backend, now' = now
    PROVE  StoreHeld' /\ Log!Mark(s)
  <1> USE DEF StoreInv
  <1>1. /\ TypeOK /\ kept[s] \in Kept /\ touched[s] \in 0 .. now /\ now \in 0 .. MaxTime
        /\ Alive(kept[s], touched[s]) /\ Durable(kept[s])
        /\ touched \in [Sessions -> 0 .. MaxTime] /\ LogOf[s] = kept[s].msgs
    BY StoreInvType DEF StoreHeld, Durable, LogOf
  <1>2. /\ SetKeeps(kept[s], touched[s], out) /\ Durable(out.kept)
        /\ backend = "memory" => out.ok
        /\ backend = "memory" /\ kept[s].list = kept[s].agentKey /\ kept[s].list = kept[s].userKey
              => out.kept.list = out.kept.agentKey /\ out.kept.list = out.kept.userKey
    BY <1>1, SetAgentKeeps
  <1>3. /\ out.ok \in BOOLEAN /\ out.kept \in Kept /\ out.kept.msgs = kept[s].msgs
        /\ Alive(out.kept, touched'[s])
    BY <1>2 DEF SetKeeps
  <1>4. out.ok \/ faults # MaxFaults
    BY <1>1, FailuresBounded
  <1>5. backend = "memory" => out.kept.list = out.kept.agentKey /\ out.kept.list = out.kept.userKey
    BY <1>2 DEF StoreHeld
  <1>6. backend = "memory" \/ (backend = "redis" /\ faults' = 0) => Len(out.kept.msgs) <= MaxMs
    <2>1. faults' = 0 => faults = 0
      BY <1>3 DEF Store, StoreHeld
    <2> QED
      BY <1>3, <2>1 DEF StoreHeld
  <1>7. /\ life' \in [Sessions -> {"new", "open", "deleted", "unsure"}]
        /\ DroppedOf' = DroppedOf \ {s}
    BY OpenStep DEF StoreHeld
  <1>8. StoreHeld' /\ LogOf' = [LogOf EXCEPT ![s] = out.kept.msgs]
    BY <1>2, <1>3, <1>4, <1>5, <1>6, <1>7, StoreStep
  <1>9. LogOf' = LogOf
    BY <1>1, <1>3, <1>8 DEF LogOf
  <1>10. Log!Mark(s)
    BY <1>7, <1>9 DEF Log!Mark, LogOf, DroppedOf
  <1> QED
    BY <1>8, <1>10

\* Reading a session changes no message; it counts as a look at it if the
\* store confirms the renewal.
LEMMA RenewStep ==
    ASSUME StoresAssumption, StoreInv, NEW s \in Sessions, NEW out \in History(kept[s]),
           Renew(s, out), life' = life, backend' = backend, now' = now
    PROVE  /\ StoreHeld'
           /\ Log!Look(s) \/ UNCHANGED Log!vars
  <1> USE DEF StoreInv
  <1>1. /\ TypeOK /\ kept[s] \in Kept /\ touched[s] \in 0 .. now /\ now \in 0 .. MaxTime
        /\ Alive(kept[s], touched[s]) /\ Durable(kept[s])
        /\ touched \in [Sessions -> 0 .. MaxTime] /\ LogOf[s] = kept[s].msgs
        /\ Store(s, out) /\ Touch(s, out)
    BY StoreInvType DEF StoreHeld, Durable, LogOf, Renew
  <1>2. /\ SetKeeps(kept[s], IF out.ok THEN now ELSE touched[s], out) /\ Durable(out.kept)
        /\ backend = "memory" => /\ out.ok
                                /\ out.kept.list = out.kept.agentKey
                                /\ out.kept.list = out.kept.userKey
    BY <1>1, HistoryKeeps
  <1>3. out.ok \in BOOLEAN /\ out.kept \in Kept /\ out.kept.msgs = kept[s].msgs
    BY <1>2 DEF SetKeeps
  <1>4. out.ok \/ faults # MaxFaults
    BY <1>1, FailuresBounded
  <1>5. touched' \in {touched, [touched EXCEPT ![s] = now]}
    BY <1>1 DEF Touch
  <1>6. touched'[s] = IF out.ok THEN now ELSE touched[s]
    BY <1>1, <1>3 DEF Touch
  <1>7. Alive(out.kept, touched'[s])
    BY <1>2, <1>6 DEF SetKeeps
  <1>8. backend = "memory" \/ (backend = "redis" /\ faults' = 0) => Len(out.kept.msgs) <= MaxMs
    <2>1. faults' = 0 => faults = 0
      BY <1>1, <1>3 DEF Store, StoreHeld
    <2> QED
      BY <1>3, <2>1 DEF StoreHeld
  <1>9. life' \in [Sessions -> {"new", "open", "deleted", "unsure"}]
    BY DEF StoreHeld
  <1>10. StoreHeld' /\ LogOf' = [LogOf EXCEPT ![s] = out.kept.msgs]
    BY <1>1, <1>2, <1>3, <1>4, <1>5, <1>7, <1>8, <1>9, StoreStep
  <1>11. LogOf' = LogOf /\ DroppedOf' = DroppedOf
    BY <1>1, <1>3, <1>10 DEF LogOf, DroppedOf
  <1>12. CASE touched' = touched
    BY <1>10, <1>11, <1>12 DEF Log!vars, LogOf, DroppedOf
  <1>13. CASE touched' = [touched EXCEPT ![s] = now]
    BY <1>10, <1>11, <1>13 DEF Log!Look, LogOf, DroppedOf
  <1> QED
    BY <1>5, <1>12, <1>13

\* A command that changes nothing, but may fail.
LEMMA IdleStep ==
    ASSUME StoresAssumption, StoreInv, faults' \in {faults, faults + 1}, faults' <= MaxFaults,
           UNCHANGED <<backend, now, kept, touched, life>>
    PROVE  StoreHeld' /\ UNCHANGED Log!vars
  <1>1. StoreHeld /\ faults \in Nat /\ MaxFaults \in Nat
    BY DEF StoreInv, StoreHeld, StoresAssumption
  <1>2. faults' \in 0 .. MaxFaults /\ (faults' = 0 => faults = 0)
    BY <1>1
  <1> QED
    BY <1>1, <1>2 DEF StoreHeld, Alive, Log!vars

LEMMA DeleteStep ==
    ASSUME StoresAssumption, StoreInv, NEW s \in Sessions, DeleteSession(s)
    PROVE  StoreHeld' /\ Log!Drop(s)
  <1> USE DEF StoreInv
  <1>1. /\ TypeOK /\ kept[s] \in Kept /\ touched[s] \in 0 .. now
        /\ Alive(kept[s], touched[s]) /\ Durable(kept[s])
        /\ LogOf[s] = kept[s].msgs
    BY StoreInvType DEF StoreHeld, Durable, LogOf
  <1>2. PICK out \in Delete(kept[s]) :
            /\ Store(s, out)
            /\ life' = [life EXCEPT ![s] = IF out.ok THEN "deleted" ELSE "unsure"]
    BY DEF DeleteSession
  <1>3. touched' = touched /\ backend' = backend /\ now' = now
    BY DEF DeleteSession
  <1>4. /\ out.kept \in Kept /\ out.ok \in BOOLEAN
        /\ Alive(out.kept, touched[s]) /\ Durable(out.kept)
        /\ out.kept.msgs \in {kept[s].msgs, <<>>}
        /\ backend = "memory" => out.ok /\ out.kept = Fresh
    BY <1>1, DeleteKeeps
  <1>5. out.ok \/ faults # MaxFaults
    BY <1>1, FailuresBounded
  <1>6. backend = "memory" => out.kept.list = out.kept.agentKey /\ out.kept.list = out.kept.userKey
    BY <1>4 DEF Fresh
  <1>7. backend = "memory" \/ (backend = "redis" /\ faults' = 0) => Len(out.kept.msgs) <= MaxMs
    <2>1. faults' = 0 => faults = 0
      BY <1>2, <1>4 DEF Store, StoreHeld
    <2>2. Len(<<>>) = 0 /\ 0 <= MaxMs
      BY DEF StoresAssumption
    <2> QED
      BY <1>4, <2>1, <2>2 DEF StoreHeld
  <1>8. life \in [Sessions -> {"new", "open", "deleted", "unsure"}]
    BY DEF StoreHeld
  <1>9. /\ life' \in [Sessions -> {"new", "open", "deleted", "unsure"}]
        /\ DroppedOf' = DroppedOf \cup {s}
    BY <1>2, <1>8 DEF DroppedOf
  <1>10. StoreHeld' /\ LogOf' = [LogOf EXCEPT ![s] = out.kept.msgs]
    BY <1>2, <1>3, <1>4, <1>5, <1>6, <1>7, <1>9, StoreStep
  <1>11. LogOf' = LogOf \/ LogOf' = [LogOf EXCEPT ![s] = <<>>]
    BY <1>1, <1>4, <1>10 DEF LogOf
  <1>12. Log!Drop(s)
    BY <1>3, <1>9, <1>11 DEF Log!Drop, LogOf, DroppedOf
  <1> QED
    BY <1>10, <1>12

\* A step of time: a Redis key that goes was left alone for TTL.
LEMMA TickStep ==
    ASSUME StoresAssumption, StoreInv, Tick
    PROVE  StoreHeld' /\ Log!Pass
  <1> USE DEF StoreInv
  <1>1. /\ TypeOK /\ now \in Nat /\ now < MaxTime /\ MaxTime \in Nat /\ now' = now + 1
        /\ UNCHANGED <<backend, turn, faults, touched, tagged, life>>
    BY StoreInvType DEF Tick, StoreHeld, history, StoresAssumption
  <1>2. CASE backend # "redis"
    <2>1. kept' = kept
      BY <1>2 DEF Tick
    <2>2. StoreHeld'
      BY <1>1, <2>1 DEF StoreHeld, Alive
    <2>3. LogOf' = [s \in Sessions |-> IF s \in {} THEN <<>> ELSE LogOf[s]]
      BY <2>1 DEF LogOf
    <2>4. DroppedOf' = DroppedOf
      BY <1>1 DEF DroppedOf
    <2>5. {} \in SUBSET {s \in Sessions : now' - touched[s] >= TTL}
      OBVIOUS
    <2>6. Log!Pass
      BY <1>1, <2>3, <2>4, <2>5 DEF Log!Pass, LogOf, DroppedOf
    <2> QED
      BY <2>2, <2>6
  <1>3. CASE backend = "redis"
    <2>1. kept' = [s \in Sessions |-> RedisAt(kept[s], now + 1)]
      BY <1>3 DEF Tick
    <2> DEFINE gone == {s \in Sessions : kept[s].list # 0 /\ kept[s].list <= now + 1}
    <2>2. ASSUME NEW s \in Sessions
          PROVE  /\ RedisAt(kept[s], now + 1) \in Kept
                 /\ Alive(RedisAt(kept[s], now + 1), touched[s])
                 /\ Len(RedisAt(kept[s], now + 1).msgs) <= Len(kept[s].msgs)
                 /\ RedisAt(kept[s], now + 1).msgs = IF s \in gone THEN <<>> ELSE kept[s].msgs
                 /\ s \in gone => now + 1 - touched[s] >= TTL
      <3>1. /\ kept[s] \in Kept /\ touched[s] \in Nat /\ touched[s] <= now
            /\ Alive(kept[s], touched[s])
        BY DEF StoreHeld
      <3>2. /\ kept[s].msgs \in Seq(Messages) /\ kept[s].agent \in Agent
            /\ kept[s].list \in Times /\ kept[s].agentKey \in Times /\ kept[s].userKey \in Times
        BY <3>1 DEF Kept
      <3>3. Unset \in Agent /\ <<>> \in Seq(Messages) /\ Len(<<>>) = 0
        BY DEF Agent
      <3>4. Len(kept[s].msgs) \in Nat
        BY <3>2
      <3>5. RedisAt(kept[s], now + 1) \in Kept
        BY <3>2, <3>3, <1>1, TimesType DEF RedisAt, Kept
      <3>6. RedisAt(kept[s], now + 1).msgs = IF kept[s].list <= now + 1 THEN <<>> ELSE kept[s].msgs
        BY DEF RedisAt
      <3>7. RedisAt(kept[s], now + 1).list = IF kept[s].list <= now + 1 THEN 0 ELSE kept[s].list
        BY DEF RedisAt
      <3>8. kept[s].list = 0 => kept[s].msgs = <<>>
        BY <3>1 DEF Alive
      <3>9. kept[s].list # 0 => kept[s].list >= touched[s] + TTL
        BY <3>1 DEF Alive
      <3>10. kept[s].list \in Nat /\ TTL \in Nat
        BY <1>1, <3>2, TimesType
      <3>11. Alive(RedisAt(kept[s], now + 1), touched[s])
        BY <1>1, <3>6, <3>7, <3>9, <3>10 DEF Alive
      <3>12. Len(RedisAt(kept[s], now + 1).msgs) <= Len(kept[s].msgs)
        BY <3>3, <3>4, <3>6
      <3>13. RedisAt(kept[s], now + 1).msgs = IF s \in gone THEN <<>> ELSE kept[s].msgs
        BY <1>1, <3>6, <3>8, <3>10
      <3>14. s \in gone => now + 1 - touched[s] >= TTL
        BY <1>1, <3>1, <3>9, <3>10
      <3> QED
        BY <3>5, <3>11, <3>12, <3>13, <3>14
    <2> HIDE DEF gone
    <2>3. StoreHeld'
      <3>1. kept' \in [Sessions -> Kept]
        BY <2>1, <2>2
      <3>2. ASSUME NEW s \in Sessions, faults = 0 PROVE Len(kept'[s].msgs) <= MaxMs
        <4>1. Len(kept[s].msgs) <= MaxMs /\ kept[s] \in Kept
          BY <1>3, <3>2 DEF StoreHeld
        <4>2. Len(kept[s].msgs) \in Nat /\ MaxMs \in Nat
          BY <4>1 DEF Kept, StoresAssumption
        <4>3. kept'[s] \in Kept /\ Len(kept'[s].msgs) <= Len(kept[s].msgs)
          BY <2>1, <2>2
        <4>4. Len(kept'[s].msgs) \in Nat
          BY <4>3 DEF Kept
        <4> QED
          BY <4>1, <4>2, <4>3, <4>4
      <3>3. \A s \in Sessions : Alive(kept'[s], touched'[s])
        BY <1>1, <2>1, <2>2
      <3>4. \A s \in Sessions : touched'[s] <= now'
        BY <1>1 DEF StoreHeld
      <3>5. \A s \in Sessions : Alive(kept[s], touched[s])' <=> Alive(kept'[s], touched'[s])
        BY DEF Alive
      <3> QED
        BY <1>1, <1>3, <3>1, <3>2, <3>3, <3>4, <3>5 DEF StoreHeld
    <2>4. LogOf' = [s \in Sessions |-> IF s \in gone THEN <<>> ELSE LogOf[s]]
      BY <2>1, <2>2 DEF LogOf
    <2>5. gone \in SUBSET {s \in Sessions : now' - touched[s] >= TTL}
      <3>1. gone \subseteq Sessions
        BY DEF gone
      <3>2. ASSUME NEW s \in gone PROVE now' - touched[s] >= TTL
        <4>1. now + 1 - touched[s] >= TTL
          BY <2>2, <3>1
        <4>2. now' = now + 1 /\ now \in Nat
          BY <1>1
        <4>3. touched[s] \in Nat /\ TTL \in Nat
          BY <3>1 DEF StoreHeld, StoresAssumption
        <4> QED
          BY <4>1, <4>2, <4>3
      <3> QED
        BY <3>1, <3>2
    <2>6. DroppedOf' = DroppedOf
      BY <1>1 DEF DroppedOf
    <2>7. Log!Pass
      BY <1>1, <2>4, <2>5, <2>6 DEF Log!Pass, LogOf, DroppedOf
    <2> QED
      BY <2>3, <2>7
  <1> QED
    BY <1>2, <1>3

\* The sweep of the in-memory store takes only what was left alone for TTL.
LEMMA CleanupStep ==
    ASSUME StoresAssumption, StoreInv, Cleanup
    PROVE  StoreHeld' /\ Log!Pass
  <1> USE DEF StoreInv
  <1>1. /\ TypeOK /\ now \in Nat /\ TTL \in Nat
        /\ kept' = [s \in Sessions |-> IF s \in Expired THEN Fresh ELSE kept[s]]
        /\ UNCHANGED <<backend, now, turn, faults, touched, life>>
    BY StoreInvType, TimesType DEF Cleanup
  <1>2. Fresh \in Kept /\ Fresh.msgs = <<>> /\ Fresh.list = 0 /\ Fresh.agentKey = 0 /\ Fresh.userKey = 0
    <2>1. <<>> \in Seq(Messages)
      OBVIOUS
    <2> QED
      BY <1>1, <2>1, TimesType DEF Fresh, Kept, Agent
  <1>3. ASSUME NEW s \in Sessions, s \in Expired PROVE now - touched[s] >= TTL
    <2>1. /\ kept[s] \in Kept /\ touched[s] \in Nat /\ Alive(kept[s], touched[s])
      BY DEF StoreHeld
    <2>2. kept[s].list \in Nat /\ kept[s].list # 0 /\ now > kept[s].list
      BY <1>1, <1>3, <2>1, TimesType DEF Kept, Expired
    <2>3. kept[s].list >= touched[s] + TTL
      BY <2>1, <2>2 DEF Alive
    <2> QED
      BY <1>1, <2>1, <2>2, <2>3
  <1>4. StoreHeld'
    <2>1. kept' \in [Sessions -> Kept]
      BY <1>1, <1>2 DEF StoreHeld
    <2>2. Len(<<>>) = 0 /\ 0 <= MaxMs
      BY DEF StoresAssumption
    <2>3. \A s \in Sessions : kept'[s] = kept[s] \/ kept'[s] = Fresh
      BY <1>1
    <2> QED
      BY <1>1, <1>2, <2>1, <2>2, <2>3 DEF StoreHeld, Alive
  <1>5. LogOf' = [s \in Sessions |-> IF s \in Expired THEN <<>> ELSE LogOf[s]]
    BY <1>1, <1>2 DEF LogOf
  <1>6. Expired \in SUBSET {s \in Sessions : now' - touched[s] >= TTL}
    BY <1>1, <1>3 DEF Expired
  <1>7. DroppedOf' = DroppedOf
    BY <1>1 DEF DroppedOf
  <1>8. Log!Pass
    BY <1>1, <1>5, <1>6, <1>7 DEF Log!Pass, LogOf, DroppedOf
  <1> QED
    BY <1>4, <1>8
-----------------------------------------------------------------------------
\* Init establishes the invariant and maps to the initial state of SessionLog.
LEMMA StoreInit ==
    ASSUME StoresAssumption, Init
    PROVE  StoreInv /\ Log!Init
  <1>1. <<>> \in Seq(Messages) /\ Len(<<>>) = 0 /\ 0 \in 0 .. MaxTime /\ 0 \in Times
    BY DEF StoresAssumption, Times, Forever
  <1>2. Fresh \in Kept /\ Fresh.msgs = <<>> /\ Fresh.list = 0 /\ Fresh.agentKey = 0 /\ Fresh.userKey = 0
    BY <1>1 DEF Fresh, Kept, Agent
  <1>3. StoreHeld
    BY <1>1, <1>2 DEF Init, StoreHeld, Alive, StoresAssumption
  <1>4. turn \in [Turns -> Turn]
    <2>1. \A s \in Sessions : Idle(s) \in Turn
      BY DEF Idle, Turn, Steps, Agent, StoresAssumption
    <2> QED
      BY <2>1 DEF Init
  <1>5. reading \subseteq Sessions /\ tagged \in [Sessions -> [agent : Agent, at : 0 .. MaxTime]]
    BY <1>1 DEF Init, Untagged, Agent
  <1>6. Log!Init
    BY <1>2 DEF Init, Log!Init
  <1> QED
    BY <1>3, <1>4, <1>5, <1>6 DEF StoreInv

\* The requests' own state stays well typed.
LEMMA RequestsStep ==
    ASSUME StoresAssumption, StoreInv, [Next]_vars
    PROVE  /\ turn' \in [Turns -> Turn] /\ reading' \subseteq Sessions
           /\ tagged' \in [Sessions -> [agent : Agent, at : 0 .. MaxTime]]
  <1> DEFINE TurnOK == turn' \in [Turns -> Turn]
             TagOK == tagged' \in [Sessions -> [agent : Agent, at : 0 .. MaxTime]]
  <1> USE DEF StoreInv
  <1>1. /\ TypeOK /\ turn \in [Turns -> Turn] /\ reading \subseteq Sessions
        /\ tagged \in [Sessions -> [agent : Agent, at : 0 .. MaxTime]]
        /\ now \in 0 .. MaxTime /\ 0 \in 0 .. MaxTime /\ 1 \in 0 .. MaxSaid
        /\ MaxRetries \in Nat /\ 0 \in 0 .. MaxRetries
    BY StoreInvType DEF StoreHeld, StoresAssumption
  <1>2. \A t \in Turns : /\ turn[t].session \in Sessions /\ turn[t].agent \in Agent
                         /\ turn[t].said \in 0 .. MaxSaid /\ turn[t].tries \in 0 .. MaxRetries
    BY <1>1 DEF Turn
  <1>3. ASSUME NEW t \in Turns, NEW a \in Agent, NEW at \in Steps,
                NEW n \in 0 .. MaxSaid, NEW tries \in 0 .. MaxRetries,
                \A u \in Turns \ {t} : turn'[u] = turn[u],
                turn'[t] = [at |-> at, session |-> turn[t].session, agent |-> a,
                            said |-> n, tries |-> tries],
                turn' = [u \in Turns |-> turn'[u]]
         PROVE  TurnOK
    <2>1. turn'[t] \in Turn
      BY <1>2, <1>3 DEF Turn
    <2> QED
      BY <1>1, <1>3, <2>1
  <1>4. ASSUME NEW t \in Turns, NEW at \in Steps, MoveTo(t, at) PROVE TurnOK
    <2>1. turn'[t] = [at |-> at, session |-> turn[t].session, agent |-> turn[t].agent,
                      said |-> turn[t].said, tries |-> 0]
      BY <1>1, <1>4 DEF MoveTo, Turn
    <2>2. /\ \A u \in Turns \ {t} : turn'[u] = turn[u]
          /\ turn' = [u \in Turns |-> turn'[u]]
      BY <1>1, <1>4 DEF MoveTo
    <2> HIDE DEF TurnOK
    <2> QED
      BY <1>1, <1>2, <1>3, <2>1, <2>2
  <1>5. ASSUME NEW t \in Turns, NEW out, Again(t, out) PROVE TurnOK
    <2>1. turn[t].tries + 1 \in 0 .. MaxRetries
      BY <1>1, <1>2, <1>5 DEF Again
    <2> QED
      BY <1>1, <1>2, <1>5, <2>1 DEF Again, Turn
  <1>6. ASSUME NEW s \in Sessions, NEW a \in Agent, NEW out, Tag(s, a, out) PROVE TagOK
    BY <1>1, <1>6 DEF Tag, Untagged, Agent
  <1>7. ASSUME NEW t \in Turns, Begin(t) PROVE TurnOK /\ UNCHANGED <<reading, tagged>>
    <2>1. PICK a \in Agent : turn' = [turn EXCEPT ![t].agent = a,
                                              ![t].at = IF a = Unset THEN "question" ELSE "agent"]
      BY <1>7 DEF Begin, Agent
    <2>2. PICK at \in Steps : at = IF a = Unset THEN "question" ELSE "agent"
      BY DEF Steps
    <2>3. turn'[t] = [at |-> at, session |-> turn[t].session, agent |-> a,
                      said |-> turn[t].said, tries |-> turn[t].tries]
      BY <1>1, <2>1, <2>2 DEF Turn
    <2>4. /\ \A u \in Turns \ {t} : turn'[u] = turn[u]
          /\ turn' = [u \in Turns |-> turn'[u]]
      BY <1>1, <2>1
    <2>5. TurnOK
      <3> HIDE DEF TurnOK
      <3> QED
        BY <1>2, <1>3, <2>3, <2>4
    <2> QED
      BY <1>7, <2>5 DEF Begin
  <1>8. ASSUME NEW t \in Turns, RecordAgent(t) PROVE TurnOK /\ TagOK /\ reading' = reading
    <2>1. PICK out \in SetAgent(kept[turn[t].session], turn[t].agent) :
             /\ Tag(turn[t].session, turn[t].agent, out)
             /\ Again(t, out) \/ MoveTo(t, "question") \/ MoveTo(t, "done")
      BY <1>8 DEF RecordAgent
    <2>2. TagOK
      BY <1>2, <1>6, <2>1
    <2>3. TurnOK
      BY <1>4, <1>5, <2>1 DEF Steps
    <2> QED
      BY <1>8, <2>2, <2>3 DEF RecordAgent
  <1>9. ASSUME NEW t \in Turns, SaveQuestion(t) PROVE TurnOK /\ UNCHANGED <<reading, tagged>>
    <2>1. PICK out \in AddMessage(kept[turn[t].session], <<t, 1>>) :
             \/ Again(t, out)
             \/ turn' = [turn EXCEPT ![t].at = IF out.ok THEN "history" ELSE "done",
                                     ![t].said = 1, ![t].tries = 0]
      BY <1>9 DEF SaveQuestion
    <2>2. ASSUME turn' = [turn EXCEPT ![t].at = IF out.ok THEN "history" ELSE "done",
                                      ![t].said = 1, ![t].tries = 0]
          PROVE  TurnOK
      <3>1. PICK at \in Steps : at = IF out.ok THEN "history" ELSE "done"
        BY DEF Steps
      <3>2. turn'[t] = [at |-> at, session |-> turn[t].session, agent |-> turn[t].agent,
                        said |-> 1, tries |-> 0]
        BY <1>1, <2>2, <3>1 DEF Turn
      <3>3. /\ \A u \in Turns \ {t} : turn'[u] = turn[u]
            /\ turn' = [u \in Turns |-> turn'[u]]
        BY <1>1, <2>2
      <3> HIDE DEF TurnOK
      <3> QED
        BY <1>1, <1>2, <1>3, <3>2, <3>3
    <2>3. TurnOK
      BY <1>5, <2>1, <2>2
    <2> QED
      BY <1>9, <2>3 DEF SaveQuestion
  <1>10. ASSUME NEW t \in Turns, SaveMessage(t) PROVE TurnOK /\ UNCHANGED <<reading, tagged>>
    <2> DEFINE n == turn[t].said + 1
    <2>1. n \in 0 .. MaxSaid
      BY <1>2, <1>10 DEF SaveMessage, StoresAssumption
    <2>2. PICK out \in AddMessage(kept[turn[t].session], <<t, n>>) :
             Again(t, out) \/ turn' = [turn EXCEPT ![t].said = n, ![t].tries = 0]
      BY <1>10 DEF SaveMessage
    <2> HIDE DEF n
    <2>3. ASSUME turn' = [turn EXCEPT ![t].said = n, ![t].tries = 0] PROVE TurnOK
      <3>1. turn'[t] = [at |-> turn[t].at, session |-> turn[t].session, agent |-> turn[t].agent,
                        said |-> n, tries |-> 0]
        BY <1>1, <2>3 DEF Turn
      <3>2. /\ \A u \in Turns \ {t} : turn'[u] = turn[u]
            /\ turn' = [u \in Turns |-> turn'[u]]
        BY <1>1, <2>3
      <3>3. turn[t].at \in Steps
        BY <1>1 DEF Turn
      <3> HIDE DEF TurnOK
      <3> QED
        BY <1>1, <1>2, <1>3, <2>1, <3>1, <3>2, <3>3
    <2>4. TurnOK
      BY <1>5, <2>2, <2>3
    <2> QED
      BY <1>10, <2>4 DEF SaveMessage
  <1>11. ASSUME NEW t \in Turns, FetchContext(t) \/ ReadContext(t) \/ EndTurn(t)
         PROVE  TurnOK /\ UNCHANGED <<reading, tagged>>
    <2>1. MoveTo(t, "renew") \/ MoveTo(t, "talk") \/ MoveTo(t, "done")
      BY <1>11 DEF FetchContext, ReadContext, EndTurn
    <2>2. TurnOK
      BY <1>4, <2>1 DEF Steps
    <2> QED
      BY <1>11, <2>2 DEF FetchContext, ReadContext, EndTurn, history
  <1>12. ASSUME NEW t \in Turns, RenewContext(t) PROVE TurnOK /\ UNCHANGED <<reading, tagged>>
    <2>1. PICK out \in History(kept[turn[t].session]) : Again(t, out) \/ MoveTo(t, "talk")
      BY <1>12 DEF RenewContext
    <2>2. TurnOK
      BY <1>4, <1>5, <2>1 DEF Steps
    <2> QED
      BY <1>12, <2>2 DEF RenewContext
  <1>13. ASSUME NEW s \in Sessions, NEW a \in Agents, CreateSession(s, a)
         PROVE  TagOK /\ UNCHANGED <<turn, reading>>
    BY <1>6, <1>13 DEF CreateSession, Agent
  <1>14. ASSUME NEW s \in Sessions, FetchHistory(s) \/ RenewHistory(s) \/ ReadHistory(s)
         PROVE  reading' \subseteq Sessions /\ UNCHANGED <<turn, tagged>>
    BY <1>1, <1>14 DEF FetchHistory, RenewHistory, ReadHistory, history
  <1>15. ASSUME NEW s \in Sessions, DeleteSession(s) PROVE TagOK /\ UNCHANGED <<turn, reading>>
    BY <1>1, <1>15 DEF DeleteSession, Untagged, Agent
  <1>16. ASSUME Tick \/ Cleanup PROVE TagOK /\ UNCHANGED <<turn, reading>>
    BY <1>1, <1>16 DEF Tick, Cleanup, history, Untagged, Agent
  <1>17. ASSUME UNCHANGED vars PROVE UNCHANGED <<turn, reading, tagged>>
    BY <1>17 DEF vars
  <1> HIDE DEF TurnOK, TagOK
  <1>18. TurnOK /\ TagOK /\ reading' \subseteq Sessions
    <2>1. ASSUME UNCHANGED turn PROVE TurnOK
      BY <1>1, <2>1 DEF TurnOK
    <2>2. ASSUME UNCHANGED tagged PROVE TagOK
      BY <1>1, <2>2 DEF TagOK
    <2>3. CASE \E t \in Turns : \/ Begin(t) \/ RecordAgent(t) \/ SaveQuestion(t)
                               \/ FetchContext(t) \/ RenewContext(t) \/ ReadContext(t)
                               \/ SaveMessage(t) \/ EndTurn(t)
      BY <1>1, <1>7, <1>8, <1>9, <1>10, <1>11, <1>12, <2>2, <2>3
    <2>4. CASE \E s \in Sessions : \/ \E a \in Agents : CreateSession(s, a)
                                  \/ FetchHistory(s) \/ RenewHistory(s) \/ ReadHistory(s)
                                  \/ DeleteSession(s)
      BY <1>1, <1>13, <1>14, <1>15, <2>1, <2>2, <2>4
    <2>5. CASE Tick \/ Cleanup \/ UNCHANGED vars
      BY <1>1, <1>16, <1>17, <2>1, <2>2, <2>5
    <2> QED
      BY <2>3, <2>4, <2>5 DEF Next
  <1> QED
    BY <1>18 DEF TurnOK, TagOK

\* Every step keeps the invariant and is a step of SessionLog or none.
LEMMA StoreNext ==
    ASSUME StoresAssumption, StoreInv, [Next]_vars
    PROVE  StoreInv' /\ [Log!Next]_(Log!vars)
  <1> DEFINE Simulated == StoreHeld' /\ (Log!Next \/ UNCHANGED Log!vars)
  <1>1. /\ turn \in [Turns -> Turn] /\ StoreHeld /\ 1 \in 1 .. MaxSaid
        /\ life \in [Sessions -> {"new", "open", "deleted", "unsure"}]
    BY DEF StoreInv, StoreHeld, StoresAssumption
  <1>2. ASSUME NEW t \in Turns
        PROVE  /\ turn[t].session \in Sessions /\ turn[t].agent \in Agent
               /\ turn[t].said \in 0 .. MaxSaid
    BY <1>1 DEF Turn
  <1>3. ASSUME UNCHANGED <<backend, now, kept, faults, touched>>, UNCHANGED life
        PROVE  Simulated
    <2>1. StoreHeld'
      BY <1>1, <1>3 DEF StoreHeld, Alive
    <2>2. UNCHANGED Log!vars
      BY <1>3 DEF Log!vars
    <2> QED
      BY <2>1, <2>2
  <1>4. ASSUME NEW t \in Turns, Begin(t) PROVE Simulated
    <2>1. UNCHANGED <<backend, now, kept, faults, touched>>
      BY <1>4 DEF Begin
    <2>2. life' = [life EXCEPT ![turn[t].session] = IF @ = "new" THEN "open" ELSE @]
      BY <1>4 DEF Begin
    <2>3. /\ life' \in [Sessions -> {"new", "open", "deleted", "unsure"}]
          /\ \A s \in Sessions : life'[s] \in {"deleted", "unsure"} <=> life[s] \in {"deleted", "unsure"}
      BY <1>1, <1>2, <2>2
    <2>4. StoreHeld'
      BY <1>1, <2>1, <2>3 DEF StoreHeld, Alive
    <2>5. UNCHANGED Log!vars
      BY <2>1, <2>3 DEF Log!vars
    <2> QED
      BY <2>4, <2>5
  <1>5. ASSUME NEW s \in Sessions, NEW a \in Agent, NEW out \in SetAgent(kept[s], a),
               Store(s, out), Open(s), touched' = touched, backend' = backend, now' = now
        PROVE  Simulated
    <2>1. StoreHeld' /\ Log!Mark(s)
      BY <1>5, SetAgentStep
    <2>2. Log!Next
      BY <2>1 DEF Log!Next
    <2> QED
      BY <2>1, <2>2
  <1>6. ASSUME NEW s \in Sessions, NEW m \in Messages, NEW out \in AddMessage(kept[s], m),
               Store(s, out), Touch(s, out), Open(s), backend' = backend, now' = now
        PROVE  Simulated
    <2>1. StoreHeld' /\ (Log!Say(s, m) \/ Log!Mark(s))
      BY <1>6, AddStep
    <2>2. Log!Next
      BY <2>1 DEF Log!Next
    <2> QED
      BY <2>1, <2>2
  <1>7. ASSUME NEW s \in Sessions, NEW out \in History(kept[s]),
               Renew(s, out), life' = life, backend' = backend, now' = now
        PROVE  Simulated
    <2>1. StoreHeld' /\ (Log!Look(s) \/ UNCHANGED Log!vars)
      BY <1>7, RenewStep
    <2>2. Log!Next \/ UNCHANGED Log!vars
      BY <2>1 DEF Log!Next
    <2> QED
      BY <2>1, <2>2
  <1>8. ASSUME NEW t \in Turns, RecordAgent(t) PROVE Simulated
    <2>1. PICK out \in SetAgent(kept[turn[t].session], turn[t].agent) : Store(turn[t].session, out)
      BY <1>8 DEF RecordAgent
    <2>2. Open(turn[t].session) /\ touched' = touched /\ backend' = backend /\ now' = now
      BY <1>8 DEF RecordAgent
    <2>3. turn[t].session \in Sessions /\ turn[t].agent \in Agent
      BY <1>2
    <2> HIDE DEF Simulated
    <2> QED
      BY <1>5, <2>1, <2>2, <2>3
  <1>9. ASSUME NEW t \in Turns, SaveQuestion(t) PROVE Simulated
    <2>1. <<t, 1>> \in Messages
      BY <1>1 DEF Messages
    <2>2. PICK out \in AddMessage(kept[turn[t].session], <<t, 1>>) :
              Store(turn[t].session, out) /\ Touch(turn[t].session, out)
      BY <1>9 DEF SaveQuestion
    <2>3. Open(turn[t].session) /\ backend' = backend /\ now' = now
      BY <1>9 DEF SaveQuestion
    <2>4. turn[t].session \in Sessions
      BY <1>2
    <2> HIDE DEF Simulated
    <2> QED
      BY <1>6, <2>1, <2>2, <2>3, <2>4
  <1>10. ASSUME NEW t \in Turns, SaveMessage(t) PROVE Simulated
    <2> DEFINE m == <<t, turn[t].said + 1>>
    <2>1. turn[t].session \in Sessions /\ turn[t].said \in 0 .. MaxSaid
      BY <1>2
    <2>2. turn[t].said + 1 \in 1 .. MaxSaid
      BY <1>10, <2>1 DEF SaveMessage, StoresAssumption
    <2>3. m \in Messages
      BY <2>2 DEF Messages
    <2>4. PICK out \in AddMessage(kept[turn[t].session], m) :
              Store(turn[t].session, out) /\ Touch(turn[t].session, out)
      BY <1>10 DEF SaveMessage
    <2>5. Open(turn[t].session) /\ backend' = backend /\ now' = now
      BY <1>10 DEF SaveMessage
    <2> HIDE DEF Simulated, m
    <2> QED
      BY <1>6, <2>1, <2>3, <2>4, <2>5
  <1>11. ASSUME NEW t \in Turns, RenewContext(t) PROVE Simulated
    <2>1. PICK out \in History(kept[turn[t].session]) : Renew(turn[t].session, out)
      BY <1>11 DEF RenewContext
    <2>2. life' = life /\ backend' = backend /\ now' = now
      BY <1>11 DEF RenewContext
    <2> HIDE DEF Simulated
    <2> QED
      BY <1>2, <1>7, <2>1, <2>2
  <1>12. ASSUME NEW t \in Turns, ReadContext(t) PROVE Simulated
    <2>1. life' = life /\ backend' = backend /\ now' = now
      BY <1>12 DEF ReadContext
    <2>2. CASE \E out \in History(kept[turn[t].session]) : Renew(turn[t].session, out)
      <3> HIDE DEF Simulated
      <3> QED
        BY <1>2, <1>7, <2>1, <2>2
    <2>3. CASE UNCHANGED <<kept, faults, touched>>
      <3> HIDE DEF Simulated
      <3> QED
        BY <1>3, <2>1, <2>3
    <2> QED
      BY <1>12, <2>2, <2>3 DEF ReadContext
  <1>13. ASSUME NEW t \in Turns, FetchContext(t) PROVE Simulated
    <2>1. UNCHANGED <<backend, now, kept, touched, life>>
      BY <1>13 DEF FetchContext, history
    <2>2. faults' \in {faults, faults + 1} /\ faults' <= MaxFaults
      <3>1. faults \in Nat /\ MaxFaults \in Nat /\ faults <= MaxFaults
        BY <1>1 DEF StoreHeld, StoresAssumption
      <3> QED
        BY <1>13, <3>1 DEF FetchContext
    <2> QED
      BY <2>1, <2>2, IdleStep
  <1>14. ASSUME NEW t \in Turns, EndTurn(t) PROVE Simulated
    <2>1. UNCHANGED <<backend, now, kept, faults, touched>> /\ UNCHANGED life
      BY <1>14 DEF EndTurn, history
    <2> HIDE DEF Simulated
    <2> QED
      BY <1>3, <2>1
  <1>15. ASSUME NEW s \in Sessions, NEW a \in Agents, CreateSession(s, a) PROVE Simulated
    <2>1. PICK out \in SetAgent(kept[s], a) : Store(s, out)
      BY <1>15 DEF CreateSession
    <2>2. Open(s) /\ touched' = touched /\ backend' = backend /\ now' = now
      BY <1>15 DEF CreateSession
    <2>3. a \in Agent
      BY DEF Agent
    <2> HIDE DEF Simulated
    <2> QED
      BY <1>5, <2>1, <2>2, <2>3
  <1>16. ASSUME NEW s \in Sessions, RenewHistory(s) \/ ReadHistory(s) PROVE Simulated
    <2>1. PICK out \in History(kept[s]) : Renew(s, out)
      BY <1>16 DEF RenewHistory, ReadHistory
    <2>2. life' = life /\ backend' = backend /\ now' = now
      BY <1>16 DEF RenewHistory, ReadHistory
    <2> HIDE DEF Simulated
    <2> QED
      BY <1>7, <2>1, <2>2
  <1>17. ASSUME NEW s \in Sessions, FetchHistory(s) PROVE Simulated
    <2>1. UNCHANGED <<backend, now, kept, faults, touched>> /\ UNCHANGED life
      BY <1>17 DEF FetchHistory, history
    <2> HIDE DEF Simulated
    <2> QED
      BY <1>3, <2>1
  <1>18. ASSUME NEW s \in Sessions, DeleteSession(s) PROVE Simulated
    <2>1. StoreHeld' /\ Log!Drop(s)
      BY <1>18, DeleteStep
    <2>2. Log!Next
      BY <2>1 DEF Log!Next
    <2> QED
      BY <2>1, <2>2
  <1>19. CASE Tick \/ Cleanup
    <2>1. StoreHeld' /\ Log!Pass
      BY <1>19, TickStep, CleanupStep
    <2>2. Log!Next
      BY <2>1 DEF Log!Next
    <2>3. StoreInv'
      BY <2>1, RequestsStep DEF StoreInv
    <2> QED
      BY <2>2, <2>3
  <1>20. ASSUME UNCHANGED vars PROVE Simulated
    <2>1. UNCHANGED <<backend, now, kept, faults, touched>> /\ UNCHANGED life
      BY <1>20 DEF vars
    <2> HIDE DEF Simulated
    <2> QED
      BY <1>3, <2>1
  <1>21. CASE ~ (Tick \/ Cleanup)
    <2>1. Simulated
      <3> HIDE DEF Simulated
      <3> QED
        BY <1>4, <1>8, <1>9, <1>10, <1>11, <1>14, <1>15, <1>16, <1>18, <1>20, <1>21, <1>12, <1>13, <1>17 DEF Next
    <2>2. StoreInv'
      BY <2>1, RequestsStep DEF StoreInv
    <2> QED
      BY <2>1, <2>2
  <1> QED
    BY <1>19, <1>21

\* Whatever is held of a session is well typed, an entry in memory has one
\* expiry and the cap holds: TypeOK for every value of the constants.
THEOREM StoreTypeOK == Spec => []TypeOK
  <1>1. Init => StoreInv
    BY StoresAssumption, StoreInit
  <1>2. StoreInv /\ [Next]_vars => StoreInv'
    BY StoresAssumption, StoreNext
  <1> QED
    BY <1>1, <1>2, StoreInvType, PTL DEF Spec

\* The in-memory, the Redis and the MySQL store implement SessionLog: no
\* message is lost, reordered or made up, and no session expires within TTL of
\* a confirmed write or of a read whose renewal was confirmed, whatever turns,
\* readers and deletions do and however often broken pipelines are run again.
THEOREM StoreKeepsSessions == Spec => KeepsSessions
  <1>1. Init => StoreInv /\ Log!Init
    BY StoresAssumption, StoreInit
  <1>2. StoreInv /\ [Next]_vars => StoreInv' /\ [Log!Next]_(Log!vars)
    BY StoresAssumption, StoreNext
  <1> QED
    BY <1>1, <1>2, PTL DEF Spec, KeepsSessions, Log!Spec
-----------------------------------------------------------------------------
(***************************************************************************)
(* The list of sessions.  The agent and the owner of a session are kept    *)
(* under keys of their own, so what the list says needs an invariant       *)
(* beside Alive: how long these two are held, and what a deletion takes.   *)
(***************************************************************************)
\* k is under the agent that g records, and in Redis for TTL from then.
HeldFor(k, g) ==
    /\ k.agent = g.agent /\ k.userKey > 0
    /\ backend = "redis" => k.agentKey >= g.at + TTL /\ k.userKey >= g.at + TTL

TagInv ==
    \A s \in Sessions :
        /\ tagged[s].at <= now
        /\ tagged[s].agent # Unset =>
              \/ HeldFor(kept[s], tagged[s])
              \/ backend = "redis" /\ now >= tagged[s].at + TTL

\* What a confirmed deletion leaves of k: in Redis perhaps its owner's key.
Gone(k) == k.msgs = <<>> /\ IF backend = "redis" THEN k.list = 0 ELSE k.userKey = 0

DeletedInv == \A s \in Sessions : life[s] = "deleted" => Gone(kept[s])

ListInv == TagInv /\ DeletedInv

\* What storing and reading messages does to the other two keys.
KeysKept(k, k2) ==
    /\ k2.agent = k.agent
    /\ k.userKey > 0 => k2.userKey > 0
    /\ backend = "redis" => k2.agentKey = k.agentKey /\ k2.userKey \in {k.userKey, now + TTL}

LEMMA AddKeepsKeys ==
    ASSUME StoresAssumption, TypeOK, NEW k \in Kept, NEW m \in Messages, NEW out \in AddMessage(k, m)
    PROVE  KeysKept(k, out.kept)
  <1>0. now + TTL > 0
    BY TimesType
  <1>1. CASE backend = "memory"
    <2>1. out = Ok([Lasting(k, now + TTL) EXCEPT !.msgs = Newest(Append(@, m))])
      BY <1>1 DEF AddMessage, MemoryAdd
    <2>2. out.kept.agent = k.agent /\ out.kept.userKey = now + TTL
      BY <2>1 DEF Lasting, Kept
    <2> QED
      BY <1>0, <1>1, <2>2 DEF KeysKept
  <1>2. CASE backend = "redis"
    <2>1. ASSUME NEW b \in Kept
          PROVE  /\ RPush(b, m).agent = b.agent /\ Expire(RPush(b, m)).agent = b.agent
                 /\ LTrim(Expire(RPush(b, m))).agent = b.agent /\ Added(b, m).agent = b.agent
                 /\ RPush(b, m).agentKey = b.agentKey /\ Expire(RPush(b, m)).agentKey = b.agentKey
                 /\ LTrim(Expire(RPush(b, m))).agentKey = b.agentKey /\ Added(b, m).agentKey = b.agentKey
                 /\ RPush(b, m).userKey = b.userKey /\ Expire(RPush(b, m)).userKey = b.userKey
                 /\ LTrim(Expire(RPush(b, m))).userKey = b.userKey /\ Added(b, m).userKey = now + TTL
      BY DEF Added, SetUser, LTrim, Expire, RPush, Kept
    <2>2. \A b \in AddBroken(k, m) :
             b.agent = k.agent /\ b.agentKey = k.agentKey /\ b.userKey \in {k.userKey, now + TTL}
      BY <2>1 DEF AddBroken
    <2>3. Added(k, m) \in AddBroken(k, m)
      BY DEF AddBroken
    <2>4. out.kept \in AddBroken(k, m)
      BY <1>2, <2>3, AttemptOutcome DEF AddMessage, RedisAdd
    <2> QED
      BY <1>0, <2>2, <2>4 DEF KeysKept
  <1>3. CASE backend = "mysql"
    <2> DEFINE row == [k EXCEPT !.msgs = Append(@, m), !.list = Forever]
    <2>1. row.agent = k.agent /\ row.userKey = k.userKey
      BY DEF Kept
    <2>2. out.kept.agent = k.agent /\ out.kept.userKey = k.userKey
      <3>1. out \in Attempt(row, {k, row})
        BY <1>3 DEF AddMessage, MySQLAdd, OneCommit
      <3> HIDE DEF row
      <3>2. out.kept \in {k, row}
        BY <3>1, AttemptOutcome
      <3> QED
        BY <2>1, <3>2
    <2> QED
      BY <1>3, <2>2 DEF KeysKept
  <1> QED
    BY <1>1, <1>2, <1>3 DEF TypeOK, StoresAssumption

LEMMA HistoryKeepsKeys ==
    ASSUME StoresAssumption, TypeOK, NEW k \in Kept, NEW out \in History(k)
    PROVE  KeysKept(k, out.kept)
  <1>0. now + TTL > 0
    BY TimesType
  <1>1. CASE backend = "memory"
    <2>1. out = Ok(Lasting(k, now + TTL))
      BY <1>1 DEF History, MemoryHistory
    <2>2. out.kept.agent = k.agent /\ out.kept.userKey = now + TTL
      BY <2>1 DEF Lasting, Kept
    <2> QED
      BY <1>0, <1>1, <2>2 DEF KeysKept
  <1>2. CASE backend = "redis"
    <2>1. out.kept \in {k, Expire(k)}
      BY <1>2, AttemptOutcome DEF History, RedisRenew
    <2>2. /\ Expire(k).agent = k.agent /\ Expire(k).userKey = k.userKey
          /\ Expire(k).agentKey = k.agentKey
      BY DEF Expire, Kept
    <2> QED
      BY <1>2, <2>1, <2>2 DEF KeysKept
  <1>3. CASE backend = "mysql"
    <2>1. out.kept \in {k}
      <3>1. out \in Attempt(k, {k})
        BY <1>3 DEF History
      <3>2. out.kept = k \/ out.kept \in {k}
        BY <3>1, AttemptOutcome
      <3> QED
        BY <3>2
    <2> QED
      BY <1>3, <2>1 DEF KeysKept
  <1> QED
    BY <1>1, <1>2, <1>3 DEF TypeOK, StoresAssumption

\* An agent that is confirmed is there, with an owner, for TTL.
LEMMA SetAgentHolds ==
    ASSUME StoresAssumption, TypeOK, NEW k \in Kept, NEW a \in Agent,
           backend = "memory" => k.list = k.userKey,
           NEW out \in SetAgent(k, a), out.ok
    PROVE  HeldFor(out.kept, [agent |-> a, at |-> now])
  <1>0. now + TTL > 0 /\ now + TTL >= now + TTL /\ Forever > 0
    BY TimesType
  <1>1. CASE backend = "memory"
    <2>1. k.list \in Nat
      BY TimesType DEF Kept
    <2>2. out.kept = [IF k.list = 0 THEN Lasting(k, now + TTL) ELSE k EXCEPT !.agent = a]
      BY <1>1 DEF SetAgent, MemorySetAgent
    <2>3. CASE k.list = 0
      <3>1. out.kept.agent = a /\ out.kept.userKey = now + TTL
        BY <2>2, <2>3 DEF Lasting, Kept
      <3> QED
        BY <1>0, <1>1, <3>1 DEF HeldFor
    <2>4. CASE k.list # 0
      <3>1. out.kept.agent = a /\ out.kept.userKey = k.userKey
        BY <2>2, <2>4 DEF Kept
      <3> QED
        BY <1>1, <2>1, <2>4, <3>1 DEF HeldFor
    <2> QED
      BY <2>3, <2>4
  <1>2. CASE backend = "redis"
    <2>1. out.kept = SetUser(SetAgentKey(k, a))
      BY <1>2, AttemptOutcome DEF SetAgent, RedisSetAgent
    <2> QED
      BY <1>0, <2>1 DEF SetUser, SetAgentKey, HeldFor, Kept
  <1>3. CASE backend = "mysql"
    <2> DEFINE row == [k EXCEPT !.agent = a, !.agentKey = Forever, !.userKey = Forever]
    <2>1. out \in Attempt(row, {k, row})
      BY <1>3 DEF SetAgent, MySQLSetAgent, OneCommit
    <2>2. row.agent = a /\ row.userKey = Forever
      BY DEF Kept
    <2> HIDE DEF row
    <2>3. out.kept = row
      BY <2>1, AttemptOutcome
    <2> QED
      BY <1>0, <1>3, <2>2, <2>3 DEF HeldFor
  <1> QED
    BY <1>1, <1>2, <1>3 DEF TypeOK, StoresAssumption

LEMMA DeleteTakes ==
    ASSUME NEW k \in Kept, NEW out \in Delete(k), out.ok
    PROVE  Gone(out.kept)
  <1>1. out.kept = Cleared(k)
    <2>1. CASE backend = "memory"
      BY <2>1 DEF Delete
    <2>2. CASE backend # "memory"
      BY <2>2, AttemptOutcome DEF Delete, OneCommit
    <2> QED
      BY <2>1, <2>2
  <1> QED
    BY <1>1 DEF Cleared, Gone, Fresh, Kept

\* The keys that a session keeps are the ones its tag was confirmed for.
LEMMA HeldOn ==
    ASSUME StoresAssumption, TypeOK, NEW k, NEW k2, NEW g \in [agent : Agent, at : 0 .. MaxTime],
           g.at <= now, HeldFor(k, g), KeysKept(k, k2)
    PROVE  HeldFor(k2, g)
  <1>1. now + TTL >= g.at + TTL
    BY TimesType
  <1> QED
    BY <1>1 DEF HeldFor, KeysKept

\* A step on one session that stores or reads messages, or does nothing.
LEMMA KeepingTags ==
    ASSUME StoresAssumption, StoreInv, TagInv, NEW s \in Sessions, NEW k2, KeysKept(kept[s], k2),
           kept' = [kept EXCEPT ![s] = k2], UNCHANGED <<backend, now, tagged>>
    PROVE  TagInv'
  <1> SUFFICES ASSUME NEW u \in Sessions
               PROVE  /\ tagged'[u].at <= now'
                      /\ tagged'[u].agent # Unset =>
                            \/ HeldFor(kept[u], tagged[u])'
                            \/ backend' = "redis" /\ now' >= tagged'[u].at + TTL
    BY DEF TagInv, HeldFor
  <1>1. /\ TypeOK /\ kept \in [Sessions -> Kept] /\ tagged[u] \in [agent : Agent, at : 0 .. MaxTime]
        /\ tagged[u].at <= now
    BY StoreInvType DEF StoreInv, StoreHeld, TagInv
  <1>2. HeldFor(kept[u], tagged[u]) => HeldFor(kept'[u], tagged[u])
    BY <1>1, HeldOn
  <1>3. HeldFor(kept[u], tagged[u])' <=> HeldFor(kept'[u], tagged[u])
    BY DEF HeldFor
  <1> QED
    BY <1>1, <1>2, <1>3 DEF TagInv

\* A step that records an agent, or forgets the one there was.
LEMMA ChangingTags ==
    ASSUME StoresAssumption, StoreInv, TagInv, NEW s \in Sessions, NEW k2, NEW g,
           g = Untagged \/ (g.at = now /\ HeldFor(k2, g)),
           kept' = [kept EXCEPT ![s] = k2], tagged' = [tagged EXCEPT ![s] = g],
           UNCHANGED <<backend, now>>
    PROVE  TagInv'
  <1>1. /\ kept \in [Sessions -> Kept] /\ now \in Nat
        /\ tagged \in [Sessions -> [agent : Agent, at : 0 .. MaxTime]]
    BY StoreInvType, TimesType DEF StoreInv, StoreHeld
  <1>2. kept'[s] = k2 /\ tagged'[s] = g
    BY <1>1
  <1>3. \A u \in Sessions \ {s} : kept'[u] = kept[u] /\ tagged'[u] = tagged[u]
    BY <1>1
  <1>4. \A u \in Sessions : HeldFor(kept[u], tagged[u])' <=> HeldFor(kept'[u], tagged'[u])
    BY DEF HeldFor
  <1>5. g.at <= now /\ (g.agent # Unset => HeldFor(k2, g))
    BY <1>1 DEF Untagged
  <1> QED
    BY <1>2, <1>3, <1>4, <1>5 DEF TagInv, HeldFor

\* Time passes: a key that Redis lets go was held for TTL.
LEMMA TickTags ==
    ASSUME StoresAssumption, StoreInv, TagInv, Tick
    PROVE  TagInv'
  <1>1. /\ TypeOK /\ now \in Nat /\ now' = now + 1 /\ TTL \in Nat
        /\ backend' = backend /\ tagged' = tagged /\ kept \in [Sessions -> Kept]
        /\ tagged \in [Sessions -> [agent : Agent, at : 0 .. MaxTime]]
    BY StoreInvType, TimesType DEF StoreInv, StoreHeld, Tick, history
  <1> SUFFICES ASSUME NEW u \in Sessions
               PROVE  /\ tagged[u].at <= now + 1
                      /\ tagged[u].agent # Unset =>
                            \/ HeldFor(kept'[u], tagged[u])
                            \/ backend = "redis" /\ now + 1 >= tagged[u].at + TTL
    BY <1>1 DEF TagInv, HeldFor
  <1>2. /\ tagged[u].at \in Nat /\ tagged[u].at <= now
        /\ kept[u].agentKey \in Nat /\ kept[u].userKey \in Nat
    BY <1>1, TimesType DEF TagInv, Kept
  <1>3. CASE backend = "redis"
    <2>1. kept'[u] = RedisAt(kept[u], now + 1)
      BY <1>1, <1>3 DEF Tick
    <2>2. ASSUME HeldFor(kept[u], tagged[u]), now + 1 < tagged[u].at + TTL
          PROVE  HeldFor(kept'[u], tagged[u])
      BY <1>1, <1>2, <1>3, <2>1, <2>2 DEF HeldFor, RedisAt
    <2> QED
      BY <1>1, <1>2, <1>3, <2>2 DEF TagInv
  <1>4. CASE backend # "redis"
    <2>1. kept'[u] = kept[u]
      BY <1>4 DEF Tick
    <2> QED
      BY <1>1, <1>2, <1>4, <2>1 DEF TagInv
  <1> QED
    BY <1>3, <1>4

\* The agent and the owner are renewed, forgotten or left alone with the tag.
LEMMA TagStep ==
    ASSUME StoresAssumption, StoreInv, TagInv, [Next]_vars
    PROVE  TagInv'
  <1>1. /\ TypeOK /\ kept \in [Sessions -> Kept] /\ 1 \in 1 .. MaxSaid
        /\ turn \in [Turns -> Turn]
        /\ backend = "memory" => \A s \in Sessions : kept[s].list = kept[s].userKey
    BY StoreInvType DEF StoreInv, StoreHeld, StoresAssumption
  <1>2. ASSUME NEW t \in Turns
        PROVE  /\ turn[t].session \in Sessions /\ turn[t].agent \in Agent
               /\ turn[t].said \in 0 .. MaxSaid
    BY <1>1 DEF Turn
  <1>3. ASSUME UNCHANGED <<backend, now, kept, tagged>> PROVE TagInv'
    BY <1>3 DEF TagInv, HeldFor
  <1>4. ASSUME NEW s \in Sessions, NEW m \in Messages, NEW out \in AddMessage(kept[s], m),
               Store(s, out), UNCHANGED <<backend, now, tagged>>
        PROVE  TagInv'
    <2>1. KeysKept(kept[s], out.kept)
      BY <1>1, AddKeepsKeys
    <2> QED
      BY <1>4, <2>1, KeepingTags DEF Store
  <1>5. ASSUME NEW s \in Sessions, NEW out \in History(kept[s]), Renew(s, out),
               UNCHANGED <<backend, now, tagged>>
        PROVE  TagInv'
    <2>1. KeysKept(kept[s], out.kept)
      BY <1>1, HistoryKeepsKeys
    <2> QED
      BY <1>5, <2>1, KeepingTags DEF Renew, Store
  <1>6. ASSUME NEW s \in Sessions, NEW a \in Agent, NEW out \in SetAgent(kept[s], a),
               Store(s, out), Tag(s, a, out), UNCHANGED <<backend, now>>
        PROVE  TagInv'
    <2> DEFINE g == IF out.ok THEN [agent |-> a, at |-> now] ELSE Untagged
    <2>1. g = Untagged \/ (g.at = now /\ HeldFor(out.kept, g))
      BY <1>1, SetAgentHolds
    <2>2. kept' = [kept EXCEPT ![s] = out.kept] /\ tagged' = [tagged EXCEPT ![s] = g]
      BY <1>6 DEF Store, Tag
    <2> HIDE DEF g
    <2> QED
      BY <1>6, <2>1, <2>2, ChangingTags
  <1>7. ASSUME NEW t \in Turns, Begin(t) \/ EndTurn(t) \/ FetchContext(t) PROVE TagInv'
    BY <1>3, <1>7 DEF Begin, EndTurn, FetchContext, history
  <1>8. ASSUME NEW t \in Turns, RecordAgent(t) PROVE TagInv'
    <2>1. PICK out \in SetAgent(kept[turn[t].session], turn[t].agent) :
              Store(turn[t].session, out) /\ Tag(turn[t].session, turn[t].agent, out)
      BY <1>8 DEF RecordAgent
    <2> QED
      BY <1>2, <1>6, <1>8, <2>1 DEF RecordAgent
  <1>9. ASSUME NEW t \in Turns, SaveQuestion(t) PROVE TagInv'
    <2>1. PICK out \in AddMessage(kept[turn[t].session], <<t, 1>>) : Store(turn[t].session, out)
      BY <1>9 DEF SaveQuestion
    <2>2. <<t, 1>> \in Messages
      BY <1>1 DEF Messages
    <2> QED
      BY <1>2, <1>4, <1>9, <2>1, <2>2 DEF SaveQuestion
  <1>10. ASSUME NEW t \in Turns, SaveMessage(t) PROVE TagInv'
    <2> DEFINE m == <<t, turn[t].said + 1>>
    <2>1. PICK out \in AddMessage(kept[turn[t].session], m) : Store(turn[t].session, out)
      BY <1>10 DEF SaveMessage
    <2>2. turn[t].said + 1 \in 1 .. MaxSaid
      BY <1>2, <1>10 DEF SaveMessage, StoresAssumption
    <2>3. m \in Messages /\ UNCHANGED <<backend, now, tagged>>
      BY <1>10, <2>2 DEF Messages, SaveMessage
    <2> HIDE DEF m
    <2> QED
      BY <1>2, <1>4, <2>1, <2>3
  <1>11. ASSUME NEW t \in Turns, RenewContext(t) \/ ReadContext(t) PROVE TagInv'
    <2>1. UNCHANGED <<backend, now, tagged>>
      BY <1>11 DEF RenewContext, ReadContext
    <2>2. \/ \E out \in History(kept[turn[t].session]) : Renew(turn[t].session, out)
          \/ kept' = kept
      BY <1>11 DEF RenewContext, ReadContext
    <2> QED
      BY <1>2, <1>3, <1>5, <2>1, <2>2
  <1>12. ASSUME NEW s \in Sessions, NEW a \in Agents, CreateSession(s, a) PROVE TagInv'
    <2>1. PICK out \in SetAgent(kept[s], a) : Store(s, out) /\ Tag(s, a, out)
      BY <1>12 DEF CreateSession
    <2> QED
      BY <1>6, <1>12, <2>1 DEF CreateSession, Agent
  <1>13. ASSUME NEW s \in Sessions, RenewHistory(s) \/ ReadHistory(s) PROVE TagInv'
    BY <1>5, <1>13 DEF RenewHistory, ReadHistory
  <1>14. ASSUME NEW s \in Sessions, FetchHistory(s) PROVE TagInv'
    BY <1>3, <1>14 DEF FetchHistory, history
  <1>15. ASSUME NEW s \in Sessions, DeleteSession(s) PROVE TagInv'
    <2>1. PICK out \in Delete(kept[s]) : Store(s, out)
      BY <1>15 DEF DeleteSession
    <2> QED
      BY <1>15, <2>1, ChangingTags DEF DeleteSession, Store
  <1>16. CASE Cleanup
    <2>1. /\ backend = "memory" /\ UNCHANGED <<backend, now>>
          /\ \A s \in Sessions : \/ /\ kept'[s] = kept[s]
                                    /\ tagged'[s] = tagged[s]
                                 \/ tagged'[s] = Untagged
      BY <1>16 DEF Cleanup
    <2>2. Untagged.at <= now /\ Untagged.agent = Unset
      BY <1>1, TimesType DEF Untagged
    <2> QED
      BY <2>1, <2>2 DEF TagInv, HeldFor
  <1>17. CASE UNCHANGED vars
    BY <1>3, <1>17 DEF vars
  <1> QED
    BY <1>7, <1>8, <1>9, <1>10, <1>11, <1>12, <1>13, <1>15, <1>16, <1>17, <1>14, TickTags DEF Next

\* A deleted session stays as the deletion left it until it is opened again.
LEMMA DeletedStep ==
    ASSUME StoresAssumption, StoreInv, DeletedInv, [Next]_vars
    PROVE  DeletedInv'
  <1>1. /\ TypeOK /\ now \in Nat /\ kept \in [Sessions -> Kept] /\ turn \in [Turns -> Turn]
        /\ life \in [Sessions -> {"new", "open", "deleted", "unsure"}]
        /\ backend = "memory" => \A s \in Sessions : kept[s].list = kept[s].userKey
    BY StoreInvType, TimesType DEF StoreInv, StoreHeld
  <1>2. ASSUME NEW t \in Turns PROVE turn[t].session \in Sessions
    BY <1>1 DEF Turn
  <1>3. ASSUME UNCHANGED <<backend, kept>>,
               \A s \in Sessions : life'[s] = "deleted" => life[s] = "deleted"
        PROVE  DeletedInv'
    BY <1>3 DEF DeletedInv, Gone
  <1>4. ASSUME NEW s \in Sessions, NEW out, Store(s, out), Open(s), backend' = backend
        PROVE  DeletedInv'
    <2>1. \A u \in Sessions \ {s} : kept'[u] = kept[u] /\ life'[u] = life[u]
      BY <1>1, <1>4 DEF Store, Open
    <2>2. life'[s] = "open"
      BY <1>1, <1>4 DEF Open
    <2> QED
      BY <1>4, <2>1, <2>2 DEF DeletedInv, Gone
  <1>5. ASSUME NEW s \in Sessions, NEW out \in History(kept[s]), Renew(s, out),
               backend = "memory" => kept[s].list > 0, UNCHANGED <<backend, life>>
        PROVE  DeletedInv'
    <2>1. kept'[s] = out.kept /\ \A u \in Sessions \ {s} : kept'[u] = kept[u]
      BY <1>1, <1>5 DEF Renew, Store
    <2>2. CASE backend = "memory"
      <3>1. life[s] # "deleted"
        BY <1>1, <1>5, <2>2 DEF DeletedInv, Gone
      <3> QED
        BY <1>5, <2>1, <3>1 DEF DeletedInv, Gone
    <2>3. CASE backend = "redis"
      <3>1. out.kept \in {kept[s], Expire(kept[s])}
        BY <2>3, AttemptOutcome DEF History, RedisRenew
      <3>2. /\ Expire(kept[s]).msgs = kept[s].msgs
            /\ kept[s].list = 0 => Expire(kept[s]).list = 0
        BY <1>1 DEF Expire, Kept
      <3>3. Gone(kept[s]) => Gone(out.kept)
        BY <2>3, <3>1, <3>2 DEF Gone
      <3> QED
        BY <1>5, <2>1, <3>3 DEF DeletedInv, Gone
    <2>4. CASE backend = "mysql"
      <3>1. out.kept \in {kept[s]}
        <4>1. out \in Attempt(kept[s], {kept[s]})
          BY <2>4 DEF History
        <4>2. out.kept = kept[s] \/ out.kept \in {kept[s]}
          BY <4>1, AttemptOutcome
        <4> QED
          BY <4>2
      <3> QED
        BY <1>5, <2>1, <3>1 DEF DeletedInv, Gone
    <2> QED
      BY <1>1, <2>2, <2>3, <2>4 DEF TypeOK, StoresAssumption
  <1>6. ASSUME NEW t \in Turns, Begin(t) PROVE DeletedInv'
    BY <1>1, <1>2, <1>3, <1>6 DEF Begin
  <1>7. ASSUME NEW t \in Turns, EndTurn(t) \/ FetchContext(t) PROVE DeletedInv'
    BY <1>3, <1>7 DEF EndTurn, FetchContext, history
  <1>8. ASSUME NEW t \in Turns, RecordAgent(t) \/ SaveQuestion(t) \/ SaveMessage(t)
        PROVE  DeletedInv'
    <2>1. \E out : Store(turn[t].session, out)
      BY <1>8 DEF RecordAgent, SaveQuestion, SaveMessage
    <2>2. Open(turn[t].session) /\ backend' = backend
      BY <1>8 DEF RecordAgent, SaveQuestion, SaveMessage
    <2> QED
      BY <1>2, <1>4, <2>1, <2>2
  <1>9. ASSUME NEW s \in Sessions, NEW a \in Agents, CreateSession(s, a) PROVE DeletedInv'
    <2>1. \E out : Store(s, out)
      BY <1>9 DEF CreateSession
    <2> QED
      BY <1>4, <1>9, <2>1 DEF CreateSession
  <1>10. ASSUME NEW t \in Turns, RenewContext(t) \/ ReadContext(t) PROVE DeletedInv'
    <2>1. UNCHANGED <<backend, life>>
      BY <1>10 DEF RenewContext, ReadContext
    <2>2. \/ kept' = kept
          \/ \E out \in History(kept[turn[t].session]) :
                /\ Renew(turn[t].session, out)
                /\ backend = "memory" => kept[turn[t].session].list > 0
      BY <1>10 DEF RenewContext, ReadContext
    <2> QED
      BY <1>2, <1>3, <1>5, <2>1, <2>2
  <1>11. ASSUME NEW s \in Sessions, RenewHistory(s) \/ ReadHistory(s) PROVE DeletedInv'
    BY <1>5, <1>11 DEF RenewHistory, ReadHistory
  <1>12. ASSUME NEW s \in Sessions, FetchHistory(s) PROVE DeletedInv'
    BY <1>3, <1>12 DEF FetchHistory, history
  <1>13. ASSUME NEW s \in Sessions, DeleteSession(s) PROVE DeletedInv'
    <2>1. PICK out \in Delete(kept[s]) :
             /\ Store(s, out)
             /\ life' = [life EXCEPT ![s] = IF out.ok THEN "deleted" ELSE "unsure"]
      BY <1>13 DEF DeleteSession
    <2>2. \A u \in Sessions \ {s} : kept'[u] = kept[u] /\ life'[u] = life[u]
      BY <1>1, <2>1 DEF Store
    <2>3. kept'[s] = out.kept /\ (life'[s] = "deleted" => out.ok)
      BY <1>1, <2>1 DEF Store
    <2>4. out.ok => Gone(out.kept)
      BY <1>1, DeleteTakes
    <2>5. backend' = backend
      BY <1>13 DEF DeleteSession
    <2> QED
      BY <2>2, <2>3, <2>4, <2>5 DEF DeletedInv, Gone
  <1>14. CASE Tick
    <2>1. UNCHANGED <<backend, life>> /\ now + 1 \in Nat
      BY <1>1, <1>14 DEF Tick, history
    <2>2. CASE backend = "redis"
      <3>1. \A s \in Sessions : kept'[s] = RedisAt(kept[s], now + 1)
        BY <1>14, <2>2 DEF Tick
      <3>2. \A s \in Sessions : Gone(kept[s]) => Gone(RedisAt(kept[s], now + 1))
        BY <2>1, <2>2 DEF Gone, RedisAt
      <3> QED
        BY <2>1, <3>1, <3>2 DEF DeletedInv, Gone
    <2>3. CASE backend # "redis"
      BY <1>3, <1>14, <2>1, <2>3 DEF Tick
    <2> QED
      BY <2>2, <2>3
  <1>15. CASE Cleanup
    <2>1. \A s \in Sessions : kept'[s] = kept[s] \/ kept'[s] = Fresh
      BY <1>15 DEF Cleanup
    <2>2. UNCHANGED <<backend, life>> /\ backend = "memory"
      BY <1>15 DEF Cleanup
    <2>3. Fresh.msgs = <<>> /\ Fresh.userKey = 0
      BY DEF Fresh
    <2> QED
      BY <2>1, <2>2, <2>3 DEF DeletedInv, Gone
  <1>16. CASE UNCHANGED vars
    BY <1>3, <1>16 DEF vars
  <1> QED
    BY <1>6, <1>7, <1>8, <1>9, <1>10, <1>11, <1>13, <1>14, <1>15, <1>16, <1>12 DEF Next

LEMMA ListInvInit ==
    ASSUME StoresAssumption, Init
    PROVE  ListInv
  <1>1. \A s \in Sessions : tagged[s] = Untagged /\ life[s] = "new" /\ now = 0
    BY DEF Init
  <1> QED
    BY <1>1 DEF ListInv, TagInv, DeletedInv, Untagged

LEMMA ListInvRight ==
    ASSUME StoresAssumption, StoreInv, ListInv
    PROVE  ListedRight
  <1>1. /\ TypeOK /\ now \in Nat /\ TTL \in Nat /\ kept \in [Sessions -> Kept]
        /\ tagged \in [Sessions -> [agent : Agent, at : 0 .. MaxTime]]
    BY StoreInvType, TimesType DEF StoreInv, StoreHeld
  <1>2. ASSUME NEW s \in Sessions, kept[s].msgs # <<>>, tagged[s].agent # Unset,
               now - tagged[s].at < TTL
        PROVE  Listed(s, tagged[s].agent)
    <2>1. tagged[s].at \in Nat /\ kept[s].list \in Nat
      BY <1>1, TimesType DEF Kept
    <2>2. HeldFor(kept[s], tagged[s])
      BY <1>1, <1>2, <2>1 DEF ListInv, TagInv
    <2>3. kept[s].list > 0
      BY <1>2, <2>1 DEF StoreInv, StoreHeld, Alive
    <2> QED
      BY <2>2, <2>3 DEF Listed, Owned, HeldFor
  <1>3. ASSUME NEW s \in Sessions, life[s] = "deleted"
        PROVE  ~ Listed(s, Unset) /\ kept[s].msgs = <<>>
    BY <1>3 DEF ListInv, DeletedInv, Gone, Listed, Owned
  <1> QED
    BY <1>2, <1>3 DEF ListedRight, FoundByAgent, StaysDeleted

\* For every backend, any TTL and any number of sessions and overlapping turns:
\* a session with messages is found under the agent that was last recorded for
\* it, for TTL, and one whose deletion was confirmed is not found until
\* somebody writes to it again.
THEOREM StoreListedRight == Spec => []ListedRight
  <1>1. Init => StoreInv /\ ListInv
    BY StoresAssumption, StoreInit, ListInvInit
  <1>2. StoreInv /\ ListInv /\ [Next]_vars => StoreInv' /\ ListInv'
    BY StoresAssumption, StoreNext, TagStep, DeletedStep DEF ListInv
  <1>3. StoreInv /\ ListInv => ListedRight
    BY StoresAssumption, ListInvRight
  <1> QED
    BY <1>1, <1>2, <1>3, PTL DEF Spec

=============================================================================
