---------------------------- MODULE AgentProofs -----------------------------
(***************************************************************************)
(* The properties of Agents, for any number of users, agents, requests and *)
(* faults and any lag of the slave.                                        *)
(***************************************************************************)
EXTENDS Agents, SequenceTheorems, TLAPS

\* The steps that a request of a kind may be at.
StepsOf(kind) ==
    {"done"} \cup
    CASE kind = "list" -> {"count", "default", "list"}
      [] kind = "create" -> {"insert"}
      [] kind = "update" -> {"write", "get"}
      [] kind = "get" -> {"get"}
      [] kind = "delete" -> {"remove"}
      [] kind = "chat" -> {"resolve", "model", "runs"}
      [] kind = "save" -> {"upsert", "reread"}
      [] kind = "settings" -> {"verify", "find", "found", "settle", "show"}
      [] kind = "upload" -> {"verify", "ensure", "find", "found", "settle", "show"}

\* What has become of a request that is about something of its own.
Begun(r) == at[r] # "idle"

\* A request that came is one of Inputs, at one of its steps; it names an id
\* that was given out, and came after requests that were answered.
RequestInv ==
    \A r \in Requests :
        /\ \A q \in before[r] : at[q] = "done"
        /\ Begun(r) =>
              /\ input[r] \in Inputs /\ at[r] \in StepsOf(input[r].kind)
              /\ Agent(r) # None => owner[Agent(r)] # None
        /\ at[r] \in {"ensure", "find", "found", "settle", "show"} =>
              Agent(r) \in Ids /\ User(r) = owner[Agent(r)]
        /\ result[r].founded => at[r] = "done"

\* A request makes one agent at most, for its user, and each agent has one maker.
MakerInv ==
    \A r \in Requests : result[r].made # None =>
        /\ at[r] \in {"list", "done"}
        /\ owner[result[r].made] = User(r)
        /\ \A q \in Requests : result[q].made = result[r].made => q = r

\* A request whose change was made, as far as it knows.
Told(r) == at[r] \in {"get", "show", "reread"} \/ Answered(r)

\* The requests of W that none came after whose change was made.
Latest(W) == {w \in W : \A v \in W : Told(v) => w \notin before[v]}

RowInv ==
    \A a \in Ids : Master.agents[a] # None =>
        \A c \in Allowed :
            \/ \E w \in Latest(UpdatesOf(a, c)) : Master.agents[a][c] = input[w].body[c]
            \/ /\ \A w \in UpdatesOf(a, c) : ~Told(w)
               /\ Master.agents[a][c] = Born(a)[c]

\* What holds of every version.
VersionInv ==
    \A i \in 1..Len(versions), a \in Ids :
        /\ versions[i].agents[a] # None =>
              /\ owner[a] # None /\ versions[i].agents[a].user = owner[a]
              /\ versions[i].agents[a].iter > 10 =>
                    \E w \in UpdatesOf(a, "iter") : input[w].body["iter"] = versions[i].agents[a].iter
        /\ versions[i].bases[a] # "none" => Master.bases[a] # "none"

BaseInv ==
    \A a \in Ids :
        LET Settings == Of("settings", a)  Uploads == Of("upload", a) IN
        /\ Master.bases[a] # "none" =>
              \/ \E w \in Latest(Settings) :
                    Master.bases[a] = IF result[w].founded THEN "on" ELSE Wanted(w)
              \/ /\ Master.bases[a] = "on"
                 /\ \E r \in Uploads : \A w \in Settings :
                       Told(w) => r \notin before[w] /\ (replicated \/ w \notin before[r])
        /\ \A w \in Settings : Told(w) \/ at[w] = "settle" => Master.bases[a] # "none"
        /\ \A r \in Uploads : ~replicated /\ at[r] \in {"find", "found", "settle"} =>
              \A w \in Settings : Told(w) => w \notin before[r]
        /\ \A r \in Uploads : at[r] = "settle" => Master.bases[a] # "none"

SavesOf(u) == {r \in Requests : Begun(r) /\ input[r].kind = "save" /\ User(r) = u}

ModelInv ==
    \A u \in Users :
        \/ \E w \in Latest(SavesOf(u)) : Master.models[u] = input[w].body["model"]
        \/ Master.models[u] = None /\ \A w \in SavesOf(u) : ~Told(w)

LagInv == ~replicated => Len(versions) = 1

\* What a chat has read of its agent.
ChatInv ==
    \A r \in Requests : at[r] \in {"model", "runs"} =>
        LET row == result[r].row  a == Agent(r) IN
        /\ row # None =>
              /\ a \in Ids /\ row.user = User(r) /\ owner[a] = User(r)
              /\ row.status # AgentStatusDisabled
              /\ row.iter > 10 => \E w \in UpdatesOf(a, "iter") : input[w].body["iter"] = row.iter
              /\ ~replicated => \A c \in Allowed : Seen(r, a, c, row[c])
        /\ row = None /\ a \in Ids /\ owner[a] = User(r) /\ ~replicated => Of("delete", a) # {}

\* A deletion that was over when r came, or not over.
GoneFor(r, a) == \E q \in Of("delete", a) : q \in before[r] \/ r \notin before[q]
GoneMeanwhile(r, a) == \E q \in Of("delete", a) : q \notin before[r] /\ r \notin before[q]

\* What a listing has seen and done.
ListInv ==
    \A r \in Requests : Begun(r) /\ input[r].kind = "list" /\ ~replicated =>
        /\ at[r] = "default" \/ result[r].made # None => \A a \in Known(r) : GoneFor(r, a)
        /\ at[r] = "list" /\ result[r].good =>
              \E a \in Ids : owner[a] = User(r) /\ (Master.agents[a] # None \/ GoneMeanwhile(r, a))
        /\ Answered(r) =>
              /\ \A a \in result[r].listed : owner[a] = User(r)
              /\ \A a \in Known(r) \ result[r].listed : GoneFor(r, a)
              /\ result[r].listed = {} =>
                    \E a \in Ids : owner[a] = User(r) /\ GoneMeanwhile(r, a)

\* The inductive invariant.
AgentsInv ==
    /\ TypeOK /\ RequestInv /\ MakerInv /\ RowInv /\ DeletionsKept /\ VersionInv
    /\ BaseInv /\ ModelInv /\ LagInv /\ ChatInv /\ ListInv
-----------------------------------------------------------------------------
\* How the versions go on: the slave sees what was there or what is new.
LogStep ==
    /\ versions' \in Seq(Database) /\ Len(versions') \in 1..MaxLag + 1
    /\ replicated' = replicated
    /\ \A i \in 1..Len(versions') :
          versions'[i] = Master' \/ \E j \in 1..Len(versions) : versions'[i] = versions[j]
    /\ (~replicated => Len(versions) = 1) => (~replicated => Len(versions') = 1)

\* The master is one of the databases of the type.
LEMMA MasterType ==
    ASSUME TypeOK
    PROVE  Master \in Database /\ Shown \in Database /\ Len(versions) \in Nat \ {0}
  <1>1. Len(versions) \in 1..MaxLag + 1 /\ MaxLag \in Nat
    BY AgentsAssumption DEF TypeOK
  <1>2. Len(versions) \in 1..Len(versions) /\ 1 \in 1..Len(versions)
    BY <1>1
  <1> QED
    BY <1>1, <1>2, ElementOfSeq DEF TypeOK, Master, Shown

\* A statement that writes leaves the master with what it wrote, if it was
\* kept, and what the caller was told was kept.
LEMMA WriteMaster ==
    ASSUME TypeOK, NEW db \in Database, NEW kept \in BOOLEAN, NEW told \in BOOLEAN,
           Write(db, kept, told)
    PROVE  /\ Master' = IF kept THEN db ELSE Master
           /\ told => kept
           /\ LogStep
           /\ faults' \in 0..MaxFaults
  <1> DEFINE n == Len(versions)
  <1>1. n \in Nat \ {0} /\ n \in 1..n /\ versions \in Seq(Database) /\ MaxLag \in Nat
    BY MasterType, AgentsAssumption DEF TypeOK
  <1>2. Len(versions') <= MaxLag + 1 /\ replicated' = replicated
    BY DEF Write
  <1>3. told => kept
    BY DEF Write
  <1>4. faults' \in 0..MaxFaults
    BY AgentsAssumption DEF Write, TypeOK
  <1>5. CASE ~kept \/ db = Master
    <2>1. versions' = versions
      BY <1>5 DEF Write
    <2>2. Master' = Master
      BY <2>1 DEF Master
    <2> QED
      BY <1>1, <1>2, <1>3, <1>4, <1>5, <2>1, <2>2 DEF LogStep
  <1>6. CASE kept /\ db # Master /\ replicated
    <2>1. versions' = Append(versions, db)
      BY <1>6 DEF Write
    <2>2. /\ versions' \in Seq(Database) /\ Len(versions') = n + 1 /\ versions'[n + 1] = db
          /\ \A i \in 1..n : versions'[i] = versions[i]
      BY <1>1, <2>1, AppendProperties
    <2>3. Master' = db
      BY <2>2 DEF Master
    <2>4. \A i \in 1..Len(versions') : i = n + 1 \/ i \in 1..n
      BY <1>1, <2>2
    <2>5. Len(versions') \in 1..MaxLag + 1
      BY <1>1, <1>2, <2>2
    <2> QED
      BY <1>1, <1>2, <1>3, <1>4, <1>6, <2>2, <2>3, <2>4, <2>5 DEF LogStep
  <1>7. CASE kept /\ db # Master /\ ~replicated
    <2>1. versions' = <<db>>
      BY <1>7 DEF Write
    <2>2. versions' \in Seq(Database) /\ Len(versions') = 1 /\ versions'[1] = db
      BY <2>1
    <2>3. Master' = db
      BY <2>2 DEF Master
    <2>4. \A i \in 1..Len(versions') : i = 1
      BY <2>2
    <2>5. Len(versions') \in 1..MaxLag + 1
      BY <1>1, <2>2
    <2> QED
      BY <1>1, <1>2, <1>3, <1>4, <1>7, <2>2, <2>3, <2>4, <2>5 DEF LogStep
  <1> QED
    BY <1>5, <1>6, <1>7

\* The slave takes over a change: the master stays.
LEMMA ReplicateMaster ==
    ASSUME TypeOK, Replicate
    PROVE  Master' = Master /\ LogStep
  <1> DEFINE n == Len(versions)
  <1>1. n \in 2..MaxLag + 1 /\ versions \in Seq(Database) /\ MaxLag \in Nat /\ versions # <<>>
    BY AgentsAssumption DEF TypeOK, Replicate
  <1>2. versions' = Tail(versions) /\ replicated' = replicated
    BY DEF Replicate
  <1>3. /\ versions' \in Seq(Database) /\ Len(versions') = n - 1
        /\ \A i \in 1..n - 1 : versions'[i] = versions[i + 1]
    BY <1>1, <1>2, HeadTailProperties
  <1>4. Master' = Master
    BY <1>1, <1>3 DEF Master
  <1>5. \A i \in 1..Len(versions') : i + 1 \in 1..n /\ versions'[i] = versions[i + 1]
    BY <1>1, <1>3
  <1>6. Len(versions') \in 1..MaxLag + 1 /\ n # 1
    BY <1>1, <1>3
  <1> QED
    BY <1>2, <1>3, <1>4, <1>5, <1>6 DEF LogStep
-----------------------------------------------------------------------------
\* What a request may ask is of the right type.
LEMMA BodyTypes ==
    ASSUME NEW i \in Inputs
    PROVE  /\ i.kind \in Kinds /\ i.user \in Users /\ i.agent \in Ids \cup {None}
           /\ "model" \in DOMAIN i.body => i.body["model"] \in Models \cup {None}
           /\ "iter" \in DOMAIN i.body => i.body["iter"] \in Int
           /\ "status" \in DOMAIN i.body =>
                 i.body["status"] \in {AgentStatusEnabled, AgentStatusDisabled}
           /\ "enabled" \in DOMAIN i.body => i.body["enabled"] \in {"on", "off"}
           /\ i.kind = "create" => {"model", "iter"} \subseteq DOMAIN i.body
           /\ i.kind = "save" => "model" \in DOMAIN i.body
           /\ i.kind = "settings" => "enabled" \in DOMAIN i.body
  <1>1. \A n \in DOMAIN i.body : FitsColumn(n, i.body[n])
    BY AgentsAssumption
  <1>2. /\ "model" \in DOMAIN i.body => FitsColumn("model", i.body["model"])
        /\ "iter" \in DOMAIN i.body => FitsColumn("iter", i.body["iter"])
        /\ "status" \in DOMAIN i.body => FitsColumn("status", i.body["status"])
        /\ "enabled" \in DOMAIN i.body => FitsColumn("enabled", i.body["enabled"])
    BY <1>1
  <1> QED
    BY <1>2, AgentsAssumption DEF FitsColumn

\* A new row is of the right type, whatever the body; its rounds are bounded.
LEMMA NewRowType ==
    ASSUME NEW u \in Users, NEW body, body["model"] \in Models \cup {None}, body["iter"] \in Int
    PROVE  /\ NewRow(u, body) \in Row /\ NewRow(u, body) # None
           /\ NewRow(u, body).user = u /\ NewRow(u, body).iter <= 10
  BY AgentsAssumption DEF NewRow, Row

\* An update changes the columns of the whitelist that the body names.
LEMMA PatchedRow ==
    ASSUME NEW row \in Row, NEW i \in Inputs
    PROVE  LET new == Patched(row, Filtered(i.body)) IN
           /\ new \in Row /\ new # None /\ new.user = row.user
           /\ \A c \in Allowed : new[c] = IF c \in DOMAIN i.body THEN i.body[c] ELSE row[c]
           /\ new.iter = IF "iter" \in DOMAIN i.body THEN i.body["iter"] ELSE row.iter
  <1> DEFINE f == Filtered(i.body)  new == Patched(row, f)
  <1>1. DOMAIN f = Allowed \cap DOMAIN i.body /\ \A c \in DOMAIN f : f[c] = i.body[c]
    BY DEF Filtered, Restrict
  <1>2. DOMAIN row = {"user", "model", "iter", "status"}
    BY DEF Row
  <1>3. new = [c \in {"user", "model", "iter", "status"} |-> IF c \in DOMAIN f THEN f[c] ELSE row[c]]
    BY <1>2 DEF Patched
  <1> HIDE DEF f
  <1>4. \A c \in Allowed : new[c] = IF c \in DOMAIN i.body THEN i.body[c] ELSE row[c]
    BY <1>1, <1>3 DEF Allowed
  <1>5. new["user"] = row["user"] /\ "user" \notin DOMAIN f
    BY <1>1, <1>3 DEF Allowed
  <1>6. /\ new["model"] \in Models \cup {None} /\ new["iter"] \in Int
        /\ new["status"] \in {AgentStatusEnabled, AgentStatusDisabled}
    BY <1>4, BodyTypes DEF Allowed, Row
  <1>7. new \in Row
    BY <1>3, <1>5, <1>6 DEF Row
  <1>8. new # None
    BY <1>7, AgentsAssumption
  <1> QED
    BY <1>4, <1>5, <1>7, <1>8 DEF Allowed, f
-----------------------------------------------------------------------------
\* How one request goes on while the others stay.
Kept(q) == at'[q] = at[q] /\ input'[q] = input[q] /\ result'[q] = result[q] /\ before'[q] = before[q]
OthersKept(r) == \A q \in Requests \ {r} : Kept(q)
Moves(r, to, res) ==
    /\ at'[r] = to /\ result'[r] = res /\ input'[r] = input[r] /\ before'[r] = before[r]
    /\ OthersKept(r)

\* The database and the owners stay.
Same == versions' = versions /\ replicated' = replicated /\ owner' = owner

\* What a query does besides its answer: nothing.
LEMMA QueryMoves ==
    ASSUME TypeOK, NEW r \in Requests, NEW from, NEW to \in Steps, NEW res \in Result,
           Query(r, from, to, res)
    PROVE  TypeOK' /\ Same /\ at[r] = from /\ Moves(r, to, res)
  <1>1. /\ at[r] = from /\ at' = [at EXCEPT ![r] = to] /\ result' = [result EXCEPT ![r] = res]
        /\ UNCHANGED <<replicated, versions, owner, input, before, faults>>
    BY DEF Query, Go, database
  <1>2. Same /\ Moves(r, to, res)
    BY <1>1 DEF Same, Moves, OthersKept, Kept, TypeOK
  <1>3. at' \in [Requests -> Steps] /\ result' \in [Requests -> Result]
    BY <1>1 DEF TypeOK
  <1> QED
    BY <1>1, <1>2, <1>3 DEF TypeOK

\* What a statement that writes db leaves: it may have failed, or its answer
\* may be lost.
Writes(r, from, db, effect, to) ==
    /\ LogStep /\ owner' = owner /\ at[r] = from
    /\ Master' \in {db, Master}
    /\ \/ Master' = db /\ effect /\ Moves(r, to, result[r])
       \/ Moves(r, "done", Failed(r))

\* What a statement that writes does to its request.
LEMMA ChangeMoves ==
    ASSUME TypeOK, NEW r \in Requests, NEW from, NEW to \in Steps, NEW db \in Database,
           NEW effect \in BOOLEAN, Change(r, from, db, effect, to)
    PROVE  TypeOK' /\ Writes(r, from, db, effect, to)
  <1>1. PICK kept, told \in BOOLEAN :
          /\ Write(db, kept, told)
          /\ IF told /\ effect THEN Go(r, to, result[r]) ELSE Go(r, "done", Failed(r))
    BY DEF Change
  <1>2. at[r] = from /\ UNCHANGED <<owner, input, before>>
    BY DEF Change
  <1>3. /\ Master' = IF kept THEN db ELSE Master
        /\ told => kept
        /\ LogStep /\ faults' \in 0..MaxFaults
    BY <1>1, WriteMaster
  <1>4. result[r] \in Result /\ Failed(r) \in Result /\ "done" \in Steps
    <2>1. result[r] \in Result
      BY DEF TypeOK
    <2> QED
      BY <2>1 DEF Result, Failed, Steps
  <1>5. at' \in [Requests -> Steps] /\ result' \in [Requests -> Result]
    BY <1>1, <1>4 DEF Go, TypeOK
  <1>6. TypeOK'
    BY <1>2, <1>3, <1>5 DEF TypeOK, LogStep
  <1>7. CASE told /\ effect
    <2>1. Moves(r, to, result[r])
      BY <1>1, <1>2, <1>7 DEF Go, Moves, OthersKept, Kept, TypeOK
    <2> QED
      BY <1>2, <1>3, <1>6, <1>7, <2>1 DEF Writes
  <1>8. CASE ~(told /\ effect)
    <2>1. Moves(r, "done", Failed(r))
      BY <1>1, <1>2, <1>8 DEF Go, Moves, OthersKept, Kept, TypeOK
    <2> QED
      BY <1>2, <1>3, <1>6, <2>1 DEF Writes
  <1> QED
    BY <1>7, <1>8
-----------------------------------------------------------------------------
\* What each step does, in the terms that the invariants speak of.

Begins(r) ==
    /\ Same /\ OthersKept(r) /\ at[r] = "idle"
    /\ input'[r] \in Inputs /\ at'[r] = FirstStep(input'[r])
    /\ input'[r].agent # None => owner[input'[r].agent] # None
    /\ result'[r] = result[r] /\ before'[r] = {q \in Requests : at[q] = "done"}

Reads(r) ==
    /\ Same /\ Moves(r, at'[r], result'[r])
    /\ result'[r].made = result[r].made /\ result'[r].founded = result[r].founded
    /\ \/ /\ at[r] = "count" /\ result'[r] = result[r]
          /\ at'[r] = IF NoneOf(User(r)) THEN "default" ELSE "list"
       \/ at[r] = "count" /\ at'[r] = "list" /\ ~result'[r].good
       \/ /\ at[r] = "list" /\ at'[r] = "done" /\ result'[r].good = result[r].good
          /\ result'[r].listed = OfUser(Shown, User(r))
       \/ /\ at[r] = "resolve" /\ at'[r] = "model"
          /\ result'[r].row = Found(r) /\ ~Refused(Found(r))
       \/ at[r] = "model" /\ at'[r] = "runs" /\ result'[r].row = result[r].row
       \/ /\ at[r] = "verify" /\ Found(r) # None
          /\ at'[r] = IF input[r].kind = "upload" THEN "ensure" ELSE "find"
       \/ at[r] = "ensure" /\ Shown.bases[Agent(r)] = "none" /\ at'[r] = "find"
       \/ at[r] = "ensure" /\ at'[r] = "done"
       \/ /\ at[r] = "find"
          /\ at'[r] = IF Shown.bases[Agent(r)] = "none" THEN "found" ELSE "settle"
       \/ at[r] \in {"get", "show", "reread"} /\ at'[r] = "done"
       \/ /\ at[r] \in {"list", "resolve", "verify", "ensure", "find"}
          /\ at'[r] = "done" /\ ~result'[r].good

BodyOf(r) == IF at[r] = "default" THEN DefaultBody ELSE input[r].body

Creates(r) ==
    /\ LogStep /\ Moves(r, IF at[r] = "default" THEN "list" ELSE "done", result'[r])
    /\ at[r] \in {"default", "insert"} /\ result'[r].founded = result[r].founded
    /\ \E a \in Ids :
          /\ owner[a] = None
          /\ \/ /\ Master' = [Master EXCEPT !.agents[a] = NewRow(User(r), BodyOf(r))]
                /\ owner' = [owner EXCEPT ![a] = User(r)] /\ result'[r].made = a
             \/ Master' = Master /\ owner' = owner /\ result'[r].made = None /\ ~result'[r].good

UpdatedBy(r) ==
    IF Agent(r) \in OfUser(Master, User(r))
    THEN [Master EXCEPT !.agents[Agent(r)] = Patched(@, Filtered(input[r].body))] ELSE Master

DeletedBy(r) ==
    IF Agent(r) \in OfUser(Master, User(r))
    THEN [Master EXCEPT !.agents[Agent(r)] = None] ELSE Master

SavedBy(r) == [Master EXCEPT !.models[User(r)] = input[r].body["model"]]

SettledBy(r) == [Master EXCEPT !.bases[Agent(r)] = IF @ = "none" THEN @ ELSE Wanted(r)]

Founds(r) ==
    LET free == Master.bases[Agent(r)] = "none" IN
    /\ LogStep /\ owner' = owner /\ at[r] = "found" /\ Moves(r, "done", result'[r])
    /\ result'[r].made = result[r].made
    /\ \/ free /\ result'[r].founded /\ Master' = [Master EXCEPT !.bases[Agent(r)] = "on"]
       \/ ~result'[r].founded /\ ~result'[r].good /\ Master' = Master

WritesOne(r) ==
    \/ Writes(r, "write", UpdatedBy(r), TRUE, "get")
    \/ Writes(r, "remove", DeletedBy(r), Agent(r) \in OfUser(Master, User(r)), "done")
    \/ Writes(r, "upsert", SavedBy(r), TRUE, "reread")
    \/ Writes(r, "settle", SettledBy(r), TRUE, "show")

Shape ==
    \/ LogStep /\ Master' = Master /\ owner' = owner /\ \A q \in Requests : Kept(q)
    \/ \E r \in Requests : Begins(r) \/ Reads(r) \/ Creates(r) \/ Founds(r) \/ WritesOne(r)

\* One request moves, at most.
LEMMA Mover ==
    ASSUME Shape, NEW q \in Requests, ~Kept(q)
    PROVE  Begins(q) \/ Reads(q) \/ Creates(q) \/ Founds(q) \/ WritesOne(q)
  <1>1. PICK r \in Requests : Begins(r) \/ Reads(r) \/ Creates(r) \/ Founds(r) \/ WritesOne(r)
    BY DEF Shape
  <1>2. OthersKept(r)
    BY <1>1 DEF Begins, Reads, Creates, Founds, WritesOne, Writes, Moves
  <1>3. q = r
    BY <1>2 DEF OthersKept
  <1> QED
    BY <1>1, <1>3

\* A request comes.
LEMMA BeginShape ==
    ASSUME TypeOK, NEW r \in Requests, Begin(r)
    PROVE  TypeOK' /\ Begins(r)
  <1>1. PICK i \in Inputs :
          /\ i.agent # None => owner[i.agent] # None
          /\ input' = [input EXCEPT ![r] = i]
          /\ Go(r, FirstStep(i), result[r])
    BY DEF Begin
  <1>2. /\ at[r] = "idle" /\ UNCHANGED <<versions, replicated, owner, faults>>
        /\ before' = [before EXCEPT ![r] = {q \in Requests : at[q] = "done"}]
    BY DEF Begin, database
  <1>3. FirstStep(i) \in Steps
    BY BodyTypes DEF FirstStep, Steps, Kinds
  <1>4. at' = [at EXCEPT ![r] = FirstStep(i)] /\ result' = [result EXCEPT ![r] = result[r]]
    BY <1>1 DEF Go
  <1>5. TypeOK'
    BY <1>1, <1>2, <1>3, <1>4 DEF TypeOK
  <1>6. OthersKept(r) /\ at'[r] = FirstStep(i) /\ input'[r] = i /\ result'[r] = result[r]
    BY <1>1, <1>2, <1>4 DEF OthersKept, Kept, TypeOK
  <1>7. before'[r] = {q \in Requests : at[q] = "done"}
    BY <1>2 DEF TypeOK
  <1> QED
    BY <1>1, <1>2, <1>5, <1>6, <1>7 DEF Begins, Same

\* Queries, those that fail included.
LEMMA ReadShape ==
    ASSUME TypeOK, RequestInv, NEW r \in Requests,
           \/ Count(r) \/ List(r) \/ Get(r) \/ Resolve(r) \/ ReadModel(r) \/ Reread(r)
           \/ Verify(r) \/ EnsureKB(r) \/ FindKB(r) \/ ShowKB(r) \/ QueryFails(r)
    PROVE  TypeOK' /\ Reads(r)
  <1>1. result[r] \in Result /\ Shown \in Database
    BY MasterType DEF TypeOK
  <1>2. Found(r) \in Row \cup {None} /\ OfUser(Shown, User(r)) \subseteq Ids
    BY <1>1 DEF Found, OfUser, Database
  <1>3. at[r] # "idle" => input[r] \in Inputs
    BY DEF RequestInv, Begun
  <1>4. CASE Count(r)
    <2> DEFINE to == IF NoneOf(User(r)) THEN "default" ELSE "list"
               res == result[r]
    <2>1. to \in Steps /\ res \in Result
      BY <1>1 DEF Steps, Result, Failed
    <2>2. res.made = result[r].made /\ res.founded = result[r].founded
      BY <1>1 DEF Result, Failed
    <2>3. Query(r, "count", to, res)
      BY <1>4 DEF Count
    <2> HIDE DEF to, res
    <2>4. TypeOK' /\ Same /\ at[r] = "count" /\ Moves(r, to, res)
      BY <2>1, <2>3, QueryMoves
    <2>5. Same /\ Moves(r, at'[r], result'[r]) /\ at'[r] = to /\ result'[r] = res
      BY <2>4 DEF Moves
    <2> QED
      BY <1>1, <2>2, <2>4, <2>5 DEF Reads, to, res
  <1>5. CASE List(r)
    <2> DEFINE to == "done"
               res == [result[r] EXCEPT !.listed = OfUser(Shown, User(r))]
    <2>1. to \in Steps /\ res \in Result
      BY <1>1, <1>2 DEF Steps, Result, Failed
    <2>2. res.made = result[r].made /\ res.founded = result[r].founded
          /\ res.good = result[r].good /\ res.listed = OfUser(Shown, User(r))
      BY <1>1 DEF Result, Failed
    <2>3. Query(r, "list", to, res)
      BY <1>5 DEF List
    <2> HIDE DEF to, res
    <2>4. TypeOK' /\ Same /\ at[r] = "list" /\ Moves(r, to, res)
      BY <2>1, <2>3, QueryMoves
    <2>5. Same /\ Moves(r, at'[r], result'[r]) /\ at'[r] = to /\ result'[r] = res
      BY <2>4 DEF Moves
    <2> QED
      BY <2>2, <2>4, <2>5 DEF Reads, to
  <1>6. CASE Get(r)
    <2> DEFINE to == "done"
               res == [result[r] EXCEPT !.row = Found(r), !.good = Found(r) # None]
    <2>1. to \in Steps /\ res \in Result
      BY <1>1, <1>2 DEF Steps, Result, Failed
    <2>2. res.made = result[r].made /\ res.founded = result[r].founded
      BY <1>1 DEF Result, Failed
    <2>3. Query(r, "get", to, res)
      BY <1>6 DEF Get
    <2> HIDE DEF to, res
    <2>4. TypeOK' /\ Same /\ at[r] = "get" /\ Moves(r, to, res)
      BY <2>1, <2>3, QueryMoves
    <2>5. Same /\ Moves(r, at'[r], result'[r]) /\ at'[r] = to /\ result'[r] = res
      BY <2>4 DEF Moves
    <2> QED
      BY <2>2, <2>4, <2>5 DEF Reads, to
  <1>7. CASE Resolve(r)
    <2> DEFINE to == IF Refused(Found(r)) THEN "done" ELSE "model"
               res == IF Refused(Found(r)) THEN Failed(r) ELSE [result[r] EXCEPT !.row = Found(r)]
    <2>1. to \in Steps /\ res \in Result
      BY <1>1, <1>2 DEF Steps, Result, Failed
    <2>2. res.made = result[r].made /\ res.founded = result[r].founded
          /\ IF Refused(Found(r)) THEN ~res.good ELSE res.row = Found(r)
      BY <1>1 DEF Result, Failed
    <2>3. Query(r, "resolve", to, res)
      BY <1>7 DEF Resolve
    <2> HIDE DEF to, res
    <2>4. TypeOK' /\ Same /\ at[r] = "resolve" /\ Moves(r, to, res)
      BY <2>1, <2>3, QueryMoves
    <2>5. Same /\ Moves(r, at'[r], result'[r]) /\ at'[r] = to /\ result'[r] = res
      BY <2>4 DEF Moves
    <2> QED
      BY <2>2, <2>4, <2>5 DEF Reads, to
  <1>8. CASE ReadModel(r)
    <2> DEFINE to == "runs"
               res == [result[r] EXCEPT !.model = IF result[r].row # None /\ result[r].row.model # None
                               THEN result[r].row.model ELSE Shown.models[User(r)]]
    <2>0. Shown.models[User(r)] \in Models \cup {None}
      <3>1. at[r] = "model" /\ input[r] \in Inputs
        BY <1>3, <1>8 DEF ReadModel, Query
      <3> QED
        BY <1>1, <3>1, BodyTypes DEF Database, User
    <2>1. to \in Steps /\ res \in Result
      BY <1>1, <2>0 DEF Steps, Result, Row
    <2>2. res.made = result[r].made /\ res.founded = result[r].founded /\ res.row = result[r].row
      BY <1>1 DEF Result, Failed
    <2>3. Query(r, "model", to, res)
      BY <1>8 DEF ReadModel
    <2> HIDE DEF to, res
    <2>4. TypeOK' /\ Same /\ at[r] = "model" /\ Moves(r, to, res)
      BY <2>1, <2>3, QueryMoves
    <2>5. Same /\ Moves(r, at'[r], result'[r]) /\ at'[r] = to /\ result'[r] = res
      BY <2>4 DEF Moves
    <2> QED
      BY <2>2, <2>4, <2>5 DEF Reads, to
  <1>9. CASE Reread(r)
    <2> DEFINE to == "done"
               res == [result[r] EXCEPT !.model = Shown.models[User(r)]]
    <2>0. Shown.models[User(r)] \in Models \cup {None}
      <3>1. at[r] = "reread" /\ input[r] \in Inputs
        BY <1>3, <1>9 DEF Reread, Query
      <3> QED
        BY <1>1, <3>1, BodyTypes DEF Database, User
    <2>1. to \in Steps /\ res \in Result
      BY <1>1, <2>0 DEF Steps, Result, Failed
    <2>2. res.made = result[r].made /\ res.founded = result[r].founded
      BY <1>1 DEF Result, Failed
    <2>3. Query(r, "reread", to, res)
      BY <1>9 DEF Reread
    <2> HIDE DEF to, res
    <2>4. TypeOK' /\ Same /\ at[r] = "reread" /\ Moves(r, to, res)
      BY <2>1, <2>3, QueryMoves
    <2>5. Same /\ Moves(r, at'[r], result'[r]) /\ at'[r] = to /\ result'[r] = res
      BY <2>4 DEF Moves
    <2> QED
      BY <2>2, <2>4, <2>5 DEF Reads, to
  <1>10. CASE Verify(r)
    <2> DEFINE to == IF Found(r) = None THEN "done"
                     ELSE IF input[r].kind = "upload" THEN "ensure" ELSE "find"
               res == IF Found(r) = None THEN Failed(r) ELSE result[r]
    <2>1. to \in Steps /\ res \in Result
      BY <1>1 DEF Steps, Result, Failed
    <2>2. res.made = result[r].made /\ res.founded = result[r].founded
          /\ (Found(r) = None => ~res.good)
      BY <1>1 DEF Result, Failed
    <2>3. Query(r, "verify", to, res)
      BY <1>10 DEF Verify
    <2> HIDE DEF to, res
    <2>4. TypeOK' /\ Same /\ at[r] = "verify" /\ Moves(r, to, res)
      BY <2>1, <2>3, QueryMoves
    <2>5. Same /\ Moves(r, at'[r], result'[r]) /\ at'[r] = to /\ result'[r] = res
      BY <2>4 DEF Moves
    <2> QED
      BY <2>2, <2>4, <2>5 DEF Reads, to
  <1>11. CASE EnsureKB(r)
    <2> DEFINE to == IF Shown.bases[Agent(r)] = "none" THEN "find" ELSE "done"
               res == result[r]
    <2>1. to \in Steps /\ res \in Result
      BY <1>1 DEF Steps, Result, Failed
    <2>2. res.made = result[r].made /\ res.founded = result[r].founded
      BY <1>1 DEF Result, Failed
    <2>3. Query(r, "ensure", to, res)
      BY <1>11 DEF EnsureKB
    <2> HIDE DEF to, res
    <2>4. TypeOK' /\ Same /\ at[r] = "ensure" /\ Moves(r, to, res)
      BY <2>1, <2>3, QueryMoves
    <2>5. Same /\ Moves(r, at'[r], result'[r]) /\ at'[r] = to /\ result'[r] = res
      BY <2>4 DEF Moves
    <2> QED
      BY <1>1, <2>2, <2>4, <2>5 DEF Reads, to, res
  <1>12. CASE FindKB(r)
    <2> DEFINE to == IF Shown.bases[Agent(r)] = "none" THEN "found" ELSE "settle"
               res == result[r]
    <2>1. to \in Steps /\ res \in Result
      BY <1>1 DEF Steps, Result, Failed
    <2>2. res.made = result[r].made /\ res.founded = result[r].founded
      BY <1>1 DEF Result, Failed
    <2>3. Query(r, "find", to, res)
      BY <1>12 DEF FindKB
    <2> HIDE DEF to, res
    <2>4. TypeOK' /\ Same /\ at[r] = "find" /\ Moves(r, to, res)
      BY <2>1, <2>3, QueryMoves
    <2>5. Same /\ Moves(r, at'[r], result'[r]) /\ at'[r] = to /\ result'[r] = res
      BY <2>4 DEF Moves
    <2> QED
      BY <1>1, <2>2, <2>4, <2>5 DEF Reads, to, res
  <1>13. CASE ShowKB(r)
    <2> DEFINE to == "done"
               res == [result[r] EXCEPT !.good = Shown.bases[Agent(r)] # "none"]
    <2>1. to \in Steps /\ res \in Result
      BY <1>1 DEF Steps, Result, Failed
    <2>2. res.made = result[r].made /\ res.founded = result[r].founded
      BY <1>1 DEF Result, Failed
    <2>3. Query(r, "show", to, res)
      BY <1>13 DEF ShowKB
    <2> HIDE DEF to, res
    <2>4. TypeOK' /\ Same /\ at[r] = "show" /\ Moves(r, to, res)
      BY <2>1, <2>3, QueryMoves
    <2>5. Same /\ Moves(r, at'[r], result'[r]) /\ at'[r] = to /\ result'[r] = res
      BY <2>4 DEF Moves
    <2> QED
      BY <2>2, <2>4, <2>5 DEF Reads, to
  <1>14. CASE QueryFails(r)
    <2> DEFINE to == CASE at[r] = "count" -> "list" [] at[r] = "model" -> "runs" [] OTHER -> "done"
    <2>1. /\ at[r] \in {"count", "list", "get", "resolve", "model", "reread", "verify",
                        "ensure", "find", "show"}
          /\ at' = [at EXCEPT ![r] = to] /\ result' = [result EXCEPT ![r] = Failed(r)]
          /\ UNCHANGED <<replicated, versions, owner, input, before>>
          /\ faults < MaxFaults /\ faults' = faults + 1
      BY <1>14 DEF QueryFails, Go, database
    <2>2. /\ to \in Steps /\ Failed(r) \in Result /\ ~Failed(r).good
          /\ Failed(r).made = result[r].made /\ Failed(r).founded = result[r].founded
          /\ Failed(r).row = result[r].row
      BY <1>1, <2>1 DEF Steps, Result, Failed
    <2>3. Same /\ Moves(r, to, Failed(r))
      BY <2>1 DEF Same, Moves, OthersKept, Kept, TypeOK
    <2>4. faults' \in 0..MaxFaults
      BY <2>1, AgentsAssumption DEF TypeOK
    <2>5. TypeOK'
      BY <2>1, <2>2, <2>4 DEF TypeOK
    <2>6. /\ at'[r] = to /\ result'[r] = Failed(r) /\ ~result'[r].good
          /\ result'[r].made = result[r].made /\ result'[r].founded = result[r].founded
          /\ result'[r].row = result[r].row
      BY <2>2, <2>3 DEF Moves
    <2>7. Moves(r, at'[r], result'[r])
      BY <2>3, <2>6 DEF Moves
    <2>8. CASE at[r] \in {"count", "model"}
      BY <2>3, <2>5, <2>6, <2>7, <2>8 DEF Reads
    <2>9. CASE at[r] \in {"list", "get", "resolve", "reread", "verify", "ensure", "find", "show"}
      BY <2>3, <2>5, <2>6, <2>7, <2>9 DEF Reads
    <2> QED
      BY <2>1, <2>8, <2>9
  <1> QED
    BY <1>4, <1>5, <1>6, <1>7, <1>8, <1>9, <1>10, <1>11, <1>12, <1>13, <1>14

\* An agent is created.
LEMMA CreateShape ==
    ASSUME TypeOK, RequestInv, NEW r \in Requests, Create(r)
    PROVE  TypeOK' /\ Creates(r)
  <1> DEFINE next == IF at[r] = "default" THEN "list" ELSE "done"
  <1>1. at[r] \in {"default", "insert"} /\ UNCHANGED <<input, before>>
    BY DEF Create
  <1>2. PICK a \in Ids, kept \in BOOLEAN, told \in BOOLEAN :
          /\ owner[a] = None
          /\ Write([Master EXCEPT !.agents[a] = NewRow(User(r), BodyOf(r))], kept, told)
          /\ owner' = IF kept THEN [owner EXCEPT ![a] = User(r)] ELSE owner
          /\ Go(r, next, [result[r] EXCEPT !.made = IF kept THEN a ELSE None, !.good = told])
    BY DEF Create, BodyOf
  <1>3. input[r] \in Inputs /\ (at[r] = "insert" => input[r].kind = "create")
    BY <1>1, BodyTypes DEF RequestInv, Begun, StepsOf, Kinds
  <1>4. User(r) \in Users /\ BodyOf(r)["model"] \in Models \cup {None} /\ BodyOf(r)["iter"] \in Int
    BY <1>1, <1>3, BodyTypes DEF BodyOf, DefaultBody, User
  <1> DEFINE db == [Master EXCEPT !.agents[a] = NewRow(User(r), BodyOf(r))]
             res == [result[r] EXCEPT !.made = IF kept THEN a ELSE None, !.good = told]
  <1>5. db \in Database
    BY <1>4, NewRowType, MasterType DEF Database
  <1>6. /\ Master' = IF kept THEN db ELSE Master
        /\ told => kept
        /\ LogStep /\ faults' \in 0..MaxFaults
    <2> HIDE DEF db
    <2>1. Write(db, kept, told)
      BY <1>2 DEF db
    <2> QED
      BY <1>5, <2>1, WriteMaster
  <1>7. /\ res \in Result /\ res.made = (IF kept THEN a ELSE None) /\ res.good = told
        /\ res.founded = result[r].founded
    <2>1. result[r] \in Result
      BY DEF TypeOK
    <2> DEFINE made == IF kept THEN a ELSE None
    <2>2. made \in Ids \cup {None} /\ res = [result[r] EXCEPT !.made = made, !.good = told]
      OBVIOUS
    <2> HIDE DEF made, res
    <2>3. /\ res \in Result /\ res.made = made /\ res.good = told
          /\ res.founded = result[r].founded
      BY <2>1, <2>2 DEF Result
    <2> QED
      BY <2>3 DEF made
  <1>8. at' = [at EXCEPT ![r] = next] /\ result' = [result EXCEPT ![r] = res]
    BY <1>2 DEF Go
  <1> HIDE DEF res
  <1>9. next \in Steps
    BY DEF Steps
  <1>10. Moves(r, next, res)
    BY <1>1, <1>8 DEF Moves, OthersKept, Kept, TypeOK
  <1>11. owner' \in [Ids -> Users \cup {None}]
    BY <1>2, <1>4 DEF TypeOK
  <1>12. TypeOK'
    BY <1>1, <1>6, <1>7, <1>8, <1>9, <1>11 DEF TypeOK, LogStep
  <1>13. CASE kept
    BY <1>1, <1>2, <1>6, <1>7, <1>10, <1>12, <1>13 DEF Creates, Moves
  <1>14. CASE ~kept
    BY <1>1, <1>2, <1>6, <1>7, <1>10, <1>12, <1>14 DEF Creates, Moves
  <1> QED
    BY <1>13, <1>14

\* A knowledge base is created.
LEMMA FoundShape ==
    ASSUME TypeOK, RequestInv, NEW r \in Requests, CreateKB(r)
    PROVE  TypeOK' /\ Founds(r)
  <1> DEFINE free == Master.bases[Agent(r)] = "none"
             db == IF free THEN [Master EXCEPT !.bases[Agent(r)] = "on"] ELSE Master
  <1>1. at[r] = "found" /\ UNCHANGED <<owner, input, before>>
    BY DEF CreateKB
  <1>2. PICK kept \in BOOLEAN, told \in BOOLEAN :
          /\ Write(db, kept, told)
          /\ Go(r, "done", [result[r] EXCEPT !.good = told /\ free, !.founded = kept /\ free])
    BY DEF CreateKB
  <1> DEFINE res == [result[r] EXCEPT !.good = told /\ free, !.founded = kept /\ free]
  <1>3. db \in Database
    BY MasterType DEF Database
  <1> HIDE DEF db
  <1>4. /\ Master' = IF kept THEN db ELSE Master
        /\ told => kept
        /\ LogStep /\ faults' \in 0..MaxFaults
    BY <1>2, <1>3, WriteMaster
  <1>5. /\ res \in Result /\ res.made = result[r].made
        /\ res.good = (told /\ free) /\ res.founded = (kept /\ free)
    <2>1. result[r] \in Result
      BY DEF TypeOK
    <2> DEFINE good == told /\ free  founded == kept /\ free
    <2>2. good \in BOOLEAN /\ founded \in BOOLEAN
      OBVIOUS
    <2>3. res = [result[r] EXCEPT !.good = good, !.founded = founded]
      OBVIOUS
    <2> HIDE DEF good, founded, res
    <2>4. /\ res \in Result /\ res.made = result[r].made
          /\ res.good = good /\ res.founded = founded
      BY <2>1, <2>2, <2>3 DEF Result
    <2> QED
      BY <2>4 DEF good, founded
  <1>6. at' = [at EXCEPT ![r] = "done"] /\ result' = [result EXCEPT ![r] = res]
    BY <1>2 DEF Go
  <1> HIDE DEF res
  <1>7. Moves(r, "done", res)
    BY <1>1, <1>6 DEF Moves, OthersKept, Kept, TypeOK
  <1>8. "done" \in Steps
    BY DEF Steps
  <1>9. TypeOK'
    BY <1>1, <1>4, <1>5, <1>6, <1>8 DEF TypeOK, LogStep
  <1>10. CASE kept /\ free
    BY <1>1, <1>4, <1>5, <1>7, <1>9, <1>10 DEF Founds, Moves, db
  <1>11. CASE kept /\ ~free
    BY <1>1, <1>4, <1>5, <1>7, <1>9, <1>11 DEF Founds, Moves, db
  <1>12. CASE ~kept
    BY <1>1, <1>4, <1>5, <1>7, <1>9, <1>12 DEF Founds, Moves
  <1> QED
    BY <1>10, <1>11, <1>12

\* The other statements that write.
LEMMA WriteShape ==
    ASSUME TypeOK, RequestInv, NEW r \in Requests,
           Update(r) \/ Delete(r) \/ Upsert(r) \/ UpdateKB(r)
    PROVE  TypeOK' /\ WritesOne(r)
  <1>1. Master \in Database
    BY MasterType
  <1>2. at[r] # "idle" => /\ input[r] \in Inputs /\ input[r].kind \in Kinds
                          /\ at[r] \in StepsOf(input[r].kind) /\ User(r) \in Users
    BY BodyTypes DEF RequestInv, Begun, User
  <1> USE DEF Steps
  <1>3. CASE Update(r)
    <2>1. input[r] \in Inputs
      BY <1>2, <1>3 DEF Update, Change
    <2>2. UpdatedBy(r) \in Database
      <3>1. CASE Agent(r) \in OfUser(Master, User(r))
        <4>1. Agent(r) \in Ids /\ Master.agents[Agent(r)] \in Row
          BY <1>1, <3>1 DEF OfUser, Database
        <4>2. Patched(Master.agents[Agent(r)], Filtered(input[r].body)) \in Row
          BY <2>1, <4>1, PatchedRow
        <4> QED
          BY <1>1, <3>1, <4>2 DEF UpdatedBy, Database
      <3>2. CASE Agent(r) \notin OfUser(Master, User(r))
        BY <1>1, <3>2 DEF UpdatedBy
      <3> QED
        BY <3>1, <3>2
    <2>3. Change(r, "write", UpdatedBy(r), TRUE, "get")
      BY <1>3 DEF Update, UpdatedBy
    <2> QED
      BY <2>2, <2>3, ChangeMoves DEF WritesOne
  <1>4. CASE Delete(r)
    <2> DEFINE there == Agent(r) \in OfUser(Master, User(r))
    <2>1. DeletedBy(r) \in Database
      BY <1>1 DEF DeletedBy, Database
    <2>2. Change(r, "remove", DeletedBy(r), there, "done")
      BY <1>4 DEF Delete, DeletedBy
    <2>3. there \in BOOLEAN
      OBVIOUS
    <2> HIDE DEF there
    <2>4. TypeOK' /\ Writes(r, "remove", DeletedBy(r), there, "done")
      BY <2>1, <2>2, <2>3, ChangeMoves
    <2> QED
      BY <2>4 DEF WritesOne, there
  <1>5. CASE Upsert(r)
    <2>1. input[r] \in Inputs /\ input[r].kind = "save"
      BY <1>2, <1>5 DEF Upsert, Change, StepsOf, Kinds
    <2>2. SavedBy(r) \in Database
      BY <1>1, <2>1, BodyTypes DEF SavedBy, Database
    <2>3. Change(r, "upsert", SavedBy(r), TRUE, "reread")
      BY <1>5 DEF Upsert, SavedBy
    <2> QED
      BY <2>2, <2>3, ChangeMoves DEF WritesOne
  <1>6. CASE UpdateKB(r)
    <2>1. input[r] \in Inputs /\ input[r].kind \in {"settings", "upload"}
      BY <1>2, <1>6 DEF UpdateKB, Change, StepsOf, Kinds
    <2>2. Wanted(r) \in {"on", "off"}
      BY <2>1, BodyTypes DEF Wanted
    <2>3. SettledBy(r) \in Database
      BY <1>1, <2>2 DEF SettledBy, Database
    <2>4. Change(r, "settle", SettledBy(r), TRUE, "show")
      BY <1>6 DEF UpdateKB, SettledBy
    <2> QED
      BY <2>3, <2>4, ChangeMoves DEF WritesOne
  <1> QED
    BY <1>3, <1>4, <1>5, <1>6

\* Every step keeps the types and has one of the shapes.
LEMMA NextShape ==
    ASSUME TypeOK, RequestInv, [Next]_vars
    PROVE  TypeOK' /\ Shape
  <1>1. CASE UNCHANGED vars
    <2>1. /\ versions' = versions /\ replicated' = replicated /\ owner' = owner /\ at' = at
          /\ input' = input /\ result' = result /\ before' = before /\ faults' = faults
      BY <1>1 DEF vars
    <2>2. TypeOK' /\ Master' = Master
      BY <2>1 DEF TypeOK, Master
    <2>3. LogStep
      BY <2>1, <2>2 DEF LogStep, TypeOK
    <2> QED
      BY <2>1, <2>2, <2>3 DEF Shape, Kept
  <1>2. CASE Replicate
    <2>1. Master' = Master /\ LogStep
      BY <1>2, ReplicateMaster
    <2>2. UNCHANGED <<replicated, owner, at, input, result, before, faults>>
      BY <1>2 DEF Replicate
    <2>3. TypeOK'
      BY <2>1, <2>2 DEF TypeOK, LogStep
    <2> QED
      BY <2>1, <2>2, <2>3 DEF Shape, Kept
  <1>3. ASSUME NEW r \in Requests, Handle(r)
        PROVE  TypeOK' /\ Shape
    BY <1>3, BeginShape, ReadShape, CreateShape, FoundShape, WriteShape DEF Handle, Shape
  <1> QED
    BY <1>1, <1>2, <1>3 DEF Next
-----------------------------------------------------------------------------
\* What is over stays as it is, and what was asked is not forgotten.
History ==
    /\ \A q \in Requests :
          /\ Begun(q) => at'[q] # "idle" /\ input'[q] = input[q] /\ before'[q] = before[q]
          /\ at[q] = "done" => at'[q] = "done" /\ result'[q] = result[q]
          /\ ~Begun(q) => Kept(q) \/ Begins(q)
    /\ \A a \in Ids : owner[a] # None => owner'[a] = owner[a]
    /\ LogStep

\* Every step keeps the past.
LEMMA HistoryStep ==
    ASSUME TypeOK, LagInv, Shape
    PROVE  History
  <1>1. CASE LogStep /\ owner' = owner /\ \A q \in Requests : Kept(q)
    BY <1>1 DEF History, Kept, Begun
  <1>2. ASSUME NEW r \in Requests, Begins(r)
        PROVE  History
    <2>1. LogStep
      BY <1>2, AgentsAssumption DEF Begins, Same, LogStep, TypeOK, LagInv
    <2>2. at'[r] # "idle"
      BY <1>2, BodyTypes DEF Begins, FirstStep, Kinds
    <2> QED
      BY <1>2, <2>1, <2>2 DEF History, Begins, Same, OthersKept, Kept, Begun
  <1>3. ASSUME NEW r \in Requests, Reads(r)
        PROVE  History
    <2>1. LogStep
      BY <1>3, AgentsAssumption DEF Reads, Same, LogStep, TypeOK, LagInv
    <2>2. at[r] \notin {"idle", "done"} /\ at'[r] # "idle" /\ owner' = owner
      BY <1>3 DEF Reads, Same
    <2>3. Moves(r, at'[r], result'[r])
      BY <1>3 DEF Reads
    <2> QED
      BY <2>1, <2>2, <2>3 DEF History, Moves, OthersKept, Kept, Begun
  <1>4. ASSUME NEW r \in Requests, Creates(r)
        PROVE  History
    <2>1. at[r] \notin {"idle", "done"} /\ at'[r] # "idle" /\ LogStep
      BY <1>4 DEF Creates, Moves
    <2>2. Moves(r, at'[r], result'[r])
      BY <1>4 DEF Creates, Moves
    <2>3. \A a \in Ids : owner[a] # None => owner'[a] = owner[a]
      BY <1>4 DEF Creates, TypeOK
    <2> QED
      BY <2>1, <2>2, <2>3 DEF History, Moves, OthersKept, Kept, Begun
  <1>5. ASSUME NEW r \in Requests, Founds(r) \/ WritesOne(r)
        PROVE  History
    <2>1. at[r] \notin {"idle", "done"} /\ at'[r] # "idle" /\ LogStep /\ owner' = owner
      BY <1>5 DEF Founds, WritesOne, Writes, Moves
    <2>2. Moves(r, at'[r], result'[r])
      BY <1>5 DEF Founds, WritesOne, Writes, Moves
    <2> QED
      BY <2>1, <2>2 DEF History, Moves, OthersKept, Kept, Begun
  <1> QED
    BY <1>1, <1>2, <1>3, <1>4, <1>5 DEF Shape

\* What a query finds of an agent belongs to the user who asks.
LEMMA FoundOwned ==
    ASSUME TypeOK, VersionInv, NEW r \in Requests, Found(r) # None
    PROVE  /\ Agent(r) \in Ids /\ owner[Agent(r)] = User(r) /\ owner[Agent(r)] # None
           /\ Found(r) \in Row /\ Found(r).user = User(r) /\ Found(r) = Shown.agents[Agent(r)]
           /\ Found(r).iter > 10 =>
                 \E w \in UpdatesOf(Agent(r), "iter") : input[w].body["iter"] = Found(r).iter
  <1>1. 1 \in 1..Len(versions) /\ Shown \in Database
    BY MasterType
  <1>2. /\ Agent(r) \in Ids /\ Found(r) = Shown.agents[Agent(r)]
        /\ Shown.agents[Agent(r)] # None /\ Shown.agents[Agent(r)].user = User(r)
    BY DEF Found, OfUser
  <1> QED
    BY <1>1, <1>2 DEF VersionInv, Shown, Database

\* Every step keeps RequestInv.
LEMMA RequestStep ==
    ASSUME TypeOK, RequestInv, VersionInv, LagInv, TypeOK', Shape
    PROVE  RequestInv'
  <1>1. History
    BY HistoryStep
  <1> DEFINE Good(q) ==
        /\ \A p \in before'[q] : at'[p] = "done"
        /\ at'[q] # "idle" =>
              /\ input'[q] \in Inputs /\ at'[q] \in StepsOf(input'[q].kind)
              /\ input'[q].agent # None => owner'[input'[q].agent] # None
        /\ at'[q] \in {"ensure", "find", "found", "settle", "show"} =>
              input'[q].agent \in Ids /\ input'[q].user = owner'[input'[q].agent]
        /\ result'[q].founded => at'[q] = "done"
  <1>2. SUFFICES \A q \in Requests : Good(q)
    BY DEF RequestInv, Begun, Agent, User
  <1>3. \A q \in Requests : before[q] \subseteq Requests
    BY DEF TypeOK
  <1>4. \A q \in Requests : Begun(q) /\ input[q].agent \in Ids =>
            owner'[input[q].agent] = owner[input[q].agent] /\ owner[input[q].agent] # None
    BY <1>1, AgentsAssumption DEF RequestInv, Agent, History
  <1>5. \A q \in Requests : Begun(q) =>
            /\ input'[q] = input[q] /\ input[q] \in Inputs /\ at[q] \in StepsOf(input[q].kind)
            /\ input[q].kind \in Kinds /\ input[q].agent \in Ids \cup {None}
            /\ \A p \in before'[q] : at'[p] = "done"
            /\ input[q].agent # None => owner'[input[q].agent] # None
    BY <1>1, <1>3, <1>4, BodyTypes DEF RequestInv, History, Agent
  <1>6. ASSUME NEW q \in Requests, Kept(q)
        PROVE  Good(q)
    <2>1. CASE Begun(q)
      BY <1>4, <1>5, <1>6, <2>1 DEF Kept, RequestInv, Agent, User, Begun
    <2>2. CASE ~Begun(q)
      BY <1>1, <1>3, <1>6, <2>2 DEF Kept, RequestInv, Begun, History
    <2> QED
      BY <2>1, <2>2
  <1>7. ASSUME NEW r \in Requests, Begins(r)
        PROVE  Good(r)
    <2>1. /\ at[r] = "idle" /\ owner' = owner /\ input'[r] \in Inputs
          /\ input'[r].agent # None => owner[input'[r].agent] # None
          /\ before'[r] = {p \in Requests : at[p] = "done"} /\ result'[r] = result[r]
          /\ at'[r] = FirstStep(input'[r])
      BY <1>7 DEF Begins, Same
    <2>2. /\ at'[r] \in StepsOf(input'[r].kind)
          /\ at'[r] \notin {"ensure", "find", "found", "settle", "show"}
      BY <2>1, BodyTypes DEF FirstStep, StepsOf, Kinds
    <2>3. ~result[r].founded
      BY <2>1 DEF RequestInv
    <2> QED
      BY <1>1, <2>1, <2>2, <2>3 DEF History
  <1>8. ASSUME NEW r \in Requests, Reads(r)
        PROVE  Good(r)
    <2>1. /\ Begun(r) /\ at[r] # "done" /\ at'[r] # "idle"
          /\ result'[r].founded = result[r].founded /\ owner' = owner
      BY <1>8 DEF Reads, Same, Begun
    <2>2. at'[r] \in StepsOf(input[r].kind)
      BY <1>5, <1>8, <2>1 DEF Reads, StepsOf, Kinds
    <2>3. at'[r] \in {"ensure", "find", "found", "settle", "show"} =>
              (at[r] = "verify" /\ Found(r) # None) \/ at[r] \in {"ensure", "find"}
      BY <1>8 DEF Reads
    <2>4. at'[r] \in {"ensure", "find", "found", "settle", "show"} =>
              Agent(r) \in Ids /\ User(r) = owner[Agent(r)]
      BY <2>3, FoundOwned DEF RequestInv
    <2> QED
      BY <1>5, <2>1, <2>2, <2>4 DEF RequestInv, Agent, User
  <1>9. ASSUME NEW r \in Requests, Creates(r)
        PROVE  Good(r)
    <2>1. /\ Begun(r) /\ at[r] \in {"default", "insert"}
          /\ at'[r] = IF at[r] = "default" THEN "list" ELSE "done"
          /\ result'[r].founded = result[r].founded
      BY <1>9 DEF Creates, Moves, Begun
    <2>2. at'[r] \in StepsOf(input[r].kind)
      BY <1>5, <2>1 DEF StepsOf, Kinds
    <2> QED
      BY <1>5, <2>1, <2>2 DEF RequestInv
  <1>10. ASSUME NEW r \in Requests, Founds(r)
         PROVE  Good(r)
    <2>1. Begun(r) /\ at'[r] = "done"
      BY <1>10 DEF Founds, Moves, Begun
    <2> QED
      BY <1>5, <2>1 DEF StepsOf
  <1>11. ASSUME NEW r \in Requests, WritesOne(r)
         PROVE  Good(r)
    <2>1. /\ Begun(r) /\ at[r] # "done" /\ result'[r].founded = result[r].founded
          /\ \/ at'[r] = "done"
             \/ at[r] = "write" /\ at'[r] = "get"
             \/ at[r] = "upsert" /\ at'[r] = "reread"
             \/ at[r] = "settle" /\ at'[r] = "show"
      BY <1>11 DEF WritesOne, Writes, Moves, Begun, Failed, TypeOK, Result
    <2>2. at'[r] \in StepsOf(input[r].kind)
      BY <1>5, <2>1 DEF StepsOf, Kinds
    <2> QED
      BY <1>4, <1>5, <2>1, <2>2 DEF RequestInv, Agent, User
  <1> QED
    BY <1>2, <1>6, <1>7, <1>8, <1>9, <1>10, <1>11, Mover
-----------------------------------------------------------------------------
\* Whose request it is, and which agent it made.
LEMMA MakerKnown ==
    ASSUME TypeOK, RequestInv, MakerInv, NEW q \in Requests, result[q].made # None
    PROVE  /\ result[q].made \in Ids /\ Begun(q) /\ User(q) \in Users
           /\ owner[result[q].made] = User(q) /\ owner[result[q].made] # None
  <1>1. result[q].made \in Ids
    BY DEF TypeOK, Result
  <1>2. at[q] \in {"list", "done"} /\ owner[result[q].made] = User(q)
    BY DEF MakerInv
  <1>3. Begun(q) /\ input[q] \in Inputs /\ User(q) \in Users
    BY <1>2, BodyTypes DEF RequestInv, Begun, User
  <1> QED
    BY <1>1, <1>2, <1>3, AgentsAssumption

\* An agent that was given out keeps its maker, and only creating makes one.
LEMMA MakerStep ==
    ASSUME TypeOK, RequestInv, MakerInv, LagInv, Shape
    PROVE  /\ MakerInv'
           /\ \A q \in Requests, a \in Ids : owner[a] # None => (Made(q, a)' <=> Made(q, a))
           /\ \A q \in Requests, a \in Ids : Made(q, a)' /\ ~Made(q, a) =>
                 at[q] \in {"default", "insert"}
  <1>0. History
    BY HistoryStep
  <1>1. CASE \A q \in Requests : result'[q].made = result[q].made
                              /\ (result[q].made # None => at'[q] \in {"list", "done"})
    <2>1. \A q \in Requests : result'[q].made # None =>
              owner'[result'[q].made] = input'[q].user /\ owner[result[q].made] = User(q)
      <3> SUFFICES ASSUME NEW q \in Requests, result'[q].made # None
                   PROVE  owner'[result'[q].made] = input'[q].user /\ owner[result[q].made] = User(q)
        OBVIOUS
      <3> QED
        BY <1>0, <1>1, MakerKnown DEF History, User
    <2>2. MakerInv'
      BY <1>1, <2>1 DEF MakerInv, User
    <2> QED
      BY <1>1, <2>2 DEF Made
  <1>2. ASSUME NEW r \in Requests, Creates(r)
        PROVE  /\ MakerInv'
               /\ \A q \in Requests, a \in Ids : owner[a] # None => (Made(q, a)' <=> Made(q, a))
               /\ \A q \in Requests, a \in Ids : Made(q, a)' /\ ~Made(q, a) => q = r
    <2>1. at[r] \in {"default", "insert"} /\ result[r].made = None
      BY <1>2 DEF Creates, MakerInv
    <2>2. PICK a \in Ids :
            /\ owner[a] = None
            /\ \/ owner' = [owner EXCEPT ![a] = User(r)] /\ result'[r].made = a
               \/ owner' = owner /\ result'[r].made = None
      BY <1>2 DEF Creates
    <2>3. at'[r] \in {"list", "done"} /\ input'[r] = input[r]
      BY <1>2 DEF Creates, Moves
    <2>4. \A q \in Requests \ {r} : Kept(q)
      BY <1>2 DEF Creates, Moves, OthersKept
    <2>5. \A q \in Requests \ {r} : result'[q].made # None =>
            /\ result'[q].made = result[q].made /\ result[q].made \in Ids
            /\ owner[result[q].made] = User(q) /\ owner[result[q].made] # None
            /\ at'[q] \in {"list", "done"} /\ input'[q] = input[q]
      <3> SUFFICES ASSUME NEW q \in Requests \ {r}, result'[q].made # None
                   PROVE  /\ result'[q].made = result[q].made /\ result[q].made \in Ids
                          /\ owner[result[q].made] = User(q) /\ owner[result[q].made] # None
                          /\ at'[q] \in {"list", "done"} /\ input'[q] = input[q]
        OBVIOUS
      <3>1. result'[q] = result[q] /\ at'[q] = at[q] /\ input'[q] = input[q]
        BY <2>4 DEF Kept
      <3> QED
        BY <3>1, MakerKnown DEF MakerInv
    <2>6. a # None
      BY AgentsAssumption
    <2>7. \A q \in Requests : result'[q].made # None =>
            at'[q] \in {"list", "done"} /\ owner'[result'[q].made] = input'[q].user
      BY <2>2, <2>3, <2>5, <2>6 DEF TypeOK, User
    <2>8. \A q, p \in Requests : result'[q].made # None /\ result'[p].made = result'[q].made => p = q
      <3> SUFFICES ASSUME NEW q \in Requests, NEW p \in Requests, result'[q].made # None,
                          result'[p].made = result'[q].made, p # q
                   PROVE  FALSE
        OBVIOUS
      <3>1. CASE q = r
        BY <2>2, <2>5, <3>1
      <3>2. CASE p = r
        BY <2>2, <2>5, <3>2
      <3>3. CASE q # r /\ p # r
        BY <2>5, <3>3 DEF MakerInv
      <3> QED
        BY <3>1, <3>2, <3>3
    <2>9. MakerInv'
      BY <2>7, <2>8 DEF MakerInv, User
    <2>10. \A q \in Requests : q # r => result'[q] = result[q]
      BY <2>4 DEF Kept
    <2> QED
      BY <2>1, <2>2, <2>6, <2>9, <2>10, AgentsAssumption DEF Made
  <1>3. ASSUME NEW r \in Requests, Begins(r) \/ Reads(r) \/ Founds(r) \/ WritesOne(r)
        PROVE  \A q \in Requests : result'[q].made = result[q].made
                              /\ (result[q].made # None => at'[q] \in {"list", "done"})
    <2>1. \A q \in Requests \ {r} : Kept(q)
      BY <1>3 DEF Begins, Reads, Founds, WritesOne, Writes, Moves, OthersKept
    <2>2. result'[r].made = result[r].made
      BY <1>3 DEF Begins, Reads, Founds, WritesOne, Writes, Moves, Failed, TypeOK, Result
    <2>3. result[r].made # None => at[r] = "list" /\ Reads(r)
      BY <1>3 DEF MakerInv, Begins, Reads, Founds, WritesOne, Writes
    <2>4. at[r] = "list" /\ Reads(r) => at'[r] = "done"
      BY DEF Reads
    <2> QED
      BY <2>1, <2>2, <2>3, <2>4 DEF Kept, MakerInv
  <1>4. ASSUME LogStep /\ owner' = owner /\ \A q \in Requests : Kept(q)
        PROVE  \A q \in Requests : result'[q].made = result[q].made
                              /\ (result[q].made # None => at'[q] \in {"list", "done"})
    BY <1>4 DEF Kept, MakerInv
  <1>5. CASE \E r \in Requests : Creates(r)
    BY <1>2, <1>5 DEF Creates
  <1> QED
    BY <1>1, <1>3, <1>4, <1>5 DEF Shape
-----------------------------------------------------------------------------
\* The requests about an agent that was given out, before and after a step.
LEMMA OfStep ==
    ASSUME TypeOK, RequestInv, History, NEW kind, NEW a \in Ids, owner[a] # None
    PROVE  /\ owner'[a] = owner[a]
           /\ \A q \in Of(kind, a) : q \in Requests /\ Begun(q) /\ q \in Of(kind, a)'
           /\ \A q \in Of(kind, a)' : q \in Requests /\ (q \in Of(kind, a) \/ Begins(q))
  <1>1. owner'[a] = owner[a]
    BY DEF History
  <1>2. \A q \in Requests : Begun(q) => at'[q] # "idle" /\ input'[q] = input[q]
    BY DEF History
  <1>3. \A q \in Requests : ~Begun(q) => Kept(q) \/ Begins(q)
    BY DEF History
  <1>4. \A q \in Of(kind, a) : q \in Requests /\ Begun(q) /\ q \in Of(kind, a)'
    BY <1>1, <1>2 DEF Of, Begun, Agent, User
  <1>5. \A q \in Of(kind, a)' : q \in Requests /\ (q \in Of(kind, a) \/ Begins(q))
    BY <1>1, <1>2, <1>3 DEF Of, Begun, Agent, User, Kept
  <1> QED
    BY <1>1, <1>4, <1>5

\* There are none about an agent that was not given out yet.
LEMMA OfNone ==
    ASSUME RequestInv, NEW kind, NEW a \in Ids, owner[a] = None
    PROVE  Of(kind, a) = {}
  BY AgentsAssumption DEF RequestInv, Of, Begun

\* And none about one that was given out just now.
LEMMA OfNoneStep ==
    ASSUME RequestInv, History, NEW kind, NEW a \in Ids, owner[a] = None
    PROVE  Of(kind, a)' = {}
  <1> SUFFICES ASSUME NEW q \in Requests, at'[q] # "idle", input'[q].agent = a
               PROVE  FALSE
    BY DEF Of, Agent
  <1>1. Begun(q) => input'[q] = input[q]
    BY DEF History
  <1>2. ~Begun(q) => Begins(q)
    BY DEF History, Kept, Begun
  <1> QED
    BY <1>1, <1>2, AgentsAssumption DEF RequestInv, Agent, Begins

\* What an agent was created with does not change.
LEMMA BornStep ==
    ASSUME TypeOK, RequestInv, MakerInv, LagInv, Shape, NEW a \in Ids, owner[a] # None
    PROVE  Born(a)' = Born(a)
  <1>1. /\ MakerInv' /\ owner'[a] = owner[a]
        /\ \A q \in Requests : Made(q, a)' <=> Made(q, a)
    BY MakerStep, HistoryStep DEF History
  <1>2. \A q \in Requests : Made(q, a) => input'[q] = input[q]
    BY HistoryStep, MakerKnown, AgentsAssumption DEF Made, History
  <1>3. CASE \E q \in Requests : Made(q, a)
    <2>1. PICK m \in Requests : Made(m, a)
      BY <1>3
    <2>2. \A q \in Requests : Made(q, a) => q = m
      BY <2>1, AgentsAssumption DEF Made, MakerInv
    <2>3. (CHOOSE r \in Requests : Made(r, a)) = m
      BY <2>1, <2>2
    <2>4. \A q \in Requests : Made(q, a)' => q = m
      BY <1>1, <2>2
    <2>5. Made(m, a)'
      BY <1>1, <2>1
    <2>6. (CHOOSE r \in Requests : Made(r, a)') = m
      BY <2>4, <2>5
    <2>7. input'[m] = input[m]
      BY <1>2, <2>1
    <2>8. Born(a) = IF input[m].kind = "create" THEN NewRow(owner[a], input[m].body)
                    ELSE NewRow(owner[a], DefaultBody)
      BY <2>1, <2>2, <2>3 DEF Born
    <2>9. Born(a)' = IF input'[m].kind = "create" THEN NewRow(owner'[a], input'[m].body)
                     ELSE NewRow(owner'[a], DefaultBody)
      BY <2>4, <2>5, <2>6 DEF Born
    <2> QED
      BY <1>1, <2>7, <2>8, <2>9
  <1>4. CASE ~ \E q \in Requests : Made(q, a)
    BY <1>1, <1>4 DEF Born
  <1> QED
    BY <1>3, <1>4
-----------------------------------------------------------------------------
\* What becomes of an agent's row in a step: it is created, stays, is patched
\* by an update, or is removed by a deletion.
LEMMA RowChange ==
    ASSUME TypeOK, RequestInv, Shape, NEW a \in Ids
    PROVE  \/ Master'.agents[a] = Master.agents[a]
           \/ \E r \in Requests :
                 /\ Creates(r) /\ owner[a] = None /\ owner'[a] = User(r) /\ result'[r].made = a
                 /\ Master'.agents[a] = NewRow(User(r), BodyOf(r))
           \/ \E q \in Requests :
                 /\ at[q] = "write" /\ Agent(q) = a /\ a \in OfUser(Master, User(q))
                 /\ Master' = UpdatedBy(q)
                 /\ Master'.agents[a] = Patched(Master.agents[a], Filtered(input[q].body))
           \/ \E q \in Requests :
                 /\ at[q] = "remove" /\ Agent(q) = a /\ a \in OfUser(Master, User(q))
                 /\ Master'.agents[a] = None
  <1>1. Master \in Database /\ DOMAIN Master.agents = Ids
    BY MasterType DEF Database
  <1>2. CASE LogStep /\ Master' = Master /\ owner' = owner /\ \A q \in Requests : Kept(q)
    BY <1>2
  <1>3. ASSUME NEW r \in Requests, Begins(r) \/ Reads(r)
        PROVE  Master' = Master
    BY <1>3 DEF Begins, Reads, Same, Master
  <1>4. ASSUME NEW r \in Requests, Founds(r)
        PROVE  Master'.agents = Master.agents
    BY <1>1, <1>4 DEF Founds, Database
  <1>5. ASSUME NEW r \in Requests, Creates(r), Master'.agents[a] # Master.agents[a]
        PROVE  /\ owner[a] = None /\ owner'[a] = User(r) /\ result'[r].made = a
               /\ Master'.agents[a] = NewRow(User(r), BodyOf(r))
    <2>1. PICK b \in Ids :
            /\ owner[b] = None
            /\ \/ /\ Master' = [Master EXCEPT !.agents[b] = NewRow(User(r), BodyOf(r))]
                  /\ owner' = [owner EXCEPT ![b] = User(r)] /\ result'[r].made = b
               \/ Master' = Master
      BY <1>5 DEF Creates
    <2>2. Master' = [Master EXCEPT !.agents[b] = NewRow(User(r), BodyOf(r))] /\ Master' # Master
      BY <1>5, <2>1
    <2>3. b = a
      BY <1>1, <1>5, <2>2 DEF Database
    <2> QED
      BY <1>1, <2>1, <2>2, <2>3 DEF Database, TypeOK
  <1>6. ASSUME NEW r \in Requests, WritesOne(r), Master'.agents[a] # Master.agents[a]
        PROVE  \/ /\ at[r] = "write" /\ Agent(r) = a /\ a \in OfUser(Master, User(r))
                  /\ Master' = UpdatedBy(r)
                  /\ Master'.agents[a] = Patched(Master.agents[a], Filtered(input[r].body))
               \/ /\ at[r] = "remove" /\ Agent(r) = a /\ a \in OfUser(Master, User(r))
                  /\ Master'.agents[a] = None
    <2>1. \/ at[r] = "write" /\ Master' = UpdatedBy(r)
          \/ at[r] = "remove" /\ Master' = DeletedBy(r)
          \/ Master' = SavedBy(r)
          \/ Master' = SettledBy(r)
      BY <1>6 DEF WritesOne, Writes
    <2>2. Master' # SavedBy(r) /\ Master' # SettledBy(r)
      BY <1>1, <1>6 DEF SavedBy, SettledBy, Database
    <2>3. CASE at[r] = "write" /\ Master' = UpdatedBy(r)
      <3>1. Agent(r) \in OfUser(Master, User(r))
        BY <1>6, <2>3 DEF UpdatedBy
      <3>2. Agent(r) = a
        BY <1>1, <1>6, <2>3, <3>1 DEF UpdatedBy, Database
      <3> QED
        BY <1>1, <2>3, <3>1, <3>2 DEF UpdatedBy, Database
    <2>4. CASE at[r] = "remove" /\ Master' = DeletedBy(r)
      <3>1. Agent(r) \in OfUser(Master, User(r))
        BY <1>6, <2>4 DEF DeletedBy
      <3>2. Agent(r) = a
        BY <1>1, <1>6, <2>4, <3>1 DEF DeletedBy, Database
      <3> QED
        BY <1>1, <2>4, <3>1, <3>2 DEF DeletedBy, Database
    <2> QED
      BY <2>1, <2>2, <2>3, <2>4
  <1>7. CASE \E r \in Requests : Creates(r)
    <2>1. PICK r \in Requests : Creates(r)
      BY <1>7
    <2> QED
      BY <1>5, <2>1
  <1>8. CASE \E r \in Requests : WritesOne(r)
    <2>1. PICK r \in Requests : WritesOne(r)
      BY <1>8
    <2> QED
      BY <1>6, <2>1
  <1> QED
    BY <1>2, <1>3, <1>4, <1>7, <1>8 DEF Shape

\* When a request learns that its change was made, it was made in this step.
LEMMA ToldStep ==
    ASSUME TypeOK, RequestInv, Shape, NEW q \in Requests, Told(q)', ~Told(q),
           input'[q].kind \in {"update", "settings", "save", "delete"}
    PROVE  \/ /\ Begins(q) /\ input'[q].kind = "update" /\ DOMAIN Filtered(input'[q].body) = {}
           \/ /\ Begun(q) /\ at[q] # "done" /\ input'[q] = input[q]
              /\ \/ input[q].kind = "update" /\ at[q] = "write" /\ Master' = UpdatedBy(q)
                 \/ /\ input[q].kind = "delete" /\ at[q] = "remove" /\ Master' = DeletedBy(q)
                    /\ Agent(q) \in OfUser(Master, User(q))
                 \/ input[q].kind = "save" /\ at[q] = "upsert" /\ Master' = SavedBy(q)
                 \/ /\ input[q].kind = "settings" /\ at[q] = "settle" /\ Master' = SettledBy(q)
                 \/ /\ input[q].kind = "settings" /\ at[q] = "found" /\ result'[q].founded
                    /\ Master.bases[Agent(q)] = "none"
                    /\ Master' = [Master EXCEPT !.bases[Agent(q)] = "on"]
  <1>1. ~Kept(q)
    BY DEF Told, Answered, Kept
  <1>2. Begins(q) \/ Reads(q) \/ Creates(q) \/ Founds(q) \/ WritesOne(q)
    BY <1>1, Mover
  <1>4. Begun(q) => input[q] \in Inputs /\ at[q] \in StepsOf(input[q].kind) /\ input[q].kind \in Kinds
    BY BodyTypes DEF RequestInv
  <1>5. CASE Begins(q)
    <2>1. at'[q] = "get" /\ input'[q] \in Inputs /\ at'[q] = FirstStep(input'[q])
      BY <1>5, BodyTypes DEF Begins, Told, Answered, FirstStep, Kinds
    <2> QED
      BY <1>5, <2>1 DEF FirstStep
  <1>6. CASE Reads(q)
    <2>1. Begun(q) /\ input'[q] = input[q]
      BY <1>6 DEF Reads, Moves, Begun
    <2>2. at[q] \notin {"list", "ensure"}
      BY <1>4, <2>1 DEF StepsOf, Kinds
    <2> QED
      BY <1>6, <2>1, <2>2 DEF Reads, Told, Answered
  <1>7. CASE Creates(q)
    <2>1. Begun(q) /\ input'[q] = input[q] /\ at[q] \in {"default", "insert"}
      BY <1>7 DEF Creates, Moves, Begun
    <2> QED
      BY <1>4, <2>1 DEF StepsOf, Kinds
  <1>8. CASE Founds(q)
    <2>1. Begun(q) /\ input'[q] = input[q] /\ at[q] = "found" /\ result'[q].good
      BY <1>8 DEF Founds, Moves, Begun, Told, Answered
    <2> QED
      BY <1>4, <1>8, <2>1 DEF Founds, StepsOf, Kinds
  <1>9. CASE WritesOne(q)
    <2>1. Begun(q) /\ input'[q] = input[q]
      BY <1>9 DEF WritesOne, Writes, Moves, Begun
    <2>2. ~(at'[q] = "done" /\ result'[q] = Failed(q))
      BY DEF Told, Answered, Failed, TypeOK, Result
    <2>3. \/ at[q] = "write" /\ Master' = UpdatedBy(q)
          \/ at[q] = "remove" /\ Master' = DeletedBy(q) /\ Agent(q) \in OfUser(Master, User(q))
          \/ at[q] = "upsert" /\ Master' = SavedBy(q)
          \/ at[q] = "settle" /\ Master' = SettledBy(q)
      BY <1>9, <2>2 DEF WritesOne, Writes, Moves
    <2> QED
      BY <1>4, <2>1, <2>3 DEF StepsOf, Kinds
  <1> QED
    BY <1>2, <1>5, <1>6, <1>7, <1>8, <1>9

\* A request that is not over comes before no other.
LEMMA NotBefore ==
    ASSUME TypeOK, RequestInv, History, NEW q \in Requests, at[q] # "done"
    PROVE  \A v \in Requests : q \notin before'[v]
  <1> SUFFICES ASSUME NEW v \in Requests
               PROVE  q \notin before'[v]
    OBVIOUS
  <1>1. q \notin before[v]
    BY DEF RequestInv
  <1>2. CASE Begun(v)
    BY <1>1, <1>2 DEF History
  <1>3. CASE ~Begun(v)
    BY <1>1, <1>3 DEF History, Begins, Kept
  <1> QED
    BY <1>2, <1>3
-----------------------------------------------------------------------------

\* The updates of a column after a step are those before it, but for one
\* that begins; it has not been told anything.
LEMMA UpdatesStep ==
    ASSUME TypeOK, RequestInv, Shape, History, NEW a \in Ids, owner[a] # None, NEW c \in Allowed
    PROVE  /\ \A q \in UpdatesOf(a, c) :
                 /\ q \in Requests /\ Begun(q) /\ q \in UpdatesOf(a, c)'
                 /\ input'[q] = input[q] /\ before'[q] = before[q]
                 /\ input[q].kind = "update" /\ Agent(q) = a /\ User(q) = owner[a]
                 /\ c \in DOMAIN input[q].body
           /\ \A q \in UpdatesOf(a, c)' : Told(q)' =>
                 /\ q \in UpdatesOf(a, c)
                 /\ Told(q) \/ (at[q] = "write" /\ Master' = UpdatedBy(q))
  <1>1. \A q \in UpdatesOf(a, c) :
           /\ q \in Requests /\ Begun(q) /\ q \in UpdatesOf(a, c)'
           /\ input'[q] = input[q] /\ before'[q] = before[q]
           /\ input[q].kind = "update" /\ Agent(q) = a /\ User(q) = owner[a]
           /\ c \in DOMAIN input[q].body
    <2> SUFFICES ASSUME NEW q \in UpdatesOf(a, c)
                 PROVE  /\ q \in Requests /\ Begun(q) /\ q \in UpdatesOf(a, c)'
                        /\ input'[q] = input[q] /\ before'[q] = before[q]
                        /\ input[q].kind = "update" /\ Agent(q) = a /\ User(q) = owner[a]
                        /\ c \in DOMAIN input[q].body
      OBVIOUS
    <2>1. q \in Of("update", a) /\ c \in DOMAIN input[q].body
      BY DEF UpdatesOf
    <2>2. q \in Requests /\ Begun(q) /\ q \in Of("update", a)'
      BY <2>1, OfStep
    <2>3. input'[q] = input[q] /\ before'[q] = before[q]
      BY <2>2 DEF History
    <2> QED
      BY <2>1, <2>2, <2>3 DEF UpdatesOf, Of
  <1>2. ASSUME NEW q \in UpdatesOf(a, c)', Told(q)'
        PROVE  /\ q \in UpdatesOf(a, c)
               /\ Told(q) \/ (at[q] = "write" /\ Master' = UpdatedBy(q))
    <2>1. q \in Of("update", a)' /\ c \in DOMAIN input'[q].body
      BY <1>2 DEF UpdatesOf
    <2>2. q \in Requests /\ (q \in Of("update", a) \/ Begins(q)) /\ input'[q].kind = "update"
      BY <2>1, OfStep DEF Of
    <2>3. c \in DOMAIN Filtered(input'[q].body)
      BY <2>1 DEF Filtered, Restrict
    <2>4. ~Begins(q)
      BY <1>2, <2>2, <2>3 DEF Begins, FirstStep, Told, Answered
    <2>5. input'[q] = input[q]
      BY <2>2, <2>4 DEF Of, Begun, History
    <2>6. q \in UpdatesOf(a, c)
      BY <2>1, <2>2, <2>4, <2>5 DEF UpdatesOf
    <2>7. ~Told(q) => at[q] = "write" /\ Master' = UpdatedBy(q)
      BY <1>2, <2>2, <2>4, <2>5, ToldStep
    <2> QED
      BY <2>6, <2>7
  <1> QED
    BY <1>1, <1>2

\* What RowInv says of a column of an agent's row.
ColumnRight(a, c) ==
    \/ \E w \in Latest(UpdatesOf(a, c)) : Master.agents[a][c] = input[w].body[c]
    \/ /\ \A w \in UpdatesOf(a, c) : ~Told(w)
       /\ Master.agents[a][c] = Born(a)[c]

\* A new agent has the columns that it was created with.
LEMMA NewColumns ==
    ASSUME TypeOK, RequestInv, MakerInv, MakerInv', RequestInv', History, NEW a \in Ids,
           NEW r \in Requests, Creates(r), owner[a] = None, owner'[a] = User(r),
           result'[r].made = a, Master'.agents[a] = NewRow(User(r), BodyOf(r)), NEW c \in Allowed
    PROVE  ColumnRight(a, c)'
  <1>1. input[r] \in Inputs /\ User(r) \in Users /\ User(r) # None /\ a # None
    BY BodyTypes, AgentsAssumption DEF Creates, RequestInv, Begun, User
  <1>2. input'[r] = input[r] /\ (input[r].kind = "create" <=> at[r] = "insert")
    BY BodyTypes DEF Creates, Moves, RequestInv, Begun, StepsOf, Kinds
  <1>3. Of("update", a)' = {}
    BY OfNoneStep
  <1>4. UpdatesOf(a, c)' = {}
    BY <1>3 DEF UpdatesOf
  <1>5. \A q \in Requests : Made(q, a)' => q = r
    BY <1>1 DEF Made, MakerInv
  <1>6. Made(r, a)' /\ (CHOOSE q \in Requests : Made(q, a)') = r
    BY <1>5 DEF Made
  <1>7. Born(a)' = IF input'[r].kind = "create" THEN NewRow(owner'[a], input'[r].body)
                   ELSE NewRow(owner'[a], DefaultBody)
    BY <1>5, <1>6 DEF Born
  <1>8. Born(a)' = NewRow(User(r), BodyOf(r))
    BY <1>2, <1>7 DEF BodyOf, Creates
  <1> QED
    BY <1>4, <1>8 DEF ColumnRight

\* The columns of an agent that there was: an update changes those it names,
\* and only those.
LEMMA OldColumns ==
    ASSUME TypeOK, RequestInv, MakerInv, LagInv, VersionInv, RowInv, Shape, History,
           NEW a \in Ids, owner[a] # None, Master'.agents[a] # None, NEW c \in Allowed
    PROVE  Master.agents[a] # None /\ ColumnRight(a, c)'
  <1> DEFINE Patches(q) == /\ at[q] = "write" /\ Agent(q) = a /\ a \in OfUser(Master, User(q))
                           /\ Master' = UpdatedBy(q)
                           /\ Master'.agents[a] = Patched(Master.agents[a], Filtered(input[q].body))
  <1>0. Master.agents \in [Ids -> Row \cup {None}]
    BY MasterType DEF Database
  <1>1. Master'.agents[a] = Master.agents[a] \/ \E q \in Requests : Patches(q)
    BY RowChange
  <1>2. Master.agents[a] # None /\ Master.agents[a] \in Row
    BY <1>0, <1>1 DEF OfUser
  <1>3. Master.agents[a].user = owner[a]
    BY <1>2, MasterType DEF VersionInv, Master
  <1>4. \A q \in Requests : Patches(q) =>
          Master'.agents[a][c] = IF c \in DOMAIN input[q].body THEN input[q].body[c]
                                 ELSE Master.agents[a][c]
    <2> SUFFICES ASSUME NEW q \in Requests, Patches(q)
                 PROVE  Master'.agents[a][c] = IF c \in DOMAIN input[q].body THEN input[q].body[c]
                                               ELSE Master.agents[a][c]
      OBVIOUS
    <2>1. input[q] \in Inputs
      BY DEF RequestInv, Begun
    <2> QED
      BY <1>2, <2>1, PatchedRow
  <1>5. \A q \in UpdatesOf(a, c) : at[q] = "write" /\ Master' = UpdatedBy(q) => Patches(q)
    <2> SUFFICES ASSUME NEW q \in UpdatesOf(a, c), at[q] = "write", Master' = UpdatedBy(q)
                 PROVE  Patches(q)
      OBVIOUS
    <2>1. Agent(q) = a /\ a \in OfUser(Master, User(q))
      BY <1>2, <1>3, UpdatesStep DEF OfUser
    <2> QED
      BY <1>0, <2>1, MasterType DEF UpdatedBy, Database
  <1>6. \A q \in Requests : Patches(q) /\ c \in DOMAIN input[q].body => q \in UpdatesOf(a, c)
    <2> SUFFICES ASSUME NEW q \in Requests, Patches(q), c \in DOMAIN input[q].body
                 PROVE  q \in UpdatesOf(a, c)
      OBVIOUS
    <2>1. input[q].kind = "update" /\ User(q) = owner[a]
      BY <1>3, BodyTypes DEF RequestInv, Begun, StepsOf, Kinds, OfUser
    <2> QED
      BY <2>1 DEF UpdatesOf, Of
  <1>7. CASE \E q \in UpdatesOf(a, c) : Patches(q)
    <2>1. PICK q \in UpdatesOf(a, c) : Patches(q)
      BY <1>7
    <2>2. q \in Requests /\ q \in UpdatesOf(a, c)' /\ input'[q] = input[q]
          /\ c \in DOMAIN input[q].body
      BY UpdatesStep
    <2>3. \A v \in Requests : q \notin before'[v]
      BY <2>1, <2>2, NotBefore
    <2>4. q \in Latest(UpdatesOf(a, c))'
      BY <2>2, <2>3 DEF Latest, UpdatesOf, Of
    <2>5. Master'.agents[a][c] = input'[q].body[c]
      BY <1>4, <2>1, <2>2
    <2> QED
      BY <1>2, <2>4, <2>5 DEF ColumnRight
  <1>8. CASE ~ \E q \in UpdatesOf(a, c) : Patches(q)
    <2>1. Master'.agents[a][c] = Master.agents[a][c]
      BY <1>1, <1>4, <1>6, <1>8
    <2>2. \A v \in UpdatesOf(a, c)' : Told(v)' => v \in UpdatesOf(a, c) /\ Told(v)
      BY <1>5, <1>8, UpdatesStep
    <2>3. CASE \E w \in Latest(UpdatesOf(a, c)) : Master.agents[a][c] = input[w].body[c]
      <3>1. PICK w \in Latest(UpdatesOf(a, c)) : Master.agents[a][c] = input[w].body[c]
        BY <2>3
      <3>2. w \in UpdatesOf(a, c) /\ w \in UpdatesOf(a, c)' /\ input'[w] = input[w]
        BY UpdatesStep DEF Latest
      <3>3. \A v \in UpdatesOf(a, c)' : Told(v)' => w \notin before'[v]
        BY <2>2, UpdatesStep DEF Latest
      <3>4. w \in Latest(UpdatesOf(a, c))'
        BY <3>2, <3>3 DEF Latest
      <3> QED
        BY <1>2, <2>1, <3>1, <3>2, <3>4 DEF ColumnRight
    <2>4. CASE (\A w \in UpdatesOf(a, c) : ~Told(w)) /\ Master.agents[a][c] = Born(a)[c]
      <3>1. Born(a)' = Born(a)
        BY BornStep
      <3>2. \A w \in UpdatesOf(a, c)' : ~Told(w)'
        BY <2>2, <2>4
      <3> QED
        BY <1>2, <2>1, <2>4, <3>1, <3>2 DEF ColumnRight
    <2> QED
      BY <1>2, <2>3, <2>4 DEF RowInv
  <1> QED
    BY <1>2, <1>7, <1>8

\* Every step keeps RowInv.
LEMMA RowStep ==
    ASSUME TypeOK, RequestInv, MakerInv, LagInv, VersionInv, RowInv, RequestInv', Shape
    PROVE  RowInv'
  <1> SUFFICES ASSUME NEW a \in Ids, Master'.agents[a] # None, NEW c \in Allowed
               PROVE  ColumnRight(a, c)'
    BY DEF RowInv, ColumnRight
  <1>1. History /\ MakerInv'
    BY HistoryStep, MakerStep
  <1>2. CASE owner[a] # None
    BY <1>1, <1>2, OldColumns
  <1>3. CASE owner[a] = None
    <2>1. Master.agents[a] = None
      BY <1>3, MasterType DEF VersionInv, Master
    <2>2. PICK r \in Requests :
             /\ Creates(r) /\ owner[a] = None /\ owner'[a] = User(r) /\ result'[r].made = a
             /\ Master'.agents[a] = NewRow(User(r), BodyOf(r))
      BY <2>1, RowChange DEF OfUser
    <2> QED
      BY <1>1, <2>2, NewColumns
  <1> QED
    BY <1>2, <1>3
-----------------------------------------------------------------------------
\* An id is given out with a row.
LEMMA OwnerStep ==
    ASSUME TypeOK, RequestInv, Shape, NEW a \in Ids, owner'[a] # owner[a]
    PROVE  Master'.agents[a] # None
  <1>1. PICK r \in Requests : Creates(r)
    BY DEF Shape, Begins, Reads, Same, Founds, WritesOne, Writes
  <1>2. input[r] \in Inputs /\ User(r) \in Users
    BY <1>1, BodyTypes DEF Creates, RequestInv, Begun, User
  <1>3. PICK b \in Ids :
          /\ owner[b] = None
          /\ Master' = [Master EXCEPT !.agents[b] = NewRow(User(r), BodyOf(r))]
          /\ owner' = [owner EXCEPT ![b] = User(r)]
    BY <1>1 DEF Creates
  <1>4. b = a
    BY <1>3 DEF TypeOK
  <1>5. BodyOf(r)["model"] \in Models \cup {None} /\ BodyOf(r)["iter"] \in Int
    BY <1>1, <1>2, BodyTypes
       DEF Creates, BodyOf, DefaultBody, RequestInv, Begun, StepsOf, Kinds
  <1>6. NewRow(User(r), BodyOf(r)) # None
    BY <1>2, <1>5, NewRowType
  <1> QED
    BY <1>3, <1>4, <1>6, MasterType DEF Database

\* An agent that goes in a step is being deleted.
LEMMA Remover ==
    ASSUME TypeOK, RequestInv, VersionInv, Shape, NEW a \in Ids,
           Master.agents[a] # None, Master'.agents[a] = None
    PROVE  \E q \in Of("delete", a) : at[q] = "remove"
  <1>1. Master.agents[a] \in Row /\ Master.agents[a].user = owner[a] /\ owner[a] # None
    BY MasterType DEF VersionInv, Master, Database
  <1>2. PICK q \in Requests : \/ /\ at[q] = "write"
                                 /\ Master'.agents[a] =
                                       Patched(Master.agents[a], Filtered(input[q].body))
                              \/ /\ at[q] = "remove" /\ Agent(q) = a
                                 /\ a \in OfUser(Master, User(q))
    BY <1>1, RowChange
  <1>3. input[q] \in Inputs
    BY <1>2 DEF RequestInv, Begun
  <1>4. at[q] = "remove" /\ Agent(q) = a /\ User(q) = owner[a]
    BY <1>1, <1>2, <1>3, PatchedRow DEF OfUser
  <1>5. q \in Of("delete", a)
    BY <1>3, <1>4, BodyTypes DEF RequestInv, Begun, StepsOf, Kinds, Of
  <1> QED
    BY <1>4, <1>5

\* Every step keeps DeletionsKept.
LEMMA DeletionsStep ==
    ASSUME TypeOK, RequestInv, VersionInv, LagInv, DeletionsKept, RequestInv', Shape
    PROVE  DeletionsKept'
  <1> SUFFICES ASSUME NEW a \in Ids
               PROVE  /\ \A r \in Of("delete", a)' : Answered(r)' => Master'.agents[a] = None
                      /\ owner'[a] # None /\ Master'.agents[a] = None => Of("delete", a)' # {}
    BY DEF DeletionsKept
  <1>1. History
    BY HistoryStep
  <1>2. CASE owner[a] = None
    BY <1>1, <1>2, OfNoneStep, OwnerStep
  <1>3. CASE owner[a] # None
    <2>1. Master.agents[a] = None => Master'.agents[a] = None
      BY <1>3, RowChange DEF OfUser
    <2>2. ASSUME NEW r \in Of("delete", a)', Answered(r)'
          PROVE  Master'.agents[a] = None
      <3>1. r \in Requests /\ input'[r].kind = "delete" /\ (r \in Of("delete", a) \/ Begins(r))
        BY <1>1, <1>3, OfStep DEF Of
      <3>2. ~Begins(r)
        BY <2>2, <3>1 DEF Begins, FirstStep, Answered
      <3>3. Begun(r) /\ input'[r] = input[r] /\ Agent(r) = a /\ input[r].kind = "delete"
        BY <1>1, <3>1, <3>2 DEF Of, Begun, History
      <3>4. CASE Answered(r)
        BY <2>1, <3>1, <3>2, <3>4 DEF DeletionsKept
      <3>5. CASE ~Answered(r)
        <4>1. Told(r)' /\ ~Told(r)
          BY <2>2, <3>1, <3>3, <3>5 DEF Told, RequestInv, StepsOf
        <4>2. Master' = DeletedBy(r) /\ Agent(r) \in OfUser(Master, User(r))
          BY <3>1, <3>2, <3>3, <4>1, ToldStep
        <4> QED
          BY <3>3, <4>2, MasterType DEF DeletedBy, Database
      <3> QED
        BY <3>4, <3>5
    <2>3. ASSUME Master'.agents[a] = None
          PROVE  Of("delete", a)' # {}
      <3>1. CASE Master.agents[a] = None
        BY <1>1, <1>3, <3>1, OfStep DEF DeletionsKept
      <3>2. CASE Master.agents[a] # None
        BY <1>1, <1>3, <2>3, <3>2, Remover, OfStep
      <3> QED
        BY <3>1, <3>2
    <2> QED
      BY <2>2, <2>3
  <1> QED
    BY <1>2, <1>3
-----------------------------------------------------------------------------
\* What becomes of a knowledge base in a step: it stays, is founded, or its
\* settings are written.
LEMMA BaseChange ==
    ASSUME TypeOK, RequestInv, Shape, NEW a \in Ids
    PROVE  \/ Master'.bases[a] = Master.bases[a]
           \/ \E r \in Requests :
                 /\ Founds(r) /\ Agent(r) = a /\ result'[r].founded
                 /\ Master.bases[a] = "none" /\ Master'.bases[a] = "on"
           \/ \E r \in Requests :
                 /\ at[r] = "settle" /\ Agent(r) = a /\ Master' = SettledBy(r)
                 /\ Master.bases[a] # "none" /\ Master'.bases[a] = Wanted(r)
  <1>1. Master \in Database /\ DOMAIN Master.bases = Ids
    BY MasterType DEF Database
  <1>2. CASE LogStep /\ Master' = Master /\ owner' = owner /\ \A q \in Requests : Kept(q)
    BY <1>2
  <1>3. ASSUME NEW r \in Requests, Begins(r) \/ Reads(r)
        PROVE  Master' = Master
    BY <1>3 DEF Begins, Reads, Same, Master
  <1>4. ASSUME NEW r \in Requests, Creates(r)
        PROVE  Master'.bases = Master.bases
    BY <1>1, <1>4 DEF Creates, Database
  <1>5. ASSUME NEW r \in Requests, Founds(r), Master'.bases[a] # Master.bases[a]
        PROVE  /\ Agent(r) = a /\ result'[r].founded
               /\ Master.bases[a] = "none" /\ Master'.bases[a] = "on"
    <2>1. /\ Master.bases[Agent(r)] = "none" /\ result'[r].founded
          /\ Master' = [Master EXCEPT !.bases[Agent(r)] = "on"]
      BY <1>5 DEF Founds
    <2>2. Agent(r) = a
      BY <1>1, <1>5, <2>1 DEF Database
    <2> QED
      BY <1>1, <2>1, <2>2 DEF Database
  <1>6. ASSUME NEW r \in Requests, WritesOne(r), Master'.bases[a] # Master.bases[a]
        PROVE  /\ at[r] = "settle" /\ Agent(r) = a /\ Master' = SettledBy(r)
               /\ Master.bases[a] # "none" /\ Master'.bases[a] = Wanted(r)
    <2>1. \/ Master' = UpdatedBy(r)
          \/ Master' = DeletedBy(r)
          \/ Master' = SavedBy(r)
          \/ at[r] = "settle" /\ Master' = SettledBy(r)
      BY <1>6 DEF WritesOne, Writes
    <2>2. UpdatedBy(r).bases = Master.bases /\ DeletedBy(r).bases = Master.bases
          /\ SavedBy(r).bases = Master.bases
      BY <1>1 DEF UpdatedBy, DeletedBy, SavedBy, Database
    <2>3. at[r] = "settle" /\ Master' = SettledBy(r)
      BY <1>6, <2>1, <2>2
    <2>4. Agent(r) = a
      BY <1>1, <1>6, <2>3 DEF SettledBy, Database
    <2> QED
      BY <1>1, <1>6, <2>3, <2>4 DEF SettledBy, Database
  <1>7. CASE \E r \in Requests : Founds(r)
    <2>1. PICK r \in Requests : Founds(r)
      BY <1>7
    <2> QED
      BY <1>5, <2>1
  <1>8. CASE \E r \in Requests : WritesOne(r)
    <2>1. PICK r \in Requests : WritesOne(r)
      BY <1>8
    <2> QED
      BY <1>6, <2>1
  <1> QED
    BY <1>2, <1>3, <1>4, <1>7, <1>8 DEF Shape

\* What a request may want of a base.
LEMMA WantedType ==
    ASSUME RequestInv, NEW r \in Requests, Begun(r), input[r].kind \in {"settings", "upload"}
    PROVE  Wanted(r) \in {"on", "off"}
  BY BodyTypes DEF Wanted, RequestInv, Begun

\* A base that is there stays there.
LEMMA BaseStays ==
    ASSUME TypeOK, RequestInv, Shape, NEW a \in Ids, Master.bases[a] # "none"
    PROVE  Master'.bases[a] # "none"
  <1>1. \A r \in Requests : at[r] = "settle" => Wanted(r) \in {"on", "off"}
    <2> SUFFICES ASSUME NEW r \in Requests, at[r] = "settle"
                 PROVE  Wanted(r) \in {"on", "off"}
      OBVIOUS
    <2>1. Begun(r) /\ input[r].kind \in {"settings", "upload"}
      BY BodyTypes DEF RequestInv, Begun, StepsOf, Kinds
    <2> QED
      BY <2>1, WantedType
  <1> QED
    BY <1>1, BaseChange

\* What becomes of a user's model.
LEMMA ModelChange ==
    ASSUME TypeOK, RequestInv, Shape, NEW u \in Users
    PROVE  \/ Master'.models[u] = Master.models[u]
           \/ \E r \in Requests :
                 /\ at[r] = "upsert" /\ User(r) = u /\ Master' = SavedBy(r)
                 /\ Master'.models[u] = input[r].body["model"]
  <1>1. Master \in Database /\ DOMAIN Master.models = Users
    BY MasterType DEF Database
  <1>2. CASE LogStep /\ Master' = Master /\ owner' = owner /\ \A q \in Requests : Kept(q)
    BY <1>2
  <1>3. ASSUME NEW r \in Requests, Begins(r) \/ Reads(r)
        PROVE  Master' = Master
    BY <1>3 DEF Begins, Reads, Same, Master
  <1>4. ASSUME NEW r \in Requests, Creates(r) \/ Founds(r)
        PROVE  Master'.models = Master.models
    BY <1>1, <1>4 DEF Creates, Founds, Database
  <1>5. ASSUME NEW r \in Requests, WritesOne(r), Master'.models[u] # Master.models[u]
        PROVE  /\ at[r] = "upsert" /\ User(r) = u /\ Master' = SavedBy(r)
               /\ Master'.models[u] = input[r].body["model"]
    <2>1. \/ Master' = UpdatedBy(r)
          \/ Master' = DeletedBy(r)
          \/ at[r] = "upsert" /\ Master' = SavedBy(r)
          \/ Master' = SettledBy(r)
      BY <1>5 DEF WritesOne, Writes
    <2>2. UpdatedBy(r).models = Master.models /\ DeletedBy(r).models = Master.models
          /\ SettledBy(r).models = Master.models
      BY <1>1 DEF UpdatedBy, DeletedBy, SettledBy, Database
    <2>3. at[r] = "upsert" /\ Master' = SavedBy(r)
      BY <1>5, <2>1, <2>2
    <2>4. User(r) = u
      BY <1>1, <1>5, <2>3 DEF SavedBy, Database
    <2> QED
      BY <1>1, <2>3, <2>4 DEF SavedBy, Database
  <1>6. CASE \E r \in Requests : WritesOne(r)
    <2>1. PICK r \in Requests : WritesOne(r)
      BY <1>6
    <2> QED
      BY <1>5, <2>1
  <1> QED
    BY <1>2, <1>3, <1>4, <1>6 DEF Shape
-----------------------------------------------------------------------------
\* A row that belongs to the agent's owner; its rounds are bounded but for
\* an update.
RowOwned(row, a) ==
    /\ owner[a] # None /\ row.user = owner[a]
    /\ row.iter > 10 => \E w \in UpdatesOf(a, "iter") : input[w].body["iter"] = row.iter

\* It still does after a step.
LEMMA OwnedStays ==
    ASSUME TypeOK, RequestInv, History, Shape, NEW a \in Ids, NEW row, RowOwned(row, a)
    PROVE  /\ owner'[a] # None /\ row.user = owner'[a]
           /\ row.iter > 10 => \E w \in UpdatesOf(a, "iter")' : input'[w].body["iter"] = row.iter
  <1>1. owner[a] # None /\ owner'[a] = owner[a] /\ row.user = owner[a]
    BY DEF RowOwned, History
  <1>2. "iter" \in Allowed
    BY DEF Allowed
  <1>3. ASSUME row.iter > 10
        PROVE  \E w \in UpdatesOf(a, "iter")' : input'[w].body["iter"] = row.iter
    <2>1. PICK w \in UpdatesOf(a, "iter") : input[w].body["iter"] = row.iter
      BY <1>3 DEF RowOwned
    <2>2. w \in UpdatesOf(a, "iter")' /\ input'[w] = input[w]
      BY <1>1, <1>2, UpdatesStep
    <2> QED
      BY <2>1, <2>2
  <1> QED
    BY <1>1, <1>3

\* A row of the master belongs to its owner after every step.
LEMMA MasterOwned ==
    ASSUME TypeOK, RequestInv, VersionInv, History, Shape, NEW a \in Ids,
           Master'.agents[a] # None
    PROVE  RowOwned(Master.agents[a], a)'
  <1>1. Master \in Database /\ Len(versions) \in 1..Len(versions)
    BY MasterType
  <1>2. Master.agents[a] # None => RowOwned(Master.agents[a], a) /\ Master.agents[a] \in Row
    BY <1>1 DEF VersionInv, RowOwned, Master, Database
  <1>3. CASE Master'.agents[a] = Master.agents[a]
    BY <1>2, <1>3, OwnedStays DEF RowOwned
  <1>4. ASSUME NEW r \in Requests, Creates(r), owner'[a] = User(r),
               Master'.agents[a] = NewRow(User(r), BodyOf(r))
        PROVE  RowOwned(Master.agents[a], a)'
    <2>1. input[r] \in Inputs /\ User(r) \in Users /\ User(r) # None
      BY <1>4, BodyTypes, AgentsAssumption DEF Creates, RequestInv, Begun, User
    <2>2. BodyOf(r)["model"] \in Models \cup {None} /\ BodyOf(r)["iter"] \in Int
      BY <1>4, <2>1, BodyTypes
         DEF Creates, BodyOf, DefaultBody, RequestInv, Begun, StepsOf, Kinds
    <2>3. /\ NewRow(User(r), BodyOf(r)).user = User(r) /\ NewRow(User(r), BodyOf(r)).iter <= 10
          /\ NewRow(User(r), BodyOf(r)).iter \in Int
      BY <2>1, <2>2, NewRowType DEF Row
    <2>4. Master'.agents[a].user = User(r) /\ ~(Master'.agents[a].iter > 10)
      BY <1>4, <2>3
    <2> QED
      BY <1>4, <2>1, <2>4 DEF RowOwned
  <1>5. ASSUME NEW q \in Requests, at[q] = "write", Agent(q) = a, a \in OfUser(Master, User(q)),
               Master'.agents[a] = Patched(Master.agents[a], Filtered(input[q].body))
        PROVE  RowOwned(Master.agents[a], a)'
    <2>1. /\ Begun(q) /\ input[q] \in Inputs /\ input[q].kind = "update"
          /\ Master.agents[a] # None /\ Master.agents[a].user = User(q)
      BY <1>5, BodyTypes DEF RequestInv, Begun, StepsOf, Kinds, OfUser
    <2>2. RowOwned(Master.agents[a], a) /\ Master.agents[a] \in Row /\ User(q) = owner[a]
      BY <1>2, <2>1 DEF RowOwned
    <2>3. /\ Master'.agents[a].user = Master.agents[a].user
          /\ Master'.agents[a].iter = IF "iter" \in DOMAIN input[q].body THEN input[q].body["iter"]
                                      ELSE Master.agents[a].iter
      BY <1>5, <2>1, <2>2, PatchedRow
    <2>4. CASE "iter" \in DOMAIN input[q].body
      <3>1. q \in UpdatesOf(a, "iter") /\ "iter" \in Allowed
        BY <1>5, <2>1, <2>2, <2>4 DEF UpdatesOf, Of, Begun, Allowed
      <3>2. q \in UpdatesOf(a, "iter")' /\ input'[q] = input[q]
        BY <2>2, <3>1, UpdatesStep DEF RowOwned
      <3> QED
        BY <2>2, <2>3, <2>4, <3>2, OwnedStays DEF RowOwned
    <2>5. CASE "iter" \notin DOMAIN input[q].body
      BY <2>2, <2>3, <2>5, OwnedStays DEF RowOwned
    <2> QED
      BY <2>4, <2>5
  <1> QED
    BY <1>3, <1>4, <1>5, RowChange

\* Every step keeps VersionInv.
LEMMA VersionStep ==
    ASSUME TypeOK, RequestInv, LagInv, VersionInv, TypeOK', Shape
    PROVE  VersionInv'
  <1>1. History /\ LogStep
    BY HistoryStep DEF History
  <1> SUFFICES ASSUME NEW i \in 1..Len(versions'), NEW a \in Ids
               PROVE  /\ versions'[i].agents[a] # None => RowOwned(versions[i].agents[a], a)'
                      /\ versions'[i].bases[a] # "none" => Master'.bases[a] # "none"
    BY DEF VersionInv, RowOwned
  <1>3. CASE versions'[i] = Master'
    BY <1>1, <1>3, MasterOwned DEF RowOwned
  <1>4. CASE \E j \in 1..Len(versions) : versions'[i] = versions[j]
    <2>1. PICK j \in 1..Len(versions) : versions'[i] = versions[j]
      BY <1>4
    <2>2. versions[j].agents[a] # None => RowOwned(versions[j].agents[a], a)
      BY DEF VersionInv, RowOwned
    <2>3. versions[j].bases[a] # "none" => Master.bases[a] # "none"
      BY DEF VersionInv
    <2>4. Master.bases[a] # "none" => Master'.bases[a] # "none"
      BY BaseStays
    <2> QED
      BY <1>1, <2>1, <2>2, <2>3, <2>4, OwnedStays DEF RowOwned
  <1> QED
    BY <1>1, <1>3, <1>4 DEF LogStep
-----------------------------------------------------------------------------
\* The savings of a user before and after a step.
LEMMA SavesStep ==
    ASSUME TypeOK, RequestInv, Shape, History, NEW u \in Users
    PROVE  /\ \A q \in SavesOf(u) :
                 /\ q \in Requests /\ Begun(q) /\ q \in SavesOf(u)'
                 /\ input'[q] = input[q] /\ before'[q] = before[q]
                 /\ input[q].kind = "save" /\ User(q) = u
           /\ \A q \in SavesOf(u)' : Told(q)' =>
                 /\ q \in SavesOf(u)
                 /\ Told(q) \/ (at[q] = "upsert" /\ Master' = SavedBy(q))
  <1>1. \A q \in SavesOf(u) :
                 /\ q \in Requests /\ Begun(q) /\ q \in SavesOf(u)'
                 /\ input'[q] = input[q] /\ before'[q] = before[q]
                 /\ input[q].kind = "save" /\ User(q) = u
    BY DEF SavesOf, History, Begun, User
  <1>2. ASSUME NEW q \in SavesOf(u)', Told(q)'
        PROVE  /\ q \in SavesOf(u)
               /\ Told(q) \/ (at[q] = "upsert" /\ Master' = SavedBy(q))
    <2>1. q \in Requests /\ at'[q] # "idle" /\ input'[q].kind = "save" /\ input'[q].user = u
      BY DEF SavesOf, Begun, User
    <2>2. ~Begins(q)
      BY <1>2, <2>1 DEF Begins, FirstStep, Told, Answered
    <2>3. Begun(q) /\ input'[q] = input[q]
      BY <2>1, <2>2 DEF History, Kept, Begun
    <2>4. q \in SavesOf(u)
      BY <2>1, <2>3 DEF SavesOf, User
    <2>5. ~Told(q) => at[q] = "upsert" /\ Master' = SavedBy(q)
      BY <1>2, <2>1, <2>2, <2>3, ToldStep
    <2> QED
      BY <2>4, <2>5
  <1> QED
    BY <1>1, <1>2

\* Every step keeps ModelInv.
LEMMA ModelStep ==
    ASSUME TypeOK, RequestInv, LagInv, ModelInv, Shape
    PROVE  ModelInv'
  <1> SUFFICES ASSUME NEW u \in Users
               PROVE  \/ \E w \in Latest(SavesOf(u))' : Master'.models[u] = input'[w].body["model"]
                      \/ Master'.models[u] = None /\ \A w \in SavesOf(u)' : ~Told(w)'
    BY DEF ModelInv
  <1> DEFINE Saves(q) == at[q] = "upsert" /\ User(q) = u /\ Master' = SavedBy(q)
  <1>1. History
    BY HistoryStep
  <1>2. \A q \in Requests : Saves(q) => Master'.models[u] = input[q].body["model"]
    BY MasterType DEF SavedBy, Database
  <1>3. \A q \in Requests : Saves(q) => q \in SavesOf(u)
    <2> SUFFICES ASSUME NEW q \in Requests, Saves(q)
                 PROVE  q \in SavesOf(u)
      OBVIOUS
    <2>1. input[q].kind = "save" /\ Begun(q)
      BY BodyTypes DEF RequestInv, Begun, StepsOf, Kinds
    <2> QED
      BY <2>1 DEF SavesOf
  <1>4. CASE \E q \in SavesOf(u) : Saves(q)
    <2>1. PICK q \in SavesOf(u) : Saves(q)
      BY <1>4
    <2>2. q \in Requests /\ q \in SavesOf(u)' /\ input'[q] = input[q]
      BY <1>1, SavesStep
    <2>3. \A v \in Requests : q \notin before'[v]
      BY <1>1, <2>1, <2>2, NotBefore
    <2>4. q \in Latest(SavesOf(u))'
      BY <2>2, <2>3 DEF Latest, SavesOf
    <2> QED
      BY <1>2, <2>1, <2>2, <2>4
  <1>5. CASE ~ \E q \in SavesOf(u) : Saves(q)
    <2>1. Master'.models[u] = Master.models[u]
      BY <1>3, <1>5, ModelChange
    <2>2. \A v \in SavesOf(u)' : Told(v)' => v \in SavesOf(u) /\ Told(v)
      BY <1>1, <1>5, SavesStep
    <2>3. CASE \E w \in Latest(SavesOf(u)) : Master.models[u] = input[w].body["model"]
      <3>1. PICK w \in Latest(SavesOf(u)) : Master.models[u] = input[w].body["model"]
        BY <2>3
      <3>2. w \in SavesOf(u) /\ w \in SavesOf(u)' /\ input'[w] = input[w]
        BY <1>1, SavesStep DEF Latest
      <3>3. \A v \in SavesOf(u)' : Told(v)' => w \notin before'[v]
        BY <1>1, <2>2, SavesStep DEF Latest
      <3>4. w \in Latest(SavesOf(u))'
        BY <3>2, <3>3 DEF Latest
      <3> QED
        BY <2>1, <3>1, <3>2, <3>4
    <2>4. CASE Master.models[u] = None /\ \A w \in SavesOf(u) : ~Told(w)
      BY <2>1, <2>2, <2>4
    <2> QED
      BY <2>3, <2>4 DEF ModelInv
  <1> QED
    BY <1>4, <1>5
-----------------------------------------------------------------------------
\* How a request comes to the steps at which a base is looked for or there.
LEMMA ComesTo ==
    ASSUME TypeOK, RequestInv, Shape, NEW r \in Requests, at'[r] \in {"find", "found", "settle"}
    PROVE  /\ Begun(r)
           /\ \/ at'[r] = at[r]
              \/ at[r] = "ensure" /\ at'[r] = "find" /\ Shown.bases[Agent(r)] = "none"
              \/ at[r] = "verify" /\ input[r].kind = "settings" /\ at'[r] = "find"
              \/ at[r] = "find" /\ at'[r] = "found"
              \/ at[r] = "find" /\ at'[r] = "settle" /\ Shown.bases[Agent(r)] # "none"
  <1>1. CASE Kept(r)
    BY <1>1 DEF Kept, Begun
  <1>2. CASE ~Kept(r)
    <2>1. Begins(r) \/ Reads(r) \/ Creates(r) \/ Founds(r) \/ WritesOne(r)
      BY <1>2, Mover
    <2>2. ~Begins(r)
      BY BodyTypes DEF Begins, FirstStep, Kinds
    <2>3. ~Creates(r) /\ ~Founds(r) /\ ~WritesOne(r)
      BY DEF Creates, Founds, WritesOne, Writes, Moves
    <2>4. Reads(r) /\ Begun(r)
      BY <2>1, <2>2, <2>3 DEF Reads, Begun
    <2>5. at[r] = "verify" => input[r].kind \in {"settings", "upload"}
      BY <2>4, BodyTypes DEF RequestInv, StepsOf, Kinds
    <2> QED
      BY <2>4, <2>5 DEF Reads
  <1> QED
    BY <1>1, <1>2

\* A base is marked as founded by a request that founds it.
LEMMA FoundedStep ==
    ASSUME TypeOK, TypeOK', RequestInv, Shape, NEW r \in Requests,
           result'[r].founded # result[r].founded
    PROVE  /\ at[r] = "found" /\ result'[r].founded
           /\ Master.bases[Agent(r)] = "none" /\ Master'.bases[Agent(r)] = "on"
  <1>1. ~Kept(r)
    BY DEF Kept
  <1>2. Begins(r) \/ Reads(r) \/ Creates(r) \/ Founds(r) \/ WritesOne(r)
    BY <1>1, Mover
  <1>3. Founds(r)
    BY <1>2 DEF Begins, Reads, Creates, WritesOne, Writes, Moves, Failed, TypeOK, Result
  <1>4. /\ at[r] = "found" /\ result'[r].founded /\ Master.bases[Agent(r)] = "none"
        /\ Master' = [Master EXCEPT !.bases[Agent(r)] = "on"]
    BY <1>3 DEF Founds, RequestInv, TypeOK, Result
  <1>5. Agent(r) \in Ids
    BY <1>4 DEF RequestInv
  <1> QED
    BY <1>4, <1>5, MasterType DEF Database

\* The settings of a base before and after a step.
LEMMA SettingsStep ==
    ASSUME TypeOK, RequestInv, Shape, History, NEW a \in Ids, owner[a] # None,
           NEW kind \in {"settings", "upload"}
    PROVE  /\ \A q \in Of(kind, a) :
                 /\ q \in Requests /\ Begun(q) /\ q \in Of(kind, a)'
                 /\ input'[q] = input[q] /\ before'[q] = before[q] /\ Agent(q) = a
                 /\ input[q].kind = kind /\ Wanted(q)' = Wanted(q)
           /\ \A q \in Of("settings", a)' : Told(q)' =>
                 /\ q \in Of("settings", a)
                 /\ \/ Told(q)
                    \/ at[q] = "settle" /\ Master' = SettledBy(q)
                    \/ /\ at[q] = "found" /\ result'[q].founded /\ Master.bases[a] = "none"
                       /\ Master'.bases[a] = "on"
  <1>1. ASSUME NEW q \in Of(kind, a)
        PROVE  /\ q \in Requests /\ Begun(q) /\ q \in Of(kind, a)'
               /\ input'[q] = input[q] /\ before'[q] = before[q] /\ Agent(q) = a
               /\ input[q].kind = kind /\ Wanted(q)' = Wanted(q)
    <2>1. q \in Requests /\ Begun(q) /\ q \in Of(kind, a)' /\ input[q].kind = kind /\ Agent(q) = a
      BY OfStep DEF Of
    <2>2. input'[q] = input[q] /\ before'[q] = before[q]
      BY <2>1 DEF History
    <2> QED
      BY <2>1, <2>2 DEF Wanted
  <1>2. ASSUME NEW q \in Of("settings", a)', Told(q)'
        PROVE  /\ q \in Of("settings", a)
               /\ \/ Told(q)
                  \/ at[q] = "settle" /\ Master' = SettledBy(q)
                  \/ /\ at[q] = "found" /\ result'[q].founded /\ Master.bases[a] = "none"
                     /\ Master'.bases[a] = "on"
    <2>1. q \in Requests /\ (q \in Of("settings", a) \/ Begins(q)) /\ input'[q].kind = "settings"
      BY OfStep DEF Of
    <2>2. ~Begins(q)
      BY <1>2, <2>1 DEF Begins, FirstStep, Told, Answered
    <2>3. Agent(q) = a
      BY <2>1, <2>2 DEF Of
    <2>4. \/ Told(q)
          \/ at[q] = "settle" /\ Master' = SettledBy(q)
          \/ /\ at[q] = "found" /\ result'[q].founded /\ Master.bases[Agent(q)] = "none"
             /\ Master' = [Master EXCEPT !.bases[Agent(q)] = "on"]
      BY <1>2, <2>1, <2>2, ToldStep
    <2> QED
      BY <2>1, <2>2, <2>3, <2>4, MasterType DEF Database
  <1> QED
    BY <1>1, <1>2
-----------------------------------------------------------------------------
\* What BaseInv says of one base.
BaseRight(a) ==
    \/ \E w \in Latest(Of("settings", a)) :
          Master.bases[a] = IF result[w].founded THEN "on" ELSE Wanted(w)
    \/ /\ Master.bases[a] = "on"
       /\ \E r \in Of("upload", a) : \A w \in Of("settings", a) :
             Told(w) => r \notin before[w] /\ (replicated \/ w \notin before[r])

\* A request for settings that has just made them is the latest.
LEMMA NewSettings ==
    ASSUME TypeOK, RequestInv, Shape, History, NEW a \in Ids, owner[a] # None,
           NEW q \in Of("settings", a), at[q] # "done",
           Master'.bases[a] = IF result'[q].founded THEN "on" ELSE Wanted(q)
    PROVE  BaseRight(a)'
  <1>1. q \in Requests /\ q \in Of("settings", a)' /\ Wanted(q)' = Wanted(q)
    BY SettingsStep
  <1>2. \A v \in Requests : q \notin before'[v]
    BY <1>1, NotBefore
  <1>3. q \in Latest(Of("settings", a))'
    BY <1>1, <1>2 DEF Latest, Of
  <1> QED
    BY <1>1, <1>3 DEF BaseRight

\* The settings of a base are those of the latest request.
LEMMA BaseValue ==
    ASSUME TypeOK, TypeOK', RequestInv, Shape, History, BaseInv,
           NEW a \in Ids, owner[a] # None, Master'.bases[a] # "none"
    PROVE  BaseRight(a)'
  <1> DEFINE Settings == Of("settings", a)
             Settles(q) == at[q] = "settle" /\ Master' = SettledBy(q)
  <1>0. replicated' = replicated
    BY DEF History, LogStep
  <1>1. \A q \in Requests : Settles(q) /\ Agent(q) = a /\ Master.bases[a] # "none" =>
          Master'.bases[a] = Wanted(q) /\ ~result'[q].founded
    <2> SUFFICES ASSUME NEW q \in Requests, Settles(q), Agent(q) = a, Master.bases[a] # "none"
                 PROVE  Master'.bases[a] = Wanted(q) /\ ~result'[q].founded
      OBVIOUS
    <2>1. ~result[q].founded
      BY DEF RequestInv
    <2> QED
      BY <2>1, FoundedStep, MasterType DEF SettledBy, Database, TypeOK, Result
  <1>2. CASE \E q \in Settings : Settles(q)
    <2>1. PICK q \in Settings : Settles(q)
      BY <1>2
    <2>2. q \in Requests /\ Agent(q) = a /\ Master.bases[a] # "none"
      BY <2>1 DEF BaseInv, Of
    <2> QED
      BY <1>1, <2>1, <2>2, NewSettings
  <1>3. CASE \E q \in Settings : /\ at[q] = "found" /\ result'[q].founded
                                 /\ Master'.bases[a] = "on"
    BY <1>3, NewSettings
  <1>4. CASE /\ ~ \E q \in Settings : Settles(q)
             /\ ~ \E q \in Settings : /\ at[q] = "found" /\ result'[q].founded
                                      /\ Master'.bases[a] = "on"
    <2>1. \A v \in Settings' : Told(v)' => v \in Settings /\ Told(v)
      BY <1>4, SettingsStep
    <2>2. \A v \in Settings : v \in Requests /\ before'[v] = before[v]
      BY SettingsStep
    <2>3. ASSUME NEW r \in Of("upload", a), Master'.bases[a] = "on",
                 \A w \in Settings : Told(w) =>
                    r \notin before'[w] /\ (replicated \/ w \notin before[r])
          PROVE  BaseRight(a)'
      <3>1. r \in Of("upload", a)' /\ before'[r] = before[r]
        BY SettingsStep
      <3>2. \A w \in Settings' : Told(w)' =>
               r \notin before'[w] /\ (replicated' \/ w \notin before'[r])
        BY <1>0, <2>1, <2>3, <3>1
      <3> QED
        BY <2>3, <3>1, <3>2 DEF BaseRight
    <2>4. CASE Master'.bases[a] = Master.bases[a]
      <3>1. CASE \E w \in Latest(Settings) :
                   Master.bases[a] = IF result[w].founded THEN "on" ELSE Wanted(w)
        <4>1. PICK w \in Latest(Settings) :
                   Master.bases[a] = IF result[w].founded THEN "on" ELSE Wanted(w)
          BY <3>1
        <4>2. w \in Settings
          BY DEF Latest
        <4>3. w \in Requests /\ w \in Settings' /\ Wanted(w)' = Wanted(w) /\ Agent(w) = a
          BY <4>2, SettingsStep
        <4>4. result'[w].founded = result[w].founded
          BY <2>4, <4>3, FoundedStep
        <4>5. \A v \in Settings' : Told(v)' => w \notin before'[v]
          BY <2>1, <2>2 DEF Latest
        <4>6. w \in Latest(Settings)'
          BY <4>3, <4>5 DEF Latest
        <4> QED
          BY <2>4, <4>1, <4>3, <4>4, <4>6 DEF BaseRight
      <3>2. CASE /\ Master.bases[a] = "on"
                 /\ \E r \in Of("upload", a) : \A w \in Settings :
                       Told(w) => r \notin before[w] /\ (replicated \/ w \notin before[r])
        BY <2>2, <2>3, <2>4, <3>2
      <3> QED
        BY <2>4, <3>1, <3>2 DEF BaseInv
    <2>5. ASSUME NEW r \in Requests, Founds(r), Agent(r) = a, result'[r].founded,
                 Master.bases[a] = "none", Master'.bases[a] = "on"
          PROVE  BaseRight(a)'
      <3>1. at[r] = "found" /\ Begun(r) /\ User(r) = owner[a]
            /\ input[r].kind \in {"settings", "upload"}
        BY <2>5, BodyTypes DEF Founds, RequestInv, Begun, StepsOf, Kinds
      <3>2. r \in Of("upload", a)
        BY <1>4, <2>5, <3>1 DEF Of, Begun
      <3>3. \A w \in Settings : ~Told(w)
        BY <2>5 DEF BaseInv
      <3> QED
        BY <2>3, <2>5, <3>2, <3>3
    <2>6. ASSUME NEW r \in Requests, Settles(r), Agent(r) = a,
                 Master.bases[a] # "none", Master'.bases[a] = Wanted(r)
          PROVE  BaseRight(a)'
      <3>1. Begun(r) /\ User(r) = owner[a] /\ input[r].kind \in {"settings", "upload"}
        BY <2>6, BodyTypes DEF RequestInv, Begun, StepsOf, Kinds
      <3>2. r \in Of("upload", a) /\ Wanted(r) = "on"
        BY <1>4, <2>6, <3>1 DEF Of, Begun, Wanted
      <3>3. \A w \in Settings : r \notin before'[w]
        BY <2>2, <2>6, NotBefore
      <3>4. \A w \in Settings : Told(w) => replicated \/ w \notin before[r]
        BY <2>6, <3>2, AgentsAssumption DEF BaseInv, TypeOK
      <3> QED
        BY <2>3, <2>6, <3>2, <3>3, <3>4
    <2> QED
      BY <2>4, <2>5, <2>6, BaseChange
  <1> QED
    BY <1>2, <1>3, <1>4

\* Every step keeps BaseInv.
LEMMA BaseStep ==
    ASSUME TypeOK, TypeOK', RequestInv, LagInv, VersionInv, BaseInv, Shape
    PROVE  BaseInv'
  <1>1. History
    BY HistoryStep
  <1>2. 1 \in 1..Len(versions) /\ Master \in Database /\ (~replicated => Shown = Master)
    BY MasterType DEF LagInv, Shown, Master
  <1>3. \A b \in Ids : Shown.bases[b] # "none" => Master.bases[b] # "none"
    BY <1>2 DEF VersionInv, Shown
  <1> SUFFICES ASSUME NEW a \in Ids
               PROVE  /\ Master'.bases[a] # "none" => BaseRight(a)'
                      /\ \A w \in Of("settings", a)' :
                            Told(w)' \/ at'[w] = "settle" => Master'.bases[a] # "none"
                      /\ \A r \in Of("upload", a)' :
                            ~replicated' /\ at'[r] \in {"find", "found", "settle"} =>
                               \A w \in Of("settings", a)' : Told(w)' => w \notin before'[r]
                      /\ \A r \in Of("upload", a)' :
                            at'[r] = "settle" => Master'.bases[a] # "none"
    BY DEF BaseInv, BaseRight
  <1>4. CASE owner[a] = None
    <2>1. Of("settings", a) = {} /\ Of("upload", a) = {}
          /\ Of("settings", a)' = {} /\ Of("upload", a)' = {}
      BY <1>1, <1>4, OfNone, OfNoneStep
    <2>2. Master.bases[a] = "none"
      BY <2>1 DEF BaseInv, Latest
    <2>3. \A r \in Requests : Founds(r) => Agent(r) # a
      <3> SUFFICES ASSUME NEW r \in Requests, Founds(r), Agent(r) = a
                   PROVE  FALSE
        OBVIOUS
      <3>1. Begun(r) /\ input[r] \in Inputs /\ User(r) = owner[a]
        BY DEF Founds, RequestInv, Begun
      <3> QED
        BY <1>4, <3>1, BodyTypes, AgentsAssumption DEF User
    <2>4. Master'.bases[a] = "none"
      BY <2>2, <2>3, BaseChange
    <2> QED
      BY <2>1, <2>4
  <1>5. CASE owner[a] # None
    <2>1. Master'.bases[a] # "none" => BaseRight(a)'
      BY <1>1, <1>5, BaseValue
    <2>2. Master.bases[a] # "none" => Master'.bases[a] # "none"
      BY BaseStays
    <2>3. \A kind \in {"settings", "upload"} : \A q \in Of(kind, a)' :
             Begun(q) => q \in Of(kind, a) /\ q \in Requests
      BY <1>1, <1>5, OfStep DEF Begins, Begun
    <2>4. ASSUME NEW kind \in {"settings", "upload"}, NEW q \in Of(kind, a)', at'[q] = "settle"
          PROVE  Master.bases[a] # "none"
      <3>1. q \in Requests
        BY DEF Of
      <3>2. q \in Of(kind, a) /\ Agent(q) = a
        BY <2>3, <2>4, <3>1, ComesTo DEF Of
      <3>3. at[q] = "settle" \/ Shown.bases[a] # "none"
        BY <2>4, <3>1, <3>2, ComesTo
      <3> QED
        BY <1>3, <3>2, <3>3 DEF BaseInv
    <2>5. ASSUME NEW w \in Of("settings", a)', Told(w)'
          PROVE  Master'.bases[a] # "none"
      BY <1>1, <1>5, <2>2, <2>5, SettingsStep DEF BaseInv
    <2>6. ASSUME NEW r \in Of("upload", a)', ~replicated', at'[r] \in {"find", "found", "settle"},
                 NEW w \in Of("settings", a)', Told(w)', w \in before'[r]
          PROVE  FALSE
      <3>1. r \in Requests /\ w \in Requests
        BY DEF Of
      <3>2. Begun(r) /\ r \in Of("upload", a) /\ Agent(r) = a /\ input[r].kind = "upload"
        BY <2>3, <2>6, <3>1, ComesTo DEF Of
      <3>3. w \in before[r] /\ at[w] = "done" /\ Begun(w)
        BY <1>1, <2>6, <3>1, <3>2 DEF History, RequestInv, Begun
      <3>4. w \in Of("settings", a) /\ Told(w)
        BY <1>1, <2>3, <2>6, <3>1, <3>3 DEF History, Told, Answered
      <3>5. ~replicated /\ Shown = Master
        BY <1>1, <1>2, <2>6 DEF History, LogStep
      <3>6. Master.bases[a] # "none"
        BY <3>4 DEF BaseInv
      <3>7. at[r] \in {"find", "found", "settle"}
        BY <2>6, <3>1, <3>2, <3>5, <3>6, ComesTo
      <3> QED
        BY <3>2, <3>3, <3>4, <3>5, <3>7 DEF BaseInv
    <2> QED
      BY <2>1, <2>2, <2>4, <2>5, <2>6
  <1> QED
    BY <1>4, <1>5
-----------------------------------------------------------------------------
\* The answered updates of a column that request r came after.
PastOf(r, a, c) == {w \in UpdatesOf(a, c) : Answered(w) /\ w \in before[r]}

\* What a request may see of a column does not change under way.
LEMMA SeenStays ==
    ASSUME TypeOK, RequestInv, MakerInv, LagInv, Shape, History, NEW r \in Requests, Begun(r),
           NEW a \in Ids, owner[a] # None, NEW c \in Allowed, NEW value, Seen(r, a, c, value)
    PROVE  \/ \E w \in UpdatesOf(a, c)' :
                 value = input'[w].body[c] /\ \A v \in PastOf(r, a, c)' : w \notin before'[v]
           \/ PastOf(r, a, c)' = {} /\ value = Born(a)'[c]
  <1>1. before'[r] = before[r]
    BY DEF History
  <1>2. \A w \in PastOf(r, a, c)' : w \in PastOf(r, a, c)
    <2> SUFFICES ASSUME NEW w \in PastOf(r, a, c)'
                 PROVE  w \in PastOf(r, a, c)
      OBVIOUS
    <2>1. w \in UpdatesOf(a, c)' /\ at'[w] = "done" /\ result'[w].good /\ w \in before[r]
      BY <1>1 DEF PastOf, Answered
    <2>2. w \in Requests /\ at[w] = "done"
      BY <2>1 DEF RequestInv, UpdatesOf, Of
    <2>3. result'[w] = result[w] /\ Told(w)'
      BY <2>1, <2>2 DEF History, Told, Answered
    <2> QED
      BY <2>1, <2>2, <2>3, UpdatesStep DEF PastOf, Answered
  <1>3. \A v \in PastOf(r, a, c) : before'[v] = before[v]
    BY UpdatesStep DEF PastOf
  <1>4. CASE \E w \in UpdatesOf(a, c) :
                value = input[w].body[c] /\ \A v \in PastOf(r, a, c) : w \notin before[v]
    BY <1>2, <1>3, <1>4, UpdatesStep
  <1>5. CASE PastOf(r, a, c) = {} /\ value = Born(a)[c]
    BY <1>2, <1>5, BornStep
  <1> QED
    BY <1>4, <1>5 DEF Seen, PastOf

\* How a chat comes to know its agent.
LEMMA ChatComes ==
    ASSUME TypeOK, RequestInv, History, Shape, NEW r \in Requests, at'[r] \in {"model", "runs"}
    PROVE  /\ Begun(r) /\ input'[r] = input[r] /\ before'[r] = before[r]
           /\ \/ at[r] \in {"model", "runs"} /\ result'[r].row = result[r].row
              \/ at[r] = "resolve" /\ result'[r].row = Found(r) /\ ~Refused(Found(r))
  <1>1. CASE Kept(r)
    BY <1>1 DEF Kept, Begun
  <1>2. CASE ~Kept(r)
    <2>1. Begins(r) \/ Reads(r) \/ Creates(r) \/ Founds(r) \/ WritesOne(r)
      BY <1>2, Mover
    <2>2. ~Begins(r)
      BY BodyTypes DEF Begins, FirstStep, Kinds
    <2>3. ~Creates(r) /\ ~Founds(r) /\ ~WritesOne(r)
      BY DEF Creates, Founds, WritesOne, Writes, Moves
    <2>4. Reads(r) /\ Begun(r)
      BY <2>1, <2>2, <2>3 DEF Reads, Begun
    <2> QED
      BY <2>4 DEF Reads, Moves
  <1> QED
    BY <1>1, <1>2

\* Without a slave a row that is read is as the updates that were answered
\* before have left it.
LEMMA FoundSeen ==
    ASSUME TypeOK, VersionInv, LagInv, RowInv, NEW r \in Requests, Found(r) # None, ~replicated,
           NEW c \in Allowed
    PROVE  Seen(r, Agent(r), c, Found(r)[c])
  <1> DEFINE a == Agent(r)
  <1>1. a \in Ids /\ Found(r) = Master.agents[a] /\ Master.agents[a] # None
    BY FoundOwned DEF LagInv, Shown, Master
  <1>2. ColumnRight(a, c)
    BY <1>1 DEF RowInv, ColumnRight
  <1>3. \A v \in UpdatesOf(a, c) : Answered(v) => Told(v)
    BY DEF Told
  <1>4. CASE \E w \in Latest(UpdatesOf(a, c)) : Master.agents[a][c] = input[w].body[c]
    BY <1>1, <1>3, <1>4 DEF Seen, Latest
  <1>5. CASE (\A w \in UpdatesOf(a, c) : ~Told(w)) /\ Master.agents[a][c] = Born(a)[c]
    BY <1>1, <1>3, <1>5 DEF Seen
  <1> QED
    BY <1>2, <1>4, <1>5 DEF ColumnRight

\* And an agent of the user's that is not there has been asked to be deleted.
LEMMA NotFound ==
    ASSUME TypeOK, VersionInv, LagInv, DeletionsKept, NEW r \in Requests, Found(r) = None,
           ~replicated, Agent(r) \in Ids, owner[Agent(r)] = User(r), User(r) # None
    PROVE  Of("delete", Agent(r)) # {}
  <1>1. Shown = Master /\ Len(versions) \in 1..Len(versions)
    BY MasterType DEF LagInv, Shown, Master
  <1>2. Master.agents[Agent(r)] = None
    BY <1>1 DEF Found, OfUser, VersionInv, Master
  <1> QED
    BY <1>2 DEF DeletionsKept

\* A row that a chat may run with.
MayRun(r, row) ==
    /\ Agent(r) \in Ids /\ row.user = User(r) /\ owner[Agent(r)] = User(r)
    /\ row.status # AgentStatusDisabled
    /\ row.iter > 10 =>
          \E w \in UpdatesOf(Agent(r), "iter") : input[w].body["iter"] = row.iter
    /\ ~replicated => \A c \in Allowed : Seen(r, Agent(r), c, row[c])

\* It may still after a step.
LEMMA MayRunStays ==
    ASSUME TypeOK, RequestInv, MakerInv, LagInv, Shape, History, NEW r \in Requests, Begun(r),
           NEW row, MayRun(r, row), User(r) # None, result'[r].row = row
    PROVE  MayRun(r, result[r].row)'
  <1>0. PICK a \in Ids : a = Agent(r)
    BY DEF MayRun
  <1>1. owner[a] = User(r) /\ owner[a] # None /\ RowOwned(row, a)
    BY <1>0 DEF MayRun, RowOwned
  <1>2. input'[r] = input[r] /\ replicated' = replicated /\ owner'[a] = owner[a]
    BY <1>1 DEF History, LogStep
  <1>3. row.iter > 10 => \E w \in UpdatesOf(a, "iter")' : input'[w].body["iter"] = row.iter
    BY <1>1, OwnedStays
  <1>4. ASSUME ~replicated, NEW c \in Allowed
        PROVE  \/ \E w \in UpdatesOf(a, c)' :
                     row[c] = input'[w].body[c] /\ \A v \in PastOf(r, a, c)' : w \notin before'[v]
               \/ PastOf(r, a, c)' = {} /\ row[c] = Born(a)'[c]
    BY <1>0, <1>1, <1>4, SeenStays DEF MayRun
  <1>5. Agent(r)' = a /\ User(r)' = User(r)
    BY <1>0, <1>2 DEF Agent, User
  <1>6. ASSUME ~replicated', NEW c \in Allowed
        PROVE  Seen(r, Agent(r), c, result[r].row[c])'
    BY <1>2, <1>4, <1>5, <1>6 DEF Seen, PastOf
  <1> QED
    BY <1>0, <1>1, <1>2, <1>3, <1>5, <1>6 DEF MayRun

\* Every step keeps ChatInv.
LEMMA ChatStep ==
    ASSUME TypeOK, RequestInv, MakerInv, LagInv, VersionInv, RowInv, DeletionsKept, ChatInv, Shape
    PROVE  ChatInv'
  <1>1. History
    BY HistoryStep
  <1> SUFFICES ASSUME NEW r \in Requests, at'[r] \in {"model", "runs"}
               PROVE  /\ result'[r].row # None => MayRun(r, result[r].row)'
                      /\ result'[r].row = None /\ Agent(r)' \in Ids /\ (owner[Agent(r)] = User(r))'
                            /\ ~replicated' => Of("delete", Agent(r))' # {}
    BY DEF ChatInv, MayRun
  <1>2. /\ Begun(r) /\ input'[r] = input[r] /\ before'[r] = before[r]
        /\ \/ at[r] \in {"model", "runs"} /\ result'[r].row = result[r].row
           \/ at[r] = "resolve" /\ result'[r].row = Found(r) /\ ~Refused(Found(r))
    BY <1>1, ChatComes
  <1>3. User(r) # None
    BY <1>2, BodyTypes, AgentsAssumption DEF RequestInv, User
  <1>4. ASSUME result'[r].row # None
        PROVE  MayRun(r, result'[r].row)
    <2>1. CASE at[r] \in {"model", "runs"} /\ result'[r].row = result[r].row
      BY <1>4, <2>1 DEF ChatInv, MayRun
    <2>2. CASE at[r] = "resolve" /\ result'[r].row = Found(r) /\ ~Refused(Found(r))
      BY <1>4, <2>2, FoundOwned, FoundSeen DEF Refused, MayRun
    <2> QED
      BY <1>2, <2>1, <2>2
  <1>5. ASSUME result'[r].row # None
        PROVE  MayRun(r, result[r].row)'
    BY <1>1, <1>2, <1>3, <1>4, <1>5, MayRunStays
  <1>6. ASSUME result'[r].row = None, Agent(r)' \in Ids, (owner[Agent(r)] = User(r))', ~replicated'
        PROVE  Of("delete", Agent(r))' # {}
    <2>1. Agent(r)' = Agent(r) /\ User(r)' = User(r) /\ ~replicated
      BY <1>1, <1>2, <1>6 DEF Agent, User, History, LogStep
    <2>2. Agent(r) \in Ids /\ owner[Agent(r)] # None
      BY <1>2, <1>6, <2>1, AgentsAssumption DEF RequestInv
    <2>3. owner[Agent(r)] = User(r)
      BY <1>1, <1>6, <2>1, <2>2 DEF History
    <2>4. Of("delete", Agent(r)) # {}
      BY <1>2, <1>3, <1>6, <2>1, <2>2, <2>3, NotFound DEF ChatInv
    <2> QED
      BY <1>1, <2>1, <2>2, <2>4, OfStep
  <1> QED
    BY <1>5, <1>6
-----------------------------------------------------------------------------
\* An id is given out to the request that makes the agent.
LEMMA OwnerMade ==
    ASSUME TypeOK, RequestInv, Shape, NEW a \in Ids, owner'[a] # owner[a]
    PROVE  \E p \in Requests : at[p] \in {"default", "insert"} /\ Made(p, a)'
  <1>1. PICK p \in Requests : Creates(p)
    BY DEF Shape, Begins, Reads, Same, Founds, WritesOne, Writes
  <1>2. PICK b \in Ids : owner' = [owner EXCEPT ![b] = User(p)] /\ result'[p].made = b
    BY <1>1 DEF Creates
  <1>3. b = a
    BY <1>2 DEF TypeOK
  <1> QED
    BY <1>1, <1>2, <1>3 DEF Creates, Made

\* A user's agents that were there before r came are no more after a step.
LEMMA KnownStays ==
    ASSUME TypeOK, RequestInv, MakerInv, LagInv, Shape, History, NEW r \in Requests, Begun(r),
           NEW a \in Known(r)'
    PROVE  a \in Ids /\ a \in Known(r) /\ owner[a] # None
  <1>1. /\ a \in Ids /\ owner'[a] = User(r) /\ before'[r] = before[r]
        /\ \A q \in Requests : Made(q, a)' => q \in before[r]
    BY DEF History, Known, User
  <1>2. owner'[a] = owner[a]
    BY <1>1, OwnerMade DEF RequestInv
  <1>3. owner[a] # None
    <2>1. User(r) \in Users
      BY BodyTypes DEF RequestInv, User
    <2> QED
      BY <1>1, <1>2, <2>1, AgentsAssumption
  <1>4. \A q \in Requests : Made(q, a)' <=> Made(q, a)
    BY <1>1, <1>3, MakerStep
  <1> QED
    BY <1>1, <1>2, <1>3, <1>4 DEF Known

\* What is gone stays gone.
LEMMA GoneStays ==
    ASSUME TypeOK, RequestInv, Shape, History, NEW r \in Requests, Begun(r), NEW a \in Ids
    PROVE  /\ GoneFor(r, a) => GoneFor(r, a)'
           /\ GoneMeanwhile(r, a) => GoneMeanwhile(r, a)'
  <1>1. before'[r] = before[r]
    BY DEF History
  <1>2. \A q \in Of("delete", a) :
           q \in Requests /\ q \in Of("delete", a)' /\ before'[q] = before[q]
    BY OfNone, OfStep DEF History
  <1> QED
    BY <1>1, <1>2 DEF GoneFor, GoneMeanwhile

\* An agent of the user's that is not there is gone for a request under way.
LEMMA MissingGone ==
    ASSUME TypeOK, RequestInv, VersionInv, DeletionsKept, NEW r \in Requests, Begun(r),
           at[r] # "done", NEW a \in Ids, owner[a] = User(r), a \notin OfUser(Master, User(r))
    PROVE  GoneFor(r, a)
  <1>1. owner[a] # None
    BY BodyTypes, AgentsAssumption DEF RequestInv, User
  <1>2. Master.agents[a] = None
    BY MasterType DEF OfUser, VersionInv, Master
  <1>3. PICK q \in Of("delete", a) : TRUE
    BY <1>1, <1>2 DEF DeletionsKept
  <1>4. r \notin before[q]
    BY <1>3 DEF RequestInv, Of
  <1> QED
    BY <1>4 DEF GoneFor

\* An agent that goes while a request is under way is deleted meanwhile.
LEMMA RemovedGone ==
    ASSUME TypeOK, RequestInv, VersionInv, Shape, History, NEW r \in Requests, Begun(r),
           at[r] # "done", NEW a \in Ids, owner[a] = User(r),
           Master.agents[a] # None, Master'.agents[a] = None
    PROVE  GoneMeanwhile(r, a)
  <1>1. PICK q \in Of("delete", a) : at[q] = "remove"
    BY Remover
  <1>2. q \notin before[r] /\ r \notin before[q]
    BY <1>1 DEF RequestInv, Of
  <1> QED
    BY <1>2 DEF GoneMeanwhile

\* How a listing goes on.
LEMMA ListComes ==
    ASSUME TypeOK, RequestInv, MakerInv, Shape, NEW r \in Requests,
           at'[r] # "idle", input'[r].kind = "list"
    PROVE  \/ at'[r] = "count" /\ result'[r].made = None
           \/ /\ Begun(r) /\ input[r].kind = "list" /\ input'[r] = input[r] /\ before'[r] = before[r]
              /\ \/ at'[r] = at[r] /\ result'[r] = result[r]
                 \/ /\ at[r] = "count" /\ Master' = Master /\ result'[r].made = None
                    /\ \/ NoneOf(User(r)) /\ at'[r] = "default"
                       \/ ~NoneOf(User(r)) /\ at'[r] = "list"
                       \/ at'[r] = "list" /\ ~result'[r].good
                 \/ at[r] = "default" /\ at'[r] = "list" /\ Creates(r)
                 \/ /\ at[r] = "list" /\ at'[r] = "done" /\ result'[r].made = result[r].made
                    /\ \/ /\ result'[r].good = result[r].good
                          /\ result'[r].listed = OfUser(Shown, User(r))
                       \/ ~result'[r].good
  <1>1. CASE Kept(r)
    BY <1>1 DEF Kept, Begun
  <1>2. CASE ~Kept(r)
    <2>1. Begins(r) \/ Reads(r) \/ Creates(r) \/ Founds(r) \/ WritesOne(r)
      BY <1>2, Mover
    <2>2. CASE Begins(r)
      <3>1. result[r].made = None
        BY <2>2 DEF Begins, MakerInv
      <3> QED
        BY <2>2, <3>1 DEF Begins, FirstStep
    <2>3. CASE ~Begins(r)
      <3>1. Begun(r) /\ input'[r] = input[r] /\ before'[r] = before[r] /\ input[r].kind = "list"
        BY <2>1, <2>3 DEF Begun, Reads, Creates, Founds, WritesOne, Writes, Moves
      <3>2. at[r] \in {"count", "default", "list", "done"}
        BY <3>1 DEF RequestInv, StepsOf
      <3>3. CASE Reads(r)
        <4>1. at[r] \in {"count", "list"} /\ Master' = Master
          BY <3>2, <3>3 DEF Reads, Same, Master
        <4>2. at[r] = "count" => result[r].made = None
          BY DEF MakerInv
        <4> QED
          BY <3>1, <3>3, <4>1, <4>2 DEF Reads
      <3>4. CASE Creates(r)
        BY <3>1, <3>2, <3>4 DEF Creates, Moves
      <3> QED
        BY <2>1, <2>3, <3>2, <3>3, <3>4 DEF Founds, WritesOne, Writes
    <2> QED
      BY <2>2, <2>3
  <1> QED
    BY <1>1, <1>2

\* Every step keeps ListInv.
LEMMA ListStep ==
    ASSUME TypeOK, TypeOK', RequestInv, MakerInv, LagInv, VersionInv, DeletionsKept, ListInv, Shape
    PROVE  ListInv'
  <1> SUFFICES ASSUME NEW r \in Requests, at'[r] # "idle", input'[r].kind = "list", ~replicated'
               PROVE  /\ at'[r] = "default" \/ result'[r].made # None =>
                            \A a \in Known(r)' : GoneFor(r, a)'
                      /\ at'[r] = "list" /\ result'[r].good =>
                            \E a \in Ids : /\ owner'[a] = User(r)'
                                           /\ Master'.agents[a] # None \/ GoneMeanwhile(r, a)'
                      /\ at'[r] = "done" /\ result'[r].good =>
                            /\ \A a \in result'[r].listed : owner'[a] = User(r)'
                            /\ \A a \in Known(r)' \ result'[r].listed : GoneFor(r, a)'
                            /\ result'[r].listed = {} =>
                                  \E a \in Ids : owner'[a] = User(r)' /\ GoneMeanwhile(r, a)'
    BY DEF ListInv, Begun, Answered
  <1>1. History /\ ~replicated
    BY HistoryStep DEF History, LogStep
  <1>2. Shown = Master
    BY <1>1 DEF LagInv, Shown, Master
  <1>3. CASE at'[r] = "count" /\ result'[r].made = None
    BY <1>3
  <1>4. ASSUME Begun(r), input[r].kind = "list", input'[r] = input[r], before'[r] = before[r]
        PROVE  /\ User(r)' = User(r) /\ User(r) # None
               /\ \A a \in Known(r)' : a \in Ids /\ a \in Known(r)
               /\ \A a \in Ids : owner[a] = User(r) => owner'[a] = User(r)
               /\ \A a \in Ids : /\ GoneFor(r, a) => GoneFor(r, a)'
                                 /\ GoneMeanwhile(r, a) => GoneMeanwhile(r, a)'
    <2>1. User(r)' = User(r) /\ User(r) # None
      BY <1>4, BodyTypes, AgentsAssumption DEF RequestInv, User
    <2> QED
      BY <1>1, <1>4, <2>1, KnownStays, GoneStays DEF History
  <1>5. ASSUME Begun(r), input[r].kind = "list", at'[r] = at[r], result'[r] = result[r],
               input'[r] = input[r], before'[r] = before[r]
        PROVE  /\ at'[r] = "default" \/ result'[r].made # None =>
                     \A a \in Known(r)' : GoneFor(r, a)'
               /\ at'[r] = "list" /\ result'[r].good =>
                     \E a \in Ids : /\ owner'[a] = User(r)'
                                    /\ Master'.agents[a] # None \/ GoneMeanwhile(r, a)'
               /\ at'[r] = "done" /\ result'[r].good =>
                     /\ \A a \in result'[r].listed : owner'[a] = User(r)'
                     /\ \A a \in Known(r)' \ result'[r].listed : GoneFor(r, a)'
                     /\ result'[r].listed = {} =>
                           \E a \in Ids : owner'[a] = User(r)' /\ GoneMeanwhile(r, a)'
    <2>1. ASSUME at'[r] = "list", result'[r].good
          PROVE  \E a \in Ids : /\ owner'[a] = User(r)'
                                /\ Master'.agents[a] # None \/ GoneMeanwhile(r, a)'
      <3>1. PICK a \in Ids : owner[a] = User(r) /\ (Master.agents[a] # None \/ GoneMeanwhile(r, a))
        BY <1>1, <1>5, <2>1 DEF ListInv
      <3>2. CASE Master.agents[a] # None /\ Master'.agents[a] = None
        BY <1>1, <1>4, <1>5, <2>1, <3>1, <3>2, RemovedGone
      <3> QED
        BY <1>4, <1>5, <3>1, <3>2
    <2>2. result[r].listed \subseteq Ids
      BY DEF TypeOK, Result
    <2> QED
      BY <1>1, <1>4, <1>5, <2>1, <2>2 DEF ListInv, Answered
  <1>6. ASSUME Begun(r), input[r].kind = "list", input'[r] = input[r], before'[r] = before[r],
               at[r] = "count", Master' = Master, result'[r].made = None,
               \/ NoneOf(User(r)) /\ at'[r] = "default"
               \/ ~NoneOf(User(r)) /\ at'[r] = "list"
               \/ at'[r] = "list" /\ ~result'[r].good
        PROVE  /\ at'[r] = "default" => \A a \in Known(r)' : GoneFor(r, a)'
               /\ at'[r] = "list" /\ result'[r].good =>
                     \E a \in Ids : owner'[a] = User(r)' /\ Master'.agents[a] # None
    <2>1. ASSUME NoneOf(User(r)), NEW a \in Known(r)'
          PROVE  GoneFor(r, a)'
      <3>1. a \in Ids /\ owner[a] = User(r)
        BY <1>4, <1>6 DEF Known
      <3>2. GoneFor(r, a)
        BY <1>2, <1>6, <2>1, <3>1, MissingGone DEF NoneOf
      <3> QED
        BY <1>4, <1>6, <3>1, <3>2
    <2>2. ASSUME ~NoneOf(User(r))
          PROVE  \E a \in Ids : owner'[a] = User(r)' /\ Master'.agents[a] # None
      <3>1. PICK a \in Ids : Master.agents[a] # None /\ Master.agents[a].user = User(r)
        BY <1>2, <2>2 DEF NoneOf, OfUser
      <3>2. owner[a] = User(r)
        BY <3>1, MasterType DEF VersionInv, Master
      <3> QED
        BY <1>4, <1>6, <3>1, <3>2
    <2> QED
      BY <1>6, <2>1, <2>2
  <1>7. ASSUME Begun(r), input[r].kind = "list", input'[r] = input[r], before'[r] = before[r],
               at[r] = "default", at'[r] = "list", Creates(r)
        PROVE  /\ \A a \in Known(r)' : GoneFor(r, a)'
               /\ result'[r].good =>
                     \E a \in Ids : owner'[a] = User(r)' /\ Master'.agents[a] # None
    <2>1. \A a \in Known(r)' : GoneFor(r, a)'
      BY <1>1, <1>4, <1>7 DEF ListInv
    <2>2. ASSUME result'[r].good
          PROVE  \E a \in Ids : owner'[a] = User(r)' /\ Master'.agents[a] # None
      <3>1. PICK a \in Ids : owner[a] = None /\ owner' = [owner EXCEPT ![a] = User(r)]
        BY <1>7, <2>2 DEF Creates
      <3>2. owner'[a] = User(r) /\ owner'[a] # owner[a]
        BY <1>4, <1>7, <3>1 DEF TypeOK
      <3> QED
        BY <1>4, <1>7, <3>2, OwnerStep
    <2> QED
      BY <2>1, <2>2
  <1>8. ASSUME Begun(r), input[r].kind = "list", input'[r] = input[r], before'[r] = before[r],
               at[r] = "list", at'[r] = "done", result'[r].made = result[r].made,
               \/ /\ result'[r].good = result[r].good
                  /\ result'[r].listed = OfUser(Shown, User(r))
               \/ ~result'[r].good
        PROVE  /\ result'[r].made # None => \A a \in Known(r)' : GoneFor(r, a)'
               /\ result'[r].good =>
                     /\ \A a \in result'[r].listed : owner'[a] = User(r)'
                     /\ \A a \in Known(r)' \ result'[r].listed : GoneFor(r, a)'
                     /\ result'[r].listed = {} =>
                           \E a \in Ids : owner'[a] = User(r)' /\ GoneMeanwhile(r, a)'
    <2>1. result'[r].made # None => \A a \in Known(r)' : GoneFor(r, a)'
      BY <1>1, <1>4, <1>8 DEF ListInv
    <2>2. \A a \in OfUser(Master, User(r)) : a \in Ids /\ owner[a] = User(r)
      BY MasterType DEF OfUser, VersionInv, Master
    <2>3. \A a \in Known(r)' \ OfUser(Master, User(r)) : GoneFor(r, a)'
      <3> SUFFICES ASSUME NEW a \in Known(r)', a \notin OfUser(Master, User(r))
                   PROVE  GoneFor(r, a)'
        OBVIOUS
      <3>1. a \in Ids /\ owner[a] = User(r)
        BY <1>4, <1>8 DEF Known
      <3> QED
        BY <1>4, <1>8, <3>1, MissingGone
    <2>4. ASSUME result'[r].good, OfUser(Master, User(r)) = {}, result[r].good
          PROVE  \E a \in Ids : owner'[a] = User(r)' /\ GoneMeanwhile(r, a)'
      <3>1. PICK a \in Ids : owner[a] = User(r) /\ (Master.agents[a] # None \/ GoneMeanwhile(r, a))
        BY <1>1, <1>8, <2>4 DEF ListInv
      <3>2. Master.agents[a] = None
        BY <2>4, <3>1, MasterType DEF OfUser, VersionInv, Master
      <3> QED
        BY <1>4, <1>8, <3>1, <3>2
    <2> QED
      BY <1>2, <1>4, <1>8, <2>1, <2>2, <2>3, <2>4
  <1> QED
    BY <1>3, <1>5, <1>6, <1>7, <1>8, ListComes
-----------------------------------------------------------------------------
\* The invariant holds initially: agents are there as they are created.
LEMMA InitInv ==
    ASSUME Init
    PROVE  AgentsInv
  <1>1. PICK u \in Users, S \in SUBSET Ids :
          /\ owner = [a \in Ids |-> IF a \in S THEN u ELSE None]
          /\ versions = <<[agents |-> [a \in Ids |-> IF a \in S THEN NewRow(u, DefaultBody)
                                                               ELSE None],
                           bases |-> [a \in Ids |-> "none"],
                           models |-> [v \in Users |-> None]]>>
    BY DEF Init
  <1>2. /\ replicated \in BOOLEAN /\ faults = 0
        /\ at = [r \in Requests |-> "idle"] /\ input = [r \in Requests |-> None]
        /\ before = [r \in Requests |-> {}]
        /\ result = [r \in Requests |-> [good |-> TRUE, row |-> None, listed |-> {}, made |-> None,
                                         model |-> None, founded |-> FALSE]]
    BY DEF Init
  <1> DEFINE db == [agents |-> [a \in Ids |-> IF a \in S THEN NewRow(u, DefaultBody) ELSE None],
                    bases |-> [a \in Ids |-> "none"],
                    models |-> [v \in Users |-> None]]
  <1>3. DefaultBody["model"] = None /\ DefaultBody["iter"] = 0 /\ u # None
    BY AgentsAssumption DEF DefaultBody
  <1>4. /\ NewRow(u, DefaultBody) \in Row /\ NewRow(u, DefaultBody) # None
        /\ NewRow(u, DefaultBody).user = u /\ ~(NewRow(u, DefaultBody).iter > 10)
    BY <1>3, NewRowType DEF NewRow
  <1>5. db \in Database
    BY <1>4 DEF Database
  <1>6. versions = <<db>>
    BY <1>1
  <1>7. versions \in Seq(Database) /\ Len(versions) = 1 /\ versions[1] = db /\ Master = db
    BY <1>5, <1>6 DEF Master
  <1>8. \A r \in Requests : at[r] = "idle" /\ before[r] = {} /\ result[r].made = None
                            /\ ~result[r].founded
    BY <1>2
  <1>9. TypeOK
    <2>1. result \in [Requests -> Result]
      BY <1>2 DEF Result
    <2>2. 1 \in 1..MaxLag + 1 /\ faults \in 0..MaxFaults
      BY <1>2, AgentsAssumption
    <2> QED
      BY <1>1, <1>2, <1>7, <2>1, <2>2 DEF TypeOK, Steps
  <1>10. RequestInv /\ MakerInv /\ LagInv /\ ChatInv /\ ListInv
    BY <1>7, <1>8 DEF RequestInv, MakerInv, LagInv, ChatInv, ListInv, Begun
  <1>11. \A kind : \A a \in Ids : Of(kind, a) = {}
    BY <1>8 DEF Of
  <1>12. \A a \in Ids, c \in Allowed : UpdatesOf(a, c) = {}
    BY <1>11 DEF UpdatesOf
  <1>13. \A a \in Ids : ~ \E r \in Requests : Made(r, a)
    BY <1>8, AgentsAssumption DEF Made
  <1>14. \A a \in Ids : Born(a) = NewRow(owner[a], DefaultBody)
    BY <1>13 DEF Born
  <1>15. \A a \in Ids : /\ db.agents[a] = IF a \in S THEN NewRow(u, DefaultBody) ELSE None
                        /\ db.bases[a] = "none" /\ owner[a] = IF a \in S THEN u ELSE None
    BY <1>1
  <1>16. RowInv
    BY <1>7, <1>12, <1>14, <1>15 DEF RowInv
  <1>17. DeletionsKept
    BY <1>4, <1>7, <1>11, <1>15 DEF DeletionsKept
  <1>18. VersionInv
    <2> SUFFICES ASSUME NEW a \in Ids
                 PROVE  db.agents[a] # None =>
                           /\ owner[a] # None /\ db.agents[a].user = owner[a]
                           /\ ~(db.agents[a].iter > 10)
      BY <1>7, <1>15 DEF VersionInv
    <2> QED
      BY <1>3, <1>4, <1>15
  <1>19. BaseInv
    BY <1>7, <1>11, <1>15 DEF BaseInv
  <1>20. ModelInv
    BY <1>7, <1>8 DEF ModelInv, SavesOf, Begun
  <1> QED
    BY <1>9, <1>10, <1>16, <1>17, <1>18, <1>19, <1>20 DEF AgentsInv

\* The invariant is kept by every step.
LEMMA StepInv ==
    ASSUME AgentsInv, [Next]_vars
    PROVE  AgentsInv'
  <1> USE DEF AgentsInv
  <1>1. TypeOK' /\ Shape
    BY NextShape
  <1>2. RequestInv'
    BY <1>1, RequestStep
  <1>3. MakerInv'
    BY <1>1, MakerStep
  <1>4. RowInv'
    BY <1>1, <1>2, RowStep
  <1>5. DeletionsKept'
    BY <1>1, <1>2, DeletionsStep
  <1>6. VersionInv'
    BY <1>1, VersionStep
  <1>7. BaseInv'
    BY <1>1, BaseStep
  <1>8. ModelInv'
    BY <1>1, ModelStep
  <1>9. LagInv'
    BY <1>1, HistoryStep DEF History, LogStep, LagInv
  <1>10. ChatInv'
    BY <1>1, ChatStep
  <1>11. ListInv'
    BY <1>1, ListStep
  <1> QED
    BY <1>1, <1>2, <1>3, <1>4, <1>5, <1>6, <1>7, <1>8, <1>9, <1>10, <1>11

\* What the invariant says holds of every behaviour.
LEMMA AlwaysInv == Spec => []AgentsInv
  <1>1. Init => AgentsInv
    BY InitInv
  <1>2. AgentsInv /\ [Next]_vars => AgentsInv'
    BY StepInv
  <1> QED
    BY <1>1, <1>2, PTL DEF Spec
-----------------------------------------------------------------------------
\* Requests, rows and answers are of the right types, the bodies of requests
\* come through Create and Update as values of their columns, and a slave is
\* never more than MaxLag changes behind.
THEOREM AgentsTypeOK == Spec => []TypeOK
  <1>1. AgentsInv => TypeOK
    BY DEF AgentsInv
  <1> QED
    BY <1>1, AlwaysInv, PTL

\* However many requests of the agent, knowledge base and model stores
\* overlap, fail or lose their answers: what a user was told to be saved
\* stays saved until a later request of the same user changes it.
THEOREM AgentsEditsKept == Spec => []EditsKept
  <1>1. ASSUME AgentsInv
        PROVE  EditsKept
    <2> USE <1>1 DEF AgentsInv
    <2>1. \A W : \A w \in Latest(W) : w \in Standing(W)
      BY DEF Latest, Standing, Told
    <2>2. RowsKept
      <3> SUFFICES ASSUME NEW a \in Ids, Master.agents[a] # None
                   PROVE  /\ Master.agents[a].user = owner[a]
                          /\ \A c \in Allowed :
                                \/ \E w \in Standing(UpdatesOf(a, c)) :
                                      Master.agents[a][c] = input[w].body[c]
                                \/ /\ \A w \in UpdatesOf(a, c) : ~Answered(w)
                                   /\ Master.agents[a][c] = Born(a)[c]
        BY DEF RowsKept
      <3>1. Master.agents[a].user = owner[a]
        BY MasterType DEF VersionInv, Master
      <3>2. \A c \in Allowed : \A w \in UpdatesOf(a, c) : ~Told(w) => ~Answered(w)
        BY DEF Told
      <3> QED
        BY <2>1, <3>1, <3>2 DEF RowInv
    <2>3. BasesKept
      <3> SUFFICES ASSUME NEW a \in Ids, Master.bases[a] # "none"
                   PROVE  \/ \E w \in Standing(Of("settings", a)) :
                                Master.bases[a] = IF result[w].founded THEN "on" ELSE Wanted(w)
                          \/ /\ Master.bases[a] = "on"
                             /\ \E r \in Of("upload", a) : \A w \in Of("settings", a) :
                                   Answered(w) => r \notin before[w]
                                                  /\ (replicated \/ w \notin before[r])
        BY DEF BasesKept
      <3>1. \A w \in Of("settings", a) : Answered(w) => Told(w)
        BY DEF Told
      <3> QED
        BY <2>1, <3>1 DEF BaseInv
    <2>4. ModelsKept
      <3> SUFFICES ASSUME NEW u \in Users
                   PROVE  \/ \E w \in Standing(SavesOf(u)) : Master.models[u] = input[w].body["model"]
                          \/ Master.models[u] = None /\ \A w \in SavesOf(u) : ~Answered(w)
        BY DEF ModelsKept, SavesOf, Begun
      <3>1. \A w \in SavesOf(u) : ~Told(w) => ~Answered(w)
        BY DEF Told
      <3> QED
        BY <2>1, <3>1 DEF ModelInv
    <2> QED
      BY <2>2, <2>3, <2>4 DEF EditsKept
  <1>2. AgentsInv => EditsKept
    BY <1>1
  <1> QED
    BY <1>2, AlwaysInv, PTL

\* resolveAgentConfig lets a chat run as an agent of its user's only, never
\* as a disabled one, and without a slave as the user last left it.
THEOREM AgentsRunAsAllowed == Spec => []RunsAsAllowed
  <1>1. ASSUME AgentsInv
        PROVE  RunsAsAllowed
    BY <1>1 DEF AgentsInv, ChatInv, RunsAsAllowed, Known
  <1>2. AgentsInv => RunsAsAllowed
    BY <1>1
  <1> QED
    BY <1>2, AlwaysInv, PTL

\* EnsureDefault gives a user a default agent only if his own are gone or
\* going, and the listing shows him all the others.
THEOREM AgentsDefaultRight == Spec => []DefaultRight
  <1>1. ASSUME AgentsInv
        PROVE  DefaultRight
    <2> SUFFICES ASSUME NEW r \in Requests, at[r] # "idle", input[r].kind = "list", ~replicated
                 PROVE  /\ result[r].made # None =>
                              Known(r) \subseteq DeletedMeanwhile(r) \cup DeletedBefore(r)
                        /\ Answered(r) =>
                              /\ \A a \in result[r].listed : owner[a] = User(r)
                              /\ Known(r) \subseteq result[r].listed \cup DeletedMeanwhile(r)
                                                                     \cup DeletedBefore(r)
                              /\ result[r].listed = {} => \E a \in Ids : \E q \in Of("delete", a) :
                                    User(q) = User(r) /\ q \notin before[r] /\ r \notin before[q]
      BY DEF DefaultRight
    <2>1. \A a \in Known(r) : GoneFor(r, a) => a \in DeletedMeanwhile(r) \cup DeletedBefore(r)
      BY DEF GoneFor, DeletedMeanwhile, DeletedBefore
    <2>2. \A a \in Ids : owner[a] = User(r) /\ GoneMeanwhile(r, a) => \E q \in Of("delete", a) :
                            User(q) = User(r) /\ q \notin before[r] /\ r \notin before[q]
      BY DEF GoneMeanwhile, Of
    <2> QED
      BY <1>1, <2>1, <2>2 DEF AgentsInv, ListInv, Begun
  <1>2. AgentsInv => DefaultRight
    BY <1>1
  <1> QED
    BY <1>2, AlwaysInv, PTL
=============================================================================
