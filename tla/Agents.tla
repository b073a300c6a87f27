------------------------------- MODULE Agents -------------------------------
(***************************************************************************)
(* The settings that users keep in the database and that their chats read: *)
(* their agents, an agent's knowledge base, and the language model of      *)
(* their choice.  A request of the HTTP handlers is a sequence of SQL      *)
(* statements; nothing but the database serialises them, and requests of   *)
(* one user (two tabs, a page and a chat) overlap.  With a slave in the    *)
(* configuration, queries go to it and statements that write to the        *)
(* master, so what is read may be old.                                     *)
(*                                                                         *)
(*   replicated  whether there is a slave of its own                       *)
(*   versions    the contents of the database from the one that queries    *)
(*               see to the one that is written to; one without a slave    *)
(*   owner       the user an id was given out for, by genUUID              *)
(*   at          how far a request is                                      *)
(*   input       what it asks                                              *)
(*   result      what it has read and done                                 *)
(*   before      the requests that had been answered when it came          *)
(*   faults      statements that went wrong                                *)
(*                                                                         *)
(* owner and before only record the past, for the properties.  Of an       *)
(* agent's columns the ones are kept that decide whether and how a chat    *)
(* runs as it; of a knowledge base, whether it is enabled.                 *)
(***************************************************************************)
EXTENDS Integers, Sequences, Functions

CONSTANTS
    Users,
    Ids,                \* of agents
    Models,
    None,               \* no row, no agent given, no model set
    Requests,
    Inputs,             \* what a request may ask
    MaxLag,             \* bound on the versions a slave may be behind
    MaxFaults           \* bound on faults

AgentStatusEnabled == 1
AgentStatusDisabled == 2

Allowed == {"model", "iter", "status"}
Names == Allowed \cup {"user", "enabled"}

Kinds == {"list", "create", "update", "get", "delete", "chat",
          "save", "settings", "upload"}

\* The values that a column, or a name of a request's body, may have.
FitsColumn(name, value) ==
    CASE name = "model" -> value \in Models \cup {None}
      [] name = "iter" -> value \in Int
      [] name = "status" -> value \in {AgentStatusEnabled, AgentStatusDisabled}
      [] name = "user" -> value \in Users
      [] name = "enabled" -> value \in {"on", "off"}

Row == [user : Users, model : Models \cup {None}, iter : Int,
        status : {AgentStatusEnabled, AgentStatusDisabled}]

ASSUME AgentsAssumption ==
    /\ None \notin Ids \cup Users \cup Row
    /\ MaxLag \in Nat
    /\ MaxFaults \in Nat
    /\ \A i \in Inputs :
          /\ i.kind \in Kinds /\ i.user \in Users /\ i.agent \in Ids \cup {None}
          /\ i.body = [n \in DOMAIN i.body |-> i.body[n]] /\ DOMAIN i.body \subseteq Names
          /\ \A n \in DOMAIN i.body : FitsColumn(n, i.body[n])
          /\ i.kind = "create" => {"model", "iter"} \subseteq DOMAIN i.body
          /\ i.kind = "save" => "model" \in DOMAIN i.body
          /\ i.kind = "settings" => "enabled" \in DOMAIN i.body

VARIABLES replicated, versions, owner, at, input, result, before, faults

vars == <<replicated, versions, owner, at, input, result, before, faults>>
database == <<replicated, versions>>

Result == [good : BOOLEAN, row : Row \cup {None}, listed : SUBSET Ids,
           made : Ids \cup {None}, model : Models \cup {None}, founded : BOOLEAN]
Database == [agents : [Ids -> Row \cup {None}], bases : [Ids -> {"none", "on", "off"}],
             models : [Users -> Models \cup {None}]]
Steps == {"idle", "count", "default", "list", "insert", "write", "get", "remove",
          "resolve", "model", "runs", "upsert", "reread", "verify", "ensure",
          "find", "found", "settle", "show", "done"}

Master == versions[Len(versions)]
Shown == versions[1]

\* Mutant of NewRow: the status is left at its zero value.
NewRowWithoutStatus(u, body) ==
    [user |-> u, model |-> body["model"],
     iter |-> IF body["iter"] = 0 THEN 5 ELSE IF body["iter"] > 10 THEN 10 ELSE body["iter"],
     status |-> 0]

NewRow(u, body) ==
    [user |-> u, model |-> body["model"],
     iter |-> IF body["iter"] = 0 THEN 5 ELSE IF body["iter"] > 10 THEN 10 ELSE body["iter"],
     status |-> AgentStatusEnabled]

DefaultBody == [model |-> None, iter |-> 0]

Init ==
    /\ replicated \in BOOLEAN
    /\ \E u \in Users, S \in SUBSET Ids :
          /\ owner = [a \in Ids |-> IF a \in S THEN u ELSE None]
          /\ versions = <<[agents |-> [a \in Ids |-> IF a \in S THEN NewRow(u, DefaultBody)
                                                               ELSE None],
                           bases |-> [a \in Ids |-> "none"],
                           models |-> [v \in Users |-> None]]>>
    /\ at = [r \in Requests |-> "idle"]
    /\ input = [r \in Requests |-> None]
    /\ result = [r \in Requests |-> [good |-> TRUE, row |-> None, listed |-> {}, made |-> None,
                                     model |-> None, founded |-> FALSE]]
    /\ before = [r \in Requests |-> {}]
    /\ faults = 0
-----------------------------------------------------------------------------
\* A statement that writes: the database is db after it if kept, and the
\* caller learns that it went well if told.  It may fail, and its answer
\* may be lost.
Write(db, kept, told) ==
    /\ \/ kept /\ told /\ UNCHANGED faults
       \/ ~told /\ faults < MaxFaults /\ faults' = faults + 1
    /\ versions' = IF ~kept \/ db = Master THEN versions
                   ELSE IF replicated THEN Append(versions, db) ELSE <<db>>
    /\ Len(versions') <= MaxLag + 1
    /\ UNCHANGED replicated

\* Request r goes on at step to, with what it knows then.
Go(r, to, res) ==
    /\ at' = [at EXCEPT ![r] = to]
    /\ result' = [result EXCEPT ![r] = res]

Failed(r) == [result[r] EXCEPT !.good = FALSE]

\* A step of r that writes db and goes on at step to; if it went wrong, or
\* had no effect where one is asked for, the request ends with an error.
Change(r, from, db, effect, to) ==
    /\ at[r] = from
    /\ \E kept, told \in BOOLEAN :
          /\ Write(db, kept, told)
          /\ IF told /\ effect THEN Go(r, to, result[r]) ELSE Go(r, "done", Failed(r))
    /\ UNCHANGED <<owner, input, before>>

\* A step of r that queries.
Query(r, from, to, res) ==
    /\ at[r] = from
    /\ Go(r, to, res)
    /\ UNCHANGED <<database, owner, input, before, faults>>

\* The slave takes over one change.
Replicate ==
    /\ Len(versions) > 1
    /\ versions' = Tail(versions)
    /\ UNCHANGED <<replicated, owner, at, input, result, before, faults>>

\* Update's whitelist, and the columns it leaves.
Filtered(body) == Restrict(body, Allowed \cap DOMAIN body)

FirstStep(i) ==
    CASE i.kind = "list" -> "count"
      [] i.kind = "create" -> "insert"
      [] i.kind = "update" -> IF DOMAIN Filtered(i.body) = {} THEN "get" ELSE "write"
      [] i.kind = "get" -> "get"
      [] i.kind = "delete" -> "remove"
      [] i.kind = "chat" -> "resolve"
      [] i.kind = "save" -> "upsert"
      [] i.kind \in {"settings", "upload"} -> "verify"

\* A request names an id only after it was given out: ids are random.
Begin(r) ==
    /\ at[r] = "idle"
    /\ \E i \in Inputs :
          /\ i.agent # None => owner[i.agent] # None
          /\ input' = [input EXCEPT ![r] = i]
          /\ Go(r, FirstStep(i), result[r])
    /\ before' = [before EXCEPT ![r] = {q \in Requests : at[q] = "done"}]
    /\ UNCHANGED <<database, owner, faults>>

User(r) == input[r].user
Agent(r) == input[r].agent
OfUser(db, u) == {a \in Ids : db.agents[a] # None /\ db.agents[a].user = u}

\* AgentStore.Get: the row with this id and user, if any.
Found(r) == IF Agent(r) \in OfUser(Shown, User(r)) THEN Shown.agents[Agent(r)] ELSE None
-----------------------------------------------------------------------------
(* The agents *)

\* Mutant of NoneOf: agents that are disabled are not counted.
NoneEnabledOf(u) == \A a \in OfUser(Shown, u) : Shown.agents[a].status = AgentStatusDisabled

NoneOf(u) == OfUser(Shown, u) = {}

\* EnsureDefault: the count.
Count(r) == Query(r, "count", IF NoneOf(User(r)) THEN "default" ELSE "list", result[r])

\* Create, for EnsureDefault or a request.  A failure of EnsureDefault is
\* only logged, and the listing goes on.
Create(r) ==
    LET body == IF at[r] = "default" THEN DefaultBody ELSE input[r].body
        next == IF at[r] = "default" THEN "list" ELSE "done" IN
    /\ at[r] \in {"default", "insert"}
    /\ \E a \in Ids, kept, told \in BOOLEAN :
          /\ owner[a] = None
          /\ Write([Master EXCEPT !.agents[a] = NewRow(User(r), body)], kept, told)
          /\ owner' = IF kept THEN [owner EXCEPT ![a] = User(r)] ELSE owner
          /\ Go(r, next, [result[r] EXCEPT !.made = IF kept THEN a ELSE None, !.good = told])
    /\ UNCHANGED <<input, before>>

List(r) ==
    Query(r, "list", "done", [result[r] EXCEPT !.listed = OfUser(Shown, User(r))])

\* Mutant of Patched: the whole row is written, with zero values for what
\* the request did not name.
PatchedWhole(row, body) ==
    [c \in DOMAIN row |-> IF c \in DOMAIN body THEN body[c]
                          ELSE NewRow(row.user, DefaultBody)[c]]

\* Updates(filtered): only the columns that the request names are written.
Patched(row, body) == [c \in DOMAIN row |-> IF c \in DOMAIN body THEN body[c] ELSE row[c]]

\* Update: the row of the user with this id, if there is one, changes; it is
\* then read again.
Update(r) ==
    Change(r, "write", IF Agent(r) \in OfUser(Master, User(r))
                       THEN [Master EXCEPT !.agents[Agent(r)] = Patched(@, Filtered(input[r].body))]
                       ELSE Master, TRUE, "get")

Get(r) ==
    Query(r, "get", "done", [result[r] EXCEPT !.row = Found(r), !.good = Found(r) # None])

\* Delete: it is an error if there was no such row.
Delete(r) ==
    LET there == Agent(r) \in OfUser(Master, User(r)) IN
    Change(r, "remove", IF there THEN [Master EXCEPT !.agents[Agent(r)] = None] ELSE Master,
           there, "done")
-----------------------------------------------------------------------------
(* A chat *)

\* Mutant of Refused: the status is not looked at.
RefusedNever(row) == FALSE

Refused(row) == row # None /\ row.status = AgentStatusDisabled

\* resolveAgentConfig: a chat whose agent is gone goes on with the defaults,
\* one whose agent is disabled is refused.
Resolve(r) ==
    Query(r, "resolve", IF Refused(Found(r)) THEN "done" ELSE "model",
          IF Refused(Found(r)) THEN Failed(r) ELSE [result[r] EXCEPT !.row = Found(r)])

\* The user's own choice of a model, which the agent's goes before.
ReadModel(r) ==
    LET row == result[r].row IN
    Query(r, "model", "runs",
          [result[r] EXCEPT !.model = IF row # None /\ row.model # None THEN row.model
                                      ELSE Shown.models[User(r)]])
-----------------------------------------------------------------------------
(* The model settings *)

\* ModelConfigStore.Save: one row per user, by INSERT ... ON CONFLICT UPDATE.
Upsert(r) ==
    Change(r, "upsert", [Master EXCEPT !.models[User(r)] = input[r].body["model"]],
           TRUE, "reread")

Reread(r) ==
    Query(r, "reread", "done", [result[r] EXCEPT !.model = Shown.models[User(r)]])
-----------------------------------------------------------------------------
(* The knowledge base of an agent *)

\* verifyAgent: the agent must be the user's.
Verify(r) ==
    Query(r, "verify", IF Found(r) = None THEN "done"
                       ELSE IF input[r].kind = "upload" THEN "ensure" ELSE "find",
          IF Found(r) = None THEN Failed(r) ELSE result[r])

\* ensureKB, for an upload: a base that is there is used as it is.
EnsureKB(r) ==
    Query(r, "ensure", IF Shown.bases[Agent(r)] = "none" THEN "find" ELSE "done", result[r])

\* UpsertByAgent: the query.
FindKB(r) ==
    Query(r, "find", IF Shown.bases[Agent(r)] = "none" THEN "found" ELSE "settle", result[r])

\* UpsertByAgent: the creation, which the unique index refuses if there is
\* a base by now.  enabled has a default in the database, and GORM writes
\* the default in place of a zero value: a new base is enabled even if the
\* request says otherwise.
CreateKB(r) ==
    LET free == Master.bases[Agent(r)] = "none" IN
    /\ at[r] = "found"
    /\ \E kept, told \in BOOLEAN :
          /\ Write(IF free THEN [Master EXCEPT !.bases[Agent(r)] = "on"] ELSE Master,
                   kept, told)
          /\ Go(r, "done", [result[r] EXCEPT !.good = told /\ free, !.founded = kept /\ free])
    /\ UNCHANGED <<owner, input, before>>

\* What ensureKB asks for, or the body of the request.
Wanted(r) == IF input[r].kind = "upload" THEN "on" ELSE input[r].body["enabled"]

\* UpsertByAgent: the update.
UpdateKB(r) ==
    Change(r, "settle",
           [Master EXCEPT !.bases[Agent(r)] = IF @ = "none" THEN @ ELSE Wanted(r)], TRUE, "show")

ShowKB(r) ==
    Query(r, "show", "done", [result[r] EXCEPT !.good = Shown.bases[Agent(r)] # "none"])
-----------------------------------------------------------------------------
\* A query fails.  A listing and a chat go on without what it was for.
QueryFails(r) ==
    /\ at[r] \in {"count", "list", "get", "resolve", "model", "reread", "verify",
                  "ensure", "find", "show"}
    /\ faults < MaxFaults
    /\ faults' = faults + 1
    /\ Go(r, CASE at[r] = "count" -> "list" [] at[r] = "model" -> "runs" [] OTHER -> "done",
          Failed(r))
    /\ UNCHANGED <<database, owner, input, before>>

Handle(r) ==
    \/ Begin(r)
    \/ Count(r) \/ Create(r) \/ List(r) \/ Update(r) \/ Get(r) \/ Delete(r)
    \/ Resolve(r) \/ ReadModel(r) \/ Upsert(r) \/ Reread(r)
    \/ Verify(r) \/ EnsureKB(r) \/ FindKB(r) \/ CreateKB(r) \/ UpdateKB(r) \/ ShowKB(r)
    \/ QueryFails(r)

Next == Replicate \/ \E r \in Requests : Handle(r)

Spec == Init /\ [][Next]_vars
-----------------------------------------------------------------------------
(* Properties *)

\* Types; an agent has a status, a slave is at most MaxLag changes behind.
TypeOK ==
    /\ replicated \in BOOLEAN
    /\ versions \in Seq(Database) /\ Len(versions) \in 1..MaxLag + 1
    /\ owner \in [Ids -> Users \cup {None}]
    /\ at \in [Requests -> Steps]
    /\ input \in [Requests -> Inputs \cup {None}]
    /\ result \in [Requests -> Result]
    /\ before \in [Requests -> SUBSET Requests]
    /\ faults \in 0..MaxFaults

\* The requests of a kind about something of the user's own.
Of(kind, a) == {r \in Requests : /\ at[r] # "idle" /\ input[r].kind = kind
                                 /\ Agent(r) = a /\ User(r) = owner[a]}
Answered(r) == at[r] = "done" /\ result[r].good

\* The requests of W that no answered one of W came after.
Standing(W) == {w \in W : \A v \in W : Answered(v) => w \notin before[v]}

UpdatesOf(a, c) == {r \in Of("update", a) : c \in DOMAIN input[r].body}
Made(r, a) == result[r].made = a
Born(a) == IF \E r \in Requests : Made(r, a) /\ input[r].kind = "create"
           THEN NewRow(owner[a], input[CHOOSE r \in Requests : Made(r, a)].body)
           ELSE NewRow(owner[a], DefaultBody)

\* A column of an agent holds what an update of its owner gave it that no
\* answered one came after, or what it was created with.
RowsKept ==
    \A a \in Ids : Master.agents[a] # None =>
        /\ Master.agents[a].user = owner[a]
        /\ \A c \in Allowed :
              \/ \E w \in Standing(UpdatesOf(a, c)) : Master.agents[a][c] = input[w].body[c]
              \/ /\ \A w \in UpdatesOf(a, c) : ~Answered(w)
                 /\ Master.agents[a][c] = Born(a)[c]

\* An agent is gone when its owner was told so, and only if he asked for it.
DeletionsKept ==
    \A a \in Ids :
        /\ \A r \in Of("delete", a) : Answered(r) => Master.agents[a] = None
        /\ owner[a] # None /\ Master.agents[a] = None => Of("delete", a) # {}

\* A knowledge base is enabled or disabled as the last settings had it; an
\* upload does not touch settings made before.  (The request that creates
\* the base leaves it enabled.)  With a slave, an upload may undo them.
BasesKept ==
    \A a \in Ids : Master.bases[a] # "none" =>
        \/ \E w \in Standing(Of("settings", a)) :
              Master.bases[a] = IF result[w].founded THEN "on" ELSE Wanted(w)
        \/ /\ Master.bases[a] = "on"
           /\ \E r \in Of("upload", a) : \A w \in Of("settings", a) :
                 Answered(w) => r \notin before[w] /\ (replicated \/ w \notin before[r])

\* The model of a user is the one he saved last.
ModelsKept ==
    \A u \in Users :
        LET Saves == {r \in Requests : at[r] # "idle" /\ input[r].kind = "save" /\ User(r) = u} IN
        \/ \E w \in Standing(Saves) : Master.models[u] = input[w].body["model"]
        \/ Master.models[u] = None /\ \A w \in Saves : ~Answered(w)

\* What a user was told to have been saved stays saved, whatever other
\* requests run meanwhile, until a later request of the same user changes it.
EditsKept == RowsKept /\ DeletionsKept /\ BasesKept /\ ModelsKept

\* The agents that a user had got before request r came.
Known(r) == {a \in Ids : /\ owner[a] = User(r)
                         /\ \A q \in Requests : Made(q, a) => q \in before[r]}

\* What r may see of a column: not what an update had replaced that was
\* answered before r came.
Seen(r, a, c, value) ==
    LET Past == {w \in UpdatesOf(a, c) : Answered(w) /\ w \in before[r]} IN
    \/ \E w \in UpdatesOf(a, c) :
          value = input[w].body[c] /\ \A v \in Past : w \notin before[v]
    \/ Past = {} /\ value = Born(a)[c]

\* A chat runs as an agent of its user only, never as one that was disabled;
\* for more than ten rounds only if an update asked for them.  Without a
\* slave its columns are no older than the request, and a chat goes on
\* without the agent it names only if that is being deleted.
RunsAsAllowed ==
    \A r \in Requests : at[r] = "runs" /\ input[r].kind = "chat" =>
        LET row == result[r].row  a == Agent(r) IN
        /\ row # None =>
              /\ row.user = User(r) /\ owner[a] = User(r)
              /\ row.status # AgentStatusDisabled
              /\ row.iter > 10 => \E w \in UpdatesOf(a, "iter") : input[w].body["iter"] = row.iter
              /\ ~replicated => \A c \in Allowed : Seen(r, a, c, row[c])
        /\ row = None /\ a \in Known(r) /\ ~replicated /\ result[r].good => Of("delete", a) # {}

\* The deletions of a user's agents that were not over when r came.
DeletedMeanwhile(r) ==
    {a \in Known(r) : \E q \in Of("delete", a) : q \notin before[r] /\ r \notin before[q]}
DeletedBefore(r) ==
    {a \in Known(r) : \E q \in Of("delete", a) : q \in before[r]}

\* Listing gives a user a default agent only if all his agents were or were
\* being deleted; it shows him all of his agents and no one else's, and at
\* least one unless agents are deleted meanwhile.  This holds without a slave.
DefaultRight ==
    \A r \in Requests : at[r] # "idle" /\ input[r].kind = "list" /\ ~replicated =>
        /\ result[r].made # None => Known(r) \subseteq DeletedMeanwhile(r) \cup DeletedBefore(r)
        /\ Answered(r) =>
              /\ \A a \in result[r].listed : owner[a] = User(r)
              /\ Known(r) \subseteq result[r].listed \cup DeletedMeanwhile(r) \cup DeletedBefore(r)
              /\ result[r].listed = {} => \E a \in Ids : \E q \in Of("delete", a) :
                    User(q) = User(r) /\ q \notin before[r] /\ r \notin before[q]
=============================================================================
