----------------------------- MODULE TaskMemory -----------------------------
(***************************************************************************)
(* The task state of one session (L1 memory): the state machine of         *)
(* UpdateTaskState, and the turns that load it from the task store, apply  *)
(* their events to their own copy and save it when they have an answer.    *)
(*                                                                         *)
(*   stored    what memTaskStore holds for the session                     *)
(*   at        how far a turn is                                           *)
(*   task      the copy a turn works on                                    *)
(*   iter      how many replies of a turn have called tools                *)
(*   calls     the tools a turn has called, oldest first                   *)
(*   outcomes  which of those calls went well, as far as it has been told  *)
(*   fresh     the turns since whose Load nothing has been stored          *)
(*                                                                         *)
(* The results of a reply's calls come in the order of the calls, so calls *)
(* and outcomes say which call is answered next; fresh only records the    *)
(* past, for the properties.                                               *)
(*                                                                         *)
(* A step is known by its tool and by the turn that added it; the goal by  *)
(* the turn whose message it is; pending by the turns whose answers had a  *)
(* marker.  Slots and Desc are left out: nothing reads them but Clone and  *)
(* the rendering of Desc, which is the tool.                               *)
(***************************************************************************)
EXTENDS Integers, Sequences, FiniteSets, FiniteSetsExt, SequencesExt

CONSTANTS
    Turns,      \* the requests made in the session
    Tools,
    NoTurn,     \* "no goal yet"
    MaxIter,    \* MaxIterations
    MaxCalls    \* the most tool calls one LLM reply makes

ASSUME TaskAssumption ==
    /\ NoTurn \notin Turns
    /\ MaxIter \in Nat /\ MaxCalls \in Nat

VARIABLES stored, at, task, iter, calls, outcomes, fresh

vars == <<stored, at, task, iter, calls, outcomes, fresh>>

Stages == {"", "planning", "executing", "confirming", "done"}
Status == {"todo", "doing", "done", "failed"}
Step == [turn : Turns, tool : Tools, status : Status]
TaskState == [goal : Turns \cup {NoTurn}, stage : Stages,
              steps : Seq(Step), pending : SUBSET Turns]

Empty == [goal |-> NoTurn, stage |-> "", steps |-> <<>>, pending |-> {}]

-----------------------------------------------------------------------------
(***************************************************************************)
(* UpdateTaskState, one operator per event.                                *)
(***************************************************************************)
\* Mutant of UserMessage: the message after a finished task sets a new goal.
UserMessageNewGoal(ts, turn) ==
    [ts EXCEPT !.goal  = IF @ = NoTurn \/ ts.stage = "done" THEN turn ELSE @,
               !.stage = IF @ \in {"", "done"} THEN "planning" ELSE @]

UserMessage(ts, turn) ==
    [ts EXCEPT !.goal  = IF @ = NoTurn THEN turn ELSE @,
               !.stage = IF @ \in {"", "done"} THEN "planning" ELSE @]

StepsWith(ts, tool, status) ==
    {i \in DOMAIN ts.steps : ts.steps[i].tool = tool /\ ts.steps[i].status = status}

\* The first waiting step of the tool starts, or a new one is appended.
ToolCall(ts, turn, tool) ==
    LET waiting == StepsWith(ts, tool, "todo")
    IN  [ts EXCEPT
            !.stage = "executing",
            !.steps = IF waiting # {}
                      THEN [@ EXCEPT ![Min(waiting)].status = "doing"]
                      ELSE Append(@, [turn |-> turn, tool |-> tool, status |-> "doing"])]

\* Mutant of ToolResult: a failed call leaves its step alone.
ToolResultSuccess(ts, tool, ok) ==
    LET doing == StepsWith(ts, tool, "doing")
    IN  IF doing = {} \/ ~ok THEN ts
        ELSE [ts EXCEPT !.steps[Max(doing)].status = "done"]

\* The last step of the tool that is under way gets the outcome.
ToolResult(ts, tool, ok) ==
    LET doing == StepsWith(ts, tool, "doing")
    IN  IF doing = {} THEN ts
        ELSE [ts EXCEPT !.steps[Max(doing)].status = IF ok THEN "done" ELSE "failed"]

FinalReply(ts, turn, marked) ==
    [ts EXCEPT !.pending = IF marked THEN @ \cup {turn} ELSE @,
               !.stage = IF marked THEN "confirming" ELSE "done"]

-----------------------------------------------------------------------------
Init ==
    /\ stored = Empty
    /\ at = [t \in Turns |-> "idle"]
    /\ task = [t \in Turns |-> Empty]
    /\ iter = [t \in Turns |-> 0]
    /\ calls = [t \in Turns |-> <<>>]
    /\ outcomes = [t \in Turns |-> <<>>]
    /\ fresh = {}

Goto(t, step) == at' = [at EXCEPT ![t] = step]

\* Mutant of Update: the copy is the stored object itself.
UpdateShared(t, new) ==
    /\ task' = [task EXCEPT ![t] = new]
    /\ stored' = new

\* A turn changes its own copy only: memTaskStore hands out and keeps clones.
Update(t, new) ==
    /\ task' = [task EXCEPT ![t] = new]
    /\ UNCHANGED stored

\* memMgr.Load, before the user's message is saved.
Load(t) ==
    /\ at[t] = "idle"
    /\ task' = [task EXCEPT ![t] = stored]
    /\ Goto(t, "loaded")
    /\ UNCHANGED <<stored, iter, calls, outcomes>>
    /\ fresh' = fresh \cup {t}

HearUser(t) ==
    /\ at[t] = "loaded"
    /\ Update(t, UserMessage(task[t], t))
    /\ Goto(t, "asking")
    /\ UNCHANGED <<iter, calls, outcomes, fresh>>

\* The calls of the reply whose result has not come.
Unanswered(t) == Len(calls[t]) - Len(outcomes[t])

\* Mutant of CallTool: the last call to the LLM offers the tools too.
CallToolUnbounded(t) ==
    /\ at[t] \in {"asking", "calling"}
    /\ iter[t] <= MaxIter /\ Unanswered(t) < MaxCalls
    /\ \E tool \in Tools :
          /\ Update(t, ToolCall(task[t], t, tool))
          /\ calls' = [calls EXCEPT ![t] = Append(@, tool)]
    /\ Goto(t, "calling")
    /\ UNCHANGED <<iter, outcomes, fresh>>

\* One more call of a reply that calls tools; the LLM's last reply calls none.
CallTool(t) ==
    /\ at[t] \in {"asking", "calling"}
    /\ iter[t] < MaxIter /\ Unanswered(t) < MaxCalls
    /\ \E tool \in Tools :
          /\ Update(t, ToolCall(task[t], t, tool))
          /\ calls' = [calls EXCEPT ![t] = Append(@, tool)]
    /\ Goto(t, "calling")
    /\ UNCHANGED <<iter, outcomes, fresh>>

\* The result of the next call, when every call of the reply has been made.
HearResult(t) ==
    /\ at[t] \in {"calling", "tools"}
    /\ \E ok \in BOOLEAN :
          /\ Update(t, ToolResult(task[t], calls[t][Len(outcomes[t]) + 1], ok))
          /\ outcomes' = [outcomes EXCEPT ![t] = Append(@, ok)]
    /\ IF Unanswered(t) = 1
       THEN /\ iter' = [iter EXCEPT ![t] = @ + 1]
            /\ Goto(t, "asking")
       ELSE /\ Goto(t, "tools")
            /\ UNCHANGED iter
    /\ UNCHANGED <<calls, fresh>>

\* finalizeTask: the final reply, then Save.
Finalize(t) ==
    /\ at[t] = "asking"
    /\ \E marked \in BOOLEAN : stored' = FinalReply(task[t], t, marked)
    /\ task' = [task EXCEPT ![t] = Empty]
    /\ Goto(t, "closed")
    /\ fresh' = {}
    /\ UNCHANGED <<iter, calls, outcomes>>

\* Saving the question or calling the LLM failed, or something panicked: the
\* turn ends without Save.
GiveUp(t) ==
    /\ at[t] \in {"loaded", "asking", "calling", "tools"}
    /\ task' = [task EXCEPT ![t] = Empty]
    /\ Goto(t, "closed")
    /\ fresh' = fresh \ {t}
    /\ UNCHANGED <<stored, iter, calls, outcomes>>

\* The entry's TTL has passed.  Load does not see it from then on, whether or
\* not cleanup has removed it yet; a Save replaces it.
Expire ==
    /\ stored # Empty
    /\ stored' = Empty
    /\ fresh' = {}
    /\ UNCHANGED <<at, task, iter, calls, outcomes>>

\* The process restarts: the store is a map of the process.
Restart ==
    /\ \E t \in Turns : at[t] # "idle"
    /\ stored' = Empty
    /\ at' = [t \in Turns |-> IF at[t] = "idle" THEN "idle" ELSE "closed"]
    /\ task' = [t \in Turns |-> Empty]
    /\ fresh' = {}
    /\ UNCHANGED <<iter, calls, outcomes>>

Next ==
    \/ \E t \in Turns :
          Load(t) \/ HearUser(t) \/ CallTool(t) \/ HearResult(t) \/ Finalize(t) \/ GiveUp(t)
    \/ Expire
    \/ Restart

Spec == Init /\ [][Next]_vars
-----------------------------------------------------------------------------
TypeOK ==
    /\ stored \in TaskState
    /\ at \in [Turns -> {"idle", "loaded", "asking", "calling", "tools", "closed"}]
    /\ task \in [Turns -> TaskState]
    /\ iter \in [Turns -> 0 .. MaxIter]
    /\ calls \in [Turns -> Seq(Tools)]
    /\ outcomes \in [Turns -> Seq(BOOLEAN)]
    /\ fresh \subseteq Turns

\* Where the steps of turn u stand in ts.
StepsOf(ts, u) == {i \in DOMAIN ts.steps : ts.steps[i].turn = u}

\* A turn leaves all of its steps in the store, side by side in the order of
\* its calls, or none: a turn that failed half way leaves no trace, and a
\* turn's copy never gets mixed up with another's.  No stored step is rendered
\* as under way: each call event is answered by a result event before the
\* state is saved.
WholeTurns ==
    /\ \A i \in DOMAIN stored.steps : stored.steps[i].status \in {"done", "failed"}
    /\ \A u \in Turns : StepsOf(stored, u) # {} =>
          /\ at[u] = "closed"
          /\ \E k \in 0 .. Len(stored.steps) :
                /\ StepsOf(stored, u) = k + 1 .. k + Len(calls[u])
                /\ \A i \in DOMAIN calls[u] : stored.steps[k + i].tool = calls[u][i]

Failed(ts, u, tool) ==
    {i \in StepsOf(ts, u) : ts.steps[i].tool = tool /\ ts.steps[i].status = "failed"}

\* As many steps of a tool have failed as calls of it: parallel calls of the
\* same tool settle a step each and none is settled twice.
FailuresCounted ==
    \A u \in Turns, tool \in Tools : StepsOf(stored, u) # {} =>
        Cardinality(Failed(stored, u, tool))
        = Cardinality({i \in DOMAIN outcomes[u] : calls[u][i] = tool /\ ~outcomes[u][i]})

\* What is saved extends what was stored, and keeps its goal and its open
\* questions, unless the task has expired or the turn started before another
\* one saved: only such a late turn can undo the work of others.
Extends(ts, new) ==
    /\ IsPrefix(ts.steps, new.steps)
    /\ ts.goal # NoTurn => new.goal = ts.goal
    /\ ts.pending \subseteq new.pending

NothingForgotten ==
    [][\/ stored' = Empty
       \/ Extends(stored, stored')
       \/ \E t \in Turns \ fresh : at[t] # "closed" /\ at'[t] = "closed"]_stored
=============================================================================
