----------------------------- MODULE TaskProofs -----------------------------
(***************************************************************************)
(* Theorems about TaskMemory, for any number of turns, tools, replies and  *)
(* calls: type correctness, that a turn's steps are stored whole or not at *)
(* all, that failures are counted right, and that only a turn which        *)
(* outlived another one's save can undo what was stored.                   *)
(***************************************************************************)
EXTENDS TaskMemory, FiniteSetTheorems, WellFoundedInduction, TLAPS

Settled == {"done", "failed"}

\* Nothing is ever planned ahead: no step waits to be started.
NoneWaits(ts) == \A i \in DOMAIN ts.steps : ts.steps[i].status # "todo"

\* The i-th step of s gets a new status.
Restatus(s, i, status) == [s EXCEPT ![i].status = status]

Outcome(ok) == IF ok THEN "done" ELSE "failed"

\* The m-th step of ts is the only one that has changed.
Settles(ts, new, m, status) ==
    \A i \in 1 .. Len(ts.steps) :
        new.steps[i] = IF i = m THEN [ts.steps[m] EXCEPT !.status = status] ELSE ts.steps[i]

LEMMA MaxMember ==
    ASSUME NEW n \in Nat, NEW S \in SUBSET (1 .. n), S # {}
    PROVE  Max(S) \in S /\ \A y \in S : Max(S) >= y
  <1> DEFINE short == {d \in Nat : n - d \in S}
  <1>1. short \subseteq Nat /\ short # {}
    <2>1. PICK x \in S : TRUE
      OBVIOUS
    <2>2. n - x \in Nat /\ n - (n - x) = x
      BY <2>1
    <2>3. n - x \in short
      BY <2>1, <2>2
    <2> QED
      BY <2>3
  <1>2. PICK d \in short : \A m \in short : ~ <<m, d>> \in OpToRel(<, Nat)
    BY <1>1, NatLessThanWellFounded, WFMin
  <1>3. d \in Nat /\ n - d \in S /\ \A m \in short : ~ (m < d)
    BY <1>2 DEF OpToRel
  <1>4. ASSUME NEW y \in S PROVE n - d >= y
    <2>1. y \in Int /\ n - y \in Nat /\ n - (n - y) = y
      OBVIOUS
    <2>2. ~ (n - y < d)
      BY <1>3, <2>1
    <2> QED
      BY <1>3, <2>1, <2>2
  <1>5. \E x \in S : \A y \in S : x >= y
    BY <1>3, <1>4
  <1> QED
    BY <1>5 DEF Max

LEMMA StepsType ==
    ASSUME NEW ts \in TaskState
    PROVE  /\ ts.steps \in Seq(Step) /\ Len(ts.steps) \in Nat
           /\ DOMAIN ts.steps = 1 .. Len(ts.steps)
           /\ \A i \in DOMAIN ts.steps : ts.steps[i] \in Step
  <1>1. ts.steps \in Seq(Step)
    BY DEF TaskState
  <1> QED
    BY <1>1

LEMMA RestatusType ==
    ASSUME NEW s \in Seq(Step), NEW i \in DOMAIN s, NEW status \in Status
    PROVE  /\ Restatus(s, i, status) \in Seq(Step)
           /\ Len(Restatus(s, i, status)) = Len(s)
           /\ DOMAIN Restatus(s, i, status) = DOMAIN s
           /\ \A j \in DOMAIN s :
                 Restatus(s, i, status)[j] = IF j = i THEN [s[i] EXCEPT !.status = status] ELSE s[j]
  <1> DEFINE r == Restatus(s, i, status)
  <1>1. r = [j \in DOMAIN s |-> IF j = i THEN [s[i] EXCEPT !.status = status] ELSE s[j]]
    BY DEF Restatus
  <1>2. DOMAIN s = 1 .. Len(s) /\ Len(s) \in Nat /\ \A j \in DOMAIN s : s[j] \in Step
    OBVIOUS
  <1>3. [s[i] EXCEPT !.status = status] \in Step
    BY <1>2 DEF Step
  <1> HIDE DEF r
  <1>4. r \in [1 .. Len(s) -> Step]
    BY <1>1, <1>2, <1>3
  <1>5. r \in Seq(Step) /\ Len(r) = Len(s)
    BY <1>2, <1>4
  <1> QED
    BY <1>1, <1>2, <1>5 DEF r

LEMMA UserMessageChange ==
    ASSUME NEW ts \in TaskState, NEW t \in Turns
    PROVE  LET new == UserMessage(ts, t)
           IN  /\ new \in TaskState
               /\ new.steps = ts.steps /\ new.pending = ts.pending
               /\ ts.goal # NoTurn => new.goal = ts.goal
  BY DEF UserMessage, TaskState, Stages

LEMMA ToolCallChange ==
    ASSUME NEW ts \in TaskState, NEW t \in Turns, NEW tool \in Tools, NoneWaits(ts)
    PROVE  LET new == ToolCall(ts, t, tool)
           IN  /\ new \in TaskState
               /\ new.steps = Append(ts.steps, [turn |-> t, tool |-> tool, status |-> "doing"])
               /\ new.goal = ts.goal /\ new.pending = ts.pending
  <1> DEFINE more == [turn |-> t, tool |-> tool, status |-> "doing"]
             new == ToolCall(ts, t, tool)
  <1>1. StepsWith(ts, tool, "todo") = {}
    BY DEF NoneWaits, StepsWith
  <1>2. new = [ts EXCEPT !.stage = "executing", !.steps = Append(@, more)]
    BY <1>1 DEF ToolCall
  <1>3. more \in Step
    BY DEF Step, Status
  <1>4. Append(ts.steps, more) \in Seq(Step)
    BY <1>3, StepsType
  <1> HIDE DEF new, more
  <1> QED
    BY <1>2, <1>4 DEF TaskState, Stages, new, more

LEMMA ToolResultChange ==
    ASSUME NEW ts \in TaskState, NEW tool, NEW ok \in BOOLEAN
    PROVE  LET new == ToolResult(ts, tool, ok)
               doing == StepsWith(ts, tool, "doing")
           IN  /\ new \in TaskState
               /\ new.goal = ts.goal /\ new.pending = ts.pending
               /\ doing = {} => new = ts
               /\ doing # {} => \E m \in doing :
                     new.steps = Restatus(ts.steps, m, Outcome(ok))
  <1> DEFINE new == ToolResult(ts, tool, ok)
             doing == StepsWith(ts, tool, "doing")
             status == Outcome(ok)
  <1>1. CASE doing = {}
    BY <1>1 DEF ToolResult
  <1>2. CASE doing # {}
    <2>1. doing \in SUBSET (1 .. Len(ts.steps)) /\ Len(ts.steps) \in Nat
      BY StepsType DEF StepsWith
    <2>2. Max(doing) \in doing
      BY <1>2, <2>1, MaxMember
    <2>3. new = [ts EXCEPT !.steps[Max(doing)].status = status]
      BY <1>2 DEF ToolResult, Outcome
    <2> DEFINE m == Max(doing)
    <2>4. new = [ts EXCEPT !.steps = Restatus(ts.steps, m, status)]
      BY <2>3 DEF Restatus, TaskState
    <2>5. status \in Status /\ m \in DOMAIN ts.steps
      BY <2>1, <2>2, StepsType DEF Status, Outcome
    <2> HIDE DEF m, status, new, doing
    <2>6. Restatus(ts.steps, m, status) \in Seq(Step)
      BY <2>5, RestatusType, StepsType
    <2>7. /\ new \in TaskState /\ new.goal = ts.goal /\ new.pending = ts.pending
          /\ new.steps = Restatus(ts.steps, m, status)
      BY <2>4, <2>6 DEF TaskState
    <2>8. m \in doing
      BY <2>2 DEF m
    <2> QED
      BY <1>2, <2>7, <2>8 DEF new, doing, status
  <1> QED
    BY <1>1, <1>2

LEMMA FinalReplyChange ==
    ASSUME NEW ts \in TaskState, NEW t \in Turns, NEW marked \in BOOLEAN
    PROVE  LET new == FinalReply(ts, t, marked)
           IN  /\ new \in TaskState
               /\ new.steps = ts.steps /\ new.goal = ts.goal
               /\ ts.pending \subseteq new.pending
  BY DEF FinalReply, TaskState, Stages

LEMMA EmptyType ==
    Empty \in TaskState /\ DOMAIN Empty.steps = {} /\ Empty.goal = NoTurn /\ Empty.pending = {}
  <1>1. <<>> \in Seq(Step) /\ DOMAIN <<>> = {}
    OBVIOUS
  <1> QED
    BY <1>1 DEF Empty, TaskState, Stages

-----------------------------------------------------------------------------
(***************************************************************************)
(* Types.  That the loop variable keeps its bound and that a result finds  *)
(* its call rests on how many results are due at each statement.           *)
(***************************************************************************)
DueInv ==
    \A t \in Turns :
        /\ at[t] \in {"idle", "loaded"} => calls[t] = <<>> /\ outcomes[t] = <<>>
        /\ at[t] = "asking" => Len(outcomes[t]) = Len(calls[t])
        /\ at[t] \in {"calling", "tools"} => Len(outcomes[t]) < Len(calls[t]) /\ iter[t] < MaxIter

NoneWaiting == NoneWaits(stored) /\ \A t \in Turns : NoneWaits(task[t])

TypeInv == TypeOK /\ DueInv /\ NoneWaiting

LEMMA TypeInvInit == Init => TypeInv
  <1> SUFFICES ASSUME Init PROVE TypeInv
    OBVIOUS
  <1>1. NoneWaits(Empty)
    BY EmptyType DEF NoneWaits
  <1>2. /\ <<>> \in Seq(Tools) /\ <<>> \in Seq(BOOLEAN) /\ 0 \in 0 .. MaxIter
    BY TaskAssumption
  <1> QED
    BY <1>1, <1>2, EmptyType DEF Init, TypeInv, TypeOK, DueInv, NoneWaiting

\* A call's step is under way, the last of the steps.
LEMMA ToolCallSteps ==
    ASSUME NEW ts \in TaskState, NEW t \in Turns, NEW tool \in Tools, NoneWaits(ts)
    PROVE  LET new == ToolCall(ts, t, tool)
               len == Len(ts.steps)
           IN  /\ new \in TaskState /\ len \in Nat /\ NoneWaits(new)
               /\ Len(new.steps) = len + 1
               /\ DOMAIN ts.steps = 1 .. len /\ DOMAIN new.steps = 1 .. len + 1
               /\ \A i \in 1 .. len : new.steps[i] = ts.steps[i]
               /\ new.steps[len + 1] = [turn |-> t, tool |-> tool, status |-> "doing"]
               /\ new.goal = ts.goal /\ new.pending = ts.pending
  <1> DEFINE more == [turn |-> t, tool |-> tool, status |-> "doing"]
             new == ToolCall(ts, t, tool)
             len == Len(ts.steps)
  <1>1. /\ new \in TaskState /\ new.steps = Append(ts.steps, more)
        /\ new.goal = ts.goal /\ new.pending = ts.pending
    BY ToolCallChange
  <1>2. more.status = "doing"
    OBVIOUS
  <1> HIDE DEF new, more
  <1>3. /\ len \in Nat /\ DOMAIN ts.steps = 1 .. len /\ Len(new.steps) = len + 1
        /\ DOMAIN new.steps = 1 .. len + 1
        /\ \A i \in 1 .. len : new.steps[i] = ts.steps[i]
        /\ new.steps[len + 1] = more
    BY <1>1, StepsType
  <1>4. NoneWaits(new)
    BY <1>2, <1>3 DEF NoneWaits
  <1> QED
    BY <1>1, <1>3, <1>4 DEF new, more

\* A result settles one step of its tool that is under way, if there is one.
LEMMA ToolResultSteps ==
    ASSUME NEW ts \in TaskState, NEW tool, NEW ok \in BOOLEAN, NoneWaits(ts)
    PROVE  LET new == ToolResult(ts, tool, ok)
               doing == StepsWith(ts, tool, "doing")
               len == Len(ts.steps)
           IN  /\ new \in TaskState /\ len \in Nat /\ NoneWaits(new)
               /\ Len(new.steps) = len
               /\ DOMAIN ts.steps = 1 .. len /\ DOMAIN new.steps = 1 .. len
               /\ new.goal = ts.goal /\ new.pending = ts.pending
               /\ doing = {} => new = ts
               /\ doing # {} => \E m \in doing : Settles(ts, new, m, Outcome(ok))
  <1> DEFINE new == ToolResult(ts, tool, ok)
             doing == StepsWith(ts, tool, "doing")
             len == Len(ts.steps)
             status == Outcome(ok)
  <1>1. /\ new \in TaskState /\ new.goal = ts.goal /\ new.pending = ts.pending
        /\ doing = {} => new = ts
        /\ doing # {} => \E m \in doing : new.steps = Restatus(ts.steps, m, status)
    BY ToolResultChange
  <1>2. ts.steps \in Seq(Step) /\ len \in Nat /\ DOMAIN ts.steps = 1 .. len
    BY StepsType
  <1>3. doing \subseteq 1 .. len /\ status \in Status /\ status # "todo"
    BY <1>2 DEF StepsWith, Status, Outcome
  <1> HIDE DEF new, doing, status
  <1>4. CASE doing = {}
    BY <1>1, <1>2, <1>4 DEF new, doing
  <1>5. CASE doing # {}
    <2>1. PICK m \in doing : new.steps = Restatus(ts.steps, m, status)
      BY <1>1, <1>5
    <2>2. /\ Len(new.steps) = len /\ DOMAIN new.steps = 1 .. len
          /\ \A i \in 1 .. len :
                new.steps[i] = IF i = m THEN [ts.steps[m] EXCEPT !.status = status] ELSE ts.steps[i]
      BY <1>2, <1>3, <2>1, RestatusType
    <2>3. \A i \in 1 .. len : ts.steps[i] \in Step
      BY <1>2, StepsType
    <2>4. NoneWaits(new)
      <3> SUFFICES ASSUME NEW i \in 1 .. len PROVE new.steps[i].status # "todo"
        BY <2>2 DEF NoneWaits
      <3> QED
        BY <1>2, <1>3, <2>2, <2>3 DEF NoneWaits, Step
    <2> QED
      BY <1>1, <1>2, <1>5, <2>1, <2>2, <2>4 DEF new, doing, status, Settles
  <1> QED
    BY <1>4, <1>5

Lives == {"loaded", "asking", "calling", "tools"}

LEMMA TypeInvNext == TypeInv /\ [Next]_vars => TypeInv'
  <1> SUFFICES ASSUME TypeInv, [Next]_vars PROVE TypeInv'
    OBVIOUS
  <1> USE DEF TypeInv
  <1>0. /\ stored \in TaskState /\ task \in [Turns -> TaskState]
        /\ at \in [Turns -> {"idle", "loaded", "asking", "calling", "tools", "closed"}]
        /\ iter \in [Turns -> 0 .. MaxIter] /\ fresh \subseteq Turns
        /\ calls \in [Turns -> Seq(Tools)] /\ outcomes \in [Turns -> Seq(BOOLEAN)]
        /\ MaxIter \in Nat /\ MaxCalls \in Nat
        /\ NoneWaits(stored) /\ \A t \in Turns : NoneWaits(task[t])
        /\ Empty \in TaskState /\ NoneWaits(Empty)
    BY TaskAssumption, EmptyType DEF TypeOK, NoneWaiting, NoneWaits
  \* What a step of turn t has to keep.
  <1>1. ASSUME NEW t \in Turns, NEW ts \in TaskState, NEW step \in Lives \cup {"closed"},
               NoneWaits(ts), task' = [task EXCEPT ![t] = ts], at' = [at EXCEPT ![t] = step],
               stored' \in TaskState, NoneWaits(stored)', fresh' \subseteq Turns,
               iter' \in [Turns -> 0 .. MaxIter],
               calls' \in [Turns -> Seq(Tools)], outcomes' \in [Turns -> Seq(BOOLEAN)],
               \A u \in Turns \ {t} : iter'[u] = iter[u] /\ calls'[u] = calls[u] /\ outcomes'[u] = outcomes[u],
               step = "loaded" => calls'[t] = <<>> /\ outcomes'[t] = <<>>,
               step = "asking" => Len(outcomes'[t]) = Len(calls'[t]),
               step \in {"calling", "tools"} => Len(outcomes'[t]) < Len(calls'[t]) /\ iter'[t] < MaxIter
        PROVE  TypeInv'
    <2>1. TypeOK'
      BY <1>0, <1>1 DEF TypeOK, Lives
    <2>2. DueInv'
      BY <1>0, <1>1 DEF DueInv, Lives
    <2>3. NoneWaiting'
      <3>1. ASSUME NEW u \in Turns PROVE NoneWaits(task'[u])
        <4>1. task'[u] = ts \/ task'[u] = task[u]
          BY <1>0, <1>1
        <4> QED
          BY <1>0, <1>1, <4>1
      <3> QED
        BY <1>1, <3>1 DEF NoneWaiting, NoneWaits
    <2> QED
      BY <2>1, <2>2, <2>3
  <1>2. ASSUME NEW t \in Turns, Load(t) PROVE TypeInv'
    BY <1>0, <1>1, <1>2 DEF Load, Goto, DueInv, Lives
  <1>3. ASSUME NEW t \in Turns, HearUser(t) PROVE TypeInv'
    <2>1. /\ task[t] \in TaskState /\ at[t] = "loaded" /\ calls[t] = <<>> /\ outcomes[t] = <<>>
      BY <1>0, <1>3 DEF HearUser, DueInv
    <2>2. UserMessage(task[t], t) \in TaskState /\ NoneWaits(UserMessage(task[t], t))
      <3>1. /\ UserMessage(task[t], t) \in TaskState
            /\ UserMessage(task[t], t).steps = task[t].steps
        BY <2>1, UserMessageChange
      <3>2. NoneWaits(task[t])
        BY <1>0
      <3> QED
        BY <3>1, <3>2 DEF NoneWaits
    <2> QED
      BY <1>0, <1>1, <1>3, <2>1, <2>2 DEF HearUser, Update, Goto, Lives
  <1>4. ASSUME NEW t \in Turns, CallTool(t) PROVE TypeInv'
    <2>1. PICK tool \in Tools : /\ Update(t, ToolCall(task[t], t, tool))
                                /\ calls' = [calls EXCEPT ![t] = Append(@, tool)]
      BY <1>4 DEF CallTool
    <2>2. /\ task[t] \in TaskState /\ NoneWaits(task[t])
          /\ calls[t] \in Seq(Tools) /\ outcomes[t] \in Seq(BOOLEAN)
          /\ Len(calls[t]) \in Nat /\ Len(outcomes[t]) \in Nat
      BY <1>0
    <2>3. ToolCall(task[t], t, tool) \in TaskState /\ NoneWaits(ToolCall(task[t], t, tool))
      BY <2>2, ToolCallSteps
    <2>4. /\ calls'[t] = Append(calls[t], tool) /\ Len(calls'[t]) = Len(calls[t]) + 1
          /\ calls' \in [Turns -> Seq(Tools)]
      BY <1>0, <2>1, <2>2
    <2>5. /\ at[t] \in {"asking", "calling"} /\ iter[t] < MaxIter
          /\ at' = [at EXCEPT ![t] = "calling"] /\ UNCHANGED <<iter, outcomes, fresh>>
      BY <1>4 DEF CallTool, Goto
    <2>6. Len(outcomes[t]) <= Len(calls[t])
      BY <2>2, <2>5 DEF DueInv
    <2>7. task' = [task EXCEPT ![t] = ToolCall(task[t], t, tool)] /\ stored' = stored
      BY <2>1 DEF Update
    <2>8. Len(outcomes'[t]) < Len(calls'[t]) /\ iter'[t] < MaxIter
      BY <2>2, <2>4, <2>5, <2>6
    <2>9. \A u \in Turns \ {t} : calls'[u] = calls[u]
      BY <1>0, <2>1
    <2> QED
      BY <1>0, <1>1, <2>3, <2>4, <2>5, <2>7, <2>8, <2>9 DEF Lives, NoneWaits
  <1>5. ASSUME NEW t \in Turns, HearResult(t) PROVE TypeInv'
    <2> DEFINE tool == calls[t][Len(outcomes[t]) + 1]
    <2>1. PICK ok \in BOOLEAN : /\ Update(t, ToolResult(task[t], tool, ok))
                                /\ outcomes' = [outcomes EXCEPT ![t] = Append(@, ok)]
      BY <1>5 DEF HearResult
    <2> HIDE DEF tool
    <2>2. /\ task[t] \in TaskState /\ NoneWaits(task[t])
          /\ calls[t] \in Seq(Tools) /\ outcomes[t] \in Seq(BOOLEAN)
          /\ Len(calls[t]) \in Nat /\ Len(outcomes[t]) \in Nat
      BY <1>0
    <2>3. ToolResult(task[t], tool, ok) \in TaskState /\ NoneWaits(ToolResult(task[t], tool, ok))
      BY <2>2, ToolResultSteps
    <2>4. /\ outcomes'[t] = Append(outcomes[t], ok) /\ Len(outcomes'[t]) = Len(outcomes[t]) + 1
          /\ outcomes' \in [Turns -> Seq(BOOLEAN)]
      BY <1>0, <2>1, <2>2
    <2>5. /\ at[t] \in {"calling", "tools"} /\ UNCHANGED <<calls, fresh>>
          /\ \/ /\ Unanswered(t) = 1 /\ iter' = [iter EXCEPT ![t] = @ + 1]
                /\ at' = [at EXCEPT ![t] = "asking"]
             \/ /\ Unanswered(t) # 1 /\ iter' = iter
                /\ at' = [at EXCEPT ![t] = "tools"]
      BY <1>5 DEF HearResult, Goto
    <2>6. Len(outcomes[t]) < Len(calls[t]) /\ iter[t] < MaxIter
      BY <2>5 DEF DueInv
    <2>7. task' = [task EXCEPT ![t] = ToolResult(task[t], tool, ok)] /\ stored' = stored
      BY <2>1 DEF Update
    <2>8. \A u \in Turns \ {t} : outcomes'[u] = outcomes[u]
      BY <1>0, <2>1
    <2>9. CASE Unanswered(t) = 1
      <3>1. /\ iter' \in [Turns -> 0 .. MaxIter]
            /\ \A u \in Turns \ {t} : iter'[u] = iter[u]
        <4>1. iter[t] \in 0 .. MaxIter /\ iter[t] + 1 \in 0 .. MaxIter
          BY <1>0, <2>6
        <4> QED
          BY <1>0, <2>5, <2>9, <4>1
      <3>2. Len(outcomes'[t]) = Len(calls'[t])
        BY <2>2, <2>4, <2>5, <2>9 DEF Unanswered
      <3>3. at' = [at EXCEPT ![t] = "asking"] /\ calls' = calls /\ fresh' = fresh
        BY <2>5, <2>9
      <3> QED
        BY <1>0, <1>1, <2>3, <2>4, <2>7, <2>8, <3>1, <3>2, <3>3 DEF Lives, NoneWaits
    <2>10. CASE Unanswered(t) # 1
      <3>1. Len(outcomes'[t]) < Len(calls'[t]) /\ iter'[t] < MaxIter
        BY <2>2, <2>4, <2>5, <2>6, <2>10 DEF Unanswered
      <3>2. at' = [at EXCEPT ![t] = "tools"] /\ iter' = iter /\ calls' = calls /\ fresh' = fresh
        BY <2>5, <2>10
      <3> QED
        BY <1>0, <1>1, <2>3, <2>4, <2>7, <2>8, <3>1, <3>2 DEF Lives, NoneWaits
    <2> QED
      BY <2>9, <2>10
  <1>6. ASSUME NEW t \in Turns, Finalize(t) PROVE TypeInv'
    <2>1. PICK marked \in BOOLEAN : stored' = FinalReply(task[t], t, marked)
      BY <1>6 DEF Finalize
    <2>2. FinalReply(task[t], t, marked) \in TaskState /\ NoneWaits(FinalReply(task[t], t, marked))
      <3>1. /\ FinalReply(task[t], t, marked) \in TaskState
            /\ FinalReply(task[t], t, marked).steps = task[t].steps
        BY <1>0, FinalReplyChange
      <3>2. NoneWaits(task[t])
        BY <1>0
      <3> QED
        BY <3>1, <3>2 DEF NoneWaits
    <2>3. stored' \in TaskState /\ NoneWaits(stored)'
      BY <2>1, <2>2
    <2> QED
      BY <1>0, <1>1, <1>6, <2>3 DEF Finalize, Goto
  <1>7. ASSUME NEW t \in Turns, GiveUp(t) PROVE TypeInv'
    <2>1. /\ task' = [task EXCEPT ![t] = Empty] /\ at' = [at EXCEPT ![t] = "closed"]
          /\ fresh' \subseteq Turns /\ UNCHANGED <<stored, iter, calls, outcomes>>
      BY <1>0, <1>7 DEF GiveUp, Goto
    <2> QED
      BY <1>0, <1>1, <2>1 DEF NoneWaits
  <1>8. CASE Expire
    BY <1>0, <1>8 DEF Expire, TypeOK, DueInv, NoneWaiting, NoneWaits
  <1>9. CASE Restart
    BY <1>0, <1>9 DEF Restart, TypeOK, DueInv, NoneWaiting, NoneWaits
  <1>10. CASE UNCHANGED vars
    BY <1>10 DEF vars, TypeOK, DueInv, NoneWaiting, NoneWaits
  <1> QED
    BY <1>2, <1>3, <1>4, <1>5, <1>6, <1>7, <1>8, <1>9, <1>10 DEF Next

LEMMA TypeInvariance == Spec => []TypeInv
  BY TypeInvInit, TypeInvNext, PTL DEF Spec

\* Every task state is well formed, and no turn calls tools more than MaxIter
\* times, for any number of calls a reply makes.
THEOREM TaskTypeOK == Spec => []TypeOK
  BY TypeInvariance, PTL DEF TypeInv

-----------------------------------------------------------------------------
(***************************************************************************)
(* Whole turns.  What a turn's copy holds of the turns before it, and the  *)
(* store of every turn, is what they left; the turn's own steps are the    *)
(* last ones of its copy, those still under way as many as the results     *)
(* that have not come, tool by tool.  c are a turn's calls, o the outcomes *)
(* it has been told of.                                                    *)
(***************************************************************************)
Block(ts, u, c, k) ==
    /\ StepsOf(ts, u) = k + 1 .. k + Len(c)
    /\ \A i \in DOMAIN c : ts.steps[k + i].tool = c[i]

Doing(ts, u, tool) == {i \in StepsOf(ts, u) : ts.steps[i].tool = tool /\ ts.steps[i].status = "doing"}

Awaited(c, o, tool) == {i \in DOMAIN c : i > Len(o) /\ c[i] = tool}

FailedCalls(c, o, tool) == {i \in DOMAIN o : c[i] = tool /\ ~o[i]}

Counted(ts, u, c, o) ==
    \A tool \in Tools : Cardinality(Failed(ts, u, tool)) = Cardinality(FailedCalls(c, o, tool))

\* A turn that has stopped at "step" has all of its steps in ts, or none.
Left(ts, u, step, c, o) ==
    StepsOf(ts, u) # {} =>
        /\ step = "closed"
        /\ \E k \in 0 .. Len(ts.steps) : Block(ts, u, c, k)
        /\ \A i \in StepsOf(ts, u) : ts.steps[i].status \in Settled
        /\ Counted(ts, u, c, o)

Own(ts, t, c, o) ==
    /\ Len(c) <= Len(ts.steps)
    /\ Block(ts, t, c, Len(ts.steps) - Len(c))
    /\ \A tool \in Tools : Cardinality(Doing(ts, t, tool)) = Cardinality(Awaited(c, o, tool))
    /\ Counted(ts, t, c, o)

\* Only the steps of the turn at work are under way.
OthersSettled(ts, t) ==
    \A i \in DOMAIN ts.steps : ts.steps[i].turn # t => ts.steps[i].status \in Settled

LEMMA FiniteIndices ==
    ASSUME NEW n \in Nat, NEW S \in SUBSET (1 .. n)
    PROVE  /\ IsFiniteSet(S) /\ Cardinality(S) \in Nat
           /\ Cardinality(S) = 0 <=> S = {}
           /\ \A x : /\ Cardinality(S \cup {x}) = IF x \in S THEN Cardinality(S) ELSE Cardinality(S) + 1
                     /\ Cardinality(S \ {x}) = IF x \in S THEN Cardinality(S) - 1 ELSE Cardinality(S)
  <1>1. IsFiniteSet(1 .. n)
    BY FS_Interval
  <1>2. IsFiniteSet(S)
    BY <1>1, FS_Subset
  <1> QED
    BY <1>2, FS_CardinalityType, FS_EmptySet, FS_AddElement, FS_RemoveElement

\* The sets that are counted are sets of indices.
LEMMA CountedSets ==
    ASSUME NEW ts \in TaskState, NEW u, NEW c \in Seq(Tools), NEW o \in Seq(BOOLEAN), NEW tool
    PROVE  /\ Doing(ts, u, tool) \subseteq 1 .. Len(ts.steps)
           /\ Failed(ts, u, tool) \subseteq 1 .. Len(ts.steps)
           /\ StepsOf(ts, u) \subseteq 1 .. Len(ts.steps)
           /\ Awaited(c, o, tool) \subseteq 1 .. Len(c)
           /\ FailedCalls(c, o, tool) \subseteq 1 .. Len(o)
           /\ Len(ts.steps) \in Nat /\ Len(c) \in Nat /\ Len(o) \in Nat
           /\ DOMAIN c = 1 .. Len(c) /\ DOMAIN o = 1 .. Len(o)
           /\ DOMAIN ts.steps = 1 .. Len(ts.steps)
  <1>1. DOMAIN ts.steps = 1 .. Len(ts.steps) /\ Len(ts.steps) \in Nat
    BY StepsType
  <1>2. DOMAIN c = 1 .. Len(c) /\ Len(c) \in Nat /\ DOMAIN o = 1 .. Len(o) /\ Len(o) \in Nat
    OBVIOUS
  <1> QED
    BY <1>1, <1>2 DEF Doing, Failed, StepsOf, Awaited, FailedCalls

\* Only the steps of a task state matter.
LEMMA SameSteps ==
    ASSUME NEW ts, NEW new, new.steps = ts.steps, NEW u, NEW step, NEW c, NEW o
    PROVE  /\ Left(ts, u, step, c, o) => Left(new, u, step, c, o)
           /\ Own(ts, u, c, o) => Own(new, u, c, o)
  <1>1. StepsOf(new, u) = StepsOf(ts, u)
    BY DEF StepsOf
  <1>2. \A tool : Doing(new, u, tool) = Doing(ts, u, tool) /\ Failed(new, u, tool) = Failed(ts, u, tool)
    BY <1>1 DEF Doing, Failed
  <1>3. \A k : Block(new, u, c, k) <=> Block(ts, u, c, k)
    BY <1>1 DEF Block
  <1>4. Counted(new, u, c, o) <=> Counted(ts, u, c, o)
    BY <1>2 DEF Counted
  <1> QED
    BY <1>1, <1>2, <1>3, <1>4 DEF Left, Own

LEMMA CallOwn ==
    ASSUME NEW ts \in TaskState, NEW t \in Turns, NEW tool \in Tools, NoneWaits(ts),
           NEW c \in Seq(Tools), NEW o \in Seq(BOOLEAN), Len(o) <= Len(c), Own(ts, t, c, o)
    PROVE  Own(ToolCall(ts, t, tool), t, Append(c, tool), o)
  <1> DEFINE new == ToolCall(ts, t, tool)
             len == Len(ts.steps)
             more == Append(c, tool)
             n == Len(c)
  <1>1. /\ new \in TaskState /\ len \in Nat
        /\ Len(new.steps) = len + 1 /\ DOMAIN new.steps = 1 .. len + 1 /\ DOMAIN ts.steps = 1 .. len
        /\ \A i \in 1 .. len : new.steps[i] = ts.steps[i]
        /\ new.steps[len + 1] = [turn |-> t, tool |-> tool, status |-> "doing"]
    BY ToolCallSteps
  <1>2. /\ n \in Nat /\ DOMAIN c = 1 .. n /\ more \in Seq(Tools) /\ Len(more) = n + 1
        /\ DOMAIN more = 1 .. n + 1 /\ more[n + 1] = tool
        /\ \A i \in 1 .. n : more[i] = c[i]
        /\ Len(o) \in Nat /\ DOMAIN o = 1 .. Len(o) /\ Len(o) <= n
    OBVIOUS
  <1>3. n <= len /\ StepsOf(ts, t) = (len - n) + 1 .. (len - n) + n
        /\ \A i \in 1 .. n : ts.steps[(len - n) + i].tool = c[i]
    BY <1>2 DEF Own, Block
  <1> HIDE DEF new, len, more, n
  <1>4. /\ new.steps[len + 1].turn = t /\ new.steps[len + 1].tool = tool
        /\ new.steps[len + 1].status = "doing"
    BY <1>1
  <1>5. StepsOf(new, t) = StepsOf(ts, t) \cup {len + 1} /\ len + 1 \notin StepsOf(ts, t)
    BY <1>1, <1>4 DEF StepsOf
  <1>6. Block(new, t, more, Len(new.steps) - Len(more))
    <2>1. Len(new.steps) - Len(more) = len - n
      BY <1>1, <1>2
    <2>2. StepsOf(new, t) = (len - n) + 1 .. (len - n) + (n + 1)
      <3>1. /\ (len - n) + n = len /\ (len - n) + (n + 1) = len + 1
            /\ len - n \in Nat /\ (len - n) + 1 <= len + 1
        BY <1>1, <1>2, <1>3
      <3>2. StepsOf(new, t) = ((len - n) + 1 .. len) \cup {len + 1}
        BY <1>3, <1>5, <3>1
      <3>3. ((len - n) + 1 .. len) \cup {len + 1} = (len - n) + 1 .. len + 1
        BY <1>1, <3>1
      <3> QED
        BY <3>1, <3>2, <3>3
    <2>3. ASSUME NEW i \in 1 .. n + 1 PROVE new.steps[(len - n) + i].tool = more[i]
      <3>1. CASE i = n + 1
        <4>1. (len - n) + i = len + 1
          BY <1>1, <1>2, <3>1
        <4> QED
          BY <1>2, <1>4, <3>1, <4>1
      <3>2. CASE i \in 1 .. n
        <4>1. (len - n) + i \in 1 .. len
          BY <1>1, <1>2, <1>3, <3>2
        <4> QED
          BY <1>1, <1>2, <1>3, <3>2, <4>1
      <3> QED
        BY <1>2, <3>1, <3>2
    <2> QED
      BY <1>2, <2>1, <2>2, <2>3 DEF Block
  <1>7. ASSUME NEW x \in Tools
        PROVE  Cardinality(Doing(new, t, x)) = Cardinality(Awaited(more, o, x))
    <2>1. Doing(new, t, x) = IF x = tool THEN Doing(ts, t, x) \cup {len + 1} ELSE Doing(ts, t, x)
      BY <1>1, <1>4, <1>5 DEF Doing, StepsOf
    <2>2. Awaited(more, o, x) = IF x = tool THEN Awaited(c, o, x) \cup {n + 1} ELSE Awaited(c, o, x)
      BY <1>2 DEF Awaited
    <2>3. len + 1 \notin Doing(ts, t, x) /\ n + 1 \notin Awaited(c, o, x)
      BY <1>2, <1>5 DEF Doing, Awaited
    <2>4. /\ Doing(ts, t, x) \in SUBSET (1 .. len) /\ Awaited(c, o, x) \in SUBSET (1 .. n)
      BY CountedSets DEF len, n
    <2>5. Cardinality(Doing(ts, t, x)) = Cardinality(Awaited(c, o, x))
      BY DEF Own
    <2>6. Cardinality(Doing(ts, t, x) \cup {len + 1}) = Cardinality(Doing(ts, t, x)) + 1
      BY <1>1, <2>3, <2>4, FiniteIndices
    <2>7. Cardinality(Awaited(c, o, x) \cup {n + 1}) = Cardinality(Awaited(c, o, x)) + 1
      BY <1>2, <2>3, <2>4, FiniteIndices
    <2> QED
      BY <2>1, <2>2, <2>5, <2>6, <2>7
  <1>8. Counted(new, t, more, o)
    <2> SUFFICES ASSUME NEW x \in Tools
                 PROVE  Cardinality(Failed(new, t, x)) = Cardinality(FailedCalls(more, o, x))
      BY DEF Counted
    <2>1. Failed(new, t, x) = Failed(ts, t, x)
      BY <1>1, <1>4, <1>5 DEF Failed, StepsOf
    <2>2. FailedCalls(more, o, x) = FailedCalls(c, o, x)
      BY <1>2 DEF FailedCalls
    <2> QED
      BY <2>1, <2>2 DEF Own, Counted
  <1>9. Len(more) <= Len(new.steps)
    BY <1>1, <1>2, <1>3
  <1> QED
    BY <1>6, <1>7, <1>8, <1>9 DEF Own, new, more

LEMMA CallOthers ==
    ASSUME NEW ts \in TaskState, NEW t \in Turns, NEW tool \in Tools, NoneWaits(ts),
           NEW u \in Turns \ {t}, NEW step, NEW c \in Seq(Tools), NEW o \in Seq(BOOLEAN),
           Left(ts, u, step, c, o)
    PROVE  Left(ToolCall(ts, t, tool), u, step, c, o)
  <1> DEFINE new == ToolCall(ts, t, tool)
             len == Len(ts.steps)
  <1>1. /\ new \in TaskState /\ len \in Nat
        /\ Len(new.steps) = len + 1 /\ DOMAIN new.steps = 1 .. len + 1 /\ DOMAIN ts.steps = 1 .. len
        /\ \A i \in 1 .. len : new.steps[i] = ts.steps[i]
        /\ new.steps[len + 1] = [turn |-> t, tool |-> tool, status |-> "doing"]
    BY ToolCallSteps
  <1> HIDE DEF new, len
  <1>2. StepsOf(new, u) = StepsOf(ts, u) /\ StepsOf(ts, u) \subseteq 1 .. len
    <2>1. new.steps[len + 1].turn = t
      BY <1>1
    <2> QED
      BY <1>1, <2>1 DEF StepsOf
  <1>3. \A x : Failed(new, u, x) = Failed(ts, u, x)
    BY <1>1, <1>2 DEF Failed
  <1>4. ASSUME NEW k \in 0 .. len, Block(ts, u, c, k) PROVE Block(new, u, c, k)
    <2>1. DOMAIN c = 1 .. Len(c) /\ Len(c) \in Nat
      OBVIOUS
    <2>2. ASSUME NEW i \in 1 .. Len(c) PROVE new.steps[k + i].tool = c[i]
      <3>1. k + i \in k + 1 .. k + Len(c)
        BY <2>1
      <3>2. k + i \in 1 .. len
        BY <1>2, <1>4, <3>1 DEF Block
      <3> QED
        BY <1>1, <1>4, <2>1, <3>2 DEF Block
    <2> QED
      BY <1>2, <1>4, <2>1, <2>2 DEF Block
  <1>5. Left(new, u, step, c, o)
    <2> SUFFICES ASSUME StepsOf(ts, u) # {}
                 PROVE  /\ step = "closed"
                        /\ \E k \in 0 .. len + 1 : Block(new, u, c, k)
                        /\ \A i \in StepsOf(new, u) : new.steps[i].status \in Settled
                        /\ Counted(new, u, c, o)
      BY <1>1, <1>2 DEF Left
    <2>1. PICK k \in 0 .. len : Block(ts, u, c, k)
      BY DEF Left, len
    <2>2. Block(new, u, c, k) /\ k \in 0 .. len + 1
      BY <1>1, <1>4, <2>1
    <2>3. \A i \in StepsOf(new, u) : new.steps[i].status \in Settled
      BY <1>1, <1>2 DEF Left
    <2>4. Counted(new, u, c, o)
      BY <1>3 DEF Left, Counted
    <2> QED
      BY <2>2, <2>3, <2>4 DEF Left
  <1> QED
    BY <1>5 DEF new

LEMMA ResultOwn ==
    ASSUME NEW ts \in TaskState, NEW t \in Turns, NoneWaits(ts), OthersSettled(ts, t),
           NEW c \in Seq(Tools), NEW o \in Seq(BOOLEAN), Len(o) < Len(c), Own(ts, t, c, o),
           NEW ok \in BOOLEAN
    PROVE  LET tool == c[Len(o) + 1]
               new == ToolResult(ts, tool, ok)
           IN  /\ Own(new, t, c, Append(o, ok))
               /\ \E m \in StepsOf(ts, t) :
                     /\ ts.steps[m].status = "doing"
                     /\ Len(new.steps) = Len(ts.steps) /\ DOMAIN new.steps = DOMAIN ts.steps
                     /\ \A i \in DOMAIN ts.steps :
                           /\ i # m => new.steps[i] = ts.steps[i]
                           /\ i = m => /\ new.steps[i].turn = t
                                       /\ new.steps[i].status \in Settled
  <1> DEFINE k == Len(o) + 1
             tool == c[k]
             new == ToolResult(ts, tool, ok)
             len == Len(ts.steps)
             more == Append(o, ok)
             status == Outcome(ok)
  <1>1. /\ Len(c) \in Nat /\ DOMAIN c = 1 .. Len(c) /\ Len(o) \in Nat /\ DOMAIN o = 1 .. Len(o)
        /\ more \in Seq(BOOLEAN) /\ Len(more) = k /\ DOMAIN more = 1 .. k /\ more[k] = ok
        /\ \A i \in 1 .. Len(o) : more[i] = o[i]
        /\ k \in 1 .. Len(c) /\ tool \in Tools
    OBVIOUS
  <1>2. /\ len \in Nat /\ DOMAIN ts.steps = 1 .. len /\ \A i \in 1 .. len : ts.steps[i] \in Step
        /\ StepsOf(ts, t) \subseteq 1 .. len
    BY StepsType DEF StepsOf
  <1> HIDE DEF tool, k, len, more
  <1>3. StepsWith(ts, tool, "doing") = Doing(ts, t, tool)
    BY DEF StepsWith, Doing, StepsOf, OthersSettled, Settled
  <1>4. Doing(ts, t, tool) # {}
    <2>1. k \in Awaited(c, o, tool)
      BY <1>1 DEF Awaited, tool, k
    <2>2. Awaited(c, o, tool) \in SUBSET (1 .. Len(c)) /\ Doing(ts, t, tool) \in SUBSET (1 .. len)
      BY CountedSets DEF len
    <2>3. Cardinality(Awaited(c, o, tool)) # 0
      BY <1>1, <2>1, <2>2, FiniteIndices
    <2>4. Cardinality(Doing(ts, t, tool)) # 0
      BY <1>1, <2>3 DEF Own
    <2>5. Cardinality(Doing(ts, t, tool)) = 0 <=> Doing(ts, t, tool) = {}
      BY <1>2, <2>2, FiniteIndices
    <2> QED
      BY <2>4, <2>5
  <1>5. PICK m \in Doing(ts, t, tool) :
           /\ new \in TaskState /\ Len(new.steps) = len /\ DOMAIN new.steps = 1 .. len
           /\ \A i \in 1 .. len :
                 new.steps[i] = IF i = m THEN [ts.steps[m] EXCEPT !.status = status] ELSE ts.steps[i]
    <2> DEFINE doing == StepsWith(ts, tool, "doing")
    <2>1. /\ new \in TaskState /\ Len(new.steps) = len /\ DOMAIN new.steps = 1 .. len
          /\ doing # {} => \E m \in doing : Settles(ts, new, m, status)
      BY ToolResultSteps DEF len
    <2>2. doing = Doing(ts, t, tool)
      BY <1>3
    <2> HIDE DEF new, doing, status
    <2>3. PICK m \in doing : Settles(ts, new, m, status)
      BY <1>4, <2>1, <2>2
    <2> QED
      BY <2>1, <2>2, <2>3 DEF Settles, len
  <1>6. m \in StepsOf(ts, t) /\ m \in 1 .. len /\ ts.steps[m] \in Step
        /\ ts.steps[m].turn = t /\ ts.steps[m].tool = tool /\ ts.steps[m].status = "doing"
    BY <1>2, <1>5 DEF Doing, StepsOf
  <1>7. status \in Settled /\ (status = "failed" <=> ~ok)
    BY DEF Settled, Outcome
  <1> HIDE DEF new, status
  <1>8. /\ new.steps[m].turn = t /\ new.steps[m].tool = tool /\ new.steps[m].status = status
        /\ \A i \in 1 .. len : i # m => new.steps[i] = ts.steps[i]
    BY <1>5, <1>6 DEF Step
  <1>9. \A i \in 1 .. len : new.steps[i].turn = ts.steps[i].turn /\ new.steps[i].tool = ts.steps[i].tool
    BY <1>6, <1>8
  <1>10. StepsOf(new, t) = StepsOf(ts, t)
    BY <1>2, <1>5, <1>9 DEF StepsOf
  <1>11. Block(new, t, c, Len(new.steps) - Len(c)) /\ Len(c) <= Len(new.steps)
    <2>1. Block(ts, t, c, len - Len(c)) /\ Len(c) <= len
      BY DEF Own, len
    <2>2. ASSUME NEW i \in DOMAIN c PROVE new.steps[(len - Len(c)) + i].tool = c[i]
      <3>1. (len - Len(c)) + i \in 1 .. len
        BY <1>1, <1>2, <2>1
      <3> QED
        BY <1>9, <2>1, <3>1 DEF Block
    <2> QED
      BY <1>5, <1>10, <2>1, <2>2 DEF Block
  <1>12. ASSUME NEW x \in Tools
         PROVE  Cardinality(Doing(new, t, x)) = Cardinality(Awaited(c, more, x))
    <2>1. Doing(new, t, x) = Doing(ts, t, x) \ {m}
      BY <1>2, <1>7, <1>8, <1>9, <1>10 DEF Doing, Settled
    <2>2. Awaited(c, more, x) = Awaited(c, o, x) \ {k}
      BY <1>1 DEF Awaited, k
    <2>3. m \in Doing(ts, t, x) <=> k \in Awaited(c, o, x)
      BY <1>1, <1>6 DEF Doing, Awaited, tool, k
    <2>4. Doing(ts, t, x) \in SUBSET (1 .. len) /\ Awaited(c, o, x) \in SUBSET (1 .. Len(c))
      BY CountedSets DEF len
    <2>5. Cardinality(Doing(ts, t, x)) = Cardinality(Awaited(c, o, x))
      BY DEF Own
    <2>6. Cardinality(Doing(ts, t, x) \ {m}) =
             IF m \in Doing(ts, t, x) THEN Cardinality(Doing(ts, t, x)) - 1
             ELSE Cardinality(Doing(ts, t, x))
      BY <1>2, <2>4, FiniteIndices
    <2>7. Cardinality(Awaited(c, o, x) \ {k}) =
             IF k \in Awaited(c, o, x) THEN Cardinality(Awaited(c, o, x)) - 1
             ELSE Cardinality(Awaited(c, o, x))
      BY <1>1, <2>4, FiniteIndices
    <2> QED
      BY <2>1, <2>2, <2>3, <2>5, <2>6, <2>7
  <1>13. Counted(new, t, c, more)
    <2> SUFFICES ASSUME NEW x \in Tools
                 PROVE  Cardinality(Failed(new, t, x)) = Cardinality(FailedCalls(c, more, x))
      BY DEF Counted
    <2>1. Failed(ts, t, x) \in SUBSET (1 .. len) /\ FailedCalls(c, o, x) \in SUBSET (1 .. Len(o))
      BY CountedSets DEF len
    <2>2. m \notin Failed(ts, t, x) /\ k \notin FailedCalls(c, o, x)
      BY <1>1, <1>6, <2>1 DEF Failed, k
    <2>3. Cardinality(Failed(ts, t, x)) = Cardinality(FailedCalls(c, o, x))
      BY DEF Own, Counted
    <2>4. CASE ~ok /\ x = tool
      <3>1. Failed(new, t, x) = Failed(ts, t, x) \cup {m}
        BY <1>2, <1>6, <1>7, <1>8, <1>10, <2>4 DEF Failed
      <3>2. FailedCalls(c, more, x) = FailedCalls(c, o, x) \cup {k}
        BY <1>1, <2>4 DEF FailedCalls, k, tool
      <3>3. Cardinality(Failed(ts, t, x) \cup {m}) = Cardinality(Failed(ts, t, x)) + 1
        BY <1>2, <2>1, <2>2, FiniteIndices
      <3>4. Cardinality(FailedCalls(c, o, x) \cup {k}) = Cardinality(FailedCalls(c, o, x)) + 1
        BY <1>1, <2>1, <2>2, FiniteIndices
      <3> QED
        BY <2>3, <3>1, <3>2, <3>3, <3>4
    <2>5. CASE ok \/ x # tool
      <3>1. Failed(new, t, x) = Failed(ts, t, x)
        BY <1>2, <1>6, <1>7, <1>8, <1>10, <2>5 DEF Failed
      <3>2. FailedCalls(c, more, x) = FailedCalls(c, o, x)
        BY <1>1, <2>5 DEF FailedCalls, k, tool
      <3> QED
        BY <2>3, <3>1, <3>2
    <2> QED
      BY <2>4, <2>5
  <1>14. Own(new, t, c, more)
    BY <1>11, <1>12, <1>13 DEF Own
  <1> QED
    BY <1>2, <1>5, <1>6, <1>7, <1>8, <1>14 DEF new, len, more, tool, k

LEMMA ResultOthers ==
    ASSUME NEW ts \in TaskState, NEW new \in TaskState, NEW t \in Turns, NEW m \in StepsOf(ts, t),
           Len(new.steps) = Len(ts.steps), DOMAIN new.steps = DOMAIN ts.steps,
           \A i \in DOMAIN ts.steps : /\ i # m => new.steps[i] = ts.steps[i]
                                      /\ i = m => new.steps[i].turn = t,
           NEW u \in Turns \ {t}, NEW step, NEW c \in Seq(Tools), NEW o \in Seq(BOOLEAN),
           Left(ts, u, step, c, o)
    PROVE  Left(new, u, step, c, o)
  <1>1. StepsOf(new, u) = StepsOf(ts, u) /\ m \notin StepsOf(ts, u)
    BY DEF StepsOf
  <1>2. \A i \in StepsOf(ts, u) : new.steps[i] = ts.steps[i]
    BY <1>1 DEF StepsOf
  <1>3. \A x : Failed(new, u, x) = Failed(ts, u, x)
    BY <1>1, <1>2 DEF Failed
  <1>4. ASSUME NEW k \in 0 .. Len(ts.steps), Block(ts, u, c, k) PROVE Block(new, u, c, k)
    <2>1. DOMAIN c = 1 .. Len(c) /\ Len(c) \in Nat
      OBVIOUS
    <2>2. ASSUME NEW i \in 1 .. Len(c) PROVE new.steps[k + i].tool = c[i]
      <3>1. k + i \in StepsOf(ts, u)
        BY <1>4, <2>1 DEF Block
      <3> QED
        BY <1>2, <1>4, <2>1, <3>1 DEF Block
    <2> QED
      BY <1>1, <1>4, <2>1, <2>2 DEF Block
  <1>5. \A i \in StepsOf(ts, u) : ts.steps[i].status \in Settled => new.steps[i].status \in Settled
    BY <1>2
  <1> QED
    BY <1>1, <1>3, <1>4, <1>5 DEF Left, Counted

\* When every result has come, the turn leaves what Left asks for.
LEMMA OwnLeft ==
    ASSUME NEW ts \in TaskState, NEW t \in Turns, NoneWaits(ts),
           NEW c \in Seq(Tools), NEW o \in Seq(BOOLEAN), Len(o) = Len(c), Own(ts, t, c, o)
    PROVE  Left(ts, t, "closed", c, o)
  <1>1. /\ Len(c) \in Nat /\ Len(ts.steps) \in Nat /\ DOMAIN ts.steps = 1 .. Len(ts.steps)
        /\ \A i \in DOMAIN ts.steps : ts.steps[i] \in Step
    BY StepsType
  <1>2. Len(ts.steps) - Len(c) \in 0 .. Len(ts.steps) /\ Block(ts, t, c, Len(ts.steps) - Len(c))
    BY <1>1 DEF Own
  <1>3. ASSUME NEW i \in StepsOf(ts, t) PROVE ts.steps[i].status \in Settled
    <2> DEFINE tool == ts.steps[i].tool
    <2>1. i \in DOMAIN ts.steps /\ ts.steps[i] \in Step /\ tool \in Tools
      BY <1>1 DEF StepsOf, Step
    <2> HIDE DEF tool
    <2>2. Awaited(c, o, tool) = {}
      <3>1. DOMAIN c = 1 .. Len(c) /\ Len(o) = Len(c)
        OBVIOUS
      <3> QED
        BY <1>1, <3>1 DEF Awaited
    <2>3. Cardinality(Doing(ts, t, tool)) = 0
      <3>1. Cardinality(Awaited(c, o, tool)) = 0
        BY <2>2, FS_EmptySet
      <3> QED
        BY <2>1, <3>1 DEF Own
    <2>4. Doing(ts, t, tool) = {}
      <3>1. Doing(ts, t, tool) \in SUBSET (1 .. Len(ts.steps))
        BY CountedSets
      <3> QED
        BY <1>1, <2>3, <3>1, FiniteIndices
    <2>5. ts.steps[i].status # "doing"
      BY <2>4 DEF Doing, tool
    <2> QED
      BY <2>1, <2>5 DEF NoneWaits, Step, Status, Settled
  <1> QED
    BY <1>2, <1>3 DEF Left, Own

\* A turn that has not stopped has no steps in ts, whatever it does next.
LEMMA NothingLeft ==
    ASSUME NEW ts, NEW u, NEW step, NEW c, NEW o, Left(ts, u, step, c, o), step # "closed"
    PROVE  StepsOf(ts, u) = {} /\ \A next, d, p : Left(ts, u, next, d, p)
  BY DEF Left

LEMMA OwnNothing ==
    ASSUME NEW ts \in TaskState, NEW t, StepsOf(ts, t) = {}
    PROVE  Own(ts, t, <<>>, <<>>)
  <1> DEFINE c == <<>>
             o == <<>>
  <1>1. /\ Len(ts.steps) \in Nat /\ Len(c) = 0 /\ DOMAIN c = {} /\ DOMAIN o = {}
    BY StepsType
  <1> HIDE DEF c, o
  <1>2. Block(ts, t, c, Len(ts.steps) - Len(c)) /\ Len(c) <= Len(ts.steps)
    BY <1>1 DEF Block
  <1>3. ASSUME NEW tool
        PROVE  Doing(ts, t, tool) = {} /\ Awaited(c, o, tool) = {}
               /\ Failed(ts, t, tool) = {} /\ FailedCalls(c, o, tool) = {}
    BY <1>1 DEF Doing, Awaited, Failed, FailedCalls
  <1>4. Own(ts, t, c, o)
    BY <1>2, <1>3 DEF Own, Counted
  <1> QED
    BY <1>4 DEF c, o

WholeInv ==
    /\ \A u \in Turns : Left(stored, u, at[u], calls[u], outcomes[u])
    /\ \A t \in Turns : at[t] \in Lives =>
          /\ Own(task[t], t, calls[t], outcomes[t])
          /\ \A u \in Turns \ {t} : Left(task[t], u, at[u], calls[u], outcomes[u])

LEMMA EmptyLeft ==
    ASSUME NEW u, NEW step, NEW c, NEW o
    PROVE  Left(Empty, u, step, c, o)
  BY EmptyType DEF Left, StepsOf

LEMMA WholeInvInit == Init => WholeInv
  BY EmptyLeft DEF Init, WholeInv, Lives

\* A step of turn t: the others keep what they have and cannot have seen it.
LEMMA WholeStep ==
    ASSUME WholeInv, NEW t \in Turns, at[t] # "closed",
           \A u \in Turns \ {t} : /\ at'[u] = at[u] /\ calls'[u] = calls[u]
                                  /\ outcomes'[u] = outcomes[u] /\ task'[u] = task[u],
           stored' = stored \/ \A u \in Turns : Left(stored', u, at'[u], calls'[u], outcomes'[u]),
           at'[t] \in Lives =>
              /\ Own(task'[t], t, calls'[t], outcomes'[t])
              /\ \A u \in Turns \ {t} : Left(task'[t], u, at[u], calls[u], outcomes[u])
    PROVE  WholeInv'
  <1>1. ASSUME NEW u \in Turns PROVE Left(stored', u, at'[u], calls'[u], outcomes'[u])
    <2>1. CASE stored' = stored
      <3>1. Left(stored, u, at[u], calls[u], outcomes[u])
        BY DEF WholeInv
      <3>2. CASE u = t
        BY <2>1, <3>1, <3>2, NothingLeft
      <3>3. CASE u # t
        BY <2>1, <3>1, <3>3
      <3> QED
        BY <3>2, <3>3
    <2> QED
      BY <2>1
  <1>2. ASSUME NEW v \in Turns, at'[v] \in Lives, NEW u \in Turns \ {v}
        PROVE  Left(task'[v], u, at'[u], calls'[u], outcomes'[u])
    <2>1. CASE v = t
      BY <1>2, <2>1
    <2>2. CASE v # t
      <3>1. Left(task[v], u, at[u], calls[u], outcomes[u]) /\ task'[v] = task[v]
        BY <1>2, <2>2 DEF WholeInv
      <3>2. CASE u = t
        BY <3>1, <3>2, NothingLeft
      <3>3. CASE u # t
        BY <3>1, <3>3
      <3> QED
        BY <3>2, <3>3
    <2> QED
      BY <2>1, <2>2
  <1>3. ASSUME NEW v \in Turns, at'[v] \in Lives
        PROVE  Own(task'[v], v, calls'[v], outcomes'[v])
    <2>1. CASE v = t
      BY <1>3, <2>1
    <2>2. CASE v # t
      <3>1. Own(task[v], v, calls[v], outcomes[v])
        BY <1>3, <2>2 DEF WholeInv
      <3> QED
        BY <2>2, <3>1
    <2> QED
      BY <2>1, <2>2
  <1> QED
    BY <1>1, <1>2, <1>3 DEF WholeInv

LEMMA WholeOthersSettled ==
    ASSUME TypeInv, WholeInv, NEW t \in Turns, at[t] \in Lives
    PROVE  OthersSettled(task[t], t)
  <1> SUFFICES ASSUME NEW i \in DOMAIN task[t].steps, task[t].steps[i].turn # t
               PROVE  task[t].steps[i].status \in Settled
    BY DEF OthersSettled
  <1>1. task[t] \in TaskState
    BY DEF TypeInv, TypeOK
  <1>2. task[t].steps[i] \in Step
    BY <1>1, StepsType
  <1> DEFINE u == task[t].steps[i].turn
  <1>3. u \in Turns \ {t} /\ i \in StepsOf(task[t], u)
    BY <1>2 DEF Step, StepsOf
  <1> HIDE DEF u
  <1>4. Left(task[t], u, at[u], calls[u], outcomes[u])
    BY <1>3 DEF WholeInv
  <1> QED
    BY <1>3, <1>4 DEF Left

LEMMA WholeInvNext == TypeInv /\ WholeInv /\ [Next]_vars => WholeInv'
  <1> SUFFICES ASSUME TypeInv, WholeInv, [Next]_vars PROVE WholeInv'
    OBVIOUS
  <1>0. /\ stored \in TaskState /\ task \in [Turns -> TaskState]
        /\ at \in [Turns -> {"idle", "loaded", "asking", "calling", "tools", "closed"}]
        /\ calls \in [Turns -> Seq(Tools)] /\ outcomes \in [Turns -> Seq(BOOLEAN)]
        /\ NoneWaits(stored) /\ \A t \in Turns : NoneWaits(task[t])
    BY DEF TypeInv, TypeOK, NoneWaiting
  <1>1. ASSUME NEW t \in Turns, at[t] \in Lives
        PROVE  /\ Own(task[t], t, calls[t], outcomes[t])
               /\ \A u \in Turns \ {t} : Left(task[t], u, at[u], calls[u], outcomes[u])
    BY <1>1 DEF WholeInv
  <1>2. ASSUME NEW t \in Turns, Load(t) PROVE WholeInv'
    <2>1. /\ at[t] = "idle" /\ at' = [at EXCEPT ![t] = "loaded"]
          /\ task' = [task EXCEPT ![t] = stored] /\ UNCHANGED <<stored, calls, outcomes>>
          /\ calls[t] = <<>> /\ outcomes[t] = <<>>
      BY <1>2 DEF Load, Goto, TypeInv, DueInv
    <2>2. \A u \in Turns : Left(stored, u, at[u], calls[u], outcomes[u])
      BY DEF WholeInv
    <2>3. StepsOf(stored, t) = {}
      BY <2>1, <2>2, NothingLeft
    <2>4. Own(stored, t, calls[t], outcomes[t])
      BY <1>0, <2>1, <2>3, OwnNothing
    <2>5. task'[t] = stored /\ calls' = calls /\ outcomes' = outcomes /\ stored' = stored
      BY <1>0, <2>1
    <2>6. \A u \in Turns \ {t} : at'[u] = at[u] /\ task'[u] = task[u]
      BY <1>0, <2>1
    <2> QED
      BY <2>1, <2>2, <2>4, <2>5, <2>6, WholeStep
  <1>3. ASSUME NEW t \in Turns, HearUser(t) PROVE WholeInv'
    <2>1. /\ at[t] = "loaded" /\ at' = [at EXCEPT ![t] = "asking"]
          /\ task' = [task EXCEPT ![t] = UserMessage(task[t], t)]
          /\ stored' = stored /\ calls' = calls /\ outcomes' = outcomes
      BY <1>3 DEF HearUser, Update, Goto
    <2> DEFINE new == UserMessage(task[t], t)
    <2>2. new.steps = task[t].steps
      BY <1>0, UserMessageChange
    <2> HIDE DEF new
    <2>3. /\ Own(new, t, calls[t], outcomes[t])
          /\ \A u \in Turns \ {t} : Left(new, u, at[u], calls[u], outcomes[u])
      BY <1>1, <2>1, <2>2, SameSteps DEF Lives
    <2>4. task'[t] = new
      BY <1>0, <2>1 DEF new
    <2>5. \A u \in Turns \ {t} : at'[u] = at[u] /\ task'[u] = task[u]
      BY <1>0, <2>1
    <2> QED
      BY <2>1, <2>3, <2>4, <2>5, WholeStep
  <1>4. ASSUME NEW t \in Turns, CallTool(t) PROVE WholeInv'
    <2>1. PICK tool \in Tools : /\ Update(t, ToolCall(task[t], t, tool))
                                /\ calls' = [calls EXCEPT ![t] = Append(@, tool)]
      BY <1>4 DEF CallTool
    <2>2. /\ at[t] \in {"asking", "calling"} /\ at' = [at EXCEPT ![t] = "calling"]
          /\ task' = [task EXCEPT ![t] = ToolCall(task[t], t, tool)]
          /\ stored' = stored /\ outcomes' = outcomes
      BY <1>4, <2>1 DEF CallTool, Update, Goto
    <2> DEFINE new == ToolCall(task[t], t, tool)
    <2>3. /\ task[t] \in TaskState /\ NoneWaits(task[t]) /\ calls[t] \in Seq(Tools)
          /\ outcomes[t] \in Seq(BOOLEAN) /\ Len(outcomes[t]) <= Len(calls[t])
          /\ \A u \in Turns : calls[u] \in Seq(Tools) /\ outcomes[u] \in Seq(BOOLEAN)
      <3>1. /\ task[t] \in TaskState /\ NoneWaits(task[t]) /\ calls[t] \in Seq(Tools)
            /\ outcomes[t] \in Seq(BOOLEAN)
            /\ \A u \in Turns : calls[u] \in Seq(Tools) /\ outcomes[u] \in Seq(BOOLEAN)
        BY <1>0
      <3>2. Len(outcomes[t]) \in Nat /\ Len(calls[t]) \in Nat
        BY <3>1
      <3>3. Len(outcomes[t]) = Len(calls[t]) \/ Len(outcomes[t]) < Len(calls[t])
        BY <2>2 DEF TypeInv, DueInv
      <3> QED
        BY <3>1, <3>2, <3>3
    <2>4. Own(task[t], t, calls[t], outcomes[t])
      BY <1>1, <2>2 DEF Lives
    <2>5. \A u \in Turns \ {t} : Left(task[t], u, at[u], calls[u], outcomes[u])
      BY <1>1, <2>2 DEF Lives
    <2>6. Own(new, t, Append(calls[t], tool), outcomes[t])
      BY <2>3, <2>4, CallOwn
    <2>7. \A u \in Turns \ {t} : Left(new, u, at[u], calls[u], outcomes[u])
      BY <2>3, <2>5, CallOthers
    <2>8. task'[t] = new /\ calls'[t] = Append(calls[t], tool)
      BY <1>0, <2>1, <2>2
    <2>9. \A u \in Turns \ {t} : at'[u] = at[u] /\ task'[u] = task[u] /\ calls'[u] = calls[u]
      BY <1>0, <2>1, <2>2
    <2> HIDE DEF new
    <2> QED
      BY <2>2, <2>6, <2>7, <2>8, <2>9, WholeStep
  <1>5. ASSUME NEW t \in Turns, HearResult(t) PROVE WholeInv'
    <2> DEFINE tool == calls[t][Len(outcomes[t]) + 1]
    <2>1. PICK ok \in BOOLEAN : /\ Update(t, ToolResult(task[t], tool, ok))
                                /\ outcomes' = [outcomes EXCEPT ![t] = Append(@, ok)]
      BY <1>5 DEF HearResult
    <2> DEFINE new == ToolResult(task[t], tool, ok)
    <2>2. /\ at[t] \in {"calling", "tools"} /\ calls' = calls /\ stored' = stored
          /\ task' = [task EXCEPT ![t] = new]
          /\ \E step \in Lives : at' = [at EXCEPT ![t] = step]
      BY <1>5, <2>1 DEF HearResult, Update, Goto, Lives
    <2>3. /\ task[t] \in TaskState /\ NoneWaits(task[t]) /\ calls[t] \in Seq(Tools)
          /\ outcomes[t] \in Seq(BOOLEAN) /\ Len(outcomes[t]) < Len(calls[t])
          /\ \A u \in Turns : calls[u] \in Seq(Tools) /\ outcomes[u] \in Seq(BOOLEAN)
      BY <1>0, <2>2 DEF TypeInv, DueInv
    <2>4. /\ Own(task[t], t, calls[t], outcomes[t]) /\ OthersSettled(task[t], t)
          /\ \A u \in Turns \ {t} : Left(task[t], u, at[u], calls[u], outcomes[u])
      BY <1>1, <2>2, WholeOthersSettled DEF Lives
    <2>5. new \in TaskState
      BY <2>3, ToolResultSteps
    <2>6. /\ Own(new, t, calls[t], Append(outcomes[t], ok))
          /\ \E m \in StepsOf(task[t], t) :
                /\ Len(new.steps) = Len(task[t].steps) /\ DOMAIN new.steps = DOMAIN task[t].steps
                /\ \A i \in DOMAIN task[t].steps :
                      /\ i # m => new.steps[i] = task[t].steps[i]
                      /\ i = m => new.steps[i].turn = t
      <3>1. /\ Own(new, t, calls[t], Append(outcomes[t], ok))
            /\ \E m \in StepsOf(task[t], t) :
                  /\ task[t].steps[m].status = "doing"
                  /\ Len(new.steps) = Len(task[t].steps) /\ DOMAIN new.steps = DOMAIN task[t].steps
                  /\ \A i \in DOMAIN task[t].steps :
                        /\ i # m => new.steps[i] = task[t].steps[i]
                        /\ i = m => /\ new.steps[i].turn = t
                                    /\ new.steps[i].status \in Settled
        <4> DEFINE ts == task[t]
                   c == calls[t]
                   o == outcomes[t]
        <4>1. /\ ts \in TaskState /\ NoneWaits(ts) /\ OthersSettled(ts, t) /\ c \in Seq(Tools)
              /\ o \in Seq(BOOLEAN) /\ Len(o) < Len(c) /\ Own(ts, t, c, o)
          BY <2>3, <2>4
        <4> HIDE DEF ts, c, o
        <4>2. LET new1 == ToolResult(ts, c[Len(o) + 1], ok)
              IN  /\ Own(new1, t, c, Append(o, ok))
                  /\ \E m \in StepsOf(ts, t) :
                        /\ ts.steps[m].status = "doing"
                        /\ Len(new1.steps) = Len(ts.steps) /\ DOMAIN new1.steps = DOMAIN ts.steps
                        /\ \A i \in DOMAIN ts.steps :
                              /\ i # m => new1.steps[i] = ts.steps[i]
                              /\ i = m => /\ new1.steps[i].turn = t
                                          /\ new1.steps[i].status \in Settled
          BY <4>1, ResultOwn
        <4> QED
          BY <4>2 DEF ts, c, o
      <3> HIDE DEF new
      <3> QED
        BY <3>1
    <2> HIDE DEF new
    <2>7. \A u \in Turns \ {t} : Left(new, u, at[u], calls[u], outcomes[u])
      BY <2>3, <2>4, <2>5, <2>6, ResultOthers
    <2>8. task'[t] = new /\ outcomes'[t] = Append(outcomes[t], ok)
      BY <1>0, <2>1, <2>2
    <2>9. \A u \in Turns \ {t} : at'[u] = at[u] /\ task'[u] = task[u] /\ outcomes'[u] = outcomes[u]
      BY <1>0, <2>1, <2>2
    <2> QED
      BY <2>2, <2>6, <2>7, <2>8, <2>9, WholeStep
  <1>6. ASSUME NEW t \in Turns, Finalize(t) PROVE WholeInv'
    <2>1. PICK marked \in BOOLEAN : stored' = FinalReply(task[t], t, marked)
      BY <1>6 DEF Finalize
    <2>2. /\ at[t] = "asking" /\ at' = [at EXCEPT ![t] = "closed"]
          /\ task' = [task EXCEPT ![t] = Empty] /\ calls' = calls /\ outcomes' = outcomes
          /\ Len(outcomes[t]) = Len(calls[t])
      BY <1>6 DEF Finalize, Goto, TypeInv, DueInv
    <2>3. /\ Own(task[t], t, calls[t], outcomes[t])
          /\ \A u \in Turns \ {t} : Left(task[t], u, at[u], calls[u], outcomes[u])
      BY <1>1, <2>2 DEF Lives
    <2>4. Left(task[t], t, "closed", calls[t], outcomes[t])
      BY <1>0, <2>2, <2>3, OwnLeft
    <2>5. stored'.steps = task[t].steps
      BY <1>0, <2>1, FinalReplyChange
    <2>6. /\ at'[t] = "closed"
          /\ \A u \in Turns \ {t} : at'[u] = at[u] /\ task'[u] = task[u]
      BY <1>0, <2>2
    <2>7. ASSUME NEW u \in Turns PROVE Left(stored', u, at'[u], calls'[u], outcomes'[u])
      <3>1. Left(task[t], u, at'[u], calls[u], outcomes[u])
        BY <2>3, <2>4, <2>6
      <3> QED
        BY <2>2, <2>5, <3>1, SameSteps
    <2> QED
      BY <2>2, <2>6, <2>7, WholeStep DEF Lives
  <1>7. ASSUME NEW t \in Turns, GiveUp(t) PROVE WholeInv'
    <2>1. /\ at[t] # "closed" /\ at' = [at EXCEPT ![t] = "closed"]
          /\ task' = [task EXCEPT ![t] = Empty]
          /\ stored' = stored /\ calls' = calls /\ outcomes' = outcomes
      BY <1>7 DEF GiveUp, Goto
    <2>2. /\ at'[t] = "closed"
          /\ \A u \in Turns \ {t} : at'[u] = at[u] /\ task'[u] = task[u]
      BY <1>0, <2>1
    <2> QED
      BY <2>1, <2>2, WholeStep DEF Lives
  <1>8. CASE Expire
    BY <1>8, EmptyLeft DEF Expire, WholeInv
  <1>9. CASE Restart
    <2>1. stored' = Empty /\ \A u \in Turns : at'[u] \notin Lives
      BY <1>9 DEF Restart, Lives
    <2> QED
      BY <2>1, EmptyLeft DEF WholeInv
  <1>10. CASE UNCHANGED vars
    BY <1>10 DEF vars, WholeInv
  <1> QED
    BY <1>2, <1>3, <1>4, <1>5, <1>6, <1>7, <1>8, <1>9, <1>10 DEF Next

LEMMA WholeInvariance == Spec => []WholeInv
  BY WholeInvInit, WholeInvNext, TypeInvariance, PTL DEF Spec

\* Whatever turns overlap, give up or are cut off, what is stored has all the
\* steps of a turn, side by side, in order and over, or none of them.
THEOREM TaskWholeTurns == Spec => []WholeTurns
  <1>1. TypeInv /\ WholeInv => WholeTurns
    <2> SUFFICES ASSUME TypeInv, WholeInv PROVE WholeTurns
      OBVIOUS
    <2>1. stored \in TaskState
      BY DEF TypeInv, TypeOK
    <2>2. \A u \in Turns : Left(stored, u, at[u], calls[u], outcomes[u])
      BY DEF WholeInv
    <2>3. ASSUME NEW i \in DOMAIN stored.steps PROVE stored.steps[i].status \in {"done", "failed"}
      <3>1. stored.steps[i].turn \in Turns /\ i \in StepsOf(stored, stored.steps[i].turn)
        BY <2>1, StepsType DEF Step, StepsOf
      <3> QED
        BY <2>2, <3>1 DEF Left, Settled
    <2> QED
      BY <2>2, <2>3 DEF WholeTurns, Left, Block
  <1> QED
    BY <1>1, TypeInvariance, WholeInvariance, PTL

\* As many stored steps of a tool have failed as calls of it, however many
\* calls of one tool a reply makes.
THEOREM TaskFailuresCounted == Spec => []FailuresCounted
  <1>1. WholeInv => FailuresCounted
    BY DEF WholeInv, FailuresCounted, Left, Counted, FailedCalls
  <1> QED
    BY <1>1, WholeInvariance, PTL

-----------------------------------------------------------------------------
(***************************************************************************)
(* Nothing is forgotten.  While nothing has been stored since a turn's     *)
(* Load, its copy extends what is stored: the steps that were there are    *)
(* over, so that no result of the turn's own calls is put down to them.    *)
(***************************************************************************)
FreshInv == \A t \in fresh : at[t] \in Lives /\ Extends(stored, task[t])

LEMMA ExtendsPointwise ==
    ASSUME NEW ts \in TaskState, NEW new \in TaskState
    PROVE  Extends(ts, new) <=>
              /\ Len(ts.steps) <= Len(new.steps)
              /\ \A i \in 1 .. Len(ts.steps) : new.steps[i] = ts.steps[i]
              /\ ts.goal # NoTurn => new.goal = ts.goal
              /\ ts.pending \subseteq new.pending
  <1> DEFINE s == ts.steps
             r == new.steps
  <1>1. /\ s \in Seq(Step) /\ r \in Seq(Step) /\ Len(s) \in Nat /\ Len(r) \in Nat
    BY StepsType
  <1> HIDE DEF s, r
  <1>2. ASSUME Len(s) <= Len(r)
        PROVE  SubSeq(s, 1, Len(s)) = SubSeq(r, 1, Len(s)) <=> \A i \in 1 .. Len(s) : r[i] = s[i]
    <2> DEFINE a == SubSeq(s, 1, Len(s))
               b == SubSeq(r, 1, Len(s))
    <2>1. /\ a = [i \in 1 .. Len(s) |-> s[i]] /\ b = [i \in 1 .. Len(s) |-> r[i]]
      BY <1>1, <1>2
    <2> HIDE DEF a, b
    <2> QED
      BY <2>1 DEF a, b
  <1>3. IsPrefix(s, r) <=> Len(s) <= Len(r) /\ \A i \in 1 .. Len(s) : r[i] = s[i]
    BY <1>2 DEF IsPrefix
  <1> QED
    BY <1>3 DEF Extends, s, r

LEMMA ExtendsCall ==
    ASSUME NEW ts \in TaskState, NEW mine \in TaskState, NEW t \in Turns, NEW tool \in Tools,
           NoneWaits(mine), Extends(ts, mine)
    PROVE  Extends(ts, ToolCall(mine, t, tool))
  <1> DEFINE new == ToolCall(mine, t, tool)
  <1>1. /\ new \in TaskState /\ Len(new.steps) = Len(mine.steps) + 1 /\ Len(mine.steps) \in Nat
        /\ \A i \in 1 .. Len(mine.steps) : new.steps[i] = mine.steps[i]
        /\ new.goal = mine.goal /\ new.pending = mine.pending
    BY ToolCallSteps
  <1>2. Len(ts.steps) \in Nat
    BY StepsType
  <1> HIDE DEF new
  <1>3. Extends(ts, new)
    BY <1>1, <1>2, ExtendsPointwise
  <1> QED
    BY <1>3 DEF new

LEMMA ExtendsResult ==
    ASSUME NEW ts \in TaskState, NEW mine \in TaskState, NEW tool, NEW ok \in BOOLEAN,
           NoneWaits(mine), Extends(ts, mine),
           \A i \in DOMAIN ts.steps : ts.steps[i].status # "doing"
    PROVE  Extends(ts, ToolResult(mine, tool, ok))
  <1> DEFINE new == ToolResult(mine, tool, ok)
             doing == StepsWith(mine, tool, "doing")
             len == Len(mine.steps)
  <1>1. /\ new \in TaskState /\ Len(new.steps) = len
        /\ new.goal = mine.goal /\ new.pending = mine.pending
        /\ doing = {} => new = mine
        /\ doing # {} => \E m \in doing : Settles(mine, new, m, Outcome(ok))
    BY ToolResultSteps
  <1>2. /\ len \in Nat /\ Len(ts.steps) \in Nat /\ DOMAIN ts.steps = 1 .. Len(ts.steps)
    BY StepsType
  <1>3. /\ Len(ts.steps) <= len
        /\ \A i \in 1 .. Len(ts.steps) : mine.steps[i] = ts.steps[i]
        /\ ts.goal # NoTurn => mine.goal = ts.goal
        /\ ts.pending \subseteq mine.pending
    BY ExtendsPointwise
  <1>4. \A m \in doing : m \notin 1 .. Len(ts.steps)
    BY <1>2, <1>3 DEF StepsWith
  <1> HIDE DEF new, doing, len
  <1>5. \A i \in 1 .. Len(ts.steps) : new.steps[i] = ts.steps[i]
    <2>1. CASE doing = {}
      BY <1>1, <1>3, <2>1
    <2>2. CASE doing # {}
      <3>1. PICK m \in doing : \A i \in 1 .. len : i # m => new.steps[i] = mine.steps[i]
        BY <1>1, <2>2 DEF Settles, len
      <3>2. \A i \in 1 .. Len(ts.steps) : i \in 1 .. len /\ i # m
        BY <1>2, <1>3, <1>4, <3>1
      <3> QED
        BY <1>3, <3>1, <3>2
    <2> QED
      BY <2>1, <2>2
  <1>6. Extends(ts, new)
    BY <1>1, <1>2, <1>3, <1>5, ExtendsPointwise DEF len
  <1> QED
    BY <1>6 DEF new

LEMMA FreshInvInit == Init => FreshInv
  BY DEF Init, FreshInv

LEMMA FreshInvNext == TypeInv /\ WholeInv /\ FreshInv /\ [Next]_vars => FreshInv'
  <1> SUFFICES ASSUME TypeInv, WholeInv, FreshInv, [Next]_vars PROVE FreshInv'
    OBVIOUS
  <1>0. /\ stored \in TaskState /\ task \in [Turns -> TaskState] /\ fresh \subseteq Turns
        /\ at \in [Turns -> {"idle", "loaded", "asking", "calling", "tools", "closed"}]
        /\ \A t \in Turns : NoneWaits(task[t])
    BY DEF TypeInv, TypeOK, NoneWaiting
  \* A step of turn t that stores nothing.
  <1>1. ASSUME NEW t \in Turns, stored' = stored, NEW step, NEW ts,
               at' = [at EXCEPT ![t] = step], task' = [task EXCEPT ![t] = ts],
               fresh' \ {t} \subseteq fresh,
               t \in fresh' => step \in Lives /\ Extends(stored, ts)
        PROVE  FreshInv'
    <2> SUFFICES ASSUME NEW u \in fresh' PROVE at'[u] \in Lives /\ Extends(stored, task'[u])
      BY <1>1 DEF FreshInv
    <2>1. CASE u = t
      BY <1>0, <1>1, <2>1
    <2>2. CASE u # t
      <3>1. u \in fresh /\ u \in Turns
        BY <1>0, <1>1, <2>2
      <3>2. at'[u] = at[u] /\ task'[u] = task[u]
        BY <1>0, <1>1, <2>2, <3>1
      <3> QED
        BY <3>1, <3>2 DEF FreshInv
    <2> QED
      BY <2>1, <2>2
  <1>2. ASSUME NEW t \in Turns, Load(t) PROVE FreshInv'
    <2>1. Extends(stored, stored)
      <3>1. Len(stored.steps) \in Nat
        BY <1>0, StepsType
      <3> QED
        BY <1>0, <3>1, ExtendsPointwise
    <2> QED
      BY <1>1, <1>2, <2>1 DEF Load, Goto, Lives
  <1>3. ASSUME NEW t \in Turns, HearUser(t) PROVE FreshInv'
    <2> DEFINE new == UserMessage(task[t], t)
    <2>1. /\ stored' = stored /\ at' = [at EXCEPT ![t] = "asking"]
          /\ task' = [task EXCEPT ![t] = new] /\ fresh' = fresh
      BY <1>3 DEF HearUser, Update, Goto
    <2>2. /\ new.steps = task[t].steps /\ new.pending = task[t].pending
          /\ task[t].goal # NoTurn => new.goal = task[t].goal
      BY <1>0, UserMessageChange
    <2> HIDE DEF new
    <2>3. t \in fresh => Extends(stored, new)
      BY <2>2 DEF FreshInv, Extends
    <2> QED
      BY <1>1, <2>1, <2>3 DEF Lives
  <1>4. ASSUME NEW t \in Turns, CallTool(t) PROVE FreshInv'
    <2>1. PICK tool \in Tools : Update(t, ToolCall(task[t], t, tool))
      BY <1>4 DEF CallTool
    <2> DEFINE new == ToolCall(task[t], t, tool)
    <2>2. /\ stored' = stored /\ at' = [at EXCEPT ![t] = "calling"]
          /\ task' = [task EXCEPT ![t] = new] /\ fresh' = fresh
      BY <1>4, <2>1 DEF CallTool, Update, Goto
    <2>3. t \in fresh => Extends(stored, new)
      BY <1>0, ExtendsCall DEF FreshInv
    <2> QED
      BY <1>1, <2>2, <2>3 DEF Lives
  <1>5. ASSUME NEW t \in Turns, HearResult(t) PROVE FreshInv'
    <2> DEFINE tool == calls[t][Len(outcomes[t]) + 1]
    <2>1. PICK ok \in BOOLEAN : Update(t, ToolResult(task[t], tool, ok))
      BY <1>5 DEF HearResult
    <2> HIDE DEF tool
    <2> DEFINE new == ToolResult(task[t], tool, ok)
    <2>2. /\ stored' = stored /\ task' = [task EXCEPT ![t] = new] /\ fresh' = fresh
          /\ \E step \in Lives : at' = [at EXCEPT ![t] = step]
      BY <1>5, <2>1 DEF HearResult, Update, Goto, Lives
    <2>3. \A i \in DOMAIN stored.steps : stored.steps[i].status # "doing"
      <3> SUFFICES ASSUME NEW i \in DOMAIN stored.steps PROVE stored.steps[i].status # "doing"
        OBVIOUS
      <3> DEFINE u == stored.steps[i].turn
      <3>1. u \in Turns /\ i \in StepsOf(stored, u)
        BY <1>0, StepsType DEF Step, StepsOf
      <3> HIDE DEF u
      <3>2. Left(stored, u, at[u], calls[u], outcomes[u])
        BY <3>1 DEF WholeInv
      <3> QED
        BY <3>1, <3>2 DEF Left, Settled
    <2>4. t \in fresh => Extends(stored, new)
      BY <1>0, <2>3, ExtendsResult DEF FreshInv
    <2> HIDE DEF new
    <2> QED
      BY <1>1, <2>2, <2>4
  <1>6. ASSUME NEW t \in Turns, GiveUp(t) PROVE FreshInv'
    <2>1. /\ stored' = stored /\ at' = [at EXCEPT ![t] = "closed"]
          /\ task' = [task EXCEPT ![t] = Empty] /\ fresh' = fresh \ {t}
      BY <1>6 DEF GiveUp, Goto
    <2> QED
      BY <1>1, <2>1
  <1>7. ASSUME fresh' = {} PROVE FreshInv'
    BY <1>7 DEF FreshInv
  <1>8. ASSUME NEW t \in Turns, Finalize(t) PROVE FreshInv'
    BY <1>7, <1>8 DEF Finalize
  <1>9. ASSUME Expire \/ Restart PROVE FreshInv'
    BY <1>7, <1>9 DEF Expire, Restart
  <1>10. CASE UNCHANGED vars
    BY <1>10 DEF vars, FreshInv
  <1> QED
    BY <1>2, <1>3, <1>4, <1>5, <1>6, <1>8, <1>9, <1>10 DEF Next

\* Only the save of a turn that outlived another one's, and the end of the
\* stored task, take back a step, the goal or an open question.
THEOREM TaskNothingForgotten == Spec => NothingForgotten
  <1> DEFINE Kept == \/ stored' = Empty
                     \/ Extends(stored, stored')
                     \/ \E t \in Turns \ fresh : at[t] # "closed" /\ at'[t] = "closed"
  <1>1. TypeInv /\ FreshInv /\ [Next]_vars => [Kept]_stored
    <2> SUFFICES ASSUME TypeInv, FreshInv, Next, stored' # stored PROVE Kept
      BY DEF vars
    <2>0. /\ stored \in TaskState /\ task \in [Turns -> TaskState]
          /\ at \in [Turns -> {"idle", "loaded", "asking", "calling", "tools", "closed"}]
      BY DEF TypeInv, TypeOK
    <2>1. CASE Expire \/ Restart
      BY <2>1 DEF Expire, Restart
    <2>2. ASSUME NEW t \in Turns, Finalize(t) PROVE Kept
      <3>1. PICK marked \in BOOLEAN : stored' = FinalReply(task[t], t, marked)
        BY <2>2 DEF Finalize
      <3>2. at[t] = "asking" /\ at'[t] = "closed"
        BY <2>0, <2>2 DEF Finalize, Goto
      <3>3. ASSUME t \in fresh PROVE Extends(stored, stored')
        <4>1. Extends(stored, task[t])
          BY <3>3 DEF FreshInv
        <4>2. /\ stored'.steps = task[t].steps /\ stored'.goal = task[t].goal
              /\ task[t].pending \subseteq stored'.pending
          BY <2>0, <3>1, FinalReplyChange
        <4> QED
          BY <4>1, <4>2 DEF Extends
      <3> QED
        BY <3>2, <3>3
    <2>3. ASSUME NEW t \in Turns,
                 Load(t) \/ HearUser(t) \/ CallTool(t) \/ HearResult(t) \/ GiveUp(t)
          PROVE  FALSE
      BY <2>3 DEF Load, HearUser, CallTool, HearResult, GiveUp, Update
    <2> QED
      BY <2>1, <2>2, <2>3 DEF Next
  <1>2. Spec => []FreshInv
    BY FreshInvInit, FreshInvNext, TypeInvariance, WholeInvariance, PTL DEF Spec
  <1>3. Spec => [][Kept]_stored
    BY <1>1, <1>2, TypeInvariance, PTL DEF Spec
  <1> QED
    BY <1>3 DEF NothingForgotten
=============================================================================
