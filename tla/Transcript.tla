----------------------------- MODULE Transcript -----------------------------
(***************************************************************************)
(* The messages of a chat session and the pure functions the engine        *)
(* applies to them: how a store appends and caps a history, how            *)
(* trimHistory cuts the part that is sent to the LLM, and what it means    *)
(* for such a part to be acceptable to a chat-completion API.              *)
(*                                                                         *)
(* A message keeps only what those functions tell apart.  Its content is   *)
(* replaced by its origin: the turn that wrote it, the ReAct iteration,    *)
(* and n, which is the number of calls of a "function" message and the     *)
(* position of the answered call in a "tool" message.  (turn, iter, n) is  *)
(* therefore the tool_call_id, unique as the LLM makes it.                 *)
(***************************************************************************)
EXTENDS Integers, Sequences

CONSTANT Turns          \* the requests that may be made in the session

Roles == {"human", "ai", "function", "tool"}

Message == [role : Roles, turn : Turns, iter : Nat, n : Nat]

Msg(role, turn, iter, n) == [role |-> role, turn |-> turn, iter |-> iter, n |-> n]

\* InMemoryStore.AddMessage and RedisStore.AddMessage: append, then keep the
\* newest maxMs messages.  MySQLStore never cuts: a maxMs nothing reaches.
AddMessage(history, msg, maxMs) ==
    LET longer == Append(history, msg)
    IN  IF Len(longer) > maxMs
        THEN SubSeq(longer, Len(longer) - maxMs + 1, Len(longer))
        ELSE longer

\* Mutant of TrimStart: cut at the aim, whatever stands there.
TrimStartAtAim(history, maxMessages) == Len(history) - maxMessages + 1

\* Where trimHistory cuts: it aims at the newest maxMessages and backs up
\* over "tool" messages to the message before them (or to the first one).
TrimStart(history, maxMessages) ==
    LET aim == Len(history) - maxMessages + 1
    IN  CHOOSE j \in 1 .. aim :
            /\ j = 1 \/ history[j].role # "tool"
            /\ \A k \in j + 1 .. aim : history[k].role = "tool"

\* Mutant of TrimHistory: keep the oldest messages.
TrimHistoryOldest(history, maxMessages) ==
    IF maxMessages <= 0 \/ Len(history) <= maxMessages
    THEN history
    ELSE SubSeq(history, 1, maxMessages)

TrimHistory(history, maxMessages) ==
    IF maxMessages <= 0 \/ Len(history) <= maxMessages
    THEN history
    ELSE SubSeq(history, TrimStart(history, maxMessages), Len(history))

-----------------------------------------------------------------------------
\* r is a result of the call message c.
ResultOf(r, c) ==
    /\ c.role = "function" /\ r.role = "tool"
    /\ r.turn = c.turn /\ r.iter = c.iter
    /\ r.n \in 1 .. c.n

\* Every message that asks for n tool calls is followed by its n results, in
\* call order, and every result stands behind its own call: what an
\* OpenAI-style API demands of the messages it is sent.
Paired(msgs) ==
    /\ \A i \in DOMAIN msgs : msgs[i].role = "function" =>
          \A k \in 1 .. msgs[i].n :
              /\ i + k \in DOMAIN msgs
              /\ ResultOf(msgs[i + k], msgs[i]) /\ msgs[i + k].n = k
    /\ \A i \in DOMAIN msgs : msgs[i].role = "tool" =>
          /\ i - msgs[i].n \in DOMAIN msgs
          /\ ResultOf(msgs[i], msgs[i - msgs[i].n])

\* The order in which one turn writes its messages: the question, then for
\* every iteration the calls and their results in call order, then the answer.
WrittenBefore(a, b) ==
    \/ a.role = "human" /\ b.role # "human"
    \/ b.role = "ai" /\ a.role # "ai"
    \/ /\ {a.role, b.role} \subseteq {"function", "tool"}
       /\ \/ a.iter < b.iter
          \/ a.iter = b.iter /\ a.role = "function" /\ b.role = "tool"
          \/ a.iter = b.iter /\ a.role = "tool" /\ b.role = "tool" /\ a.n < b.n
=============================================================================
