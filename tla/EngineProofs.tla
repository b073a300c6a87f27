---------------------------- MODULE EngineProofs ----------------------------
(***************************************************************************)
(* Theorems about Engine for every number of turns and every value of its  *)
(* parameters: type correctness, that no stream ends without a terminal    *)
(* event, that each turn's messages stay in order, and that the streams    *)
(* are those EventStream promises; and, for a client that waits for each   *)
(* answer, what the LLM is shown: the question, the answers that were      *)
(* given, and every call with its results.                                 *)
(***************************************************************************)
EXTENDS Engine, SequenceTheorems, WellFoundedInduction, FiniteSetTheorems, TLAPS

(***************************************************************************)
(* AddMessage and TrimHistory, for every history.  TrimKeepsPaired is the  *)
(* theorem behind trimHistory's comment.                                   *)
(***************************************************************************)
\* A capped append keeps the tail of the old history and puts msg last.
LEMMA AddMessageTail ==
    ASSUME NEW S, NEW h \in Seq(S), NEW msg \in S, NEW max \in Nat \ {0}
    PROVE  LET new == AddMessage(h, msg, max)
           IN  /\ new \in Seq(S)
               /\ \E k \in 0 .. Len(h) :
                     /\ k = 0 \/ k = Len(h) + 1 - max
                     /\ Len(new) = Len(h) + 1 - k
                     /\ \A i \in 1 .. Len(h) - k : new[i] = h[i + k]
                     /\ new[Len(new)] = msg
  <1> DEFINE longer == Append(h, msg)
  <1>1. /\ longer \in Seq(S)
        /\ Len(longer) = Len(h) + 1 /\ Len(h) \in Nat
        /\ \A i \in 1 .. Len(h) : longer[i] = h[i]
        /\ longer[Len(h) + 1] = msg
    OBVIOUS
  <1>2. CASE Len(longer) <= max
    <2>1. AddMessage(h, msg, max) = longer
      BY <1>1, <1>2 DEF AddMessage
    <2> QED
      BY <1>1, <2>1
  <1>3. CASE Len(longer) > max
    <2> DEFINE k == Len(h) + 1 - max
               new == SubSeq(longer, Len(longer) - max + 1, Len(longer))
    <2>1. AddMessage(h, msg, max) = new
      BY <1>3 DEF AddMessage
    <2>2. k \in 0 .. Len(h)
      BY <1>1, <1>3
    <2>3. \A i \in Len(longer) - max + 1 .. Len(longer) : longer[i] \in S
      BY <1>1, <1>3, ElementOfSeq
    <2> HIDE DEF longer
    <2>4. /\ new \in Seq(S)
          /\ Len(new) = max
          /\ \A i \in 1 .. max : new[i] = longer[i + k]
      BY <1>1, <1>3, <2>3, SubSeqProperties
    <2>5. k = Len(h) + 1 - max /\ max = Len(h) + 1 - k
      BY <1>1
    <2> HIDE DEF new, k
    <2>6. \A i \in 1 .. Len(h) - k : new[i] = h[i + k]
      <3> SUFFICES ASSUME NEW i \in 1 .. Len(h) - k PROVE new[i] = h[i + k]
        OBVIOUS
      <3>1. i \in 1 .. max /\ i + k \in 1 .. Len(h)
        BY <1>1, <2>2, <2>5
      <3> QED
        BY <1>1, <2>4, <3>1
    <2>7. new[Len(new)] = msg
      BY <1>1, <2>2, <2>4, <2>5
    <2> QED
      BY <2>1, <2>2, <2>4, <2>5, <2>6, <2>7
  <1> QED
    BY <1>1, <1>2, <1>3

\* trimHistory's loop stops: the cut exists, at or before the aim, on a
\* message that is no result or on the first message.
LEMMA TrimStartExists ==
    ASSUME NEW S, NEW h \in Seq(S), NEW max \in Nat \ {0}, Len(h) > max
    PROVE  LET aim == Len(h) - max + 1  cut == TrimStart(h, max)
           IN  /\ cut \in 1 .. aim
               /\ cut = 1 \/ h[cut].role # "tool"
               /\ \A k \in cut + 1 .. aim : h[k].role = "tool"
  <1> DEFINE aim == Len(h) - max + 1
             Stop(j) == j = 1 \/ h[j].role # "tool"
             back == {n \in Nat : aim - n \in 1 .. aim /\ Stop(aim - n)}
  <1>1. aim \in Nat \ {0}
    OBVIOUS
  <1>2. aim - 1 \in back
    BY <1>1
  <1>3. PICK n \in back : \A m \in back : ~ <<m, n>> \in OpToRel(<, Nat)
    <2>1. back \subseteq Nat /\ back # {}
      BY <1>2
    <2> QED
      BY <2>1, NatLessThanWellFounded, WFMin
  <1>4. \A m \in back : ~ (m < n)
    BY <1>3 DEF OpToRel
  <1>5. /\ aim - n \in 1 .. aim
        /\ Stop(aim - n)
        /\ \A k \in aim - n + 1 .. aim : h[k].role = "tool"
    <2>1. n \in Nat /\ aim - n \in 1 .. aim /\ Stop(aim - n)
      BY <1>3
    <2>2. ASSUME NEW k \in aim - n + 1 .. aim, h[k].role # "tool"
          PROVE  FALSE
      <3>1. aim - k \in back /\ aim - k < n
        BY <1>1, <2>1, <2>2
      <3> QED
        BY <3>1, <1>4
    <2> QED
      BY <2>1, <2>2
  <1> HIDE DEF aim, back
  <1>6. \E j \in 1 .. aim : Stop(j) /\ \A k \in j + 1 .. aim : h[k].role = "tool"
    BY <1>5
  <1> QED
    BY <1>6 DEF TrimStart, aim

\* What trimHistory returns is a tail of the history, at least maxMessages
\* long when anything was cut, and it does not start with a result then.
LEMMA TrimHistoryTail ==
    ASSUME NEW S, NEW h \in Seq(S), NEW max \in Nat
    PROVE  LET kept == TrimHistory(h, max)
           IN  /\ kept \in Seq(S)
               /\ \E c \in 0 .. Len(h) :
                     /\ Len(kept) = Len(h) - c
                     /\ \A i \in 1 .. Len(h) - c : kept[i] = h[i + c]
                     /\ c # 0 => /\ c + 1 \in 1 .. Len(h) /\ Len(kept) >= max
                                 /\ h[c + 1].role # "tool"
  <1>1. CASE max <= 0 \/ Len(h) <= max
    <2>1. TrimHistory(h, max) = h
      BY <1>1 DEF TrimHistory
    <2>2. Len(h) \in Nat /\ 0 \in 0 .. Len(h)
      OBVIOUS
    <2> QED
      BY <2>1, <2>2
  <1>2. CASE ~ (max <= 0 \/ Len(h) <= max)
    <2> DEFINE cut == TrimStart(h, max)
               kept == SubSeq(h, cut, Len(h))
               c == cut - 1
    <2>1. TrimHistory(h, max) = kept
      BY <1>2 DEF TrimHistory
    <2>2. /\ max \in Nat \ {0} /\ Len(h) > max /\ Len(h) \in Nat
      BY <1>2
    <2>3. /\ cut \in 1 .. Len(h) - max + 1
          /\ cut = 1 \/ h[cut].role # "tool"
      BY <2>2, TrimStartExists
    <2> HIDE DEF cut
    <2>4. \A i \in cut .. Len(h) : h[i] \in S
      BY <2>3, <2>2, ElementOfSeq
    <2>5. /\ kept \in Seq(S)
          /\ Len(kept) = Len(h) - cut + 1
          /\ \A i \in 1 .. Len(h) - cut + 1 : kept[i] = h[cut + i - 1]
      BY <2>2, <2>3, <2>4, SubSeqProperties
    <2> HIDE DEF kept
    <2>6. /\ c \in 0 .. Len(h)
          /\ Len(kept) = Len(h) - c
          /\ \A i \in 1 .. Len(h) - c : kept[i] = h[i + c]
          /\ c # 0 => /\ c + 1 \in 1 .. Len(h) /\ Len(kept) >= max
                      /\ h[c + 1].role # "tool"
      BY <2>2, <2>3, <2>5
    <2> HIDE DEF c
    <2> QED
      BY <2>1, <2>5, <2>6
  <1> QED
    BY <1>1, <1>2

\* trimHistory "keeps the most recent messages while preserving
\* tool_call/tool pairs": for every cap, trimming a history in which every
\* call is followed by its results and every result stands behind its call
\* leaves such a history.
THEOREM TrimKeepsPaired ==
    ASSUME NEW h \in Seq(Message), NEW max \in Nat, Paired(h)
    PROVE  Paired(TrimHistory(h, max))
  <1> DEFINE kept == TrimHistory(h, max)
  <1>1. PICK c \in 0 .. Len(h) :
           /\ Len(kept) = Len(h) - c
           /\ \A i \in 1 .. Len(h) - c : kept[i] = h[i + c]
           /\ c # 0 => c + 1 \in 1 .. Len(h) /\ h[c + 1].role # "tool"
    BY TrimHistoryTail
  <1>2. kept \in Seq(Message)
    BY TrimHistoryTail
  <1> HIDE DEF kept
  <1>3. /\ Len(h) \in Nat /\ DOMAIN h = 1 .. Len(h)
        /\ DOMAIN kept = 1 .. Len(h) - c
    BY <1>1, <1>2
  <1>4. \A i \in 1 .. Len(h) : h[i].n \in Nat
    <2>1. \A i \in 1 .. Len(h) : h[i] \in Message
      BY ElementOfSeq
    <2> QED
      BY <2>1 DEF Message
  <1>5. ASSUME NEW i \in DOMAIN kept, kept[i].role = "function",
               NEW k \in 1 .. kept[i].n
        PROVE  /\ i + k \in DOMAIN kept
               /\ ResultOf(kept[i + k], kept[i]) /\ kept[i + k].n = k
    <2>1. i + c \in DOMAIN h /\ kept[i] = h[i + c]
      BY <1>1, <1>3
    <2>2. /\ i + c + k \in DOMAIN h
          /\ ResultOf(h[i + c + k], h[i + c]) /\ h[i + c + k].n = k
      BY <1>5, <2>1 DEF Paired
    <2>3. i + k \in 1 .. Len(h) - c
      BY <1>3, <1>4, <2>1, <2>2
    <2>4. kept[i + k] = h[i + c + k]
      <3>1. kept[i].n \in Nat /\ (i + k) + c = i + c + k
        BY <1>3, <1>4, <2>1
      <3> QED
        BY <1>1, <2>3, <3>1
    <2> QED
      BY <1>3, <2>1, <2>2, <2>3, <2>4
  <1>6. ASSUME NEW i \in DOMAIN kept, kept[i].role = "tool"
        PROVE  /\ i - kept[i].n \in DOMAIN kept
               /\ ResultOf(kept[i], kept[i - kept[i].n])
    <2> DEFINE n == kept[i].n
               p == i + c - n
    <2>1. i + c \in DOMAIN h /\ kept[i] = h[i + c] /\ n \in Nat /\ c \in Nat /\ i \in Nat
      BY <1>1, <1>3, <1>4
    <2>2. p \in DOMAIN h /\ ResultOf(kept[i], h[p])
      BY <1>6, <2>1 DEF Paired
    <2>3. h[p].role = "function" /\ n \in 1 .. h[p].n /\ h[p].n \in Nat
      BY <1>3, <1>4, <2>2 DEF ResultOf
    <2>4. ASSUME p <= c PROVE FALSE
      <3>1. c # 0 /\ c + 1 \in 1 .. Len(h)
        BY <1>1, <1>3, <2>2, <2>4
      <3>2. c + 1 - p \in 1 .. h[p].n
        <4>1. i >= 1 /\ c + 1 - p = n + 1 - i /\ c + 1 - p >= 1
          BY <1>3, <2>1, <2>4
        <4> HIDE DEF p
        <4> QED
          BY <1>3, <2>1, <2>2, <2>3, <4>1
      <3>3. ResultOf(h[p + (c + 1 - p)], h[p])
        BY <2>2, <2>3, <3>2 DEF Paired
      <3>4. h[c + 1].role = "tool"
        <4>1. p + (c + 1 - p) = c + 1
          BY <1>3, <2>1, <2>2
        <4> HIDE DEF p
        <4>2. h[p + (c + 1 - p)].role = "tool"
          BY <3>3 DEF ResultOf
        <4> QED
          BY <4>1, <4>2
      <3> QED
        BY <1>1, <3>1, <3>4
    <2>5. i - n \in 1 .. Len(h) - c /\ i - n + c = p
      BY <1>1, <1>3, <2>1, <2>2, <2>4
    <2>6. kept[i - n] = h[p]
      BY <1>1, <2>5
    <2> QED
      BY <1>3, <2>2, <2>5, <2>6
  <1>7. Paired(kept)
    BY <1>5, <1>6 DEF Paired
  <1> QED
    BY <1>7 DEF kept

(***************************************************************************)
(* The loop.                                                               *)
(***************************************************************************)

\* The loop variable is below its bound while a batch of tools is handled:
\* what makes TypeOK's bound on iter inductive.
LoopInv ==
    \A t \in Turns :
        pc[t] \in {"save_call", "tools", "save_result"} => iter[t] < MaxIter

TypeInv == TypeOK /\ LoopInv

LEMMA MsgType ==
    ASSUME NEW role \in Roles, NEW t \in Turns, NEW i \in Nat, NEW n \in Nat
    PROVE  Msg(role, t, i, n) \in Message
  BY DEF Msg, Message

LEMMA StoreType ==
    ASSUME TypeOK, NEW t \in Turns, NEW role \in Roles, NEW n \in Nat,
           SaveMessage(t, role, n)
    PROVE  history' \in Seq(Message)
  <1>1. Msg(role, t, iter[t], n) \in Message
    BY EngineAssumption, MsgType DEF TypeOK
  <1>2. MaxMessages \in Nat \ {0}
    BY EngineAssumption
  <1>3. CASE Store(t, role, n)
    BY <1>1, <1>2, <1>3, AddMessageTail DEF Store, TypeOK
  <1>4. CASE StoreFails(t)
    BY <1>4 DEF StoreFails, TypeOK
  <1> QED
    BY <1>3, <1>4 DEF SaveMessage

LEMMA TypeInvInit == Init => TypeInv
  BY EngineAssumption, EmptySeq DEF Init, TypeInv, TypeOK, LoopInv, Steps

LEMMA TypeInvNext == TypeInv /\ [Next]_vars => TypeInv'
  <1> SUFFICES ASSUME TypeInv, [Next]_vars PROVE TypeInv'
    OBVIOUS
  <1> USE EngineAssumption
  <1>1. ASSUME NEW t \in Turns, Begin(t) PROVE TypeInv'
    <2>1. <<"session">> \in Seq(Event)
      BY DEF Event
    <2> QED
      BY <1>1, <2>1 DEF TypeInv, TypeOK, LoopInv, Begin, Goto, Steps, turnVars, clientVars
  <1>2. ASSUME NEW t \in Turns, Refuse(t) PROVE TypeInv'
    <2>1. <<"error">> \in Seq(Event)
      BY DEF Event, Terminal
    <2> QED
      BY <1>2, <2>1 DEF TypeInv, TypeOK, LoopInv, Refuse, Goto, Steps
  <1>3. ASSUME NEW t \in Turns, Deliver(t) PROVE TypeInv'
    <2>1. Tail(chan[t]) \in Seq(Event) /\ Append(seen[t], Head(chan[t])) \in Seq(Event)
      BY <1>3, HeadTailProperties DEF Deliver, TypeInv, TypeOK
    <2> QED
      BY <1>3, <2>1 DEF TypeInv, TypeOK, LoopInv, Deliver, turnVars
  <1>5. ASSUME NEW t \in Turns, Cancel(t) PROVE TypeInv'
    BY <1>5 DEF TypeInv, TypeOK, LoopInv, Cancel, turnVars
  <1>6. ASSUME NEW t \in Turns, SaveHuman(t) PROVE TypeInv'
    <2>1. history' \in Seq(Message)
      BY <1>6, StoreType DEF TypeInv, SaveHuman, SaveMessage, Roles
    <2>2. /\ \E step \in {"load", "fail"} : pc' = [pc EXCEPT ![t] = step]
          /\ UNCHANGED <<iter, streamed, ctx, batch, emitted, chan, clientVars>>
      BY <1>6 DEF SaveHuman, Goto
    <2> QED
      BY <2>1, <2>2 DEF TypeInv, TypeOK, LoopInv, Steps, clientVars
  <1>7. ASSUME NEW t \in Turns, LoadHistory(t) PROVE TypeInv'
    <2>1. TrimHistory(history, MaxContext) \in Seq(Message)
      BY TrimHistoryTail DEF TypeInv, TypeOK
    <2> QED
      BY <1>7, <2>1 DEF TypeInv, TypeOK, LoopInv, LoadHistory, Goto, Steps, clientVars
  <1>8. ASSUME NEW t \in Turns, Think(t) PROVE TypeInv'
    <2>1. Append(chan[t], "thinking") \in Seq(Event)
      BY DEF TypeInv, TypeOK, Event
    <2> QED
      BY <1>8, <2>1 DEF TypeInv, TypeOK, LoopInv, Think, Emit, Goto, Steps, clientVars
  <1>9. ASSUME NEW t \in Turns, Chunk(t) PROVE TypeInv'
    <2>1. Append(chan[t], "chunk") \in Seq(Event)
      BY DEF TypeInv, TypeOK, Event
    <2> QED
      BY <1>9, <2>1 DEF TypeInv, TypeOK, LoopInv, Chunk, Emit, clientVars
  <1>10. ASSUME NEW t \in Turns, Answer(t) PROVE TypeInv'
    BY <1>10 DEF TypeInv, TypeOK, LoopInv, Answer, Goto, Steps, clientVars
  <1>11. ASSUME NEW t \in Turns, Flush(t) PROVE TypeInv'
    <2>1. Append(chan[t], "chunk") \in Seq(Event)
      BY DEF TypeInv, TypeOK, Event
    <2> QED
      BY <1>11, <2>1 DEF TypeInv, TypeOK, LoopInv, Flush, Emit, Goto, Steps, clientVars
  <1>12. ASSUME NEW t \in Turns, CallTools(t) PROVE TypeInv'
    <2>1. PICK n \in 1 .. MaxCalls :
             batch' = [batch EXCEPT ![t] = [i \in 1 .. n |-> "queued"]]
      BY <1>12 DEF CallTools
    <2>2. [i \in 1 .. n |-> "queued"] \in Seq({"queued", "running", "over"})
      OBVIOUS
    <2> QED
      BY <1>12, <2>1, <2>2 DEF TypeInv, TypeOK, LoopInv, CallTools, Goto, Steps, clientVars
  <1>13. ASSUME NEW t \in Turns, ChatFails(t) PROVE TypeInv'
    BY <1>13 DEF TypeInv, TypeOK, LoopInv, ChatFails, Goto, Steps, clientVars
  <1>14. ASSUME NEW t \in Turns, SaveCall(t) PROVE TypeInv'
    <2>1. Len(batch[t]) \in Nat
      BY LenProperties DEF TypeInv, TypeOK
    <2>2. history' \in Seq(Message)
      BY <1>14, <2>1, StoreType DEF TypeInv, SaveCall, Roles
    <2>3. Append(ctx[t], Msg("function", t, iter[t], Len(batch[t]))) \in Seq(Message)
      <3>1. Msg("function", t, iter[t], Len(batch[t])) \in Message
        BY <2>1, MsgType DEF TypeInv, TypeOK, Roles
      <3> QED
        BY <3>1 DEF TypeInv, TypeOK
    <2> QED
      BY <1>14, <2>2, <2>3 DEF TypeInv, TypeOK, LoopInv, SaveCall, Goto, Steps, clientVars
  <1>15. ASSUME NEW t \in Turns, StartTool(t) PROVE TypeInv'
    <2>1. PICK i \in Calls(t, "queued") : batch' = [batch EXCEPT ![t][i] = "running"]
      BY <1>15 DEF StartTool
    <2>2. [batch[t] EXCEPT ![i] = "running"] \in Seq({"queued", "running", "over"})
      BY <2>1, ExceptSeq, LenProperties DEF TypeInv, TypeOK, Calls
    <2> QED
      BY <1>15, <2>1, <2>2 DEF TypeInv, TypeOK, LoopInv, StartTool, clientVars
  <1>16. ASSUME NEW t \in Turns, FinishTool(t) PROVE TypeInv'
    <2>1. PICK i \in Calls(t, "running") : batch' = [batch EXCEPT ![t][i] = "over"]
      BY <1>16 DEF FinishTool
    <2>2. [batch[t] EXCEPT ![i] = "over"] \in Seq({"queued", "running", "over"})
      BY <2>1, ExceptSeq, LenProperties DEF TypeInv, TypeOK, Calls
    <2> QED
      BY <1>16, <2>1, <2>2 DEF TypeInv, TypeOK, LoopInv, FinishTool, clientVars
  <1>17. ASSUME NEW t \in Turns, EmitResult(t) PROVE TypeInv'
    <2>1. Append(chan[t], "tool_call") \in Seq(Event)
      BY DEF TypeInv, TypeOK, Event
    <2> QED
      BY <1>17, <2>1 DEF TypeInv, TypeOK, LoopInv, EmitResult, Emit, Goto, Steps, clientVars
  <1>18. ASSUME NEW t \in Turns, SaveResult(t) PROVE TypeInv'
    <2>1. history' \in Seq(Message)
      BY <1>18, StoreType DEF TypeInv, TypeOK, SaveResult, NextResult, Roles
    <2> DEFINE results == [k \in DOMAIN batch[t] |-> Msg("tool", t, iter[t], k)]
    <2>2. ctx[t] \o results \in Seq(Message)
      <3>1. DOMAIN batch[t] = 1 .. Len(batch[t]) /\ Len(batch[t]) \in Nat
        BY LenProperties DEF TypeInv, TypeOK
      <3>2. \A k \in 1 .. Len(batch[t]) : Msg("tool", t, iter[t], k) \in Message
        BY MsgType DEF TypeInv, TypeOK, Roles
      <3>3. results \in Seq(Message)
        BY <3>1, <3>2
      <3> QED
        BY <3>3, ConcatProperties DEF TypeInv, TypeOK
    <2> HIDE DEF results
    <2>3. CASE emitted[t] + 1 = Len(batch[t])
      <3>1. /\ ctx' = [ctx EXCEPT ![t] = ctx[t] \o results]
            /\ iter' = [iter EXCEPT ![t] = @ + 1]
            /\ batch' = [batch EXCEPT ![t] = <<>>]
            /\ emitted' = [emitted EXCEPT ![t] = 0]
            /\ pc' = [pc EXCEPT ![t] = "think"]
            /\ UNCHANGED <<streamed, chan, clientVars>>
        BY <1>18, <2>3, Zenon DEF SaveResult, Goto, results
      <3>2. iter[t] + 1 \in 0 .. MaxIter
        BY <1>18 DEF TypeInv, TypeOK, LoopInv, SaveResult
      <3> QED
        BY <2>1, <2>2, <3>1, <3>2, EmptySeq DEF TypeInv, TypeOK, LoopInv, Steps, clientVars
    <2>4. CASE emitted[t] + 1 # Len(batch[t])
      <3>1. /\ emitted' = [emitted EXCEPT ![t] = @ + 1]
            /\ pc[t] = "save_result" /\ pc' = [pc EXCEPT ![t] = "tools"]
            /\ UNCHANGED <<ctx, iter, batch, streamed, chan, clientVars>>
        BY <1>18, <2>4, Zenon DEF SaveResult, Goto
      <3> QED
        BY <2>1, <3>1 DEF TypeInv, TypeOK, LoopInv, Steps, clientVars
    <2> QED
      BY <2>3, <2>4
  <1>19. ASSUME NEW t \in Turns, SaveAnswer(t) PROVE TypeInv'
    <2>1. history' \in Seq(Message)
      BY <1>19, StoreType DEF TypeInv, SaveAnswer, Roles
    <2> QED
      BY <1>19, <2>1 DEF TypeInv, TypeOK, LoopInv, SaveAnswer, Goto, Steps, clientVars
  <1>20. ASSUME NEW t \in Turns, Finish(t) PROVE TypeInv'
    <2>1. Append(chan[t], "done") \in Seq(Event)
      BY DEF TypeInv, TypeOK, Event, Terminal
    <2> QED
      BY <1>20, <2>1 DEF TypeInv, TypeOK, LoopInv, Finish, Emit, Goto, Steps, clientVars
  <1>21. ASSUME NEW t \in Turns, Fail(t) PROVE TypeInv'
    <2>1. Append(chan[t], "error") \in Seq(Event)
      BY DEF TypeInv, TypeOK, Event, Terminal
    <2> QED
      BY <1>21, <2>1 DEF TypeInv, TypeOK, LoopInv, Fail, Emit, Goto, Steps, clientVars
  <1>22. ASSUME NEW t \in Turns, Panic(t) PROVE TypeInv'
    BY <1>22 DEF TypeInv, TypeOK, LoopInv, Panic, Goto, Steps, clientVars
  <1>23. ASSUME NEW t \in Turns, Close(t) PROVE TypeInv'
    BY <1>23, EmptySeq DEF TypeInv, TypeOK, LoopInv, Close, Goto, Steps, clientVars
  <1>24. CASE DeleteSession
    BY <1>24, EmptySeq DEF TypeInv, TypeOK, LoopInv, DeleteSession, turnVars, clientVars
  <1>25. CASE Crash
    BY <1>25, EmptySeq DEF TypeInv, TypeOK, LoopInv, Crash, Steps, Streaming
  <1>26. CASE UNCHANGED vars
    BY <1>26 DEF TypeInv, TypeOK, LoopInv, vars, turnVars, clientVars
  <1> QED
    BY <1>1, <1>2, <1>3, <1>5, <1>6, <1>7, <1>8, <1>9, <1>10, <1>11, <1>12,
       <1>13, <1>14, <1>15, <1>16, <1>17, <1>18, <1>19, <1>20, <1>21, <1>22, <1>23,
       <1>24, <1>25, <1>26 DEF Next, Process, Work, Reply

LEMMA TypeInvariance == Spec => []TypeInv
  BY TypeInvInit, TypeInvNext, PTL DEF Spec

\* Every variable keeps its type; in particular the loop variable never
\* exceeds MaxIterations, whatever the LLM answers.
THEOREM EngineTypeOK == Spec => []TypeOK
  BY TypeInvariance, PTL DEF TypeInv

-----------------------------------------------------------------------------
(***************************************************************************)
(* No stream ends silently.  NoSilentEnd is not inductive: that a handler  *)
(* finds a terminal event rests on what is still in the channel, and on    *)
(* the goroutine sending nothing after its terminal event.                 *)
(***************************************************************************)
Outside == {"idle", "closing", "closed"}

Last(s) == s[Len(s)]

\* A terminal event is the last of its channel, and the goroutine is through.
TerminalLast(t) ==
    \A i \in DOMAIN chan[t] :
        chan[t][i] \in Terminal => i = Len(chan[t]) /\ pc[t] \in {"closing", "closed"}

StreamInv ==
    \A t \in Turns :
        /\ handler[t] = "idle" <=> pc[t] = "idle"
        /\ handler[t] = "idle" => chan[t] = <<>>
        /\ TerminalLast(t)
        /\ handler[t] = "reading" /\ pc[t] \in {"closing", "closed"} =>
              chan[t] # <<>> /\ Last(chan[t]) \in Terminal
        /\ handler[t] = "returned" =>
              /\ pc[t] \in {"closing", "closed"} /\ chan[t] = <<>>
              /\ seen[t] # <<>> /\ Last(seen[t]) \in Terminal
        /\ handler[t] = "lost" => pc[t] = "closed"

\* A step of the goroutine between its start and its terminal event.
Inner(t) ==
    /\ pc[t] \notin Outside
    /\ \E step \in Steps \ Outside : pc' = [pc EXCEPT ![t] = step]
    /\ \/ chan' = chan
       \/ \E event \in Event \ Terminal : chan' = [chan EXCEPT ![t] = Append(@, event)]
    /\ UNCHANGED <<handler, seen>>

LEMMA AppendEvent ==
    ASSUME NEW s \in Seq(Event), NEW e \in Event
    PROVE  /\ Append(s, e) \in Seq(Event)
           /\ Append(s, e) # <<>>
           /\ DOMAIN Append(s, e) = 1 .. Len(s) + 1
           /\ Len(Append(s, e)) = Len(s) + 1
           /\ \A i \in 1 .. Len(s) : Append(s, e)[i] = s[i]
           /\ Append(s, e)[Len(s) + 1] = e
           /\ Len(s) \in Nat /\ DOMAIN s = 1 .. Len(s)
  OBVIOUS

LEMMA InnerStream ==
    ASSUME TypeOK, StreamInv, NEW t \in Turns, Inner(t)
    PROVE  StreamInv'
  <1> SUFFICES ASSUME NEW u \in Turns
               PROVE  /\ handler'[u] = "idle" <=> pc'[u] = "idle"
                      /\ handler'[u] = "idle" => chan'[u] = <<>>
                      /\ TerminalLast(u)'
                      /\ handler'[u] = "reading" /\ pc'[u] \in {"closing", "closed"} =>
                            chan'[u] # <<>> /\ Last(chan'[u]) \in Terminal
                      /\ handler'[u] = "returned" =>
                            /\ pc'[u] \in {"closing", "closed"} /\ chan'[u] = <<>>
                            /\ seen'[u] # <<>> /\ Last(seen'[u]) \in Terminal
                      /\ handler'[u] = "lost" => pc'[u] = "closed"
    BY DEF StreamInv, Last
  <1>1. CASE u # t
    BY <1>1 DEF StreamInv, Inner, TypeOK, TerminalLast, Last
  <1>2. CASE u = t
    <2>1. /\ pc'[t] \notin Outside /\ pc[t] \notin Outside
          /\ handler'[t] = handler[t] /\ handler[t] \notin {"idle", "returned", "lost"}
      BY DEF StreamInv, Inner, TypeOK, Outside
    <2>2. \A i \in DOMAIN chan[t] : chan[t][i] \notin Terminal
      BY <2>1 DEF StreamInv, TerminalLast, Outside
    <2>3. \A i \in DOMAIN chan'[t] : chan'[t][i] \notin Terminal
      <3>1. CASE chan' = chan
        BY <2>2, <3>1
      <3>2. ASSUME NEW e \in Event \ Terminal, chan' = [chan EXCEPT ![t] = Append(@, e)]
            PROVE  \A i \in DOMAIN chan'[t] : chan'[t][i] \notin Terminal
        <4>1. chan[t] \in Seq(Event) /\ chan'[t] = Append(chan[t], e)
          BY <3>2 DEF TypeOK
        <4> QED
          BY <2>2, <4>1, AppendEvent
      <3> QED
        BY <3>1, <3>2 DEF Inner
    <2> QED
      BY <1>2, <2>1, <2>3 DEF TerminalLast, Outside
  <1> QED
    BY <1>1, <1>2

LEMMA StreamInvInit == Init => StreamInv
  <1> SUFFICES ASSUME Init, NEW t \in Turns
               PROVE  /\ pc[t] = "idle" /\ handler[t] = "idle" /\ chan[t] = <<>>
                      /\ TerminalLast(t)
    BY DEF StreamInv
  <1>1. pc[t] = "idle" /\ handler[t] = "idle" /\ chan[t] = <<>>
    BY DEF Init
  <1>2. DOMAIN chan[t] = {}
    BY <1>1
  <1> QED
    BY <1>1, <1>2 DEF TerminalLast

LEMMA StreamInvNext == TypeInv /\ StreamInv /\ [Next]_vars => StreamInv'
  <1> SUFFICES ASSUME TypeInv, StreamInv, [Next]_vars PROVE StreamInv'
    OBVIOUS
  <1> USE DEF TypeInv
  <1>1. ASSUME NEW t \in Turns, Begin(t) PROVE StreamInv'
    BY <1>1 DEF StreamInv, TypeOK, TerminalLast, Begin, Goto
  <1>2. ASSUME NEW t \in Turns, Refuse(t) PROVE StreamInv'
    <2>1. <<"error">> # <<>> /\ Last(<<"error">>) \in Terminal
      BY DEF Last, Terminal
    <2> QED
      BY <1>2, <2>1 DEF StreamInv, TypeOK, TerminalLast, Refuse, Goto
  <1>3. ASSUME NEW t \in Turns, Deliver(t) PROVE StreamInv'
    <2> DEFINE c == chan[t]
               event == Head(c)
    <2>1. /\ c \in Seq(Event) /\ c # <<>> /\ handler[t] = "reading"
          /\ Len(c) \in Nat \ {0} /\ DOMAIN c = 1 .. Len(c) /\ event = c[1]
          /\ event \in Event /\ seen[t] \in Seq(Event)
      BY <1>3 DEF Deliver, Streaming, TypeOK
    <2>2. /\ Tail(c) \in Seq(Event) /\ Len(Tail(c)) = Len(c) - 1
          /\ DOMAIN Tail(c) = 1 .. Len(c) - 1
          /\ \A i \in 1 .. Len(c) - 1 : Tail(c)[i] = c[i + 1]
      BY <2>1
    <2>3. /\ chan' = [chan EXCEPT ![t] = Tail(c)]
          /\ seen' = [seen EXCEPT ![t] = Append(@, event)]
          /\ pc' = pc
      BY <1>3 DEF Deliver, turnVars
    <2>4. CASE event \in Terminal
      <3>1. handler' = [handler EXCEPT ![t] = "returned"]
        BY <1>3, <2>4 DEF Deliver
      <3>2. Len(c) = 1 /\ pc[t] \in {"closing", "closed"}
        <4>1. 1 \in DOMAIN c /\ c[1] \in Terminal
          BY <2>1, <2>4
        <4>2. TerminalLast(t)
          BY DEF StreamInv
        <4> QED
          BY <4>1, <4>2 DEF TerminalLast
      <3>3. Tail(c) = <<>>
        BY <2>2, <3>2
      <3>4. seen'[t] # <<>> /\ Last(seen'[t]) \in Terminal
        <4>1. seen'[t] = Append(seen[t], event)
          BY <2>3 DEF TypeOK
        <4> QED
          BY <2>1, <2>4, <4>1, AppendEvent DEF Last
      <3> HIDE DEF c, event
      <3>5. /\ handler'[t] = "returned" /\ chan'[t] = <<>>
            /\ \A u \in Turns \ {t} : /\ handler'[u] = handler[u] /\ chan'[u] = chan[u]
                                      /\ seen'[u] = seen[u]
        BY <2>3, <3>1, <3>3 DEF TypeOK
      <3>6. DOMAIN chan'[t] = {}
        BY <3>5
      <3> QED
        BY <2>1, <2>3, <3>2, <3>4, <3>5, <3>6 DEF StreamInv, TerminalLast
    <2>5. CASE event \notin Terminal
      <3>1. handler' = handler
        BY <1>3, <2>1, <2>5 DEF Deliver, TypeOK
      <3>2. \A i \in DOMAIN Tail(c) : Tail(c)[i] \in Terminal =>
                i = Len(Tail(c)) /\ pc[t] \in {"closing", "closed"}
        <4>1. ASSUME NEW i \in 1 .. Len(c) - 1, Tail(c)[i] \in Terminal
              PROVE  i = Len(c) - 1 /\ pc[t] \in {"closing", "closed"}
          <5>1. i + 1 \in DOMAIN c /\ c[i + 1] \in Terminal
            BY <2>1, <2>2, <4>1
          <5> QED
            BY <2>1, <5>1 DEF StreamInv, TerminalLast
        <4> QED
          BY <2>2, <4>1
      <3>3. pc[t] \in {"closing", "closed"} => Tail(c) # <<>> /\ Last(Tail(c)) \in Terminal
        <4> SUFFICES ASSUME pc[t] \in {"closing", "closed"}
                     PROVE  Tail(c) # <<>> /\ Last(Tail(c)) \in Terminal
          OBVIOUS
        <4>1. c[Len(c)] \in Terminal
          BY <2>1 DEF StreamInv, Last
        <4>2. Len(c) > 1
          BY <2>1, <2>5, <4>1
        <4> DEFINE n == Len(c)
                   rest == Tail(c)
        <4> HIDE DEF c
        <4>3. /\ n \in Nat /\ n - 1 \in 1 .. n - 1 /\ Len(rest) = n - 1
              /\ \A i \in 1 .. n - 1 : rest[i] = c[i + 1]
          BY <2>1, <2>2, <4>2
        <4> HIDE DEF n, rest
        <4>4. rest[n - 1] = c[n] /\ Len(rest) # 0
          BY <4>3
        <4>5. rest # <<>> /\ Last(rest) = c[n]
          BY <4>3, <4>4 DEF Last
        <4> QED
          BY <4>1, <4>5 DEF n, rest
      <3> HIDE DEF c, event
      <3>4. /\ chan'[t] = Tail(c)
            /\ \A u \in Turns \ {t} : chan'[u] = chan[u] /\ seen'[u] = seen[u]
        BY <2>3 DEF TypeOK
      <3> QED
        BY <2>1, <2>3, <3>1, <3>2, <3>3, <3>4 DEF StreamInv, TerminalLast
    <2> QED
      BY <2>4, <2>5
  <1>5. ASSUME NEW t \in Turns,
               \/ SaveHuman(t) \/ LoadHistory(t) \/ Think(t) \/ Flush(t)
               \/ SaveCall(t) \/ StartTool(t) \/ FinishTool(t)
               \/ EmitResult(t) \/ SaveResult(t) \/ SaveAnswer(t)
               \/ Reply(t) \/ ChatFails(t) \/ Panic(t)
        PROVE  StreamInv'
    <2> USE DEF Inner, Outside, Steps, Goto, Emit, Event, Terminal, clientVars
    <2>0. pc \in [Turns -> Steps]
      BY DEF TypeOK
    <2>1. SaveHuman(t) => Inner(t)
      BY <2>0 DEF SaveHuman
    <2>2. LoadHistory(t) => Inner(t)
      BY <2>0 DEF LoadHistory
    <2>3. Think(t) => Inner(t)
      BY <2>0 DEF Think
    <2>4. Chunk(t) => Inner(t)
      <3>1. Chunk(t) => pc[t] = "chat" /\ pc' = [pc EXCEPT ![t] = "chat"]
        BY <2>0 DEF Chunk
      <3> QED
        BY <3>1 DEF Chunk
    <2>5. Answer(t) => Inner(t)
      BY <2>0 DEF Answer
    <2>6. Flush(t) => Inner(t)
      BY <2>0 DEF Flush
    <2>7. CallTools(t) => Inner(t)
      BY <2>0 DEF CallTools
    <2>8. ChatFails(t) => Inner(t)
      BY <2>0 DEF ChatFails
    <2>9. SaveCall(t) => Inner(t)
      BY <2>0 DEF SaveCall
    <2>10. StartTool(t) => Inner(t)
      BY <2>0 DEF StartTool
    <2>11. FinishTool(t) => Inner(t)
      BY <2>0 DEF FinishTool
    <2>12. EmitResult(t) => Inner(t)
      BY <2>0 DEF EmitResult
    <2>13. SaveResult(t) => Inner(t)
      BY <2>0 DEF SaveResult
    <2>14. SaveAnswer(t) => Inner(t)
      BY <2>0 DEF SaveAnswer
    <2>15. Panic(t) => Inner(t)
      BY <2>0 DEF Panic
    <2> QED
      BY <1>5, <2>1, <2>2, <2>3, <2>4, <2>5, <2>6, <2>7, <2>8, <2>9, <2>10, <2>11, <2>12, <2>13, <2>14, <2>15, InnerStream DEF Reply
  <1>6. ASSUME NEW t \in Turns, Finish(t) \/ Fail(t) PROVE StreamInv'
    <2>1. PICK event \in Terminal : chan' = [chan EXCEPT ![t] = Append(@, event)]
      BY <1>6 DEF Finish, Fail, Emit, Terminal
    <2>2. /\ pc[t] \in {"finish", "fail"} /\ pc' = [pc EXCEPT ![t] = "closing"]
          /\ UNCHANGED <<handler, seen>>
      BY <1>6 DEF Finish, Fail, Goto, clientVars
    <2>3. chan[t] \in Seq(Event) /\ event \in Event /\ chan'[t] = Append(chan[t], event)
      BY <2>1 DEF TypeOK, Event
    <2>4. \A i \in DOMAIN chan[t] : chan[t][i] \notin Terminal
      BY <2>2 DEF StreamInv, TerminalLast
    <2>5. /\ chan'[t] # <<>> /\ Last(chan'[t]) \in Terminal
          /\ \A i \in DOMAIN chan'[t] : chan'[t][i] \in Terminal => i = Len(chan'[t])
      BY <2>3, <2>4, AppendEvent DEF Last
    <2>6. /\ handler[t] = "reading" /\ pc'[t] = "closing"
          /\ \A u \in Turns \ {t} : chan'[u] = chan[u] /\ pc'[u] = pc[u]
      BY <2>1, <2>2 DEF StreamInv, TypeOK
    <2> QED
      BY <2>2, <2>5, <2>6 DEF StreamInv, TerminalLast
  <1>7. ASSUME NEW t \in Turns, Close(t) PROVE StreamInv'
    BY <1>7 DEF StreamInv, TypeOK, TerminalLast, Close, Goto, clientVars
  <1>8. ASSUME NEW t \in Turns, Cancel(t) PROVE StreamInv'
    BY <1>8 DEF StreamInv, TerminalLast, Cancel, turnVars
  <1>9. CASE DeleteSession
    BY <1>9 DEF StreamInv, TerminalLast, DeleteSession, turnVars, clientVars
  <1>10. CASE Crash
    BY <1>10 DEF StreamInv, TypeOK, TerminalLast, Crash, Streaming
  <1>11. CASE UNCHANGED vars
    BY <1>11 DEF StreamInv, TerminalLast, vars, turnVars, clientVars
  <1> QED
    BY <1>1, <1>2, <1>3, <1>5, <1>6, <1>7, <1>8, <1>9, <1>10, <1>11
       DEF Next, Process, Work, Reply

\* For every number of turns and whatever fails: a handler that returns has
\* sent its client "done" or "error", and left nothing unread.
THEOREM EngineNoSilentEnd == Spec => []NoSilentEnd
  <1>1. StreamInv => NoSilentEnd
    BY DEF StreamInv, NoSilentEnd, Last
  <1>2. Spec => []StreamInv
    BY StreamInvInit, StreamInvNext, TypeInvariance, PTL DEF Spec
  <1> QED
    BY <1>1, <1>2, PTL

-----------------------------------------------------------------------------
(***************************************************************************)
(* The order of a turn's messages.  TurnOrder alone does not say that the  *)
(* next message will come after the ones already stored; Past adds what    *)
(* the position of a turn says of the messages it has written.             *)
(***************************************************************************)
\* Where the turn that wrote m is, given the pc, iter and emitted of all turns.
Written(m, at, it, sent) ==
    LET t == m.turn
        earlier == m.role \in {"function", "tool"} /\ m.iter < it[t]
    IN  /\ at[t] \notin {"idle", "save_human"}
        /\ at[t] \in {"load", "think", "chat", "flush", "save_call", "save_answer"} =>
              m.role = "human" \/ earlier
        /\ at[t] \in {"tools", "save_result"} =>
              \/ m.role = "human" \/ earlier
              \/ m.iter = it[t] /\ m.role = "function"
              \/ m.iter = it[t] /\ m.role = "tool" /\ m.n <= sent[t]

Past == \A j \in DOMAIN history : Written(history[j], pc, iter, emitted)

OrderInv == TurnOrder /\ Past

\* A store call keeps the order when its message comes after all that the
\* turn has stored; what is in the history was there or is that message.
LEMMA StoreOrder ==
    ASSUME TypeOK, TurnOrder, NEW t \in Turns, NEW role \in Roles, NEW n \in Nat,
           SaveMessage(t, role, n),
           \A i \in DOMAIN history :
              history[i].turn = t => WrittenBefore(history[i], Msg(role, t, iter[t], n))
    PROVE  /\ TurnOrder'
           /\ history' \in Seq(Message)
           /\ \A j \in DOMAIN history' :
                 \/ history'[j] = Msg(role, t, iter[t], n)
                 \/ \E i \in DOMAIN history : history'[j] = history[i]
  <1> DEFINE msg == Msg(role, t, iter[t], n)
  <1>1. msg \in Message /\ msg.turn = t
    BY EngineAssumption, MsgType DEF TypeOK, Msg
  <1>2. history' \in Seq(Message)
    BY StoreType
  <1>3. CASE StoreFails(t)
    <2>1. history' = history
      BY <1>3 DEF StoreFails
    <2>2. TurnOrder'
      BY <2>1 DEF TurnOrder
    <2> QED
      BY <1>2, <2>1, <2>2
  <1>4. CASE Store(t, role, n)
    <2>1. history' = AddMessage(history, msg, MaxMessages) /\ history \in Seq(Message)
      BY <1>4 DEF Store, TypeOK
    <2> HIDE DEF msg
    <2>2. PICK k \in 0 .. Len(history) :
             /\ Len(history') = Len(history) + 1 - k
             /\ \A i \in 1 .. Len(history) - k : history'[i] = history[i + k]
             /\ history'[Len(history')] = msg
      BY <1>1, <2>1, AddMessageTail, EngineAssumption
    <2>3. /\ DOMAIN history = 1 .. Len(history) /\ Len(history) \in Nat
          /\ DOMAIN history' = 1 .. Len(history) + 1 - k /\ k \in Nat
      BY <1>2, <2>1, <2>2
    <2>4. \A j \in DOMAIN history' : j = Len(history') \/ j \in 1 .. Len(history) - k
      <3>1. Len(history') = Len(history) + 1 - k
        BY <2>2
      <3> QED
        BY <2>3, <3>1
    <2>5. \A j \in DOMAIN history' :
             history'[j] = msg \/ \E i \in DOMAIN history : history'[j] = history[i]
      <3> TAKE j \in DOMAIN history'
      <3>1. CASE j = Len(history')
        BY <2>2, <3>1
      <3>2. CASE j \in 1 .. Len(history) - k
        <4>1. j + k \in DOMAIN history /\ history'[j] = history[j + k]
          BY <2>2, <2>3, <3>2
        <4> QED
          BY <4>1
      <3> QED
        BY <2>4, <3>1, <3>2
    <2>6. TurnOrder'
      <3> SUFFICES ASSUME NEW j \in DOMAIN history', NEW i \in 1 .. j - 1,
                          history'[i].turn = history'[j].turn
                   PROVE  WrittenBefore(history'[i], history'[j])
        BY DEF TurnOrder
      <3>1. i + k \in DOMAIN history /\ history'[i] = history[i + k]
        <4>1. i \in 1 .. Len(history) - k
          BY <2>3
        <4> QED
          BY <2>2, <2>3, <4>1
      <3>2. CASE j = Len(history')
        <4>1. history'[j] = msg
          BY <2>2, <3>2
        <4>2. history[i + k].turn = t
          BY <1>1, <3>1, <4>1
        <4>3. WrittenBefore(history[i + k], msg)
          BY <3>1, <4>2 DEF msg
        <4> QED
          BY <3>1, <4>1, <4>3, Zenon
      <3>3. CASE j \in 1 .. Len(history) - k
        <4>1. /\ j + k \in DOMAIN history /\ history'[j] = history[j + k]
              /\ i + k \in 1 .. (j + k) - 1
          BY <2>2, <2>3, <3>3
        <4>2. history[i + k].turn = history[j + k].turn
          BY <3>1, <4>1
        <4>3. WrittenBefore(history[i + k], history[j + k])
          BY <4>1, <4>2, Zenon DEF TurnOrder
        <4> QED
          BY <3>1, <4>1, <4>3, Zenon
      <3> QED
        BY <2>4, <3>2, <3>3
    <2> QED
      BY <1>2, <2>5, <2>6 DEF msg
  <1> QED
    BY <1>3, <1>4 DEF SaveMessage

\* A step that stores nothing only has to leave Written alone.
LEMMA SilentOrder ==
    ASSUME TypeOK, OrderInv,
           history' = history \/ history' = <<>>,
           \A m \in Message : Written(m, pc, iter, emitted) => Written(m, pc', iter', emitted')
    PROVE  OrderInv'
  <1>1. CASE history' = history
    <2>1. \A j \in DOMAIN history : history[j] \in Message
      BY ElementOfSeq DEF TypeOK
    <2>2. TurnOrder'
      BY <1>1 DEF OrderInv, TurnOrder
    <2>3. ASSUME NEW j \in DOMAIN history' PROVE Written(history'[j], pc', iter', emitted')
      <3>1. history'[j] = history[j] /\ history[j] \in Message /\ Written(history[j], pc, iter, emitted)
        BY <1>1, <2>1, <2>3 DEF OrderInv, Past
      <3> QED
        BY <3>1
    <2> QED
      BY <2>2, <2>3 DEF OrderInv, Past
  <1>2. CASE history' = <<>>
    <2>1. DOMAIN history' = {}
      BY <1>2
    <2> QED
      BY <2>1 DEF OrderInv, TurnOrder, Past
  <1> QED
    BY <1>1, <1>2

\* A step that stores a message.
LEMMA SavingOrder ==
    ASSUME TypeOK, OrderInv, NEW t \in Turns, NEW role \in Roles, NEW n \in Nat,
           SaveMessage(t, role, n),
           \A m \in Message : Written(m, pc, iter, emitted) /\ m.turn = t =>
              WrittenBefore(m, Msg(role, t, iter[t], n)),
           \A m \in Message : Written(m, pc, iter, emitted) => Written(m, pc', iter', emitted'),
           Written(Msg(role, t, iter[t], n), pc', iter', emitted')
    PROVE  OrderInv'
  <1>1. \A j \in DOMAIN history : history[j] \in Message /\ Written(history[j], pc, iter, emitted)
    BY ElementOfSeq DEF TypeOK, OrderInv, Past
  <1>2. /\ TurnOrder'
        /\ \A j \in DOMAIN history' :
              \/ history'[j] = Msg(role, t, iter[t], n)
              \/ \E i \in DOMAIN history : history'[j] = history[i]
    BY <1>1, StoreOrder DEF OrderInv
  <1>3. ASSUME NEW j \in DOMAIN history' PROVE Written(history'[j], pc', iter', emitted')
    <2>1. CASE \E i \in DOMAIN history : history'[j] = history[i]
      <3>1. PICK i \in DOMAIN history : history'[j] = history[i]
        BY <2>1
      <3> QED
        BY <1>1, <3>1
    <2>2. CASE history'[j] = Msg(role, t, iter[t], n)
      BY <2>2
    <2> QED
      BY <1>2, <2>1, <2>2
  <1> QED
    BY <1>2, <1>3 DEF OrderInv, Past

LEMMA OrderInvInit == Init => OrderInv
  <1>1. Init => DOMAIN history = {}
    BY DEF Init
  <1> QED
    BY <1>1 DEF OrderInv, TurnOrder, Past

LEMMA OrderInvNext == TypeInv /\ StreamInv /\ OrderInv /\ [Next]_vars => OrderInv'
  <1> SUFFICES ASSUME TypeInv, StreamInv, OrderInv, [Next]_vars PROVE OrderInv'
    OBVIOUS
  <1> USE DEF TypeInv
  <1>0. /\ pc \in [Turns -> Steps] /\ iter \in [Turns -> Nat] /\ emitted \in [Turns -> Nat]
        /\ \A m \in Message : m.turn \in Turns /\ m.iter \in Nat /\ m.n \in Nat
    BY EngineAssumption DEF TypeOK, Message
  <1>1. ASSUME NEW t \in Turns, Begin(t) \/ Refuse(t) PROVE OrderInv'
    <2>1. pc[t] = "idle" /\ history' = history /\ UNCHANGED <<iter, emitted>>
      BY <1>1 DEF Begin, Refuse, StreamInv
    <2>2. \E step \in Steps : pc' = [pc EXCEPT ![t] = step]
      BY <1>1 DEF Begin, Refuse, Goto, Steps
    <2>3. \A m \in Message : Written(m, pc, iter, emitted) => Written(m, pc', iter', emitted')
      BY <1>0, <2>1, <2>2 DEF Written
    <2> QED
      BY <2>1, <2>3, SilentOrder
  <1>2. ASSUME NEW t \in Turns, SaveHuman(t) PROVE OrderInv'
    <2>1. SaveMessage(t, "human", 0) /\ pc[t] = "save_human"
      BY <1>2 DEF SaveHuman, SaveMessage
    <2>2. /\ UNCHANGED <<iter, emitted>>
          /\ \E step \in {"load", "fail"} : pc' = [pc EXCEPT ![t] = step]
      BY <1>2 DEF SaveHuman, Goto
    <2>3. \A m \in Message : Written(m, pc, iter, emitted) /\ m.turn = t => FALSE
      BY <2>1 DEF Written
    <2>4. \A m \in Message : Written(m, pc, iter, emitted) => Written(m, pc', iter', emitted')
      BY <1>0, <2>1, <2>2 DEF Written
    <2>5. Written(Msg("human", t, iter[t], 0), pc', iter', emitted')
      BY <1>0, <2>2 DEF Written, Msg
    <2> QED
      BY <2>1, <2>3, <2>4, <2>5, SavingOrder DEF Roles
  <1>3. ASSUME NEW t \in Turns, SaveCall(t) PROVE OrderInv'
    <2> DEFINE n == Len(batch[t])
    <2>1. /\ n \in Nat /\ SaveMessage(t, "function", n) /\ pc[t] = "save_call"
          /\ UNCHANGED <<iter, emitted>> /\ pc' = [pc EXCEPT ![t] = "tools"]
      BY <1>3, LenProperties DEF SaveCall, Goto, TypeOK
    <2> HIDE DEF n
    <2>2. \A m \in Message : Written(m, pc, iter, emitted) /\ m.turn = t =>
             WrittenBefore(m, Msg("function", t, iter[t], n))
      BY <1>0, <2>1 DEF Written, WrittenBefore, Msg
    <2>3. \A m \in Message : Written(m, pc, iter, emitted) => Written(m, pc', iter', emitted')
      BY <1>0, <2>1 DEF Written
    <2>4. Written(Msg("function", t, iter[t], n), pc', iter', emitted')
      BY <1>0, <2>1 DEF Written, Msg
    <2> QED
      BY <2>1, <2>2, <2>3, <2>4, SavingOrder DEF Roles
  <1>4. ASSUME NEW t \in Turns, SaveResult(t) PROVE OrderInv'
    <2> DEFINE n == emitted[t] + 1
    <2>1. n \in Nat /\ SaveMessage(t, "tool", n) /\ pc[t] = "save_result"
      BY <1>0, <1>4 DEF SaveResult, NextResult
    <2>2. \/ /\ pc' = [pc EXCEPT ![t] = "think"] /\ iter' = [iter EXCEPT ![t] = @ + 1]
             /\ emitted' = [emitted EXCEPT ![t] = 0]
          \/ /\ pc' = [pc EXCEPT ![t] = "tools"] /\ UNCHANGED iter
             /\ emitted' = [emitted EXCEPT ![t] = n]
      BY <1>4, Zenon DEF SaveResult, Goto
    <2>3. \A m \in Message : Written(m, pc, iter, emitted) /\ m.turn = t =>
             WrittenBefore(m, Msg("tool", t, iter[t], n))
      BY <1>0, <2>1 DEF Written, WrittenBefore, Msg
    <2>4. \A m \in Message : Written(m, pc, iter, emitted) => Written(m, pc', iter', emitted')
      BY <1>0, <2>1, <2>2 DEF Written
    <2>5. Written(Msg("tool", t, iter[t], n), pc', iter', emitted')
      BY <1>0, <2>1, <2>2 DEF Written, Msg
    <2> QED
      BY <2>1, <2>3, <2>4, <2>5, SavingOrder DEF Roles
  <1>5. ASSUME NEW t \in Turns, SaveAnswer(t) PROVE OrderInv'
    <2>1. /\ SaveMessage(t, "ai", 0) /\ pc[t] = "save_answer"
          /\ UNCHANGED <<iter, emitted>> /\ pc' = [pc EXCEPT ![t] = "finish"]
      BY <1>5 DEF SaveAnswer, Goto
    <2>2. \A m \in Message : Written(m, pc, iter, emitted) /\ m.turn = t =>
             WrittenBefore(m, Msg("ai", t, iter[t], 0))
      BY <1>0, <2>1 DEF Written, WrittenBefore, Msg
    <2>3. \A m \in Message : Written(m, pc, iter, emitted) => Written(m, pc', iter', emitted')
      BY <1>0, <2>1 DEF Written
    <2>4. Written(Msg("ai", t, iter[t], 0), pc', iter', emitted')
      BY <1>0, <2>1 DEF Written, Msg
    <2> QED
      BY <2>1, <2>2, <2>3, <2>4, SavingOrder DEF Roles
  <1>6. ASSUME NEW t \in Turns,
               \/ LoadHistory(t) \/ Think(t) \/ Flush(t) \/ EmitResult(t)
               \/ Reply(t) \/ ChatFails(t) \/ StartTool(t) \/ FinishTool(t)
               \/ Finish(t) \/ Fail(t) \/ Panic(t) \/ Close(t)
        PROVE  OrderInv'
    <2>1. history' = history /\ iter' = iter
      BY <1>6 DEF LoadHistory, Think, Flush, EmitResult, Reply, Chunk, Answer, CallTools,
                  ChatFails, StartTool, FinishTool, Finish, Fail, Panic, Close
    <2>2. \/ emitted' = emitted
          \/ pc[t] = "closing" /\ emitted' = [emitted EXCEPT ![t] = 0]
      BY <1>6 DEF LoadHistory, Think, Flush, EmitResult, Reply, Chunk, Answer, CallTools,
                  ChatFails, StartTool, FinishTool, Finish, Fail, Panic, Close
    <2> DEFINE before == {"load", "think", "chat", "flush", "save_call", "save_answer"}
    <2>3. \/ pc' = pc
          \/ /\ pc[t] \in before
             /\ \E step \in before : pc' = [pc EXCEPT ![t] = step]
          \/ pc[t] = "tools" /\ pc' = [pc EXCEPT ![t] = "save_result"]
          \/ /\ pc[t] # "idle"
             /\ \E step \in {"finish", "fail", "closing", "closed"} :
                    pc' = [pc EXCEPT ![t] = step]
      BY <1>6 DEF LoadHistory, Think, Flush, EmitResult, Reply, Chunk, Answer, CallTools,
                  ChatFails, StartTool, FinishTool, Finish, Fail, Panic, Close, Goto
    <2>4. pc[t] = "save_human" => \A m \in Message : Written(m, pc, iter, emitted) => m.turn # t
      BY DEF Written
    <2>5. \A m \in Message : Written(m, pc, iter, emitted) => Written(m, pc', iter', emitted')
      BY <1>0, <2>1, <2>2, <2>3, <2>4 DEF Written
    <2> QED
      BY <2>1, <2>5, SilentOrder
  <1>7. ASSUME NEW t \in Turns, Deliver(t) \/ Cancel(t) PROVE OrderInv'
    <2>1. UNCHANGED <<history, pc, iter, emitted>>
      BY <1>7 DEF Deliver, Cancel, turnVars
    <2> QED
      BY <2>1, SilentOrder
  <1>8. CASE DeleteSession
    <2>1. history' = <<>> /\ UNCHANGED <<pc, iter, emitted>>
      BY <1>8 DEF DeleteSession, turnVars
    <2> QED
      BY <2>1, SilentOrder
  <1>9. CASE Crash
    <2>1. history' = history /\ iter' = iter
      BY <1>9 DEF Crash
    <2>2. ASSUME NEW t \in Turns, pc[t] \notin {"idle", "closed"} PROVE pc'[t] = "closed"
      BY <1>9, <2>2 DEF Crash
    <2>3. ASSUME NEW t \in Turns, pc[t] = "closed" PROVE pc'[t] = "closed"
      BY <1>9, <2>3 DEF Crash
    <2>4. ASSUME NEW m \in Message, Written(m, pc, iter, emitted)
          PROVE  Written(m, pc', iter', emitted')
      <3>1. pc'[m.turn] = "closed"
        BY <1>0, <2>2, <2>4, <2>3 DEF Written
      <3> QED
        BY <3>1 DEF Written
    <2> QED
      BY <2>1, <2>4, SilentOrder
  <1>10. CASE UNCHANGED vars
    <2>1. UNCHANGED <<history, pc, iter, emitted>>
      BY <1>10 DEF vars, turnVars
    <2> QED
      BY <2>1, SilentOrder
  <1> QED
    BY <1>1, <1>2, <1>3, <1>4, <1>5, <1>6, <1>7, <1>8, <1>9, <1>10
       DEF Next, Process, Work

\* For every number of turns, batch size and cap: what a turn has in the
\* history is in the order the turn wrote it, results in call order.
THEOREM EngineTurnOrder == Spec => []TurnOrder
  <1>1. Spec => []StreamInv
    BY StreamInvInit, StreamInvNext, TypeInvariance, PTL DEF Spec
  <1>2. Spec => []OrderInv
    BY <1>1, OrderInvInit, OrderInvNext, TypeInvariance, PTL DEF Spec
  <1> QED
    BY <1>2, PTL DEF OrderInv

-----------------------------------------------------------------------------
(***************************************************************************)
(* Engine implements EventStream.  The stream of a turn is what the client *)
(* has seen followed by what is still in the channel: the goroutine only   *)
(* appends to it, the handler only moves the boundary, and a crash cuts it *)
(* at the boundary.  PromiseInv says that this stream is one EventStream   *)
(* allows and where in it the goroutine is.                                *)
(***************************************************************************)
Stream(t) == seen[t] \o chan[t]

End(s) == IF s = <<>> THEN "none" ELSE s[Len(s)]

\* How many of the first k events open a round.
Rounds(s, k) == Cardinality({i \in 1 .. k : s[i] = "thinking"})

Legal(s) ==
    \A i \in DOMAIN s :
        /\ Promise!Follows(IF i = 1 THEN "none" ELSE s[i - 1], s[i])
        /\ s[i] = "thinking" => Rounds(s, i) <= MaxIter + 1
        /\ s[i] = "tool_call" => Rounds(s, i) <= MaxIter

\* What the newest event and the rounds of s are at statement "at" of the loop's
\* iteration "it".
Place(s, at, it) ==
    /\ at = "idle" => s = <<>> /\ it = 0
    /\ at \in {"save_human", "load"} => End(s) = "session"
    /\ at = "think" => End(s) \in {"session", "tool_call"}
    /\ at \in {"chat", "flush", "save_call", "save_answer", "finish"} =>
          End(s) \in {"thinking", "chunk"}
    /\ at = "tools" => End(s) \in {"thinking", "chunk", "tool_call"}
    /\ at = "save_result" => End(s) = "tool_call"
    /\ at = "fail" => End(s) \notin Terminal
    /\ at \in {"save_human", "load", "think"} => Rounds(s, Len(s)) = it
    /\ at \in {"chat", "save_call", "tools", "save_result"} => Rounds(s, Len(s)) = it + 1

PromiseInv == \A t \in Turns : Legal(Stream(t)) /\ Place(Stream(t), pc[t], iter[t])

LEMMA RoundsStep ==
    ASSUME NEW s, NEW k \in Nat
    PROVE  /\ Rounds(s, k) \in Nat
           /\ Rounds(s, 0) = 0
           /\ Rounds(s, k + 1) = IF s[k + 1] = "thinking" THEN Rounds(s, k) + 1 ELSE Rounds(s, k)
  <1> DEFINE Upto(m) == {i \in 1 .. m : s[i] = "thinking"}
  <1>1. IsFiniteSet(Upto(k))
    <2>1. IsFiniteSet(1 .. k) /\ Upto(k) \in SUBSET (1 .. k)
      BY FS_Interval
    <2> QED
      BY <2>1, FS_Subset
  <1>2. Upto(k + 1) = IF s[k + 1] = "thinking" THEN Upto(k) \cup {k + 1} ELSE Upto(k)
    OBVIOUS
  <1>3. Upto(0) = {} /\ k + 1 \notin Upto(k)
    OBVIOUS
  <1> HIDE DEF Upto
  <1>4. Cardinality(Upto(k)) \in Nat
    BY <1>1, FS_CardinalityType
  <1>5. Cardinality(Upto(0)) = 0
    BY <1>3, FS_EmptySet
  <1>6. Cardinality(Upto(k) \cup {k + 1}) = Cardinality(Upto(k)) + 1
    BY <1>1, <1>3, FS_AddElement
  <1>7. Cardinality(Upto(k + 1)) =
           IF s[k + 1] = "thinking" THEN Cardinality(Upto(k)) + 1 ELSE Cardinality(Upto(k))
    BY <1>2, <1>6
  <1> QED
    BY <1>4, <1>5, <1>7 DEF Rounds, Upto

\* Only the events counted matter.
LEMMA RoundsPrefix ==
    ASSUME NEW s, NEW r, NEW k \in Nat, \A i \in 1 .. k : s[i] = r[i]
    PROVE  Rounds(s, k) = Rounds(r, k)
  <1>1. {i \in 1 .. k : s[i] = "thinking"} = {i \in 1 .. k : r[i] = "thinking"}
    OBVIOUS
  <1> QED
    BY <1>1 DEF Rounds

\* A prefix of a legal stream is legal.
LEMMA LegalPrefix ==
    ASSUME NEW s \in Seq(Event), NEW r \in Seq(Event), Legal(s), Len(r) <= Len(s),
           \A i \in 1 .. Len(r) : r[i] = s[i]
    PROVE  Legal(r)
  <1> SUFFICES ASSUME NEW i \in 1 .. Len(r)
               PROVE  /\ Promise!Follows(IF i = 1 THEN "none" ELSE r[i - 1], r[i])
                      /\ r[i] = "thinking" => Rounds(r, i) <= MaxIter + 1
                      /\ r[i] = "tool_call" => Rounds(r, i) <= MaxIter
    BY DEF Legal
  <1>1. i \in DOMAIN s /\ r[i] = s[i] /\ (i # 1 => r[i - 1] = s[i - 1])
    OBVIOUS
  <1>2. Rounds(r, i) = Rounds(s, i)
    BY RoundsPrefix
  <1> QED
    BY <1>1, <1>2 DEF Legal

\* A legal stream grows by an event EventStream allows next.
LEMMA LegalAppend ==
    ASSUME NEW s \in Seq(Event), NEW e \in Event, Legal(s),
           Promise!Follows(End(s), e),
           e = "thinking" => Rounds(s, Len(s)) <= MaxIter,
           e = "tool_call" => Rounds(s, Len(s)) <= MaxIter
    PROVE  LET r == Append(s, e)
           IN  /\ Legal(r)
               /\ End(r) = e
               /\ Rounds(r, Len(r)) =
                     IF e = "thinking" THEN Rounds(s, Len(s)) + 1 ELSE Rounds(s, Len(s))
  <1> DEFINE n == Len(s)
             r == Append(s, e)
  <1>1. /\ r \in Seq(Event) /\ n \in Nat /\ Len(r) = n + 1 /\ r # <<>> /\ r[n + 1] = e
        /\ DOMAIN r = 1 .. n + 1
        /\ \A i \in 1 .. n : r[i] = s[i]
    BY AppendEvent
  <1>2. End(s) = IF n + 1 = 1 THEN "none" ELSE s[n]
    BY DEF End
  <1> HIDE DEF r
  <1>3. Rounds(r, n) = Rounds(s, n)
    BY <1>1, RoundsPrefix
  <1>4. Rounds(r, n + 1) = IF e = "thinking" THEN Rounds(s, n) + 1 ELSE Rounds(s, n)
    BY <1>1, <1>3, RoundsStep
  <1>5. Rounds(s, n) \in Nat /\ MaxIter \in Nat
    BY <1>1, RoundsStep, EngineAssumption
  <1>6. Legal(r)
    <2> SUFFICES ASSUME NEW i \in 1 .. n + 1
                 PROVE  /\ Promise!Follows(IF i = 1 THEN "none" ELSE r[i - 1], r[i])
                        /\ r[i] = "thinking" => Rounds(r, i) <= MaxIter + 1
                        /\ r[i] = "tool_call" => Rounds(r, i) <= MaxIter
      BY <1>1 DEF Legal
    <2>1. CASE i \in 1 .. n
      <3>1. i \in DOMAIN s /\ r[i] = s[i] /\ (i # 1 => r[i - 1] = s[i - 1])
        BY <1>1, <2>1
      <3>2. Rounds(r, i) = Rounds(s, i)
        BY <1>1, <2>1, RoundsPrefix
      <3> QED
        BY <3>1, <3>2 DEF Legal
    <2>2. CASE i = n + 1
      <3>1. r[i] = e /\ (IF i = 1 THEN "none" ELSE r[i - 1]) = End(s)
        BY <1>1, <1>2, <2>2
      <3>2. Rounds(r, i) = IF e = "thinking" THEN Rounds(s, n) + 1 ELSE Rounds(s, n)
        BY <1>4, <2>2
      <3> QED
        BY <1>5, <3>1, <3>2
    <2> QED
      BY <1>1, <2>1, <2>2
  <1>7. End(r) = e
    BY <1>1 DEF End
  <1> QED
    BY <1>1, <1>4, <1>6, <1>7 DEF r

LEMMA ConcatAppend ==
    ASSUME NEW r \in Seq(Event), NEW s \in Seq(Event), NEW e \in Event
    PROVE  r \o Append(s, e) = Append(r \o s, e)
  <1>1. Append(s, e) = s \o <<e>> /\ Append(r \o s, e) = (r \o s) \o <<e>>
    BY AppendIsConcat, ConcatProperties
  <1>2. <<e>> \in Seq(Event)
    OBVIOUS
  <1> QED
    BY <1>1, <1>2, ConcatAssociative

LEMMA ConcatHead ==
    ASSUME NEW r \in Seq(Event), NEW s \in Seq(Event), s # <<>>
    PROVE  Append(r, Head(s)) \o Tail(s) = r \o s
  <1>1. s = <<Head(s)>> \o Tail(s) /\ Head(s) \in Event /\ Tail(s) \in Seq(Event)
    BY HeadTailProperties
  <1>2. Append(r, Head(s)) = r \o <<Head(s)>> /\ <<Head(s)>> \in Seq(Event)
    BY <1>1, AppendIsConcat
  <1> DEFINE h == <<Head(s)>>
             u == Tail(s)
  <1> HIDE DEF h, u
  <1>3. (r \o h) \o u = r \o (h \o u)
    BY <1>1, <1>2, ConcatAssociative DEF h, u
  <1> QED
    BY <1>1, <1>2, <1>3 DEF h, u

LEMMA ConcatPrefix ==
    ASSUME NEW r \in Seq(Event), NEW s \in Seq(Event)
    PROVE  /\ Len(r) <= Len(r \o s)
           /\ \A i \in 1 .. Len(r) : (r \o s)[i] = r[i]
  BY ConcatProperties, LenProperties

LEMMA ConcatNext ==
    ASSUME NEW r \in Seq(Event), NEW s \in Seq(Event), s # <<>>
    PROVE  /\ Head(s) \in Event
           /\ Len(r) < Len(r \o s) /\ (r \o s)[Len(r) + 1] = Head(s)
           /\ \A i \in 1 .. Len(r) : (r \o s)[i] = r[i]
  <1>1. Len(s) \in Nat \ {0} /\ Head(s) = s[1] /\ s[1] \in Event
    OBVIOUS
  <1> QED
    BY <1>1, ConcatProperties, LenProperties

LEMMA StreamType ==
    ASSUME TypeOK, NEW t \in Turns
    PROVE  Stream(t) \in Seq(Event) /\ seen[t] \in Seq(Event) /\ chan[t] \in Seq(Event)
  BY ConcatProperties DEF TypeOK, Stream

\* What is left to prove of a step of turn t.
LEMMA PromiseStep ==
    ASSUME PromiseInv, NEW t \in Turns,
           \A u \in Turns \ {t} : /\ seen'[u] = seen[u] /\ chan'[u] = chan[u]
                                  /\ pc'[u] = pc[u] /\ iter'[u] = iter[u],
           Legal(seen'[t] \o chan'[t]), Place(seen'[t] \o chan'[t], pc'[t], iter'[t])
    PROVE  PromiseInv'
  <1> SUFFICES ASSUME NEW u \in Turns
               PROVE  /\ Legal(seen'[u] \o chan'[u])
                      /\ Place(seen'[u] \o chan'[u], pc'[u], iter'[u])
    BY DEF PromiseInv, Stream, Legal, Place
  <1>1. CASE u = t
    BY <1>1
  <1>2. CASE u # t
    <2>1. seen'[u] \o chan'[u] = Stream(u)
      BY <1>2 DEF Stream
    <2> QED
      BY <1>2, <2>1 DEF PromiseInv
  <1> QED
    BY <1>1, <1>2

\* A step of turn t that sends nothing.
LEMMA PromiseMove ==
    ASSUME TypeOK, PromiseInv, NEW t \in Turns, NEW step \in Steps, UNCHANGED <<seen, chan>>,
           pc' = [pc EXCEPT ![t] = step],
           iter' = iter \/ \E n \in Nat : iter' = [iter EXCEPT ![t] = n],
           Place(Stream(t), pc[t], iter[t]) => Place(Stream(t), step, iter'[t])
    PROVE  PromiseInv'
  <1>1. Legal(Stream(t)) /\ Place(Stream(t), pc[t], iter[t])
    BY DEF PromiseInv
  <1>2. seen'[t] \o chan'[t] = Stream(t) /\ pc'[t] = step
    BY DEF Stream, TypeOK
  <1>3. \A u \in Turns \ {t} : /\ seen'[u] = seen[u] /\ chan'[u] = chan[u]
                               /\ pc'[u] = pc[u] /\ iter'[u] = iter[u]
    BY DEF TypeOK
  <1> QED
    BY <1>1, <1>2, <1>3, PromiseStep

\* A step of turn t that sends the event e.
LEMMA PromiseSend ==
    ASSUME TypeOK, PromiseInv, NEW t \in Turns, NEW step \in Steps, NEW e \in Event,
           Emit(t, e), UNCHANGED <<seen, iter>>, pc' = [pc EXCEPT ![t] = step],
           LET s == Stream(t)  n == Rounds(s, Len(s))
           IN  Place(s, pc[t], iter[t]) =>
                  /\ Promise!Follows(End(s), e)
                  /\ e = "thinking" => n <= MaxIter
                  /\ e = "tool_call" => n <= MaxIter
                  /\ \A r : /\ r # <<>>
                            /\ End(r) = e
                            /\ Rounds(r, Len(r)) = IF e = "thinking" THEN n + 1 ELSE n
                            => Place(r, step, iter[t])
    PROVE  PromiseInv'
  <1> DEFINE s == Stream(t)
             r == Append(s, e)
  <1>1. Legal(s) /\ Place(s, pc[t], iter[t]) /\ s \in Seq(Event)
    BY StreamType DEF PromiseInv
  <1>2. /\ Legal(r) /\ End(r) = e
        /\ Rounds(r, Len(r)) = IF e = "thinking" THEN Rounds(s, Len(s)) + 1 ELSE Rounds(s, Len(s))
    BY <1>1, LegalAppend
  <1>3. r # <<>>
    BY <1>1, AppendEvent
  <1>4. seen'[t] \o chan'[t] = r
    <2>1. seen'[t] = seen[t] /\ chan'[t] = Append(chan[t], e)
      BY DEF Emit, TypeOK
    <2>2. seen[t] \o Append(chan[t], e) = Append(seen[t] \o chan[t], e)
      <3>1. seen[t] \in Seq(Event) /\ chan[t] \in Seq(Event)
        BY StreamType
      <3> QED
        BY <3>1, ConcatAppend
    <2> QED
      BY <2>1, <2>2 DEF Stream
  <1> HIDE DEF r
  <1>5. Place(r, step, iter[t])
    BY <1>1, <1>2, <1>3
  <1>6. \A u \in Turns \ {t} : /\ seen'[u] = seen[u] /\ chan'[u] = chan[u]
                               /\ pc'[u] = pc[u] /\ iter'[u] = iter[u]
    BY DEF TypeOK, Emit
  <1>7. pc'[t] = step /\ iter'[t] = iter[t]
    BY DEF TypeOK
  <1> QED
    BY <1>2, <1>4, <1>5, <1>6, <1>7, PromiseStep

LEMMA PromiseInvInit == Init => PromiseInv
  <1> SUFFICES ASSUME Init, NEW t \in Turns
               PROVE  Legal(Stream(t)) /\ Place(Stream(t), pc[t], iter[t])
    BY DEF PromiseInv
  <1>1. Stream(t) = <<>> /\ pc[t] = "idle" /\ iter[t] = 0
    BY DEF Init, Stream
  <1>2. DOMAIN Stream(t) = {}
    BY <1>1
  <1> QED
    BY <1>1, <1>2 DEF Legal, Place

\* The first event of a turn.
LEMMA PromiseFirst ==
    ASSUME NEW e \in {"session", "error"}
    PROVE  /\ Legal(<<e>> \o <<>>)
           /\ End(<<e>> \o <<>>) = e
           /\ Rounds(<<e>> \o <<>>, Len(<<e>> \o <<>>)) = 0
  <1> DEFINE s == <<>>
  <1>1. s \in Seq(Event) /\ Len(s) = 0 /\ DOMAIN s = {} /\ e \in Event
    BY DEF Event, Terminal
  <1>2. Append(s, e) = <<e>> \o <<>>
    OBVIOUS
  <1>3. Legal(s) /\ End(s) = "none"
    BY <1>1 DEF Legal, End
  <1>4. Promise!Follows(End(s), e)
    BY <1>3 DEF Promise!Follows
  <1>5. Rounds(s, Len(s)) = 0
    BY <1>1, RoundsStep
  <1> HIDE DEF s
  <1> QED
    BY <1>1, <1>2, <1>3, <1>4, <1>5, LegalAppend

LEMMA PromiseInvNext == TypeInv /\ StreamInv /\ PromiseInv /\ [Next]_vars => PromiseInv'
  <1> SUFFICES ASSUME TypeInv, StreamInv, PromiseInv, [Next]_vars PROVE PromiseInv'
    OBVIOUS
  <1> USE DEF TypeInv
  <1>0. /\ pc \in [Turns -> Steps] /\ iter \in [Turns -> 0 .. MaxIter] /\ MaxIter \in Nat
        /\ \A t \in Turns : Rounds(Stream(t), Len(Stream(t))) \in Nat
    BY EngineAssumption, StreamType, LenProperties, RoundsStep DEF TypeOK
  <1>1. ASSUME NEW t \in Turns, Begin(t) \/ Refuse(t) PROVE PromiseInv'
    <2>1. handler[t] = "idle" /\ pc[t] = "idle" /\ chan[t] = <<>> /\ UNCHANGED <<chan, iter>>
      BY <1>1 DEF Begin, Refuse, StreamInv
    <2>2. iter[t] = 0
      BY <2>1 DEF PromiseInv, Place
    <2>3. PICK e \in {"session", "error"} :
             /\ seen' = [seen EXCEPT ![t] = <<e>>]
             /\ pc' = [pc EXCEPT ![t] = IF e = "session" THEN "save_human" ELSE "closed"]
      BY <1>1 DEF Begin, Refuse, Goto
    <2>4. seen'[t] \o chan'[t] = <<e>> \o <<>>
      BY <2>1, <2>3 DEF TypeOK
    <2>5. Legal(<<e>> \o <<>>) /\ Place(<<e>> \o <<>>, pc'[t], iter'[t])
      BY <1>0, <2>1, <2>2, <2>3, PromiseFirst DEF Place
    <2>6. \A u \in Turns \ {t} : /\ seen'[u] = seen[u] /\ chan'[u] = chan[u]
                                 /\ pc'[u] = pc[u] /\ iter'[u] = iter[u]
      BY <2>1, <2>3 DEF TypeOK
    <2> QED
      BY <2>4, <2>5, <2>6, PromiseStep
  <1>2. ASSUME NEW t \in Turns, Deliver(t) PROVE PromiseInv'
    <2>1. /\ chan[t] # <<>> /\ UNCHANGED <<pc, iter>>
          /\ chan' = [chan EXCEPT ![t] = Tail(@)]
          /\ seen' = [seen EXCEPT ![t] = Append(@, Head(chan[t]))]
      BY <1>2 DEF Deliver, turnVars
    <2>2. seen'[t] \o chan'[t] = Append(seen[t], Head(chan[t])) \o Tail(chan[t])
      BY <2>1 DEF TypeOK
    <2>3. seen'[t] \o chan'[t] = Stream(t)
      BY <2>1, <2>2, StreamType, ConcatHead DEF Stream
    <2>4. \A u \in Turns \ {t} : /\ seen'[u] = seen[u] /\ chan'[u] = chan[u]
                                 /\ pc'[u] = pc[u] /\ iter'[u] = iter[u]
      BY <2>1 DEF TypeOK
    <2> QED
      BY <2>1, <2>3, <2>4, PromiseStep DEF PromiseInv
  <1>3. ASSUME NEW t \in Turns,
               \/ SaveHuman(t) \/ LoadHistory(t) \/ Answer(t) \/ CallTools(t)
               \/ ChatFails(t) \/ SaveCall(t) \/ StartTool(t) \/ FinishTool(t)
               \/ SaveAnswer(t) \/ Panic(t) \/ Close(t)
        PROVE  PromiseInv'
    <2>1. UNCHANGED <<seen, chan, iter>>
      BY <1>3 DEF SaveHuman, LoadHistory, Answer, CallTools, ChatFails, SaveCall, StartTool,
                  FinishTool, SaveAnswer, Panic, Close, clientVars
    <2>2. PICK step \in Steps :
             /\ pc' = [pc EXCEPT ![t] = step]
             /\ \/ pc[t] = "save_human" /\ step \in {"load", "fail"}
                \/ pc[t] = "load" /\ step = "think"
                \/ pc[t] = "chat" /\ step \in {"save_answer", "flush", "save_call", "fail"}
                \/ pc[t] = "save_call" /\ step = "tools"
                \/ pc[t] = "tools" /\ step = "tools"
                \/ pc[t] = "save_answer" /\ step = "finish"
                \/ pc[t] \notin {"idle", "fail", "closing", "closed"} /\ step = "fail"
                \/ pc[t] = "closing" /\ step = "closed"
      <3>1. (StartTool(t) \/ FinishTool(t)) => pc[t] = "tools" /\ pc' = [pc EXCEPT ![t] = "tools"]
        BY <1>0 DEF StartTool, FinishTool
      <3> QED
        BY <1>3, <3>1 DEF SaveHuman, LoadHistory, Answer, CallTools, ChatFails, SaveCall,
                          SaveAnswer, Panic, Close, Goto, Steps
    <2>3. Place(Stream(t), pc[t], iter[t]) => Place(Stream(t), step, iter'[t])
      BY <1>0, <2>1, <2>2 DEF Place, Terminal, Steps
    <2> QED
      BY <2>1, <2>2, <2>3, PromiseMove
  <1>4. ASSUME NEW t \in Turns,
               \/ Think(t) \/ Chunk(t) \/ Flush(t) \/ EmitResult(t) \/ Finish(t) \/ Fail(t)
        PROVE  PromiseInv'
    <2>1. UNCHANGED <<seen, iter>>
      BY <1>4 DEF Think, Chunk, Flush, EmitResult, Finish, Fail, clientVars
    <2>2. PICK step \in Steps, e \in Event :
             /\ Emit(t, e) /\ pc' = [pc EXCEPT ![t] = step]
             /\ \/ pc[t] = "think" /\ e = "thinking" /\ step = "chat"
                \/ pc[t] = "chat" /\ e = "chunk" /\ step = "chat"
                \/ pc[t] = "flush" /\ e = "chunk" /\ step = "save_answer"
                \/ pc[t] = "tools" /\ e = "tool_call" /\ step = "save_result"
                \/ pc[t] = "finish" /\ e = "done" /\ step = "closing"
                \/ pc[t] = "fail" /\ e = "error" /\ step = "closing"
      <3>1. Chunk(t) => pc[t] = "chat" /\ pc' = [pc EXCEPT ![t] = "chat"]
        BY <1>0 DEF Chunk
      <3> QED
        BY <1>4, <3>1 DEF Think, Chunk, Flush, EmitResult, Finish, Fail, Goto, Steps, Event, Terminal
    <2> DEFINE s == Stream(t)
               n == Rounds(s, Len(s))
    <2>3. n \in Nat /\ iter[t] \in 0 .. MaxIter /\ (pc[t] = "tools" => iter[t] < MaxIter)
      BY <1>0 DEF LoopInv
    <2>4. Place(s, pc[t], iter[t]) => /\ Promise!Follows(End(s), e)
                                      /\ e = "thinking" => n <= MaxIter
                                      /\ e = "tool_call" => n <= MaxIter
      <3> SUFFICES ASSUME Place(s, pc[t], iter[t])
                   PROVE  /\ Promise!Follows(End(s), e)
                          /\ e = "thinking" => n <= MaxIter
                          /\ e = "tool_call" => n <= MaxIter
        OBVIOUS
      <3> HIDE DEF s, n
      <3>1. CASE e = "thinking" \/ e = "tool_call"
        <4>1. n <= MaxIter
          BY <1>0, <2>2, <2>3, <3>1 DEF Place, n
        <4>2. Promise!Follows(End(s), e)
          BY <2>2, <3>1 DEF Place, Promise!Follows
        <4> QED
          BY <4>1, <4>2
      <3>2. CASE e \in {"chunk", "done"}
        BY <2>2, <3>2 DEF Place, Promise!Follows
      <3>3. CASE e = "error"
        BY <2>2, <3>3 DEF Place, Promise!Follows, Terminal
      <3> QED
        BY <2>2, <3>1, <3>2, <3>3
    <2>5. ASSUME Place(s, pc[t], iter[t]), NEW r, r # <<>>, End(r) = e,
                 Rounds(r, Len(r)) = IF e = "thinking" THEN n + 1 ELSE n
          PROVE  Place(r, step, iter[t])
      BY <2>2, <2>3, <2>5 DEF Place, Terminal
    <2> QED
      BY <2>1, <2>2, <2>4, <2>5, PromiseSend
  <1>5. ASSUME NEW t \in Turns, SaveResult(t) PROVE PromiseInv'
    <2>1. UNCHANGED <<seen, chan>>
      BY <1>5 DEF SaveResult, clientVars
    <2>2. /\ pc[t] = "save_result"
          /\ \/ pc' = [pc EXCEPT ![t] = "think"] /\ iter' = [iter EXCEPT ![t] = @ + 1]
             \/ pc' = [pc EXCEPT ![t] = "tools"] /\ UNCHANGED iter
      BY <1>5, Zenon DEF SaveResult, Goto
    <2>3. Rounds(Stream(t), Len(Stream(t))) \in Nat /\ iter[t] \in Nat
      BY <1>0
    <2>4. CASE pc' = [pc EXCEPT ![t] = "think"] /\ iter' = [iter EXCEPT ![t] = @ + 1]
      <3>1. iter' = [iter EXCEPT ![t] = iter[t] + 1] /\ iter[t] + 1 \in Nat /\ iter'[t] = iter[t] + 1
        BY <1>0, <2>3, <2>4
      <3>2. Place(Stream(t), pc[t], iter[t]) => Place(Stream(t), "think", iter'[t])
        BY <2>2, <2>3, <3>1 DEF Place
      <3> QED
        BY <2>1, <2>4, <3>1, <3>2, PromiseMove DEF Steps
    <2>5. CASE pc' = [pc EXCEPT ![t] = "tools"] /\ UNCHANGED iter
      <3>1. Place(Stream(t), pc[t], iter[t]) => Place(Stream(t), "tools", iter'[t])
        BY <2>2, <2>5 DEF Place
      <3> QED
        BY <2>1, <2>5, <3>1, PromiseMove DEF Steps
    <2> QED
      BY <2>2, <2>4, <2>5
  <1>6. CASE Crash
    <2> SUFFICES ASSUME NEW t \in Turns
                 PROVE  /\ Legal(seen'[t] \o chan'[t])
                        /\ Place(seen'[t] \o chan'[t], pc'[t], iter'[t])
      BY DEF PromiseInv, Stream, Legal, Place
    <2>1. /\ seen'[t] = seen[t] /\ chan'[t] = <<>> /\ iter'[t] = iter[t]
          /\ pc'[t] = "closed" \/ (pc'[t] = "idle" /\ pc[t] = "idle")
      BY <1>6 DEF Crash, StreamInv, Streaming
    <2>2. seen[t] \in Seq(Event) /\ chan[t] \in Seq(Event) /\ Stream(t) \in Seq(Event)
      BY StreamType
    <2>3. seen'[t] \o chan'[t] = seen[t]
      BY <2>1, <2>2
    <2>4. Legal(seen[t])
      <3>1. /\ Len(seen[t]) <= Len(Stream(t))
            /\ \A i \in 1 .. Len(seen[t]) : seen[t][i] = Stream(t)[i]
        <4> DEFINE v == seen[t]
                   c == chan[t]
        <4>1. Stream(t) = v \o c /\ v \in Seq(Event) /\ c \in Seq(Event)
          BY <2>2 DEF Stream
        <4> HIDE DEF v, c
        <4>2. Len(v) <= Len(v \o c) /\ \A i \in 1 .. Len(v) : v[i] = (v \o c)[i]
          BY <4>1, ConcatPrefix
        <4> QED
          BY <4>1, <4>2 DEF v
      <3> QED
        BY <2>2, <3>1, LegalPrefix DEF PromiseInv
    <2>5. pc[t] = "idle" => seen[t] = <<>> /\ iter[t] = 0
      <3>1. pc[t] = "idle" => Stream(t) = <<>> /\ iter[t] = 0
        BY DEF PromiseInv, Place
      <3> QED
        BY <2>2, <3>1, ConcatEqualIffEmpty DEF Stream
    <2> QED
      BY <2>1, <2>3, <2>4, <2>5 DEF Place
  <1>7. ASSUME UNCHANGED <<seen, chan, pc, iter>> PROVE PromiseInv'
    <2> SUFFICES ASSUME NEW t \in Turns
                 PROVE  /\ Legal(seen'[t] \o chan'[t])
                        /\ Place(seen'[t] \o chan'[t], pc'[t], iter'[t])
      BY DEF PromiseInv, Stream, Legal, Place
    <2>1. seen'[t] \o chan'[t] = Stream(t) /\ pc'[t] = pc[t] /\ iter'[t] = iter[t]
      BY <1>7 DEF Stream
    <2> QED
      BY <2>1 DEF PromiseInv
  <1>8. ASSUME NEW t \in Turns, Cancel(t) PROVE PromiseInv'
    BY <1>7, <1>8 DEF Cancel, turnVars
  <1>9. CASE DeleteSession \/ UNCHANGED vars
    BY <1>7, <1>9 DEF DeleteSession, vars, turnVars, clientVars
  <1> QED
    BY <1>1, <1>2, <1>3, <1>4, <1>5, <1>6, <1>8, <1>9 DEF Next, Process, Work, Reply

\* The variables of EventStream, read off what the clients have seen.
LastSeen == [t \in Turns |-> IF seen[t] = <<>> THEN "none" ELSE seen[t][Len(seen[t])]]

RoundsSeen == [t \in Turns |-> Cardinality({i \in DOMAIN seen[t] : seen[t][i] = "thinking"})]

LEMMA SeenAt ==
    ASSUME TypeOK, NEW t \in Turns
    PROVE  LastSeen[t] = End(seen[t]) /\ RoundsSeen[t] = Rounds(seen[t], Len(seen[t]))
  <1>1. DOMAIN seen[t] = 1 .. Len(seen[t])
    BY DEF TypeOK
  <1> QED
    BY <1>1 DEF LastSeen, RoundsSeen, End, Rounds

\* A client that receives the next event of a legal stream is sent an event
\* in the sense of EventStream.
LEMMA FollowsAt ==
    ASSUME NEW s, Legal(s), NEW k \in Nat, k + 1 \in DOMAIN s, NEW a,
           a = IF k = 0 THEN "none" ELSE s[k]
    PROVE  Promise!Follows(a, s[k + 1])
  <1> DEFINE i == k + 1
  <1>1. i \in DOMAIN s /\ (i = 1 <=> k = 0) /\ i - 1 = k
    OBVIOUS
  <1> HIDE DEF i
  <1>2. Promise!Follows(IF i = 1 THEN "none" ELSE s[i - 1], s[i])
    BY <1>1 DEF Legal
  <1>3. (IF i = 1 THEN "none" ELSE s[i - 1]) = a
    BY <1>1
  <1> QED
    BY <1>2, <1>3 DEF i

LEMMA SeenSend ==
    ASSUME TypeOK, NEW t \in Turns, NEW e \in Event, NEW s \in Seq(Event), Legal(s),
           seen' = [seen EXCEPT ![t] = Append(@, e)],
           Len(seen[t]) < Len(s), s[Len(seen[t]) + 1] = e,
           \A i \in 1 .. Len(seen[t]) : s[i] = seen[t][i]
    PROVE  Promise!Next
  <1>0. PICK v \in Seq(Event) : v = seen[t]
    BY DEF TypeOK
  <1> DEFINE n == Len(v)
             w == Append(v, e)
  <1>1. /\ n \in Nat /\ n < Len(s) /\ s[n + 1] = e
        /\ \A i \in 1 .. n : s[i] = v[i]
        /\ n = 0 <=> v = <<>>
        /\ DOMAIN v = 1 .. n
    BY <1>0, LenProperties, EmptySeq
  <1>2. /\ Len(w) = n + 1 /\ w # <<>> /\ w[n + 1] = e /\ DOMAIN w = 1 .. n + 1
        /\ \A i \in 1 .. n : w[i] = v[i]
    BY <1>1, AppendEvent
  <1>3. /\ seen' = [seen EXCEPT ![t] = w] /\ seen \in [Turns -> Seq(Event)]
    BY <1>0 DEF TypeOK
  <1>4. seen[t] = v /\ seen'[t] = w /\ \A u \in Turns \ {t} : seen'[u] = seen[u]
    BY <1>0, <1>3
  <1>5. LastSeen[t] = End(v) /\ RoundsSeen[t] = Rounds(v, n)
    BY <1>0, SeenAt
  <1>6. n + 1 \in DOMAIN s /\ Len(v) = n
    BY <1>1
  <1> HIDE DEF n, w
  <1>7. /\ Rounds(v, n) \in Nat /\ MaxIter \in Nat
        /\ Rounds(s, n + 1) = IF e = "thinking" THEN Rounds(v, n) + 1 ELSE Rounds(v, n)
        /\ Rounds(w, n + 1) = IF e = "thinking" THEN Rounds(v, n) + 1 ELSE Rounds(v, n)
    <2>1. Rounds(s, n) = Rounds(v, n)
      BY <1>1, RoundsPrefix
    <2>2. Rounds(w, n) = Rounds(v, n)
      BY <1>1, <1>2, RoundsPrefix
    <2>3. Rounds(s, n + 1) = IF s[n + 1] = "thinking" THEN Rounds(s, n) + 1 ELSE Rounds(s, n)
      BY <1>1, RoundsStep
    <2>4. Rounds(w, n + 1) = IF w[n + 1] = "thinking" THEN Rounds(w, n) + 1 ELSE Rounds(w, n)
      BY <1>1, RoundsStep
    <2>5. Rounds(v, n) \in Nat
      BY <1>1, RoundsStep
    <2> QED
      BY <1>1, <1>2, <2>1, <2>2, <2>3, <2>4, <2>5, EngineAssumption
  <1>8. Promise!Follows(End(v), e)
    <2>1. End(v) = IF n = 0 THEN "none" ELSE s[n]
      BY <1>1, <1>6 DEF End
    <2> QED
      BY <1>1, <1>6, <2>1, FollowsAt
  <1>9. e \in {"thinking", "tool_call"} => Rounds(v, n) < MaxIter + 1
    BY <1>1, <1>6, <1>7 DEF Legal
  <1>10. LastSeen' = [LastSeen EXCEPT ![t] = e]
    <2>1. LastSeen'[t] = e
      BY <1>2, <1>4 DEF LastSeen
    <2>2. \A u \in Turns \ {t} : LastSeen'[u] = LastSeen[u]
      BY <1>4 DEF LastSeen
    <2> QED
      <3>1. /\ LastSeen = [u \in Turns |-> LastSeen[u]]
            /\ LastSeen' = [u \in Turns |-> LastSeen'[u]]
        BY DEF LastSeen
      <3> QED
        BY <2>1, <2>2, <3>1
  <1>11. RoundsSeen' = [RoundsSeen EXCEPT ![t] = IF e = "thinking" THEN @ + 1 ELSE @]
    <2>1. RoundsSeen'[t] = Rounds(w, n + 1)
      BY <1>2, <1>4 DEF RoundsSeen, Rounds
    <2>2. \A u \in Turns \ {t} : RoundsSeen'[u] = RoundsSeen[u]
      BY <1>4 DEF RoundsSeen
    <2>3. RoundsSeen'[t] = IF e = "thinking" THEN RoundsSeen[t] + 1 ELSE RoundsSeen[t]
      BY <1>5, <1>7, <2>1
    <2> QED
      BY <2>2, <2>3 DEF RoundsSeen
  <1>12. Promise!Send(t, e)
    BY <1>5, <1>8, <1>9, <1>10, <1>11 DEF Promise!Send, LastSeen, RoundsSeen
  <1> QED
    BY <1>12 DEF Promise!Next, Event, Terminal

LEMMA PromiseInitially == Init => Promise!Init
  <1> SUFFICES ASSUME Init PROVE Promise!Init
    OBVIOUS
  <1>1. \A t \in Turns : seen[t] = <<>>
    BY DEF Init
  <1>2. ASSUME NEW t \in Turns PROVE {i \in DOMAIN seen[t] : seen[t][i] = "thinking"} = {}
    <2>1. DOMAIN seen[t] = {}
      BY <1>1
    <2> QED
      BY <2>1
  <1> QED
    BY <1>1, <1>2, FS_EmptySet DEF Promise!Init

LEMMA PromiseNext ==
    TypeInv /\ TypeInv' /\ StreamInv /\ PromiseInv /\ [Next]_vars =>
        [Promise!Next]_(Promise!streamVars)
  <1> SUFFICES ASSUME TypeInv, TypeInv', StreamInv, PromiseInv, [Next]_vars
               PROVE  [Promise!Next]_(Promise!streamVars)
    OBVIOUS
  <1> USE DEF TypeInv
  <1>1. ASSUME NEW t \in Turns, Begin(t) \/ Refuse(t) PROVE Promise!Next
    <2>1. PICK e \in {"session", "error"} : seen' = [seen EXCEPT ![t] = <<e>>]
      BY <1>1 DEF Begin, Refuse
    <2>2. seen[t] = <<>>
      <3>1. pc[t] = "idle" /\ seen[t] \in Seq(Event) /\ chan[t] \in Seq(Event)
        BY <1>1, StreamType DEF Begin, Refuse, StreamInv
      <3>2. seen[t] \o chan[t] = <<>>
        BY <3>1 DEF PromiseInv, Place, Stream
      <3> QED
        BY <3>1, <3>2, ConcatEqualIffEmpty
    <2>3. seen' = [seen EXCEPT ![t] = Append(@, e)] /\ e \in Event
      BY <2>1, <2>2 DEF Event, Terminal
    <2>4. /\ <<e>> \o <<>> = <<e>> /\ <<e>> \in Seq(Event) /\ Legal(<<e>>)
          /\ Len(<<e>>) = 1 /\ <<e>>[1] = e
      BY <2>3, PromiseFirst
    <2>5. Len(seen[t]) = 0
      BY <2>2
    <2> DEFINE s == <<e>>
    <2>6. /\ s \in Seq(Event) /\ Legal(s) /\ Len(seen[t]) < Len(s) /\ s[Len(seen[t]) + 1] = e
          /\ \A i \in 1 .. Len(seen[t]) : s[i] = seen[t][i]
      BY <2>4, <2>5
    <2> HIDE DEF s
    <2> QED
      BY <2>3, <2>6, SeenSend
  <1>2. ASSUME NEW t \in Turns, Deliver(t) PROVE Promise!Next
    <2> DEFINE e == Head(chan[t])
               s == Stream(t)
    <2>1. /\ chan[t] # <<>> /\ seen' = [seen EXCEPT ![t] = Append(@, e)]
          /\ seen[t] \in Seq(Event) /\ chan[t] \in Seq(Event)
          /\ s \in Seq(Event) /\ s = seen[t] \o chan[t] /\ Legal(s)
      BY <1>2, StreamType DEF Deliver, PromiseInv, Stream
    <2>2. /\ e \in Event /\ Len(seen[t]) < Len(s) /\ s[Len(seen[t]) + 1] = e
          /\ \A i \in 1 .. Len(seen[t]) : s[i] = seen[t][i]
      <3> DEFINE v == seen[t]
                 c == chan[t]
      <3>1. v \in Seq(Event) /\ c \in Seq(Event) /\ c # <<>>
        BY <2>1
      <3> HIDE DEF v, c
      <3>2. /\ Head(c) \in Event /\ Len(v) < Len(v \o c) /\ (v \o c)[Len(v) + 1] = Head(c)
            /\ \A i \in 1 .. Len(v) : (v \o c)[i] = v[i]
        BY <3>1, ConcatNext
      <3> QED
        BY <2>1, <3>2 DEF v, c
    <2> HIDE DEF s, e
    <2> QED
      BY <2>1, <2>2, SeenSend
  <1>3. ASSUME seen' = seen PROVE UNCHANGED Promise!streamVars
    BY <1>3 DEF Promise!streamVars
  <1>4. ASSUME NEW t \in Turns, Process(t) \/ Cancel(t) PROVE seen' = seen
    BY <1>4 DEF Process, Work, Reply, SaveHuman, LoadHistory, Think, Chunk, Answer, Flush,
                CallTools, ChatFails, SaveCall, StartTool, FinishTool, EmitResult, SaveResult,
                SaveAnswer, Finish, Fail, Panic, Close, Cancel, clientVars
  <1>5. CASE DeleteSession \/ Crash \/ UNCHANGED vars
    BY <1>3, <1>5 DEF DeleteSession, Crash, vars, clientVars
  <1> QED
    BY <1>1, <1>2, <1>3, <1>4, <1>5 DEF Next

\* Engine implements EventStream: for every number of turns, loop bound, batch
\* size and channel capacity, and whatever fails, each client sees a stream
\* EventStream allows.
THEOREM EngineKeepsPromise == Spec => KeepsPromise
  <1>1. Spec => []StreamInv
    BY StreamInvInit, StreamInvNext, TypeInvariance, PTL DEF Spec
  <1>2. Spec => []PromiseInv
    BY <1>1, PromiseInvInit, PromiseInvNext, TypeInvariance, PTL DEF Spec
  <1> QED
    BY <1>1, <1>2, TypeInvariance, PromiseInitially, PromiseNext, PTL
       DEF Spec, KeepsPromise, Promise!Spec

-----------------------------------------------------------------------------
(***************************************************************************)
(* Turns of a client that waits for each answer.  While no request is      *)
(* cancelled, only one turn has a handler that reads and a goroutine that  *)
(* works, and no store call finds its context done.                        *)
(***************************************************************************)
Sequential == ~Overlap /\ "cancel" \notin Disturbances

AloneInv ==
    /\ \A t \in Turns : ~cancelled[t]
    /\ \A t, u \in Turns : Streaming(t) /\ Streaming(u) => t = u

LEMMA AloneInvInit == Init => AloneInv
  BY DEF Init, AloneInv, Streaming

LEMMA AloneInvNext == Sequential /\ TypeOK /\ AloneInv /\ [Next]_vars => AloneInv'
  <1> SUFFICES ASSUME Sequential, TypeOK, AloneInv, [Next]_vars PROVE AloneInv'
    OBVIOUS
  <1>1. ASSUME NEW t \in Turns, Begin(t) \/ Refuse(t) PROVE AloneInv'
    <2>1. \A u \in Turns : ~Streaming(u)
      BY <1>1 DEF Begin, Refuse, MayAsk, Sequential, AloneInv
    <2>2. \E h \in {"reading", "returned"} : handler' = [handler EXCEPT ![t] = h]
      BY <1>1 DEF Begin, Refuse
    <2>3. cancelled' = cancelled
      BY <1>1 DEF Begin, Refuse
    <2> QED
      BY <2>1, <2>2, <2>3 DEF AloneInv, Streaming, TypeOK
  <1>2. ASSUME NEW t \in Turns, Deliver(t) PROVE AloneInv'
    <2>1. /\ cancelled' = cancelled /\ handler[t] = "reading"
          /\ \E h \in {"reading", "returned"} : handler' = [handler EXCEPT ![t] = h]
      BY <1>2 DEF Deliver, TypeOK, Streaming
    <2> QED
      BY <2>1 DEF AloneInv, Streaming, TypeOK
  <1>3. ASSUME UNCHANGED <<handler, cancelled>> PROVE AloneInv'
    BY <1>3 DEF AloneInv, Streaming
  <1>4. ASSUME NEW t \in Turns, Process(t) PROVE UNCHANGED <<handler, cancelled>>
    BY <1>4 DEF Process, Work, Reply, SaveHuman, LoadHistory, Think, Chunk, Answer, Flush,
                CallTools, ChatFails, SaveCall, StartTool, FinishTool, EmitResult, SaveResult,
                SaveAnswer, Finish, Fail, Panic, Close, clientVars
  <1>5. CASE Crash
    BY <1>5 DEF Crash, AloneInv, Streaming, TypeOK
  <1>6. CASE DeleteSession \/ UNCHANGED vars
    BY <1>3, <1>6 DEF DeleteSession, vars, clientVars
  <1>7. ASSUME NEW t \in Turns, Cancel(t) PROVE FALSE
    BY <1>7 DEF Cancel, Sequential
  <1> QED
    BY <1>1, <1>2, <1>3, <1>4, <1>5, <1>6, <1>7 DEF Next

\* No other goroutine is at work while one is.
LEMMA Alone ==
    ASSUME TypeOK, StreamInv, AloneInv, NEW t \in Turns, NEW u \in Turns,
           pc[t] \notin Outside, pc[u] \notin Outside
    PROVE  t = u
  BY DEF TypeOK, StreamInv, AloneInv, Streaming, Outside

\* The inductive invariant so far.
BaseInv == TypeInv /\ StreamInv /\ PromiseInv

LEMMA Base == Spec => []BaseInv
  <1>1. Spec => []StreamInv
    BY StreamInvInit, StreamInvNext, TypeInvariance, PTL DEF Spec
  <1>2. Spec => []PromiseInv
    BY <1>1, PromiseInvInit, PromiseInvNext, TypeInvariance, PTL DEF Spec
  <1> QED
    BY <1>1, <1>2, TypeInvariance, PTL DEF BaseInv

LEMMA SequentialAlone ==
    ASSUME Sequential
    PROVE  Spec => []AloneInv
  <1>1. AloneInv /\ TypeOK /\ [Next]_vars => AloneInv'
    BY AloneInvNext
  <1>2. Spec => []TypeOK
    BY EngineTypeOK
  <1> QED
    BY <1>1, <1>2, AloneInvInit, PTL DEF Spec

-----------------------------------------------------------------------------
(***************************************************************************)
(* The question.  It is the newest message when the turn loads the history *)
(* because no other turn writes in between, and trimHistory keeps the      *)
(* newest message; the loop only appends to what was loaded.               *)
(***************************************************************************)
Question(t) == Msg("human", t, 0, 0)

Holds(s, m) == \E i \in DOMAIN s : s[i] = m

InLoop == {"think", "chat", "flush", "save_call", "tools", "save_result"}

\* What a turn at statement "at" of iteration "it" with the messages c finds in
\* c and in the history h.
AskedAt(t, h, at, it, c) ==
    /\ at \in {"idle", "save_human", "load"} => it = 0
    /\ at = "load" => h # <<>> /\ Last(h) = Question(t)
    /\ at \in InLoop => Holds(c, Question(t))

AskedInv == \A t \in Turns : AskedAt(t, history, pc[t], iter[t], ctx[t])

LEMMA AddMessageLast ==
    ASSUME NEW S, NEW h \in Seq(S), NEW msg \in S, NEW max \in Nat \ {0}
    PROVE  LET new == AddMessage(h, msg, max)
           IN  new \in Seq(S) /\ new # <<>> /\ new[Len(new)] = msg
  <1> DEFINE new == AddMessage(h, msg, max)
  <1>1. PICK k \in 0 .. Len(h) : Len(new) = Len(h) + 1 - k /\ new[Len(new)] = msg
    BY AddMessageTail
  <1>2. Len(new) > 0 /\ new \in Seq(S)
    BY <1>1, LenProperties, AddMessageTail
  <1> HIDE DEF new
  <1>3. new # <<>>
    BY <1>2
  <1> QED
    BY <1>1, <1>2, <1>3 DEF new

LEMMA TrimHistoryLast ==
    ASSUME NEW S, NEW h \in Seq(S), NEW max \in Nat, h # <<>>
    PROVE  \E i \in DOMAIN TrimHistory(h, max) : TrimHistory(h, max)[i] = h[Len(h)]
  <1> DEFINE kept == TrimHistory(h, max)
  <1>1. PICK c \in 0 .. Len(h) :
           /\ Len(kept) = Len(h) - c
           /\ \A i \in 1 .. Len(h) - c : kept[i] = h[i + c]
           /\ c # 0 => c + 1 \in 1 .. Len(h)
    BY TrimHistoryTail
  <1>2. kept \in Seq(S) /\ Len(h) \in Nat \ {0}
    BY TrimHistoryTail, EmptySeq
  <1> HIDE DEF kept
  <1>3. /\ Len(h) - c \in 1 .. Len(h) - c /\ Len(h) - c \in DOMAIN kept
        /\ (Len(h) - c) + c = Len(h)
    BY <1>1, <1>2
  <1>4. kept[Len(h) - c] = h[Len(h)]
    BY <1>1, <1>3
  <1> QED
    BY <1>3, <1>4 DEF kept

LEMMA ConcatHolds ==
    ASSUME NEW r \in Seq(Message), NEW s \in Seq(Message), NEW m, Holds(r, m)
    PROVE  Holds(r \o s, m)
  <1>1. PICK i \in DOMAIN r : r[i] = m
    BY DEF Holds
  <1>2. i \in DOMAIN (r \o s) /\ (r \o s)[i] = m
    BY <1>1
  <1> QED
    BY <1>2 DEF Holds

\* Saving calls or results only adds calls or results to the turn's messages.
LEMMA LoopAppends ==
    ASSUME TypeInv, NEW t \in Turns, SaveCall(t) \/ SaveResult(t)
    PROVE  \E more \in Seq(Message) :
              /\ ctx' = [ctx EXCEPT ![t] = ctx[t] \o more]
              /\ \A i \in DOMAIN more : more[i].role \in {"function", "tool"}
  <1>1. /\ ctx \in [Turns -> Seq(Message)] /\ iter[t] \in Nat
        /\ batch[t] \in Seq({"queued", "running", "over"}) /\ Len(batch[t]) \in Nat
        /\ DOMAIN batch[t] = 1 .. Len(batch[t])
    BY EngineAssumption, LenProperties DEF TypeInv, TypeOK
  <1>2. CASE SaveCall(t)
    <2> DEFINE m == Msg("function", t, iter[t], Len(batch[t]))
    <2>1. m \in Message /\ ctx' = [ctx EXCEPT ![t] = Append(@, m)] /\ m.role = "function"
      BY <1>1, <1>2, MsgType DEF SaveCall, Roles, Msg
    <2> HIDE DEF m
    <2> DEFINE more == <<m>>
    <2>2. Append(ctx[t], m) = ctx[t] \o more /\ more \in Seq(Message)
      BY <1>1, <2>1, AppendIsConcat
    <2>3. \A i \in DOMAIN more : more[i].role = "function"
      BY <2>1
    <2> HIDE DEF more
    <2>4. ctx' = [ctx EXCEPT ![t] = ctx[t] \o more]
      BY <2>1, <2>2
    <2> QED
      BY <2>2, <2>3, <2>4
  <1>3. CASE SaveResult(t)
    <2> DEFINE results == [k \in DOMAIN batch[t] |-> Msg("tool", t, iter[t], k)]
    <2>1. results \in Seq(Message) /\ \A i \in DOMAIN results : results[i].role = "tool"
      <3>1. \A k \in 1 .. Len(batch[t]) : /\ Msg("tool", t, iter[t], k) \in Message
                                          /\ Msg("tool", t, iter[t], k).role = "tool"
        BY <1>1, MsgType DEF Roles, Msg
      <3> QED
        BY <1>1, <3>1
    <2>2. ctx' = [ctx EXCEPT ![t] = @ \o results] \/ ctx' = ctx
      BY <1>3, Zenon DEF SaveResult
    <2> HIDE DEF results
    <2> DEFINE none == <<>>
    <2>3. none \in Seq(Message) /\ DOMAIN none = {} /\ ctx[t] \o none = ctx[t]
      BY <1>1
    <2> HIDE DEF none
    <2>4. ctx = [ctx EXCEPT ![t] = ctx[t] \o none]
      BY <1>1, <2>3
    <2>5. CASE ctx' = [ctx EXCEPT ![t] = @ \o results]
      BY <2>1, <2>5
    <2>6. CASE ctx' = ctx
      BY <2>3, <2>4, <2>6
    <2> QED
      BY <2>2, <2>5, <2>6
  <1> QED
    BY <1>2, <1>3

LEMMA AskedInvInit == Init => AskedInv
  BY DEF Init, AskedInv, AskedAt, InLoop

LEMMA AskedInvNext ==
    ASSUME Sequential, Disturbances \cap {"load", "delete"} = {},
           BaseInv, AloneInv, AskedInv, [Next]_vars
    PROVE  AskedInv'
  <1> USE DEF BaseInv, TypeInv
  <1>0. /\ pc \in [Turns -> Steps] /\ iter \in [Turns -> 0 .. MaxIter]
        /\ ctx \in [Turns -> Seq(Message)] /\ history \in Seq(Message)
        /\ MaxMessages \in Nat \ {0} /\ MaxContext \in Nat
        /\ \A t \in Turns : ~CtxDone(t)
    BY EngineAssumption DEF TypeOK, AloneInv, CtxDone
  <1>1. ASSUME NEW t \in Turns,
               \A u \in Turns \ {t} : /\ pc'[u] = pc[u] /\ iter'[u] = iter[u] /\ ctx'[u] = ctx[u]
                                      /\ history' = history \/ pc[u] # "load",
               AskedAt(t, history', pc'[t], iter'[t], ctx'[t])
        PROVE  AskedInv'
    BY <1>1 DEF AskedInv, AskedAt
  <1>2. ASSUME NEW t \in Turns, pc[t] \notin Outside, NEW u \in Turns \ {t}
        PROVE  pc[u] # "load"
    BY <1>2, Alone DEF Outside
  <1>3. ASSUME NEW t \in Turns, Begin(t) \/ Refuse(t) PROVE AskedInv'
    <2>1. pc[t] = "idle" /\ UNCHANGED <<history, iter, ctx>>
      BY <1>3 DEF Begin, Refuse, StreamInv
    <2>2. \E step \in {"save_human", "closed"} : pc' = [pc EXCEPT ![t] = step]
      BY <1>3 DEF Begin, Refuse, Goto
    <2>3. AskedAt(t, history', pc'[t], iter'[t], ctx'[t])
      BY <1>0, <2>1, <2>2 DEF AskedInv, AskedAt, InLoop
    <2> QED
      BY <1>0, <1>1, <2>1, <2>2, <2>3
  <1>4. ASSUME NEW t \in Turns, SaveHuman(t) PROVE AskedInv'
    <2>1. pc[t] = "save_human" /\ iter[t] = 0 /\ UNCHANGED <<iter, ctx>>
      BY <1>4 DEF SaveHuman, AskedInv, AskedAt
    <2>2. CASE Store(t, "human", 0) /\ Goto(t, "load")
      <3>1. history' = AddMessage(history, Question(t), MaxMessages) /\ pc' = [pc EXCEPT ![t] = "load"]
        BY <2>1, <2>2 DEF Store, Goto, Question
      <3>2. Question(t) \in Message
        BY MsgType DEF Question, Roles
      <3>3. history' # <<>> /\ Last(history') = Question(t)
        BY <1>0, <3>1, <3>2, AddMessageLast DEF Last
      <3>4. AskedAt(t, history', pc'[t], iter'[t], ctx'[t])
        BY <1>0, <2>1, <3>1, <3>3 DEF AskedAt, InLoop
      <3> QED
        BY <1>0, <1>1, <1>2, <2>1, <3>1, <3>4 DEF Outside
    <2>3. CASE Goto(t, "fail") /\ history' = history
      <3>1. AskedAt(t, history', pc'[t], iter'[t], ctx'[t])
        BY <1>0, <2>1, <2>3 DEF AskedAt, InLoop, Goto
      <3> QED
        BY <1>0, <1>1, <2>1, <2>3, <3>1 DEF Goto
    <2> QED
      BY <1>4, <2>2, <2>3 DEF SaveHuman, StoreFails
  <1>5. ASSUME NEW t \in Turns, LoadHistory(t) PROVE AskedInv'
    <2> DEFINE kept == TrimHistory(history, MaxContext)
    <2>1. /\ pc[t] = "load" /\ pc' = [pc EXCEPT ![t] = "think"] /\ UNCHANGED <<history, iter>>
          /\ ctx' = [ctx EXCEPT ![t] = kept]
      BY <1>0, <1>5 DEF LoadHistory, Goto
    <2>2. history # <<>> /\ Last(history) = Question(t)
      BY <2>1 DEF AskedInv, AskedAt
    <2>3. Holds(kept, Question(t))
      BY <1>0, <2>2, TrimHistoryLast DEF Holds, Last
    <2>4. AskedAt(t, history', pc'[t], iter'[t], ctx'[t])
      BY <1>0, <2>1, <2>3 DEF AskedAt, InLoop
    <2> QED
      BY <1>0, <1>1, <2>1, <2>4
  <1>6. ASSUME NEW t \in Turns, SaveCall(t) \/ SaveResult(t) PROVE AskedInv'
    <2>1. pc[t] \in {"save_call", "save_result"} /\ Holds(ctx[t], Question(t))
      BY <1>6 DEF SaveCall, SaveResult, AskedInv, AskedAt, InLoop
    <2>2. \E step \in {"tools", "think"} : pc' = [pc EXCEPT ![t] = step]
      BY <1>6, Zenon DEF SaveCall, SaveResult, Goto
    <2>3. iter' = iter \/ iter' = [iter EXCEPT ![t] = @ + 1]
      BY <1>6, Zenon DEF SaveCall, SaveResult
    <2>4. PICK more \in Seq(Message) : ctx' = [ctx EXCEPT ![t] = ctx[t] \o more]
      BY <1>6, LoopAppends
    <2>5. Holds(ctx[t] \o more, Question(t))
      BY <1>0, <2>1, ConcatHolds
    <2>6. AskedAt(t, history', pc'[t], iter'[t], ctx'[t])
      BY <1>0, <2>2, <2>4, <2>5 DEF AskedAt, InLoop
    <2> QED
      BY <1>0, <1>1, <1>2, <2>1, <2>2, <2>3, <2>4, <2>6 DEF Outside
  <1>7. ASSUME NEW t \in Turns, SaveAnswer(t) PROVE AskedInv'
    <2>1. pc[t] = "save_answer" /\ pc' = [pc EXCEPT ![t] = "finish"] /\ UNCHANGED <<iter, ctx>>
      BY <1>7 DEF SaveAnswer, Goto
    <2>2. AskedAt(t, history', pc'[t], iter'[t], ctx'[t])
      BY <1>0, <2>1 DEF AskedAt, InLoop
    <2> QED
      BY <1>0, <1>1, <1>2, <2>1, <2>2 DEF Outside
  <1>8. ASSUME NEW t \in Turns,
               \/ Think(t) \/ Flush(t) \/ EmitResult(t) \/ Reply(t) \/ ChatFails(t)
               \/ StartTool(t) \/ FinishTool(t) \/ Finish(t) \/ Fail(t) \/ Panic(t)
        PROVE  AskedInv'
    <2>1. UNCHANGED <<history, iter, ctx>>
      BY <1>8 DEF Think, Flush, EmitResult, Reply, Chunk, Answer, CallTools, ChatFails,
                  StartTool, FinishTool, Finish, Fail, Panic
    <2>2. \/ pc' = pc
          \/ pc[t] \in InLoop /\ \E step \in InLoop : pc' = [pc EXCEPT ![t] = step]
          \/ \E step \in {"save_answer", "finish", "fail", "closing"} : pc' = [pc EXCEPT ![t] = step]
      BY <1>8 DEF Think, Flush, EmitResult, Reply, Chunk, Answer, CallTools, ChatFails,
                  StartTool, FinishTool, Finish, Fail, Panic, Goto, InLoop
    <2>3. AskedAt(t, history', pc'[t], iter'[t], ctx'[t])
      BY <1>0, <2>1, <2>2 DEF AskedInv, AskedAt, InLoop
    <2> QED
      BY <1>0, <1>1, <2>1, <2>2, <2>3
  <1>9. ASSUME NEW t \in Turns, Close(t) PROVE AskedInv'
    <2>1. /\ UNCHANGED <<history, iter>> /\ pc' = [pc EXCEPT ![t] = "closed"]
          /\ ctx' = [ctx EXCEPT ![t] = <<>>]
      BY <1>9 DEF Close, Goto
    <2>2. AskedAt(t, history', pc'[t], iter'[t], ctx'[t])
      BY <1>0, <2>1 DEF AskedAt, InLoop
    <2> QED
      BY <1>0, <1>1, <2>1, <2>2
  <1>10. CASE Crash
    <2>1. UNCHANGED <<history, iter>>
      BY <1>10 DEF Crash
    <2>2. \A u \in Turns : pc'[u] = "closed" \/ (pc'[u] = pc[u] /\ pc[u] \in {"idle", "closed"})
      BY <1>10 DEF Crash
    <2> QED
      BY <2>1, <2>2 DEF AskedInv, AskedAt, InLoop
  <1>11. ASSUME UNCHANGED <<history, pc, iter, ctx>> PROVE AskedInv'
    BY <1>11 DEF AskedInv, AskedAt
  <1>12. ASSUME NEW t \in Turns, Deliver(t) \/ Cancel(t) PROVE AskedInv'
    BY <1>11, <1>12 DEF Deliver, Cancel, turnVars
  <1>13. CASE UNCHANGED vars
    BY <1>11, <1>13 DEF vars, turnVars
  <1>14. CASE DeleteSession
    BY <1>14 DEF DeleteSession
  <1> QED
    BY <1>3, <1>4, <1>5, <1>6, <1>7, <1>8, <1>9, <1>10, <1>12, <1>13, <1>14
       DEF Next, Process, Work

\* For a client that waits for its answers, every number of turns and every
\* cap: while the session can be read and is not deleted, the LLM is never
\* asked without the question it is to answer, whatever else fails.
THEOREM EngineQuestionAsked ==
    ASSUME Sequential, Disturbances \cap {"load", "delete"} = {}
    PROVE  Spec => []QuestionAsked
  <1>1. BaseInv /\ AloneInv /\ AskedInv /\ [Next]_vars => AskedInv'
    BY AskedInvNext
  <1>2. AskedInv => QuestionAsked
    BY DEF AskedInv, AskedAt, QuestionAsked, InLoop, Holds, Question
  <1>3. Spec => []AloneInv
    BY SequentialAlone
  <1> QED
    BY <1>1, <1>2, <1>3, AskedInvInit, Base, PTL DEF Spec

-----------------------------------------------------------------------------
(***************************************************************************)
(* The answer.  "done" is sent after the answer is stored, so a question   *)
(* whose turn is done is answered in the history, and every append, cut    *)
(* and trim keeps it so.  What a turn has loaded stays right because no    *)
(* other turn becomes done while it works.                                 *)
(***************************************************************************)
Answered(s, u) ==
    \A i \in DOMAIN s : s[i].role = "human" /\ s[i].turn = u =>
        \E j \in i + 1 .. Len(s) : s[j].role = "ai" /\ s[j].turn = u

DoneSeen(u) == Holds(seen[u], "done")

RememberedInv ==
    /\ \A u \in Turns :
          DoneSeen(u) \/ Holds(chan[u], "done") \/ pc[u] = "finish" => Answered(history, u)
    /\ \A t \in Turns : pc[t] \in InLoop => \A u \in Turns : DoneSeen(u) => Answered(ctx[t], u)
    /\ \A t \in Turns : pc[t] \in {"idle", "save_human", "load"} => ctx[t] = <<>>

LEMMA ConcatParts ==
    ASSUME NEW r \in Seq(Event), NEW s \in Seq(Event)
    PROVE  /\ \A i \in DOMAIN r : i \in DOMAIN (r \o s) /\ (r \o s)[i] = r[i]
           /\ \A i \in DOMAIN s : /\ Len(r) + i \in DOMAIN (r \o s)
                                  /\ (r \o s)[Len(r) + i] = s[i]
  OBVIOUS

\* A goroutine that works has not sent "done".
LEMMA WorkingNotDone ==
    ASSUME BaseInv, NEW t \in Turns, pc[t] \notin {"closing", "closed"}
    PROVE  ~Holds(seen[t], "done") /\ ~Holds(chan[t], "done")
  <1>1. PICK s \in Seq(Event), v \in Seq(Event), c \in Seq(Event) :
           v = seen[t] /\ c = chan[t] /\ s = v \o c /\ s = Stream(t)
    BY StreamType DEF BaseInv, TypeInv, Stream
  <1>2. v \in Seq(Event) /\ c \in Seq(Event) /\ s = v \o c
    BY <1>1
  <1>3. Legal(s) /\ Place(s, pc[t], iter[t]) /\ pc[t] \in Steps
    BY <1>1 DEF BaseInv, PromiseInv, TypeInv, TypeOK
  <1>4. ASSUME NEW i \in DOMAIN s, s[i] = "done" PROVE FALSE
    <2>1. DOMAIN s = 1 .. Len(s) /\ Len(s) \in Nat /\ s # <<>>
      BY <1>1, <1>4
    <2>2. CASE i = Len(s)
      <3>1. End(s) = "done"
        BY <1>4, <2>1, <2>2 DEF End
      <3> QED
        BY <1>3, <2>1, <3>1 DEF Place, Steps, Terminal
    <2>3. CASE i # Len(s)
      <3>1. i + 1 \in DOMAIN s /\ i \in Nat /\ i # 0 /\ s[i + 1] \in Event
        BY <1>1, <2>1, <2>3
      <3>2. Promise!Follows(s[i], s[i + 1])
        BY <1>3, <3>1, FollowsAt
      <3> QED
        BY <1>4, <3>1, <3>2 DEF Promise!Follows, Event, Terminal
    <2> QED
      BY <2>2, <2>3
  <1>5. ~Holds(v, "done") /\ ~Holds(c, "done")
    <2>1. ASSUME NEW i \in DOMAIN v, v[i] = "done" PROVE FALSE
      <3>1. i \in DOMAIN s /\ s[i] = v[i]
        BY <1>2, ConcatParts
      <3> QED
        BY <1>4, <2>1, <3>1
    <2>2. ASSUME NEW i \in DOMAIN c, c[i] = "done" PROVE FALSE
      <3>1. Len(v) + i \in DOMAIN s /\ s[Len(v) + i] = c[i]
        BY <1>2, ConcatParts
      <3> QED
        BY <1>4, <2>2, <3>1
    <2> QED
      BY <2>1, <2>2 DEF Holds
  <1> QED
    BY <1>1, <1>5

\* A tail of an answered list is answered, and so is one with more behind it
\* that asks nothing for u.
LEMMA AnsweredTail ==
    ASSUME NEW s \in Seq(Message), NEW r \in Seq(Message), NEW u, Answered(s, u),
           NEW c \in 0 .. Len(s), Len(r) >= Len(s) - c,
           \A i \in 1 .. Len(s) - c : r[i] = s[i + c],
           \A i \in Len(s) - c + 1 .. Len(r) : r[i].role # "human" \/ r[i].turn # u
    PROVE  Answered(r, u)
  <1> SUFFICES ASSUME NEW i \in DOMAIN r, r[i].role = "human", r[i].turn = u
               PROVE  \E j \in i + 1 .. Len(r) : r[j].role = "ai" /\ r[j].turn = u
    BY DEF Answered
  <1>1. Len(s) \in Nat /\ Len(r) \in Nat /\ c \in Nat /\ i \in 1 .. Len(r) /\ DOMAIN s = 1 .. Len(s)
    OBVIOUS
  <1>2. i \in 1 .. Len(s) - c
    BY <1>1
  <1>3. i + c \in DOMAIN s /\ r[i] = s[i + c]
    BY <1>1, <1>2
  <1>4. PICK j \in i + c + 1 .. Len(s) : s[j].role = "ai" /\ s[j].turn = u
    BY <1>3 DEF Answered
  <1>5. j - c \in i + 1 .. Len(r) /\ j - c \in 1 .. Len(s) - c /\ (j - c) + c = j
    BY <1>1, <1>2, <1>4
  <1>6. r[j - c] = s[j]
    BY <1>5
  <1> QED
    BY <1>4, <1>5, <1>6

LEMMA AnsweredAdd ==
    ASSUME NEW h \in Seq(Message), NEW msg \in Message, NEW max \in Nat \ {0}, NEW u,
           Answered(h, u), msg.role # "human" \/ msg.turn # u
    PROVE  Answered(AddMessage(h, msg, max), u)
  <1> DEFINE new == AddMessage(h, msg, max)
  <1>1. PICK k \in 0 .. Len(h) :
           /\ Len(new) = Len(h) + 1 - k
           /\ \A i \in 1 .. Len(h) - k : new[i] = h[i + k]
           /\ new[Len(new)] = msg
    BY AddMessageTail
  <1>2. new \in Seq(Message) /\ Len(h) \in Nat
    BY AddMessageTail
  <1> HIDE DEF new
  <1>3. \A i \in Len(h) - k + 1 .. Len(new) : new[i] = msg
    <2> SUFFICES ASSUME NEW i \in Len(h) - k + 1 .. Len(new) PROVE new[i] = msg
      OBVIOUS
    <2>1. i = Len(new)
      BY <1>1, <1>2
    <2> QED
      BY <1>1, <2>1
  <1>4. Len(new) >= Len(h) - k
    BY <1>1, <1>2
  <1>5. Answered(new, u)
    BY <1>1, <1>2, <1>3, <1>4, AnsweredTail
  <1> QED
    BY <1>5 DEF new

\* The turn's own answer answers all it asked.
LEMMA AnsweredOwn ==
    ASSUME NEW h \in Seq(Message), NEW msg \in Message, NEW max \in Nat \ {0},
           msg.role = "ai"
    PROVE  Answered(AddMessage(h, msg, max), msg.turn)
  <1> DEFINE new == AddMessage(h, msg, max)
  <1>1. new \in Seq(Message) /\ new[Len(new)] = msg
    BY AddMessageLast
  <1> HIDE DEF new
  <1>2. ASSUME NEW i \in DOMAIN new, new[i].role = "human" PROVE Len(new) \in i + 1 .. Len(new)
    BY <1>1, <1>2
  <1>3. Answered(new, msg.turn)
    BY <1>1, <1>2 DEF Answered
  <1> QED
    BY <1>3 DEF new

LEMMA AnsweredTrim ==
    ASSUME NEW h \in Seq(Message), NEW max \in Nat, NEW u, Answered(h, u)
    PROVE  Answered(TrimHistory(h, max), u)
  <1> DEFINE kept == TrimHistory(h, max)
  <1>1. PICK c \in 0 .. Len(h) : /\ Len(kept) = Len(h) - c
                                 /\ \A i \in 1 .. Len(h) - c : kept[i] = h[i + c]
    BY TrimHistoryTail
  <1>2. kept \in Seq(Message) /\ Len(h) \in Nat
    BY TrimHistoryTail
  <1> HIDE DEF kept
  <1>3. Answered(kept, u)
    BY <1>1, <1>2, AnsweredTail
  <1> QED
    BY <1>3 DEF kept

LEMMA AnsweredConcat ==
    ASSUME NEW s \in Seq(Message), NEW more \in Seq(Message), NEW u, Answered(s, u),
           \A i \in DOMAIN more : more[i].role \in {"function", "tool"}
    PROVE  Answered(s \o more, u)
  <1> DEFINE r == s \o more
  <1>1. /\ r \in Seq(Message) /\ Len(s) \in Nat /\ Len(r) = Len(s) + Len(more) /\ Len(more) \in Nat
        /\ \A i \in 1 .. Len(s) : r[i] = s[i]
        /\ \A i \in Len(s) + 1 .. Len(r) : r[i] = more[i - Len(s)] /\ i - Len(s) \in DOMAIN more
    BY ConcatProperties, LenProperties
  <1> HIDE DEF r
  <1>2. PICK c \in 0 .. Len(s) : c = 0
    BY <1>1
  <1>3. /\ Len(r) >= Len(s) - c
        /\ \A i \in 1 .. Len(s) - c : r[i] = s[i + c]
    BY <1>1, <1>2
  <1>4. \A i \in Len(s) - c + 1 .. Len(r) : r[i].role # "human" \/ r[i].turn # u
    <2> SUFFICES ASSUME NEW i \in Len(s) - c + 1 .. Len(r) PROVE r[i].role # "human"
      OBVIOUS
    <2>1. r[i] = more[i - Len(s)] /\ i - Len(s) \in DOMAIN more
      BY <1>1, <1>2
    <2> QED
      BY <2>1
  <1>5. Answered(r, u)
    BY <1>1, <1>3, <1>4, AnsweredTail
  <1> QED
    BY <1>5 DEF r

LEMMA AppendHolds ==
    ASSUME NEW s \in Seq(Event), NEW e \in Event, NEW m, Holds(Append(s, e), m)
    PROVE  Holds(s, m) \/ e = m
  BY AppendEvent DEF Holds

LEMMA DeliverHolds ==
    ASSUME NEW s \in Seq(Event), NEW c \in Seq(Event), c # <<>>, NEW m
    PROVE  /\ Holds(Tail(c), m) => Holds(c, m)
           /\ Holds(Append(s, Head(c)), m) => Holds(s, m) \/ Holds(c, m)
  <1>1. /\ Head(c) \in Event /\ Head(c) = c[1] /\ 1 \in DOMAIN c
        /\ \A i \in DOMAIN Tail(c) : i + 1 \in DOMAIN c /\ Tail(c)[i] = c[i + 1]
    OBVIOUS
  <1>2. Holds(Tail(c), m) => Holds(c, m)
    BY <1>1 DEF Holds
  <1>3. ASSUME Holds(Append(s, Head(c)), m) PROVE Holds(s, m) \/ Holds(c, m)
    <2>1. Holds(s, m) \/ Head(c) = m
      BY <1>1, <1>3, AppendHolds
    <2> QED
      BY <1>1, <2>1 DEF Holds
  <1> QED
    BY <1>2, <1>3

DoneComing(u) == DoneSeen(u) \/ Holds(chan[u], "done") \/ pc[u] = "finish"

LEMMA RememberedInvInit == Init => RememberedInv
  <1> SUFFICES ASSUME Init, NEW t \in Turns
               PROVE  ~Holds(seen[t], "done") /\ ~Holds(chan[t], "done") /\ pc[t] = "idle" /\ ctx[t] = <<>>
    BY DEF RememberedInv, DoneSeen, InLoop
  <1>1. seen[t] = <<>> /\ chan[t] = <<>> /\ pc[t] = "idle" /\ ctx[t] = <<>>
    BY DEF Init
  <1>2. DOMAIN seen[t] = {} /\ DOMAIN chan[t] = {}
    BY <1>1
  <1> QED
    BY <1>1, <1>2 DEF Holds

\* A step that stores and loads nothing.
LEMMA RememberedSilent ==
    ASSUME RememberedInv,
           history' = history \/ history' = <<>>,
           \A u \in Turns : ctx'[u] = ctx[u] \/ ctx'[u] = <<>>,
           \A u \in Turns : DoneComing(u)' => DoneComing(u),
           \A t \in Turns : pc'[t] \in InLoop =>
              pc[t] \in InLoop /\ \A u \in Turns : DoneSeen(u)' => DoneSeen(u),
           \A t \in Turns : pc'[t] \in {"idle", "save_human", "load"} =>
              pc[t] \in {"idle", "save_human", "load"}
    PROVE  RememberedInv'
  <1>1. ASSUME NEW u PROVE Answered(<<>>, u)
    BY DEF Answered
  <1>2. ASSUME NEW u \in Turns, DoneComing(u)' PROVE Answered(history', u)
    BY <1>1, <1>2 DEF RememberedInv, DoneComing
  <1>3. ASSUME NEW t \in Turns, pc'[t] \in InLoop, NEW u \in Turns, DoneSeen(u)'
        PROVE  Answered(ctx'[t], u)
    BY <1>1, <1>3 DEF RememberedInv
  <1>4. ASSUME NEW t \in Turns, pc'[t] \in {"idle", "save_human", "load"} PROVE ctx'[t] = <<>>
    BY <1>4 DEF RememberedInv
  <1> QED
    BY <1>2, <1>3, <1>4 DEF RememberedInv, DoneComing, Answered

\* A step that stores the message m of turn t.
LEMMA RememberedStore ==
    ASSUME BaseInv, RememberedInv, NEW t \in Turns, NEW m \in Message, m.turn = t,
           history' = AddMessage(history, m, MaxMessages),
           UNCHANGED <<seen, chan>>, pc[t] \notin {"finish", "closing", "closed"},
           \A u \in Turns \ {t} : pc'[u] = pc[u] /\ ctx'[u] = ctx[u],
           pc'[t] \in Steps,
           pc'[t] = "finish" => m.role = "ai",
           pc'[t] \in InLoop => \A u \in Turns : DoneSeen(u) => Answered(ctx'[t], u),
           pc'[t] \in {"idle", "save_human", "load"} => ctx'[t] = <<>>
    PROVE  RememberedInv'
  <1>1. ~DoneComing(t) /\ (DoneComing(t)' => pc'[t] = "finish")
    BY WorkingNotDone DEF DoneComing, DoneSeen
  <1>2. history \in Seq(Message) /\ MaxMessages \in Nat \ {0}
    BY EngineAssumption DEF BaseInv, TypeInv, TypeOK
  <1>3. ASSUME NEW u \in Turns, DoneComing(u)' PROVE Answered(history', u)
    <2>1. CASE u = t
      BY <1>1, <1>2, <1>3, <2>1, AnsweredOwn
    <2>2. CASE u # t
      <3>1. Answered(history, u)
        BY <1>3, <2>2 DEF RememberedInv, DoneComing, DoneSeen
      <3> QED
        BY <1>2, <2>2, <3>1, AnsweredAdd
    <2> QED
      BY <2>1, <2>2
  <1>4. ASSUME NEW v \in Turns, pc'[v] \in InLoop, NEW u \in Turns, DoneSeen(u)'
        PROVE  Answered(ctx'[v], u)
    BY <1>4 DEF RememberedInv, DoneSeen
  <1>5. ASSUME NEW v \in Turns, pc'[v] \in {"idle", "save_human", "load"} PROVE ctx'[v] = <<>>
    BY <1>5 DEF RememberedInv
  <1> QED
    BY <1>3, <1>4, <1>5 DEF RememberedInv, DoneComing, Answered

LEMMA RememberedInvNext ==
    ASSUME Sequential, "save" \notin Disturbances,
           BaseInv, AloneInv, RememberedInv, [Next]_vars
    PROVE  RememberedInv'
  <1> USE DEF BaseInv, TypeInv
  <1>0. /\ pc \in [Turns -> Steps] /\ iter \in [Turns -> Nat]
        /\ ctx \in [Turns -> Seq(Message)] /\ history \in Seq(Message)
        /\ chan \in [Turns -> Seq(Event)] /\ seen \in [Turns -> Seq(Event)]
        /\ MaxContext \in Nat /\ \A t \in Turns : ~CtxDone(t)
    BY EngineAssumption DEF TypeOK, AloneInv, CtxDone
  <1>1. ASSUME NEW t \in Turns, NEW role \in Roles, NEW n \in Nat, SaveMessage(t, role, n)
        PROVE  \E m \in Message : /\ m.turn = t /\ m.role = role
                                  /\ history' = AddMessage(history, m, MaxMessages)
    <2>1. history' = AddMessage(history, Msg(role, t, iter[t], n), MaxMessages)
      BY <1>0, <1>1 DEF SaveMessage, Store, StoreFails
    <2>2. Msg(role, t, iter[t], n) \in Message
      BY <1>0, MsgType
    <2>3. Msg(role, t, iter[t], n).turn = t /\ Msg(role, t, iter[t], n).role = role
      BY DEF Msg
    <2> QED
      BY <2>1, <2>2, <2>3
  <1>2. ASSUME NEW t \in Turns, Begin(t) \/ Refuse(t) PROVE RememberedInv'
    <2>1. PICK e \in {"session", "error"}, step \in {"save_human", "closed"} :
             /\ seen' = [seen EXCEPT ![t] = <<e>>] /\ pc' = [pc EXCEPT ![t] = step]
             /\ UNCHANGED <<history, chan, ctx>> /\ pc[t] = "idle"
      BY <1>2 DEF Begin, Refuse, Goto, StreamInv
    <2>2. \A u \in Turns : DoneSeen(u)' => DoneSeen(u)
      BY <1>0, <2>1 DEF DoneSeen, Holds
    <2> QED
      BY <1>0, <2>1, <2>2, RememberedSilent DEF DoneComing, InLoop
  <1>3. ASSUME NEW t \in Turns, Deliver(t) PROVE RememberedInv'
    <2>1. /\ handler[t] = "reading" /\ chan[t] # <<>> /\ UNCHANGED <<history, pc, ctx>>
          /\ chan' = [chan EXCEPT ![t] = Tail(@)]
          /\ seen' = [seen EXCEPT ![t] = Append(@, Head(chan[t]))]
      BY <1>3 DEF Deliver, turnVars, Streaming
    <2>2. /\ Holds(Tail(chan[t]), "done") => Holds(chan[t], "done")
          /\ Holds(Append(seen[t], Head(chan[t])), "done") =>
                Holds(seen[t], "done") \/ Holds(chan[t], "done")
      BY <1>0, <2>1, DeliverHolds
    <2>3. /\ chan'[t] = Tail(chan[t]) /\ seen'[t] = Append(seen[t], Head(chan[t]))
          /\ \A u \in Turns \ {t} : chan'[u] = chan[u] /\ seen'[u] = seen[u]
      BY <1>0, <2>1
    <2>4. \A u \in Turns : DoneComing(u)' => DoneComing(u)
      BY <2>1, <2>2, <2>3 DEF DoneComing, DoneSeen
    <2>5. ASSUME NEW v \in Turns, pc'[v] \in InLoop, NEW u \in Turns, DoneSeen(u)'
          PROVE  DoneSeen(u)
      <3>1. handler[v] = "reading" /\ pc[v] \in InLoop
        BY <2>1, <2>5 DEF StreamInv, TypeOK, InLoop
      <3>2. v = t
        BY <2>1, <3>1 DEF AloneInv, Streaming
      <3>3. ~Holds(chan[t], "done")
        BY <3>1, <3>2, WorkingNotDone DEF InLoop
      <3> QED
        BY <2>2, <2>3, <2>5, <3>3 DEF DoneSeen
    <2> QED
      BY <2>1, <2>4, <2>5, RememberedSilent
  <1>4. ASSUME NEW t \in Turns, SaveHuman(t) PROVE RememberedInv'
    <2>1. SaveMessage(t, "human", 0) /\ pc[t] = "save_human" /\ UNCHANGED <<seen, chan, ctx>>
      BY <1>4 DEF SaveHuman, SaveMessage, clientVars
    <2>2. PICK m \in Message : m.turn = t /\ history' = AddMessage(history, m, MaxMessages)
      BY <1>1, <2>1 DEF Roles
    <2>3. PICK step \in {"load", "fail"} : pc' = [pc EXCEPT ![t] = step]
      BY <1>4 DEF SaveHuman, Goto
    <2>4. ctx[t] = <<>>
      BY <2>1 DEF RememberedInv
    <2>5. /\ pc'[t] \in Steps /\ pc'[t] # "finish" /\ pc'[t] \notin InLoop
          /\ \A u \in Turns \ {t} : pc'[u] = pc[u] /\ ctx'[u] = ctx[u]
      BY <1>0, <2>1, <2>3 DEF Steps, InLoop
    <2> QED
      BY <2>1, <2>2, <2>4, <2>5, RememberedStore
  <1>5. ASSUME NEW t \in Turns, SaveCall(t) \/ SaveResult(t) PROVE RememberedInv'
    <2>1. /\ \E role \in Roles, n \in Nat : SaveMessage(t, role, n)
          /\ pc[t] \in {"save_call", "save_result"} /\ UNCHANGED <<seen, chan>>
      <3>1. Len(batch[t]) \in Nat /\ NextResult(t) \in Nat
        BY LenProperties DEF TypeOK, NextResult
      <3> QED
        BY <1>5, <3>1 DEF SaveCall, SaveResult, Roles, clientVars
    <2>2. PICK m \in Message : m.turn = t /\ history' = AddMessage(history, m, MaxMessages)
      BY <1>1, <2>1
    <2>3. PICK step \in {"tools", "think"} : pc' = [pc EXCEPT ![t] = step]
      BY <1>5, Zenon DEF SaveCall, SaveResult, Goto
    <2>4. PICK more \in Seq(Message) :
             /\ ctx' = [ctx EXCEPT ![t] = ctx[t] \o more]
             /\ \A i \in DOMAIN more : more[i].role \in {"function", "tool"}
      BY <1>5, LoopAppends
    <2>5. /\ pc'[t] \in Steps /\ pc'[t] \notin {"finish", "idle", "save_human", "load"}
          /\ ctx'[t] = ctx[t] \o more
          /\ \A u \in Turns \ {t} : pc'[u] = pc[u] /\ ctx'[u] = ctx[u]
      BY <1>0, <2>3, <2>4 DEF Steps
    <2>6. ASSUME NEW u \in Turns, DoneSeen(u) PROVE Answered(ctx'[t], u)
      <3>1. Answered(ctx[t], u)
        BY <2>1, <2>6 DEF RememberedInv, InLoop
      <3> QED
        BY <1>0, <2>4, <2>5, <3>1, AnsweredConcat
    <2> QED
      BY <2>1, <2>2, <2>5, <2>6, RememberedStore
  <1>6. ASSUME NEW t \in Turns, SaveAnswer(t) PROVE RememberedInv'
    <2>1. /\ SaveMessage(t, "ai", 0) /\ pc[t] = "save_answer" /\ UNCHANGED <<seen, chan, ctx>>
          /\ pc' = [pc EXCEPT ![t] = "finish"]
      BY <1>6 DEF SaveAnswer, Goto, clientVars
    <2>2. PICK m \in Message : /\ m.turn = t /\ m.role = "ai"
                               /\ history' = AddMessage(history, m, MaxMessages)
      BY <1>1, <2>1 DEF Roles
    <2>3. /\ pc'[t] \in Steps /\ pc'[t] \notin InLoop \cup {"idle", "save_human", "load"}
          /\ \A u \in Turns \ {t} : pc'[u] = pc[u] /\ ctx'[u] = ctx[u]
      BY <1>0, <2>1 DEF Steps, InLoop
    <2> QED
      BY <2>1, <2>2, <2>3, RememberedStore
  <1>7. ASSUME NEW t \in Turns, LoadHistory(t) PROVE RememberedInv'
    <2>1. /\ pc[t] = "load" /\ pc' = [pc EXCEPT ![t] = "think"]
          /\ UNCHANGED <<history, seen, chan>>
          /\ \/ ctx' = ctx
             \/ ctx' = [ctx EXCEPT ![t] = TrimHistory(history, MaxContext)]
      BY <1>7 DEF LoadHistory, Goto, clientVars
    <2>2. ctx[t] = <<>>
      BY <2>1 DEF RememberedInv
    <2>3. ASSUME NEW u \in Turns, DoneSeen(u) PROVE Answered(ctx'[t], u)
      <3>1. Answered(history, u)
        BY <2>3 DEF RememberedInv
      <3>2. Answered(<<>>, u)
        BY DEF Answered
      <3>3. Answered(TrimHistory(history, MaxContext), u)
        BY <1>0, <3>1, AnsweredTrim
      <3> QED
        BY <1>0, <2>1, <2>2, <3>2, <3>3
    <2>4. \A u \in Turns \ {t} : pc'[u] = pc[u] /\ ctx'[u] = ctx[u]
      BY <1>0, <2>1
    <2>5. pc'[t] = "think"
      BY <1>0, <2>1
    <2>6. \A u \in Turns : DoneComing(u)' => Answered(history', u)
      BY <2>1, <2>4, <2>5 DEF RememberedInv, DoneComing, DoneSeen
    <2>7. ASSUME NEW v \in Turns, pc'[v] \in InLoop, NEW u \in Turns, DoneSeen(u)'
          PROVE  Answered(ctx'[v], u)
      BY <2>1, <2>3, <2>4, <2>7 DEF RememberedInv, DoneSeen
    <2>8. ASSUME NEW v \in Turns, pc'[v] \in {"idle", "save_human", "load"} PROVE ctx'[v] = <<>>
      BY <2>4, <2>5, <2>8 DEF RememberedInv
    <2> QED
      BY <2>6, <2>7, <2>8 DEF RememberedInv, DoneComing, Answered
  <1>8. ASSUME NEW t \in Turns,
               \/ Think(t) \/ Flush(t) \/ EmitResult(t) \/ Chunk(t) \/ Finish(t) \/ Fail(t)
        PROVE  RememberedInv'
    <2>1. PICK e \in Event, step \in Steps \ {"finish", "idle", "save_human", "load"} :
             /\ UNCHANGED <<history, ctx, seen>>
             /\ chan' = [chan EXCEPT ![t] = Append(@, e)] /\ pc' = [pc EXCEPT ![t] = step]
             /\ e = "done" => pc[t] = "finish"
             /\ step \in InLoop => pc[t] \in InLoop
      <3>1. Chunk(t) => pc[t] = "chat" /\ pc' = [pc EXCEPT ![t] = "chat"]
        BY <1>0 DEF Chunk
      <3> QED
        BY <1>8, <3>1 DEF Think, Flush, EmitResult, Chunk, Finish, Fail, Emit, Goto, Steps,
                          Event, Terminal, InLoop, clientVars
    <2>2. Holds(Append(chan[t], e), "done") => Holds(chan[t], "done") \/ e = "done"
      BY <1>0, AppendHolds
    <2>3. /\ chan'[t] = Append(chan[t], e) /\ pc'[t] = step
          /\ \A u \in Turns \ {t} : chan'[u] = chan[u] /\ pc'[u] = pc[u]
      BY <1>0, <2>1
    <2>4. \A u \in Turns : DoneComing(u)' => DoneComing(u)
      BY <2>1, <2>2, <2>3 DEF DoneComing, DoneSeen
    <2>5. \A u \in Turns : DoneSeen(u)' => DoneSeen(u)
      BY <2>1 DEF DoneSeen
    <2> QED
      BY <2>1, <2>3, <2>4, <2>5, RememberedSilent
  <1>9. ASSUME NEW t \in Turns,
               \/ Answer(t) \/ CallTools(t) \/ ChatFails(t) \/ StartTool(t) \/ FinishTool(t)
               \/ Panic(t) \/ Close(t)
        PROVE  RememberedInv'
    <2>1. /\ UNCHANGED <<history, seen, chan>>
          /\ ctx' = ctx \/ ctx' = [ctx EXCEPT ![t] = <<>>]
      BY <1>9 DEF Answer, CallTools, ChatFails, StartTool, FinishTool, Panic, Close, clientVars
    <2>2. \/ pc' = pc
          \/ \E step \in Steps \ {"finish", "idle", "save_human", "load"} :
                pc' = [pc EXCEPT ![t] = step] /\ (step \in InLoop => pc[t] \in InLoop)
      <3> DEFINE Went == \/ pc' = pc
                         \/ \E step \in Steps \ {"finish", "idle", "save_human", "load"} :
                               /\ pc' = [pc EXCEPT ![t] = step]
                               /\ step \in InLoop => pc[t] \in InLoop
      <3>1. Answer(t) \/ CallTools(t) \/ ChatFails(t) => Went
        BY DEF Answer, CallTools, ChatFails, Goto, Steps, InLoop
      <3>2. StartTool(t) \/ FinishTool(t) => Went
        BY DEF StartTool, FinishTool, Goto, Steps, InLoop
      <3>3. Panic(t) \/ Close(t) => Went
        BY DEF Panic, Close, Goto, Steps, InLoop
      <3> QED
        BY <1>9, <3>1, <3>2, <3>3
    <2>3. \A u \in Turns : (DoneSeen(u)' => DoneSeen(u)) /\ (DoneComing(u)' => DoneComing(u))
      BY <1>0, <2>1, <2>2 DEF DoneComing, DoneSeen
    <2> QED
      BY <1>0, <2>1, <2>2, <2>3, RememberedSilent
  <1>10. CASE Crash
    <2>1. /\ UNCHANGED <<history, seen>>
          /\ \A u \in Turns : /\ ctx'[u] = <<>> /\ chan'[u] = <<>>
                              /\ pc'[u] = "closed" \/ (pc'[u] = pc[u] /\ pc[u] \in {"idle", "closed"})
      BY <1>10 DEF Crash
    <2>2. \A u \in Turns : ~Holds(chan'[u], "done")
      <3>1. ASSUME NEW u \in Turns PROVE DOMAIN chan'[u] = {}
        <4>1. chan'[u] = <<>>
          BY <2>1
        <4> QED
          BY <4>1
      <3> QED
        BY <3>1 DEF Holds
    <2>3. \A u \in Turns : (DoneSeen(u)' => DoneSeen(u)) /\ (DoneComing(u)' => DoneComing(u))
      BY <2>1, <2>2 DEF DoneComing, DoneSeen
    <2>4. \A u \in Turns : /\ pc'[u] \notin InLoop
                           /\ pc'[u] \in {"idle", "save_human", "load"} => pc[u] = "idle"
      BY <2>1 DEF InLoop
    <2>5. history' = history /\ \A u \in Turns : ctx'[u] = <<>>
      BY <2>1
    <2> QED
      BY <2>3, <2>4, <2>5, RememberedSilent
  <1>11. CASE DeleteSession \/ UNCHANGED vars
    <2>1. /\ history' = history \/ history' = <<>>
          /\ UNCHANGED <<pc, ctx, seen, chan>>
      BY <1>11 DEF DeleteSession, vars, turnVars, clientVars
    <2> QED
      BY <2>1, RememberedSilent DEF DoneComing, DoneSeen
  <1>12. ASSUME NEW t \in Turns, Cancel(t) PROVE FALSE
    BY <1>12 DEF Cancel, Sequential
  <1> QED
    BY <1>2, <1>3, <1>4, <1>5, <1>6, <1>7, <1>8, <1>9, <1>10, <1>11, <1>12
       DEF Next, Process, Work, Reply

\* For a client that waits for its answers, every number of turns and every
\* cap: while no store call fails to save, an answer that was "done" is shown
\* to every later request that is shown its question, crashes, panics, failed
\* loads and deletions in between or not.
THEOREM EngineDoneMeansRemembered ==
    ASSUME Sequential, "save" \notin Disturbances
    PROVE  Spec => []DoneMeansRemembered
  <1>1. BaseInv /\ AloneInv /\ RememberedInv /\ [Next]_vars => RememberedInv'
    BY RememberedInvNext
  <1>2. BaseInv /\ RememberedInv => DoneMeansRemembered
    <2> SUFFICES ASSUME BaseInv, RememberedInv, NEW t \in Turns, pc[t] = "chat",
                        NEW i \in DOMAIN ctx[t], ctx[t][i].role = "human",
                        \E k \in DOMAIN seen[ctx[t][i].turn] : seen[ctx[t][i].turn][k] = "done"
                 PROVE  \E j \in i + 1 .. Len(ctx[t]) :
                           ctx[t][j].role = "ai" /\ ctx[t][j].turn = ctx[t][i].turn
      BY DEF DoneMeansRemembered
    <2>1. ctx[t][i].turn \in Turns
      <3>1. ctx[t][i] \in Message
        BY ElementOfSeq DEF BaseInv, TypeInv, TypeOK
      <3> QED
        BY <3>1 DEF Message
    <2>2. Answered(ctx[t], ctx[t][i].turn)
      BY <2>1 DEF RememberedInv, InLoop, DoneSeen, Holds
    <2> QED
      BY <2>2 DEF Answered
  <1>3. Spec => []AloneInv
    BY SequentialAlone
  <1> QED
    BY <1>1, <1>2, <1>3, RememberedInvInit, Base, PTL DEF Spec

-----------------------------------------------------------------------------
(***************************************************************************)
(* Calls and results.  The history need not be paired: the store's cap may *)
(* have cut a group of a call and its results in two, and the group of the *)
(* turn at work is still growing.  Grouped says what is left of pairing    *)
(* then; the results that lost their call are the first MaxCalls messages  *)
(* at most, and the caps keep trimHistory away from them.                  *)
(***************************************************************************)
Behind(s) ==
    \A i \in DOMAIN s : s[i].role = "tool" /\ s[i].n < i => ResultOf(s[i], s[i - s[i].n])

Followed(s) ==
    \A i \in DOMAIN s : s[i].role = "function" =>
        \A k \in 1 .. s[i].n :
            i + k \in DOMAIN s => ResultOf(s[i + k], s[i]) /\ s[i + k].n = k

Sized(s) ==
    \A i \in DOMAIN s : s[i].role \in {"function", "tool"} => s[i].n \in 1 .. MaxCalls

\* Only a history the cap has cut has results without their call.
Headless(s) ==
    \A i \in DOMAIN s : s[i].role = "tool" /\ i <= s[i].n => Len(s) >= MaxMessages

Grouped(s) == Behind(s) /\ Followed(s) /\ Sized(s)

\* Every group is whole, as it is between two turns.
Complete(s) == \A i \in DOMAIN s : s[i].role = "function" => i + s[i].n <= Len(s)

\* The last group is that of call, with the first "sent" results.
OpenAt(s, call, sent) ==
    /\ Len(s) - sent \in DOMAIN s
    /\ s[Len(s) - sent] = call
    /\ \A i \in DOMAIN s : s[i].role = "function" /\ i # Len(s) - sent => i + s[i].n <= Len(s)

TailOf(s, r, c) ==
    /\ Len(r) = Len(s) - c
    /\ \A i \in 1 .. Len(s) - c : r[i] = s[i + c]

LEMMA MessageN ==
    ASSUME NEW s \in Seq(Message)
    PROVE  /\ Len(s) \in Nat /\ DOMAIN s = 1 .. Len(s)
           /\ \A i \in DOMAIN s : s[i] \in Message /\ s[i].n \in Nat
  <1>1. Len(s) \in Nat /\ DOMAIN s = 1 .. Len(s)
    OBVIOUS
  <1>2. \A i \in DOMAIN s : s[i] \in Message
    BY <1>1, ElementOfSeq
  <1> QED
    BY <1>1, <1>2 DEF Message

LEMMA TailGrouped ==
    ASSUME NEW s \in Seq(Message), NEW r \in Seq(Message), NEW c \in 0 .. Len(s), TailOf(s, r, c),
           Grouped(s)
    PROVE  /\ Grouped(r)
           /\ Complete(s) => Complete(r)
           /\ \A call, sent : OpenAt(s, call, sent) /\ sent \in 0 .. Len(r) - 1 => OpenAt(r, call, sent)
  <1>1. /\ Len(s) \in Nat /\ Len(r) \in Nat /\ c \in Nat /\ Len(r) = Len(s) - c
        /\ DOMAIN s = 1 .. Len(s) /\ DOMAIN r = 1 .. Len(r)
        /\ \A i \in DOMAIN s : s[i].n \in Nat
    BY MessageN DEF TailOf
  <1>2. \A i \in DOMAIN r : i \in Nat /\ i + c \in DOMAIN s /\ r[i] = s[i + c] /\ r[i].n \in Nat
    BY <1>1 DEF TailOf
  <1>3. Behind(r)
    <2> SUFFICES ASSUME NEW i \in DOMAIN r, r[i].role = "tool", r[i].n < i
                 PROVE  ResultOf(r[i], r[i - r[i].n])
      BY DEF Behind
    <2> DEFINE n == r[i].n
    <2>1. n \in Nat /\ i + c \in DOMAIN s /\ r[i] = s[i + c] /\ n < i + c /\ i \in Nat
      BY <1>1, <1>2
    <2>2. i - n \in DOMAIN r /\ (i - n) + c = (i + c) - n
      BY <1>1, <2>1
    <2>3. r[i - n] = s[(i + c) - n]
      BY <1>2, <2>2
    <2>4. ResultOf(s[i + c], s[(i + c) - n])
      BY <2>1 DEF Grouped, Behind
    <2> QED
      BY <2>1, <2>3, <2>4
  <1>4. Followed(r)
    <2> SUFFICES ASSUME NEW i \in DOMAIN r, r[i].role = "function", NEW k \in 1 .. r[i].n,
                        i + k \in DOMAIN r
                 PROVE  ResultOf(r[i + k], r[i]) /\ r[i + k].n = k
      BY DEF Followed
    <2>1. /\ i + c \in DOMAIN s /\ r[i] = s[i + c]
          /\ (i + k) + c \in DOMAIN s /\ r[i + k] = s[(i + k) + c] /\ (i + k) + c = (i + c) + k
      BY <1>1, <1>2
    <2>2. ResultOf(s[(i + c) + k], s[i + c]) /\ s[(i + c) + k].n = k
      BY <2>1 DEF Grouped, Followed
    <2> QED
      BY <2>1, <2>2
  <1>5. Sized(r)
    BY <1>2 DEF Grouped, Sized
  <1>6. Complete(s) => Complete(r)
    BY <1>1, <1>2 DEF Complete
  <1>7. ASSUME NEW call, NEW sent, OpenAt(s, call, sent), sent \in 0 .. Len(r) - 1
        PROVE  OpenAt(r, call, sent)
    <2>1. /\ Len(r) - sent \in DOMAIN r /\ (Len(r) - sent) + c = Len(s) - sent
          /\ \A i \in DOMAIN r : i # Len(r) - sent => i + c # Len(s) - sent
      BY <1>1, <1>7
    <2>2. r[Len(r) - sent] = call
      BY <1>2, <1>7, <2>1 DEF OpenAt
    <2>3. ASSUME NEW i \in DOMAIN r, r[i].role = "function", i # Len(r) - sent
          PROVE  i + r[i].n <= Len(r)
      <3>1. (i + c) + s[i + c].n <= Len(s)
        BY <1>2, <1>7, <2>1, <2>3 DEF OpenAt
      <3> QED
        BY <1>1, <1>2, <3>1
    <2> QED
      BY <2>1, <2>2, <2>3 DEF OpenAt
  <1> QED
    BY <1>3, <1>4, <1>5, <1>6, <1>7 DEF Grouped

\* A capped append is an append followed by a cut that leaves MaxMessages.
LEMMA AddMessageCut ==
    ASSUME NEW h \in Seq(Message), NEW msg \in Message, NEW max \in Nat \ {0}
    PROVE  /\ AddMessage(h, msg, max) \in Seq(Message)
           /\ Append(h, msg) \in Seq(Message)
           /\ \E c \in 0 .. Len(Append(h, msg)) :
                 /\ TailOf(Append(h, msg), AddMessage(h, msg, max), c)
                 /\ c = 0 \/ Len(AddMessage(h, msg, max)) = max
  <1> DEFINE s == Append(h, msg)
             r == AddMessage(h, msg, max)
  <1>1. PICK k \in 0 .. Len(h) :
           /\ k = 0 \/ k = Len(h) + 1 - max
           /\ Len(r) = Len(h) + 1 - k
           /\ \A i \in 1 .. Len(h) - k : r[i] = h[i + k]
           /\ r[Len(r)] = msg
    BY AddMessageTail
  <1>2. r \in Seq(Message)
    BY AddMessageTail
  <1>3. /\ s \in Seq(Message) /\ Len(s) = Len(h) + 1 /\ Len(h) \in Nat
        /\ \A i \in 1 .. Len(h) : s[i] = h[i]
        /\ s[Len(h) + 1] = msg
    OBVIOUS
  <1> HIDE DEF s, r
  <1>4. k \in 0 .. Len(s) /\ k \in Nat /\ (k = 0 \/ Len(r) = max) /\ Len(r) = Len(s) - k
    BY <1>1, <1>3
  <1>5. ASSUME NEW i \in 1 .. Len(s) - k PROVE r[i] = s[i + k]
    <2>1. CASE i \in 1 .. Len(h) - k
      BY <1>1, <1>3, <1>4, <2>1
    <2>2. CASE i = Len(s) - k
      BY <1>1, <1>3, <1>4, <2>2
    <2> QED
      BY <1>3, <1>4, <2>1, <2>2
  <1> QED
    BY <1>2, <1>3, <1>4, <1>5 DEF s, r, TailOf


\* m may come next: results only behind their call and the results before them,
\* anything else only when every group is whole.
MayFollow(h, m) ==
    /\ m.role \in {"function", "tool"} => m.n \in 1 .. MaxCalls
    /\ m.role = "tool" =>
          \E call \in Message : ResultOf(m, call) /\ OpenAt(h, call, m.n - 1)
    /\ m.role # "tool" => Complete(h)

LEMMA AppendGrouped ==
    ASSUME NEW h \in Seq(Message), NEW m \in Message, Grouped(h), Headless(h), MayFollow(h, m)
    PROVE  LET s == Append(h, m)
           IN  /\ Grouped(s) /\ Headless(s)
               /\ m.role \notin {"function", "tool"} => Complete(s)
               /\ m.role = "function" => OpenAt(s, m, 0)
               /\ m.role = "tool" => \A call : OpenAt(h, call, m.n - 1) => OpenAt(s, call, m.n)
  <1> DEFINE s == Append(h, m)
             len == Len(h)
  <1>1. /\ s \in Seq(Message) /\ len \in Nat /\ Len(s) = len + 1
        /\ DOMAIN h = 1 .. len /\ DOMAIN s = 1 .. len + 1
        /\ s[len + 1] = m
        /\ \A i \in 1 .. len : s[i] = h[i] /\ h[i].n \in Nat
        /\ m.n \in Nat
    <2>1. m.n \in Nat
      BY DEF Message
    <2>2. len \in Nat /\ DOMAIN h = 1 .. len /\ \A i \in DOMAIN h : h[i].n \in Nat
      BY MessageN
    <2>3. s \in Seq(Message) /\ Len(s) = len + 1 /\ s[len + 1] = m /\ \A i \in 1 .. len : s[i] = h[i]
      OBVIOUS
    <2> QED
      BY <2>1, <2>2, <2>3
  <1> HIDE DEF s, len
  <1>2. ASSUME NEW call, OpenAt(h, call, m.n - 1), m.role = "tool"
        PROVE  /\ len + 1 - m.n \in 1 .. len /\ h[len + 1 - m.n] = call
               /\ \A i \in 1 .. len : h[i].role = "function" /\ i # len + 1 - m.n => i + h[i].n <= len
    <2>1. len - (m.n - 1) = len + 1 - m.n
      BY <1>1
    <2> QED
      BY <1>1, <1>2, <2>1 DEF OpenAt, len
  <1>3. m.role = "tool" => m.n < len + 1 /\ ResultOf(m, s[len + 1 - m.n])
    <2> SUFFICES ASSUME m.role = "tool" PROVE m.n < len + 1 /\ ResultOf(m, s[len + 1 - m.n])
      OBVIOUS
    <2>1. PICK call \in Message : ResultOf(m, call) /\ OpenAt(h, call, m.n - 1)
      BY DEF MayFollow
    <2> QED
      BY <1>1, <1>2, <2>1
  <1>4. Behind(s)
    <2> SUFFICES ASSUME NEW i \in 1 .. len + 1, s[i].role = "tool", s[i].n < i
                 PROVE  ResultOf(s[i], s[i - s[i].n])
      BY <1>1 DEF Behind
    <2>1. CASE i = len + 1
      BY <1>1, <1>3, <2>1
    <2>2. CASE i \in 1 .. len
      <3>1. s[i] = h[i] /\ h[i].n \in Nat
        BY <1>1, <2>2
      <3>2. h[i].n # 0
        BY <1>1, <2>2, <3>1 DEF Grouped, Sized
      <3>3. i - h[i].n \in 1 .. len
        BY <1>1, <2>2, <3>1, <3>2
      <3>4. s[i - h[i].n] = h[i - h[i].n]
        BY <1>1, <3>3
      <3>5. ResultOf(h[i], h[i - h[i].n])
        BY <1>1, <2>2, <3>1 DEF Grouped, Behind
      <3> QED
        BY <3>1, <3>4, <3>5
    <2> QED
      BY <1>1, <2>1, <2>2
  <1>5. ASSUME NEW i \in 1 .. len, h[i].role = "function", len + 1 - i \in 1 .. h[i].n
        PROVE  ResultOf(m, h[i]) /\ m.n = len + 1 - i
    <2>1. ~ (i + h[i].n <= len)
      BY <1>1, <1>5
    <2>2. m.role = "tool"
      BY <1>1, <1>5, <2>1 DEF MayFollow, Complete, len
    <2>3. PICK call \in Message : ResultOf(m, call) /\ OpenAt(h, call, m.n - 1)
      BY <2>2 DEF MayFollow
    <2>4. i = len + 1 - m.n
      BY <1>2, <1>5, <2>1, <2>2, <2>3
    <2>5. h[i] = call
      BY <1>2, <2>2, <2>3, <2>4
    <2> QED
      BY <1>1, <2>3, <2>4, <2>5
  <1>6. Followed(s)
    <2> SUFFICES ASSUME NEW i \in 1 .. len + 1, s[i].role = "function", NEW k \in 1 .. s[i].n,
                        i + k \in 1 .. len + 1
                 PROVE  ResultOf(s[i + k], s[i]) /\ s[i + k].n = k
      BY <1>1 DEF Followed
    <2>1. i \in 1 .. len /\ s[i] = h[i] /\ k \in Nat
      BY <1>1
    <2>2. CASE i + k = len + 1
      <3>1. len + 1 - i = k /\ s[i + k] = m
        BY <1>1, <2>1, <2>2
      <3> QED
        BY <1>5, <2>1, <3>1
    <2>3. CASE i + k \in 1 .. len
      <3>1. s[i + k] = h[i + k]
        BY <1>1, <2>3
      <3>2. ResultOf(h[i + k], h[i]) /\ h[i + k].n = k
        BY <1>1, <2>1, <2>3 DEF Grouped, Followed
      <3> QED
        BY <2>1, <3>1, <3>2
    <2> QED
      BY <1>1, <2>1, <2>2, <2>3
  <1>7. Sized(s)
    BY <1>1 DEF Sized, Grouped, MayFollow
  <1>8. Headless(s)
    <2> SUFFICES ASSUME NEW i \in 1 .. len + 1, s[i].role = "tool", i <= s[i].n
                 PROVE  Len(s) >= MaxMessages
      BY <1>1 DEF Headless
    <2>1. i # len + 1
      BY <1>1, <1>3
    <2>2. i \in 1 .. len /\ s[i] = h[i]
      BY <1>1, <2>1
    <2>3. len >= MaxMessages
      BY <1>1, <2>2 DEF Headless, len
    <2> QED
      BY <1>1, <2>3, EngineAssumption
  <1>9. ASSUME m.role \notin {"function", "tool"} PROVE Complete(s)
    <2>1. \A i \in 1 .. len : h[i].role = "function" => i + h[i].n <= len
      BY <1>1, <1>9 DEF MayFollow, Complete, len
    <2> QED
      BY <1>1, <1>9, <2>1 DEF Complete
  <1>10. ASSUME m.role = "function" PROVE OpenAt(s, m, 0)
    <2>1. \A i \in 1 .. len : h[i].role = "function" => i + h[i].n <= len
      BY <1>1, <1>10 DEF MayFollow, Complete, len
    <2> QED
      BY <1>1, <2>1 DEF OpenAt
  <1>11. ASSUME m.role = "tool", NEW call, OpenAt(h, call, m.n - 1) PROVE OpenAt(s, call, m.n)
    <2>1. /\ Len(s) - m.n = len + 1 - m.n /\ len + 1 - m.n \in 1 .. len
          /\ s[len + 1 - m.n] = call
      BY <1>1, <1>2, <1>11
    <2>2. \A i \in 1 .. len + 1 : s[i].role = "function" /\ i # len + 1 - m.n => i + s[i].n <= len + 1
      BY <1>1, <1>2, <1>11
    <2> QED
      BY <1>1, <2>1, <2>2 DEF OpenAt
  <1> QED
    BY <1>4, <1>6, <1>7, <1>8, <1>9, <1>10, <1>11 DEF Grouped, s

\* The caps leave room for the largest group and for what trimHistory keeps.
CapsFit == MaxContext > 0 /\ MaxMessages >= MaxContext + MaxCalls

LEMMA AddGrouped ==
    ASSUME CapsFit, NEW h \in Seq(Message), NEW m \in Message, Grouped(h), Headless(h), MayFollow(h, m)
    PROVE  LET r == AddMessage(h, m, MaxMessages)
           IN  /\ Grouped(r) /\ Headless(r)
               /\ m.role \notin {"function", "tool"} => Complete(r)
               /\ m.role = "function" => OpenAt(r, m, 0)
               /\ m.role = "tool" => \A call : OpenAt(h, call, m.n - 1) => OpenAt(r, call, m.n)
  <1> DEFINE s == Append(h, m)
             r == AddMessage(h, m, MaxMessages)
  <1>0. /\ MaxMessages \in Nat \ {0} /\ MaxContext \in Nat /\ MaxCalls \in Nat /\ m.n \in Nat
        /\ MaxMessages > MaxCalls
    BY EngineAssumption DEF CapsFit, Message
  <1>1. /\ Grouped(s) /\ Headless(s)
        /\ m.role \notin {"function", "tool"} => Complete(s)
        /\ m.role = "function" => OpenAt(s, m, 0)
        /\ m.role = "tool" => \A call : OpenAt(h, call, m.n - 1) => OpenAt(s, call, m.n)
    BY AppendGrouped
  <1>2. PICK c \in 0 .. Len(s) : TailOf(s, r, c) /\ (c = 0 \/ Len(r) = MaxMessages)
    BY <1>0, AddMessageCut
  <1>3. s \in Seq(Message) /\ r \in Seq(Message)
    BY <1>0, AddMessageCut
  <1> HIDE DEF s, r
  <1>4. /\ Grouped(r)
        /\ Complete(s) => Complete(r)
        /\ \A call, sent : OpenAt(s, call, sent) /\ sent \in 0 .. Len(r) - 1 => OpenAt(r, call, sent)
    BY <1>1, <1>2, <1>3, TailGrouped
  <1>5. /\ Len(s) \in Nat /\ Len(r) \in Nat /\ Len(r) = Len(s) - c
        /\ DOMAIN r = 1 .. Len(r) /\ DOMAIN s = 1 .. Len(s)
    BY <1>2, <1>3, MessageN DEF TailOf
  <1>6. Headless(r)
    <2>1. CASE c = 0
      <3>1. \A i \in DOMAIN r : i \in DOMAIN s /\ r[i] = s[i]
        BY <1>2, <1>5, <2>1 DEF TailOf
      <3> QED
        BY <1>1, <1>5, <2>1, <3>1 DEF Headless
    <2>2. CASE Len(r) = MaxMessages
      BY <1>0, <2>2 DEF Headless
    <2> QED
      BY <1>2, <2>1, <2>2
  <1>7. ASSUME NEW call, NEW sent \in 0 .. MaxCalls, OpenAt(s, call, sent) PROVE OpenAt(r, call, sent)
    <2>1. Len(s) - sent \in 1 .. Len(s)
      BY <1>5, <1>7 DEF OpenAt
    <2>2. sent \in 0 .. Len(r) - 1
      BY <1>0, <1>2, <1>5, <2>1
    <2> QED
      BY <1>4, <1>7, <2>2
  <1>8. m.role = "tool" => m.n \in 0 .. MaxCalls
    BY <1>0 DEF MayFollow
  <1> QED
    BY <1>0, <1>1, <1>4, <1>6, <1>7, <1>8 DEF r

\* What is grouped and complete and has every result behind its call is paired.
LEMMA GroupedPaired ==
    ASSUME NEW s \in Seq(Message), Grouped(s), Complete(s),
           \A i \in DOMAIN s : s[i].role = "tool" => s[i].n < i
    PROVE  Paired(s)
  <1>1. /\ Len(s) \in Nat /\ DOMAIN s = 1 .. Len(s)
        /\ \A i \in DOMAIN s : s[i].n \in Nat
    BY MessageN
  <1>2. ASSUME NEW i \in DOMAIN s, s[i].role = "function", NEW k \in 1 .. s[i].n
        PROVE  i + k \in DOMAIN s /\ ResultOf(s[i + k], s[i]) /\ s[i + k].n = k
    <2>1. i + k \in DOMAIN s
      BY <1>1, <1>2 DEF Complete
    <2> QED
      BY <1>2, <2>1 DEF Grouped, Followed
  <1>3. ASSUME NEW i \in DOMAIN s, s[i].role = "tool"
        PROVE  i - s[i].n \in DOMAIN s /\ ResultOf(s[i], s[i - s[i].n])
    <2>1. s[i].n \in Nat /\ s[i].n < i /\ s[i].n # 0
      BY <1>1, <1>3 DEF Grouped, Sized
    <2>2. i - s[i].n \in DOMAIN s
      BY <1>1, <2>1
    <2> QED
      BY <1>3, <2>1, <2>2 DEF Grouped, Behind
  <1> QED
    BY <1>2, <1>3 DEF Paired

\* Where trimHistory cuts, as TrimHistory uses it: at 1 when nothing is cut.
LEMMA TrimCut ==
    ASSUME NEW h \in Seq(Message), NEW max \in Nat \ {0}
    PROVE  /\ TrimHistory(h, max) \in Seq(Message)
           /\ \E cut \in 1 .. Len(h) + 1 :
                 /\ TailOf(h, TrimHistory(h, max), cut - 1)
                 /\ cut = 1 \/ h[cut].role # "tool"
                 /\ Len(h) > max => /\ cut \in 1 .. Len(h) - max + 1
                                    /\ \A k \in cut + 1 .. Len(h) - max + 1 : h[k].role = "tool"
  <1>1. Len(h) \in Nat
    OBVIOUS
  <1>2. CASE Len(h) <= max
    <2>1. TrimHistory(h, max) = h
      BY <1>2 DEF TrimHistory
    <2>2. TailOf(h, h, 1 - 1) /\ 1 \in 1 .. Len(h) + 1 /\ ~ (Len(h) > max)
      BY <1>1, <1>2 DEF TailOf
    <2> QED
      BY <2>1, <2>2
  <1>3. CASE Len(h) > max
    <2> DEFINE cut == TrimStart(h, max)
               kept == TrimHistory(h, max)
    <2>1. /\ cut \in 1 .. Len(h) - max + 1
          /\ cut = 1 \/ h[cut].role # "tool"
          /\ \A k \in cut + 1 .. Len(h) - max + 1 : h[k].role = "tool"
      BY <1>3, TrimStartExists
    <2>2. kept = SubSeq(h, cut, Len(h))
      <3>1. ~ (max <= 0 \/ Len(h) <= max)
        BY <1>1, <1>3
      <3> QED
        BY <3>1, Zenon DEF TrimHistory
    <2> HIDE DEF cut, kept
    <2>3. \A i \in cut .. Len(h) : h[i] \in Message
      BY <1>1, <2>1, ElementOfSeq
    <2>4. /\ kept \in Seq(Message) /\ Len(kept) = Len(h) - cut + 1
          /\ \A i \in 1 .. Len(h) - cut + 1 : kept[i] = h[cut + i - 1]
      BY <1>1, <1>3, <2>1, <2>2, <2>3, SubSeqProperties
    <2>5. TailOf(h, kept, cut - 1)
      <3>1. Len(h) - (cut - 1) = Len(h) - cut + 1
        BY <1>1, <2>1
      <3>2. \A i \in 1 .. Len(h) - cut + 1 : i + (cut - 1) = cut + i - 1
        BY <1>1, <2>1
      <3> QED
        BY <2>4, <3>1, <3>2 DEF TailOf
    <2>6. cut \in 1 .. Len(h) + 1
      BY <1>1, <1>3, <2>1
    <2> QED
      BY <2>1, <2>4, <2>5, <2>6 DEF kept
  <1> QED
    BY <1>1, <1>2, <1>3

\* trimHistory never shows a result without its call, although the store may
\* have dropped calls of results it still has.
LEMMA TrimPaired ==
    ASSUME CapsFit, NEW h \in Seq(Message), Grouped(h), Headless(h), Complete(h)
    PROVE  Paired(TrimHistory(h, MaxContext))
  <1> DEFINE kept == TrimHistory(h, MaxContext)
             len == Len(h)
             aim == len - MaxContext + 1
  <1>0. /\ MaxMessages \in Nat \ {0} /\ MaxContext \in Nat \ {0} /\ MaxCalls \in Nat
        /\ MaxMessages >= MaxContext + MaxCalls
    BY EngineAssumption DEF CapsFit
  <1>1. /\ len \in Nat /\ DOMAIN h = 1 .. len
        /\ \A i \in DOMAIN h : h[i] \in Message /\ h[i].n \in Nat
    BY MessageN
  <1>2. PICK cut \in 1 .. len + 1 :
           /\ TailOf(h, kept, cut - 1)
           /\ cut = 1 \/ h[cut].role # "tool"
           /\ len > MaxContext => cut \in 1 .. aim /\ \A k \in cut + 1 .. aim : h[k].role = "tool"
    BY <1>0, TrimCut
  <1>3. kept \in Seq(Message)
    BY <1>0, TrimCut
  <1>4. \A i \in DOMAIN h : h[i].role \in {"function", "tool"} => h[i].n \in 1 .. MaxCalls
    BY DEF Grouped, Sized
  <1> HIDE DEF kept, len
  \* A result in reach of its call is as far behind it as its number says.
  <1>5. ASSUME NEW j \in DOMAIN h, h[j].role = "tool", h[j].n < j
        PROVE  /\ j - h[j].n \in 1 .. len
               /\ h[j - h[j].n].role = "function"
               /\ \A i \in (j - h[j].n) + 1 .. j : h[i].role = "tool" /\ h[i].n = i - (j - h[j].n)
    <2> DEFINE n == h[j].n
               q == j - n
    <2>1. n \in 1 .. MaxCalls /\ q \in 1 .. len /\ q \in DOMAIN h
      BY <1>0, <1>1, <1>4, <1>5
    <2>2. ResultOf(h[j], h[q])
      BY <1>5 DEF Grouped, Behind
    <2>3. h[q].role = "function" /\ n \in 1 .. h[q].n /\ h[q].n \in Nat
      BY <1>1, <2>1, <2>2 DEF ResultOf
    <2>4. ASSUME NEW i \in q + 1 .. j PROVE h[i].role = "tool" /\ h[i].n = i - q
      <3>1. i - q \in 1 .. h[q].n /\ q + (i - q) = i /\ i \in DOMAIN h
        <4>1. q + n = j /\ j \in 1 .. len /\ n \in Nat /\ q \in Nat
          BY <1>0, <1>1, <2>1
        <4> HIDE DEF q, n
        <4> QED
          BY <1>1, <2>1, <2>3, <2>4, <4>1
      <3>2. ResultOf(h[q + (i - q)], h[q]) /\ h[q + (i - q)].n = i - q
        BY <2>1, <2>3, <3>1 DEF Grouped, Followed
      <3> HIDE DEF q
      <3> QED
        BY <3>1, <3>2 DEF ResultOf
    <2> QED
      BY <2>1, <2>3, <2>4
  <1>6. ASSUME NEW j \in DOMAIN h, h[j].role = "tool", j >= cut PROVE j - h[j].n >= cut
    <2> DEFINE n == h[j].n
    <2>0. n \in 1 .. MaxCalls /\ j \in 1 .. len /\ cut \in 1 .. len
      BY <1>1, <1>2, <1>4, <1>6
    <2>1. CASE n < j
      <3> SUFFICES ASSUME j - n < cut PROVE FALSE
        BY <1>0, <1>1, <2>0
      <3>1. cut \in (j - n) + 1 .. j /\ j - n >= 1
        BY <1>0, <1>1, <1>6, <2>0, <2>1
      <3>2. h[cut].role = "tool"
        BY <1>5, <1>6, <2>1, <3>1
      <3> QED
        BY <1>0, <1>1, <1>2, <2>0, <3>1, <3>2
    <2>2. CASE n >= j
      <3>1. len >= MaxMessages
        BY <1>1, <1>6, <2>0, <2>2 DEF Headless, len
      <3>2. len > MaxContext /\ aim \in 1 .. len /\ aim > MaxCalls /\ j < aim
        BY <1>0, <1>1, <2>0, <2>2, <3>1
      <3>3. cut \in 1 .. aim /\ \A k \in cut + 1 .. aim : h[k].role = "tool"
        BY <1>2, <3>2
      <3> DEFINE m == h[aim].n
                 q == aim - m
      <3>4. aim \in cut + 1 .. aim /\ aim \in DOMAIN h
        BY <1>1, <1>6, <2>0, <3>2, <3>3
      <3>5. h[aim].role = "tool" /\ m \in 1 .. MaxCalls
        BY <1>4, <3>3, <3>4
      <3>6. /\ q \in 1 .. len /\ h[q].role = "function"
            /\ \A i \in q + 1 .. aim : h[i].role = "tool" /\ h[i].n = i - q
        <4>1. m < aim
          BY <1>0, <1>1, <3>2, <3>5
        <4> HIDE DEF aim
        <4> QED
          BY <1>5, <3>4, <3>5, <4>1
      <3>7. q < aim
        BY <1>0, <1>1, <3>2, <3>5
      <3> HIDE DEF q
      <3>8. q <= cut
        <4>1. q \notin cut + 1 .. aim
          BY <3>3, <3>6
        <4> QED
          BY <1>0, <1>1, <3>3, <3>6, <3>7, <4>1
      <3>9. j \in q + 1 .. aim
        <4>1. j # q
          BY <1>6, <3>6
        <4> QED
          BY <1>0, <1>1, <1>6, <2>0, <3>2, <3>6, <3>8, <4>1
      <3>10. n = j - q
        BY <3>6, <3>9
      <3> QED
        BY <1>1, <2>0, <2>2, <3>6, <3>10
    <2> QED
      BY <1>0, <1>1, <2>0, <2>1, <2>2
  <1>7. cut - 1 \in 0 .. len
    BY <1>1, <1>2
  <1>8. Grouped(kept) /\ Complete(kept)
    BY <1>2, <1>3, <1>7, TailGrouped DEF len
  <1>9. ASSUME NEW i \in DOMAIN kept, kept[i].role = "tool" PROVE kept[i].n < i
    <2>1. Len(kept) = len - (cut - 1) /\ DOMAIN kept = 1 .. Len(kept)
      BY <1>2, <1>3, MessageN DEF TailOf, len
    <2>2. /\ kept[i] = h[i + (cut - 1)] /\ i + (cut - 1) \in DOMAIN h /\ i + (cut - 1) >= cut
          /\ i \in Nat /\ cut \in Nat
      <3>1. i \in 1 .. len - (cut - 1) /\ len \in Nat /\ cut \in 1 .. len + 1
        BY <1>1, <1>2, <2>1
      <3>2. kept[i] = h[i + (cut - 1)]
        BY <1>2, <3>1 DEF TailOf, len
      <3> QED
        BY <1>1, <3>1, <3>2
    <2>3. (i + (cut - 1)) - kept[i].n >= cut /\ kept[i].n \in Nat
      BY <1>1, <1>6, <1>9, <2>2
    <2> QED
      BY <2>2, <2>3
  <1>10. Paired(kept)
    BY <1>3, <1>8, <1>9, GroupedPaired
  <1> QED
    BY <1>10 DEF kept

\* A call and all its results may be added to paired messages.
LEMMA PairedGroup ==
    ASSUME NEW c \in Seq(Message), NEW call \in Message, NEW results \in Seq(Message), Paired(c),
           call.role = "function", Len(results) = call.n,
           \A k \in 1 .. call.n : ResultOf(results[k], call) /\ results[k].n = k
    PROVE  Paired(Append(c, call) \o results)
  <1> DEFINE s == Append(c, call)
             r == s \o results
             len == Len(c)
             m == call.n
  <1>1. /\ len \in Nat /\ DOMAIN c = 1 .. len /\ \A i \in DOMAIN c : c[i].n \in Nat
        /\ m \in Nat
    BY MessageN DEF Message
  <1>2. /\ s \in Seq(Message) /\ Len(s) = len + 1 /\ s[len + 1] = call
        /\ \A i \in 1 .. len : s[i] = c[i]
    OBVIOUS
  <1> HIDE DEF s, len
  <1>3. /\ r \in Seq(Message) /\ Len(r) = len + 1 + m
        /\ \A i \in 1 .. len + 1 : r[i] = s[i]
        /\ \A i \in len + 2 .. len + 1 + m : r[i] = results[i - (len + 1)]
    <2>1. /\ r \in Seq(Message) /\ Len(r) = Len(s) + Len(results)
          /\ \A i \in 1 .. Len(s) + Len(results) :
                r[i] = IF i <= Len(s) THEN s[i] ELSE results[i - Len(s)]
      BY <1>2, ConcatProperties
    <2> HIDE DEF r
    <2> QED
      BY <1>1, <1>2, <2>1
  <1>4. DOMAIN r = 1 .. len + 1 + m
    BY <1>1, <1>3
  <1> HIDE DEF r, m
  <1>5. /\ \A i \in 1 .. len : r[i] = c[i]
        /\ r[len + 1] = call
        /\ \A k \in 1 .. m : /\ (len + 1) + k \in DOMAIN r
                             /\ r[(len + 1) + k] = results[k]
    <2>1. \A i \in 1 .. len : r[i] = c[i]
      BY <1>1, <1>2, <1>3
    <2>2. r[len + 1] = call
      BY <1>1, <1>2, <1>3
    <2>3. ASSUME NEW k \in 1 .. m
          PROVE  (len + 1) + k \in DOMAIN r /\ r[(len + 1) + k] = results[k]
      <3>1. (len + 1) + k \in len + 2 .. len + 1 + m /\ ((len + 1) + k) - (len + 1) = k
        BY <1>1
      <3> QED
        BY <1>1, <1>3, <1>4, <3>1
    <2> QED
      BY <2>1, <2>2, <2>3
  <1>6. \A i \in DOMAIN r : i \in 1 .. len \/ i = len + 1 \/ (i - (len + 1)) \in 1 .. m
    BY <1>1, <1>4
  <1>7. ASSUME NEW i \in DOMAIN r, r[i].role = "function", NEW k \in 1 .. r[i].n
        PROVE  i + k \in DOMAIN r /\ ResultOf(r[i + k], r[i]) /\ r[i + k].n = k
    <2>1. CASE i \in 1 .. len
      <3>1. r[i] = c[i] /\ i + k \in 1 .. len /\ ResultOf(c[i + k], c[i]) /\ c[i + k].n = k
        BY <1>1, <1>5, <1>7, <2>1 DEF Paired
      <3>2. i + k \in DOMAIN r
        BY <1>1, <1>4, <3>1
      <3> QED
        BY <1>5, <3>1, <3>2
    <2>2. CASE i = len + 1
      <3>1. r[i] = call /\ k \in 1 .. m
        BY <1>5, <2>2 DEF m
      <3> QED
        BY <1>5, <2>2, <3>1 DEF m
    <2>3. CASE i - (len + 1) \in 1 .. m
      <3>1. r[(len + 1) + (i - (len + 1))] = results[i - (len + 1)]
        BY <1>5, <2>3
      <3>2. (len + 1) + (i - (len + 1)) = i
        BY <1>1, <1>4
      <3>3. r[i].role = "tool"
        BY <2>3, <3>1, <3>2 DEF ResultOf, m
      <3> QED
        BY <1>7, <3>3
    <2> QED
      BY <1>6, <2>1, <2>2, <2>3
  <1>8. ASSUME NEW i \in DOMAIN r, r[i].role = "tool"
        PROVE  i - r[i].n \in DOMAIN r /\ ResultOf(r[i], r[i - r[i].n])
    <2>1. CASE i \in 1 .. len
      <3>1. r[i] = c[i] /\ i - c[i].n \in 1 .. len /\ ResultOf(c[i], c[i - c[i].n])
        BY <1>1, <1>5, <1>8, <2>1 DEF Paired
      <3>2. r[i - c[i].n] = c[i - c[i].n] /\ i - c[i].n \in DOMAIN r
        BY <1>1, <1>4, <1>5, <3>1
      <3> QED
        BY <3>1, <3>2
    <2>2. CASE i = len + 1
      BY <1>5, <1>8, <2>2
    <2>3. CASE i - (len + 1) \in 1 .. m
      <3> DEFINE k == i - (len + 1)
      <3>1. (len + 1) + k = i /\ i - k = len + 1 /\ k \in 1 .. m
        BY <1>1, <1>4, <2>3
      <3> HIDE DEF k
      <3>2. r[i] = results[k]
        BY <1>5, <3>1
      <3>3. ResultOf(results[k], call) /\ results[k].n = k
        BY <3>1 DEF m
      <3>4. len + 1 \in DOMAIN r
        BY <1>1, <1>4
      <3> QED
        BY <1>5, <3>1, <3>2, <3>3, <3>4
    <2> QED
      BY <1>6, <2>1, <2>2, <2>3
  <1>9. Paired(r)
    BY <1>7, <1>8 DEF Paired
  <1> QED
    BY <1>9 DEF r, s

\* The statements between saving a call and saving the last of its results.
Grouping == {"tools", "save_result"}

\* What a turn at statement "at" has in its messages c, and in the history h
\* while it is saving the results of its batch b, e of which it has saved.
PairedAt(t, h, at, it, c, b, e) ==
    /\ at \in {"idle", "save_human", "load"} => c = <<>>
    /\ at \in {"think", "chat", "flush", "save_call"} => Paired(c)
    /\ at \in {"idle", "save_human", "load", "think", "chat", "save_call"} => e = 0
    /\ at \in {"save_call"} \cup Grouping => Len(b) \in 1 .. MaxCalls /\ e < Len(b)
    /\ at \in Grouping =>
          LET call == Msg("function", t, it, Len(b))
          IN  /\ OpenAt(h, call, e)
              /\ \E older \in Seq(Message) : Paired(older) /\ c = Append(older, call)

PairInv ==
    /\ Grouped(history) /\ Headless(history)
    /\ \A t \in Turns : PairedAt(t, history, pc[t], iter[t], ctx[t], batch[t], emitted[t])
    /\ (\A t \in Turns : pc[t] \notin Grouping) => Complete(history)

LEMMA PairInvInit == Init => PairInv
  <1> SUFFICES ASSUME Init PROVE PairInv
    OBVIOUS
  <1>1. DOMAIN history = {}
    BY DEF Init
  <1>2. /\ \A t \in Turns : pc[t] = "idle" /\ ctx[t] = <<>> /\ emitted[t] = 0
    BY DEF Init
  <1> QED
    BY <1>1, <1>2 DEF PairInv, PairedAt, Grouping, Grouped, Behind, Followed, Sized, Headless, Complete

\* The other turns keep what they have, or are at statements that ask for little.
LEMMA PairStep ==
    ASSUME PairInv, NEW t \in Turns,
           \A u \in Turns \ {t} :
              /\ pc'[u] = pc[u] /\ iter'[u] = iter[u] /\ ctx'[u] = ctx[u]
              /\ batch'[u] = batch[u] /\ emitted'[u] = emitted[u]
              /\ history' = history \/ pc[u] \notin Grouping,
           Grouped(history'), Headless(history'),
           pc'[t] \notin Grouping => Complete(history') \/ (history' = history /\ pc[t] \notin Grouping),
           PairedAt(t, history', pc'[t], iter'[t], ctx'[t], batch'[t], emitted'[t])
    PROVE  PairInv'
  <1>1. ASSUME NEW u \in Turns
        PROVE  PairedAt(u, history', pc'[u], iter'[u], ctx'[u], batch'[u], emitted'[u])
    <2>1. CASE u = t
      BY <2>1
    <2>2. CASE u # t
      <3>1. PairedAt(u, history, pc[u], iter[u], ctx[u], batch[u], emitted[u])
        BY DEF PairInv
      <3> QED
        BY <2>2, <3>1 DEF PairedAt
    <2> QED
      BY <2>1, <2>2
  <1>2. ASSUME \A u \in Turns : pc'[u] \notin Grouping PROVE Complete(history')
    <2>1. CASE history' = history /\ pc[t] \notin Grouping
      <3>1. \A u \in Turns : pc[u] \notin Grouping
        BY <1>2, <2>1
      <3> QED
        BY <2>1, <3>1 DEF PairInv
    <2> QED
      BY <1>2, <2>1
  <1> QED
    BY <1>1, <1>2 DEF PairInv

\* The results of a whole batch, as they join the messages of the turn.
LEMMA BatchPaired ==
    ASSUME NEW t \in Turns, NEW it \in Nat, NEW n \in Nat, NEW D, D = 1 .. n,
           NEW older \in Seq(Message), Paired(older)
    PROVE  LET call == Msg("function", t, it, n)
               results == [k \in D |-> Msg("tool", t, it, k)]
           IN  Paired(Append(older, call) \o results)
  <1> DEFINE call == Msg("function", t, it, n)
             results == [k \in D |-> Msg("tool", t, it, k)]
  <1>1. /\ call \in Message /\ call.role = "function" /\ call.n = n
        /\ call.turn = t /\ call.iter = it
    BY MsgType DEF Msg, Roles
  <1>2. \A k \in D : /\ Msg("tool", t, it, k) \in Message
                     /\ Msg("tool", t, it, k).role = "tool" /\ Msg("tool", t, it, k).n = k
                     /\ Msg("tool", t, it, k).turn = t /\ Msg("tool", t, it, k).iter = it
    BY MsgType DEF Msg, Roles
  <1>3. results \in Seq(Message) /\ Len(results) = n
    BY <1>2
  <1>4. \A k \in 1 .. n : ResultOf(results[k], call) /\ results[k].n = k
    BY <1>1, <1>2 DEF ResultOf
  <1> HIDE DEF call, results
  <1>5. Paired(Append(older, call) \o results)
    BY <1>1, <1>3, <1>4, PairedGroup
  <1> QED
    BY <1>5 DEF call, results

LEMMA PairInvNext ==
    ASSUME Sequential, Disturbances \subseteq {"llm", "disabled", "load"}, CapsFit,
           BaseInv, AloneInv, PairInv, [Next]_vars
    PROVE  PairInv'
  <1> USE DEF BaseInv, TypeInv
  <1>0. /\ pc \in [Turns -> Steps] /\ iter \in [Turns -> 0 .. MaxIter]
        /\ ctx \in [Turns -> Seq(Message)] /\ history \in Seq(Message)
        /\ batch \in [Turns -> Seq({"queued", "running", "over"})] /\ emitted \in [Turns -> Nat]
        /\ MaxMessages \in Nat \ {0} /\ MaxContext \in Nat /\ MaxCalls \in Nat /\ MaxIter \in Nat
        /\ \A t \in Turns : ~CtxDone(t)
    BY EngineAssumption DEF TypeOK, AloneInv, CtxDone
  <1>1. Grouped(history) /\ Headless(history)
    BY DEF PairInv
  <1>2. ASSUME NEW t \in Turns, pc[t] \notin Outside, NEW u \in Turns \ {t}
        PROVE  pc[u] \notin Grouping
    BY <1>2, Alone DEF Outside, Grouping
  <1>3. ASSUME NEW t \in Turns, pc[t] \notin Outside, pc[t] \notin Grouping PROVE Complete(history)
    BY <1>2, <1>3 DEF PairInv
  <1>4. ASSUME NEW t \in Turns
        PROVE  PairedAt(t, history, pc[t], iter[t], ctx[t], batch[t], emitted[t])
    BY DEF PairInv
  <1>5. ASSUME NEW t \in Turns, NEW role, NEW n, SaveMessage(t, role, n)
        PROVE  history' = AddMessage(history, Msg(role, t, iter[t], n), MaxMessages)
    BY <1>0, <1>5 DEF SaveMessage, Store, StoreFails
  <1>6. ASSUME NEW t \in Turns, Begin(t) \/ Refuse(t) PROVE PairInv'
    <2>1. pc[t] = "idle" /\ UNCHANGED <<history, iter, ctx, batch, emitted>>
      BY <1>6 DEF Begin, Refuse, StreamInv
    <2>2. \E step \in {"save_human", "closed"} : pc' = [pc EXCEPT ![t] = step]
      BY <1>6 DEF Begin, Refuse, Goto
    <2>3. PairedAt(t, history', pc'[t], iter'[t], ctx'[t], batch'[t], emitted'[t])
      BY <1>0, <1>4, <2>1, <2>2 DEF PairedAt, Grouping
    <2> QED
      BY <1>0, <1>1, <2>1, <2>2, <2>3, PairStep DEF Grouping
  <1>7. ASSUME NEW t \in Turns, SaveHuman(t) PROVE PairInv'
    <2> DEFINE m == Msg("human", t, iter[t], 0)
    <2>1. /\ pc[t] = "save_human" /\ pc' = [pc EXCEPT ![t] = "load"]
          /\ UNCHANGED <<iter, ctx, batch, emitted>>
          /\ history' = AddMessage(history, m, MaxMessages)
      BY <1>0, <1>7 DEF SaveHuman, Store, StoreFails, Goto
    <2>2. m \in Message /\ m.role = "human"
      BY <1>0, MsgType DEF Msg, Roles
    <2> HIDE DEF m
    <2>3. MayFollow(history, m)
      BY <1>3, <2>1, <2>2 DEF MayFollow, Outside, Grouping
    <2>4. Grouped(history') /\ Headless(history') /\ Complete(history')
      BY <1>0, <1>1, <2>1, <2>2, <2>3, AddGrouped
    <2>5. PairedAt(t, history', pc'[t], iter'[t], ctx'[t], batch'[t], emitted'[t])
      BY <1>0, <1>4, <2>1 DEF PairedAt, Grouping
    <2>6. \A u \in Turns \ {t} : pc[u] \notin Grouping
      BY <1>2, <2>1 DEF Outside
    <2> QED
      BY <1>0, <2>1, <2>4, <2>5, <2>6, PairStep
  <1>8. ASSUME NEW t \in Turns, SaveAnswer(t) PROVE PairInv'
    <2> DEFINE m == Msg("ai", t, iter[t], 0)
    <2>1. /\ pc[t] = "save_answer" /\ pc' = [pc EXCEPT ![t] = "finish"]
          /\ UNCHANGED <<iter, ctx, batch, emitted>>
          /\ history' = AddMessage(history, m, MaxMessages)
      BY <1>5, <1>8 DEF SaveAnswer, Goto
    <2>2. m \in Message /\ m.role = "ai"
      BY <1>0, MsgType DEF Msg, Roles
    <2> HIDE DEF m
    <2>3. MayFollow(history, m)
      BY <1>3, <2>1, <2>2 DEF MayFollow, Outside, Grouping
    <2>4. Grouped(history') /\ Headless(history') /\ Complete(history')
      BY <1>0, <1>1, <2>1, <2>2, <2>3, AddGrouped
    <2>5. PairedAt(t, history', pc'[t], iter'[t], ctx'[t], batch'[t], emitted'[t])
      BY <1>0, <2>1 DEF PairedAt, Grouping
    <2>6. \A u \in Turns \ {t} : pc[u] \notin Grouping
      BY <1>2, <2>1 DEF Outside
    <2> QED
      BY <1>0, <2>1, <2>4, <2>5, <2>6, PairStep
  <1>9. ASSUME NEW t \in Turns, LoadHistory(t) PROVE PairInv'
    <2> DEFINE kept == TrimHistory(history, MaxContext)
    <2>1. /\ pc[t] = "load" /\ pc' = [pc EXCEPT ![t] = "think"]
          /\ UNCHANGED <<history, iter, batch, emitted>>
          /\ ctx' = [ctx EXCEPT ![t] = kept] \/ ctx' = ctx
      BY <1>9 DEF LoadHistory, Goto
    <2>2. Paired(kept)
      <3>1. Complete(history)
        BY <1>3, <2>1 DEF Outside, Grouping
      <3> QED
        BY <1>0, <1>1, <3>1, TrimPaired
    <2>3. ctx[t] = <<>> /\ emitted[t] = 0
      BY <1>4, <2>1 DEF PairedAt
    <2>4. Paired(<<>>)
      BY DEF Paired
    <2> HIDE DEF kept
    <2>5. Paired(ctx'[t])
      BY <1>0, <2>1, <2>2, <2>3, <2>4
    <2>6. PairedAt(t, history', pc'[t], iter'[t], ctx'[t], batch'[t], emitted'[t])
      BY <1>0, <2>1, <2>3, <2>5 DEF PairedAt, Grouping
    <2> QED
      BY <1>0, <1>1, <2>1, <2>6, PairStep DEF Grouping
  <1>10. ASSUME NEW t \in Turns, CallTools(t) PROVE PairInv'
    <2>1. PICK n \in 1 .. MaxCalls : batch' = [batch EXCEPT ![t] = [i \in 1 .. n |-> "queued"]]
      BY <1>10 DEF CallTools
    <2>2. /\ pc[t] = "chat" /\ pc' = [pc EXCEPT ![t] = "save_call"]
          /\ UNCHANGED <<history, iter, ctx, emitted>>
      BY <1>10 DEF CallTools, Goto
    <2>3. batch'[t] = [i \in 1 .. n |-> "queued"] /\ n \in Nat \ {0}
      BY <1>0, <2>1
    <2>4. Len(batch'[t]) = n
      BY <2>3
    <2>5. Paired(ctx[t]) /\ emitted[t] = 0
      BY <1>4, <2>2 DEF PairedAt
    <2>6. PairedAt(t, history', pc'[t], iter'[t], ctx'[t], batch'[t], emitted'[t])
      BY <1>0, <2>2, <2>3, <2>4, <2>5 DEF PairedAt, Grouping
    <2> QED
      BY <1>0, <1>1, <2>1, <2>2, <2>6, PairStep DEF Grouping
  <1>11. ASSUME NEW t \in Turns, SaveCall(t) PROVE PairInv'
    <2> DEFINE m == Msg("function", t, iter[t], Len(batch[t]))
    <2>1. /\ pc[t] = "save_call" /\ pc' = [pc EXCEPT ![t] = "tools"]
          /\ UNCHANGED <<iter, batch, emitted>>
          /\ ctx' = [ctx EXCEPT ![t] = Append(@, m)]
          /\ history' = AddMessage(history, m, MaxMessages)
      BY <1>5, <1>11 DEF SaveCall, Goto
    <2>2. Paired(ctx[t]) /\ emitted[t] = 0 /\ Len(batch[t]) \in 1 .. MaxCalls
      BY <1>4, <2>1 DEF PairedAt
    <2>3. m \in Message /\ m.role = "function" /\ m.n = Len(batch[t])
      BY <1>0, <2>2, MsgType DEF Msg, Roles
    <2>4. MayFollow(history, m)
      BY <1>3, <2>1, <2>2, <2>3 DEF MayFollow, Outside, Grouping
    <2> HIDE DEF m
    <2>5. Grouped(history') /\ Headless(history') /\ OpenAt(history', m, 0)
      BY <1>0, <1>1, <2>1, <2>3, <2>4, AddGrouped
    <2>6. ctx'[t] = Append(ctx[t], m) /\ ctx[t] \in Seq(Message)
      BY <1>0, <2>1
    <2>7. PairedAt(t, history', pc'[t], iter'[t], ctx'[t], batch'[t], emitted'[t])
      BY <1>0, <2>1, <2>2, <2>5, <2>6 DEF PairedAt, Grouping, m
    <2>8. \A u \in Turns \ {t} : pc[u] \notin Grouping
      BY <1>2, <2>1 DEF Outside
    <2> QED
      BY <1>0, <2>1, <2>5, <2>7, <2>8, PairStep DEF Grouping
  <1>12. ASSUME NEW t \in Turns, StartTool(t) \/ FinishTool(t) \/ EmitResult(t) PROVE PairInv'
    <2>1. /\ pc[t] = "tools" /\ UNCHANGED <<history, iter, ctx, emitted>>
          /\ pc' = pc \/ pc' = [pc EXCEPT ![t] = "save_result"]
      BY <1>12 DEF StartTool, FinishTool, EmitResult, Goto
    <2>2. batch' = batch \/ \E i \in DOMAIN batch[t], status \in {"running", "over"} :
                               batch' = [batch EXCEPT ![t][i] = status]
      BY <1>12 DEF StartTool, FinishTool, EmitResult, Calls
    <2>3. /\ \A u \in Turns \ {t} : batch'[u] = batch[u]
          /\ Len(batch'[t]) = Len(batch[t])
      <3>1. CASE batch' = batch
        BY <3>1
      <3>2. ASSUME NEW i \in DOMAIN batch[t], NEW status \in {"running", "over"},
                   batch' = [batch EXCEPT ![t][i] = status]
            PROVE  /\ \A u \in Turns \ {t} : batch'[u] = batch[u]
                   /\ Len(batch'[t]) = Len(batch[t])
        <4>1. batch'[t] = [batch[t] EXCEPT ![i] = status]
          BY <1>0, <3>2
        <4>2. batch[t] \in Seq({"queued", "running", "over"})
          BY <1>0
        <4> QED
          BY <1>0, <3>2, <4>1, <4>2
      <3> QED
        BY <2>2, <3>1, <3>2
    <2>4. PairedAt(t, history', pc'[t], iter'[t], ctx'[t], batch'[t], emitted'[t])
      BY <1>0, <1>4, <2>1, <2>3 DEF PairedAt, Grouping
    <2>5. pc'[t] \in Grouping /\ \A u \in Turns \ {t} : pc'[u] = pc[u]
      BY <1>0, <2>1 DEF Grouping
    <2> QED
      BY <1>1, <2>1, <2>3, <2>4, <2>5, PairStep
  <1>13. ASSUME NEW t \in Turns, SaveResult(t) PROVE PairInv'
    <2> DEFINE n == Len(batch[t])
               e == emitted[t] + 1
               call == Msg("function", t, iter[t], n)
               m == Msg("tool", t, iter[t], e)
    <2>1. pc[t] = "save_result" /\ history' = AddMessage(history, m, MaxMessages)
      BY <1>5, <1>13 DEF SaveResult, NextResult
    <2>2. /\ n \in 1 .. MaxCalls /\ e \in 1 .. n /\ e - 1 = emitted[t]
          /\ OpenAt(history, call, e - 1)
          /\ \E older \in Seq(Message) : Paired(older) /\ ctx[t] = Append(older, call)
      <3>1. /\ n \in 1 .. MaxCalls /\ emitted[t] < n
            /\ OpenAt(history, call, emitted[t])
            /\ \E older \in Seq(Message) : Paired(older) /\ ctx[t] = Append(older, call)
        BY <1>4, <2>1 DEF PairedAt, Grouping
      <3>2. e - 1 = emitted[t] /\ emitted[t] \in Nat
        BY <1>0
      <3>3. e \in 1 .. n
        BY <1>0, <3>1, <3>2
      <3> HIDE DEF call, n, e
      <3> QED
        BY <3>1, <3>2, <3>3
    <2>3. /\ m \in Message /\ m.role = "tool" /\ m.n = e
          /\ call \in Message /\ ResultOf(m, call) /\ call.n = n
      BY <1>0, <2>2, MsgType DEF Msg, Roles, ResultOf
    <2>4. MayFollow(history, m)
      BY <1>0, <2>2, <2>3 DEF MayFollow
    <2>5. \A u \in Turns \ {t} : pc[u] \notin Grouping
      BY <1>2, <2>1 DEF Outside
    <2>6. Grouped(history') /\ Headless(history') /\ OpenAt(history', call, e)
      BY <1>0, <1>1, <2>1, <2>2, <2>3, <2>4, AddGrouped
    <2>7. history' \in Seq(Message)
      BY <1>0, <2>1, <2>3, AddMessageCut
    <2>8. CASE e = n
      <3>1. /\ ctx' = [ctx EXCEPT ![t] = @ \o [k \in DOMAIN batch[t] |-> Msg("tool", t, iter[t], k)]]
            /\ iter' = [iter EXCEPT ![t] = @ + 1]
            /\ batch' = [batch EXCEPT ![t] = <<>>]
            /\ emitted' = [emitted EXCEPT ![t] = 0]
            /\ pc' = [pc EXCEPT ![t] = "think"]
        BY <1>13, <2>8 DEF SaveResult, Goto
      <3>2. Complete(history')
        <4>1. /\ Len(history') \in Nat /\ DOMAIN history' = 1 .. Len(history')
              /\ \A i \in DOMAIN history' : history'[i].n \in Nat
          BY <2>7, MessageN
        <4> HIDE DEF call, n, e
        <4>2. ASSUME NEW i \in DOMAIN history', history'[i].role = "function"
              PROVE  i + history'[i].n <= Len(history')
          <5>1. CASE i = Len(history') - e
            BY <2>2, <2>3, <2>6, <2>8, <4>1, <5>1 DEF OpenAt
          <5>2. CASE i # Len(history') - e
            BY <2>6, <4>2, <5>2 DEF OpenAt
          <5> QED
            BY <5>1, <5>2
        <4> QED
          BY <4>2 DEF Complete
      <3>3. Paired(ctx'[t])
        <4>1. PICK older \in Seq(Message) : Paired(older) /\ ctx[t] = Append(older, call)
          BY <2>2
        <4>2. DOMAIN batch[t] = 1 .. n /\ n \in Nat /\ iter[t] \in Nat
          BY <1>0, <2>2
        <4>3. Paired(Append(older, call) \o [k \in DOMAIN batch[t] |-> Msg("tool", t, iter[t], k)])
          BY <4>1, <4>2, BatchPaired
        <4> QED
          BY <1>0, <3>1, <4>1, <4>3
      <3>4. pc'[t] = "think" /\ emitted'[t] = 0
        BY <1>0, <3>1
      <3>5. PairedAt(t, history', pc'[t], iter'[t], ctx'[t], batch'[t], emitted'[t])
        BY <3>3, <3>4 DEF PairedAt, Grouping
      <3>6. \A u \in Turns \ {t} : /\ pc'[u] = pc[u] /\ iter'[u] = iter[u] /\ ctx'[u] = ctx[u]
                                   /\ batch'[u] = batch[u] /\ emitted'[u] = emitted[u]
        BY <1>0, <3>1
      <3> QED
        BY <2>5, <2>6, <3>2, <3>5, <3>6, PairStep
    <2>9. CASE e # n
      <3>1. /\ UNCHANGED <<ctx, iter, batch>>
            /\ emitted' = [emitted EXCEPT ![t] = @ + 1]
            /\ pc' = [pc EXCEPT ![t] = "tools"]
        BY <1>13, <2>9 DEF SaveResult, Goto
      <3>2. pc'[t] = "tools" /\ emitted'[t] = e /\ e < n
        BY <1>0, <2>2, <2>9, <3>1
      <3>3. PairedAt(t, history', pc'[t], iter'[t], ctx'[t], batch'[t], emitted'[t])
        BY <2>2, <2>6, <3>1, <3>2 DEF PairedAt, Grouping
      <3>4. \A u \in Turns \ {t} : pc'[u] = pc[u] /\ emitted'[u] = emitted[u]
        BY <1>0, <3>1
      <3> QED
        BY <2>5, <2>6, <3>1, <3>2, <3>3, <3>4, PairStep DEF Grouping
    <2> QED
      BY <2>8, <2>9
  <1>14. ASSUME NEW t \in Turns,
                \/ Think(t) \/ Flush(t) \/ Chunk(t) \/ Answer(t) \/ ChatFails(t)
                \/ Finish(t) \/ Fail(t)
         PROVE  PairInv'
    <2>1. UNCHANGED <<history, iter, ctx, batch, emitted>> /\ pc[t] \notin Grouping
      BY <1>14 DEF Think, Flush, Chunk, Answer, ChatFails, Finish, Fail, Grouping
    <2>2. \/ pc' = pc
          \/ pc[t] = "think" /\ pc' = [pc EXCEPT ![t] = "chat"]
          \/ pc[t] = "chat" /\ pc' = [pc EXCEPT ![t] = "flush"]
          \/ \E step \in {"save_answer", "finish", "fail", "closing"} : pc' = [pc EXCEPT ![t] = step]
      BY <1>14 DEF Think, Flush, Chunk, Answer, ChatFails, Finish, Fail, Goto
    <2>3. PairedAt(t, history', pc'[t], iter'[t], ctx'[t], batch'[t], emitted'[t])
      BY <1>0, <1>4, <2>1, <2>2 DEF PairedAt, Grouping
    <2> QED
      BY <1>0, <1>1, <2>1, <2>2, <2>3, PairStep
  <1>15. ASSUME NEW t \in Turns, Close(t) PROVE PairInv'
    <2>1. /\ UNCHANGED <<history, iter>> /\ pc[t] = "closing" /\ pc' = [pc EXCEPT ![t] = "closed"]
          /\ ctx' = [ctx EXCEPT ![t] = <<>>]
          /\ batch' = [batch EXCEPT ![t] = <<>>] /\ emitted' = [emitted EXCEPT ![t] = 0]
      BY <1>15 DEF Close, Goto
    <2>2. PairedAt(t, history', pc'[t], iter'[t], ctx'[t], batch'[t], emitted'[t])
      BY <1>0, <2>1 DEF PairedAt, Grouping
    <2> QED
      BY <1>0, <1>1, <2>1, <2>2, PairStep DEF Grouping
  <1>16. ASSUME UNCHANGED <<history, pc, iter, ctx, batch, emitted>> PROVE PairInv'
    BY <1>16 DEF PairInv, Grouped, Behind, Followed, Sized, Headless, Complete
  <1>17. ASSUME NEW t \in Turns, Deliver(t) PROVE PairInv'
    BY <1>16, <1>17 DEF Deliver, turnVars
  <1>18. CASE UNCHANGED vars
    BY <1>16, <1>18 DEF vars, turnVars
  <1>19. ASSUME NEW t \in Turns, Panic(t) \/ Cancel(t) PROVE FALSE
    BY <1>19 DEF Panic, Cancel
  <1>20. ASSUME DeleteSession \/ Crash PROVE FALSE
    BY <1>20 DEF DeleteSession, Crash
  <1> QED
    BY <1>6, <1>7, <1>8, <1>9, <1>10, <1>11, <1>12, <1>13, <1>14, <1>15, <1>17, <1>18, <1>19, <1>20
       DEF Next, Process, Work, Reply

\* For a client that waits for its answers and a process whose store keeps what
\* it is given, while no session is deleted: every request to the LLM pairs its
\* calls and results, whatever replies fail and histories cannot be read, for
\* every length of the session and every store cap that leaves room for the
\* context and one batch of calls.
THEOREM EngineContextPaired ==
    ASSUME Sequential, Disturbances \subseteq {"llm", "disabled", "load"}, CapsFit
    PROVE  Spec => []ContextPaired
  <1>1. BaseInv /\ AloneInv /\ PairInv /\ [Next]_vars => PairInv'
    BY PairInvNext
  <1>2. Spec => []AloneInv
    BY SequentialAlone
  <1>3. Spec => []PairInv
    BY <1>1, <1>2, PairInvInit, Base, PTL DEF Spec
  <1>4. PairInv => ContextPaired
    BY DEF PairInv, PairedAt, ContextPaired
  <1> QED
    BY <1>3, <1>4, PTL
=============================================================================
