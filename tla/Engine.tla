------------------------------- MODULE Engine -------------------------------
(***************************************************************************)
(* Chat turns of one session.  Each turn is two goroutines and a channel:  *)
(*                                                                         *)
(*   Engine.ProcessStream   runs the ReAct loop, reads and writes the      *)
(*                          session's messages and sends stream events;    *)
(*   StreamHandler.Handle   receives the events and writes them as SSE.    *)
(*                                                                         *)
(* Nothing serialises two turns of the same session except the client,     *)
(* which may or may not wait for one answer before it asks again.          *)
(*                                                                         *)
(*   history  the session's messages in the store, oldest first            *)
(*   pc       the next statement of a turn's ProcessStream goroutine       *)
(*   iter     its loop variable; MaxIter in the call after the loop        *)
(*   streamed its local of that name: the reply has produced a chunk       *)
(*   ctx      its local "messages", without the system prompt              *)
(*   batch    the tool calls of the current reply and how far each one is  *)
(*   emitted  how many of their results have been sent and saved           *)
(*   chan     the buffered channel between the two goroutines              *)
(*   handler  what the turn's HTTP handler is doing                        *)
(*   seen     the SSE events the handler wrote to the client               *)
(*   cancelled  the client has left and the request's context is done      *)
(***************************************************************************)
EXTENDS Transcript, FiniteSets

CONSTANTS
    Overlap,        \* TRUE: the client may ask again while an answer streams
    Disturbances,   \* what may go wrong: see Disturbance
    Parallel,       \* parallelToolCalls, of the engine or of the agent
    MaxParallel,    \* maxParallelTools
    MaxIter,        \* MaxIterations: replies that may call tools
    MaxCalls,       \* the most tool calls one LLM reply makes
    MaxMessages,    \* memory.max_messages, the store's cap
    MaxContext,     \* memory.max_context_messages, trimHistory's cap
    ChanCap,        \* capacity of the event channel
    StoreUsesCtx    \* the store gives up when the request's context is done
                    \* (MySQL, Redis); the in-memory store never looks at it

Disturbance == {"save", "load", "llm", "panic", "crash", "delete", "disabled",
                "cancel"}

ASSUME EngineAssumption ==
    /\ Overlap \in BOOLEAN /\ Parallel \in BOOLEAN /\ StoreUsesCtx \in BOOLEAN
    /\ Disturbances \subseteq Disturbance
    /\ MaxIter \in Nat /\ MaxCalls \in Nat /\ MaxContext \in Nat
    /\ MaxParallel \in Nat \ {0} /\ MaxMessages \in Nat \ {0}
    /\ ChanCap \in Nat \ {0}

VARIABLES history, pc, iter, streamed, ctx, batch, emitted, chan, handler, seen,
          cancelled

turnVars == <<pc, iter, streamed, ctx, batch, emitted>>
clientVars == <<handler, seen, cancelled>>
vars == <<history, turnVars, chan, clientVars>>

Steps == {"idle", "save_human", "load", "think", "chat", "flush", "save_call",
          "tools", "save_result", "save_answer", "finish", "fail", "closing",
          "closed"}
Terminal == {"done", "error"}
Event == {"session", "thinking", "chunk", "tool_call"} \cup Terminal

Init ==
    /\ history = <<>>
    /\ pc = [t \in Turns |-> "idle"]
    /\ iter = [t \in Turns |-> 0]
    /\ streamed = [t \in Turns |-> FALSE]
    /\ ctx = [t \in Turns |-> <<>>]
    /\ batch = [t \in Turns |-> <<>>]
    /\ emitted = [t \in Turns |-> 0]
    /\ chan = [t \in Turns |-> <<>>]
    /\ handler = [t \in Turns |-> "idle"]
    /\ seen = [t \in Turns |-> <<>>]
    /\ cancelled = [t \in Turns |-> FALSE]

-----------------------------------------------------------------------------
Goto(t, step) == pc' = [pc EXCEPT ![t] = step]

\* ch <- event: blocks while the buffer is full.
Emit(t, event) ==
    /\ Len(chan[t]) < ChanCap
    /\ chan' = [chan EXCEPT ![t] = Append(@, event)]

\* What a store call does once the request's context is done.
CtxDone(t) == cancelled[t] /\ StoreUsesCtx

\* e.mem.AddMessage.
Store(t, role, n) ==
    /\ ~CtxDone(t)
    /\ history' = AddMessage(history, Msg(role, t, iter[t], n), MaxMessages)

StoreFails(t) ==
    /\ "save" \in Disturbances \/ CtxDone(t)
    /\ UNCHANGED history

\* saveMessage: a failure is logged and the turn goes on.
SaveMessage(t, role, n) == Store(t, role, n) \/ StoreFails(t)

Streaming(t) == handler[t] = "reading"

\* A client asks when it wants, or when no answer of its own is under way.
MayAsk == Overlap \/ \A u \in Turns : Streaming(u) => cancelled[u]

(***************************************************************************)
(* The HTTP handler.                                                       *)
(***************************************************************************)
Begin(t) ==
    /\ handler[t] = "idle"
    /\ MayAsk
    /\ handler' = [handler EXCEPT ![t] = "reading"]
    /\ seen' = [seen EXCEPT ![t] = <<"session">>]
    /\ Goto(t, "save_human")
    /\ UNCHANGED <<history, iter, streamed, ctx, batch, emitted, chan, cancelled>>

\* resolveAgentConfig refuses a disabled agent before any goroutine starts.
Refuse(t) ==
    /\ "disabled" \in Disturbances
    /\ handler[t] = "idle"
    /\ MayAsk
    /\ handler' = [handler EXCEPT ![t] = "returned"]
    /\ seen' = [seen EXCEPT ![t] = <<"error">>]
    /\ Goto(t, "closed")
    /\ UNCHANGED <<history, iter, streamed, ctx, batch, emitted, chan, cancelled>>

\* Mutant of Deliver: stop reading when the client is gone.
DeliverWhileConnected(t) ==
    /\ Streaming(t) /\ ~cancelled[t]
    /\ chan[t] # <<>>
    /\ chan' = [chan EXCEPT ![t] = Tail(@)]
    /\ seen' = [seen EXCEPT ![t] = Append(@, Head(chan[t]))]
    /\ handler' = [handler EXCEPT ![t] =
                      IF Head(chan[t]) \in Terminal THEN "returned" ELSE @]
    /\ UNCHANGED <<history, turnVars, cancelled>>

\* One turn of "for evt := range ch": it returns at a terminal event.  That the
\* loop ends because the channel is closed never happens: see NoSilentEnd.
Deliver(t) ==
    /\ Streaming(t)
    /\ chan[t] # <<>>
    /\ chan' = [chan EXCEPT ![t] = Tail(@)]
    /\ seen' = [seen EXCEPT ![t] = Append(@, Head(chan[t]))]
    /\ handler' = [handler EXCEPT ![t] =
                      IF Head(chan[t]) \in Terminal THEN "returned" ELSE @]
    /\ UNCHANGED <<history, turnVars, cancelled>>

(***************************************************************************)
(* ProcessStream up to the loop.                                           *)
(***************************************************************************)
SaveHuman(t) ==
    /\ pc[t] = "save_human"
    /\ \/ Store(t, "human", 0) /\ Goto(t, "load")
       \/ StoreFails(t) /\ Goto(t, "fail")
    /\ UNCHANGED <<iter, streamed, ctx, batch, emitted, chan, clientVars>>

\* A failed or empty History leaves the turn with no messages at all.
LoadHistory(t) ==
    /\ pc[t] = "load"
    /\ \/ /\ ~CtxDone(t)
          /\ ctx' = [ctx EXCEPT ![t] = TrimHistory(history, MaxContext)]
       \/ /\ "load" \in Disturbances \/ CtxDone(t)
          /\ UNCHANGED ctx
    /\ Goto(t, "think")
    /\ UNCHANGED <<history, iter, streamed, batch, emitted, chan, clientVars>>

(***************************************************************************)
(* One iteration, and the tool-less call after the last one.               *)
(***************************************************************************)
Think(t) ==
    /\ pc[t] = "think"
    /\ Emit(t, "thinking")
    /\ streamed' = [streamed EXCEPT ![t] = FALSE]
    /\ Goto(t, "chat")
    /\ UNCHANGED <<history, iter, ctx, batch, emitted, clientVars>>

\* The onChunk callback.  Bound: one chunk stands for every chunk of a reply.
Chunk(t) ==
    /\ pc[t] = "chat" /\ ~streamed[t] /\ ~cancelled[t]
    /\ Emit(t, "chunk")
    /\ streamed' = [streamed EXCEPT ![t] = TRUE]
    /\ UNCHANGED <<history, pc, iter, ctx, batch, emitted, clientVars>>

\* Mutant of Answer: a reply that was streamed is not saved.
AnswerUnsaved(t) ==
    /\ pc[t] = "chat" /\ ~cancelled[t]
    /\ (streamed[t] /\ Goto(t, "finish")) \/ (~streamed[t] /\ Goto(t, "flush"))
    /\ UNCHANGED <<history, iter, streamed, ctx, batch, emitted, chan, clientVars>>

\* ChatStream returns no tool calls, or is the call after the loop, whose
\* tool calls are not looked at.  Content that was not streamed is sent now.
Answer(t) ==
    /\ pc[t] = "chat" /\ ~cancelled[t]
    /\ Goto(t, "save_answer") \/ (~streamed[t] /\ Goto(t, "flush"))
    /\ UNCHANGED <<history, iter, streamed, ctx, batch, emitted, chan, clientVars>>

Flush(t) ==
    /\ pc[t] = "flush"
    /\ Emit(t, "chunk")
    /\ Goto(t, "save_answer")
    /\ UNCHANGED <<history, iter, streamed, ctx, batch, emitted, clientVars>>

\* Mutant of CallTools: the tools of the reply after the loop are run too.
CallToolsUnbounded(t) ==
    /\ pc[t] = "chat" /\ ~cancelled[t]
    /\ \E n \in 1 .. MaxCalls :
          batch' = [batch EXCEPT ![t] = [i \in 1 .. n |-> "queued"]]
    /\ Goto(t, "save_call")
    /\ UNCHANGED <<history, iter, streamed, ctx, emitted, chan, clientVars>>

\* ChatStream returns tool calls, within the loop.
CallTools(t) ==
    /\ pc[t] = "chat" /\ ~cancelled[t]
    /\ iter[t] < MaxIter
    /\ \E n \in 1 .. MaxCalls :
          batch' = [batch EXCEPT ![t] = [i \in 1 .. n |-> "queued"]]
    /\ Goto(t, "save_call")
    /\ UNCHANGED <<history, iter, streamed, ctx, emitted, chan, clientVars>>

\* The LLM call fails, as it does when the client leaves before it returns.
ChatFails(t) ==
    /\ "llm" \in Disturbances \/ cancelled[t]
    /\ pc[t] = "chat"
    /\ Goto(t, "fail")
    /\ UNCHANGED <<history, iter, streamed, ctx, batch, emitted, chan, clientVars>>

SaveCall(t) ==
    /\ pc[t] = "save_call"
    /\ SaveMessage(t, "function", Len(batch[t]))
    /\ ctx' = [ctx EXCEPT ![t] =
                  Append(@, Msg("function", t, iter[t], Len(batch[t])))]
    /\ Goto(t, "tools")
    /\ UNCHANGED <<iter, streamed, batch, emitted, chan, clientVars>>

(***************************************************************************)
(* Tool execution: executeToolsConcurrently runs the whole batch in a pool *)
(* and then sends and saves the results in call order; otherwise each call *)
(* is run, sent and saved before the next one starts.                      *)
(***************************************************************************)
Concurrently(t) == Parallel /\ Len(batch[t]) > 1

Calls(t, status) == {i \in DOMAIN batch[t] : batch[t][i] = status}

\* g.Go starts the calls in order and blocks while the pool is full.
StartTool(t) ==
    /\ pc[t] = "tools"
    /\ \E i \in Calls(t, "queued") :
          /\ \A j \in 1 .. i - 1 : batch[t][j] # "queued"
          /\ IF Concurrently(t)
             THEN Cardinality(Calls(t, "running")) < MaxParallel
             ELSE i = emitted[t] + 1
          /\ batch' = [batch EXCEPT ![t][i] = "running"]
    /\ UNCHANGED <<history, pc, iter, streamed, ctx, emitted, chan, clientVars>>

\* executeToolWithTimeout returns: a result, an error, a timeout or a
\* recovered panic, each of which becomes the text of the tool's message.
FinishTool(t) ==
    /\ pc[t] = "tools"
    /\ \E i \in Calls(t, "running") : batch' = [batch EXCEPT ![t][i] = "over"]
    /\ UNCHANGED <<history, pc, iter, streamed, ctx, emitted, chan, clientVars>>

\* Mutant of NextResult: the last call's result goes first.
LastResult(t) == Len(batch[t]) - emitted[t]

\* The call whose result is sent and saved next: "for _, r := range results".
NextResult(t) == emitted[t] + 1

EmitResult(t) ==
    /\ pc[t] = "tools"
    /\ NextResult(t) \in Calls(t, "over")
    /\ Concurrently(t) => Calls(t, "over") = DOMAIN batch[t]
    /\ Emit(t, "tool_call")
    /\ Goto(t, "save_result")
    /\ UNCHANGED <<history, iter, streamed, ctx, batch, emitted, clientVars>>

\* The result is stored; after the last one the results join the messages
\* and the next iteration starts.
SaveResult(t) ==
    LET last == emitted[t] + 1 = Len(batch[t])
    IN  /\ pc[t] = "save_result"
        /\ SaveMessage(t, "tool", NextResult(t))
        /\ IF last
           THEN /\ ctx' = [ctx EXCEPT ![t] = @ \o
                      [k \in DOMAIN batch[t] |-> Msg("tool", t, iter[t], k)]]
                /\ iter' = [iter EXCEPT ![t] = @ + 1]
                /\ batch' = [batch EXCEPT ![t] = <<>>]
                /\ emitted' = [emitted EXCEPT ![t] = 0]
                /\ Goto(t, "think")
           ELSE /\ emitted' = [emitted EXCEPT ![t] = @ + 1]
                /\ Goto(t, "tools")
                /\ UNCHANGED <<ctx, iter, batch>>
        /\ UNCHANGED <<streamed, chan, clientVars>>

(***************************************************************************)
(* The end of a turn.                                                      *)
(***************************************************************************)
SaveAnswer(t) ==
    /\ pc[t] = "save_answer"
    /\ SaveMessage(t, "ai", 0)
    /\ Goto(t, "finish")
    /\ UNCHANGED <<iter, streamed, ctx, batch, emitted, chan, clientVars>>

Finish(t) ==
    /\ pc[t] = "finish"
    /\ Emit(t, "done")
    /\ Goto(t, "closing")
    /\ UNCHANGED <<history, iter, streamed, ctx, batch, emitted, clientVars>>

Fail(t) ==
    /\ pc[t] = "fail"
    /\ Emit(t, "error")
    /\ Goto(t, "closing")
    /\ UNCHANGED <<history, iter, streamed, ctx, batch, emitted, clientVars>>

\* Mutant of Panic: recover sends its error after the terminal event as well.
PanicAnywhere(t) ==
    /\ "panic" \in Disturbances
    /\ pc[t] \in Steps \ {"idle", "tools", "fail", "closed"}
    /\ Goto(t, "fail")
    /\ UNCHANGED <<history, iter, streamed, ctx, batch, emitted, chan, clientVars>>

\* The deferred recover, from any statement that is not yet a terminal send
\* (a tool's own panic is recovered in executeToolWithTimeout instead).
Panic(t) ==
    /\ "panic" \in Disturbances
    /\ pc[t] \in Steps \ {"idle", "tools", "fail", "closing", "closed"}
    /\ Goto(t, "fail")
    /\ UNCHANGED <<history, iter, streamed, ctx, batch, emitted, chan, clientVars>>

\* The deferred close(ch); the goroutine's locals are gone.
Close(t) ==
    /\ pc[t] = "closing"
    /\ Goto(t, "closed")
    /\ ctx' = [ctx EXCEPT ![t] = <<>>]
    /\ batch' = [batch EXCEPT ![t] = <<>>]
    /\ emitted' = [emitted EXCEPT ![t] = 0]
    /\ UNCHANGED <<history, iter, streamed, chan, clientVars>>

(***************************************************************************)
(* What happens around the turns.                                          *)
(***************************************************************************)
\* The client disconnects; the handler does not notice and goes on reading.
Cancel(t) ==
    /\ "cancel" \in Disturbances
    /\ Streaming(t) /\ ~cancelled[t]
    /\ cancelled' = [cancelled EXCEPT ![t] = TRUE]
    /\ UNCHANGED <<history, turnVars, chan, handler, seen>>

\* DELETE /sessions/:id does not look for turns in flight.
DeleteSession ==
    /\ "delete" \in Disturbances
    /\ history' = <<>>
    /\ UNCHANGED <<turnVars, chan, clientVars>>

\* The process dies with a persistent store: goroutines, channels and
\* connections are gone, the history is what had been stored.
Crash ==
    LET lost == {t \in Turns : pc[t] \notin {"idle", "closed"} \/ Streaming(t)}
    IN  /\ "crash" \in Disturbances
        /\ lost # {}
        /\ pc' = [t \in Turns |-> IF t \in lost THEN "closed" ELSE pc[t]]
        /\ ctx' = [t \in Turns |-> <<>>]
        /\ batch' = [t \in Turns |-> <<>>]
        /\ emitted' = [t \in Turns |-> 0]
        /\ chan' = [t \in Turns |-> <<>>]
        /\ handler' = [t \in Turns |-> IF Streaming(t) THEN "lost" ELSE handler[t]]
        /\ UNCHANGED <<history, iter, streamed, seen, cancelled>>

\* What the goroutine does without waiting for the LLM.  A tool ends at its
\* deadline and a cancelled call to the LLM returns an error.
Work(t) ==
    \/ SaveHuman(t) \/ LoadHistory(t) \/ Think(t) \/ Flush(t)
    \/ SaveCall(t) \/ StartTool(t) \/ FinishTool(t)
    \/ EmitResult(t) \/ SaveResult(t)
    \/ SaveAnswer(t) \/ Finish(t) \/ Fail(t) \/ Close(t)
    \/ (cancelled[t] /\ ChatFails(t))

\* What happens while the LLM is called.
Reply(t) == Chunk(t) \/ Answer(t) \/ CallTools(t) \/ (~cancelled[t] /\ ChatFails(t))

Process(t) == Work(t) \/ Reply(t) \/ Panic(t)

Next ==
    \/ \E t \in Turns :
          Begin(t) \/ Refuse(t) \/ Cancel(t) \/ Process(t) \/ Deliver(t)
    \/ DeleteSession
    \/ Crash

Spec == Init /\ [][Next]_vars

\* Both goroutines of a turn run whenever they can.  Nothing makes the LLM
\* answer (a call has no deadline of its own), nor a client ask or leave.
Fairness == \A t \in Turns : WF_vars(Work(t)) /\ WF_vars(Deliver(t))

FairSpec == Spec /\ Fairness
-----------------------------------------------------------------------------
TypeOK ==
    /\ history \in Seq(Message)
    /\ pc \in [Turns -> Steps]
    /\ iter \in [Turns -> 0 .. MaxIter]
    /\ streamed \in [Turns -> BOOLEAN]
    /\ ctx \in [Turns -> Seq(Message)]
    /\ batch \in [Turns -> Seq({"queued", "running", "over"})]
    /\ emitted \in [Turns -> Nat]
    /\ chan \in [Turns -> Seq(Event)]
    /\ handler \in [Turns -> {"idle", "reading", "returned", "lost"}]
    /\ seen \in [Turns -> Seq(Event)]
    /\ cancelled \in [Turns -> BOOLEAN]

(***************************************************************************)
(* The stream of every turn is one EventStream promises, however turns     *)
(* overlap and whatever fails: a terminal event ends it and nothing        *)
(* follows, rounds are bounded by MaxIter + 1, the last one runs no tools. *)
(***************************************************************************)
Promise == INSTANCE EventStream WITH
    Requests <- Turns,
    MaxRounds <- MaxIter + 1,
    last <- [t \in Turns |-> IF seen[t] = <<>> THEN "none" ELSE seen[t][Len(seen[t])]],
    rounds <- [t \in Turns |-> Cardinality({i \in DOMAIN seen[t] : seen[t][i] = "thinking"})]

KeepsPromise == Promise!Spec

\* A handler returns only after it has sent its client a terminal event: it
\* never finds the channel closed with the answer or the error missing, and a
\* closed channel holds nothing the handler will not read.
NoSilentEnd ==
    \A t \in Turns :
        /\ handler[t] = "returned" =>
              /\ seen[t] # <<>> /\ seen[t][Len(seen[t])] \in Terminal
              /\ chan[t] = <<>>
        /\ pc[t] = "closed" /\ handler[t] = "reading" => chan[t] # <<>>

\* What one turn has in the history is in the order it was written, results
\* in call order, although tools finish in any order, other turns write in
\* between, saves fail and the store drops old messages.
TurnOrder ==
    \A j \in DOMAIN history : \A i \in 1 .. j - 1 :
        history[i].turn = history[j].turn => WrittenBefore(history[i], history[j])

\* Every request to the LLM is one the API accepts: calls and results paired.
\* This is what saving results in call order, backing up in trimHistory and
\* a store cap well above the context cap are there for.
ContextPaired == \A t \in Turns : pc[t] = "chat" => Paired(ctx[t])

\* The LLM is never asked without the question it is to answer.
QuestionAsked ==
    \A t \in Turns : pc[t] = "chat" =>
        Msg("human", t, 0, 0) \in {ctx[t][i] : i \in DOMAIN ctx[t]}

\* An answer the client was told is "done" is remembered: a later turn that
\* is shown the question is shown the answer after it.
DoneMeansRemembered ==
    \A t \in Turns : pc[t] = "chat" =>
        \A i \in DOMAIN ctx[t] : LET u == ctx[t][i].turn IN
            /\ ctx[t][i].role = "human"
            /\ \E k \in DOMAIN seen[u] : seen[u][k] = "done"
            => \E j \in i + 1 .. Len(ctx[t]) : ctx[t][j].role = "ai" /\ ctx[t][j].turn = u

\* An LLM that owes a connected client its reply: the one thing outside the
\* program that a turn waits for.
AwaitsLLM(t) == pc[t] = "chat" /\ ~cancelled[t]

Ended(t) == pc[t] = "closed" /\ ~Streaming(t)

\* A turn never stops anywhere else: neither goroutine is left blocked on the
\* bounded channel, whatever fails and however early the client leaves, and
\* both end, so a client that leaves frees the turn.
NeverStuck ==
    \A t \in Turns : []<>(handler[t] = "idle" \/ AwaitsLLM(t) \/ Ended(t))
=============================================================================
