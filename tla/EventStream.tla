---------------------------- MODULE EventStream ----------------------------
(***************************************************************************)
(* What the client of a chat request may rely on: the order of the SSE     *)
(* events of one request, whatever happens on the server.                  *)
(*                                                                         *)
(* A stream opens with "session" and goes through at most MaxRounds rounds *)
(* of "thinking", then text, then the results of the tools the reply       *)
(* called; the last round calls no tools.  "done" closes a stream after    *)
(* the reply of a round, "error" closes it anywhere, and nothing follows   *)
(* either.  A request that is refused gets a single "error".               *)
(***************************************************************************)
EXTENDS Naturals

CONSTANTS Requests, MaxRounds

VARIABLES last,     \* [Requests -> the newest event, "none" before the first]
          rounds    \* [Requests -> how many "thinking" events there were]

streamVars == <<last, rounds>>

Init ==
    /\ last = [r \in Requests |-> "none"]
    /\ rounds = [r \in Requests |-> 0]

\* b may be the event after a.
Follows(a, b) ==
    CASE b = "session"   -> a = "none"
      [] b = "thinking"  -> a \in {"session", "tool_call"}
      [] b = "chunk"     -> a \in {"thinking", "chunk"}
      [] b = "tool_call" -> a \in {"thinking", "chunk", "tool_call"}
      [] b = "done"      -> a \in {"thinking", "chunk"}
      [] b = "error"     -> a \notin {"done", "error"}

Send(r, event) ==
    /\ Follows(last[r], event)
    /\ event = "thinking" => rounds[r] < MaxRounds
    /\ event = "tool_call" => rounds[r] < MaxRounds
    /\ last' = [last EXCEPT ![r] = event]
    /\ rounds' = [rounds EXCEPT ![r] = IF event = "thinking" THEN @ + 1 ELSE @]

Next ==
    \E r \in Requests :
        \E event \in {"session", "thinking", "chunk", "tool_call", "done", "error"} :
            Send(r, event)

Spec == Init /\ [][Next]_streamVars
=============================================================================
