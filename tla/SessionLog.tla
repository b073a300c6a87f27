----------------------------- MODULE SessionLog -----------------------------
(***************************************************************************)
(* What a session store promises, whichever backend holds the sessions:    *)
(* the log of a session grows at its end, may be cut to its newest MaxMs   *)
(* messages when it grows, and is lost only when the session is deleted or *)
(* when for TTL nobody has been told that a write, or the renewal that     *)
(* goes with a read, took place.                                           *)
(*                                                                         *)
(*   log      the messages that History returns                            *)
(*   touched  when the store last confirmed a write, or the renewal that   *)
(*            goes with a read; a read whose renewal failed is none        *)
(*   dropped  the sessions that nobody wrote to since a request to delete  *)
(*            them                                                         *)
(*   now      the time                                                     *)
(***************************************************************************)
EXTENDS Integers, Sequences

CONSTANTS Sessions, Messages, MaxMs, TTL

VARIABLES log, touched, dropped, now

vars == <<log, touched, dropped, now>>

Newest(l) == IF Len(l) > MaxMs THEN SubSeq(l, Len(l) - MaxMs + 1, Len(l)) ELSE l

Init ==
    /\ log = [s \in Sessions |-> <<>>]
    /\ touched = [s \in Sessions |-> 0]
    /\ dropped = {}
    /\ now = 0

\* A message is stored.  The store may have done so without being able to say
\* it, and a client that tries again stores the message another time.
Say(s, m) ==
    /\ LET longer == Append(log[s], m)
       IN  log' = [log EXCEPT ![s] = longer] \/ log' = [log EXCEPT ![s] = Newest(longer)]
    /\ touched' = touched \/ touched' = [touched EXCEPT ![s] = now]
    /\ dropped' = dropped \ {s}
    /\ UNCHANGED now

Look(s) ==
    /\ touched' = [touched EXCEPT ![s] = now]
    /\ UNCHANGED <<log, dropped, now>>

\* Something else than a message is stored.
Mark(s) ==
    /\ dropped' = dropped \ {s}
    /\ UNCHANGED <<log, touched, now>>

\* Perhaps without effect, if the store does not confirm it.
Drop(s) ==
    /\ log' = log \/ log' = [log EXCEPT ![s] = <<>>]
    /\ dropped' = dropped \cup {s}
    /\ UNCHANGED <<touched, now>>

\* Time goes on, and sessions that were left alone for TTL may be gone.
Pass ==
    /\ now' \in {now, now + 1}
    /\ \E gone \in SUBSET {s \in Sessions : now' - touched[s] >= TTL} :
          log' = [s \in Sessions |-> IF s \in gone THEN <<>> ELSE log[s]]
    /\ UNCHANGED <<touched, dropped>>

Next ==
    \/ \E s \in Sessions, m \in Messages : Say(s, m)
    \/ \E s \in Sessions : Look(s) \/ Mark(s) \/ Drop(s)
    \/ Pass

Spec == Init /\ [][Next]_vars
=============================================================================
