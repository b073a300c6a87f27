------------------------------ MODULE MCAgents ------------------------------
(* A small instance of Agents for TLC; requests and ids are interchangeable. *)
EXTENDS Agents, TLC

CONSTANTS u1, u2, m1

Ask(kind, S, bodies) == [kind : {kind}, user : {u1}, agent : S, body : bodies]

Nil == {<<>>}

\* All ask for u1: the agents that are there in the initial state may be u2's.
MCInputs ==
    UNION {
        Ask("list", {None}, Nil),
        Ask("create", {None}, {[model |-> m1, iter |-> 12]}),
        Ask("update", Ids, {[status |-> 2], [status |-> 1, iter |-> 20, user |-> u2]}),
        Ask("delete", Ids, Nil),
        Ask("chat", Ids, Nil),
        Ask("save", {None}, {[model |-> m1]}),
        Ask("settings", Ids, {[enabled |-> "off"]}),
        Ask("upload", Ids, Nil)}

Symmetry == Permutations(Requests) \cup Permutations(Ids)
=============================================================================
