------------------------------- MODULE KBText -------------------------------
(***************************************************************************)
(* What becomes of a text in the knowledge base: RecursiveChunker.Chunk    *)
(* merges its units (sentences, paragraphs) into overlapping chunks, a     *)
(* retrieval picks some of them, and formatInjection writes these into the *)
(* system prompt as far as the base's budget goes.                         *)
(*                                                                         *)
(*   units   what splitRecursive made of the text; at most two characters  *)
(*           longer than a chunk, by the separator it puts back            *)
(*   i       the loops' index: the next unit, later the next hit           *)
(*   start   the first unit of the chunk in the making                     *)
(*   buf     its length, in characters and in bytes                        *)
(*   back    backtrack: how far it has gone, and what it has passed        *)
(*   chunks  the chunks: their units from .. to - 1 and their length       *)
(*   hits    the chunks that were retrieved, best first                    *)
(*   budget  the base's max_chars_per_turn; 0 means no limit               *)
(*   used    the characters formatInjection has counted                    *)
(*   out     how much it has written of each hit                           *)
(*                                                                         *)
(* A unit is a number of characters (runes), all of the same width in      *)
(* bytes; that TrimSpace may shorten a chunk is left out.                  *)
(***************************************************************************)
EXTENDS Integers, Sequences

CONSTANTS
    ChunkSize,
    ChunkOverlap,
    MaxUnits,           \* bound: the units of a text
    UnitRunes,          \* the characters of a unit
    Widths,             \* the bytes of a character
    TopK,
    Budgets

ASSUME TextAssumption ==
    /\ ChunkSize \in Nat \ {0}
    /\ ChunkOverlap \in 0 .. ChunkSize - 1
    /\ UnitRunes \subseteq 1 .. ChunkSize + 2
    /\ MaxUnits \in Nat /\ TopK \in Nat
    /\ Widths \subseteq Nat \ {0}
    /\ Budgets \subseteq Nat

VARIABLES pc, units, i, start, buf, back, chunks, hits, budget, used, out

cutVars == <<units, i, start, buf, back, chunks>>
outVars == <<hits, budget, used, out>>
vars == <<pc, cutVars, outVars>>

Unit == [runes : UnitRunes, width : Widths]
Length == [runes : Nat, bytes : Nat]
Chunk == [from : Nat, to : Nat, runes : Nat, bytes : Nat]

Min2(a, b) == IF a < b THEN a ELSE b

Empty == [runes |-> 0, bytes |-> 0]

Init ==
    /\ pc = "fill"
    /\ units \in UNION {[1 .. n -> Unit] : n \in 0 .. MaxUnits}
    /\ i = 1 /\ start = 1 /\ buf = Empty
    /\ back = [to |-> 1, runes |-> 0]
    /\ chunks = <<>>
    /\ hits = <<>> /\ budget = 0 /\ used = 0 /\ out = <<>>

-----------------------------------------------------------------------------
(***************************************************************************)
(* Chunk.                                                                  *)
(***************************************************************************)
\* Mutant of Fits: looks at the buffer before the unit is added.
FitsSoFar(u) == buf.bytes <= ChunkSize

\* buf.Len() counts bytes, runeLen characters.
Fits(u) == buf.bytes + u.runes <= ChunkSize

More == i <= Len(units)

Restart(at) == i' = at /\ start' = at /\ buf' = Empty

Take ==
    /\ pc = "fill"
    /\ More /\ Fits(units[i])
    /\ buf' = [runes |-> buf.runes + units[i].runes,
               bytes |-> buf.bytes + units[i].runes * units[i].width]
    /\ i' = i + 1
    /\ UNCHANGED <<pc, units, start, back, chunks, outVars>>

\* Mutant of Pieces: one piece too many.
PiecesPastTheEnd(at) ==
    LET u == units[at] IN
    [k \in 1 .. u.runes \div ChunkSize + 1 |->
        LET n == Min2(ChunkSize, u.runes - k * ChunkSize) IN
        [from |-> at, to |-> at + 1, runes |-> n, bytes |-> n * u.width]]

\* hardSplit: pieces of ChunkSize characters, the last one with the rest.
Pieces(at) ==
    LET u == units[at] IN
    [k \in 1 .. (u.runes + ChunkSize - 1) \div ChunkSize |->
        LET n == Min2(ChunkSize, u.runes - (k - 1) * ChunkSize) IN
        [from |-> at, to |-> at + 1, runes |-> n, bytes |-> n * u.width]]

\* A single unit that is longer than a chunk.
HardSplit ==
    /\ pc = "fill"
    /\ More /\ ~Fits(units[i]) /\ i = start
    /\ chunks' = chunks \o Pieces(i)
    /\ Restart(i + 1)
    /\ UNCHANGED <<pc, units, back, outVars>>

EndChunk ==
    /\ pc = "fill"
    /\ More => ~Fits(units[i])
    /\ i > start
    /\ chunks' = Append(chunks, [from |-> start, to |-> i,
                                 runes |-> buf.runes, bytes |-> buf.bytes])
    /\ \/ /\ ChunkOverlap > 0 /\ More
          /\ pc' = "back"
          /\ back' = [to |-> i - 1, runes |-> 0]
          /\ UNCHANGED <<i, start, buf>>
       \/ /\ ~(ChunkOverlap > 0 /\ More)
          /\ Restart(i)
          /\ UNCHANGED <<pc, back>>
    /\ UNCHANGED <<units, outVars>>

\* Mutant of Backtrack: goes back as far as the first unit of the chunk.
BacktrackToStart ==
    /\ pc = "back"
    /\ LET j == back.to
           passed == back.runes + units[j].runes IN
       \/ /\ j >= start /\ passed >= ChunkOverlap
          /\ Restart(j) /\ pc' = "fill"
          /\ UNCHANGED back
       \/ /\ j > start /\ passed < ChunkOverlap
          /\ back' = [to |-> j - 1, runes |-> passed]
          /\ UNCHANGED <<pc, i, start, buf>>
       \/ /\ j = start /\ passed < ChunkOverlap
          /\ Restart(i) /\ pc' = "fill"
          /\ UNCHANGED back
    /\ UNCHANGED <<units, chunks, outVars>>

\* Mutant of Backtrack: has no answer for a chunk that is too short.
BacktrackOrWait ==
    /\ pc = "back"
    /\ LET j == back.to
           passed == back.runes + units[j].runes IN
       \/ /\ j > start /\ passed >= ChunkOverlap
          /\ Restart(j) /\ pc' = "fill"
          /\ UNCHANGED back
       \/ /\ j > start /\ passed < ChunkOverlap
          /\ back' = [to |-> j - 1, runes |-> passed]
          /\ UNCHANGED <<pc, i, start, buf>>
    /\ UNCHANGED <<units, chunks, outVars>>

\* backtrack: from the last unit of the chunk to its second, until the units
\* passed make up the overlap; otherwise there is none.
Backtrack ==
    /\ pc = "back"
    /\ LET j == back.to
           passed == back.runes + units[j].runes IN
       \/ /\ j > start /\ passed >= ChunkOverlap
          /\ Restart(j) /\ pc' = "fill"
          /\ UNCHANGED back
       \/ /\ j > start /\ passed < ChunkOverlap
          /\ back' = [to |-> j - 1, runes |-> passed]
          /\ UNCHANGED <<pc, i, start, buf>>
       \/ /\ j = start
          /\ Restart(i) /\ pc' = "fill"
          /\ UNCHANGED back
    /\ UNCHANGED <<units, chunks, outVars>>

(***************************************************************************)
(* The search fuses two rankings by chunk, so that it returns different    *)
(* chunks, at most TopK of them, in the order of scores that may be any.   *)
(***************************************************************************)
Different(s) == \A a, b \in DOMAIN s : s[a] = s[b] => a = b

RrfFuse ==
    {s \in UNION {[1 .. n -> DOMAIN chunks] : n \in 0 .. TopK} : Different(s)}

Retrieve == {[k \in DOMAIN s |-> chunks[s[k]]] : s \in RrfFuse}

\* Inject hands the hits to formatInjection with the base's budget.
Inject ==
    /\ pc = "fill"
    /\ ~More /\ i = start
    /\ pc' = "write" /\ i' = 1
    /\ hits' \in Retrieve
    /\ budget' \in Budgets
    /\ UNCHANGED <<units, start, buf, back, chunks, used, out>>

(***************************************************************************)
(* formatInjection.                                                        *)
(***************************************************************************)
Limited == budget > 0
Left == budget - used

\* A hit is cut to what is left when its bytes exceed it.
Written(hit) ==
    IF Limited /\ used + hit.bytes > budget THEN Min2(hit.runes, Left) ELSE hit.runes

\* Mutant of WriteHit: counts the uncut text.
WriteHitWhole ==
    /\ pc = "write"
    /\ i <= Len(hits)
    /\ ~(Limited /\ used >= budget)
    /\ out' = Append(out, hits[i].runes)
    /\ used' = used + hits[i].runes
    /\ i' = i + 1
    /\ UNCHANGED <<pc, units, start, buf, back, chunks, hits, budget>>

WriteHit ==
    /\ pc = "write"
    /\ i <= Len(hits)
    /\ ~(Limited /\ used >= budget)
    /\ out' = Append(out, Written(hits[i]))
    /\ used' = used + Written(hits[i])
    /\ i' = i + 1
    /\ UNCHANGED <<pc, units, start, buf, back, chunks, hits, budget>>

Finish ==
    /\ pc = "write"
    /\ i > Len(hits) \/ (Limited /\ used >= budget)
    /\ pc' = "over"
    /\ UNCHANGED <<cutVars, outVars>>

Cut == Take \/ HardSplit \/ EndChunk \/ Backtrack
Write == WriteHit \/ Finish
Next == Cut \/ Inject \/ Write

Spec == Init /\ [][Next]_vars
FairSpec == Spec /\ WF_vars(Next)
-----------------------------------------------------------------------------
TypeOK ==
    /\ pc \in {"fill", "back", "write", "over"}
    /\ units \in Seq(Unit)
    /\ i \in Nat /\ start \in Nat
    /\ buf \in Length
    /\ back \in [to : Nat, runes : Nat]
    /\ chunks \in Seq(Chunk)
    /\ hits \in Seq(Chunk)
    /\ budget \in Nat /\ used \in Nat
    /\ out \in Seq(Nat)

\* No chunk is longer than the configured size, although the loop adds bytes
\* to characters and units may be longer than a chunk.
SizeKept == \A k \in DOMAIN chunks : chunks[k].runes <= ChunkSize

NothingLost ==
    pc \in {"write", "over"} =>
        \A u \in DOMAIN units : \E k \in DOMAIN chunks :
            chunks[k].from <= u /\ u < chunks[k].to

InOrder ==
    \A k \in DOMAIN chunks : k + 1 \in DOMAIN chunks =>
        /\ chunks[k].from <= chunks[k + 1].from
        /\ chunks[k + 1].from <= chunks[k].to
        /\ chunks[k].from = chunks[k + 1].from => chunks[k].to = chunks[k].from + 1

\* Every unit of the text is in some chunk, although the loop jumps back and
\* forth over the units; and each chunk starts after the one before it does, and
\* no later than that one ends, however far backtrack goes: only the pieces of
\* one unit share it.
TextCovered == NothingLost /\ InOrder

\* Chunking comes to its end, and writing too.
Ends == <>(pc = "over")

BudgetKept == Limited => used <= budget

BudgetUsed ==
    /\ \A k \in DOMAIN out : out[k] < hits[k].runes => used = budget /\ k = Len(out)
    /\ pc = "over" /\ Len(out) < Len(hits) => used = budget

\* The text of the hits in the prompt stays within the budget; and a hit is
\* shortened only when the budget is thereby used up, and left out only when it
\* has been: whatever fits is written, best hits first.
BudgetRight == BudgetKept /\ BudgetUsed
=============================================================================
