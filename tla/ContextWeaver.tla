---------------------------- MODULE ContextWeaver ---------------------------
(***************************************************************************)
(* ContextWeaver::build_context beside everything that moves               *)
(* memory_entries: three searches, one tier after the other, each a        *)
(* statement of its own, and a section of the context filled from each.    *)
(*                                                                         *)
(* A text counts one token per excerpt.  The order of a search is that of  *)
(* scores nobody knows: any order.  confidence_score is left out, and the  *)
(* thresholds of the filters with it: what the server writes passes them.  *)
(* So are the last messages of the dialogue, which are appended            *)
(* unconditionally.                                                        *)
(***************************************************************************)
EXTENDS MemoryStore, FiniteSets, SequencesExt

CONSTANTS
    Weavers,          \* calls of build_context, each made at most once
    MaxMemoryTokens,  \* max_memory_tokens
    TopK, TopRaw,     \* limits of the searches (10 and 5)
    CutAbove,         \* a text is cut only into more room than this (12)
    RawAbove,         \* raw entries are searched with more room than this (100)
    IncludeRaw

ASSUME WeaverAssumption ==
    /\ {MaxMemoryTokens, TopK, TopRaw, CutAbove, RawAbove} \subseteq Nat
    /\ IncludeRaw \in BOOLEAN

VARIABLES
    wpc,       \* the tier a weaver searches next
    budget,    \* token_budget
    woven      \* what it has put into the context

weaverVars == <<wpc, budget, woven>>
weaveVars  == <<vars, weaverVars>>

WeaveInit ==
    /\ Init
    /\ wpc    = [w \in Weavers |-> "idle"]
    /\ budget = [w \in Weavers |-> MaxMemoryTokens]
    /\ woven  = [w \in Weavers |-> <<>>]

-----------------------------------------------------------------------------
(* One section.                                                            *)

Searchable(t) == {e \in Entries : tier[e] = t /\ ~archived[e]}

\* search_by_embedding: the best k rows of a tier.
Search(t, k) ==
    {found \in UNION {[1..n -> Searchable(t)] : n \in 0..k} :
        /\ \A i, j \in DOMAIN found : i # j => found[i] # found[j]
        /\ Len(found) = k \/ ToSet(found) = Searchable(t)}

Tokens(e) == Cardinality(content[e])
Text(e) == [entry |-> e, whole |-> TRUE, tokens |-> Tokens(e)]
CutTo(piece, room) == [entry |-> piece.entry, whole |-> FALSE, tokens |-> room]

\* The body of the loop of add_section.  The first text that does not fit is
\* cut into the room that is left, which does not count, and ends the loop.
PlacePiece(section, piece) ==
    IF section.end # "open"
    THEN section
    ELSE IF piece.tokens <= section.left
    THEN [text |-> Append(section.text, piece),
          left |-> section.left - piece.tokens, end |-> "open"]
    ELSE IF section.left > CutAbove
    THEN [text |-> Append(section.text, CutTo(piece, section.left)),
          left |-> section.left, end |-> "cut"]
    ELSE [section EXCEPT !.end = "full"]

Opened(context, room) == [text |-> context, left |-> room, end |-> "open"]

AddSection(context, found, room) ==
    FoldLeft(PlacePiece, Opened(context, room),
             [i \in DOMAIN found |-> Text(found[i])])

-----------------------------------------------------------------------------
(* The weaver.                                                             *)

Weave(w, label) == wpc' = [wpc EXCEPT ![w] = label]

BeginWeave(w) ==
    /\ wpc[w] = "idle"
    /\ Weave(w, "verified")
    /\ UNCHANGED <<budget, woven>>

\* Mutant: every section is given the budget of the whole context.
FillFromFullBudget(w, found) ==
    /\ woven' = [woven EXCEPT ![w] = AddSection(@, found, MaxMemoryTokens).text]
    /\ UNCHANGED budget

Section(w, found) == AddSection(woven[w], found, budget[w])

Fill(w, found) ==
    /\ woven'  = [woven EXCEPT ![w] = Section(w, found).text]
    /\ budget' = [budget EXCEPT ![w] = Section(w, found).left]

\* The cut may fall inside a character: the slice panics.
CutPanics(w, found) == Section(w, found).end = "cut"

WeaveVerified(w) ==
    /\ wpc[w] = "verified"
    /\ \E found \in Search("verified", TopK) :
          \/ Fill(w, found) /\ Weave(w, "consolidated")
          \/ /\ DbMayFail \/ CutPanics(w, found)
             /\ Weave(w, "error")
             /\ UNCHANGED <<budget, woven>>

WeaveConsolidated(w) ==
    /\ wpc[w] = "consolidated"
    /\ \E found \in Search("consolidated", TopK) :
          \/ /\ Fill(w, found)
             /\ Weave(w, IF IncludeRaw /\ budget'[w] > RawAbove THEN "raw"
                                                                ELSE "done")
          \/ /\ DbMayFail \/ CutPanics(w, found)
             /\ Weave(w, "error")
             /\ UNCHANGED <<budget, woven>>

WeaveRaw(w) ==
    /\ wpc[w] = "raw"
    /\ \E found \in Search("raw", TopRaw) :
          \/ /\ woven' = [woven EXCEPT ![w] = Section(w, found).text]
             /\ Weave(w, "done")
             /\ UNCHANGED budget
          \/ /\ DbMayFail \/ CutPanics(w, found)
             /\ Weave(w, "error")
             /\ UNCHANGED <<budget, woven>>

\* Mutant: the tiers are searched from the bottom up.
WeaveStepUpwards(w) ==
    \/ BeginWeave(w)
    \/ /\ wpc[w] = "verified"
       /\ \E found \in Search("raw", TopRaw) : Fill(w, found)
       /\ Weave(w, "consolidated")
    \/ /\ wpc[w] = "consolidated"
       /\ \E found \in Search("consolidated", TopK) : Fill(w, found)
       /\ Weave(w, "raw")
    \/ /\ wpc[w] = "raw"
       /\ \E found \in Search("verified", TopK) : Fill(w, found)
       /\ Weave(w, "done")

WeaveStep(w) ==
    BeginWeave(w) \/ WeaveVerified(w) \/ WeaveConsolidated(w) \/ WeaveRaw(w)

\* A restart takes the weavers with it.
WeaveNext ==
    \/ /\ \/ \E k \in Clients : Receive(k) \/ Step(k) \/ Abandon(k)
          \/ Background
       /\ UNCHANGED weaverVars
    \/ /\ Restart
       /\ wpc' = [w \in Weavers |-> IF wpc[w] \in {"idle", "done"} THEN wpc[w]
                                                                  ELSE "error"]
       /\ UNCHANGED <<budget, woven>>
    \/ \E w \in Weavers : WeaveStep(w) /\ UNCHANGED vars

WeaveSpec == WeaveInit /\ [][WeaveNext]_weaveVars

-----------------------------------------------------------------------------
(* Properties.                                                             *)

\* No entry stands twice in a context, although it is promoted between two
\* searches: tiers are searched from the top down, and entries only move up.
WovenOnce ==
    \A w \in Weavers : \A i, j \in DOMAIN woven[w] :
        i # j => woven[w][i].entry # woven[w][j].entry

\* A text that enters a context, whole or cut, fits into what the whole texts
\* before it left of the budget, which is why a context keeps within its budget
\* up to the first cut text, that one included.  A cut text does not count:
\* behind it the rest of the budget is spent again, once in every section, and
\* all the texts of a context, the cut ones included, take up to three times
\* its budget, and never more.
Spend(n, piece) == IF piece.whole THEN n + piece.tokens ELSE n
Spent(pieces) == FoldLeft(Spend, 0, pieces)

Take(n, piece) == n + piece.tokens
Taken(pieces) == FoldLeft(Take, 0, pieces)

WovenFits ==
    \A w \in Weavers :
        /\ Taken(woven[w]) <= 3 * MaxMemoryTokens
        /\ \A i \in DOMAIN woven[w] :
              Spent(SubSeq(woven[w], 1, i - 1)) + woven[w][i].tokens
                  <= MaxMemoryTokens
=============================================================================
