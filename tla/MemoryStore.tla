---------------------------- MODULE MemoryStore ----------------------------
(***************************************************************************)
(* The table memory_entries: the requests that insert, patch, delete,      *)
(* consolidate and promote entries, and the hourly background task that    *)
(* lets raw entries fade and archives the faded ones.                      *)
(*                                                                         *)
(* Each SQL statement is one atomic step and may fail; between two of them *)
(* anybody may run.  The text of an entry is the set of excerpts it is     *)
(* made of, an excerpt being <<entry, author>>: the original text of the   *)
(* entry, or the text a client patched in.  An embedding is identified     *)
(* with the text it was computed from.  decay_score is the number of ticks *)
(* the entry is still away from falling below 0.1 (45 from a fresh 1.0, as *)
(* 0.95^45 < 0.1 < 0.95^44).  metadata and confidence_score are left out:  *)
(* the statements that write them change nothing else.                     *)
(***************************************************************************)
EXTENDS Naturals, Sequences

CONSTANTS
    Entries,       \* ids of entries
    Clients,       \* requests and tool calls; each is made at most once
    Ops,           \* what they do, a subset of AllOps
    DecayTicks,    \* ticks that take a fresh entry below the threshold
    DbMayFail,     \* TRUE: any statement may return an error
    MayAbandon     \* TRUE: requests may die at an await, the server restart

AllOps == {"insert", "patch", "delete", "consolidate", "promote"}
Original == "original"

ASSUME MemoryAssumption ==
    /\ Entries # {}
    /\ Ops \subseteq AllOps
    /\ Original \notin Clients
    /\ DecayTicks \in Nat \ {0}
    /\ DbMayFail \in BOOLEAN
    /\ MayAbandon \in BOOLEAN

VARIABLES
    tier,       \* "absent" before the INSERT, "deleted" after the DELETE
    decay, archived, content, embedded, sources,
    loop,       \* the background task: "wait", "decay" or "archive"
    pc,         \* what each client does next
    entry,      \* the entry a client works on
    ids,        \* source_ids of a consolidation
    todo,       \* number of source ids still to load
    first,      \* excerpts loaded by consolidate_with_embedding
    second,     \* excerpts loaded again by consolidate
    patch       \* what a patch does to the column archived

rowVars    == <<tier, decay, archived, content, embedded, sources>>
clientVars == <<pc, entry, ids, todo, first, second, patch>>
vars       == <<rowVars, loop, clientVars>>

Tiers == {"raw", "consolidated", "verified"}
Present(e) == tier[e] \in Tiers
Excerpts == Entries \X (Clients \cup {Original})
Labels == {"idle", "insert", "patch_content", "patch_archived", "delete",
           "load", "embed", "reload", "insert_consolidated", "promote",
           "ok", "error"}
Resting == {"idle", "ok", "error"}

Init ==
    /\ tier     = [e \in Entries |-> "absent"]
    /\ decay    = [e \in Entries |-> DecayTicks]
    /\ archived = [e \in Entries |-> FALSE]
    /\ content  = [e \in Entries |-> {}]
    /\ embedded = [e \in Entries |-> {}]
    /\ sources  = [e \in Entries |-> {}]
    /\ loop  = "wait"
    /\ pc    = [k \in Clients |-> "idle"]
    /\ entry = [k \in Clients |-> CHOOSE e \in Entries : TRUE]
    /\ ids   = [k \in Clients |-> <<>>]
    /\ todo  = [k \in Clients |-> 0]
    /\ first = [k \in Clients |-> {}]
    /\ second = [k \in Clients |-> {}]
    /\ patch = [k \in Clients |-> "keep"]

-----------------------------------------------------------------------------
(* Control.                                                                *)

Goto(k, label) == pc' = [pc EXCEPT ![k] = label]

StatementFails(k) ==
    /\ DbMayFail
    /\ Goto(k, "error")
    /\ UNCHANGED <<rowVars, loop, entry, ids, todo, first, second, patch>>

\* The embedding backend answers with an error; it is another service.
EmbeddingFails(k) == StatementFails(k)

-----------------------------------------------------------------------------
(* Requests that are one statement.                                        *)

NewRow(e, t, text, embedding, from) ==
    /\ tier'     = [tier EXCEPT ![e] = t]
    /\ content'  = [content EXCEPT ![e] = text]
    /\ embedded' = [embedded EXCEPT ![e] = embedding]
    /\ sources'  = [sources EXCEPT ![e] = from]
    /\ UNCHANGED <<decay, archived>>

\* insert_raw_with_embedding: embed, then INSERT.
InsertRaw(k) ==
    /\ pc[k] = "insert"
    /\ \/ \E e \in Entries :
             /\ tier[e] = "absent"
             /\ NewRow(e, "raw", {<<e, Original>>}, {<<e, Original>>}, {})
             /\ Goto(k, "ok")
             /\ UNCHANGED <<loop, entry, ids, todo, first, second, patch>>
       \/ EmbeddingFails(k)

Delete(k) ==
    /\ pc[k] = "delete"
    /\ \/ /\ tier' = [tier EXCEPT ![entry[k]] = "deleted"]
          /\ Goto(k, "ok")
          /\ UNCHANGED <<decay, archived, content, embedded, sources, loop,
                         entry, ids, todo, first, second, patch>>
       \/ StatementFails(k)

\* Mutant: the tier is spelled as the tool descriptions spell it.
PromoteMisspelled(k) ==
    /\ pc[k] = "promote"
    /\ tier' = [tier EXCEPT ![entry[k]] = "verified_fact"]
    /\ Goto(k, "ok")
    /\ UNCHANGED <<decay, archived, content, embedded, sources, loop,
                   entry, ids, todo, first, second, patch>>

\* promote_to_verified: no check of the tier, nothing but the tier changes.
PromoteToVerified(k) ==
    /\ pc[k] = "promote"
    /\ \/ /\ tier' = [tier EXCEPT ![entry[k]] =
                         IF @ \in Tiers THEN "verified" ELSE @]
          /\ Goto(k, "ok")
          /\ UNCHANGED <<decay, archived, content, embedded, sources, loop,
                         entry, ids, todo, first, second, patch>>
       \/ StatementFails(k)

-----------------------------------------------------------------------------
(* update: one UPDATE per column named in the body, in this order.  The    *)
(* embedding is not computed again.                                        *)

PatchContent(k) ==
    /\ pc[k] = "patch_content"
    /\ \/ /\ content' = [content EXCEPT ![entry[k]] =
                            IF Present(entry[k]) THEN {<<entry[k], k>>} ELSE @]
          /\ Goto(k, IF patch[k] = "keep" THEN "ok" ELSE "patch_archived")
          /\ UNCHANGED <<tier, decay, archived, embedded, sources, loop,
                         entry, ids, todo, first, second, patch>>
       \/ StatementFails(k)

PatchArchived(k) ==
    /\ pc[k] = "patch_archived"
    /\ \/ /\ archived' = [archived EXCEPT ![entry[k]] =
                             IF Present(entry[k]) THEN patch[k] = "hide"
                                                  ELSE @]
          /\ Goto(k, "ok")
          /\ UNCHANGED <<tier, decay, content, embedded, sources, loop,
                         entry, ids, todo, first, second, patch>>
       \/ StatementFails(k)

-----------------------------------------------------------------------------
(* consolidate_with_embedding: load the sources one by one and embed their *)
(* joined text; then consolidate loads them again, joins them again and    *)
(* inserts a row taken from the first source id.                           *)

NextId(k) == ids[k][Len(ids[k]) - todo[k] + 1]
TextOf(e) == IF Present(e) THEN content[e] ELSE {}

\* Mutant: the loop that gathers the text to embed misses the last id.
LoadAllButLast(k) ==
    /\ pc[k] = "load"
    /\ IF todo[k] > 1
       THEN /\ first' = [first EXCEPT ![k] = @ \cup TextOf(NextId(k))]
            /\ todo' = [todo EXCEPT ![k] = @ - 1]
            /\ UNCHANGED pc
       ELSE /\ Goto(k, IF first[k] = {} THEN "error" ELSE "embed")
            /\ UNCHANGED <<first, todo>>
    /\ UNCHANGED <<rowVars, loop, entry, ids, second, patch>>

LoadSource(k) ==
    /\ pc[k] = "load"
    /\ \/ /\ todo[k] > 0
          /\ first' = [first EXCEPT ![k] = @ \cup TextOf(NextId(k))]
          /\ todo' = [todo EXCEPT ![k] = @ - 1]
          /\ UNCHANGED <<rowVars, loop, pc, entry, ids, second, patch>>
       \/ /\ todo[k] = 0
          /\ Goto(k, IF first[k] = {} THEN "error" ELSE "embed")
          /\ UNCHANGED <<rowVars, loop, entry, ids, todo, first, second,
                         patch>>
       \/ StatementFails(k)

Embed(k) ==
    /\ pc[k] = "embed"
    /\ \/ /\ Goto(k, "reload")
          /\ todo' = [todo EXCEPT ![k] = Len(ids[k])]
          /\ UNCHANGED <<rowVars, loop, entry, ids, first, second, patch>>
       \/ EmbeddingFails(k)

ReloadSource(k) ==
    /\ pc[k] = "reload"
    /\ \/ /\ todo[k] > 0
          /\ second' = [second EXCEPT ![k] = @ \cup TextOf(NextId(k))]
          /\ todo' = [todo EXCEPT ![k] = @ - 1]
          /\ UNCHANGED <<rowVars, loop, pc, entry, ids, first, patch>>
       \/ /\ todo[k] = 0
          /\ Goto(k, IF second[k] = {} THEN "error" ELSE "insert_consolidated")
          /\ UNCHANGED <<rowVars, loop, entry, ids, todo, first, second,
                         patch>>
       \/ StatementFails(k)

\* INSERT ... SELECT project_id FROM the first source: no row if it is gone,
\* which fetch_one reports as an error.
InsertConsolidated(k) ==
    /\ pc[k] = "insert_consolidated"
    /\ \/ \E e \in Entries :
             /\ Present(ids[k][1])
             /\ tier[e] = "absent"
             /\ NewRow(e, "consolidated", second[k], first[k],
                       {ids[k][i] : i \in 1..Len(ids[k])})
             /\ Goto(k, "ok")
             /\ UNCHANGED <<loop, entry, ids, todo, first, second, patch>>
       \/ /\ ~Present(ids[k][1])
          /\ Goto(k, "error")
          /\ UNCHANGED <<rowVars, loop, entry, ids, todo, first, second,
                         patch>>
       \/ StatementFails(k)

-----------------------------------------------------------------------------
(* The background task: the interval elapses, then two UPDATEs, each of    *)
(* all rows at once; an error of either is logged.                         *)

Tick ==
    /\ loop = "wait"
    /\ loop' = "decay"
    /\ UNCHANGED <<rowVars, clientVars>>

Fades(e) == tier[e] = "raw" /\ ~archived[e]

\* Mutant: every tier decays.
DecayEveryTier ==
    /\ loop = "decay"
    /\ decay' = [e \in Entries |->
                   IF Present(e) /\ ~archived[e] /\ decay[e] > 0
                   THEN decay[e] - 1 ELSE decay[e]]
    /\ loop' = "archive"
    /\ UNCHANGED <<tier, archived, content, embedded, sources, clientVars>>

DecayTick ==
    /\ loop = "decay"
    /\ decay' = [e \in Entries |->
                   IF Fades(e) /\ decay[e] > 0 THEN decay[e] - 1 ELSE decay[e]]
    /\ loop' = "archive"
    /\ UNCHANGED <<tier, archived, content, embedded, sources, clientVars>>

ArchiveLowDecay ==
    /\ loop = "archive"
    /\ archived' = [e \in Entries |->
                      archived[e] \/ (tier[e] = "raw" /\ decay[e] = 0)]
    /\ loop' = "wait"
    /\ UNCHANGED <<tier, decay, content, embedded, sources, clientVars>>

LoopStatementFails ==
    /\ DbMayFail
    /\ \/ loop = "decay" /\ loop' = "archive"
       \/ loop = "archive" /\ loop' = "wait"
    /\ UNCHANGED <<rowVars, clientVars>>

-----------------------------------------------------------------------------
(* Clients and faults.                                                     *)

\* Clients know the ids of rows that exist or existed.
Known(e) == tier[e] # "absent"

Begin(k, label) ==
    /\ pc[k] = "idle"
    /\ Goto(k, label)
    /\ UNCHANGED <<rowVars, loop, first, second>>

BeginInsert(k) ==
    /\ "insert" \in Ops
    /\ Begin(k, "insert")
    /\ UNCHANGED <<entry, ids, todo, patch>>

BeginOn(k, e, o) ==
    /\ o \in Ops \cap {"delete", "promote"}
    /\ Known(e)
    /\ Begin(k, o)
    /\ entry' = [entry EXCEPT ![k] = e]
    /\ UNCHANGED <<ids, todo, patch>>

BeginPatch(k, e, withContent, p) ==
    /\ "patch" \in Ops
    /\ Known(e)
    /\ withContent \/ p # "keep"
    /\ Begin(k, IF withContent THEN "patch_content" ELSE "patch_archived")
    /\ entry' = [entry EXCEPT ![k] = e]
    /\ patch' = [patch EXCEPT ![k] = p]
    /\ UNCHANGED <<ids, todo>>

BeginConsolidate(k, e, f) ==
    /\ "consolidate" \in Ops
    /\ Known(e) /\ Known(f)
    /\ Begin(k, "load")
    /\ ids'  = [ids EXCEPT ![k] = <<e, f>>]
    /\ todo' = [todo EXCEPT ![k] = 2]
    /\ UNCHANGED <<entry, patch>>

Receive(k) ==
    \/ BeginInsert(k)
    \/ \E e \in Entries :
          \/ \E o \in Ops : BeginOn(k, e, o)
          \/ \E withContent \in BOOLEAN, p \in {"keep", "hide", "show"} :
                BeginPatch(k, e, withContent, p)
          \/ \E f \in Entries \ {e} : BeginConsolidate(k, e, f)

Abandon(k) ==
    /\ MayAbandon
    /\ pc[k] \notin Resting
    /\ Goto(k, "error")
    /\ UNCHANGED <<rowVars, loop, entry, ids, todo, first, second, patch>>

\* A new process: requests are gone, the task starts over, rows persist.
Restart ==
    /\ MayAbandon
    /\ loop' = "wait"
    /\ pc' = [k \in Clients |-> IF pc[k] \in Resting THEN pc[k] ELSE "error"]
    /\ UNCHANGED <<rowVars, entry, ids, todo, first, second, patch>>

Step(k) == \/ InsertRaw(k) \/ Delete(k) \/ PromoteToVerified(k)
           \/ PatchContent(k) \/ PatchArchived(k)
           \/ LoadSource(k) \/ Embed(k) \/ ReloadSource(k)
           \/ InsertConsolidated(k)

Background == Tick \/ DecayTick \/ ArchiveLowDecay \/ LoopStatementFails

Next ==
    \/ \E k \in Clients : Receive(k) \/ Step(k) \/ Abandon(k)
    \/ Background
    \/ Restart

Spec == Init /\ [][Next]_vars

\* The scheduler runs the task, and a statement that is tried for ever
\* succeeds in the end: the database comes back.
LoopFairness == WF_vars(Tick) /\ SF_vars(DecayTick) /\ SF_vars(ArchiveLowDecay)
FairSpec == Spec /\ LoopFairness

-----------------------------------------------------------------------------
(* Properties.                                                             *)

\* Every column and local variable stays in its range; entries name only
\* excerpts of known entries.
TypeOK ==
    /\ tier     \in [Entries -> Tiers \cup {"absent", "deleted"}]
    /\ decay    \in [Entries -> 0..DecayTicks]
    /\ archived \in [Entries -> BOOLEAN]
    /\ content  \in [Entries -> SUBSET Excerpts]
    /\ embedded \in [Entries -> SUBSET Excerpts]
    /\ sources  \in [Entries -> SUBSET Entries]
    /\ loop     \in {"wait", "decay", "archive"}
    /\ pc       \in [Clients -> Labels]
    /\ entry    \in [Clients -> Entries]
    /\ ids      \in [Clients -> Seq(Entries)]
    /\ todo     \in [Clients -> 0..2]
    /\ first    \in [Clients -> SUBSET Excerpts]
    /\ second   \in [Clients -> SUBSET Excerpts]
    /\ patch    \in [Clients -> {"keep", "hide", "show"}]

\* The background task leaves verified facts alone, whatever promotions race
\* with its two statements: only a client's patch hides a verified fact.
VerifiedNeverFades ==
    [][\A e \in Entries : tier[e] = "verified" =>
         /\ decay'[e] = decay[e]
         /\ archived'[e] # archived[e] =>
               \E k \in Clients : pc[k] = "patch_archived" /\ entry[k] = e]_vars

\* The embedding of an entry covers all of its text that nobody patched,
\* although a consolidation loads its sources twice and they may be deleted,
\* archived, promoted or patched in between.
Originals(text) == {x \in text : x[2] = Original}
EmbeddingCovers ==
    \A e \in Entries : Originals(content[e]) \subseteq embedded[e]

\* A raw entry that nothing was consolidated from does not stay in the searched
\* part of the memory for ever: once clients stop, all of them are archived and
\* stay so, those a client took out of the archive included, since no patch
\* gives decay_score back.  The sources of consolidated entries are exempt, as
\* the documentation exempts them; so would be the entries a search has found,
\* and no request of this module is a search.
Used(e) == \E c \in Entries : tier[c] = "consolidated" /\ e \in sources[c]
RawForgotten ==
    \A e \in Entries : tier[e] = "raw" /\ ~Used(e) => archived[e]
EventuallyForgotten == <>[]RawForgotten
=============================================================================
