------------------------- MODULE MemoryStore_proofs ------------------------
(***************************************************************************)
(* Theorems about MemoryStore and the two modules that extend it:          *)
(* ContextWeaver, which reads it, and ServerLife, which runs it.  They     *)
(* hold for every set of entries, clients and weavers, every number of     *)
(* ticks and every budget, any settings and any number of migrations.      *)
(***************************************************************************)
EXTENDS ContextWeaver, ServerLife, FiniteSetTheorems, SequenceTheorems, TLAPS

Placing  == INSTANCE SequenceFolds WITH Op <- PlacePiece
Spending == INSTANCE SequenceFolds WITH Op <- Spend
Taking   == INSTANCE SequenceFolds WITH Op <- Take

USE DEF rowVars, clientVars

-----------------------------------------------------------------------------
(* Type correctness.                                                       *)

RowTypeOK ==
    /\ tier     \in [Entries -> Tiers \cup {"absent", "deleted"}]
    /\ decay    \in [Entries -> 0..DecayTicks]
    /\ archived \in [Entries -> BOOLEAN]
    /\ content  \in [Entries -> SUBSET Excerpts]
    /\ embedded \in [Entries -> SUBSET Excerpts]
    /\ sources  \in [Entries -> SUBSET Entries]

ClientTypeOK ==
    /\ pc       \in [Clients -> Labels]
    /\ entry    \in [Clients -> Entries]
    /\ ids      \in [Clients -> Seq(Entries)]
    /\ todo     \in [Clients -> 0..2]
    /\ first    \in [Clients -> SUBSET Excerpts]
    /\ second   \in [Clients -> SUBSET Excerpts]
    /\ patch    \in [Clients -> {"keep", "hide", "show"}]

LoopTypeOK == loop \in {"wait", "decay", "archive"}

Gathering == {"load", "embed", "reload", "insert_consolidated"}

\* A consolidation works on two ids, of which `todo` are still to load.
TwoIds ==
    \A k \in Clients : pc[k] \in Gathering =>
        /\ Len(ids[k]) = 2
        /\ ids[k][1] \in Entries /\ ids[k][2] \in Entries
        /\ Known(ids[k][1]) /\ Known(ids[k][2])

Inv == RowTypeOK /\ ClientTypeOK /\ LoopTypeOK /\ TwoIds

LEMMA TypeParts == TypeOK <=> RowTypeOK /\ ClientTypeOK /\ LoopTypeOK
  BY DEF TypeOK, RowTypeOK, ClientTypeOK, LoopTypeOK

LEMMA LabelFacts ==
    {"idle", "insert", "patch_content", "patch_archived", "delete", "load",
     "embed", "reload", "insert_consolidated", "promote", "ok", "error"}
        \subseteq Labels
  BY DEF Labels

LEMMA InitInv == Init => Inv
  <1> SUFFICES ASSUME Init
               PROVE  Inv
    OBVIOUS
  <1>1. RowTypeOK
    BY MemoryAssumption DEF Init, RowTypeOK
  <1>2. <<>> \in Seq(Entries)
    OBVIOUS
  <1>3. (CHOOSE e \in Entries : TRUE) \in Entries
    BY MemoryAssumption
  <1>4. ids \in [Clients -> Seq(Entries)]
    <2>1. ids = [k \in Clients |-> <<>>]
      BY DEF Init
    <2> QED
      BY ONLY <1>2, <2>1, Zenon
  <1>5. entry \in [Clients -> Entries]
    <2>1. entry = [k \in Clients |-> CHOOSE e \in Entries : TRUE]
      BY DEF Init
    <2> QED
      BY ONLY <1>3, <2>1, Zenon
  <1>6. todo \in [Clients -> 0..2]
    BY DEF Init
  <1>7. /\ pc    \in [Clients -> Labels]
        /\ first  \in [Clients -> SUBSET Excerpts]
        /\ second \in [Clients -> SUBSET Excerpts]
        /\ patch \in [Clients -> {"keep", "hide", "show"}]
    BY LabelFacts DEF Init
  <1> QED
    BY <1>1, <1>4, <1>5, <1>6, <1>7
       DEF Init, Inv, ClientTypeOK, LoopTypeOK, TwoIds, Gathering

\* Texts that were loaded are made of excerpts.
LEMMA TextType ==
    ASSUME RowTypeOK, NEW e \in Entries
    PROVE  TextOf(e) \subseteq Excerpts
  BY DEF RowTypeOK, TextOf

LEMMA NextIdType ==
    ASSUME ClientTypeOK, TwoIds, NEW k \in Clients, pc[k] \in Gathering,
           todo[k] > 0
    PROVE  /\ NextId(k) \in Entries
           /\ todo[k] = 1 => NextId(k) = ids[k][2]
           /\ todo[k] = 2 => NextId(k) = ids[k][1]
           /\ todo[k] \in {1, 2}
  <1>1. todo[k] \in {1, 2}
    BY DEF ClientTypeOK
  <1>2. Len(ids[k]) = 2 /\ ids[k][1] \in Entries /\ ids[k][2] \in Entries
    BY DEF TwoIds
  <1>3. CASE todo[k] = 1
    <2>1. Len(ids[k]) - todo[k] + 1 = 2
      BY <1>2, <1>3
    <2> QED
      BY <1>2, <1>3, <2>1 DEF NextId
  <1>4. CASE todo[k] = 2
    <2>1. Len(ids[k]) - todo[k] + 1 = 1
      BY <1>2, <1>4
    <2> QED
      BY <1>2, <1>4, <2>1 DEF NextId
  <1> QED
    BY <1>1, <1>3, <1>4

\* Rows come and go but an id once used is never unused again.
KnownStays == \A e \in Entries : Known(e) => Known(e)'

\* A client's step changes its own label only.
OwnLabel(k) ==
    /\ \A j \in Clients \ {k} : pc'[j] = pc[j]
    /\ UNCHANGED ids

LEMMA StepInv ==
    ASSUME Inv, NEW k \in Clients, Step(k)
    PROVE  Inv' /\ KnownStays
  <1> USE LabelFacts DEF Inv
  <1>0. /\ entry[k] \in Entries
        /\ pc \in [Clients -> Labels]
        /\ \A e \in Entries : tier[e] \in Tiers \cup {"absent", "deleted"}
    BY DEF ClientTypeOK, RowTypeOK
  <1>n. todo[k] = 0 \/ todo[k] > 0
    <2>1. todo[k] \in 0..2
      BY DEF ClientTypeOK
    <2> QED
      BY <2>1
  <1>t. "raw" \in Tiers /\ "verified" \in Tiers /\ "consolidated" \in Tiers
        /\ "absent" \notin Tiers
    BY DEF Tiers
  <1>a. ASSUME NEW l \in Labels, Goto(k, l), UNCHANGED <<rowVars, loop>>,
               UNCHANGED <<entry, ids, patch>>,
               first' \in [Clients -> SUBSET Excerpts],
               second' \in [Clients -> SUBSET Excerpts],
               todo' \in [Clients -> 0..2],
               l \in Gathering => pc[k] \in Gathering
        PROVE  Inv' /\ KnownStays
    BY <1>0, <1>a
       DEF Goto, RowTypeOK, ClientTypeOK, LoopTypeOK, TwoIds, Known,
           KnownStays, Gathering
  <1>b. ASSUME NEW l \in Labels \ Gathering, Goto(k, l), RowTypeOK',
               KnownStays,
               UNCHANGED <<loop, entry, ids, todo, first, second, patch>>
        PROVE  Inv' /\ KnownStays
    <2>1. \A j \in Clients : pc'[j] \in Gathering => pc[j] \in Gathering
      BY <1>0, <1>b DEF Goto
    <2>2. TwoIds'
      BY <1>b, <2>1 DEF TwoIds, KnownStays
    <2> QED
      BY <1>0, <1>b, <2>2 DEF Goto, ClientTypeOK, LoopTypeOK
  <1>f. CASE StatementFails(k)
    BY <1>f, <1>a DEF StatementFails, Gathering, ClientTypeOK
  <1>1. CASE InsertRaw(k) /\ ~StatementFails(k)
    <2>1. PICK e \in Entries :
             /\ tier[e] = "absent"
             /\ NewRow(e, "raw", {<<e, Original>>}, {<<e, Original>>}, {})
      BY <1>1 DEF InsertRaw, EmbeddingFails
    <2>2. {<<e, Original>>} \subseteq Excerpts
      BY DEF Excerpts
    <2>3. RowTypeOK' /\ KnownStays
      BY <1>0, <1>t, <2>1, <2>2 DEF NewRow, RowTypeOK, KnownStays, Known
    <2> QED
      BY <1>1, <1>b, <2>3 DEF InsertRaw, EmbeddingFails, Gathering
  <1>2. CASE Delete(k) /\ ~StatementFails(k)
    <2>1. RowTypeOK' /\ KnownStays
      BY <1>0, <1>2 DEF Delete, RowTypeOK, KnownStays, Known
    <2> QED
      BY <1>2, <1>b, <2>1 DEF Delete, Gathering
  <1>3. CASE PromoteToVerified(k) /\ ~StatementFails(k)
    <2>1. RowTypeOK' /\ KnownStays
      BY <1>0, <1>t, <1>3
         DEF PromoteToVerified, RowTypeOK, KnownStays, Known
    <2> QED
      BY <1>3, <1>b, <2>1 DEF PromoteToVerified, Gathering
  <1>4. CASE PatchContent(k) /\ ~StatementFails(k)
    <2>1. {<<entry[k], k>>} \subseteq Excerpts
      BY <1>0 DEF Excerpts
    <2>2. RowTypeOK' /\ KnownStays
      BY <1>0, <1>4, <2>1 DEF PatchContent, RowTypeOK, KnownStays, Known
    <2> QED
      BY <1>4, <1>b, <2>2 DEF PatchContent, Gathering
  <1>5. CASE PatchArchived(k) /\ ~StatementFails(k)
    <2>1. (patch[k] = "hide") \in BOOLEAN
      OBVIOUS
    <2>2. archived' \in [Entries -> BOOLEAN]
      BY <1>0, <1>5, <2>1 DEF PatchArchived, RowTypeOK
    <2>3. RowTypeOK' /\ KnownStays
      BY <1>5, <2>2 DEF PatchArchived, RowTypeOK, KnownStays, Known
    <2> QED
      BY <1>5, <1>b, <2>3 DEF PatchArchived, Gathering
  <1>6. CASE LoadSource(k) /\ ~StatementFails(k)
    <2>1. pc[k] \in Gathering
      BY <1>6 DEF LoadSource, Gathering
    <2>2. CASE todo[k] > 0
      <3>1. NextId(k) \in Entries /\ todo[k] \in {1, 2}
        BY <2>1, <2>2, NextIdType
      <3>2. first' \in [Clients -> SUBSET Excerpts]
        <4>1. first' = [first EXCEPT ![k] = @ \cup TextOf(NextId(k))]
          BY <1>6, <2>2 DEF LoadSource
        <4>2. TextOf(NextId(k)) \subseteq Excerpts
          BY <3>1, TextType
        <4>3. first \in [Clients -> SUBSET Excerpts]
          BY DEF ClientTypeOK
        <4>4. first[k] \cup TextOf(NextId(k)) \in SUBSET Excerpts
          BY <4>2, <4>3
        <4> QED
          BY ONLY <4>1, <4>3, <4>4
      <3>3. todo' \in [Clients -> 0..2]
        <4>1. todo' = [todo EXCEPT ![k] = @ - 1]
          BY <1>6, <2>2 DEF LoadSource
        <4>2. todo[k] - 1 \in 0..2
          BY <3>1
        <4>3. todo \in [Clients -> 0..2]
          BY DEF ClientTypeOK
        <4> QED
          BY ONLY <4>1, <4>2, <4>3
      <3> QED
        BY <1>6, <2>2, <3>2, <3>3
           DEF LoadSource, RowTypeOK, ClientTypeOK, LoopTypeOK, TwoIds,
               Known, KnownStays
    <2>3. CASE todo[k] = 0
      <3>1. PICK l \in {"error", "embed"} :
               /\ Goto(k, l)
               /\ UNCHANGED <<rowVars, loop, entry, ids, todo, first, second,
                              patch>>
        BY <1>6, <2>3 DEF LoadSource
      <3> QED
        BY <1>a, <2>1, <3>1 DEF ClientTypeOK
    <2> QED
      BY <1>n, <2>2, <2>3
  <1>7. CASE Embed(k) /\ ~StatementFails(k)
    <2>1. pc[k] \in Gathering /\ Len(ids[k]) = 2
      BY <1>7 DEF Embed, Gathering, TwoIds
    <2>2. todo' \in [Clients -> 0..2]
      <3>1. todo' = [todo EXCEPT ![k] = Len(ids[k])]
        BY <1>7 DEF Embed, EmbeddingFails
      <3>2. todo \in [Clients -> 0..2]
        BY DEF ClientTypeOK
      <3>3. 2 \in 0..2
        OBVIOUS
      <3> QED
        BY ONLY <2>1, <3>1, <3>2, <3>3
    <2> QED
      BY <1>7, <1>a, <2>1, <2>2 DEF Embed, EmbeddingFails, ClientTypeOK
  <1>8. CASE ReloadSource(k) /\ ~StatementFails(k)
    <2>1. pc[k] \in Gathering
      BY <1>8 DEF ReloadSource, Gathering
    <2>2. CASE todo[k] > 0
      <3>1. NextId(k) \in Entries /\ todo[k] \in {1, 2}
        BY <2>1, <2>2, NextIdType
      <3>2. second' \in [Clients -> SUBSET Excerpts]
        <4>1. second' = [second EXCEPT ![k] = @ \cup TextOf(NextId(k))]
          BY <1>8, <2>2 DEF ReloadSource
        <4>2. TextOf(NextId(k)) \subseteq Excerpts
          BY <3>1, TextType
        <4>3. second \in [Clients -> SUBSET Excerpts]
          BY DEF ClientTypeOK
        <4>4. second[k] \cup TextOf(NextId(k)) \in SUBSET Excerpts
          BY <4>2, <4>3
        <4> QED
          BY ONLY <4>1, <4>3, <4>4
      <3>3. todo' \in [Clients -> 0..2]
        <4>1. todo' = [todo EXCEPT ![k] = @ - 1]
          BY <1>8, <2>2 DEF ReloadSource
        <4>2. todo[k] - 1 \in 0..2
          BY <3>1
        <4>3. todo \in [Clients -> 0..2]
          BY DEF ClientTypeOK
        <4> QED
          BY ONLY <4>1, <4>2, <4>3
      <3> QED
        BY <1>8, <2>2, <3>2, <3>3
           DEF ReloadSource, RowTypeOK, ClientTypeOK, LoopTypeOK, TwoIds,
               Known, KnownStays
    <2>3. CASE todo[k] = 0
      <3>1. PICK l \in {"error", "insert_consolidated"} :
               /\ Goto(k, l)
               /\ UNCHANGED <<rowVars, loop, entry, ids, todo, first, second,
                              patch>>
        BY <1>8, <2>3 DEF ReloadSource
      <3> QED
        BY <1>a, <2>1, <3>1 DEF ClientTypeOK
    <2> QED
      BY <1>n, <2>2, <2>3
  <1>9. CASE InsertConsolidated(k) /\ ~StatementFails(k)
    <2>1. pc[k] \in Gathering
      BY <1>9 DEF InsertConsolidated, Gathering
    <2>2. CASE ~Present(ids[k][1])
      BY <1>9, <1>a, <2>1, <2>2 DEF InsertConsolidated, ClientTypeOK
    <2>3. CASE Present(ids[k][1])
      <3>1. PICK e \in Entries :
               /\ tier[e] = "absent"
               /\ NewRow(e, "consolidated", second[k], first[k],
                         {ids[k][i] : i \in 1..Len(ids[k])})
        BY <1>9, <2>3 DEF InsertConsolidated
      <3>2. {ids[k][i] : i \in 1..Len(ids[k])} \subseteq Entries
        BY <2>1 DEF TwoIds
      <3>3. RowTypeOK' /\ KnownStays
        BY <1>0, <1>t, <3>1, <3>2
           DEF NewRow, RowTypeOK, ClientTypeOK, KnownStays, Known
      <3> QED
        BY <1>9, <1>b, <2>3, <3>3 DEF InsertConsolidated, Gathering
    <2> QED
      BY <2>2, <2>3
  <1> QED
    BY <1>f, <1>1, <1>2, <1>3, <1>4, <1>5, <1>6, <1>7, <1>8, <1>9 DEF Step

LEMMA ReceiveInv ==
    ASSUME Inv, NEW k \in Clients, Receive(k)
    PROVE  Inv' /\ KnownStays
  <1> USE LabelFacts DEF Inv
  <1>1. UNCHANGED <<rowVars, loop, first, second>> /\ pc[k] = "idle"
    BY DEF Receive, BeginInsert, BeginOn, BeginPatch, BeginConsolidate, Begin
  <1>2. RowTypeOK' /\ LoopTypeOK' /\ KnownStays
    BY <1>1 DEF RowTypeOK, LoopTypeOK, KnownStays, Known
  <1>a. ASSUME NEW l \in Labels \ Gathering, Goto(k, l), UNCHANGED <<ids, todo>>,
               entry' \in [Clients -> Entries],
               patch' \in [Clients -> {"keep", "hide", "show"}]
        PROVE  ClientTypeOK' /\ TwoIds'
    BY <1>1, <1>a DEF Goto, ClientTypeOK, TwoIds, Known
  <1>3. CASE BeginInsert(k)
    BY <1>2, <1>3, <1>a DEF BeginInsert, Begin, ClientTypeOK, Gathering
  <1>4. ASSUME NEW e \in Entries, NEW o \in Ops, BeginOn(k, e, o)
        PROVE  Inv' /\ KnownStays
    <2>1. o \in Labels \ Gathering
      BY <1>4 DEF BeginOn, Gathering
    <2> QED
      BY <1>2, <1>4, <1>a, <2>1 DEF BeginOn, Begin, ClientTypeOK
  <1>5. ASSUME NEW e \in Entries, NEW w \in BOOLEAN,
               NEW p \in {"keep", "hide", "show"}, BeginPatch(k, e, w, p)
        PROVE  Inv' /\ KnownStays
    <2>1. PICK l \in {"patch_content", "patch_archived"} : Goto(k, l)
      BY <1>5 DEF BeginPatch, Begin
    <2>2. l \in Labels \ Gathering
      BY DEF Gathering
    <2> QED
      BY <1>2, <1>5, <1>a, <2>1, <2>2 DEF BeginPatch, ClientTypeOK
  <1>6. ASSUME NEW e \in Entries, NEW f \in Entries, BeginConsolidate(k, e, f)
        PROVE  Inv' /\ KnownStays
    <2>1. /\ <<e, f>> \in Seq(Entries) /\ Len(<<e, f>>) = 2
          /\ <<e, f>>[1] = e /\ <<e, f>>[2] = f
      OBVIOUS
    <2>2. ids' = [ids EXCEPT ![k] = <<e, f>>] /\ Known(e) /\ Known(f)
      BY <1>6 DEF BeginConsolidate
    <2>3. ids \in [Clients -> Seq(Entries)]
      BY DEF ClientTypeOK
    <2>4. ids' \in [Clients -> Seq(Entries)]
      BY ONLY <2>1, <2>2, <2>3
    <2>5. /\ ids'[k] = <<e, f>>
          /\ \A j \in Clients \ {k} : ids'[j] = ids[j]
      BY ONLY <2>2, <2>3
    <2>6. /\ pc' = [pc EXCEPT ![k] = "load"]
          /\ todo' = [todo EXCEPT ![k] = 2]
          /\ UNCHANGED <<entry, patch>>
      BY <1>6 DEF BeginConsolidate, Begin, Goto
    <2>7. todo' \in [Clients -> 0..2]
      BY <2>6 DEF ClientTypeOK
    <2>8. ClientTypeOK'
      BY <1>1, <2>4, <2>6, <2>7 DEF ClientTypeOK
    <2>9. TwoIds'
      BY <1>1, <2>1, <2>2, <2>5, <2>6 DEF ClientTypeOK, TwoIds, Known
    <2> QED
      BY <1>2, <2>8, <2>9
  <1> QED
    BY <1>3, <1>4, <1>5, <1>6 DEF Receive

LEMMA BackgroundInv ==
    ASSUME Inv, Background
    PROVE  Inv' /\ KnownStays
  <1> USE DEF Inv
  <1>1. UNCHANGED <<clientVars, tier, content, embedded, sources>>
    BY DEF Background, Tick, DecayTick, ArchiveLowDecay, LoopStatementFails
  <1>2. ClientTypeOK' /\ TwoIds' /\ KnownStays
    BY <1>1 DEF ClientTypeOK, TwoIds, Known, KnownStays
  <1>3. LoopTypeOK'
    BY DEF Background, Tick, DecayTick, ArchiveLowDecay, LoopStatementFails,
           LoopTypeOK
  <1>4. decay' \in [Entries -> 0..DecayTicks]
    <2>1. decay \in [Entries -> 0..DecayTicks]
      BY DEF RowTypeOK
    <2>2. CASE decay' = decay
      BY <2>1, <2>2
    <2>3. CASE DecayTick
      <3>1. \A n \in 0..DecayTicks : n > 0 => n - 1 \in 0..DecayTicks
        BY MemoryAssumption
      <3>2. \A e \in Entries :
               (IF Fades(e) /\ decay[e] > 0 THEN decay[e] - 1 ELSE decay[e])
                   \in 0..DecayTicks
        BY <2>1, <3>1
      <3> QED
        BY <2>3, <3>2 DEF DecayTick
    <2> QED
      BY <2>2, <2>3 DEF Background, Tick, ArchiveLowDecay, LoopStatementFails
  <1>5. archived' \in [Entries -> BOOLEAN]
    <2>1. archived \in [Entries -> BOOLEAN]
      BY DEF RowTypeOK
    <2>2. CASE archived' = archived
      BY <2>1, <2>2
    <2>3. CASE ArchiveLowDecay
      <3>1. \A e \in Entries :
               (archived[e] \/ (tier[e] = "raw" /\ decay[e] = 0)) \in BOOLEAN
        BY Zenon
      <3> QED
        BY <2>3, <3>1 DEF ArchiveLowDecay
    <2> QED
      BY <2>2, <2>3 DEF Background, Tick, DecayTick, LoopStatementFails
  <1> QED
    BY <1>1, <1>2, <1>3, <1>4, <1>5 DEF RowTypeOK

LEMMA AbandonInv ==
    ASSUME Inv, Restart \/ \E k \in Clients : Abandon(k)
    PROVE  Inv' /\ KnownStays
  <1> USE LabelFacts DEF Inv
  <1>1. UNCHANGED <<rowVars, entry, ids, todo, first, second, patch>>
    BY DEF Restart, Abandon
  <1>2. RowTypeOK' /\ LoopTypeOK' /\ KnownStays
    BY <1>1 DEF Restart, Abandon, RowTypeOK, LoopTypeOK, Known, KnownStays
  <1>3. pc' \in [Clients -> Labels]
    BY DEF Restart, Abandon, Goto, ClientTypeOK
  <1>4. \A k \in Clients : pc'[k] = pc[k] \/ pc'[k] = "error"
    BY DEF Restart, Abandon, Goto, ClientTypeOK
  <1>5. ClientTypeOK' /\ TwoIds'
    BY <1>1, <1>3, <1>4 DEF ClientTypeOK, TwoIds, Gathering, Known
  <1> QED
    BY <1>2, <1>5

LEMMA NextInv ==
    ASSUME Inv, [Next]_vars
    PROVE  Inv' /\ KnownStays
  <1>1. CASE UNCHANGED vars
    BY <1>1
       DEF vars, Inv, RowTypeOK, ClientTypeOK, LoopTypeOK, TwoIds, Known,
           KnownStays
  <1>2. CASE Next
    BY <1>2, StepInv, ReceiveInv, BackgroundInv, AbandonInv DEF Next
  <1> QED
    BY <1>1, <1>2

\* Rows, local variables and labels keep their types, and a consolidation
\* always has two ids of entries that were inserted.
THEOREM InvCorrect == Spec => []Inv
  <1>1. Inv /\ [Next]_vars => Inv'
    BY NextInv
  <1> QED
    BY InitInv, <1>1, PTL DEF Spec

\* TypeOK, for every set of entries and clients.
THEOREM TypeCorrect == Spec => []TypeOK
  <1>1. Inv => TypeOK
    BY TypeParts DEF Inv
  <1> QED
    BY InvCorrect, <1>1, PTL

-----------------------------------------------------------------------------
(* The background task and verified facts.                                 *)

\* VerifiedNeverFades, whatever promotions, patches and failures race with
\* the two statements of the task.
THEOREM VerifiedKept == Spec => VerifiedNeverFades
  <1> DEFINE Kept ==
        \A e \in Entries : tier[e] = "verified" =>
            /\ decay'[e] = decay[e]
            /\ archived'[e] # archived[e] =>
                  \E k \in Clients : pc[k] = "patch_archived" /\ entry[k] = e
  <1>1. ASSUME Inv, [Next]_vars
        PROVE  Kept
    <2>1. CASE UNCHANGED <<decay, archived>>
      BY <2>1
    <2>2. ASSUME NEW k \in Clients, PatchArchived(k)
          PROVE  Kept
      BY <1>1, <2>2
         DEF PatchArchived, StatementFails, Inv, RowTypeOK, ClientTypeOK
    <2>3. CASE DecayTick
      BY <2>3 DEF DecayTick, Fades
    <2>4. CASE ArchiveLowDecay
      <3>1. \A e \in Entries :
               tier[e] = "verified" => archived'[e] = archived[e]
        BY <1>1, <2>4 DEF ArchiveLowDecay, Inv, RowTypeOK
      <3> QED
        BY <2>4, <3>1 DEF ArchiveLowDecay
    <2>5. ASSUME NEW k \in Clients, Step(k), ~PatchArchived(k)
          PROVE  UNCHANGED <<decay, archived>>
      BY <2>5
         DEF Step, InsertRaw, NewRow, Delete, PromoteToVerified, PatchContent,
             LoadSource, Embed, ReloadSource, InsertConsolidated,
             StatementFails, EmbeddingFails
    <2>6. ASSUME NEW k \in Clients, Receive(k) \/ Abandon(k)
          PROVE  UNCHANGED <<decay, archived>>
      BY <2>6
         DEF Receive, BeginInsert, BeginOn, BeginPatch, BeginConsolidate,
             Begin, Abandon
    <2>7. CASE Tick \/ LoopStatementFails \/ Restart \/ UNCHANGED vars
      BY <2>1, <2>7 DEF Tick, LoopStatementFails, Restart, vars
    <2> HIDE DEF Kept
    <2> QED
      BY <1>1, <2>1, <2>2, <2>3, <2>4, <2>5, <2>6, <2>7 DEF Next, Background
  <1> QED
    BY InvCorrect, <1>1, PTL DEF Spec, VerifiedNeverFades

-----------------------------------------------------------------------------
(* Consolidated entries and their embedding.                               *)

\* What is left of the text an entry was inserted with only ever disappears.
OwnText(e) == Originals(TextOf(e))
TextShrinks == \A e \in Entries : Known(e) => OwnText(e)' \subseteq OwnText(e)

\* What a consolidation loaded first covers whatever is left of the sources.
FirstCovers(k) ==
    /\ pc[k] = "load" /\ todo[k] <= 1 => OwnText(ids[k][1]) \subseteq first[k]
    /\ pc[k] = "load" /\ todo[k] = 0  => OwnText(ids[k][2]) \subseteq first[k]
    /\ pc[k] \in {"embed", "reload", "insert_consolidated"} =>
          /\ OwnText(ids[k][1]) \subseteq first[k]
          /\ OwnText(ids[k][2]) \subseteq first[k]

SecondCovered(k) == Originals(second[k]) \subseteq first[k]

CoverInv ==
    /\ EmbeddingCovers
    /\ \A k \in Clients : FirstCovers(k) /\ SecondCovered(k)

\* The original excerpts of a union are those of its parts.
LEMMA OriginalsUnion ==
    \A S, T : /\ Originals(S \cup T) = Originals(S) \cup Originals(T)
              /\ Originals(S) \subseteq S
              /\ S \subseteq T => Originals(S) \subseteq Originals(T)
  BY DEF Originals

\* A text somebody patched in has no original excerpt.
LEMMA PatchedOriginals ==
    \A e, k : k \in Clients => Originals({<<e, k>>}) = {}
  BY MemoryAssumption DEF Originals

LEMMA CoverInit == Init => CoverInv
  BY DEF Init, CoverInv, EmbeddingCovers, FirstCovers, SecondCovered, Originals

\* A step that leaves the labels and local variables of client j alone, and
\* lets no text grow, keeps the invariant of j.
LEMMA CoverFrame ==
    ASSUME Inv, CoverInv, TextShrinks, NEW j \in Clients,
           pc'[j] \in {pc[j], "error", "ok", "patch_archived"},
           UNCHANGED ids, todo'[j] = todo[j], first'[j] = first[j],
           second'[j] = second[j]
    PROVE  (FirstCovers(j) /\ SecondCovered(j))'
  <1>1. pc[j] \in Gathering =>
           /\ OwnText(ids[j][1])' \subseteq OwnText(ids[j][1])
           /\ OwnText(ids[j][2])' \subseteq OwnText(ids[j][2])
    BY DEF Inv, TwoIds, TextShrinks
  <1>2. FirstCovers(j) /\ SecondCovered(j)
    BY DEF CoverInv
  <1>3. FirstCovers(j)'
    BY <1>1, <1>2 DEF FirstCovers, Gathering
  <1> QED
    BY <1>2, <1>3 DEF SecondCovered

\* Steps that change no row.
LEMMA CoverSameRows ==
    ASSUME Inv, CoverInv, UNCHANGED rowVars
    PROVE  TextShrinks /\ EmbeddingCovers'
  BY DEF CoverInv, EmbeddingCovers, TextShrinks, OwnText, TextOf, Present

LEMMA NewRowShrinks ==
    ASSUME Inv, CoverInv, NEW e \in Entries, tier[e] = "absent",
           NEW t, NEW text, NEW embedding, NEW from,
           Originals(text) \subseteq embedding,
           NewRow(e, t, text, embedding, from)
    PROVE  TextShrinks /\ EmbeddingCovers'
  <1>1. \A d \in Entries \ {e} : /\ tier'[d] = tier[d]
                                 /\ content'[d] = content[d]
                                 /\ embedded'[d] = embedded[d]
    BY DEF NewRow, Inv, RowTypeOK
  <1>2. content'[e] = text /\ embedded'[e] = embedding
    BY DEF NewRow, Inv, RowTypeOK
  <1> QED
    BY <1>1, <1>2
       DEF CoverInv, EmbeddingCovers, TextShrinks, OwnText, Originals, TextOf,
           Present, Known

\* The step of a consolidation other than the last.
LEMMA CoverGather ==
    ASSUME Inv, CoverInv, NEW k \in Clients,
           LoadSource(k) \/ Embed(k) \/ ReloadSource(k)
    PROVE  CoverInv'
  <1>1. UNCHANGED <<rowVars, ids>>
    BY DEF LoadSource, Embed, ReloadSource, StatementFails, EmbeddingFails
  <1>2. TextShrinks /\ EmbeddingCovers'
    BY <1>1, CoverSameRows
  <1>3. \A j \in Clients \ {k} :
           (FirstCovers(j) /\ SecondCovered(j))'
    <2>1. \A j \in Clients \ {k} :
             /\ pc'[j] = pc[j] /\ todo'[j] = todo[j]
             /\ first'[j] = first[j] /\ second'[j] = second[j]
      BY DEF LoadSource, Embed, ReloadSource, StatementFails, EmbeddingFails,
             Goto, Inv, ClientTypeOK
    <2> QED
      BY <1>1, <1>2, <2>1, CoverFrame
  <1>4. /\ pc[k] \in Gathering
        /\ FirstCovers(k) /\ SecondCovered(k)
        /\ pc \in [Clients -> Labels] /\ todo \in [Clients -> 0..2]
        /\ first \in [Clients -> SUBSET Excerpts]
        /\ second \in [Clients -> SUBSET Excerpts]
    BY DEF LoadSource, Embed, ReloadSource, Gathering, CoverInv, Inv,
           ClientTypeOK
  <1>5. \A e \in Entries : OwnText(e)' = OwnText(e)
    BY <1>1 DEF OwnText, TextOf, Present
  <1>6. ids[k][1] \in Entries /\ ids[k][2] \in Entries
    BY <1>4 DEF Inv, TwoIds
  <1>7. /\ OwnText(ids[k][1])' = OwnText(ids[k][1])
        /\ OwnText(ids[k][2])' = OwnText(ids[k][2])
    BY <1>1, <1>5, <1>6
  <1>8. todo[k] > 0 => /\ todo[k] = 1 => NextId(k) = ids[k][2]
                       /\ todo[k] = 2 => NextId(k) = ids[k][1]
                       /\ todo[k] \in {1, 2}
    BY <1>4, NextIdType DEF Inv
  <1> DEFINE Mine == (FirstCovers(k) /\ SecondCovered(k))'
  <1>n. todo[k] = 0 \/ todo[k] = 1 \/ todo[k] = 2
    <2>1. todo[k] \in 0..2
      BY <1>4
    <2> QED
      BY <2>1
  <1>a. ASSUME pc'[k] = "load" /\ todo'[k] <= 1 =>
                  OwnText(ids[k][1]) \subseteq first'[k],
               pc'[k] = "load" /\ todo'[k] = 0 =>
                  OwnText(ids[k][2]) \subseteq first'[k],
               pc'[k] \in {"embed", "reload", "insert_consolidated"} =>
                  /\ OwnText(ids[k][1]) \subseteq first'[k]
                  /\ OwnText(ids[k][2]) \subseteq first'[k],
               Originals(second'[k]) \subseteq first'[k]
        PROVE  Mine
    <2>1. FirstCovers(k)'
      BY <1>1, <1>7, <1>a DEF FirstCovers
    <2> QED
      BY <2>1, <1>a DEF SecondCovered
  <1>s. SUFFICES Mine
    BY <1>2, <1>3 DEF CoverInv
  <1> HIDE DEF Mine
  <1>9. CASE StatementFails(k)
    <2>1. pc'[k] = "error" /\ second'[k] = second[k] /\ first'[k] = first[k]
      BY <1>4, <1>9 DEF StatementFails, Goto
    <2> QED
      BY <1>4, <1>a, <2>1 DEF SecondCovered
  <1>10. CASE LoadSource(k) /\ ~StatementFails(k)
    <2>1. CASE todo[k] > 0
      <3>1. first' = [first EXCEPT ![k] = @ \cup TextOf(NextId(k))]
        BY <1>10, <2>1 DEF LoadSource
      <3>2. todo' = [todo EXCEPT ![k] = @ - 1]
        BY <1>10, <2>1 DEF LoadSource
      <3>3. pc' = pc /\ second' = second /\ pc[k] = "load"
        BY <1>10, <2>1 DEF LoadSource
      <3>4. /\ first[k] \subseteq first'[k]
            /\ OwnText(NextId(k)) \subseteq first'[k]
        BY <1>4, <3>1, OriginalsUnion DEF OwnText
      <3>5. todo'[k] = todo[k] - 1
        BY <1>4, <3>2
      <3>6. CASE todo[k] = 1
        <4>1. OwnText(ids[k][1]) \subseteq first[k]
          BY <1>4, <3>3, <3>6 DEF FirstCovers
        <4>2. OwnText(ids[k][2]) \subseteq first'[k]
          BY <1>8, <3>4, <3>6
        <4> QED
          BY <1>4, <1>a, <3>3, <3>4, <4>1, <4>2 DEF SecondCovered
      <3>7. CASE todo[k] = 2
        <4>1. OwnText(ids[k][1]) \subseteq first'[k]
          BY <1>8, <3>4, <3>7
        <4>2. todo'[k] = 1
          BY <3>5, <3>7
        <4> QED
          BY <1>4, <1>a, <3>3, <3>4, <4>1, <4>2 DEF SecondCovered
      <3> QED
        BY <1>n, <2>1, <3>6, <3>7
    <2>2. CASE todo[k] = 0
      <3>1. pc'[k] = "error" \/ pc'[k] = "embed"
        BY <1>4, <1>10, <2>2 DEF LoadSource, Goto
      <3>2. first' = first /\ second' = second /\ pc[k] = "load"
        BY <1>10, <2>2 DEF LoadSource
      <3>3. /\ OwnText(ids[k][1]) \subseteq first[k]
            /\ OwnText(ids[k][2]) \subseteq first[k]
        BY <1>4, <2>2, <3>2 DEF FirstCovers
      <3> QED
        BY <1>4, <1>a, <3>1, <3>2, <3>3 DEF SecondCovered, Gathering
    <2> QED
      BY <1>n, <2>1, <2>2
  <1>11. CASE Embed(k) /\ ~StatementFails(k)
    <2>1. first' = first /\ second' = second /\ pc[k] = "embed"
      BY <1>11 DEF Embed, EmbeddingFails
    <2>2. pc'[k] = "reload"
      BY <1>4, <1>11 DEF Embed, EmbeddingFails, Goto
    <2>3. /\ OwnText(ids[k][1]) \subseteq first[k]
          /\ OwnText(ids[k][2]) \subseteq first[k]
      BY <1>4, <2>1 DEF FirstCovers
    <2> QED
      BY <1>4, <1>a, <2>1, <2>2, <2>3 DEF SecondCovered, Gathering
  <1>12. CASE ReloadSource(k) /\ ~StatementFails(k)
    <2>1. first' = first /\ pc[k] = "reload"
      BY <1>12 DEF ReloadSource
    <2>2. /\ OwnText(ids[k][1]) \subseteq first[k]
          /\ OwnText(ids[k][2]) \subseteq first[k]
      BY <1>4, <2>1 DEF FirstCovers
    <2>3. CASE todo[k] > 0
      <3>1. NextId(k) = ids[k][1] \/ NextId(k) = ids[k][2]
        BY <1>n, <1>8, <2>3
      <3>2. second' = [second EXCEPT ![k] = @ \cup TextOf(NextId(k))]
        BY <1>12, <2>3 DEF ReloadSource
      <3>3. Originals(second'[k]) =
               Originals(second[k]) \cup OwnText(NextId(k))
        BY <1>4, <3>2, OriginalsUnion DEF OwnText
      <3>4. Originals(second'[k]) \subseteq first'[k]
        BY <1>4, <2>1, <2>2, <3>1, <3>3 DEF SecondCovered
      <3>5. pc' = pc
        BY <1>12, <2>3 DEF ReloadSource
      <3> QED
        BY <1>4, <1>a, <2>1, <2>2, <3>4, <3>5
    <2>4. CASE todo[k] = 0
      <3>1. pc'[k] = "error" \/ pc'[k] = "insert_consolidated"
        BY <1>4, <1>12, <2>4 DEF ReloadSource, Goto
      <3>2. second' = second
        BY <1>12, <2>4 DEF ReloadSource
      <3> QED
        BY <1>4, <1>a, <2>1, <2>2, <3>1, <3>2 DEF SecondCovered, Gathering
    <2> QED
      BY <1>n, <2>3, <2>4
  <1> QED
    BY <1>9, <1>10, <1>11, <1>12

\* The steps that change rows.
LEMMA CoverRowStep ==
    ASSUME Inv, CoverInv, NEW k \in Clients,
           \/ InsertRaw(k) \/ Delete(k) \/ PromoteToVerified(k)
           \/ PatchContent(k) \/ PatchArchived(k) \/ InsertConsolidated(k)
    PROVE  CoverInv'
  <1>1. UNCHANGED <<ids, todo, first, second>>
    BY DEF InsertRaw, Delete, PromoteToVerified, PatchContent, PatchArchived,
           InsertConsolidated, StatementFails, EmbeddingFails
  <1>2. \A j \in Clients :
           pc'[j] \in {pc[j], "error", "ok", "patch_archived"}
    BY DEF InsertRaw, Delete, PromoteToVerified, PatchContent, PatchArchived,
           InsertConsolidated, StatementFails, EmbeddingFails, Goto, Inv,
           ClientTypeOK
  <1>3. TextShrinks /\ EmbeddingCovers'
    <2>1. CASE UNCHANGED rowVars
      BY <2>1, CoverSameRows
    <2>2. CASE InsertRaw(k)
      BY <2>1, <2>2, NewRowShrinks, OriginalsUnion
         DEF InsertRaw, EmbeddingFails, StatementFails
    <2>3. CASE Delete(k) \/ PromoteToVerified(k) \/ PatchArchived(k)
      <3>1. UNCHANGED <<content, embedded>>
        BY <2>3 DEF Delete, PromoteToVerified, PatchArchived, StatementFails
      <3>2. \A e \in Entries : Present(e)' => Present(e)
        BY <2>3
           DEF Delete, PromoteToVerified, PatchArchived, StatementFails,
               Present, Tiers, Inv, RowTypeOK
      <3> QED
        BY <3>1, <3>2
           DEF TextShrinks, OwnText, Originals, TextOf, CoverInv,
               EmbeddingCovers
    <2>4. CASE InsertConsolidated(k)
      <3>1. Originals(second[k]) \subseteq first[k]
        BY DEF CoverInv, SecondCovered
      <3> QED
        BY <2>1, <2>4, <3>1, NewRowShrinks
           DEF InsertConsolidated, StatementFails
    <2>5. CASE PatchContent(k)
      <3>1. CASE ~StatementFails(k)
        <4>1. /\ UNCHANGED <<tier, embedded>>
              /\ \A e \in Entries :
                    content'[e] = content[e] \/ content'[e] = {<<e, k>>}
          BY <2>5, <3>1 DEF PatchContent, Inv, RowTypeOK
        <4>2. \A e \in Entries :
                 Originals(content'[e]) \subseteq Originals(content[e])
          BY <4>1, PatchedOriginals
        <4>3. EmbeddingCovers'
          BY <4>1, <4>2 DEF CoverInv, EmbeddingCovers, Originals
        <4>4. \A e \in Entries : OwnText(e)' \subseteq OwnText(e)
          BY <4>1, <4>2 DEF OwnText, TextOf, Present, Originals
        <4> QED
          BY <4>3, <4>4 DEF TextShrinks
      <3> QED
        BY <2>1, <3>1 DEF StatementFails
    <2> QED
      BY <2>2, <2>3, <2>4, <2>5
  <1>4. \A j \in Clients : (FirstCovers(j) /\ SecondCovered(j))'
    BY <1>1, <1>2, <1>3, CoverFrame
  <1> QED
    BY <1>3, <1>4 DEF CoverInv

\* Steps that leave texts and what was loaded of them alone.
LEMMA CoverOtherStep ==
    ASSUME Inv, CoverInv,
           \/ \E k \in Clients : Receive(k) \/ Abandon(k)
           \/ Background \/ Restart \/ UNCHANGED vars
    PROVE  CoverInv'
  <1>1. UNCHANGED <<tier, content, embedded, first, second>>
    BY DEF Receive, BeginInsert, BeginOn, BeginPatch, BeginConsolidate, Begin,
           Abandon, Background, Tick, DecayTick, ArchiveLowDecay,
           LoopStatementFails, Restart, vars
  <1>2. TextShrinks /\ EmbeddingCovers'
    BY <1>1
       DEF CoverInv, EmbeddingCovers, TextShrinks, OwnText, Originals, TextOf,
           Present
  <1>3. ASSUME NEW j \in Clients, pc'[j] = pc[j] \/ pc'[j] = "error",
               UNCHANGED <<ids, todo>>
        PROVE  (FirstCovers(j) /\ SecondCovered(j))'
    BY <1>1, <1>2, <1>3, CoverFrame
  <1>4. CASE \/ \E k \in Clients : Abandon(k)
             \/ Background \/ Restart \/ UNCHANGED vars
    <2>1. UNCHANGED <<ids, todo>>
      BY <1>4
         DEF Abandon, Background, Tick, DecayTick, ArchiveLowDecay,
             LoopStatementFails, Restart, vars
    <2>2. \A j \in Clients : pc'[j] = pc[j] \/ pc'[j] = "error"
      BY <1>4
         DEF Abandon, Goto, Background, Tick, DecayTick, ArchiveLowDecay,
             LoopStatementFails, Restart, vars, Inv, ClientTypeOK
    <2> QED
      BY <1>2, <1>3, <2>1, <2>2 DEF CoverInv
  <1>5. ASSUME NEW k \in Clients, Receive(k)
        PROVE  CoverInv'
    <2>1. PICK l \in {"insert", "delete", "promote", "load", "patch_content",
                     "patch_archived"} :
             pc' = [pc EXCEPT ![k] = l] /\ (l = "load" => todo'[k] = 2)
      BY <1>5
         DEF Receive, BeginInsert, BeginOn, BeginPatch, BeginConsolidate,
             Begin, Goto, Inv, ClientTypeOK
    <2>2. (FirstCovers(k) /\ SecondCovered(k))'
      <3>1. pc'[k] = l
        BY <2>1 DEF Inv, ClientTypeOK
      <3>2. SecondCovered(k)
        BY DEF CoverInv
      <3> QED
        BY <1>1, <2>1, <3>1, <3>2
           DEF FirstCovers, SecondCovered
    <2>3. ASSUME NEW j \in Clients \ {k}
          PROVE  (FirstCovers(j) /\ SecondCovered(j))'
      <3>1. pc'[j] = pc[j]
        BY <2>1 DEF Inv, ClientTypeOK
      <3>2. ids'[j] = ids[j] /\ todo'[j] = todo[j]
        BY <1>5
           DEF Receive, BeginInsert, BeginOn, BeginPatch, BeginConsolidate,
               Begin, Inv, ClientTypeOK
      <3>3. FirstCovers(j) /\ SecondCovered(j)
        BY DEF CoverInv
      <3> QED
        BY <1>1, <3>1, <3>2, <3>3
           DEF FirstCovers, SecondCovered, OwnText, Originals, TextOf, Present
    <2> QED
      BY <1>2, <2>2, <2>3 DEF CoverInv
  <1> QED
    BY <1>4, <1>5

\* EmbeddingCovers, for every schedule of inserts, consolidations, patches,
\* deletions, promotions and ticks.
THEOREM ConsolidatedCovered == Spec => []EmbeddingCovers
  <1>1. Inv /\ CoverInv /\ [Next]_vars => CoverInv'
    <2> SUFFICES ASSUME Inv, CoverInv, [Next]_vars
                 PROVE  CoverInv'
      OBVIOUS
    <2>1. ASSUME NEW k \in Clients, Step(k)
          PROVE  CoverInv'
      BY <2>1, CoverGather, CoverRowStep DEF Step
    <2> QED
      BY <2>1, CoverOtherStep DEF Next
  <1>2. CoverInv => EmbeddingCovers
    BY DEF CoverInv
  <1> QED
    BY CoverInit, InvCorrect, <1>1, <1>2, PTL DEF Spec
-----------------------------------------------------------------------------
(* What the weaver needs to know of the rows: texts are finite, and a tier  *)
(* is never left for a lower one.                                          *)

FiniteTexts ==
    /\ \A e \in Entries : IsFiniteSet(content[e])
    /\ \A k \in Clients : IsFiniteSet(second[k])

LEMMA FiniteInit == Init => FiniteTexts
  BY FS_EmptySet DEF Init, FiniteTexts

LEMMA FiniteNext ==
    ASSUME Inv, FiniteTexts, [Next]_vars
    PROVE  FiniteTexts'
  <1>1. /\ content \in [Entries -> SUBSET Excerpts]
        /\ second \in [Clients -> SUBSET Excerpts]
    BY DEF Inv, RowTypeOK, ClientTypeOK
  <1>2. CASE UNCHANGED <<content, second>>
    BY <1>2 DEF FiniteTexts
  <1>3. ASSUME NEW k \in Clients, Step(k)
        PROVE  FiniteTexts'
    <2>1. CASE InsertRaw(k)
      <3>1. CASE ~StatementFails(k)
        <4>1. PICK e \in Entries :
                 NewRow(e, "raw", {<<e, Original>>}, {<<e, Original>>}, {})
                 /\ second' = second
          BY <2>1, <3>1 DEF InsertRaw, EmbeddingFails
        <4>2. \A d \in Entries :
                 content'[d] = content[d] \/ content'[d] = {<<e, Original>>}
          BY <1>1, <4>1 DEF NewRow
        <4>3. IsFiniteSet({<<e, Original>>})
          BY FS_Singleton
        <4>4. \A d \in Entries : IsFiniteSet(content'[d])
          BY <4>2, <4>3 DEF FiniteTexts
        <4> QED
          BY <4>1, <4>4 DEF FiniteTexts
      <3> QED
        BY <1>2, <3>1 DEF StatementFails
    <2>2. CASE PatchContent(k)
      <3>1. \A d \in Entries :
               content'[d] = content[d] \/ content'[d] = {<<d, k>>}
        BY <1>1, <2>2 DEF PatchContent, StatementFails
      <3>2. second' = second
        BY <2>2 DEF PatchContent, StatementFails
      <3>3. \A d \in Entries : IsFiniteSet({<<d, k>>})
        BY FS_Singleton
      <3>4. \A d \in Entries : IsFiniteSet(content'[d])
        BY <3>1, <3>3 DEF FiniteTexts
      <3> QED
        BY <3>2, <3>4 DEF FiniteTexts
    <2>3. CASE InsertConsolidated(k)
      <3>1. \A d \in Entries :
               content'[d] = content[d] \/ content'[d] = second[k]
        BY <1>1, <2>3 DEF InsertConsolidated, StatementFails, NewRow
      <3>2. second' = second
        BY <2>3 DEF InsertConsolidated, StatementFails
      <3> QED
        BY <3>1, <3>2 DEF FiniteTexts
    <2>4. CASE ReloadSource(k)
      <3>1. content' = content
        BY <2>4 DEF ReloadSource, StatementFails
      <3>2. ASSUME todo[k] > 0
            PROVE  IsFiniteSet(second[k] \cup TextOf(NextId(k)))
        <4>1. NextId(k) \in Entries
          BY <2>4, <3>2, NextIdType DEF Inv, Gathering, ReloadSource
        <4>2. IsFiniteSet(TextOf(NextId(k)))
          BY <4>1, FS_EmptySet DEF TextOf, FiniteTexts
        <4> QED
          BY <4>2, FS_Union DEF FiniteTexts
      <3>3. \A j \in Clients :
               \/ second'[j] = second[j]
               \/ /\ todo[k] > 0
                  /\ second'[j] = second[k] \cup TextOf(NextId(k))
        BY <1>1, <2>4 DEF ReloadSource, StatementFails
      <3> QED
        BY <3>1, <3>2, <3>3 DEF FiniteTexts
    <2>5. CASE Delete(k) \/ PromoteToVerified(k) \/ PatchArchived(k)
               \/ LoadSource(k) \/ Embed(k)
      BY <1>2, <2>5
         DEF Delete, PromoteToVerified, PatchArchived, LoadSource, Embed,
             StatementFails, EmbeddingFails
    <2> QED
      BY <1>3, <2>1, <2>2, <2>3, <2>4, <2>5 DEF Step
  <1>4. ASSUME NEW k \in Clients, Receive(k) \/ Abandon(k)
        PROVE  UNCHANGED <<content, second>>
    BY <1>4
       DEF Receive, BeginInsert, BeginOn, BeginPatch, BeginConsolidate, Begin,
           Abandon
  <1>5. CASE Background \/ Restart \/ UNCHANGED vars
    BY <1>2, <1>5
       DEF Background, Tick, DecayTick, ArchiveLowDecay, LoopStatementFails,
           Restart, vars
  <1> QED
    BY <1>2, <1>3, <1>4, <1>5 DEF Next

\* The tiers an entry that was found in a tier, or above it, may be in later.
FromVerified     == {"verified", "deleted"}
FromConsolidated == {"consolidated", "verified", "deleted"}

LEMMA TiersRise ==
    ASSUME Inv, [Next]_vars, NEW e \in Entries
    PROVE  /\ tier[e] \in FromVerified => tier'[e] \in FromVerified
           /\ tier[e] \in FromConsolidated => tier'[e] \in FromConsolidated
  <1>1. tier \in [Entries -> Tiers \cup {"absent", "deleted"}]
    BY DEF Inv, RowTypeOK
  <1>2. CASE UNCHANGED tier
    BY <1>2
  <1>3. ASSUME NEW k \in Clients, Step(k)
        PROVE  \/ tier'[e] = tier[e]
               \/ tier[e] = "absent"
               \/ tier'[e] \in FromVerified
    BY <1>1, <1>3
       DEF Step, InsertRaw, NewRow, Delete, PromoteToVerified, PatchContent,
           PatchArchived, LoadSource, Embed, ReloadSource, InsertConsolidated,
           StatementFails, EmbeddingFails, FromVerified
  <1>4. ASSUME NEW k \in Clients, Receive(k) \/ Abandon(k)
        PROVE  UNCHANGED tier
    BY <1>4
       DEF Receive, BeginInsert, BeginOn, BeginPatch, BeginConsolidate, Begin,
           Abandon
  <1>5. CASE Background \/ Restart \/ UNCHANGED vars
    BY <1>2, <1>5
       DEF Background, Tick, DecayTick, ArchiveLowDecay, LoopStatementFails,
           Restart, vars
  <1> QED
    BY <1>2, <1>3, <1>4, <1>5 DEF Next, FromVerified, FromConsolidated

-----------------------------------------------------------------------------
(* One section of a context.                                               *)

Texts == [entry : Entries, whole : BOOLEAN, tokens : Nat]
Sections == [text : Seq(Texts), left : Nat, end : {"open", "cut", "full"}]

EntriesOf(pieces) == {pieces[i].entry : i \in DOMAIN pieces}

Once(pieces) ==
    \A i, j \in DOMAIN pieces : i # j => pieces[i].entry # pieces[j].entry

Fits(pieces) ==
    \A i \in DOMAIN pieces :
        Spent(SubSeq(pieces, 1, i - 1)) + pieces[i].tokens <= MaxMemoryTokens

\* What is left and what was spent do not exceed the budget of the context.
Affordable(section) ==
    /\ section \in Sections
    /\ Spent(section.text) \in Nat
    /\ Spent(section.text) + section.left <= MaxMemoryTokens
    /\ Fits(section.text)

LEMMA WeaverFolds ==
    /\ \A s : Spent(s) = Spending!Fold(0, s)
    /\ \A s : Taken(s) = Taking!Fold(0, s)
    /\ \A context, found, room :
          AddSection(context, found, room) =
             Placing!Fold(Opened(context, room),
                          [i \in DOMAIN found |-> Text(found[i])])
  <1>1. \A s : Spent(s) = Spending!Fold(0, s)
    BY DEF Spent, Spending!Fold, FoldLeft, Spending!FoldLeft, MapThenFoldSet,
           Spending!MapThenFoldSet, Max, Spending!Max
  <1>2. \A context, found, room :
           AddSection(context, found, room) =
              Placing!Fold(Opened(context, room),
                           [i \in DOMAIN found |-> Text(found[i])])
    BY DEF AddSection, Placing!Fold, FoldLeft, Placing!FoldLeft,
           MapThenFoldSet, Placing!MapThenFoldSet, Max, Placing!Max
  <1>3. \A s : Taken(s) = Taking!Fold(0, s)
    BY DEF Taken, Taking!Fold, FoldLeft, Taking!FoldLeft, MapThenFoldSet,
           Taking!MapThenFoldSet, Max, Taking!Max
  <1> QED
    BY <1>1, <1>2, <1>3

LEMMA TakenAppend ==
    ASSUME NEW s \in Seq(Texts), NEW p \in Texts
    PROVE  /\ Taken(Append(s, p)) = Taken(s) + p.tokens
           /\ Taken(<<>>) = 0
  BY WeaverFolds, Taking!FoldAppend, Taking!FoldEmpty DEF Take

LEMMA SpentAppend ==
    ASSUME NEW s \in Seq(Texts), NEW p \in Texts
    PROVE  /\ Spent(Append(s, p)) = Spend(Spent(s), p)
           /\ Spent(<<>>) = 0
  BY WeaverFolds, Spending!FoldAppend, Spending!FoldEmpty

LEMMA FitsAppend ==
    ASSUME NEW s \in Seq(Texts), NEW p \in Texts, Fits(s),
           Spent(s) + p.tokens <= MaxMemoryTokens
    PROVE  Fits(Append(s, p))
  <1> DEFINE a == Append(s, p)
             n == Len(s)
  <1>1. /\ n \in Nat /\ a \in Seq(Texts) /\ DOMAIN a = 1..(n + 1)
        /\ DOMAIN s = 1..n /\ a[n + 1] = p /\ \A i \in 1..n : a[i] = s[i]
    OBVIOUS
  <1>2. \A m \in 0..n : SubSeq(a, 1, m) = SubSeq(s, 1, m)
    BY Spending!PrefixesOfAppend
  <1>3. SubSeq(s, 1, n) = s
    BY Spending!PrefixesOfAppend
  <1> HIDE DEF a, n
  <1>4. ASSUME NEW i \in 1..(n + 1)
        PROVE  Spent(SubSeq(a, 1, i - 1)) + a[i].tokens <= MaxMemoryTokens
    <2>1. i - 1 \in 0..n
      BY <1>1
    <2>2. SubSeq(a, 1, i - 1) = SubSeq(s, 1, i - 1)
      BY <1>2, <2>1
    <2>3. CASE i = n + 1
      <3>1. i - 1 = n
        BY <1>1, <2>3
      <3> QED
        BY <1>1, <1>3, <2>2, <2>3, <3>1
    <2>4. CASE i # n + 1
      <3>1. i \in 1..n
        BY <1>1, <2>4
      <3> QED
        BY <1>1, <2>2, <3>1 DEF Fits
    <2> QED
      BY <2>3, <2>4
  <1>5. \A i \in DOMAIN a :
           Spent(SubSeq(a, 1, i - 1)) + a[i].tokens <= MaxMemoryTokens
    BY <1>1, <1>4
  <1> QED
    BY <1>5 DEF Fits, a

LEMMA AppendedEntries ==
    ASSUME NEW s \in Seq(Texts), NEW p \in Texts
    PROVE  /\ EntriesOf(Append(s, p)) = EntriesOf(s) \cup {p.entry}
           /\ Once(s) /\ p.entry \notin EntriesOf(s) => Once(Append(s, p))
           /\ Once(Append(s, p)) => Once(s) /\ p.entry \notin EntriesOf(s)
  <1> DEFINE a == Append(s, p)
             n == Len(s)
  <1>1. /\ n \in Nat /\ DOMAIN a = 1..(n + 1) /\ DOMAIN s = 1..n
        /\ a[n + 1] = p /\ \A i \in 1..n : a[i] = s[i]
    OBVIOUS
  <1>2. DOMAIN a = DOMAIN s \cup {n + 1} /\ n + 1 \notin DOMAIN s
    BY <1>1
  <1> HIDE DEF a, n
  <1>3. EntriesOf(a) = EntriesOf(s) \cup {p.entry}
    BY <1>1, <1>2 DEF EntriesOf
  <1>4. Once(s) /\ p.entry \notin EntriesOf(s) => Once(a)
    BY <1>1, <1>2 DEF Once, EntriesOf
  <1>5. Once(a) => Once(s) /\ p.entry \notin EntriesOf(s)
    BY <1>1, <1>2 DEF Once, EntriesOf
  <1> QED
    BY <1>3, <1>4, <1>5 DEF a

\* One more piece: the budget is kept and nothing but the piece is added.
LEMMA PlaceKeeps ==
    ASSUME NEW section, Affordable(section), NEW piece \in Texts
    PROVE  LET after == PlacePiece(section, piece)
           IN  /\ Affordable(after)
               /\ EntriesOf(after.text) \subseteq
                     EntriesOf(section.text) \cup {piece.entry}
               /\ Once(section.text) /\ piece.entry \notin EntriesOf(section.text)
                     => Once(after.text)
  <1> DEFINE after == PlacePiece(section, piece)
             cut == CutTo(piece, section.left)
             s == section.text
  <1>1. /\ section \in Sections /\ s \in Seq(Texts)
        /\ Spent(s) \in Nat /\ section.left \in Nat
        /\ Spent(s) + section.left <= MaxMemoryTokens /\ Fits(s)
    BY DEF Affordable, Sections
  <1>2. /\ MaxMemoryTokens \in Nat /\ piece.tokens \in Nat
        /\ piece.entry \in Entries /\ piece.whole \in BOOLEAN
    BY WeaverAssumption DEF Texts
  <1>3. cut \in Texts /\ cut.entry = piece.entry /\ cut.tokens = section.left
        /\ cut.whole = FALSE
    BY <1>1, <1>2 DEF CutTo, Texts
  <1> HIDE DEF cut
  <1>4. CASE section.end # "open"
    BY <1>4 DEF PlacePiece
  <1>5. CASE section.end = "open" /\ piece.tokens <= section.left
    <2>1. after = [text |-> Append(s, piece),
                   left |-> section.left - piece.tokens, end |-> "open"]
      BY <1>5 DEF PlacePiece
    <2>2. /\ after.text = Append(s, piece)
          /\ after.left = section.left - piece.tokens /\ after.end = "open"
      BY <2>1
    <2>3. after \in Sections
      BY <1>1, <1>2, <1>5, <2>1 DEF Sections
    <2>4. Fits(Append(s, piece))
      BY <1>1, <1>2, <1>5, FitsAppend
    <2>5. /\ Spent(Append(s, piece)) \in Nat
          /\ Spent(Append(s, piece)) <= Spent(s) + piece.tokens
      <3>1. Spent(Append(s, piece)) = Spend(Spent(s), piece)
        BY <1>1, SpentAppend
      <3> HIDE DEF s
      <3>2. CASE piece.whole
        BY <1>1, <1>2, <3>1, <3>2 DEF Spend
      <3>3. CASE ~piece.whole
        BY <1>1, <1>2, <3>1, <3>3 DEF Spend
      <3> QED
        BY <3>2, <3>3
    <2>6. Affordable(after)
      <3> HIDE DEF after, s
      <3> QED
        BY <1>1, <1>2, <2>2, <2>3, <2>4, <2>5 DEF Affordable
    <2> QED
      BY <1>1, <2>2, <2>6, AppendedEntries
  <1>6. CASE /\ section.end = "open" /\ ~(piece.tokens <= section.left)
             /\ section.left > CutAbove
    <2>1. after = [text |-> Append(s, cut), left |-> section.left,
                   end |-> "cut"]
      BY <1>6 DEF PlacePiece, cut
    <2>2. after.text = Append(s, cut) /\ after.left = section.left
      BY <2>1
    <2>3. after \in Sections
      BY <1>1, <1>3, <2>1 DEF Sections
    <2>4. Fits(Append(s, cut))
      BY <1>1, <1>3, FitsAppend
    <2>5. Spent(Append(s, cut)) = Spent(s)
      BY <1>1, <1>3, SpentAppend DEF Spend
    <2>6. Affordable(after)
      BY <1>1, <2>2, <2>3, <2>4, <2>5 DEF Affordable
    <2> QED
      BY <1>1, <1>3, <2>2, <2>6, AppendedEntries
  <1>7. CASE /\ section.end = "open" /\ ~(piece.tokens <= section.left)
             /\ ~(section.left > CutAbove)
    <2>1. after = [section EXCEPT !.end = "full"]
      BY <1>7 DEF PlacePiece
    <2>2. after \in Sections /\ after.text = s /\ after.left = section.left
      BY <1>1, <2>1 DEF Sections
    <2>3. Affordable(after)
      BY <1>1, <2>2 DEF Affordable
    <2> QED
      BY <2>2, <2>3
  <1> QED
    BY <1>4, <1>5, <1>6, <1>7

LEMMA AddKeeps ==
    ASSUME NEW context, NEW room, Affordable(Opened(context, room)),
           Once(context), NEW found \in Seq(Entries),
           \A i, j \in DOMAIN found : i # j => found[i] # found[j],
           \A i \in DOMAIN found : found[i] \notin EntriesOf(context),
           \A e \in Entries : Tokens(e) \in Nat
    PROVE  LET section == AddSection(context, found, room)
           IN  /\ Affordable(section)
               /\ Once(section.text)
               /\ EntriesOf(section.text) \subseteq
                     EntriesOf(context) \cup {found[i] : i \in DOMAIN found}
  <1> DEFINE pieces == [i \in DOMAIN found |-> Text(found[i])]
             F(s) == Placing!Fold(Opened(context, room), s)
             Good(s) == /\ Affordable(F(s))
                        /\ Once(F(s).text)
                        /\ EntriesOf(F(s).text) \subseteq
                              EntriesOf(context) \cup EntriesOf(s)
             T == {s \in Seq(Texts) :
                     Once(s) /\ EntriesOf(s) \cap EntriesOf(context) = {}
                        => Good(s)}
  <1>1. <<>> \in T
    <2>1. F(<<>>) = Opened(context, room)
      BY Placing!FoldEmpty
    <2>2. F(<<>>).text = context
      BY <2>1 DEF Opened
    <2> HIDE DEF F
    <2> QED
      BY <2>1, <2>2
  <1>2. ASSUME NEW s \in Seq(Texts), NEW x \in Texts, s \in T
        PROVE  Append(s, x) \in T
    <2> DEFINE a == Append(s, x)
    <2>1. SUFFICES ASSUME Once(a), EntriesOf(a) \cap EntriesOf(context) = {}
                   PROVE  Good(a)
      OBVIOUS
    <2>2. /\ Once(s) /\ x.entry \notin EntriesOf(s)
          /\ EntriesOf(a) = EntriesOf(s) \cup {x.entry}
      BY <2>1, AppendedEntries
    <2>3. Good(s)
      <3>1. EntriesOf(s) \cap EntriesOf(context) = {}
        BY <2>1, <2>2
      <3> HIDE DEF Good
      <3> QED
        BY <1>2, <2>2, <3>1
    <2>4. F(a) = PlacePiece(F(s), x)
      BY Placing!FoldAppend
    <2> HIDE DEF F, a
    <2>5. x.entry \notin EntriesOf(F(s).text)
      BY <2>1, <2>2, <2>3
    <2> QED
      BY <2>2, <2>3, <2>4, <2>5, PlaceKeeps
  <1>3. Seq(Texts) \subseteq T
    <2> HIDE DEF T
    <2> QED
      BY <1>1, <1>2, Placing!SeqSetInduction
  <1>4. \A i \in DOMAIN found : /\ pieces[i] \in Texts
                                /\ pieces[i].entry = found[i]
    BY DEF Text, Texts
  <1>5. pieces \in Seq(Texts) /\ DOMAIN pieces = DOMAIN found
    BY <1>4
  <1> HIDE DEF pieces
  <1>6. EntriesOf(pieces) = {found[i] : i \in DOMAIN found}
    BY <1>4, <1>5 DEF EntriesOf
  <1>7. Once(pieces) /\ EntriesOf(pieces) \cap EntriesOf(context) = {}
    BY <1>4, <1>5, <1>6 DEF Once
  <1>8. Good(pieces)
    <2> HIDE DEF Good
    <2> QED
      BY <1>3, <1>5, <1>7
  <1>9. AddSection(context, found, room) = F(pieces)
    BY WeaverFolds DEF pieces
  <1> HIDE DEF F
  <1> QED
    BY <1>6, <1>8, <1>9

\* A section takes no more than the room it was given, its cut text included:
\* the cut text takes what is left, and ends the section.
StillTakes(section) ==
    Taken(section.text) + (IF section.end = "cut" THEN 0 ELSE section.left)

LEMMA PlaceTakes ==
    ASSUME NEW section \in Sections, Taken(section.text) \in Nat,
           NEW piece \in Texts
    PROVE  LET after == PlacePiece(section, piece)
           IN  /\ after \in Sections /\ Taken(after.text) \in Nat
               /\ StillTakes(after) <= StillTakes(section)
  <1> DEFINE after == PlacePiece(section, piece)
             cut == CutTo(piece, section.left)
             s == section.text
  <1>1. /\ s \in Seq(Texts) /\ section.left \in Nat
        /\ piece.tokens \in Nat /\ CutAbove \in Nat
    BY WeaverAssumption DEF Sections, Texts
  <1>2. cut \in Texts /\ cut.tokens = section.left
    BY <1>1 DEF CutTo, Texts
  <1>3. /\ Taken(Append(s, piece)) = Taken(s) + piece.tokens
        /\ Taken(Append(s, cut)) = Taken(s) + section.left
    BY <1>1, <1>2, TakenAppend
  <1>4. CASE section.end # "open"
    BY <1>1, <1>4 DEF PlacePiece, StillTakes
  <1>5. CASE section.end = "open" /\ piece.tokens <= section.left
    <2>1. after = [text |-> Append(s, piece),
                   left |-> section.left - piece.tokens, end |-> "open"]
      BY <1>5 DEF PlacePiece
    <2>2. after \in Sections
      BY <1>1, <1>5, <2>1 DEF Sections
    <2> QED
      BY <1>1, <1>3, <1>5, <2>1, <2>2 DEF StillTakes
  <1>6. CASE /\ section.end = "open" /\ ~(piece.tokens <= section.left)
             /\ section.left > CutAbove
    <2>1. after = [text |-> Append(s, cut), left |-> section.left,
                   end |-> "cut"]
      BY <1>6 DEF PlacePiece
    <2>2. after \in Sections
      BY <1>1, <1>2, <2>1 DEF Sections
    <2> QED
      BY <1>1, <1>3, <1>6, <2>1, <2>2 DEF StillTakes
  <1>7. CASE /\ section.end = "open" /\ ~(piece.tokens <= section.left)
             /\ ~(section.left > CutAbove)
    <2>1. after = [section EXCEPT !.end = "full"]
      BY <1>7 DEF PlacePiece
    <2>2. /\ after \in Sections /\ after.text = s
          /\ after.left = section.left /\ after.end = "full"
      BY <2>1 DEF Sections
    <2> QED
      BY <1>1, <1>7, <2>2 DEF StillTakes
  <1> QED
    BY <1>4, <1>5, <1>6, <1>7

LEMMA AddTakes ==
    ASSUME NEW context \in Seq(Texts), Taken(context) \in Nat, NEW room \in Nat,
           NEW found \in Seq(Entries), \A e \in Entries : Tokens(e) \in Nat
    PROVE  LET section == AddSection(context, found, room)
           IN  /\ Taken(section.text) \in Nat
               /\ Taken(section.text) <= Taken(context) + room
  <1> DEFINE pieces == [i \in DOMAIN found |-> Text(found[i])]
             F(s) == Placing!Fold(Opened(context, room), s)
             T == {s \in Seq(Texts) :
                     /\ F(s) \in Sections /\ Taken(F(s).text) \in Nat
                     /\ StillTakes(F(s)) <= Taken(context) + room}
  <1>1. <<>> \in T
    <2>1. F(<<>>) = Opened(context, room)
      BY Placing!FoldEmpty
    <2>2. /\ F(<<>>) \in Sections /\ F(<<>>).text = context
          /\ F(<<>>).left = room /\ F(<<>>).end = "open"
      BY <2>1 DEF Opened, Sections
    <2> HIDE DEF F
    <2> QED
      BY <2>2 DEF StillTakes
  <1>2. ASSUME NEW s \in Seq(Texts), NEW x \in Texts, s \in T
        PROVE  Append(s, x) \in T
    <2>1. F(Append(s, x)) = PlacePiece(F(s), x)
      BY Placing!FoldAppend
    <2> HIDE DEF F
    <2>2. /\ F(Append(s, x)) \in Sections
          /\ Taken(F(Append(s, x)).text) \in Nat
          /\ StillTakes(F(Append(s, x))) <= StillTakes(F(s))
      BY <1>2, <2>1, PlaceTakes
    <2>3. StillTakes(F(s)) \in Nat /\ StillTakes(F(Append(s, x))) \in Nat
      BY <1>2, <2>2 DEF StillTakes, Sections
    <2> QED
      BY <1>2, <2>2, <2>3
  <1>3. Seq(Texts) \subseteq T
    <2> HIDE DEF T
    <2> QED
      BY <1>1, <1>2, Placing!SeqSetInduction
  <1>4. \A i \in DOMAIN found : pieces[i] \in Texts
    BY DEF Text, Texts
  <1>5. AddSection(context, found, room) = F(pieces)
    BY WeaverFolds DEF pieces
  <1>6. pieces \in Seq(Texts)
    BY <1>4
  <1> HIDE DEF F, pieces
  <1>7. /\ F(pieces) \in Sections /\ Taken(F(pieces).text) \in Nat
        /\ StillTakes(F(pieces)) <= Taken(context) + room
    BY <1>3, <1>6
  <1> QED
    BY <1>5, <1>7 DEF StillTakes, Sections

LEMMA SearchType ==
    ASSUME NEW t, NEW k \in Nat, NEW found \in Search(t, k)
    PROVE  /\ found \in Seq(Entries)
           /\ \A i, j \in DOMAIN found : i # j => found[i] # found[j]
           /\ \A i \in DOMAIN found : tier[found[i]] = t
  <1>1. PICK n \in 0..k : found \in [1..n -> Searchable(t)]
    BY DEF Search
  <1>2. n \in Nat
    OBVIOUS
  <1>3. found \in Seq(Entries)
    BY <1>1, <1>2 DEF Searchable
  <1>4. \A i \in DOMAIN found : tier[found[i]] = t
    BY <1>1 DEF Searchable
  <1> QED
    BY <1>3, <1>4 DEF Search

-----------------------------------------------------------------------------
(* The weaver.                                                             *)

WeaveLabels == {"idle", "verified", "consolidated", "raw", "done", "error"}

WeaveTypes ==
    /\ wpc    \in [Weavers -> WeaveLabels]
    /\ budget \in [Weavers -> Nat]
    /\ woven  \in [Weavers -> Seq(Texts)]

\* The tiers the entries of an unfinished context may have reached by now.
Reached(label) ==
    CASE label = "consolidated" -> FromVerified
      [] label = "raw"          -> FromConsolidated
      [] OTHER                  -> {}

Underway == {"idle", "verified", "consolidated", "raw"}

\* What the sections filled by now may take together.
Allowance(label) ==
    CASE label = "consolidated"      -> MaxMemoryTokens
      [] label = "raw"               -> 2 * MaxMemoryTokens
      [] label \in {"done", "error"} -> 3 * MaxMemoryTokens
      [] OTHER                       -> 0

Allowed(w) ==
    Taken(woven[w]) \in Nat /\ Taken(woven[w]) <= Allowance(wpc[w])

WovenWell(w) ==
    /\ Allowed(w)
    /\ Once(woven[w]) /\ Fits(woven[w]) /\ Spent(woven[w]) \in Nat
    /\ wpc[w] \in Underway =>
          /\ Spent(woven[w]) + budget[w] <= MaxMemoryTokens
          /\ \A e \in EntriesOf(woven[w]) : tier[e] \in Reached(wpc[w])

WeaveInv ==
    Inv /\ FiniteTexts /\ WeaveTypes /\ \A w \in Weavers : WovenWell(w)

LEMMA WeaveInitInv == WeaveInit => WeaveInv
  <1> SUFFICES ASSUME WeaveInit
               PROVE  WeaveInv
    OBVIOUS
  <1>1. Inv /\ FiniteTexts
    BY InitInv, FiniteInit DEF WeaveInit
  <1>2. WeaveTypes
    BY WeaverAssumption DEF WeaveInit, WeaveTypes, WeaveLabels
  <1>3. Spent(<<>>) = 0 /\ Taken(<<>>) = 0
    BY WeaverFolds, Spending!FoldEmpty, Taking!FoldEmpty
  <1>4. ASSUME NEW w \in Weavers
        PROVE  WovenWell(w)
    <2>1. /\ woven[w] = <<>> /\ wpc[w] = "idle"
          /\ budget[w] = MaxMemoryTokens /\ MaxMemoryTokens \in Nat
      BY WeaverAssumption DEF WeaveInit
    <2>2. Once(<<>>) /\ Fits(<<>>) /\ EntriesOf(<<>>) = {}
      BY DEF Once, Fits, EntriesOf
    <2>3. Allowed(w)
      BY <1>3, <2>1 DEF Allowed, Allowance
    <2> QED
      BY <1>3, <2>1, <2>2, <2>3 DEF WovenWell
  <1> QED
    BY <1>1, <1>2, <1>4 DEF WeaveInv

\* The rows change under a weaver that rests between two searches.
LEMMA WovenFrame ==
    ASSUME WeaveInv, [Next]_vars, NEW w \in Weavers,
           woven'[w] = woven[w], budget'[w] = budget[w],
           wpc'[w] \in {wpc[w], "error"}
    PROVE  WovenWell(w)'
  <1>1. WovenWell(w) /\ woven[w] \in Seq(Texts) /\ wpc[w] \in WeaveLabels
    BY DEF WeaveInv, WeaveTypes
  <1>2. Once(woven[w])' /\ Fits(woven[w])' /\ (Spent(woven[w]) \in Nat)'
    BY <1>1 DEF WovenWell, Once, Fits, Spent
  <1>3. ASSUME wpc'[w] \in Underway
        PROVE  /\ (Spent(woven[w]) + budget[w] <= MaxMemoryTokens)'
               /\ \A e \in EntriesOf(woven'[w]) : tier'[e] \in Reached(wpc[w])
    <2>1. wpc'[w] = wpc[w]
      BY <1>3 DEF Underway
    <2>2. (Spent(woven[w]) + budget[w] <= MaxMemoryTokens)'
      BY <1>1, <1>3, <2>1 DEF WovenWell, Spent
    <2>3. EntriesOf(woven[w]) \subseteq Entries
      <3>1. \A i \in DOMAIN woven[w] : woven[w][i] \in Texts
        BY <1>1
      <3> QED
        BY <3>1 DEF EntriesOf, Texts
    <2>4. ASSUME NEW e \in EntriesOf(woven[w])
          PROVE  tier'[e] \in Reached(wpc[w])
      <3>1. tier[e] \in Reached(wpc[w]) /\ e \in Entries
        BY <1>1, <1>3, <2>1, <2>3 DEF WovenWell
      <3> QED
        BY <3>1, TiersRise DEF WeaveInv, Reached
    <2> QED
      BY <2>2, <2>4
  <1>4. Reached(wpc[w])' = Reached(wpc'[w])
    BY DEF Reached
  <1>5. Allowed(w)'
    <2>1. Allowed(w) /\ MaxMemoryTokens \in Nat
      BY <1>1, WeaverAssumption DEF WovenWell
    <2>2. Allowance(wpc[w]) <= Allowance(wpc'[w])
      BY <1>1, <2>1 DEF Allowance, WeaveLabels
    <2>3. Allowance(wpc[w]) \in Nat /\ Allowance(wpc'[w]) \in Nat
      BY <2>1 DEF Allowance
    <2>4. Taken(woven[w])' = Taken(woven[w])
      BY DEF Taken
    <2>5. Allowance(wpc[w])' = Allowance(wpc'[w])
      BY DEF Allowance
    <2> QED
      BY <2>1, <2>2, <2>3, <2>4, <2>5 DEF Allowed
  <1> QED
    BY <1>2, <1>3, <1>4, <1>5 DEF WovenWell, EntriesOf, Underway

\* What a search finds is not in the context yet, and the section that is
\* made of it keeps the context well.
LEMMA SectionKeeps ==
    ASSUME WeaveInv, NEW w \in Weavers, wpc[w] \in Underway,
           NEW t, t \notin Reached(wpc[w]), NEW k \in Nat,
           NEW found \in Search(t, k)
    PROVE  /\ Affordable(Section(w, found))
           /\ Once(Section(w, found).text)
           /\ \A e \in EntriesOf(Section(w, found).text) :
                 tier[e] \in Reached(wpc[w]) \cup {t}
           /\ Taken(Section(w, found).text) \in Nat
           /\ Taken(Section(w, found).text)
                 <= Allowance(wpc[w]) + MaxMemoryTokens
  <1>1. /\ WovenWell(w) /\ woven[w] \in Seq(Texts) /\ budget[w] \in Nat
        /\ FiniteTexts
    BY DEF WeaveInv, WeaveTypes
  <1>2. Affordable(Opened(woven[w], budget[w]))
    BY <1>1 DEF Affordable, Opened, Sections, WovenWell
  <1>3. /\ found \in Seq(Entries)
        /\ \A i, j \in DOMAIN found : i # j => found[i] # found[j]
        /\ \A i \in DOMAIN found : tier[found[i]] = t
    BY SearchType
  <1>4. \A e \in EntriesOf(woven[w]) : tier[e] \in Reached(wpc[w])
    BY <1>1 DEF WovenWell
  <1>5. \A i \in DOMAIN found : found[i] \notin EntriesOf(woven[w])
    BY <1>3, <1>4
  <1>6. \A e \in Entries : Tokens(e) \in Nat
    BY <1>1, FS_CardinalityType DEF FiniteTexts, Tokens
  <1>7. Once(woven[w])
    BY <1>1 DEF WovenWell
  <1>8. /\ Affordable(Section(w, found))
        /\ Once(Section(w, found).text)
        /\ EntriesOf(Section(w, found).text) \subseteq
              EntriesOf(woven[w]) \cup {found[i] : i \in DOMAIN found}
    BY <1>2, <1>3, <1>5, <1>6, <1>7, AddKeeps DEF Section
  <1>9. /\ Allowed(w) /\ MaxMemoryTokens \in Nat
        /\ budget[w] <= MaxMemoryTokens
    BY <1>1, WeaverAssumption DEF WovenWell
  <1>10. /\ Taken(Section(w, found).text) \in Nat
         /\ Taken(Section(w, found).text) <= Taken(woven[w]) + budget[w]
    BY <1>1, <1>3, <1>6, <1>9, AddTakes DEF Section, Allowed
  <1>11. Allowance(wpc[w]) \in Nat
    BY <1>9 DEF Allowance
  <1>12. /\ Taken(Section(w, found).text) \in Nat
         /\ Taken(Section(w, found).text)
               <= Allowance(wpc[w]) + MaxMemoryTokens
    BY <1>1, <1>9, <1>10, <1>11 DEF Allowed
  <1> QED
    BY <1>3, <1>4, <1>8, <1>12

\* A weaver that was given a section is well, whatever label it moves on to
\* with what it has left.
LEMMA FilledWell ==
    ASSUME WeaveInv, NEW w \in Weavers, NEW section, Affordable(section),
           Once(section.text), NEW l \in WeaveLabels,
           Taken(section.text) \in Nat, Taken(section.text) <= Allowance(l),
           woven' = [woven EXCEPT ![w] = section.text], Weave(w, l),
           UNCHANGED <<tier, content>>,
           l \in Underway =>
              /\ budget'[w] = section.left
              /\ \A e \in EntriesOf(section.text) : tier[e] \in Reached(l)
    PROVE  WovenWell(w)'
  <1>1. woven'[w] = section.text /\ wpc'[w] = l
    BY DEF WeaveInv, WeaveTypes, Weave
  <1>2. /\ Spent(section.text) \in Nat /\ Fits(section.text)
        /\ Spent(section.text) + section.left <= MaxMemoryTokens
    BY DEF Affordable
  <1>3. Once(woven[w])' /\ Fits(woven[w])' /\ (Spent(woven[w]) \in Nat)'
    BY <1>1, <1>2 DEF Once, Fits, Spent
  <1>4. ASSUME wpc'[w] \in Underway
        PROVE  /\ (Spent(woven[w]) + budget[w] <= MaxMemoryTokens)'
               /\ \A e \in EntriesOf(woven'[w]) : tier'[e] \in Reached(l)
    BY <1>1, <1>2, <1>4 DEF Spent
  <1>5. Allowed(w)'
    BY <1>1 DEF Allowed, Allowance, Taken
  <1> QED
    BY <1>1, <1>3, <1>4, <1>5 DEF WovenWell, EntriesOf, Underway, Reached

LEMMA WeaveStepInv ==
    ASSUME WeaveInv, NEW w \in Weavers, WeaveStep(w), UNCHANGED vars
    PROVE  WeaveInv'
  <1>1. /\ wpc \in [Weavers -> WeaveLabels] /\ budget \in [Weavers -> Nat]
        /\ woven \in [Weavers -> Seq(Texts)] /\ Inv /\ FiniteTexts
        /\ TopK \in Nat /\ TopRaw \in Nat /\ MaxMemoryTokens \in Nat
    BY WeaverAssumption DEF WeaveInv, WeaveTypes
  <1>2. Inv' /\ FiniteTexts'
    BY <1>1, NextInv, FiniteNext
  <1>3. UNCHANGED <<tier, content>>
    BY DEF vars
  <1>4. ASSUME NEW v \in Weavers \ {w},
               woven'[v] = woven[v], budget'[v] = budget[v], wpc'[v] = wpc[v]
        PROVE  WovenWell(v)'
    BY <1>4, WovenFrame
  <1>5. CASE UNCHANGED <<woven, budget>> /\ Weave(w, "error")
    <2>1. WovenWell(w)'
      BY <1>1, <1>5, WovenFrame DEF Weave
    <2>2. WeaveTypes'
      BY <1>1, <1>5 DEF WeaveTypes, Weave, WeaveLabels
    <2> QED
      BY <1>1, <1>2, <1>4, <1>5, <2>1, <2>2 DEF WeaveInv, Weave
  <1>6. ASSUME NEW t, NEW k \in Nat, NEW found \in Search(t, k),
               NEW l \in WeaveLabels, wpc[w] \in Underway,
               t \notin Reached(wpc[w]), Weave(w, l),
               woven' = [woven EXCEPT ![w] = Section(w, found).text],
               \/ budget' = [budget EXCEPT ![w] = Section(w, found).left]
               \/ budget' = budget /\ l = "done",
               l \in Underway => Reached(wpc[w]) \cup {t} \subseteq Reached(l),
               Allowance(wpc[w]) + MaxMemoryTokens <= Allowance(l)
        PROVE  WeaveInv'
    <2> DEFINE section == Section(w, found)
    <2>1. /\ Affordable(section) /\ Once(section.text)
          /\ \A e \in EntriesOf(section.text) :
                tier[e] \in Reached(wpc[w]) \cup {t}
          /\ Taken(section.text) \in Nat
          /\ Taken(section.text) <= Allowance(wpc[w]) + MaxMemoryTokens
      BY <1>6, SectionKeeps
    <2> HIDE DEF section
    <2>2. section.text \in Seq(Texts) /\ section.left \in Nat
      BY <2>1 DEF Affordable, Sections
    <2>3. WovenWell(w)'
      <3>1. l \in Underway => budget'[w] = section.left
        BY <1>1, <1>6 DEF Underway, section
      <3>2. l \in Underway =>
               \A e \in EntriesOf(section.text) : tier[e] \in Reached(l)
        BY <1>6, <2>1
      <3>3. woven' = [woven EXCEPT ![w] = section.text]
        BY <1>6 DEF section
      <3>4. Taken(section.text) <= Allowance(l)
        <4>1. Allowance(wpc[w]) \in Nat /\ Allowance(l) \in Nat
          BY <1>1 DEF Allowance
        <4> QED
          BY <1>1, <1>6, <2>1, <4>1
      <3> QED
        BY <1>3, <1>6, <2>1, <3>1, <3>2, <3>3, <3>4, FilledWell
    <2>4. \A v \in Weavers \ {w} : WovenWell(v)'
      BY <1>1, <1>4, <1>6 DEF Weave
    <2>5. WeaveTypes'
      BY <1>1, <1>6, <2>2 DEF WeaveTypes, Weave, section
    <2> QED
      BY <1>2, <2>3, <2>4, <2>5 DEF WeaveInv
  <1>7. CASE BeginWeave(w)
    <2>1. /\ wpc[w] = "idle" /\ Weave(w, "verified")
          /\ UNCHANGED <<budget, woven>>
      BY <1>7 DEF BeginWeave
    <2>2. WovenWell(w)'
      <3>1. WovenWell(w)
        BY DEF WeaveInv
      <3>2. wpc'[w] = "verified"
        BY <1>1, <2>1 DEF Weave
      <3> QED
        BY <2>1, <3>1, <3>2
           DEF WovenWell, Once, Fits, Spent, EntriesOf, Reached, Underway,
               Allowed, Allowance, Taken
    <2>3. WeaveTypes'
      BY <1>1, <2>1 DEF WeaveTypes, Weave, WeaveLabels
    <2> QED
      BY <1>1, <1>2, <1>4, <2>1, <2>2, <2>3 DEF WeaveInv, Weave
  <1>8. CASE WeaveVerified(w)
             /\ ~(UNCHANGED <<woven, budget>> /\ Weave(w, "error"))
    <2>1. PICK found \in Search("verified", TopK) :
             Fill(w, found) /\ Weave(w, "consolidated")
      BY <1>8 DEF WeaveVerified
    <2>2. /\ wpc[w] = "verified" /\ wpc[w] \in Underway
          /\ "verified" \notin Reached(wpc[w])
          /\ Reached(wpc[w]) \cup {"verified"} \subseteq Reached("consolidated")
          /\ "consolidated" \in WeaveLabels
          /\ Allowance(wpc[w]) + MaxMemoryTokens <= Allowance("consolidated")
      BY <1>1, <1>8 DEF WeaveVerified, Underway, Reached, FromVerified, WeaveLabels,
                  Allowance
    <2> QED
      BY <1>1, <1>6, <2>1, <2>2 DEF Fill
  <1>9. CASE WeaveConsolidated(w)
             /\ ~(UNCHANGED <<woven, budget>> /\ Weave(w, "error"))
    <2>1. PICK found \in Search("consolidated", TopK), l \in {"raw", "done"} :
             Fill(w, found) /\ Weave(w, l)
      BY <1>9 DEF WeaveConsolidated
    <2>2. /\ wpc[w] = "consolidated" /\ wpc[w] \in Underway
          /\ "consolidated" \notin Reached(wpc[w])
          /\ l \in Underway =>
                Reached(wpc[w]) \cup {"consolidated"} \subseteq Reached(l)
          /\ l \in WeaveLabels
          /\ Allowance(wpc[w]) + MaxMemoryTokens <= Allowance(l)
      BY <1>1, <1>9
         DEF WeaveConsolidated, Underway, Reached, FromVerified,
             FromConsolidated, WeaveLabels, Allowance
    <2> QED
      BY <1>1, <1>6, <2>1, <2>2 DEF Fill
  <1>10. CASE WeaveRaw(w)
              /\ ~(UNCHANGED <<woven, budget>> /\ Weave(w, "error"))
    <2>1. PICK found \in Search("raw", TopRaw) :
             /\ woven' = [woven EXCEPT ![w] = Section(w, found).text]
             /\ Weave(w, "done") /\ budget' = budget
      BY <1>10 DEF WeaveRaw
    <2>2. /\ wpc[w] = "raw" /\ wpc[w] \in Underway
          /\ "raw" \notin Reached(wpc[w])
          /\ "done" \notin Underway /\ "done" \in WeaveLabels
          /\ Allowance(wpc[w]) + MaxMemoryTokens <= Allowance("done")
      BY <1>1, <1>10
         DEF WeaveRaw, Underway, Reached, FromConsolidated, WeaveLabels,
             Allowance
    <2> QED
      BY <1>1, <1>6, <2>1, <2>2
  <1> QED
    BY <1>5, <1>7, <1>8, <1>9, <1>10 DEF WeaveStep

LEMMA WeaveNextInv ==
    ASSUME WeaveInv, [WeaveNext]_weaveVars
    PROVE  WeaveInv'
  <1>1. CASE [Next]_vars /\ UNCHANGED <<budget, woven>>
             /\ wpc' \in [Weavers -> WeaveLabels]
             /\ \A w \in Weavers : wpc'[w] \in {wpc[w], "error"}
    <2>1. Inv' /\ FiniteTexts'
      BY <1>1, NextInv, FiniteNext DEF WeaveInv
    <2>2. \A w \in Weavers : WovenWell(w)'
      BY <1>1, WovenFrame
    <2> QED
      BY <1>1, <2>1, <2>2 DEF WeaveInv, WeaveTypes
  <1>2. wpc \in [Weavers -> WeaveLabels]
    BY DEF WeaveInv, WeaveTypes
  <1>3. CASE Next /\ UNCHANGED weaverVars
    BY <1>1, <1>2, <1>3 DEF weaverVars
  <1>4. CASE Restart /\ UNCHANGED <<budget, woven>>
             /\ wpc' = [w \in Weavers |-> IF wpc[w] \in {"idle", "done"}
                                          THEN wpc[w] ELSE "error"]
    BY <1>1, <1>2, <1>4 DEF Next, WeaveLabels
  <1>5. ASSUME NEW w \in Weavers, WeaveStep(w), UNCHANGED vars
        PROVE  WeaveInv'
    BY <1>5, WeaveStepInv
  <1>6. CASE UNCHANGED weaveVars
    BY <1>1, <1>2, <1>6 DEF weaveVars, weaverVars
  <1> QED
    BY <1>3, <1>4, <1>5, <1>6 DEF WeaveNext, Next

\* The texts of a context are finite and typed, what it has spent and has left
\* stay within the budget, and its entries have left the tiers still to come.
THEOREM WeaveInvCorrect == WeaveSpec => []WeaveInv
  <1>1. WeaveInv /\ [WeaveNext]_weaveVars => WeaveInv'
    BY WeaveNextInv
  <1> QED
    BY WeaveInitInv, <1>1, PTL DEF WeaveSpec

\* WovenOnce, whatever is promoted, deleted or archived between two searches.
THEOREM NothingWovenTwice == WeaveSpec => []WovenOnce
  <1>1. WeaveInv => WovenOnce
    BY DEF WeaveInv, WovenWell, Once, WovenOnce
  <1> QED
    BY WeaveInvCorrect, <1>1, PTL

\* WovenFits, for every budget, limit of the searches and size of the texts.
THEOREM BudgetKept == WeaveSpec => []WovenFits
  <1>1. ASSUME WeaveInv, NEW w \in Weavers
        PROVE  Taken(woven[w]) <= 3 * MaxMemoryTokens
    <2>1. Allowed(w) /\ MaxMemoryTokens \in Nat
      BY <1>1, WeaverAssumption DEF WeaveInv, WovenWell
    <2> QED
      BY <2>1 DEF Allowed, Allowance
  <1>2. WeaveInv => WovenFits
    BY <1>1 DEF WeaveInv, WovenWell, Fits, WovenFits
  <1> QED
    BY WeaveInvCorrect, <1>2, PTL

\* A weaver changes nothing in the table: what is proved of MemoryStore holds
\* beside any number of them.
THEOREM WeaversOnlyRead == WeaveSpec => Spec
  <1>1. WeaveInit => Init
    BY DEF WeaveInit
  <1>2. [WeaveNext]_weaveVars => [Next]_vars
    BY DEF WeaveNext, Next, weaveVars
  <1> QED
    BY <1>1, <1>2, PTL DEF WeaveSpec, Spec

-----------------------------------------------------------------------------
(* The life of the server.                                                 *)

USE DEF memoryVars, vars, lifeVars

\* What the process has done so far stays done while it lives, and what it
\* did to the schema stays done for good.
Migrated  == {"nats", "embedding", "inference", "spawn", "bind", "serving"}
Embedding == {"inference", "spawn", "bind", "serving"}
Inferring == {"spawn", "bind", "serving"}

BootInv ==
    /\ settings \in Settings
    /\ main \in Migrated => schema = Migrations
    /\ main \in Embedding => embedder = EmbeddingOf(settings)
    /\ main \in Inferring => engine = EngineOf(settings)

LEMMA InitBoot == LifeInit => BootInv
  BY DEF LifeInit, BootInv, Migrated, Embedding, Inferring

LEMMA NextBoot ==
    ASSUME BootInv, [LifeNext]_serverVars
    PROVE  BootInv'
  <1> USE DEF BootInv, Migrated, Embedding, Inferring
  <1>1. CASE UNCHANGED serverVars
    BY <1>1 DEF serverVars
  <1>2. CASE Start
    BY <1>2 DEF Start, Proceed
  <1>3. CASE Migrate
    BY <1>3 DEF Migrate, Proceed
  <1>4. CASE \/ LoadConfig \/ ConnectStorage \/ FinishMigrations
             \/ ConnectNats \/ SpawnDecay \/ Bind
    BY <1>4 DEF LoadConfig, ConnectStorage, FinishMigrations, ConnectNats,
                SpawnDecay, Bind, Proceed
  <1>5. CASE CreateEmbedding
    BY <1>5 DEF CreateEmbedding, Proceed
  <1>6. CASE CreateEngine
    BY <1>6 DEF CreateEngine, Proceed
  <1>7. CASE End
    BY <1>7 DEF End
  <1>8. CASE \/ HourPasses \/ TakeTick \/ RunTask
             \/ \E k \in Clients : Serve(k)
    <2>1. UNCHANGED <<main, settings, schema, embedder, engine>>
      BY <1>8 DEF HourPasses, TakeTick, RunTask, Serve
    <2> QED
      BY <2>1
  <1> QED
    BY <1>1, <1>2, <1>3, <1>4, <1>5, <1>6, <1>7, <1>8 DEF LifeNext, BootStep

LEMMA BootInvariant == LifeSpec => []BootInv
  BY InitBoot, NextBoot, PTL DEF LifeSpec

\* The two factories agree on every environment: a server that listens has
\* both models or neither.
THEOREM StubsTogether == LifeSpec => []DegradedTogether
  <1>1. \A s \in Settings : EmbeddingOf(s) = EngineOf(s)
    BY LifeAssumption DEF EmbeddingOf, EngineOf
  <1>2. BootInv => DegradedTogether
    BY <1>1 DEF BootInv, DegradedTogether, Embedding, Inferring
  <1> QED
    BY <1>2, BootInvariant, PTL

\* However often the process dies between two migrations: the background task
\* and the requests find all tables.
THEOREM TablesBeforeRows == LifeSpec => TablesFirst
  <1>1. ASSUME BootInv, LifeNext, rowVars' # rowVars
        PROVE  schema = Migrations
    <2>1. CASE Start \/ BootStep
      BY <1>1, <2>1 DEF Start, BootStep, LoadConfig, ConnectStorage, Migrate,
                        FinishMigrations, ConnectNats, CreateEmbedding,
                        CreateEngine, SpawnDecay, Bind, Proceed
    <2>2. CASE End \/ HourPasses \/ TakeTick
      BY <1>1, <2>2 DEF End, Restart, HourPasses, TakeTick, Tick
    <2>3. CASE RunTask \/ \E k \in Clients : Serve(k)
      <3>1. main \in Migrated
        BY <2>3 DEF RunTask, Serve, Spawned, Migrated
      <3> QED
        BY <1>1, <3>1 DEF BootInv
    <2> QED
      BY <1>1, <2>1, <2>2, <2>3 DEF LifeNext
  <1>2. BootInv /\ [LifeNext]_serverVars =>
           [rowVars' # rowVars => schema = Migrations]_serverVars
    BY <1>1
  <1> QED
    BY <1>2, BootInvariant, PTL DEF LifeSpec, TablesFirst

-----------------------------------------------------------------------------
(* The memory of a server.                                                 *)

\* What the processes do to the memory, one after the other, is what
\* MemoryStore says, so all that is proved of it holds of a server that dies
\* and is started again: a start takes nothing back, an end is a restart of the
\* memory, and an insert that does not fit its column is a request that dies
\* before the statement.
THEOREM ServersKeepMemory ==
    ASSUME MayAbandon
    PROVE  LifeSpec => Spec
  <1>1. LifeInit => Init
    BY DEF LifeInit
  <1>2. ASSUME LifeNext
        PROVE  [Next]_vars
    <2>1. CASE Start \/ BootStep \/ HourPasses
      BY <2>1 DEF Start, BootStep, LoadConfig, ConnectStorage, Migrate,
                  FinishMigrations, ConnectNats, CreateEmbedding,
                  CreateEngine, SpawnDecay, Bind, Proceed, HourPasses
    <2>2. CASE End \/ TakeTick \/ RunTask
      BY <2>2 DEF End, TakeTick, RunTask, Next, Background
    <2>3. ASSUME NEW k \in Clients, Serve(k)
          PROVE  Next
      <3>1. CASE InsertMisfits(k)
        <4>1. "insert" \notin Resting /\ "insert_consolidated" \notin Resting
          BY DEF Resting
        <4>2. Abandon(k)
          BY <3>1, <4>1 DEF InsertMisfits, Abandon
        <4> QED
          BY <4>2 DEF Next
      <3>2. CASE Receive(k) \/ Step(k) \/ Abandon(k)
        BY <3>2 DEF Next
      <3> QED
        BY <2>3, <3>1, <3>2 DEF Serve
    <2> QED
      BY <1>2, <2>1, <2>2, <2>3 DEF LifeNext
  <1>3. [LifeNext]_serverVars => [Next]_vars
    BY <1>2 DEF serverVars
  <1> QED
    BY <1>1, <1>3, PTL DEF LifeSpec, Spec

\* So a verified fact does not fade, and an embedding covers its text, however
\* often the server dies, with a model or with the stub.
COROLLARY ServedMemoryKept ==
    ASSUME MayAbandon
    PROVE  LifeSpec => VerifiedNeverFades /\ []EmbeddingCovers
  BY ServersKeepMemory, VerifiedKept, ConsolidatedCovered, PTL

=============================================================================
