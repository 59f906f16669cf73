----------------------- MODULE LearningCycles_proofs ------------------------
(***************************************************************************)
(* Theorems about LearningCycles, for every set of cycles and requests and *)
(* every value of the limits.                                              *)
(***************************************************************************)
EXTENDS LearningCycles, FiniteSetTheorems, TLAPS

USE DEF rowVars, logVars, eventVars, callVars, errVars

-----------------------------------------------------------------------------
(* Facts about the constants of the enumeration.                           *)

\* The successor of a stage is a status and never "failed"; only applying is
\* followed by completed.
LEMMA NextStatusType ==
    ASSUME NEW s \in Stages
    PROVE  /\ NextStatus[s] \in Statuses
           /\ NextStatus[s] \notin {"failed", "absent", "detected"}
           /\ NextStatus[s] = "completed" <=> s = "applying"
           /\ NextStatus[s] = "applying" <=> s = "testing"
           /\ NextStatus[s] = "testing" <=> s = "practicing"
           /\ NextStatus[s] = "practicing" <=> s = "verifying"
           /\ NextStatus[s] = "verifying" <=> s = "researching"
  BY DEF NextStatus, Stages, Statuses, TerminalStatus

LEMMA LabelFacts ==
    /\ \A l \in {"idle", "done", "refused", "start_count", "start_insert",
                 "start_publish", "run_loop", "research_infer",
                 "verify_update", "verify_record", "test_failed",
                 "store_knowledge", "adv_get", "adv_set", "adv_publish",
                 "adv_exhaust", "adv_exhaust_publish", "retry_get",
                 "retry_increment", "retry_set", "fail_set", "fail_publish"} :
          l \in Labels /\ l \notin Stages
    /\ \A s \in Stages : s \in Labels \ Resting
  BY DEF Labels, Resting, Stages

LEMMA ReasonFacts ==
    \A w \in {"none", "max_retries", "no_sources", "low_confidence",
              "tests_failed", "terminal", "db"} : w \in Reasons
  BY DEF Reasons

LEMMA StatusFacts ==
    /\ \A s \in Stages : s \in Statuses /\ s \notin TerminalStatus
    /\ {"failed", "completed"} \subseteq Statuses
    /\ {"detected", "researching", "verifying", "practicing", "testing",
        "applying"} \subseteq Stages
    /\ "absent" \notin Statuses
  BY DEF Statuses, Stages, TerminalStatus

LEMMA EntryLabelType ==
    ASSUME NEW o \in AllOps
    PROVE  /\ EntryLabel[o] \in {"start_count", "adv_get", "retry_get",
                                 "run_loop"}
           /\ EntryLabel[o] = "start_count" <=> o = "start"
           /\ EntryLabel[o] = "adv_get" <=> o = "advance"
  BY DEF EntryLabel, AllOps

\* Every return leaves the control variables well typed.
LEMMA ReturnTypes ==
    ASSUME ControlTypeOK, NEW r \in Requests, NEW why \in Reasons,
           \/ ReturnOk(r) \/ ReturnErr(r, why) \/ CallFailCycle(r, why)
           \/ FailReturnOk(r) \/ FailReturnErr(r)
    PROVE  ControlTypeOK'
  <1> USE LabelFacts, ReasonFacts DEF ControlTypeOK, Goto
  <1>1. CASE ReturnOk(r)
    BY <1>1 DEF ReturnOk
  <1>2. CASE ReturnErr(r, why)
    BY <1>2 DEF ReturnErr
  <1>3. CASE CallFailCycle(r, why)
    BY <1>3 DEF CallFailCycle
  <1>4. CASE FailReturnOk(r)
    BY <1>4 DEF FailReturnOk
  <1>5. CASE FailReturnErr(r)
    BY <1>5 DEF FailReturnErr, ReturnErr
  <1> QED
    BY <1>1, <1>2, <1>3, <1>4, <1>5

\* So does a jump to a label.
LEMMA GotoTypes ==
    ASSUME ControlTypeOK, NEW r \in Requests, NEW l \in Labels, Goto(r, l),
           UNCHANGED errVars
    PROVE  ControlTypeOK'
  BY DEF ControlTypeOK, Goto

-----------------------------------------------------------------------------
(* Type correctness, statement by statement.                               *)

LEMMA InitTypeOK == Init => TypeOK
  BY LearningAssumption, LabelFacts, ReasonFacts, StatusFacts
     DEF Init, TypeOK, RowTypeOK, LogTypeOK, EventTypeOK, CallTypeOK,
         ControlTypeOK, AllOps, ScoreValues

LEMMA UnchangedTypes ==
    /\ RowTypeOK /\ UNCHANGED rowVars => RowTypeOK'
    /\ LogTypeOK /\ UNCHANGED logVars => LogTypeOK'
    /\ EventTypeOK /\ UNCHANGED eventVars => EventTypeOK'
    /\ CallTypeOK /\ UNCHANGED callVars => CallTypeOK'
  BY DEF RowTypeOK, LogTypeOK, EventTypeOK, CallTypeOK

LEMMA FailsTypeOK ==
    ASSUME TypeOK, NEW r \in Requests, StatementFails(r)
    PROVE  TypeOK'
  BY ReasonFacts, ReturnTypes, UnchangedTypes DEF StatementFails, TypeOK

LEMMA UpdateStatusTypes ==
    ASSUME RowTypeOK, NEW c \in Cycles, NEW s \in Statuses, NEW w \in Reasons,
           UpdateStatus(c, s, w)
    PROVE  RowTypeOK'
  BY DEF RowTypeOK, UpdateStatus

LEMMA PublishTypes ==
    ASSUME EventTypeOK, NEW c \in Cycles, NEW s \in Statuses, Publish(c, s)
    PROVE  EventTypeOK'
  <1>1. CASE /\ announced' = [announced EXCEPT ![c] = s]
             /\ missed' = [missed EXCEPT ![c] = FALSE]
    BY <1>1 DEF EventTypeOK
  <1>2. CASE /\ missed' = [missed EXCEPT ![c] = TRUE]
             /\ UNCHANGED announced
    BY <1>2 DEF EventTypeOK
  <1> QED
    BY <1>1, <1>2 DEF Publish

LEMMA StartTypeOK ==
    ASSUME TypeOK, NEW r \in Requests, StartStep(r)
    PROVE  TypeOK'
  <1> USE LabelFacts, StatusFacts DEF TypeOK
  <1>1. CASE StartCount(r)
    BY <1>1, FailsTypeOK, GotoTypes, UnchangedTypes DEF StartCount
  <1>2. CASE StartInsert(r)
    <2>1. CASE StatementFails(r)
      BY <2>1, FailsTypeOK
    <2>2. CASE ~StatementFails(r)
      <3>1. target[r] \in Cycles
        BY DEF CallTypeOK
      <3>2. created' \in Seq(Cycles)
        <4>1. created' = Append(created, target[r]) /\ created \in Seq(Cycles)
          BY <1>2, <2>2 DEF StartInsert, RowTypeOK
        <4> HIDE DEF TypeOK
        <4> QED
          BY ONLY <3>1, <4>1, SMT
      <3>3. RowTypeOK'
        BY <1>2, <2>2, <3>1, <3>2 DEF StartInsert, RowTypeOK
      <3> QED
        BY <1>2, <2>2, <3>3, GotoTypes, UnchangedTypes DEF StartInsert
    <2> QED
      BY <2>1, <2>2
  <1>3. CASE StartPublish(r)
    <2>1. EventTypeOK'
      <3>1. target[r] \in Cycles /\ "detected" \in Statuses
        BY DEF CallTypeOK
      <3>2. Publish(target[r], "detected")
        BY <1>3 DEF StartPublish
      <3> QED
        BY <3>1, <3>2, PublishTypes
    <2> QED
      BY <1>3, <2>1, ReturnTypes, ReasonFacts, UnchangedTypes DEF StartPublish
  <1> QED
    BY <1>1, <1>2, <1>3 DEF StartStep

LEMMA AdvanceTypeOK ==
    ASSUME TypeOK, RowExists, NEW r \in Requests, AdvanceStep(r)
    PROVE  TypeOK'
  <1> USE LabelFacts, StatusFacts, ReasonFacts DEF TypeOK
  <1>0. target[r] \in Cycles /\ seen[r] \in Stages
    BY DEF CallTypeOK
  <1>1. CASE AdvGet(r)
    <2>1. CASE /\ ReturnErr(r, "terminal")
               /\ UNCHANGED <<rowVars, logVars, eventVars, callVars>>
      BY <2>1, ReturnTypes, UnchangedTypes
    <2>2. CASE StatementFails(r)
      BY <2>2, FailsTypeOK
    <2>3. CASE /\ ~IsTerminal(status[target[r]])
               /\ Goto(r, IF retries[target[r]] >= MaxRetries
                          THEN "adv_exhaust" ELSE "adv_set")
               /\ seen' = [seen EXCEPT ![r] = status[target[r]]]
               /\ UNCHANGED <<rowVars, logVars, eventVars, op, target, iter,
                              score, errVars>>
      <3>1. status[target[r]] \in Stages
        BY <1>0, <1>1, <2>3
           DEF RowTypeOK, RowExists, Exists, AdvGet, Resting, IsTerminal,
               Statuses
      <3>2. CallTypeOK'
        BY <2>3, <3>1 DEF CallTypeOK
      <3> QED
        BY <2>3, <3>2, GotoTypes, UnchangedTypes
    <2> QED
      BY <1>1, <2>1, <2>2, <2>3 DEF AdvGet
  <1>2. CASE AdvSet(r)
    BY <1>0, <1>2, FailsTypeOK, NextStatusType, UpdateStatusTypes, GotoTypes,
       UnchangedTypes
       DEF AdvSet
  <1>3. CASE AdvPublish(r)
    <2>0. NextStatus[seen[r]] \in Statuses
      BY <1>0, NextStatusType
    <2>1. EventTypeOK'
      <3>1. Publish(target[r], NextStatus[seen[r]])
        BY <1>3 DEF AdvPublish
      <3> QED
        BY <1>0, <2>0, <3>1, PublishTypes
    <2> QED
      BY <1>3, <2>1, ReturnTypes, UnchangedTypes DEF AdvPublish
  <1>4. CASE AdvExhaust(r)
    BY <1>0, <1>4, FailsTypeOK, UpdateStatusTypes, GotoTypes, UnchangedTypes
       DEF AdvExhaust
  <1>5. CASE AdvExhaustPublish(r)
    <2>1. EventTypeOK'
      <3>1. Publish(target[r], "failed")
        BY <1>5 DEF AdvExhaustPublish, PublishFinished
      <3> QED
        BY <1>0, <3>1, PublishTypes
    <2> QED
      BY <1>5, <2>1, ReturnTypes, UnchangedTypes DEF AdvExhaustPublish
  <1> QED
    BY <1>1, <1>2, <1>3, <1>4, <1>5 DEF AdvanceStep

LEMMA FailTypeOK ==
    ASSUME TypeOK, NEW r \in Requests, FailStep(r)
    PROVE  TypeOK'
  <1> USE LabelFacts, StatusFacts, ReasonFacts DEF TypeOK
  <1>0. target[r] \in Cycles /\ cause[r] \in Reasons
    BY DEF CallTypeOK, ControlTypeOK
  <1>1. CASE FailSet(r)
    <2>1. RowTypeOK'
      BY <1>0, <1>1, UpdateStatusTypes, UnchangedTypes DEF FailSet
    <2>2. ControlTypeOK'
      BY <1>1, GotoTypes, ReturnTypes DEF FailSet
    <2> QED
      BY <1>1, <2>1, <2>2, UnchangedTypes DEF FailSet
  <1>2. CASE FailPublish(r)
    <2>1. EventTypeOK'
      <3>1. Publish(target[r], "failed") \/ UNCHANGED eventVars
        BY <1>2 DEF FailPublish, PublishFinished
      <3> QED
        BY <1>0, <3>1, PublishTypes, UnchangedTypes
    <2>2. ControlTypeOK'
      BY <1>2, ReturnTypes DEF FailPublish
    <2> QED
      BY <1>2, <2>1, <2>2, UnchangedTypes DEF FailPublish
  <1> QED
    BY <1>1, <1>2 DEF FailStep

LEMMA RetryTypeOK ==
    ASSUME TypeOK, NEW r \in Requests, RetryStep(r)
    PROVE  TypeOK'
  <1> USE LabelFacts, StatusFacts, ReasonFacts DEF TypeOK
  <1>0. target[r] \in Cycles
    BY DEF CallTypeOK
  <1>1. CASE RetryGet(r)
    BY <1>1, FailsTypeOK, GotoTypes, ReturnTypes, UnchangedTypes DEF RetryGet
  <1>2. CASE RetryIncrement(r)
    <2>1. CASE StatementFails(r)
      BY <2>1, FailsTypeOK
    <2>2. CASE ~StatementFails(r)
      <3>1. IncrementRetry(target[r])
        BY <1>2, <2>2 DEF RetryIncrement
      <3>2. retries' \in [Cycles -> Nat]
        BY <1>0, <3>1 DEF IncrementRetry, RowTypeOK
      <3>3. RowTypeOK'
        BY <3>1, <3>2 DEF IncrementRetry, RowTypeOK
      <3> QED
        BY <1>2, <2>2, <3>3, GotoTypes, UnchangedTypes DEF RetryIncrement
    <2> QED
      BY <2>1, <2>2
  <1>3. CASE RetrySet(r)
    BY <1>0, <1>3, FailsTypeOK, UpdateStatusTypes, GotoTypes, UnchangedTypes
       DEF RetrySet
  <1> QED
    BY <1>1, <1>2, <1>3 DEF RetryStep

LEMMA RunLoopTypeOK ==
    ASSUME TypeOK, RowExists, NEW r \in Requests, RunLoop(r)
    PROVE  TypeOK'
  <1> USE LabelFacts, StatusFacts DEF TypeOK
  <1>1. CallTypeOK'
    BY DEF RunLoop, CallTypeOK
  <1>2. target[r] \in Cycles /\ Exists(target[r])
    BY DEF CallTypeOK, RowExists, RunLoop, Resting
  <1>3. IsTerminal(status[target[r]]) \/ status[target[r]] \in Labels
    BY <1>2 DEF RowTypeOK, Exists, IsTerminal, Statuses
  <1>4. PICK l \in Labels : Goto(r, l) /\ UNCHANGED errVars
    BY <1>3 DEF RunLoop
  <1>5. ControlTypeOK'
    BY <1>4, GotoTypes
  <1> QED
    BY <1>1, <1>5, UnchangedTypes DEF RunLoop

-----------------------------------------------------------------------------
(* The stage handlers write evidence, results, learned and confidence.     *)

LEMMA LogTypes ==
    ASSUME LogTypeOK, NEW c \in Cycles
    PROVE  /\ \A source \in Sources : AddEvidence(c, source)
                 /\ UNCHANGED <<results, learned>> => LogTypeOK'
           /\ \A stage \in Stages, passed \in BOOLEAN :
                 AddTestResult(c, stage, passed)
                 /\ UNCHANGED <<evidence, learned>> => LogTypeOK'
  <1>1. ASSUME NEW source \in Sources, AddEvidence(c, source)
        PROVE  evidence' \in [Cycles -> [Sources -> Nat]]
    <2>1. [evidence[c] EXCEPT ![source] = @ + 1] \in [Sources -> Nat]
      BY DEF LogTypeOK
    <2> QED
      BY <1>1, <2>1 DEF LogTypeOK, AddEvidence
  <1>2. ASSUME NEW stage \in Stages, NEW passed \in BOOLEAN,
               AddTestResult(c, stage, passed)
        PROVE  results' \in [Cycles -> SUBSET (Stages \X BOOLEAN)]
    BY <1>2 DEF LogTypeOK, AddTestResult
  <1> QED
    BY <1>1, <1>2 DEF LogTypeOK

LEMMA StageTypeOK ==
    ASSUME TypeOK, NEW r \in Requests, StageStep(r)
    PROVE  TypeOK'
  <1> USE LabelFacts, StatusFacts, ReasonFacts DEF TypeOK
  <1>0. target[r] \in Cycles /\ score[r] \in ScoreValues
    BY DEF CallTypeOK
  <1>s. {"analysis", "vector_memory", "llm_research", "system"} \subseteq Sources
    BY DEF Sources
  <1>f. CASE StatementFails(r)
    BY <1>f, FailsTypeOK
  <1>1. CASE ~StatementFails(r) /\ DetectedStage(r)
    <2>1. LogTypeOK'
      BY <1>0, <1>s, <1>1, LogTypes, UnchangedTypes DEF DetectedStage
    <2> QED
      BY <1>1, <2>1, GotoTypes, UnchangedTypes DEF DetectedStage
  <1>2. CASE ~StatementFails(r) /\ ResearchingStage(r)
    <2>1. LogTypeOK'
      BY <1>0, <1>s, <1>2, LogTypes, UnchangedTypes DEF ResearchingStage
    <2> QED
      BY <1>2, <2>1, GotoTypes, UnchangedTypes DEF ResearchingStage
  <1>3. CASE ~StatementFails(r) /\ ResearchInfer(r)
    <2>1. LogTypeOK'
      BY <1>0, <1>s, <1>3, LogTypes, UnchangedTypes DEF ResearchInfer
    <2> QED
      BY <1>3, <2>1, GotoTypes, UnchangedTypes DEF ResearchInfer
  <1>4. CASE ~StatementFails(r) /\ VerifyingStage(r)
    <2>1. Scores(target[r]) \subseteq ScoreValues
      BY DEF Scores
    <2>2. CallTypeOK'
      BY <1>4, <2>1, UnchangedTypes DEF VerifyingStage, CallTypeOK
    <2>3. ControlTypeOK'
      BY <1>4, GotoTypes, ReturnTypes DEF VerifyingStage
    <2> QED
      BY <1>4, <2>2, <2>3, UnchangedTypes DEF VerifyingStage
  <1>5. CASE ~StatementFails(r) /\ VerifyUpdate(r)
    <2>1. RowTypeOK'
      BY <1>0, <1>5 DEF VerifyUpdate, RowTypeOK
    <2> QED
      BY <1>5, <2>1, GotoTypes, UnchangedTypes DEF VerifyUpdate
  <1>6. CASE ~StatementFails(r) /\ VerifyRecord(r)
    <2>1. LogTypeOK'
      BY <1>0, <1>6, LogTypes DEF VerifyRecord
    <2>2. ControlTypeOK'
      BY <1>6, GotoTypes, ReturnTypes DEF VerifyRecord
    <2> QED
      BY <1>6, <2>1, <2>2, UnchangedTypes DEF VerifyRecord
  <1>7. CASE ~StatementFails(r) /\ PracticingStage(r)
    <2>1. LogTypeOK'
      BY <1>0, <1>7, LogTypes DEF PracticingStage
    <2> QED
      BY <1>7, <2>1, GotoTypes, UnchangedTypes DEF PracticingStage
  <1>8. CASE ~StatementFails(r) /\ TestingStage(r)
    <2>1. LogTypeOK'
      BY <1>0, <1>8, LogTypes DEF TestingStage
    <2> QED
      BY <1>8, <2>1, GotoTypes, UnchangedTypes DEF TestingStage
  <1>9. CASE ~StatementFails(r) /\ TestFailed(r)
    BY <1>9, GotoTypes, ReturnTypes, UnchangedTypes DEF TestFailed
  <1>10. CASE ~StatementFails(r) /\ ApplyingStage(r)
    <2>1. LogTypeOK'
      BY <1>0, <1>10, LogTypes DEF ApplyingStage
    <2> QED
      BY <1>10, <2>1, GotoTypes, UnchangedTypes DEF ApplyingStage
  <1>11. CASE StoreKnowledge(r)
    <2>1. LogTypeOK'
      BY <1>0, <1>11 DEF StoreKnowledge, LogTypeOK
    <2> QED
      BY <1>11, <2>1, GotoTypes, UnchangedTypes DEF StoreKnowledge
  <1> QED
    BY <1>f, <1>1, <1>2, <1>3, <1>4, <1>5, <1>6, <1>7, <1>8, <1>9, <1>10,
       <1>11
       DEF StageStep

LEMMA ReceiveTypeOK ==
    ASSUME TypeOK, NEW r \in Requests, NEW o \in Ops, NEW c \in Cycles,
           Receive(r, o, c)
    PROVE  TypeOK'
  <1> USE DEF TypeOK
  <1>1. o \in AllOps
    BY LearningAssumption
  <1>2. CallTypeOK'
    BY <1>1 DEF Receive, CallTypeOK
  <1>3. ControlTypeOK'
    BY <1>1, EntryLabelType, LabelFacts, GotoTypes DEF Receive
  <1> QED
    BY <1>2, <1>3, UnchangedTypes DEF Receive

LEMMA AbandonTypeOK ==
    ASSUME TypeOK, NEW r \in Requests, Abandon(r)
    PROVE  TypeOK'
  BY LabelFacts, GotoTypes, UnchangedTypes DEF Abandon, TypeOK

\* TypeOK is preserved by every step of a state whose requests have a row.
LEMMA NextTypeOK ==
    ASSUME TypeOK, RowExists, [Next]_vars
    PROVE  TypeOK'
  <1>1. CASE UNCHANGED vars
    BY <1>1, UnchangedTypes DEF vars, TypeOK, ControlTypeOK
  <1>2. CASE Next
    <2> SUFFICES ASSUME NEW r \in Requests,
                        \/ \E o \in Ops, c \in Cycles : Receive(r, o, c)
                        \/ Step(r)
                        \/ Abandon(r)
                 PROVE  TypeOK'
      BY <1>2 DEF Next
    <2> QED
      BY StartTypeOK, AdvanceTypeOK, FailTypeOK, RetryTypeOK, RunLoopTypeOK,
         StageTypeOK, ReceiveTypeOK, AbandonTypeOK
         DEF Step
  <1> QED
    BY <1>1, <1>2

-----------------------------------------------------------------------------
(* Which labels a step leads to, and which rows it creates.                *)

StartLabels == {"start_count", "start_insert", "start_publish"}
LateLabels == Labels \ StartLabels

\* The cause a request may fail its cycle with is known, and nobody else's
\* changes.
CauseMove(r, l) ==
    /\ l = "fail_set" => cause'[r] # "none"
    /\ \A q \in Requests \ {r} : cause'[q] = cause[q]

\* A step past start_publish: it creates no row and keeps its call.
LateMove(r) ==
    /\ \E l \in LateLabels : Goto(r, l) /\ CauseMove(r, l)
    /\ \A c \in Cycles : Exists(c)' <=> Exists(c)
    /\ UNCHANGED <<op, target>>

LEMMA ReturnLabel ==
    ASSUME ControlTypeOK, NEW r \in Requests, NEW why \in Reasons \ {"none"},
           \/ ReturnOk(r) \/ ReturnErr(r, why) \/ CallFailCycle(r, why)
           \/ FailReturnOk(r) \/ FailReturnErr(r)
    PROVE  \E l \in {"run_loop", "done", "fail_set"} :
               Goto(r, l) /\ CauseMove(r, l)
  <1> USE DEF CauseMove, ControlTypeOK
  <1>0. "db" \in Reasons \ {"none"}
    BY DEF Reasons
  <1>1. CASE ReturnOk(r)
    BY <1>1 DEF ReturnOk
  <1>2. ASSUME NEW w \in Reasons \ {"none"}, ReturnErr(r, w)
        PROVE  \E l \in {"run_loop", "done", "fail_set"} :
                   Goto(r, l) /\ CauseMove(r, l)
    BY <1>2 DEF ReturnErr
  <1>3. CASE CallFailCycle(r, why)
    BY <1>3 DEF CallFailCycle
  <1>4. CASE FailReturnOk(r)
    BY <1>4 DEF FailReturnOk
  <1>5. CASE FailReturnErr(r)
    BY <1>0, <1>2, <1>5 DEF FailReturnErr
  <1> QED
    BY <1>1, <1>2, <1>3, <1>4, <1>5

\* A start request never turns into another one.
LEMMA StartReturn ==
    ASSUME NEW r \in Requests, NEW why, op[r] = "start",
           ReturnOk(r) \/ ReturnErr(r, why)
    PROVE  Goto(r, "done") /\ UNCHANGED errVars
  BY DEF ReturnOk, ReturnErr

LEMMA LateFacts ==
    /\ \A l \in {"run_loop", "done", "fail_set", "fail_publish", "adv_get",
                 "adv_set", "adv_publish", "adv_exhaust",
                 "adv_exhaust_publish", "retry_get", "retry_increment",
                 "retry_set", "research_infer", "verify_update",
                 "verify_record", "test_failed", "store_knowledge"} :
          l \in LateLabels
    /\ \A s \in Stages : s \in LateLabels /\ s # "fail_set"
    /\ {"max_retries", "no_sources", "low_confidence", "tests_failed",
        "terminal", "db"} \subseteq Reasons \ {"none"}
  BY DEF LateLabels, Labels, StartLabels, Stages, Resting, Reasons

\* Writing a status other than "absent" over an existing one.
LEMMA UpdateKeepsRows ==
    ASSUME RowTypeOK, NEW k \in Cycles, Exists(k), NEW s, s # "absent",
           NEW w, UpdateStatus(k, s, w)
    PROVE  \A c \in Cycles : Exists(c)' <=> Exists(c)
  BY DEF RowTypeOK, UpdateStatus, Exists

LEMMA LateStatement ==
    ASSUME ControlTypeOK, NEW r \in Requests, StatementFails(r)
    PROVE  LateMove(r)
  BY ReturnLabel, LateFacts DEF StatementFails, LateMove, Exists

LEMMA LateAdvance ==
    ASSUME TypeOK, RowExists, NEW r \in Requests, AdvanceStep(r)
    PROVE  LateMove(r)
  <1> USE LateFacts DEF TypeOK
  <1>0. target[r] \in Cycles /\ Exists(target[r])
    BY DEF CallTypeOK, RowExists, AdvanceStep, AdvGet, AdvSet, AdvPublish,
           AdvExhaust, AdvExhaustPublish, Resting
  <1>1. CASE AdvGet(r)
    <2>1. CASE StatementFails(r)
      BY <2>1, LateStatement
    <2>2. CASE ~StatementFails(r)
      <3>1. \E l \in LateLabels : Goto(r, l) /\ CauseMove(r, l)
        BY <1>1, <2>2, ReturnLabel DEF AdvGet, CauseMove
      <3> QED
        BY <1>1, <2>2, <3>1 DEF AdvGet, LateMove, Exists
    <2> QED
      BY <2>1, <2>2
  <1>2. CASE AdvSet(r)
    <2>1. seen[r] \in Stages /\ NextStatus[seen[r]] # "absent"
      BY NextStatusType DEF CallTypeOK
    <2> QED
      BY <1>0, <1>2, <2>1, LateStatement, UpdateKeepsRows
         DEF AdvSet, LateMove, CauseMove
  <1>3. CASE AdvPublish(r)
    BY <1>3, ReturnLabel DEF AdvPublish, LateMove, Exists
  <1>4. CASE AdvExhaust(r)
    BY <1>0, <1>4, LateStatement, UpdateKeepsRows
       DEF AdvExhaust, LateMove, CauseMove
  <1>5. CASE AdvExhaustPublish(r)
    BY <1>5, ReturnLabel DEF AdvExhaustPublish, LateMove, Exists
  <1> QED
    BY <1>1, <1>2, <1>3, <1>4, <1>5 DEF AdvanceStep

LEMMA LateFail ==
    ASSUME TypeOK, RowExists, NEW r \in Requests, FailStep(r)
    PROVE  LateMove(r)
  <1> USE LateFacts DEF TypeOK
  <1>0. target[r] \in Cycles /\ Exists(target[r])
    BY DEF CallTypeOK, RowExists, FailStep, FailSet, FailPublish, Resting
  <1>1. CASE FailSet(r)
    <2>1. \E l \in LateLabels : Goto(r, l) /\ CauseMove(r, l)
      BY <1>1, ReturnLabel DEF FailSet, CauseMove
    <2>2. \A c \in Cycles : Exists(c)' <=> Exists(c)
      BY <1>0, <1>1, UpdateKeepsRows DEF FailSet, Exists
    <2> QED
      BY <1>1, <2>1, <2>2 DEF FailSet, LateMove
  <1>2. CASE FailPublish(r)
    BY <1>2, ReturnLabel DEF FailPublish, LateMove, Exists
  <1> QED
    BY <1>1, <1>2 DEF FailStep

LEMMA LateRetry ==
    ASSUME TypeOK, RowExists, NEW r \in Requests, RetryStep(r)
    PROVE  LateMove(r)
  <1> USE LateFacts DEF TypeOK
  <1>0. target[r] \in Cycles /\ Exists(target[r])
    BY DEF CallTypeOK, RowExists, RetryStep, RetryGet, RetryIncrement,
           RetrySet, Resting
  <1>1. CASE RetryGet(r)
    <2>1. \E l \in LateLabels : Goto(r, l) /\ CauseMove(r, l)
      BY <1>1, ReturnLabel DEF RetryGet, StatementFails, CauseMove
    <2> QED
      BY <1>1, <2>1 DEF RetryGet, StatementFails, LateMove, Exists
  <1>2. CASE RetryIncrement(r)
    BY <1>2, LateStatement
       DEF RetryIncrement, IncrementRetry, LateMove, CauseMove, Exists
  <1>3. CASE RetrySet(r)
    BY <1>0, <1>3, LateStatement, UpdateKeepsRows
       DEF RetrySet, LateMove, CauseMove
  <1> QED
    BY <1>1, <1>2, <1>3 DEF RetryStep

LEMMA LateRunLoop ==
    ASSUME TypeOK, RowExists, NEW r \in Requests, RunLoop(r)
    PROVE  LateMove(r)
  <1> USE LateFacts DEF TypeOK
  <1>1. target[r] \in Cycles /\ Exists(target[r])
    BY DEF CallTypeOK, RowExists, RunLoop, Resting
  <1>2. \/ IsTerminal(status[target[r]])
        \/ status[target[r]] \in LateLabels \ {"fail_set"}
    BY <1>1 DEF RowTypeOK, Exists, IsTerminal, Statuses
  <1>3. PICK l \in LateLabels \ {"fail_set"} : Goto(r, l)
    BY <1>2 DEF RunLoop
  <1> QED
    BY <1>3 DEF RunLoop, LateMove, CauseMove, Exists

LEMMA LateStage ==
    ASSUME TypeOK, NEW r \in Requests, StageStep(r)
    PROVE  LateMove(r)
  <1> USE LateFacts DEF TypeOK
  <1>f. CASE StatementFails(r)
    BY <1>f, LateStatement
  <1>1. CASE ~StatementFails(r)
    <2> USE <1>1
    <2>1. \E l \in LateLabels : Goto(r, l) /\ CauseMove(r, l)
      BY ReturnLabel
         DEF StageStep, DetectedStage, ResearchingStage, ResearchInfer,
             VerifyingStage, VerifyUpdate, VerifyRecord, PracticingStage,
             TestingStage, TestFailed, ApplyingStage, StoreKnowledge,
             CauseMove
    <2>2. UNCHANGED <<status, op, target>>
      BY DEF StageStep, DetectedStage, ResearchingStage, ResearchInfer,
             VerifyingStage, VerifyUpdate, VerifyRecord, PracticingStage,
             TestingStage, TestFailed, ApplyingStage, StoreKnowledge
    <2> QED
      BY <2>1, <2>2 DEF LateMove, Exists
  <1> QED
    BY <1>f, <1>1

-----------------------------------------------------------------------------
(* Every request past its INSERT has a row, and a fresh id stays fresh.    *)

Fresh == {"start_count", "start_insert"}

\* The id of a start that has not inserted its row names no row, and no other
\* such request has it.
StartsFresh ==
    \A r \in Requests : pc[r] \in Fresh =>
        /\ ~Exists(target[r])
        /\ \A q \in Requests \ {r} : pc[q] \in Fresh => target[q] # target[r]

CauseKnown == \A r \in Requests : pc[r] = "fail_set" => cause[r] # "none"

ControlInv == RowExists /\ StartsFresh /\ CauseKnown

LEMMA LateControl ==
    ASSUME TypeOK, ControlInv, NEW r \in Requests, LateMove(r),
           pc[r] \notin Resting \cup Fresh
    PROVE  ControlInv'
  <1> USE DEF ControlInv
  <1>1. PICK l \in LateLabels : Goto(r, l) /\ CauseMove(r, l)
    BY DEF LateMove
  <1>2. /\ pc'[r] = l
        /\ \A q \in Requests \ {r} : pc'[q] = pc[q]
        /\ l \notin Fresh \cup {"start_publish"}
    BY <1>1 DEF Goto, TypeOK, ControlTypeOK, LateLabels, StartLabels, Fresh
  <1>3. \A q \in Requests :
           /\ op'[q] = op[q] /\ target'[q] = target[q] /\ target[q] \in Cycles
           /\ Exists(target[q])' <=> Exists(target[q])
    BY DEF LateMove, TypeOK, CallTypeOK, Exists
  <1>4. RowExists'
    BY <1>2, <1>3 DEF RowExists, Fresh
  <1>5. StartsFresh'
    BY <1>2, <1>3 DEF StartsFresh
  <1>6. CauseKnown'
    BY <1>1, <1>2 DEF CauseKnown, CauseMove
  <1> QED
    BY <1>4, <1>5, <1>6

LEMMA StartControl ==
    ASSUME TypeOK, ControlInv, NEW r \in Requests, StartStep(r)
    PROVE  ControlInv'
  <1> USE DEF ControlInv
  <1>0. /\ op[r] = "start" /\ target[r] \in Cycles
        /\ pc \in [Requests -> Labels]
    BY DEF RowExists, StartStep, StartCount, StartInsert, StartPublish,
           TypeOK, CallTypeOK, ControlTypeOK
  <1>1. UNCHANGED <<op, target, cause>>
    BY <1>0, StartReturn
       DEF StartStep, StartCount, StartInsert, StartPublish, StatementFails
  <1>2. CASE pc[r] = "start_insert" /\ Goto(r, "start_publish")
             /\ status' = [status EXCEPT ![target[r]] = "detected"]
    <2>1. /\ pc'[r] = "start_publish"
          /\ \A q \in Requests \ {r} : pc'[q] = pc[q]
      BY <1>0, <1>2 DEF Goto
    <2>2. /\ Exists(target[r])'
          /\ \A c \in Cycles : Exists(c) => Exists(c)'
          /\ \A c \in Cycles \ {target[r]} : Exists(c)' => Exists(c)
      BY <1>0, <1>1, <1>2 DEF Exists, TypeOK, RowTypeOK
    <2>3. \A q \in Requests : target[q] \in Cycles
      BY DEF TypeOK, CallTypeOK
    <2>4. \A q \in Requests : Exists(target[q])' => Exists(target[q])
                                                    \/ target[q] = target[r]
      BY <1>1, <2>2, <2>3 DEF Exists
    <2>5. \A q \in Requests : Exists(target[q]) => Exists(target[q])'
      BY <1>1, <2>2, <2>3 DEF Exists
    <2>6. RowExists'
      BY <1>0, <1>1, <2>1, <2>2, <2>5 DEF RowExists
    <2>7. StartsFresh'
      BY <1>0, <1>1, <1>2, <2>1, <2>4 DEF StartsFresh, Fresh
    <2>8. CauseKnown'
      BY <1>1, <2>1 DEF CauseKnown
    <2> QED
      BY <2>6, <2>7, <2>8
  <1>3. CASE UNCHANGED status
             /\ \E l \in {"start_insert", "done", "refused"} :
                   Goto(r, l) /\ (l = "start_insert" => pc[r] = "start_count")
    <2>1. PICK l \in {"start_insert", "done", "refused"} :
                  Goto(r, l) /\ (l = "start_insert" => pc[r] = "start_count")
      BY <1>3
    <2>2. pc'[r] = l /\ \A q \in Requests \ {r} : pc'[q] = pc[q]
      BY <1>0, <2>1 DEF Goto
    <2>3. \A c : Exists(c)' <=> Exists(c)
      BY <1>3 DEF Exists
    <2>4. RowExists'
      BY <1>0, <1>1, <2>1, <2>2, <2>3 DEF RowExists, Resting
    <2>5. StartsFresh'
      BY <1>1, <2>1, <2>2, <2>3 DEF StartsFresh, Fresh
    <2>6. CauseKnown'
      BY <1>1, <2>1, <2>2 DEF CauseKnown
    <2> QED
      BY <2>4, <2>5, <2>6
  <1> QED
    BY <1>0, <1>2, <1>3, StartReturn
       DEF StartStep, StartCount, StartInsert, StartPublish, StatementFails

LEMMA ReceiveControl ==
    ASSUME TypeOK, ControlInv, NEW r \in Requests, NEW o \in Ops,
           NEW c \in Cycles, Receive(r, o, c)
    PROVE  ControlInv'
  <1> USE DEF ControlInv
  <1>1. /\ o \in AllOps
        /\ \A q \in Requests : target[q] \in Cycles /\ pc[q] \in Labels
    BY LearningAssumption DEF TypeOK, CallTypeOK, ControlTypeOK
  <1>2. /\ pc'[r] = EntryLabel[o] /\ op'[r] = o /\ target'[r] = c
        /\ \A q \in Requests \ {r} :
              pc'[q] = pc[q] /\ op'[q] = op[q] /\ target'[q] = target[q]
        /\ UNCHANGED <<status, cause>>
    BY DEF Receive, Goto, TypeOK, CallTypeOK, ControlTypeOK
  <1>3. /\ EntryLabel[o] \notin {"start_insert", "start_publish", "fail_set"}
        /\ EntryLabel[o] = "start_count" <=> o = "start"
    BY <1>1, EntryLabelType
  <1>4. /\ o # "start" => Exists(c)
        /\ o = "start" => /\ ~Exists(c)
                          /\ \A q \in InFlight : ~(op[q] = "start"
                                                    /\ target[q] = c)
    BY DEF Receive, Addressable
  <1>5. RowExists'
    BY <1>1, <1>2, <1>3, <1>4 DEF RowExists, Exists
  <1>6. \A q \in Requests : pc[q] \in Fresh => q \in InFlight
                                               /\ op[q] = "start"
    BY DEF RowExists, InFlight, Fresh, Resting
  <1>7. StartsFresh'
    BY <1>2, <1>3, <1>4, <1>6 DEF StartsFresh, Fresh, Exists
  <1>8. CauseKnown'
    BY <1>2, <1>3 DEF CauseKnown
  <1> QED
    BY <1>5, <1>7, <1>8

LEMMA NextControl ==
    ASSUME TypeOK, ControlInv, [Next]_vars
    PROVE  ControlInv'
  <1>1. CASE UNCHANGED vars
    BY <1>1 DEF vars, ControlInv, RowExists, StartsFresh, CauseKnown, Exists
  <1>2. ASSUME NEW r \in Requests, Step(r)
        PROVE  ControlInv'
    <2>1. CASE StartStep(r)
      BY <2>1, StartControl
    <2>2. CASE ~StartStep(r)
      <3>1. LateMove(r)
        BY <1>2, <2>2, LateAdvance, LateFail, LateRetry, LateRunLoop,
           LateStage
           DEF Step, ControlInv
      <3>2. pc[r] \notin Resting \cup Fresh
        BY <1>2, <2>2
           DEF Step, AdvanceStep, AdvGet, AdvSet, AdvPublish, AdvExhaust,
               AdvExhaustPublish, FailStep, FailSet, FailPublish, RetryStep,
               RetryGet, RetryIncrement, RetrySet, RunLoop, StageStep,
               DetectedStage, ResearchingStage, ResearchInfer,
               VerifyingStage, VerifyUpdate, VerifyRecord, PracticingStage,
               TestingStage, TestFailed, ApplyingStage, StoreKnowledge,
               Resting, Fresh
      <3> QED
        BY <3>1, <3>2, LateControl
    <2> QED
      BY <2>1, <2>2
  <1>3. ASSUME NEW r \in Requests, Abandon(r)
        PROVE  ControlInv'
    <2>1. pc'[r] = "done" /\ \A q \in Requests \ {r} : pc'[q] = pc[q]
      BY <1>3 DEF Abandon, Goto, TypeOK, ControlTypeOK
    <2> QED
      BY <1>3, <2>1
         DEF Abandon, ControlInv, RowExists, StartsFresh, CauseKnown, Exists,
             Resting, Fresh
  <1> QED
    BY <1>1, <1>2, <1>3, ReceiveControl DEF Next

LEMMA InitControl == Init => ControlInv
  BY DEF Init, ControlInv, RowExists, StartsFresh, CauseKnown, Resting, Fresh

\* In every reachable state, whatever the number of cycles and clients, the
\* limits and the faults, each column and local variable is in its range.
THEOREM TypeCorrect == Spec => []TypeOK
  <1>1. Init => TypeOK /\ ControlInv
    BY InitTypeOK, InitControl
  <1>2. TypeOK /\ ControlInv /\ [Next]_vars => (TypeOK /\ ControlInv)'
    BY NextTypeOK, NextControl DEF ControlInv
  <1> QED
    BY <1>1, <1>2, PTL DEF Spec

\* A request past its INSERT always has its row (no handler meets NOT_FOUND),
\* ids of pending starts are fresh, and fail_cycle never gets an empty reason.
THEOREM ControlCorrect == Spec => []ControlInv
  <1>1. Init => TypeOK /\ ControlInv
    BY InitTypeOK, InitControl
  <1>2. TypeOK /\ ControlInv /\ [Next]_vars => (TypeOK /\ ControlInv)'
    BY NextTypeOK, NextControl DEF ControlInv
  <1> QED
    BY <1>1, <1>2, PTL DEF Spec

-----------------------------------------------------------------------------
(* A failed cycle tells why.                                               *)

\* update_status keeps the two columns together when its arguments agree.
LEMMA UpdateExplained ==
    ASSUME RowTypeOK, FailureExplained, NEW k \in Cycles, NEW s, NEW w,
           s = "failed" <=> w # "none", UpdateStatus(k, s, w)
    PROVE  FailureExplained'
  BY DEF RowTypeOK, FailureExplained, UpdateStatus

LEMMA StepExplained ==
    ASSUME TypeOK, ControlInv, FailureExplained, NEW r \in Requests, Step(r)
    PROVE  FailureExplained'
  <1> USE DEF TypeOK
  <1>0. target[r] \in Cycles /\ seen[r] \in Stages
    BY DEF CallTypeOK
  <1>1. CASE UNCHANGED <<status, reason>>
    BY <1>1 DEF FailureExplained
  <1>2. ASSUME NEW s, NEW w, s = "failed" <=> w # "none",
               UpdateStatus(target[r], s, w)
        PROVE  FailureExplained'
    BY <1>0, <1>2, UpdateExplained
  <1>3. CASE StartInsert(r)
    <2>1. CASE UNCHANGED <<status, reason>>
      BY <2>1, <1>1
    <2>2. CASE /\ status' = [status EXCEPT ![target[r]] = "detected"]
               /\ UNCHANGED reason
      <3>1. status[target[r]] = "absent"
        BY <1>3 DEF StartInsert, ControlInv, StartsFresh, Fresh, Exists
      <3> QED
        BY <1>0, <2>2, <3>1 DEF FailureExplained, RowTypeOK
    <2> QED
      BY <1>3, <2>1, <2>2 DEF StartInsert, StatementFails
  <1>4. CASE AdvSet(r)
    BY <1>0, <1>1, <1>2, <1>4, NextStatusType DEF AdvSet, StatementFails
  <1>5. CASE AdvExhaust(r)
    BY <1>1, <1>2, <1>5 DEF AdvExhaust, StatementFails
  <1>6. CASE FailSet(r)
    BY <1>1, <1>2, <1>6 DEF FailSet, ControlInv, CauseKnown
  <1>7. CASE RetrySet(r)
    BY <1>1, <1>2, <1>7 DEF RetrySet, StatementFails
  <1>8. CASE StageStep(r)
    BY <1>1, <1>8
       DEF StageStep, DetectedStage, ResearchingStage, ResearchInfer,
           VerifyingStage, VerifyUpdate, VerifyRecord, PracticingStage,
           TestingStage, TestFailed, ApplyingStage, StoreKnowledge,
           StatementFails
  <1>9. CASE StartCount(r) \/ StartPublish(r) \/ AdvGet(r) \/ AdvPublish(r)
             \/ AdvExhaustPublish(r) \/ FailPublish(r) \/ RetryGet(r)
             \/ RetryIncrement(r) \/ RunLoop(r)
    BY <1>1, <1>9
       DEF StartCount, StartPublish, AdvGet, AdvPublish, AdvExhaustPublish,
           FailPublish, RetryGet, RetryIncrement, IncrementRetry, RunLoop,
           StatementFails
  <1> QED
    BY <1>3, <1>4, <1>5, <1>6, <1>7, <1>8, <1>9
       DEF Step, StartStep, AdvanceStep, FailStep, RetryStep

\* Whatever the number of cycles and concurrent requests, and whichever
\* statements fail or requests die: a row is failed exactly when it has a
\* failure_reason.
THEOREM FailuresExplained == Spec => []FailureExplained
  <1> DEFINE Inv == TypeOK /\ ControlInv /\ FailureExplained
  <1>1. Init => Inv
    BY InitTypeOK, InitControl DEF Init, FailureExplained
  <1>2. Inv /\ [Next]_vars => Inv'
    <2> SUFFICES ASSUME Inv, [Next]_vars
                 PROVE  Inv'
      OBVIOUS
    <2>1. TypeOK' /\ ControlInv'
      BY NextTypeOK, NextControl DEF ControlInv
    <2>2. FailureExplained'
      <3>1. CASE UNCHANGED <<status, reason>>
        BY <3>1 DEF FailureExplained
      <3> QED
        BY <3>1, StepExplained DEF Next, Receive, Abandon, vars
    <2> QED
      BY <2>1, <2>2
  <1>3. Inv => FailureExplained
    OBVIOUS
  <1> QED
    BY <1>1, <1>2, <1>3, PTL DEF Spec

-----------------------------------------------------------------------------
(* One request at a time: the lifecycle implemented.                       *)

OneAtATime == \A p, q \in InFlight : p = q

\* What a request has just read still holds at its next statement.
Guard(r) ==
    LET c == target[r] IN
    /\ pc[r] = "adv_set" => status[c] = seen[r] /\ retries[c] < MaxRetries
    /\ pc[r] = "retry_increment" => retries[c] < MaxRetries
    /\ pc[r] = "retry_set" => retries[c] > 0

SoloInv == OneAtATime /\ \A r \in Requests : Guard(r)

GuardedLabels == {"adv_set", "retry_increment", "retry_set"}

LEMMA ReturnGuard ==
    ASSUME ControlTypeOK, NEW r \in Requests, NEW why,
           \/ ReturnOk(r) \/ ReturnErr(r, why) \/ CallFailCycle(r, why)
           \/ FailReturnOk(r) \/ FailReturnErr(r)
    PROVE  pc'[r] \notin GuardedLabels
  <1>1. ASSUME NEW w, ReturnErr(r, w)
        PROVE  pc'[r] \notin GuardedLabels
    BY <1>1 DEF ReturnErr, Goto, ControlTypeOK, GuardedLabels
  <1> QED
    BY <1>1 DEF ReturnOk, CallFailCycle, FailReturnOk, FailReturnErr, Goto,
                ControlTypeOK, GuardedLabels

LEMMA StepGuard ==
    ASSUME TypeOK, ControlInv, NEW r \in Requests, Step(r)
    PROVE  Guard(r)'
  <1> USE DEF TypeOK
  <1>0. /\ target[r] \in Cycles
        /\ pc \in [Requests -> Labels]
        /\ seen \in [Requests -> Stages]
    BY DEF CallTypeOK, ControlTypeOK
  <1>1. CASE pc'[r] \notin GuardedLabels
    BY <1>1 DEF Guard, GuardedLabels
  <1>2. CASE StatementFails(r)
    BY <1>1, <1>2, ReturnGuard DEF StatementFails
  <1>3. CASE AdvGet(r)
    <2>1. CASE ReturnErr(r, "terminal")
      BY <1>1, <2>1, ReturnGuard
    <2>2. CASE /\ Goto(r, IF retries[target[r]] >= MaxRetries
                          THEN "adv_exhaust" ELSE "adv_set")
               /\ seen' = [seen EXCEPT ![r] = status[target[r]]]
               /\ UNCHANGED <<rowVars, target>>
      BY <1>0, <2>2, LearningAssumption DEF Goto, Guard, RowTypeOK
    <2> QED
      BY <1>2, <1>3, <2>1, <2>2 DEF AdvGet
  <1>4. CASE RetryGet(r)
    <2>1. CASE ReturnErr(r, "max_retries")
      BY <1>1, <2>1, ReturnGuard
    <2>2. CASE /\ retries[target[r]] < MaxRetries
               /\ Goto(r, "retry_increment")
               /\ UNCHANGED <<rowVars, target>>
      BY <1>0, <2>2 DEF Goto, Guard
    <2> QED
      BY <1>2, <1>4, <2>1, <2>2 DEF RetryGet
  <1>5. CASE RetryIncrement(r)
    <2>1. CASE /\ IncrementRetry(target[r])
               /\ Goto(r, "retry_set")
               /\ UNCHANGED target
      BY <1>0, <2>1 DEF Goto, Guard, IncrementRetry, RowTypeOK
    <2> QED
      BY <1>2, <1>5, <2>1 DEF RetryIncrement
  <1>6. CASE StartStep(r) \/ AdvSet(r) \/ AdvPublish(r) \/ AdvExhaust(r)
             \/ AdvExhaustPublish(r) \/ FailStep(r) \/ RetrySet(r)
    <2>1. pc'[r] \notin GuardedLabels
      BY <1>0, <1>6, ReturnGuard
         DEF StartStep, StartCount, StartInsert, StartPublish, AdvSet,
             AdvPublish, AdvExhaust, AdvExhaustPublish, FailStep, FailSet,
             FailPublish, RetrySet, StatementFails, Goto, GuardedLabels
    <2> QED
      BY <1>1, <2>1
  <1>7. CASE RunLoop(r)
    <2>1. Exists(target[r])
      BY <1>7 DEF RunLoop, ControlInv, RowExists, Resting
    <2>2. IsTerminal(status[target[r]]) \/ status[target[r]] \in Stages
      BY <1>0, <2>1 DEF RowTypeOK, Exists, IsTerminal, Statuses
    <2>3. pc'[r] \notin GuardedLabels
      BY <1>0, <1>7, <2>2, LabelFacts DEF RunLoop, Goto, GuardedLabels
    <2> QED
      BY <1>1, <2>3
  <1>8. CASE StageStep(r) /\ ~StatementFails(r)
    <2>1. pc'[r] \notin GuardedLabels
      BY <1>0, <1>8, ReturnGuard
         DEF StageStep, DetectedStage, ResearchingStage, ResearchInfer,
             VerifyingStage, VerifyUpdate, VerifyRecord, PracticingStage,
             TestingStage, TestFailed, ApplyingStage, StoreKnowledge, Goto,
             GuardedLabels
    <2> QED
      BY <1>1, <2>1
  <1> QED
    BY <1>2, <1>3, <1>4, <1>5, <1>6, <1>7, <1>8
       DEF Step, AdvanceStep, RetryStep

\* A step is taken by a request in flight and moves only its own label.
LEMMA StepLabel ==
    ASSUME TypeOK, ControlInv, NEW r \in Requests, Step(r)
    PROVE  r \in InFlight /\ \A q \in Requests \ {r} : pc'[q] = pc[q]
  <1>1. CASE StartStep(r)
    <2>1. op[r] = "start"
      BY <1>1 DEF StartStep, StartCount, StartInsert, StartPublish,
                  ControlInv, RowExists
    <2> QED
      BY <1>1, <2>1, StartReturn
         DEF StartStep, StartCount, StartInsert, StartPublish,
             StatementFails, InFlight, Resting, Goto, TypeOK, ControlTypeOK
  <1>2. CASE ~StartStep(r)
    <2>1. LateMove(r)
      BY <1>2, LateAdvance, LateFail, LateRetry, LateRunLoop, LateStage
         DEF Step, ControlInv
    <2>2. pc[r] \notin Resting
      BY <1>2
         DEF Step, AdvanceStep, AdvGet, AdvSet, AdvPublish, AdvExhaust,
             AdvExhaustPublish, FailStep, FailSet, FailPublish, RetryStep,
             RetryGet, RetryIncrement, RetrySet, RunLoop, StageStep,
             DetectedStage, ResearchingStage, ResearchInfer,
             VerifyingStage, VerifyUpdate, VerifyRecord, PracticingStage,
             TestingStage, TestFailed, ApplyingStage, StoreKnowledge,
             Resting
    <2> QED
      BY <2>1, <2>2 DEF LateMove, Goto, InFlight, TypeOK, ControlTypeOK
  <1> QED
    BY <1>1, <1>2

\* Which statements move a row, and how: everything else leaves status and
\* retry count alone.
RowStep(r) ==
    LET c == target[r] IN
    \/ UNCHANGED <<status, retries>>
    \/ pc[r] = "start_insert" /\ Lifecycle!Create(c)
    \/ pc[r] = "adv_set" /\ UpdateStatus(c, NextStatus[seen[r]], "none")
    \/ Exists(c) /\ \E w : UpdateStatus(c, "failed", w)
    \/ pc[r] = "retry_increment" /\ IncrementRetry(c)
    \/ pc[r] = "retry_set" /\ UpdateStatus(c, "researching", "none")

LEMMA StepRow ==
    ASSUME TypeOK, ControlInv, NEW r \in Requests, Step(r)
    PROVE  RowStep(r)
  <1>1. CASE UNCHANGED <<status, retries>>
    BY <1>1 DEF RowStep
  <1>2. CASE StartInsert(r)
    <2>1. ~Exists(target[r])
      BY <1>2 DEF StartInsert, ControlInv, StartsFresh, Fresh
    <2> QED
      BY <1>1, <1>2, <2>1
         DEF StartInsert, StatementFails, RowStep, Lifecycle!Create, Exists
  <1>3. CASE AdvSet(r)
    BY <1>1, <1>3 DEF AdvSet, StatementFails, RowStep
  <1>4. CASE AdvExhaust(r)
    <2>1. Exists(target[r])
      BY <1>4 DEF AdvExhaust, ControlInv, RowExists, Resting
    <2> QED
      BY <1>1, <1>4, <2>1 DEF AdvExhaust, StatementFails, RowStep
  <1>5. CASE FailSet(r)
    <2>1. Exists(target[r])
      BY <1>5 DEF FailSet, ControlInv, RowExists, Resting
    <2> QED
      BY <1>1, <1>5, <2>1 DEF FailSet, RowStep
  <1>6. CASE RetryIncrement(r) \/ RetrySet(r)
    BY <1>1, <1>6 DEF RetryIncrement, RetrySet, StatementFails, RowStep
  <1>7. CASE StageStep(r)
    BY <1>1, <1>7
       DEF StageStep, DetectedStage, ResearchingStage, ResearchInfer,
           VerifyingStage, VerifyUpdate, VerifyRecord, PracticingStage,
           TestingStage, TestFailed, ApplyingStage, StoreKnowledge,
           StatementFails
  <1>8. CASE StartCount(r) \/ StartPublish(r) \/ AdvGet(r) \/ AdvPublish(r)
             \/ AdvExhaustPublish(r) \/ FailPublish(r) \/ RetryGet(r)
             \/ RunLoop(r)
    BY <1>1, <1>8
       DEF StartCount, StartPublish, AdvGet, AdvPublish, AdvExhaustPublish,
           FailPublish, RetryGet, RunLoop, StatementFails
  <1> QED
    BY <1>2, <1>3, <1>4, <1>5, <1>6, <1>7, <1>8
       DEF Step, StartStep, AdvanceStep, FailStep, RetryStep

LEMMA SameEnumeration ==
    Lifecycle!Stages = Stages /\ Lifecycle!NextStatus = NextStatus
  BY DEF Lifecycle!Stages, Stages, Lifecycle!NextStatus, NextStatus

\* Under its guards, a step on the rows is a step of the lifecycle.
LEMMA StepLifecycle ==
    ASSUME TypeOK, ControlInv, NEW r \in Requests, Guard(r), Step(r)
    PROVE  [Lifecycle!Next]_<<status, retries>>
  <1>0. target[r] \in Cycles /\ seen[r] \in Stages
    BY DEF TypeOK, CallTypeOK
  <1>1. RowStep(r)
    BY StepRow
  <1>2. CASE pc[r] = "start_insert" /\ Lifecycle!Create(target[r])
    BY <1>0, <1>2 DEF Lifecycle!Next
  <1>3. CASE pc[r] = "adv_set"
             /\ UpdateStatus(target[r], NextStatus[seen[r]], "none")
    <2>1. Lifecycle!Advance(target[r])
      BY <1>0, <1>3, SameEnumeration
         DEF Guard, UpdateStatus, Lifecycle!Advance
    <2> QED
      BY <1>0, <2>1 DEF Lifecycle!Next
  <1>4. CASE Exists(target[r])
             /\ \E w : UpdateStatus(target[r], "failed", w)
    <2>1. Lifecycle!Fail(target[r])
      BY <1>4 DEF UpdateStatus, Lifecycle!Fail, Exists
    <2> QED
      BY <1>0, <2>1 DEF Lifecycle!Next
  <1>5. CASE pc[r] = "retry_increment" /\ IncrementRetry(target[r])
    <2>1. status[target[r]] # "absent"
      BY <1>5 DEF ControlInv, RowExists, Exists, Resting
    <2>2. Lifecycle!SpendRetry(target[r])
      BY <1>5, <2>1 DEF Guard, IncrementRetry, Lifecycle!SpendRetry
    <2> QED
      BY <1>0, <2>2 DEF Lifecycle!Next
  <1>6. CASE pc[r] = "retry_set"
             /\ UpdateStatus(target[r], "researching", "none")
    <2>1. Lifecycle!Reopen(target[r])
      BY <1>6 DEF Guard, UpdateStatus, Lifecycle!Reopen
    <2> QED
      BY <1>0, <2>1 DEF Lifecycle!Next
  <1> QED
    BY <1>1, <1>2, <1>3, <1>4, <1>5, <1>6 DEF RowStep

SoloSpecInv == TypeOK /\ ControlInv /\ SoloInv

LEMMA InitSolo ==
    ASSUME Init
    PROVE  SoloSpecInv
  <1>1. OneAtATime /\ \A r \in Requests : Guard(r)
    BY DEF Init, OneAtATime, InFlight, Resting, Guard
  <1> QED
    BY <1>1, InitTypeOK, InitControl DEF SoloInv, SoloSpecInv

LEMMA NextLifecycle ==
    ASSUME SoloSpecInv, [Next]_vars
    PROVE  [Lifecycle!Next]_<<status, retries>>
  BY StepLifecycle DEF SoloSpecInv, SoloInv, Next, Receive, Abandon, vars

LEMMA NothingInFlight ==
    ASSUME MaxInFlight = 1, Cardinality(InFlight) < MaxInFlight
    PROVE  InFlight = {}
  BY LearningAssumption, FS_Subset, FS_EmptySet, FS_CardinalityType
     DEF InFlight

LEMMA NextSolo ==
    ASSUME MaxInFlight = 1, SoloSpecInv, [Next]_vars
    PROVE  SoloSpecInv'
  <1> USE DEF SoloSpecInv
  <1>0. pc \in [Requests -> Labels]
    BY DEF TypeOK, ControlTypeOK
  <1>1. TypeOK' /\ ControlInv'
    BY NextTypeOK, NextControl DEF ControlInv
  <1>3. CASE UNCHANGED vars
    BY <1>1, <1>3
       DEF vars, SoloInv, OneAtATime, InFlight, Guard
  <1>4. ASSUME NEW r \in Requests, Step(r)
        PROVE  OneAtATime' /\ \A q \in Requests : Guard(q)'
    <2>1. r \in InFlight /\ \A q \in Requests \ {r} : pc'[q] = pc[q]
      BY <1>4, StepLabel
    <2>2. \A q \in Requests \ {r} : pc'[q] \in Resting
      BY <2>1 DEF SoloInv, OneAtATime, InFlight
    <2>3. \A q \in Requests \ {r} : Guard(q)'
      BY <2>2 DEF Guard, Resting
    <2>4. OneAtATime'
      BY <2>2 DEF OneAtATime, InFlight
    <2> QED
      BY <1>4, <2>3, <2>4, StepGuard
  <1>5. ASSUME NEW r \in Requests, NEW o \in Ops, NEW c \in Cycles,
               Receive(r, o, c)
        PROVE  OneAtATime' /\ \A q \in Requests : Guard(q)'
    <2>1. /\ \A q \in Requests \ {r} : pc'[q] = pc[q]
          /\ pc'[r] = EntryLabel[o]
          /\ InFlight = {}
      BY <1>0, <1>5, NothingInFlight DEF Receive, Goto
    <2>2. EntryLabel[o] \notin GuardedLabels
      BY EntryLabelType, LearningAssumption DEF GuardedLabels
    <2> QED
      BY <2>1, <2>2 DEF OneAtATime, InFlight, Guard, GuardedLabels, Resting
  <1>6. ASSUME NEW r \in Requests, Abandon(r)
        PROVE  OneAtATime' /\ \A q \in Requests : Guard(q)'
    <2>1. pc'[r] = "done" /\ \A q \in Requests \ {r} : pc'[q] = pc[q]
      BY <1>0, <1>6 DEF Abandon, Goto
    <2> QED
      BY <1>6, <2>1
         DEF Abandon, OneAtATime, InFlight, Guard, SoloInv, Resting
  <1> QED
    BY <1>1, <1>3, <1>4, <1>5, <1>6 DEF Next, SoloInv

\* The statements of a sequential client's requests implement the lifecycle:
\* stages in order, reopening only at the price of a retry.
THEOREM ImplementsLifecycle ==
    ASSUME MaxInFlight = 1
    PROVE  Spec => LifecycleSpec
  <1>1. Init => SoloSpecInv /\ Lifecycle!Init
    BY InitSolo DEF Init, Lifecycle!Init
  <1>2. SoloSpecInv /\ [Next]_vars => SoloSpecInv'
    BY NextSolo
  <1>3. SoloSpecInv /\ [Next]_vars => [Lifecycle!Next]_<<status, retries>>
    BY NextLifecycle
  <1> QED
    BY <1>1, <1>2, <1>3, PTL DEF Spec, LifecycleSpec, Lifecycle!Spec

-----------------------------------------------------------------------------
(* The retry limit, for requests that run together.                        *)

\* The requests that have read the count of c and have yet to increment it.
Incrementing(c) == {r \in Requests : pc[r] = "retry_increment" /\ target[r] = c}

\* Each of them may still add one, and was let through below the limit.
Spent(c) == retries[c] + Cardinality(Incrementing(c)) < MaxRetries + MaxInFlight

BudgetInv ==
    /\ Cardinality(InFlight) <= MaxInFlight
    /\ \A c \in Cycles : Spent(c)

LEMMA Finiteness ==
    /\ IsFiniteSet(InFlight) /\ IsFiniteSet(InFlight')
    /\ Cardinality(InFlight) \in Nat /\ Cardinality(InFlight') \in Nat
    /\ \A c : /\ IsFiniteSet(Incrementing(c)) /\ IsFiniteSet(Incrementing(c)')
              /\ Cardinality(Incrementing(c)) \in Nat
              /\ Cardinality(Incrementing(c)') \in Nat
  BY LearningAssumption, FS_Subset, FS_CardinalityType
     DEF InFlight, Incrementing

\* No step sends a request back to another target.
LEMMA StepTarget ==
    ASSUME TypeOK, ControlInv, NEW r \in Requests, Step(r)
    PROVE  UNCHANGED target
  <1>1. CASE StartStep(r)
    BY <1>1 DEF StartStep, StartCount, StartInsert, StartPublish,
                StatementFails, callVars
  <1>2. CASE ~StartStep(r)
    BY <1>2, LateAdvance, LateFail, LateRetry, LateRunLoop, LateStage
       DEF Step, ControlInv, LateMove
  <1> QED
    BY <1>1, <1>2

LEMMA StepBudget ==
    ASSUME TypeOK, ControlInv, BudgetInv, NEW r \in Requests, Step(r)
    PROVE  BudgetInv'
  <1>1. /\ r \in InFlight
        /\ \A q \in Requests \ {r} : pc'[q] = pc[q]
    BY StepLabel
  <1>2. InFlight' \subseteq InFlight
    BY <1>1 DEF InFlight
  <1>3. Cardinality(InFlight') <= MaxInFlight
    BY <1>2, Finiteness, FS_Subset, LearningAssumption DEF BudgetInv
  <1>4. ASSUME NEW c \in Cycles
        PROVE  Spent(c)'
    <2>0. retries[c] \in Nat /\ target' = target /\ MaxRetries \in Nat
              /\ MaxInFlight \in Nat /\ Spent(c)
              /\ TypeOK'
      BY StepTarget, LearningAssumption, NextTypeOK
         DEF TypeOK, RowTypeOK, BudgetInv, ControlInv, Next
    <2>1. retries'[c] \in Nat
      BY <2>0 DEF TypeOK, RowTypeOK
    <2>2. CASE pc'[r] = "retry_increment" /\ target[r] = c
      <3>1. retries'[c] < MaxRetries
        BY <2>0, <2>2, StepGuard DEF Guard
      <3>2. Incrementing(c)' \subseteq InFlight'
        BY DEF Incrementing, InFlight, Resting
      <3>3. Cardinality(Incrementing(c)') <= Cardinality(InFlight')
        BY <3>2, Finiteness, FS_Subset
      <3> QED
        BY <1>3, <2>0, <2>1, <3>1, <3>3, Finiteness DEF Spent
    <2>3. CASE ~(pc'[r] = "retry_increment" /\ target[r] = c)
      <3>1. Incrementing(c)' \subseteq Incrementing(c) \ {r}
        BY <1>1, <2>0, <2>3 DEF Incrementing
      <3>2. CASE retries'[c] = retries[c]
        <4>1. Incrementing(c)' \subseteq Incrementing(c)
          BY <3>1
        <4>2. Cardinality(Incrementing(c)') <= Cardinality(Incrementing(c))
          BY <4>1, Finiteness, FS_Subset
        <4> QED
          BY <2>0, <3>2, <4>2, Finiteness DEF Spent
      <3>3. CASE retries'[c] # retries[c]
        <4>1. /\ r \in Incrementing(c)
              /\ retries'[c] = retries[c] + 1
          BY <2>0, <3>3, StepRow
             DEF RowStep, UpdateStatus, IncrementRetry, Lifecycle!Create,
                 Incrementing, TypeOK, RowTypeOK, CallTypeOK
        <4>2. /\ IsFiniteSet(Incrementing(c) \ {r})
              /\ Cardinality(Incrementing(c) \ {r})
                     = Cardinality(Incrementing(c)) - 1
          BY <4>1, Finiteness, FS_RemoveElement
        <4>3. Cardinality(Incrementing(c)') <= Cardinality(Incrementing(c)) - 1
          BY <3>1, <4>2, FS_Subset
        <4> QED
          BY <2>0, <4>1, <4>3, Finiteness DEF Spent
      <3> QED
        BY <3>2, <3>3
    <2> QED
      BY <2>2, <2>3
  <1> QED
    BY <1>3, <1>4 DEF BudgetInv

LEMMA ReceiveBudget ==
    ASSUME TypeOK, BudgetInv, NEW r \in Requests, NEW o \in Ops,
           NEW k \in Cycles, Receive(r, o, k)
    PROVE  BudgetInv'
  <1>1. /\ pc' = [pc EXCEPT ![r] = EntryLabel[o]]
        /\ target' = [target EXCEPT ![r] = k]
        /\ retries' = retries
        /\ Cardinality(InFlight) < MaxInFlight
    BY DEF Receive, Goto, rowVars
  <1>2. pc \in [Requests -> Labels] /\ target \in [Requests -> Cycles]
    BY DEF TypeOK, ControlTypeOK, CallTypeOK
  <1>3. EntryLabel[o] # "retry_increment"
    BY EntryLabelType, LearningAssumption
  <1>4. InFlight' \subseteq InFlight \cup {r}
    BY <1>1, <1>2 DEF InFlight
  <1>5. /\ IsFiniteSet(InFlight \cup {r})
        /\ Cardinality(InFlight \cup {r}) <= Cardinality(InFlight) + 1
    <2>1. IsFiniteSet(InFlight) /\ Cardinality(InFlight) \in Nat
      BY Finiteness
    <2>2. /\ IsFiniteSet(InFlight \cup {r})
          /\ Cardinality(InFlight \cup {r})
                 = IF r \in InFlight THEN Cardinality(InFlight)
                                     ELSE Cardinality(InFlight) + 1
      BY <2>1, FS_AddElement
    <2> QED
      BY <2>1, <2>2
  <1>6. Cardinality(InFlight') <= MaxInFlight
    BY <1>1, <1>4, <1>5, Finiteness, FS_Subset, FS_CardinalityType,
       LearningAssumption
  <1>7. ASSUME NEW c \in Cycles
        PROVE  Spent(c)'
    <2>1. Incrementing(c)' \subseteq Incrementing(c)
      BY <1>1, <1>2, <1>3 DEF Incrementing
    <2>2. Cardinality(Incrementing(c)') <= Cardinality(Incrementing(c))
      BY <2>1, Finiteness, FS_Subset
    <2> QED
      BY <1>1, <2>2, Finiteness, LearningAssumption
         DEF Spent, BudgetInv, TypeOK, RowTypeOK
  <1> QED
    BY <1>6, <1>7 DEF BudgetInv

LEMMA AbandonBudget ==
    ASSUME TypeOK, BudgetInv, NEW r \in Requests, Abandon(r)
    PROVE  BudgetInv'
  <1>1. /\ pc' = [pc EXCEPT ![r] = "done"]
        /\ UNCHANGED <<target, retries>>
    BY DEF Abandon, Goto, rowVars, callVars
  <1>2. pc \in [Requests -> Labels]
    BY DEF TypeOK, ControlTypeOK
  <1>3. /\ InFlight' \subseteq InFlight
        /\ \A c : Incrementing(c)' \subseteq Incrementing(c)
    BY <1>1, <1>2 DEF InFlight, Incrementing, Resting
  <1>4. Cardinality(InFlight') <= Cardinality(InFlight)
    BY <1>3, Finiteness, FS_Subset
  <1>5. \A c : Cardinality(Incrementing(c)') <= Cardinality(Incrementing(c))
    BY <1>3, Finiteness, FS_Subset
  <1> QED
    BY <1>1, <1>4, <1>5, Finiteness, LearningAssumption
       DEF BudgetInv, Spent, TypeOK, RowTypeOK

LEMMA InitBudget == Init => BudgetInv
  <1> SUFFICES ASSUME Init PROVE BudgetInv
    OBVIOUS
  <1>1. InFlight = {} /\ \A c : Incrementing(c) = {}
    BY DEF Init, InFlight, Incrementing, Resting
  <1>2. Cardinality(InFlight) = 0 /\ \A c : Cardinality(Incrementing(c)) = 0
    BY <1>1, FS_EmptySet
  <1>3. \A c \in Cycles : retries[c] = 0
    BY DEF Init
  <1> QED
    BY <1>2, <1>3, LearningAssumption DEF BudgetInv, Spent

LEMMA NextBudget ==
    ASSUME TypeOK, ControlInv, BudgetInv, [Next]_vars
    PROVE  BudgetInv'
  <1>1. CASE UNCHANGED vars
    BY <1>1 DEF vars, rowVars, callVars, BudgetInv, Spent, InFlight,
                Incrementing
  <1>2. CASE Next
    BY <1>2, StepBudget, ReceiveBudget, AbandonBudget DEF Next
  <1> QED
    BY <1>1, <1>2

\* However many requests a cycle gets, and whatever fails or dies half way,
\* its retry count passes max_retries by at most one for every request that
\* can run beside the last.
THEOREM RetryLimitKept == Spec => []RetryBudget
  <1> DEFINE Inv == TypeOK /\ ControlInv /\ BudgetInv
  <1>1. Init => Inv
    BY InitTypeOK, InitControl, InitBudget
  <1>2. Inv /\ [Next]_vars => Inv'
    BY NextTypeOK, NextControl, NextBudget DEF ControlInv
  <1>3. Inv => RetryBudget
    BY Finiteness, LearningAssumption
       DEF BudgetInv, Spent, RetryBudget, TypeOK, RowTypeOK
  <1> QED
    BY <1>1, <1>2, <1>3, PTL DEF Spec
=============================================================================
