----------------------- MODULE LearningStages_proofs ------------------------
(***************************************************************************)
(* Theorems about LearningCycles for clients that send one request at a    *)
(* time.  First the gates, the terminal statuses and the events: what a    *)
(* cycle has earned when it gets somewhere, who may move it, and what is   *)
(* told of it, whatever fails or dies.  Then, for requests that all run to *)
(* their end, what a cycle looks like when nothing runs: its last event,   *)
(* and how many runs settle it.  Each needs to know where a request stands *)
(* when it writes; OneAtATime and Guard of LearningCycles_proofs are the   *)
(* start.                                                                  *)
(***************************************************************************)
EXTENDS LearningCycles_proofs

USE DEF rowVars, logVars, eventVars, callVars, errVars

-----------------------------------------------------------------------------
(* The gates.                                                              *)

Verified(c) == confidence[c] = "high" /\ <<"verifying", TRUE>> \in results[c]
Tested(c)   == <<"testing", TRUE>> \in results[c]

\* A handler works on a row in its own stage; when it goes on to advance_cycle
\* it has recorded what the next stage asks for.
Earned(r) ==
    LET c == target[r] IN
    /\ pc[r] \in Stages => status[c] = pc[r]
    /\ pc[r] = "research_infer" => status[c] = "researching"
    /\ pc[r] \in {"verify_update", "verify_record"}
          => status[c] = "verifying" /\ score[r] # "nan"
    /\ pc[r] = "verify_record" => confidence[c] = score[r]
    /\ pc[r] = "store_knowledge"
          => status[c] = "applying" /\ <<"applying", TRUE>> \in results[c]
    /\ pc[r] \in {"adv_get", "adv_set"}
          => /\ status[c] = "verifying" => Verified(c)
             /\ status[c] = "testing" => Tested(c)

EarningLabels ==
    Stages \cup {"research_infer", "verify_update", "verify_record",
                 "store_knowledge", "adv_get", "adv_set"}

Gates == StagesEarned /\ KnowledgeEarned

LEMMA ReturnTargets ==
    ASSUME ControlTypeOK, NEW r \in Requests, NEW why,
           \/ ReturnOk(r) \/ ReturnErr(r, why) \/ CallFailCycle(r, why)
           \/ FailReturnOk(r) \/ FailReturnErr(r)
    PROVE  pc'[r] \in {"run_loop", "done", "fail_set"}
  <1>1. ASSUME NEW w, ReturnErr(r, w)
        PROVE  pc'[r] \in {"run_loop", "done", "fail_set"}
    BY <1>1 DEF ReturnErr, Goto, ControlTypeOK
  <1> QED
    BY <1>1 DEF ReturnOk, CallFailCycle, FailReturnOk, FailReturnErr, Goto,
                ControlTypeOK

LEMMA OffEarning ==
    /\ \A l \in {"run_loop", "done", "fail_set", "start_insert", "refused",
                 "start_publish", "adv_exhaust", "adv_exhaust_publish",
                 "adv_publish", "fail_publish", "retry_get",
                 "retry_increment", "retry_set", "test_failed"} :
          l \notin EarningLabels
    /\ \A l \in Resting : l \notin EarningLabels
  BY DEF EarningLabels, Stages, Resting

LEMMA ElsewhereEarned ==
    ASSUME NEW r \in Requests, pc'[r] \notin EarningLabels
    PROVE  Earned(r)'
  BY DEF Earned, EarningLabels

\* Outcomes are only added, so a gate stays earned while the row stays.
LEMMA GatesStay ==
    ASSUME Gates, UNCHANGED <<status, confidence, learned>>,
           \A c \in Cycles : results[c] \subseteq results'[c]
    PROVE  Gates'
  <1>1. StagesEarned'
    BY DEF Gates, StagesEarned, ConfidenceGate, TestGate
  <1>2. KnowledgeEarned'
    BY DEF Gates, KnowledgeEarned
  <1> QED
    BY <1>1, <1>2 DEF Gates

\* A row moved to a status that asks for nothing more than what it has.
LEMMA GatesMove ==
    ASSUME TypeOK, Gates, NEW c \in Cycles, NEW s \in Statuses, NEW w,
           UpdateStatus(c, s, w), UNCHANGED <<results, learned>>,
           s \in {"practicing", "testing", "applying", "completed"}
              => Verified(c),
           s \in {"applying", "completed"} => Tested(c)
    PROVE  Gates'
  <1>1. /\ status' = [status EXCEPT ![c] = s]
        /\ status \in [Cycles -> Statuses \cup {"absent"}]
        /\ confidence' = confidence
    BY DEF UpdateStatus, TypeOK, RowTypeOK
  <1>2. KnowledgeEarned'
    BY DEF Gates, KnowledgeEarned
  <1>3. ConfidenceGate'
    BY <1>1 DEF Gates, StagesEarned, ConfidenceGate, Verified
  <1>4. TestGate'
    BY <1>1 DEF Gates, StagesEarned, TestGate, Tested
  <1> QED
    BY <1>2, <1>3, <1>4 DEF Gates, StagesEarned

LEMMA ResultsGrow ==
    ASSUME TypeOK, NEW c \in Cycles, NEW s, NEW passed,
           AddTestResult(c, s, passed)
    PROVE  /\ \A d \in Cycles : results[d] \subseteq results'[d]
           /\ <<s, passed>> \in results'[c]
  BY DEF AddTestResult, TypeOK, LogTypeOK

LEMMA FailsEarned ==
    ASSUME TypeOK, Gates, NEW r \in Requests, StatementFails(r)
    PROVE  Earned(r)' /\ Gates'
  <1>1. pc'[r] \notin EarningLabels
    BY ReturnTargets, OffEarning DEF StatementFails, TypeOK
  <1>2. Gates'
    BY GatesStay DEF StatementFails
  <1> QED
    BY <1>1, <1>2, ElsewhereEarned

\* start_cycle and fail_cycle move a row to a status without a gate.
LEMMA StartFailEarned ==
    ASSUME TypeOK, ControlInv, Gates, NEW r \in Requests,
           StartStep(r) \/ FailStep(r)
    PROVE  Earned(r)' /\ Gates'
  <1>0. target[r] \in Cycles /\ cause[r] \in Reasons
        /\ pc \in [Requests -> Labels]
    BY DEF TypeOK, CallTypeOK, ControlTypeOK
  <1>1. CASE StatementFails(r)
    BY <1>1, FailsEarned
  <1>2. CASE StartCount(r) /\ ~StatementFails(r)
    <2>1. pc'[r] \in {"refused", "start_insert"} /\ UNCHANGED rowVars
          /\ UNCHANGED logVars
      BY <1>0, <1>2 DEF StartCount, Goto
    <2> QED
      BY <2>1, OffEarning, ElsewhereEarned, GatesStay
  <1>3. CASE StartInsert(r) /\ ~StatementFails(r)
    <2>1. pc'[r] = "start_publish"
      BY <1>0, <1>3 DEF StartInsert, Goto
    <2>2. /\ status' = [status EXCEPT ![target[r]] = "detected"]
          /\ UNCHANGED <<confidence, results, learned>>
      BY <1>3 DEF StartInsert
    <2>3. Gates'
      BY <1>0, <2>2 DEF Gates, StagesEarned, ConfidenceGate, TestGate,
                        KnowledgeEarned, TypeOK, RowTypeOK
    <2> QED
      BY <2>1, <2>3, OffEarning, ElsewhereEarned
  <1>4. CASE StartPublish(r) \/ FailPublish(r)
    <2>1. pc'[r] \in {"run_loop", "done", "fail_set"}
      BY <1>4, ReturnTargets DEF StartPublish, FailPublish, TypeOK
    <2>2. Gates'
      BY <1>4, GatesStay DEF StartPublish, FailPublish
    <2> QED
      BY <2>1, <2>2, OffEarning, ElsewhereEarned
  <1>5. CASE FailSet(r)
    <2>1. pc'[r] \in {"fail_publish", "run_loop", "done", "fail_set"}
      BY <1>0, <1>5, ReturnTargets DEF FailSet, Goto, TypeOK
    <2>2. CASE UNCHANGED rowVars
      BY <1>5, <2>1, <2>2, OffEarning, ElsewhereEarned, GatesStay DEF FailSet
    <2>3. CASE UpdateStatus(target[r], "failed", cause[r])
      BY <1>0, <1>5, <2>1, <2>3, OffEarning, ElsewhereEarned, GatesMove,
         StatusFacts DEF FailSet
    <2> QED
      BY <1>5, <2>2, <2>3 DEF FailSet
  <1> QED
    BY <1>1, <1>2, <1>3, <1>4, <1>5 DEF StartStep, FailStep

\* advance_cycle leaves a gated stage only with what was earned in it.
LEMMA AdvanceEarned ==
    ASSUME TypeOK, ControlInv, Gates, NEW r \in Requests, Guard(r), Earned(r),
           AdvanceStep(r)
    PROVE  Earned(r)' /\ Gates'
  <1>0. /\ target[r] \in Cycles
        /\ seen[r] \in Stages
        /\ pc \in [Requests -> Labels]
    BY DEF TypeOK, CallTypeOK, ControlTypeOK
  <1>1. CASE StatementFails(r)
    BY <1>1, FailsEarned
  <1>2. CASE AdvGet(r) /\ ~StatementFails(r)
    <2>1. Gates'
      BY <1>2, GatesStay DEF AdvGet
    <2>2. CASE ReturnErr(r, "terminal")
      BY <2>1, <2>2, ReturnTargets, OffEarning, ElsewhereEarned DEF TypeOK
    <2>3. CASE pc'[r] = "adv_exhaust"
      BY <2>1, <2>3, OffEarning, ElsewhereEarned
    <2>4. CASE pc'[r] = "adv_set"
      BY <1>2, <2>1, <2>4
         DEF AdvGet, Earned, Verified, Tested, Stages
    <2> QED
      BY <1>0, <1>2, <2>2, <2>3, <2>4 DEF AdvGet, Goto
  <1>3. CASE AdvSet(r) /\ ~StatementFails(r)
    <2>1. pc'[r] = "adv_publish"
      BY <1>0, <1>3 DEF AdvSet, Goto
    <2>2. /\ UpdateStatus(target[r], NextStatus[seen[r]], "none")
          /\ UNCHANGED <<results, learned>>
          /\ status[target[r]] = seen[r]
      BY <1>3 DEF AdvSet, Guard
    <2>3. /\ NextStatus[seen[r]] \in {"practicing", "testing", "applying",
                                       "completed"}
                => Verified(target[r])
          /\ NextStatus[seen[r]] \in {"applying", "completed"}
                => Tested(target[r])
      BY <1>0, <1>3, <2>2, NextStatusType
         DEF AdvSet, Earned, Gates, StagesEarned, ConfidenceGate, TestGate,
             Verified, Tested
    <2>4. Gates'
      BY <1>0, <2>2, <2>3, GatesMove, NextStatusType
    <2> QED
      BY <2>1, <2>4, OffEarning, ElsewhereEarned
  <1>4. CASE AdvExhaust(r) /\ ~StatementFails(r)
    <2>1. pc'[r] = "adv_exhaust_publish"
      BY <1>0, <1>4 DEF AdvExhaust, Goto
    <2>2. Gates'
      BY <1>0, <1>4, GatesMove, StatusFacts DEF AdvExhaust
    <2> QED
      BY <2>1, <2>2, OffEarning, ElsewhereEarned
  <1>5. CASE AdvPublish(r) \/ AdvExhaustPublish(r)
    <2>1. pc'[r] \in {"run_loop", "done", "fail_set"}
      BY <1>5, ReturnTargets DEF AdvPublish, AdvExhaustPublish, TypeOK
    <2>2. Gates'
      BY <1>5, GatesStay DEF AdvPublish, AdvExhaustPublish
    <2> QED
      BY <2>1, <2>2, OffEarning, ElsewhereEarned
  <1> QED
    BY <1>1, <1>2, <1>3, <1>4, <1>5 DEF AdvanceStep

\* A retry, and the head of the run loop, start from a stage without a gate
\* or from the stage the row is in.
LEMMA RetryLoopEarned ==
    ASSUME TypeOK, ControlInv, Gates, NEW r \in Requests,
           RetryStep(r) \/ RunLoop(r)
    PROVE  Earned(r)' /\ Gates'
  <1>0. target[r] \in Cycles /\ pc \in [Requests -> Labels]
    BY DEF TypeOK, CallTypeOK, ControlTypeOK
  <1>1. CASE StatementFails(r)
    BY <1>1, FailsEarned
  <1>2. CASE (RetryGet(r) \/ RetryIncrement(r)) /\ ~StatementFails(r)
    <2>1. Gates'
      BY <1>2, GatesStay DEF RetryGet, RetryIncrement, IncrementRetry
    <2>2. pc'[r] \in {"retry_increment", "retry_set", "run_loop", "done",
                      "fail_set"}
      BY <1>0, <1>2, ReturnTargets
         DEF RetryGet, RetryIncrement, Goto, TypeOK
    <2> QED
      BY <2>1, <2>2, OffEarning, ElsewhereEarned
  <1>3. CASE RetrySet(r) /\ ~StatementFails(r)
    <2>1. /\ pc'[r] = "adv_get"
          /\ UpdateStatus(target[r], "researching", "none")
          /\ UNCHANGED <<results, learned, target>>
      BY <1>0, <1>3 DEF RetrySet, Goto
    <2>2. Gates'
      BY <1>0, <2>1, GatesMove, StatusFacts
    <2>3. status'[target[r]] = "researching"
      BY <1>0, <2>1 DEF UpdateStatus, TypeOK, RowTypeOK
    <2> QED
      BY <2>1, <2>2, <2>3, LabelFacts DEF Earned
  <1>4. CASE RunLoop(r)
    <2>1. Gates'
      BY <1>4, GatesStay DEF RunLoop
    <2>2. pc'[r] = "done" \/ pc'[r] = status[target[r]]
      BY <1>0, <1>4 DEF RunLoop, Goto
    <2>3. CASE pc'[r] = "done"
      BY <2>1, <2>3, OffEarning, ElsewhereEarned
    <2>4. CASE pc'[r] = status[target[r]]
      <3>1. /\ status'[target'[r]] = pc'[r]
            /\ status[target[r]] \in Statuses \cup {"absent"}
        BY <1>0, <1>4, <2>4 DEF RunLoop, TypeOK, RowTypeOK
      <3>2. pc'[r] \notin {"research_infer", "verify_update",
                           "verify_record", "store_knowledge", "adv_get",
                           "adv_set"}
        BY <2>4, <3>1 DEF Statuses, Stages, TerminalStatus
      <3> QED
        BY <2>1, <3>1, <3>2 DEF Earned
    <2> QED
      BY <2>2, <2>3, <2>4
  <1> QED
    BY <1>1, <1>2, <1>3, <1>4 DEF RetryStep

\* Each handler records its outcome before it goes on.
LEMMA StageEarned ==
    ASSUME "nan" \notin Inference,
           TypeOK, ControlInv, Gates, NEW r \in Requests, Earned(r),
           StageStep(r)
    PROVE  Earned(r)' /\ Gates'
  <1>0. /\ target[r] \in Cycles
        /\ pc \in [Requests -> Labels]
        /\ score \in [Requests -> ScoreValues]
        /\ confidence \in [Cycles -> {"unset"} \cup ScoreValues]
    BY DEF TypeOK, CallTypeOK, ControlTypeOK, RowTypeOK
  <1>1. CASE StatementFails(r)
    BY <1>1, FailsEarned
  <1>2. CASE DetectedStage(r) /\ ~StatementFails(r)
    <2>1. /\ pc'[r] = "adv_get" /\ status[target[r]] = "detected"
          /\ UNCHANGED <<rowVars, results, learned, target>>
      BY <1>0, <1>2, StatusFacts DEF DetectedStage, Goto, Earned
    <2> QED
      BY <2>1, GatesStay, LabelFacts DEF Earned
  <1>3. CASE (ResearchingStage(r) \/ ResearchInfer(r)) /\ ~StatementFails(r)
    <2>1. /\ pc'[r] \in {"research_infer", "adv_get"}
          /\ status[target[r]] = "researching"
          /\ UNCHANGED <<rowVars, results, learned, target>>
      BY <1>0, <1>3, StatusFacts
         DEF ResearchingStage, ResearchInfer, Goto, Earned
    <2> QED
      BY <2>1, GatesStay, LabelFacts DEF Earned
  <1>4. CASE VerifyingStage(r) /\ ~StatementFails(r)
    <2>1. UNCHANGED <<rowVars, results, learned, target>> /\ Gates'
      BY <1>4, GatesStay DEF VerifyingStage
    <2>2. CASE pc'[r] = "fail_set"
      BY <2>1, <2>2, OffEarning, ElsewhereEarned
    <2>3. CASE /\ Goto(r, "verify_update")
               /\ \E v \in Scores(target[r]) : score' = [score EXCEPT ![r] = v]
      <3>1. pc'[r] = "verify_update" /\ score'[r] # "nan"
        BY <1>0, <2>3 DEF Goto, Scores
      <3>2. status[target[r]] = "verifying"
        BY <1>4, StatusFacts DEF VerifyingStage, Earned
      <3> QED
        BY <2>1, <3>1, <3>2, LabelFacts DEF Earned
    <2> QED
      BY <1>0, <1>4, <2>2, <2>3 DEF VerifyingStage, CallFailCycle, Goto
  <1>5. CASE VerifyUpdate(r) /\ ~StatementFails(r)
    <2>1. /\ pc'[r] = "verify_record"
          /\ status[target[r]] = "verifying" /\ score[r] # "nan"
          /\ confidence' = [confidence EXCEPT ![target[r]] = score[r]]
          /\ UNCHANGED <<status, results, learned, target, score>>
      BY <1>0, <1>5 DEF VerifyUpdate, Goto, Earned
    <2>2. Gates'
      BY <1>0, <2>1 DEF Gates, StagesEarned, ConfidenceGate, TestGate,
                        KnowledgeEarned
    <2>3. confidence'[target[r]] = score[r]
      BY <1>0, <2>1
    <2> QED
      BY <2>1, <2>2, <2>3, LabelFacts DEF Earned
  <1>6. CASE VerifyRecord(r) /\ ~StatementFails(r)
    <2>1. /\ status[target[r]] = "verifying"
          /\ score[r] # "nan"
          /\ confidence[target[r]] = score[r]
          /\ AddTestResult(target[r], "verifying", score[r] = "high")
          /\ UNCHANGED <<rowVars, learned, target, score>>
      BY <1>6 DEF VerifyRecord, Earned
    <2>2. Gates' /\ <<"verifying", score[r] = "high">> \in results'[target[r]]
      BY <1>0, <2>1, ResultsGrow, GatesStay
    <2>3. CASE score[r] = "low"
      BY <1>0, <1>6, <2>2, <2>3, OffEarning, ElsewhereEarned
         DEF VerifyRecord, CallFailCycle, Goto
    <2>4. CASE score[r] # "low"
      <3>1. score[r] = "high"
        BY <1>0, <2>1, <2>4 DEF ScoreValues
      <3>2. (score[r] = "high") = TRUE
        BY <3>1
      <3>3. <<"verifying", TRUE>> \in results'[target[r]]
        BY <2>2, <3>2
      <3>4. pc'[r] = "adv_get"
        BY <1>0, <1>6, <2>4 DEF VerifyRecord, Goto
      <3> QED
        BY <2>1, <2>2, <3>1, <3>3, <3>4, LabelFacts DEF Earned, Verified
    <2> QED
      BY <2>3, <2>4
  <1>7. CASE PracticingStage(r) /\ ~StatementFails(r)
    <2>1. /\ pc'[r] = "adv_get" /\ status[target[r]] = "practicing"
          /\ \E passed \in BOOLEAN :
                AddTestResult(target[r], "practicing", passed)
          /\ UNCHANGED <<rowVars, learned, target>>
      BY <1>0, <1>7, StatusFacts DEF PracticingStage, Goto, Earned
    <2>2. Gates'
      BY <1>0, <2>1, ResultsGrow, GatesStay
    <2> QED
      BY <2>1, <2>2, LabelFacts DEF Earned
  <1>8. CASE TestingStage(r) /\ ~StatementFails(r)
    <2>1. /\ status[target[r]] = "testing"
          /\ \/ /\ pc'[r] = "adv_get"
                /\ AddTestResult(target[r], "testing", TRUE)
             \/ /\ pc'[r] = "test_failed"
                /\ AddTestResult(target[r], "testing", FALSE)
          /\ UNCHANGED <<rowVars, learned, target>>
      BY <1>0, <1>8, StatusFacts DEF TestingStage, Goto, Earned
    <2>2. Gates' /\ (pc'[r] = "adv_get"
                        => <<"testing", TRUE>> \in results'[target[r]])
      BY <1>0, <2>1, ResultsGrow, GatesStay
    <2>3. CASE pc'[r] = "test_failed"
      BY <2>2, <2>3, OffEarning, ElsewhereEarned
    <2>4. CASE pc'[r] = "adv_get"
      BY <2>1, <2>2, <2>4, LabelFacts DEF Earned, Tested
    <2> QED
      BY <2>1, <2>3, <2>4
  <1>9. CASE TestFailed(r) /\ ~StatementFails(r)
    <2>1. pc'[r] \in {"retry_get", "fail_set"}
      BY <1>0, <1>9 DEF TestFailed, CallFailCycle, Goto
    <2>2. Gates'
      BY <1>9, GatesStay DEF TestFailed
    <2> QED
      BY <2>1, <2>2, OffEarning, ElsewhereEarned
  <1>10. CASE ApplyingStage(r) /\ ~StatementFails(r)
    <2>1. /\ status[target[r]] = "applying"
          /\ \/ /\ pc'[r] = "store_knowledge"
                /\ AddTestResult(target[r], "applying", TRUE)
             \/ /\ pc'[r] = "adv_get"
                /\ AddTestResult(target[r], "applying", FALSE)
          /\ UNCHANGED <<rowVars, learned, target>>
      BY <1>0, <1>10, StatusFacts DEF ApplyingStage, Goto, Earned
    <2>2. Gates' /\ (pc'[r] = "store_knowledge"
                        => <<"applying", TRUE>> \in results'[target[r]])
      BY <1>0, <2>1, ResultsGrow, GatesStay
    <2> QED
      BY <2>1, <2>2, LabelFacts DEF Earned
  <1>11. CASE StoreKnowledge(r)
    <2>1. /\ pc'[r] = "adv_get" /\ status[target[r]] = "applying"
          /\ <<"applying", TRUE>> \in results[target[r]]
          /\ \/ learned' = [learned EXCEPT ![target[r]] = @ + 1]
             \/ UNCHANGED learned
          /\ UNCHANGED <<rowVars, results, target>>
      BY <1>0, <1>11 DEF StoreKnowledge, Goto, Earned
    <2>2. Verified(target[r]) /\ Tested(target[r])
      BY <1>0, <2>1 DEF Gates, StagesEarned, ConfidenceGate, TestGate,
                        Verified, Tested
    <2>3. KnowledgeEarned'
      BY <1>0, <2>1, <2>2
         DEF Gates, KnowledgeEarned, Verified, Tested, TypeOK, LogTypeOK
    <2>4. StagesEarned'
      BY <2>1 DEF Gates, StagesEarned, ConfidenceGate, TestGate
    <2> QED
      BY <2>1, <2>3, <2>4, LabelFacts DEF Earned, Gates
  <1> QED
    BY <1>1, <1>2, <1>3, <1>4, <1>5, <1>6, <1>7, <1>8, <1>9, <1>10, <1>11
       DEF StageStep

EarnInv == SoloSpecInv /\ Gates /\ \A r \in Requests : Earned(r)

LEMMA NextEarn ==
    ASSUME MaxInFlight = 1, "nan" \notin Inference, "advance" \notin Ops,
           EarnInv, [Next]_vars
    PROVE  EarnInv'
  <1> USE DEF EarnInv
  <1>0. /\ pc \in [Requests -> Labels]
        /\ TypeOK /\ ControlInv
        /\ \A r \in Requests : Guard(r)
    BY DEF SoloSpecInv, SoloInv, TypeOK, ControlTypeOK
  <1>1. SoloSpecInv'
    BY NextSolo
  <1>2. CASE UNCHANGED vars
    <2>1. Gates'
      BY <1>2, GatesStay DEF vars
    <2>2. ASSUME NEW r \in Requests
          PROVE  Earned(r)'
      BY <1>2 DEF vars, Earned, Verified, Tested
    <2> QED
      BY <1>1, <2>1, <2>2
  <1>3. ASSUME NEW r \in Requests, Step(r)
        PROVE  Gates' /\ \A q \in Requests : Earned(q)'
    <2>1. Gates' /\ Earned(r)'
      BY <1>0, <1>3, StartFailEarned, AdvanceEarned, RetryLoopEarned,
         StageEarned DEF Step
    <2>2. r \in InFlight /\ \A q \in Requests \ {r} : pc'[q] = pc[q]
      BY <1>0, <1>3, StepLabel
    <2>3. \A q \in Requests \ {r} : pc'[q] \in Resting
      BY <2>2 DEF SoloSpecInv, SoloInv, OneAtATime, InFlight
    <2> QED
      BY <2>1, <2>3, OffEarning, ElsewhereEarned
  <1>4. ASSUME NEW r \in Requests, NEW o \in Ops, NEW c \in Cycles,
               Receive(r, o, c)
        PROVE  Gates' /\ \A q \in Requests : Earned(q)'
    <2>1. Gates'
      BY <1>4, GatesStay DEF Receive
    <2>2. pc'[r] = EntryLabel[o] /\ InFlight = {}
          /\ \A q \in Requests \ {r} : pc'[q] = pc[q]
      BY <1>0, <1>4, NothingInFlight DEF Receive, Goto
    <2>3. EntryLabel[o] \in {"start_count", "retry_get", "run_loop"}
      BY EntryLabelType, LearningAssumption
    <2>4. EntryLabel[o] \notin EarningLabels
      BY <2>3 DEF EarningLabels, Stages
    <2>5. \A q \in Requests : pc'[q] \notin EarningLabels
      BY <2>2, <2>4, OffEarning DEF InFlight
    <2> QED
      BY <2>1, <2>5, ElsewhereEarned
  <1>5. ASSUME NEW r \in Requests, Abandon(r)
        PROVE  Gates' /\ \A q \in Requests : Earned(q)'
    <2>1. Gates'
      BY <1>5, GatesStay DEF Abandon
    <2>2. pc'[r] = "done" /\ \A q \in Requests \ {r} : pc'[q] = pc[q]
      BY <1>0, <1>5 DEF Abandon, Goto
    <2>3. \A q \in Requests \ {r} : pc'[q] \in Resting
      BY <1>5, <2>2 DEF Abandon, SoloSpecInv, SoloInv, OneAtATime, InFlight
    <2> QED
      BY <2>1, <2>2, <2>3, OffEarning, ElsewhereEarned
  <1> QED
    BY <1>1, <1>2, <1>3, <1>4, <1>5 DEF Next

LEMMA InitEarn == Init => EarnInv
  <1> SUFFICES ASSUME Init
               PROVE  EarnInv
    OBVIOUS
  <1>1. Gates
    BY DEF Init, Gates, StagesEarned, ConfidenceGate, TestGate,
           KnowledgeEarned
  <1>2. \A r \in Requests : Earned(r)
    BY DEF Init, Earned, Stages
  <1> QED
    BY <1>1, <1>2, InitSolo DEF EarnInv

\* Requests that come one at a time, none of them a bare advance, take no
\* cycle past a gate it did not pass, whatever fails or dies on the way; an
\* answer that reads NaN would (see Scores).
THEOREM NoStageSkipped ==
    ASSUME MaxInFlight = 1, "nan" \notin Inference, "advance" \notin Ops
    PROVE  Spec => []StagesEarned
  <1>1. Init => EarnInv
    BY InitEarn
  <1>2. EarnInv /\ [Next]_vars => EarnInv'
    BY NextEarn
  <1>3. EarnInv => StagesEarned
    BY DEF EarnInv, Gates
  <1> QED
    BY <1>1, <1>2, <1>3, PTL DEF Spec

\* Under the same conditions every piece of knowledge has its three outcomes.
THEOREM NoKnowledgeUnearned ==
    ASSUME MaxInFlight = 1, "nan" \notin Inference, "advance" \notin Ops
    PROVE  Spec => []KnowledgeEarned
  <1>1. Init => EarnInv
    BY InitEarn
  <1>2. EarnInv /\ [Next]_vars => EarnInv'
    BY NextEarn
  <1>3. EarnInv => KnowledgeEarned
    BY DEF EarnInv, Gates
  <1> QED
    BY <1>1, <1>2, <1>3, PTL DEF Spec

-----------------------------------------------------------------------------
(* Who reopens a cycle.                                                    *)

\* While a handler works, and until its request has failed the cycle, the row
\* is not completed; nor is it when a handler calls advance or retry.
WorkLabels ==
    Stages \cup {"research_infer", "verify_update", "verify_record",
                 "test_failed", "store_knowledge", "fail_set", "adv_exhaust",
                 "adv_exhaust_publish"}

Unfinished(r) ==
    (\/ pc[r] \in WorkLabels
     \/ pc[r] \in {"adv_get", "retry_get"} /\ op[r] = "run")
       => status[target[r]] # "completed"

LEMMA OffWork ==
    /\ \A l \in {"run_loop", "done", "refused", "start_count", "start_insert",
                 "start_publish", "adv_set", "adv_publish", "fail_publish",
                 "retry_increment", "retry_set"} :
          l \notin WorkLabels \cup {"adv_get", "retry_get"}
    /\ \A l \in Resting : l \notin WorkLabels \cup {"adv_get", "retry_get"}
  BY DEF WorkLabels, Stages, Resting

LEMMA ElsewhereUnfinished ==
    ASSUME NEW r \in Requests,
           pc'[r] \notin WorkLabels \cup {"adv_get", "retry_get"}
    PROVE  Unfinished(r)'
  BY DEF Unfinished

\* A return leads to fail_cycle only from a handler or a run.
LEMMA ReturnUnfinished ==
    ASSUME TypeOK, NEW r \in Requests, NEW why,
           ReturnOk(r) \/ ReturnErr(r, why),
           op[r] = "run" /\ ReturnErr(r, why)
              => status'[target[r]] # "completed",
           UNCHANGED <<op, target>>
    PROVE  Unfinished(r)'
  <1>1. pc'[r] \in {"run_loop", "done", "fail_set"}
    BY ReturnTargets DEF TypeOK
  <1>2. CASE pc'[r] \in {"run_loop", "done"}
    BY <1>2, OffWork, ElsewhereUnfinished
  <1>3. CASE pc'[r] = "fail_set"
    <2>1. op[r] = "run" /\ ReturnErr(r, why)
      BY <1>3 DEF ReturnOk, ReturnErr, Goto, TypeOK, ControlTypeOK
    <2> QED
      BY <2>1 DEF Unfinished
  <1> QED
    BY <1>1, <1>2, <1>3

\* What a statement may do to a status without being a retry.
Moves(r) ==
    \/ UNCHANGED status
    \/ pc[r] = "retry_set"
    \/ \E c \in Cycles : /\ status' = [status EXCEPT ![c] = status'[c]]
                         /\ status[c] \notin TerminalStatus
    \/ \E c \in Cycles : /\ status' = [status EXCEPT ![c] = "failed"]
                         /\ status[c] # "completed"

LEMMA StepUnfinished ==
    ASSUME DbMayFail = FALSE, TypeOK, ControlInv, NEW r \in Requests,
           Guard(r), Unfinished(r), Step(r)
    PROVE  Unfinished(r)' /\ Moves(r)
  <1> USE DEF StatementFails
  <1>0. /\ target[r] \in Cycles /\ seen[r] \in Stages
        /\ pc \in [Requests -> Labels]
        /\ status \in [Cycles -> Statuses \cup {"absent"}]
    BY DEF TypeOK, CallTypeOK, ControlTypeOK, RowTypeOK
  <1>1. CASE StartCount(r)
    <2>1. pc'[r] \in {"refused", "start_insert"} /\ UNCHANGED status
      BY <1>0, <1>1 DEF StartCount, Goto
    <2> QED
      BY <2>1, OffWork, ElsewhereUnfinished DEF Moves
  <1>2. CASE StartInsert(r)
    <2>1. /\ pc'[r] = "start_publish"
          /\ status' = [status EXCEPT ![target[r]] = "detected"]
          /\ status[target[r]] = "absent"
      BY <1>0, <1>2
         DEF StartInsert, Goto, ControlInv, StartsFresh, Fresh, Exists
    <2>2. status' = [status EXCEPT ![target[r]] = status'[target[r]]]
      BY <1>0, <2>1
    <2> QED
      BY <1>0, <2>1, <2>2, OffWork, ElsewhereUnfinished
         DEF Moves, TerminalStatus
  <1>3. CASE StartPublish(r)
    <2>1. ReturnOk(r) /\ UNCHANGED <<status, op, target>>
      BY <1>3 DEF StartPublish
    <2>2. pc'[r] \in {"run_loop", "done"}
      BY <1>0, <2>1 DEF ReturnOk, Goto
    <2> QED
      BY <2>1, <2>2, OffWork, ElsewhereUnfinished DEF Moves
  <1>4. CASE AdvGet(r)
    <2>1. UNCHANGED <<status, op, target>>
      BY <1>4 DEF AdvGet
    <2>2. CASE ReturnErr(r, "terminal")
      BY <1>4, <2>1, <2>2, ReturnUnfinished DEF AdvGet, Unfinished, Moves
    <2>3. CASE ~IsTerminal(status[target[r]])
      BY <2>1, <2>3 DEF IsTerminal, TerminalStatus, Unfinished, Moves
    <2> QED
      BY <1>4, <2>2, <2>3 DEF AdvGet
  <1>5. CASE AdvSet(r)
    <2>1. /\ pc'[r] = "adv_publish"
          /\ status' = [status EXCEPT ![target[r]] = NextStatus[seen[r]]]
          /\ status[target[r]] \in Stages
      BY <1>0, <1>5 DEF AdvSet, Goto, UpdateStatus, Guard
    <2>2. status' = [status EXCEPT ![target[r]] = status'[target[r]]]
      BY <1>0, <2>1
    <2> QED
      BY <1>0, <2>1, <2>2, OffWork, ElsewhereUnfinished, StatusFacts
         DEF Moves
  <1>6. CASE AdvPublish(r)
    <2>1. ReturnOk(r) /\ UNCHANGED <<status, op, target>>
      BY <1>6 DEF AdvPublish
    <2>2. pc'[r] \in {"run_loop", "done"}
      BY <1>0, <2>1 DEF ReturnOk, Goto
    <2> QED
      BY <2>1, <2>2, OffWork, ElsewhereUnfinished DEF Moves
  <1>7. CASE AdvExhaust(r)
    <2>1. /\ status' = [status EXCEPT ![target[r]] = "failed"]
          /\ status[target[r]] # "completed"
          /\ UNCHANGED target
      BY <1>7 DEF AdvExhaust, UpdateStatus, Unfinished, WorkLabels
    <2> QED
      BY <1>0, <2>1 DEF Unfinished, Moves
  <1>8. CASE AdvExhaustPublish(r)
    <2>1. /\ ReturnErr(r, "max_retries") /\ UNCHANGED <<status, op, target>>
          /\ status[target[r]] # "completed"
      BY <1>8 DEF AdvExhaustPublish, Unfinished, WorkLabels
    <2> QED
      BY <2>1, ReturnUnfinished DEF Moves
  <1>9. CASE FailSet(r)
    <2>1. /\ pc'[r] = "fail_publish"
          /\ status' = [status EXCEPT ![target[r]] = "failed"]
          /\ status[target[r]] # "completed"
      BY <1>0, <1>9 DEF FailSet, Goto, UpdateStatus, Unfinished, WorkLabels
    <2> QED
      BY <1>0, <2>1, OffWork, ElsewhereUnfinished DEF Moves
  <1>10. CASE FailPublish(r)
    <2>1. pc'[r] \in {"run_loop", "done"} /\ UNCHANGED status
      BY <1>0, <1>10 DEF FailPublish, FailReturnOk, Goto
    <2> QED
      BY <2>1, OffWork, ElsewhereUnfinished DEF Moves
  <1>11. CASE RetryGet(r)
    <2>1. UNCHANGED <<status, op, target>>
      BY <1>11 DEF RetryGet
    <2>2. CASE ReturnErr(r, "max_retries")
      BY <1>11, <2>1, <2>2, ReturnUnfinished DEF RetryGet, Unfinished, Moves
    <2>3. CASE Goto(r, "retry_increment")
      BY <1>0, <2>1, <2>3, OffWork, ElsewhereUnfinished DEF Goto, Moves
    <2> QED
      BY <1>11, <2>2, <2>3 DEF RetryGet
  <1>12. CASE RetryIncrement(r)
    <2>1. pc'[r] = "retry_set" /\ UNCHANGED status
      BY <1>0, <1>12 DEF RetryIncrement, IncrementRetry, Goto
    <2> QED
      BY <2>1, OffWork, ElsewhereUnfinished DEF Moves
  <1>13. CASE RetrySet(r)
    <2>1. /\ status' = [status EXCEPT ![target[r]] = "researching"]
          /\ UNCHANGED target
          /\ pc[r] = "retry_set"
      BY <1>13 DEF RetrySet, UpdateStatus
    <2> QED
      BY <1>0, <2>1 DEF Unfinished, Moves
  <1>14. CASE RunLoop(r)
    <2>1. UNCHANGED <<status, target>>
      BY <1>14 DEF RunLoop
    <2>2. CASE pc'[r] = "done"
      BY <2>1, <2>2, OffWork, ElsewhereUnfinished DEF Moves
    <2>3. CASE pc'[r] # "done"
      <3>1. status[target[r]] # "completed"
        BY <1>0, <1>14, <2>3 DEF RunLoop, Goto, IsTerminal, TerminalStatus
      <3> QED
        BY <2>1, <3>1 DEF Unfinished, Moves
    <2> QED
      BY <2>2, <2>3
  <1>15. CASE StageStep(r)
    <2>1. UNCHANGED <<status, target>> /\ pc[r] \in WorkLabels
      BY <1>15
         DEF StageStep, DetectedStage, ResearchingStage, ResearchInfer,
             VerifyingStage, VerifyUpdate, VerifyRecord, PracticingStage,
             TestingStage, TestFailed, ApplyingStage, StoreKnowledge,
             WorkLabels, Stages
    <2> QED
      BY <2>1 DEF Unfinished, Moves
  <1> QED
    BY <1>1, <1>2, <1>3, <1>4, <1>5, <1>6, <1>7, <1>8, <1>9, <1>10, <1>11,
       <1>12, <1>13, <1>14, <1>15
       DEF Step, StartStep, AdvanceStep, FailStep, RetryStep

OpenInv == SoloSpecInv /\ \A r \in Requests : Unfinished(r)

LEMMA NextOpen ==
    ASSUME MaxInFlight = 1, DbMayFail = FALSE, OpenInv, [Next]_vars
    PROVE  OpenInv'
  <1> USE DEF OpenInv
  <1>0. /\ pc \in [Requests -> Labels]
        /\ op \in [Requests -> AllOps]
        /\ TypeOK /\ ControlInv
        /\ \A r \in Requests : Guard(r)
    BY DEF SoloSpecInv, SoloInv, TypeOK, ControlTypeOK, CallTypeOK
  <1>1. SoloSpecInv'
    BY NextSolo
  <1>2. CASE UNCHANGED vars
    BY <1>1, <1>2 DEF vars, Unfinished
  <1>3. ASSUME NEW r \in Requests, Step(r)
        PROVE  \A q \in Requests : Unfinished(q)'
    <2>1. Unfinished(r)'
      BY <1>0, <1>3, StepUnfinished
    <2>2. r \in InFlight /\ \A q \in Requests \ {r} : pc'[q] = pc[q]
      BY <1>0, <1>3, StepLabel
    <2>3. \A q \in Requests \ {r} : pc'[q] \in Resting
      BY <2>2 DEF SoloSpecInv, SoloInv, OneAtATime, InFlight
    <2> QED
      BY <2>1, <2>3, OffWork, ElsewhereUnfinished
  <1>4. ASSUME NEW r \in Requests, NEW o \in Ops, NEW c \in Cycles,
               Receive(r, o, c)
        PROVE  \A q \in Requests : Unfinished(q)'
    <2>1. /\ pc'[r] = EntryLabel[o] /\ op'[r] = o /\ InFlight = {}
          /\ \A q \in Requests \ {r} : pc'[q] = pc[q]
      BY <1>0, <1>4, NothingInFlight DEF Receive, Goto
    <2>2. \A q \in Requests \ {r} : pc'[q] \in Resting
      BY <2>1 DEF InFlight
    <2>3. /\ o = "run" => EntryLabel[o] = "run_loop"
          /\ EntryLabel[o] \in {"start_count", "adv_get", "retry_get",
                                "run_loop"}
      BY EntryLabelType, LearningAssumption DEF EntryLabel
    <2>4. EntryLabel[o] \notin WorkLabels
      BY <2>3 DEF WorkLabels, Stages
    <2>5. Unfinished(r)'
      BY <2>1, <2>3, <2>4 DEF Unfinished
    <2> QED
      BY <2>2, <2>5, OffWork, ElsewhereUnfinished
  <1>5. ASSUME NEW r \in Requests, Abandon(r)
        PROVE  \A q \in Requests : Unfinished(q)'
    <2>1. pc'[r] = "done" /\ \A q \in Requests \ {r} : pc'[q] = pc[q]
      BY <1>0, <1>5 DEF Abandon, Goto
    <2>2. \A q \in Requests \ {r} : pc'[q] \in Resting
      BY <1>5, <2>1 DEF Abandon, SoloSpecInv, SoloInv, OneAtATime, InFlight
    <2> QED
      BY <2>1, <2>2, OffWork, ElsewhereUnfinished
  <1> QED
    BY <1>1, <1>2, <1>3, <1>4, <1>5 DEF Next

\* One request at a time and no statement fails: a completed or failed cycle
\* is left by a retry alone, although requests may die anywhere and fail_cycle
\* does not look at what it overwrites.  A statement that fails after the one
\* that completed the cycle would make the run route fail it.
THEOREM RetryAloneReopens ==
    ASSUME MaxInFlight = 1, DbMayFail = FALSE
    PROVE  Spec => TerminalLeftByRetryOnly
  <1> DEFINE Reopened ==
        \A c \in Cycles :
            IsTerminal(status[c]) /\ status'[c] # status[c]
               => \E r \in Requests : pc[r] = "retry_set" /\ target[r] = c
  <1>1. Init => OpenInv
    BY InitSolo DEF Init, OpenInv, Unfinished, WorkLabels, Stages
  <1>2. OpenInv /\ [Next]_vars => OpenInv'
    BY NextOpen
  <1>3. ASSUME OpenInv, NEW r \in Requests, Step(r)
        PROVE  Reopened
    <2>1. Moves(r) /\ RowStep(r) /\ RowTypeOK /\ target[r] \in Cycles
      BY <1>3, StepUnfinished, StepRow
         DEF OpenInv, SoloSpecInv, SoloInv, TypeOK, CallTypeOK
    <2>2. CASE pc[r] = "retry_set"
      <3>1. \A c \in Cycles \ {target[r]} : status'[c] = status[c]
        BY <2>1, <2>2
           DEF RowStep, UpdateStatus, Lifecycle!Create, IncrementRetry,
               RowTypeOK
      <3> QED
        BY <2>2, <3>1
    <2>3. CASE pc[r] # "retry_set"
      BY <2>1, <2>3 DEF Moves, RowTypeOK, IsTerminal, TerminalStatus
    <2> QED
      BY <2>2, <2>3
  <1>4. OpenInv /\ [Next]_vars => [Reopened]_vars
    BY <1>3 DEF Next, Receive, Abandon
  <1> QED
    BY <1>1, <1>2, <1>4, PTL DEF Spec, TerminalLeftByRetryOnly

-----------------------------------------------------------------------------
(* Where a request finds its row.                                          *)

\* A request that is alone finds its row in the status its label speaks of.
Stands(r) ==
    LET c == target[r] IN
    /\ pc[r] \in Stages => status[c] = pc[r]
    /\ pc[r] = "research_infer" => status[c] = "researching"
    /\ \/ pc[r] = "test_failed"
       \/ /\ op[r] = "run"
          /\ pc[r] \in {"retry_get", "retry_increment", "retry_set"}
       => status[c] = "testing"
    /\ pc[r] = "adv_publish" => status[c] = NextStatus[seen[r]]
    /\ pc[r] = "start_publish" => status[c] = "detected"
    /\ pc[r] \in {"adv_exhaust_publish", "fail_publish"}
          => status[c] = "failed"

StandingLabels ==
    Stages \cup {"research_infer", "test_failed", "retry_get",
                 "retry_increment", "retry_set", "adv_publish",
                 "start_publish", "adv_exhaust_publish", "fail_publish"}

LEMMA OffStanding ==
    /\ \A l \in {"run_loop", "done", "fail_set", "start_insert", "refused",
                 "start_count", "verify_update", "verify_record",
                 "store_knowledge", "adv_get", "adv_set", "adv_exhaust"} :
          l \notin StandingLabels
    /\ \A l \in Resting : l \notin StandingLabels
  BY DEF StandingLabels, Stages, Resting

LEMMA ElsewhereStands ==
    ASSUME NEW r \in Requests, pc'[r] \notin StandingLabels
    PROVE  Stands(r)'
  BY DEF Stands, StandingLabels

LEMMA StepOp ==
    ASSUME NEW r \in Requests, Step(r)
    PROVE  UNCHANGED op
  BY DEF Step, StartStep, StartCount, StartInsert, StartPublish, AdvanceStep,
         AdvGet, AdvSet, AdvPublish, AdvExhaust, AdvExhaustPublish, FailStep,
         FailSet, FailPublish, RetryStep, RetryGet, RetryIncrement, RetrySet,
         RunLoop, StageStep, DetectedStage, ResearchingStage, ResearchInfer,
         VerifyingStage, VerifyUpdate, VerifyRecord, PracticingStage,
         TestingStage, TestFailed, ApplyingStage, StoreKnowledge,
         StatementFails

LEMMA StepStands ==
    ASSUME TypeOK, ControlInv, NEW r \in Requests, Stands(r), Step(r)
    PROVE  Stands(r)'
  <1>0. /\ target[r] \in Cycles /\ seen[r] \in Stages
        /\ pc \in [Requests -> Labels]
        /\ status \in [Cycles -> Statuses \cup {"absent"}]
        /\ UNCHANGED <<op, target>>
    BY StepOp, StepTarget DEF TypeOK, CallTypeOK, ControlTypeOK, RowTypeOK
  <1>1. CASE pc'[r] \notin StandingLabels
    BY <1>1, ElsewhereStands
  <1>2. CASE StatementFails(r)
    BY <1>1, <1>2, ReturnTargets, OffStanding DEF StatementFails, TypeOK
  <1>3. CASE StartStep(r) /\ ~StatementFails(r)
    <2>1. CASE StartCount(r)
      BY <1>0, <1>1, <1>3, <2>1, OffStanding DEF StartCount, Goto
    <2>2. CASE StartInsert(r)
      BY <1>0, <1>3, <2>2, LabelFacts DEF StartInsert, Goto, Stands
    <2>3. CASE StartPublish(r)
      BY <1>1, <2>3, ReturnTargets, OffStanding DEF StartPublish, TypeOK
    <2> QED
      BY <1>3, <2>1, <2>2, <2>3 DEF StartStep
  <1>4. CASE AdvanceStep(r) /\ ~StatementFails(r)
    <2>1. CASE AdvGet(r)
      <3>1. \/ ReturnErr(r, "terminal")
            \/ pc'[r] \in {"adv_exhaust", "adv_set"}
        BY <1>0, <1>4, <2>1 DEF AdvGet, Goto
      <3> QED
        BY <1>1, <3>1, ReturnTargets, OffStanding DEF TypeOK
    <2>2. CASE AdvSet(r)
      BY <1>0, <1>4, <2>2, LabelFacts DEF AdvSet, Goto, UpdateStatus, Stands
    <2>3. CASE AdvPublish(r) \/ AdvExhaustPublish(r)
      BY <1>1, <2>3, ReturnTargets, OffStanding
         DEF AdvPublish, AdvExhaustPublish, TypeOK
    <2>4. CASE AdvExhaust(r)
      BY <1>0, <1>4, <2>4, LabelFacts
         DEF AdvExhaust, Goto, UpdateStatus, Stands
    <2> QED
      BY <1>4, <2>1, <2>2, <2>3, <2>4 DEF AdvanceStep
  <1>5. CASE FailStep(r)
    <2>1. CASE FailSet(r) /\ UpdateStatus(target[r], "failed", cause[r])
               /\ Goto(r, "fail_publish")
      BY <1>0, <2>1, LabelFacts DEF FailSet, Goto, UpdateStatus, Stands
    <2>2. CASE FailPublish(r) \/ FailReturnErr(r)
      BY <1>1, <2>2, ReturnTargets, OffStanding DEF FailPublish, TypeOK
    <2> QED
      BY <1>5, <2>1, <2>2 DEF FailStep, FailSet
  <1>6. CASE RetryStep(r) /\ ~StatementFails(r)
    <2>1. CASE RetryGet(r)
      <3>1. CASE ReturnErr(r, "max_retries")
        BY <1>1, <3>1, ReturnTargets, OffStanding DEF TypeOK
      <3>2. CASE Goto(r, "retry_increment") /\ UNCHANGED status
        BY <1>0, <2>1, <3>2, LabelFacts DEF RetryGet, Goto, Stands
      <3> QED
        BY <1>6, <2>1, <3>1, <3>2 DEF RetryGet
    <2>2. CASE RetryIncrement(r)
      BY <1>0, <1>6, <2>2, LabelFacts
         DEF RetryIncrement, IncrementRetry, Goto, Stands
    <2>3. CASE RetrySet(r)
      BY <1>0, <1>1, <1>6, <2>3, OffStanding DEF RetrySet, Goto
    <2> QED
      BY <1>6, <2>1, <2>2, <2>3 DEF RetryStep
  <1>7. CASE RunLoop(r)
    <2>1. pc'[r] = "done" \/ pc'[r] = status[target[r]]
      BY <1>0, <1>7 DEF RunLoop, Goto
    <2>2. CASE pc'[r] = status[target[r]]
      <3>1. UNCHANGED status
        BY <1>7 DEF RunLoop
      <3>2. pc'[r] \notin StandingLabels \ Stages
        BY <1>0, <2>2 DEF StandingLabels, Statuses, Stages, TerminalStatus
      <3> QED
        BY <1>0, <2>2, <3>1, <3>2, LabelFacts DEF Stands, StandingLabels
    <2> QED
      BY <1>1, <2>1, <2>2, OffStanding
  <1>8. CASE StageStep(r) /\ ~StatementFails(r)
    <2>1. CASE ResearchingStage(r)
      BY <1>0, <1>8, <2>1, LabelFacts, StatusFacts
         DEF ResearchingStage, Goto, Stands
    <2>2. CASE TestingStage(r)
      <3>1. status[target[r]] = "testing" /\ UNCHANGED status
            /\ pc'[r] \in {"adv_get", "test_failed"}
        BY <1>0, <1>8, <2>2, StatusFacts DEF TestingStage, Goto, Stands
      <3> QED
        BY <1>0, <3>1, LabelFacts DEF Stands
    <2>3. CASE TestFailed(r)
      <3>1. status[target[r]] = "testing" /\ UNCHANGED status
            /\ pc'[r] \in {"retry_get", "fail_set"}
        BY <1>0, <1>8, <2>3 DEF TestFailed, CallFailCycle, Goto, Stands
      <3> QED
        BY <1>0, <3>1, LabelFacts DEF Stands
    <2>4. CASE DetectedStage(r) \/ ResearchInfer(r) \/ VerifyingStage(r)
               \/ VerifyUpdate(r) \/ VerifyRecord(r) \/ PracticingStage(r)
               \/ ApplyingStage(r) \/ StoreKnowledge(r)
      <3>1. pc'[r] \in {"adv_get", "fail_set", "verify_update",
                        "verify_record", "store_knowledge"}
        BY <1>0, <1>8, <2>4
           DEF DetectedStage, ResearchInfer, VerifyingStage, VerifyUpdate,
               VerifyRecord, PracticingStage, ApplyingStage, StoreKnowledge,
               CallFailCycle, Goto
      <3> QED
        BY <1>1, <3>1, OffStanding
    <2> QED
      BY <1>8, <2>1, <2>2, <2>3, <2>4 DEF StageStep
  <1> QED
    BY <1>2, <1>3, <1>4, <1>5, <1>6, <1>7, <1>8 DEF Step

\* What a step by r leaves alone: every other request rests, and every other
\* row stays.
LEMMA StepAlone ==
    ASSUME SoloSpecInv, NEW r \in Requests, Step(r)
    PROVE  /\ pc[r] \notin Resting
           /\ \A q \in Requests \ {r} : pc'[q] = pc[q] /\ pc[q] \in Resting
           /\ \A d \in Cycles \ {target[r]} :
                 /\ status'[d] = status[d] /\ retries'[d] = retries[d]
                 /\ announced'[d] = announced[d] /\ missed'[d] = missed[d]
  <1>0. TypeOK /\ ControlInv /\ target[r] \in Cycles
    BY DEF SoloSpecInv, TypeOK, CallTypeOK
  <1>1. r \in InFlight /\ \A q \in Requests \ {r} : pc'[q] = pc[q]
    BY <1>0, StepLabel
  <1>2. \A q \in Requests \ {r} : pc[q] \in Resting
    BY <1>1 DEF SoloSpecInv, SoloInv, OneAtATime, InFlight
  <1>3. \A d \in Cycles \ {target[r]} :
           status'[d] = status[d] /\ retries'[d] = retries[d]
    BY <1>0, StepRow
       DEF RowStep, UpdateStatus, IncrementRetry, Lifecycle!Create, TypeOK,
           RowTypeOK
  <1>4. UNCHANGED eventVars \/ \E s : Publish(target[r], s)
    BY DEF Step, StartStep, StartCount, StartInsert, StartPublish, AdvanceStep,
           AdvGet, AdvSet, AdvPublish, AdvExhaust, AdvExhaustPublish, FailStep,
           FailSet, FailPublish, RetryStep, RetryGet, RetryIncrement, RetrySet,
           RunLoop, StageStep, DetectedStage, ResearchingStage, ResearchInfer,
           VerifyingStage, VerifyUpdate, VerifyRecord, PracticingStage,
           TestingStage, TestFailed, ApplyingStage, StoreKnowledge,
           StatementFails, PublishFinished
  <1>5. \A d \in Cycles \ {target[r]} :
           announced'[d] = announced[d] /\ missed'[d] = missed[d]
    BY <1>4 DEF Publish, SoloSpecInv, TypeOK, EventTypeOK
  <1> QED
    BY <1>1, <1>2, <1>3, <1>5 DEF InFlight

StandInv == SoloSpecInv /\ \A r \in Requests : Stands(r)

LEMMA NextStand ==
    ASSUME MaxInFlight = 1, StandInv, [Next]_vars
    PROVE  StandInv'
  <1> USE DEF StandInv
  <1>0. /\ pc \in [Requests -> Labels] /\ op \in [Requests -> AllOps]
        /\ TypeOK /\ ControlInv
    BY DEF SoloSpecInv, TypeOK, ControlTypeOK, CallTypeOK
  <1>1. SoloSpecInv'
    BY NextSolo
  <1>2. CASE UNCHANGED vars
    BY <1>1, <1>2 DEF vars, Stands
  <1>3. ASSUME NEW r \in Requests, Step(r)
        PROVE  \A q \in Requests : Stands(q)'
    BY <1>0, <1>3, StepStands, StepAlone, OffStanding, ElsewhereStands
  <1>4. ASSUME NEW r \in Requests, NEW o \in Ops, NEW c \in Cycles,
               Receive(r, o, c)
        PROVE  \A q \in Requests : Stands(q)'
    <2>1. /\ pc'[r] = EntryLabel[o] /\ op'[r] = o /\ InFlight = {}
          /\ \A q \in Requests \ {r} : pc'[q] = pc[q]
      BY <1>0, <1>4, NothingInFlight DEF Receive, Goto
    <2>2. \A q \in Requests \ {r} : pc'[q] \in Resting
      BY <2>1 DEF InFlight
    <2>3. /\ o = "run" => EntryLabel[o] = "run_loop"
          /\ EntryLabel[o] \in {"start_count", "adv_get", "retry_get",
                                "run_loop"}
      BY EntryLabelType, LearningAssumption DEF EntryLabel
    <2>4. Stands(r)'
      BY <2>1, <2>3, LabelFacts DEF Stands
    <2> QED
      BY <2>2, <2>4, OffStanding, ElsewhereStands
  <1>5. ASSUME NEW r \in Requests, Abandon(r)
        PROVE  \A q \in Requests : Stands(q)'
    <2>1. pc'[r] = "done" /\ \A q \in Requests \ {r} : pc'[q] = pc[q]
      BY <1>0, <1>5 DEF Abandon, Goto
    <2>2. \A q \in Requests \ {r} : pc'[q] \in Resting
      BY <1>5, <2>1 DEF Abandon, SoloSpecInv, SoloInv, OneAtATime, InFlight
    <2> QED
      BY <2>1, <2>2, OffStanding, ElsewhereStands
  <1> QED
    BY <1>1, <1>2, <1>3, <1>4, <1>5 DEF Next

LEMMA InitStand == Init => StandInv
  BY InitSolo, LabelFacts DEF Init, StandInv, Stands

\* One request at a time: an event names the status its row has when it is
\* sent, whatever fails or dies.  The label of the publication tells where the
\* row is, and nobody else has moved it since the UPDATE.
THEOREM EventsAreTrue ==
    ASSUME MaxInFlight = 1
    PROVE  Spec => EventsTrue
  <1> DEFINE True == \A c \in Cycles :
                        announced'[c] # announced[c]
                            => announced'[c] = status'[c]
  <1>1. StandInv /\ [Next]_vars => StandInv'
    BY NextStand
  <1>2. ASSUME StandInv, NEW r \in Requests, Step(r)
        PROVE  True
    <2>0. /\ target[r] \in Cycles /\ Stands(r)
          /\ announced \in [Cycles -> Statuses \cup {"nothing"}]
          /\ \A d \in Cycles \ {target[r]} : announced'[d] = announced[d]
      BY <1>2, StepAlone
         DEF StandInv, SoloSpecInv, TypeOK, CallTypeOK, EventTypeOK
    <2>1. CASE StartPublish(r) \/ AdvPublish(r) \/ AdvExhaustPublish(r)
               \/ FailPublish(r)
      <3>1. /\ UNCHANGED status
            /\ \/ announced'[target[r]] = status[target[r]]
               \/ UNCHANGED announced
        BY <2>0, <2>1
           DEF StartPublish, AdvPublish, AdvExhaustPublish, FailPublish,
               Publish, PublishFinished, Stands
      <3> QED
        BY <2>0, <3>1
    <2>2. CASE ~(StartPublish(r) \/ AdvPublish(r) \/ AdvExhaustPublish(r)
                 \/ FailPublish(r))
      <3>1. UNCHANGED announced
        BY <1>2, <2>2
           DEF Step, StartStep, StartCount, StartInsert, AdvanceStep, AdvGet,
               AdvSet, AdvExhaust, FailStep, FailSet, RetryStep, RetryGet,
               RetryIncrement, RetrySet, RunLoop, StageStep, DetectedStage,
               ResearchingStage, ResearchInfer, VerifyingStage, VerifyUpdate,
               VerifyRecord, PracticingStage, TestingStage, TestFailed,
               ApplyingStage, StoreKnowledge, StatementFails
      <3> QED
        BY <3>1
    <2> QED
      BY <2>1, <2>2
  <1>3. StandInv /\ [Next]_vars => [True]_vars
    BY <1>2 DEF Next, Receive, Abandon
  <1> QED
    BY <1>1, <1>3, InitStand, PTL DEF Spec, EventsTrue

-----------------------------------------------------------------------------
(* What a cycle looks like when nothing runs: the rest of this module is   *)
(* about requests that come one at a time and run to their end.            *)

NoFaults == MaxInFlight = 1 /\ DbMayFail = FALSE /\ MayAbandon = FALSE

\* The last event tells the status, or the one after it was not published.
Agrees(c) == Exists(c) /\ ~missed[c] => announced[c] = status[c]

\* A request may owe the event of the status it wrote or is about to write.
OwingLabels ==
    {"start_publish", "adv_get", "adv_set", "adv_publish", "adv_exhaust",
     "adv_exhaust_publish", "fail_publish"}

Announces(r) ==
    LET c == target[r] IN
    /\ pc[r] \notin OwingLabels => Agrees(c)
    /\ pc[r] = "adv_get" => Agrees(c) \/ status[c] \in Stages

LEMMA StepAnnounces ==
    ASSUME DbMayFail = FALSE, TypeOK, ControlInv, NEW r \in Requests,
           Stands(r), Announces(r), Step(r)
    PROVE  Announces(r)'
  <1> USE DEF StatementFails
  <1>0. /\ target[r] \in Cycles /\ seen[r] \in Stages
        /\ pc \in [Requests -> Labels]
        /\ status \in [Cycles -> Statuses \cup {"absent"}]
        /\ announced \in [Cycles -> Statuses \cup {"nothing"}]
        /\ missed \in [Cycles -> BOOLEAN]
        /\ UNCHANGED target
    BY StepTarget
       DEF TypeOK, CallTypeOK, ControlTypeOK, RowTypeOK, EventTypeOK
  <1>1. CASE pc[r] \notin OwingLabels /\ UNCHANGED <<status, eventVars>>
    BY <1>0, <1>1 DEF Announces, Agrees, Exists
  <1>2. CASE Agrees(target[r])'
    BY <1>0, <1>2 DEF Announces
  <1>3. CASE StartCount(r) \/ RetryGet(r) \/ RetryIncrement(r) \/ RunLoop(r)
    BY <1>1, <1>3
       DEF StartCount, RetryGet, RetryIncrement, IncrementRetry, RunLoop,
           OwingLabels
  <1>4. CASE StageStep(r)
    <2>1. UNCHANGED <<status, eventVars>>
          /\ pc[r] \in Stages \cup {"research_infer", "verify_update",
                          "verify_record", "test_failed", "store_knowledge"}
      BY <1>4
         DEF StageStep, DetectedStage, ResearchingStage, ResearchInfer,
             VerifyingStage, VerifyUpdate, VerifyRecord, PracticingStage,
             TestingStage, TestFailed, ApplyingStage, StoreKnowledge, Stages
    <2> QED
      BY <1>1, <2>1, LabelFacts DEF OwingLabels
  <1>5. CASE StartInsert(r) \/ AdvSet(r) \/ AdvExhaust(r) \/ FailSet(r)
    <2>1. pc'[r] \in OwingLabels \ {"adv_get"}
      BY <1>0, <1>5
         DEF StartInsert, AdvSet, AdvExhaust, FailSet, Goto, OwingLabels
    <2> QED
      BY <2>1 DEF Announces
  <1>6. CASE RetrySet(r)
    BY <1>0, <1>6, StatusFacts
       DEF RetrySet, UpdateStatus, Goto, Announces, OwingLabels
  <1>7. CASE AdvGet(r)
    <2>1. CASE IsTerminal(status[target[r]])
      <3>1. Agrees(target[r]) /\ UNCHANGED <<status, eventVars>>
        BY <1>7, <2>1, StatusFacts DEF AdvGet, IsTerminal, Announces
      <3> QED
        BY <1>0, <1>2, <3>1 DEF Agrees, Exists
    <2>2. CASE ~IsTerminal(status[target[r]])
      <3>1. pc'[r] \in {"adv_exhaust", "adv_set"}
        BY <1>0, <1>7, <2>2 DEF AdvGet, Goto
      <3> QED
        BY <3>1 DEF Announces, OwingLabels
    <2> QED
      BY <2>1, <2>2
  <1>8. CASE StartPublish(r) \/ AdvPublish(r) \/ AdvExhaustPublish(r)
             \/ FailPublish(r)
    <2>1. /\ UNCHANGED status
          /\ \/ announced'[target[r]] = status[target[r]]
             \/ missed'[target[r]]
      BY <1>0, <1>8
         DEF StartPublish, AdvPublish, AdvExhaustPublish, FailPublish,
             Publish, PublishFinished, Stands
    <2> QED
      BY <1>0, <1>2, <2>1 DEF Agrees
  <1> QED
    BY <1>3, <1>4, <1>5, <1>6, <1>7, <1>8
       DEF Step, StartStep, AdvanceStep, FailStep, RetryStep

CalmInv ==
    /\ StandInv
    /\ \A r \in InFlight : Announces(r)
    /\ \A c \in Cycles : (\A r \in InFlight : target[r] # c) => Agrees(c)

LEMMA NextCalm ==
    ASSUME NoFaults, CalmInv, [Next]_vars
    PROVE  CalmInv'
  <1> USE DEF NoFaults
  <1>0. /\ pc \in [Requests -> Labels] /\ target \in [Requests -> Cycles]
        /\ TypeOK /\ ControlInv /\ SoloSpecInv
        /\ \A r \in Requests : Guard(r) /\ Stands(r)
    BY DEF CalmInv, StandInv, SoloSpecInv, SoloInv, TypeOK, ControlTypeOK,
           CallTypeOK
  <1>1. StandInv'
    BY NextStand DEF CalmInv
  <1>2. CASE UNCHANGED vars
    BY <1>1, <1>2
       DEF vars, CalmInv, InFlight, Announces, Agrees, Exists
  <1>3. ASSUME NEW r \in Requests, Step(r)
        PROVE  CalmInv'
    <2>1. /\ pc[r] \notin Resting
          /\ \A q \in Requests \ {r} : pc'[q] = pc[q] /\ pc[q] \in Resting
          /\ \A d \in Cycles \ {target[r]} :
                /\ status'[d] = status[d] /\ announced'[d] = announced[d]
                /\ missed'[d] = missed[d]
          /\ UNCHANGED target
      BY <1>0, <1>3, StepAlone, StepTarget
    <2>2. Announces(r)'
      BY <1>0, <1>3, <2>1, StepAnnounces DEF CalmInv, InFlight
    <2>3. ASSUME NEW d \in Cycles, d # target[r]
          PROVE  Agrees(d)'
      <3>1. Agrees(d)
        BY <2>1, <2>3 DEF CalmInv, InFlight
      <3> QED
        BY <2>1, <2>3, <3>1 DEF Agrees, Exists
    <2>4. ASSUME pc'[r] \in Resting
          PROVE  Agrees(target[r])'
      BY <2>1, <2>2, <2>4
         DEF Announces, Resting, OwingLabels, Agrees, Exists
    <2> QED
      BY <1>0, <1>1, <2>1, <2>2, <2>3, <2>4 DEF CalmInv, InFlight
  <1>4. ASSUME NEW r \in Requests, NEW o \in Ops, NEW c \in Cycles,
               Receive(r, o, c)
        PROVE  CalmInv'
    <2>1. /\ InFlight = {} /\ UNCHANGED <<status, eventVars>>
          /\ \A q \in Requests \ {r} : pc'[q] = pc[q]
      BY <1>0, <1>4, NothingInFlight DEF Receive, Goto
    <2>2. \A d \in Cycles : Agrees(d) /\ Agrees(d)'
      BY <2>1 DEF CalmInv, Agrees, Exists
    <2>3. Announces(r)'
      BY <1>0, <1>4, <2>1, <2>2 DEF Receive, Announces, Agrees, Exists
    <2> QED
      BY <1>1, <2>1, <2>2, <2>3 DEF CalmInv, InFlight
  <1> QED
    BY <1>2, <1>3, <1>4 DEF Next, Abandon

LEMMA InitCalm == Init => CalmInv
  <1> SUFFICES ASSUME Init
               PROVE  CalmInv
    OBVIOUS
  <1>1. InFlight = {}
    BY DEF Init, InFlight, Resting
  <1>2. \A c \in Cycles : Agrees(c)
    BY DEF Init, Agrees, Exists
  <1> QED
    BY <1>1, <1>2, InitStand DEF CalmInv

\* A sequential client whose requests run to their end finds, whenever nothing
\* runs, the last event of each cycle in agreement with its row, or the one
\* after it lost: every path through the methods publishes the status it wrote
\* last, or writes another, and one event makes up for those lost before it.
THEOREM EventsAgree ==
    ASSUME NoFaults
    PROVE  Spec => []EventsAgreeAtRest
  <1>1. CalmInv /\ [Next]_vars => CalmInv'
    BY NextCalm
  <1>2. CalmInv => EventsAgreeAtRest
    BY DEF CalmInv, EventsAgreeAtRest, Agrees
  <1> QED
    BY <1>1, <1>2, InitCalm, PTL DEF Spec

-----------------------------------------------------------------------------
(* How many runs settle a cycle.                                           *)

\* The handlers between a stage and the test.
ToTest ==
    [s \in Stages |->
        CASE s = "detected"   -> 4 [] s = "researching" -> 3
          [] s = "verifying"  -> 2 [] s = "practicing"  -> 1
          [] OTHER            -> 0]

\* So many handlers are run at most before a row with status s and n retries
\* is settled: those up to the test, the test, three more for every retry the
\* limit leaves but the last, which ends in failed at once, and one to apply
\* what was learned.
HandlersLeft(s, n) ==
    IF n >= MaxRetries \/ s = "applying" THEN 1
    ELSE ToTest[s] + 3 * (MaxRetries - n) - 1

HandlersNeeded == 3 * MaxRetries + 3

LEMMA HandlersBound ==
    ASSUME NEW s \in Stages, NEW n \in Nat
    PROVE  /\ HandlersLeft(s, n) \in Nat
           /\ HandlersLeft(s, n) >= 1
           /\ HandlersLeft(s, n) <= HandlersNeeded
  <1>1. ToTest[s] \in 0..4 /\ MaxRetries \in Nat
    BY LearningAssumption DEF ToTest
  <1> HIDE DEF ToTest
  <1> QED
    BY <1>1 DEF HandlersLeft, HandlersNeeded

\* Advancing costs one of them.
LEMMA HandlersAdvance ==
    ASSUME NEW s \in Stages, NEW n \in Nat, n < MaxRetries,
           NextStatus[s] \in Stages
    PROVE  HandlersLeft(NextStatus[s], n) + 1 <= HandlersLeft(s, n)
  <1>1. MaxRetries \in Nat /\ s # "applying"
    BY LearningAssumption DEF NextStatus, Stages
  <1>2. CASE s = "testing"
    BY <1>1, <1>2 DEF NextStatus, Stages, HandlersLeft, ToTest
  <1>3. CASE s # "testing"
    <2>1. /\ NextStatus[s] # "applying" /\ ToTest[s] \in 1..4
          /\ ToTest[NextStatus[s]] = ToTest[s] - 1
      BY <1>1, <1>3 DEF NextStatus, Stages, ToTest
    <2> QED
      BY <1>1, <2>1 DEF HandlersLeft
  <1> QED
    BY <1>2, <1>3

\* A retry from the test costs none beyond those it was granted.
LEMMA HandlersRetry ==
    ASSUME NEW n \in Nat, n < MaxRetries
    PROVE  HandlersLeft("researching", n + 1) <= HandlersLeft("testing", n)
  <1>1. /\ ToTest["researching"] = 3 /\ ToTest["testing"] = 0
        /\ MaxRetries \in Nat
    BY LearningAssumption DEF ToTest, Stages
  <1> HIDE DEF ToTest
  <1> QED
    BY <1>1 DEF HandlersLeft

\* Somebody has advanced or retried the cycle, or is about to.
ByHand(c) ==
    \E r \in Requests :
        /\ pc[r] \notin {"idle", "refused"}
        /\ op[r] \in {"advance", "retry"} /\ target[r] = c

\* What is left for a row with status s and n retries, after the runs that have
\* ended and the handlers one more has used.
Enough(ended, n, s, used) ==
    \/ IsTerminal(s)
    \/ ended = {} /\ HandlersLeft(s, n) + used <= HandlersNeeded
    \/ /\ Cardinality(ended) = 1
       /\ HandlersLeft(s, n) + RunIterations + used <= HandlersNeeded

\* Labels at which the iteration is counted and the row has yet to move.
WorkingLabels ==
    Stages \cup {"research_infer", "verify_update", "verify_record",
                 "test_failed", "store_knowledge", "adv_get", "adv_set",
                 "retry_get", "retry_increment", "retry_set"}

\* The status a retry is about to write, else that of the row.
Heading(r) == IF pc[r] = "retry_set" THEN "researching" ELSE status[target[r]]

\* The labels of a run that are left out lead to failed.
RunsInTime(r) ==
    LET c == target[r] IN
    /\ iter[r] <= RunIterations
    /\ pc[r] \in WorkingLabels =>
          /\ iter[r] >= 1
          /\ \/ ByHand(c)
             \/ Enough(Done(c, "run"), retries[c], Heading(r), iter[r] - 1)
    /\ pc[r] \in {"adv_publish", "run_loop"} =>
          \/ ByHand(c)
          \/ Enough(Done(c, "run"), retries[c], status[c], iter[r])

RestsInTime(c) ==
    Exists(c) =>
        \/ ByHand(c)
        \/ Enough(Done(c, "run"), retries[c], status[c], 0)

LEMMA NeverBack ==
    ASSUME TypeOK, ControlInv, NEW r \in Requests, Step(r)
    PROVE  pc'[r] # "idle" /\ (pc'[r] = "refused" => op[r] = "start")
  <1>0. /\ target[r] \in Cycles /\ pc \in [Requests -> Labels]
        /\ status \in [Cycles -> Statuses \cup {"absent"}]
    BY DEF TypeOK, CallTypeOK, ControlTypeOK, RowTypeOK
  <1>1. CASE StatementFails(r)
    BY <1>1, ReturnTargets DEF StatementFails, TypeOK
  <1>2. CASE StartStep(r)
    BY <1>0, <1>1, <1>2, ReturnTargets
       DEF StartStep, StartCount, StartInsert, StartPublish, ControlInv,
           RowExists, Goto, TypeOK
  <1>3. CASE AdvanceStep(r) \/ FailStep(r) \/ RetryStep(r)
    BY <1>0, <1>1, <1>3, ReturnTargets
       DEF AdvanceStep, AdvGet, AdvSet, AdvPublish, AdvExhaust,
           AdvExhaustPublish, FailStep, FailSet, FailPublish, RetryStep,
           RetryGet, RetryIncrement, RetrySet, Goto, TypeOK
  <1>4. CASE RunLoop(r)
    BY <1>0, <1>4 DEF RunLoop, Goto, Statuses, Stages, TerminalStatus
  <1>5. CASE StageStep(r)
    BY <1>0, <1>1, <1>5
       DEF StageStep, DetectedStage, ResearchingStage, ResearchInfer,
           VerifyingStage, VerifyUpdate, VerifyRecord, PracticingStage,
           TestingStage, TestFailed, ApplyingStage, StoreKnowledge,
           CallFailCycle, Goto
  <1> QED
    BY <1>2, <1>3, <1>4, <1>5 DEF Step

\* A step ends at most its own request; what was done by hand stays so.
LEMMA StepDone ==
    ASSUME SoloSpecInv, NEW r \in Requests, Step(r)
    PROVE  /\ \A c : ~(pc'[r] = "done" /\ op[r] = "run" /\ target[r] = c)
                 => Done(c, "run")' = Done(c, "run")
           /\ pc'[r] = "done" /\ op[r] = "run"
                 => Done(target[r], "run")' = Done(target[r], "run") \cup {r}
           /\ \A c : ByHand(c) => ByHand(c)'
           /\ r \notin Done(target[r], "run")
  <1>1. /\ UNCHANGED <<op, target>> /\ pc[r] \notin Resting
        /\ \A q \in Requests \ {r} : pc'[q] = pc[q]
        /\ pc'[r] # "idle" /\ (pc'[r] = "refused" => op[r] = "start")
    BY StepOp, StepTarget, StepAlone, NeverBack DEF SoloSpecInv
  <1>2. pc[r] # "done"
    BY <1>1 DEF Resting
  <1>3. ASSUME NEW c, ByHand(c)
        PROVE  ByHand(c)'
    <2>1. PICK q \in Requests : /\ pc[q] \notin {"idle", "refused"}
                                /\ op[q] \in {"advance", "retry"}
                                /\ target[q] = c
      BY <1>3 DEF ByHand
    <2>2. pc'[q] \notin {"idle", "refused"}
      BY <1>1, <2>1
    <2> QED
      BY <1>1, <2>1, <2>2 DEF ByHand
  <1> QED
    BY <1>1, <1>2, <1>3 DEF Done

LEMMA StepIter ==
    ASSUME NEW r \in Requests, Step(r), ~RunLoop(r)
    PROVE  UNCHANGED iter
  BY DEF Step, StartStep, StartCount, StartInsert, StartPublish, AdvanceStep,
         AdvGet, AdvSet, AdvPublish, AdvExhaust, AdvExhaustPublish, FailStep,
         FailSet, FailPublish, RetryStep, RetryGet, RetryIncrement, RetrySet,
         StageStep, DetectedStage, ResearchingStage, ResearchInfer,
         VerifyingStage, VerifyUpdate, VerifyRecord, PracticingStage,
         TestingStage, TestFailed, ApplyingStage, StoreKnowledge,
         StatementFails

\* Two runs that were used up leave nothing to do.
LEMMA SecondRun ==
    ASSUME 2 * RunIterations >= HandlersNeeded, NEW s \in Stages,
           NEW n \in Nat, NEW ended, NEW r, r \notin ended,
           Enough(ended, n, s, RunIterations)
    PROVE  Enough(ended \cup {r}, n, s, 0)
  <1>1. /\ HandlersLeft(s, n) \in Nat /\ HandlersLeft(s, n) >= 1
        /\ RunIterations \in Nat /\ HandlersNeeded \in Nat
        /\ ~IsTerminal(s)
    BY HandlersBound, LearningAssumption, StatusFacts
       DEF HandlersNeeded, IsTerminal
  <1>2. ended = {} /\ HandlersLeft(s, n) + RunIterations <= HandlersNeeded
    BY <1>1 DEF Enough
  <1>3. Cardinality(ended \cup {r}) = 1
    <2>1. ended \cup {r} = {r}
      BY <1>2
    <2> QED
      BY <2>1, FS_Singleton
  <1> QED
    BY <1>1, <1>2, <1>3 DEF Enough

\* What a run was granted covers a row that needs no more of it.
LEMMA EnoughOn ==
    ASSUME NEW s \in Stages, NEW n \in Nat, NEW s2 \in Stages, NEW n2 \in Nat,
           NEW u \in Nat, NEW d \in Nat, NEW ended,
           HandlersLeft(s2, n2) + d <= HandlersLeft(s, n),
           Enough(ended, n, s, u)
    PROVE  Enough(ended, n2, s2, u + d)
  <1>1. /\ HandlersLeft(s, n) \in Nat /\ HandlersLeft(s2, n2) \in Nat
        /\ RunIterations \in Nat /\ HandlersNeeded \in Nat
        /\ ~IsTerminal(s)
    BY HandlersBound, LearningAssumption, StatusFacts
       DEF HandlersNeeded, IsTerminal
  <1> QED
    BY <1>1 DEF Enough

\* Which action takes a run from the labels that count.
LEMMA StepAt ==
    ASSUME NEW r \in Requests, Step(r)
    PROVE  /\ pc[r] = "adv_set" => AdvSet(r)
           /\ pc[r] = "adv_publish" => AdvPublish(r)
           /\ pc[r] = "retry_increment" => RetryIncrement(r)
           /\ pc[r] = "retry_set" => RetrySet(r)
           /\ pc[r] = "run_loop" => RunLoop(r)
           /\ pc[r] = "adv_exhaust" => AdvExhaust(r)
           /\ pc[r] = "adv_exhaust_publish" => AdvExhaustPublish(r)
           /\ pc[r] = "fail_set" => FailSet(r)
           /\ pc[r] = "fail_publish" => FailPublish(r)
  BY DEF Step, StartStep, StartCount, StartInsert, StartPublish, AdvanceStep,
         AdvGet, AdvSet, AdvPublish, AdvExhaust, AdvExhaustPublish, FailStep,
         FailSet, FailPublish, RetryStep, RetryGet, RetryIncrement, RetrySet,
         RunLoop, StageStep, DetectedStage, ResearchingStage, ResearchInfer,
         VerifyingStage, VerifyUpdate, VerifyRecord, PracticingStage,
         TestingStage, TestFailed, ApplyingStage, StoreKnowledge

\* A handler leaves the row alone, and leads on or to failed.
LEMMA StepWorks ==
    ASSUME DbMayFail = FALSE, TypeOK, NEW r \in Requests, op[r] = "run",
           pc[r] \in WorkingLabels
                        \ {"adv_set", "retry_increment", "retry_set"},
           Step(r)
    PROVE  /\ UNCHANGED <<status, retries>>
           /\ pc'[r] \in (WorkingLabels \ {"retry_set"})
                            \cup {"fail_set", "adv_exhaust"}
  <1> USE DEF StatementFails, WorkingLabels
  <1>0. pc \in [Requests -> Labels]
    BY DEF TypeOK, ControlTypeOK
  <1>1. ~StartStep(r) /\ ~FailStep(r) /\ ~RunLoop(r)
    BY DEF StartStep, StartCount, StartInsert, StartPublish, FailStep,
           FailSet, FailPublish, RunLoop, Stages
  <1>2. CASE AdvanceStep(r)
    <2>1. AdvGet(r)
      BY <1>2 DEF AdvanceStep, AdvSet, AdvPublish, AdvExhaust,
                  AdvExhaustPublish, Stages
    <2> QED
      BY <1>0, <2>1 DEF AdvGet, ReturnErr, Goto
  <1>3. CASE RetryStep(r)
    <2>1. RetryGet(r)
      BY <1>3 DEF RetryStep, RetryIncrement, RetrySet
    <2> QED
      BY <1>0, <2>1 DEF RetryGet, ReturnErr, Goto
  <1>4. CASE StageStep(r)
    BY <1>0, <1>4
       DEF StageStep, DetectedStage, ResearchingStage, ResearchInfer,
           VerifyingStage, VerifyUpdate, VerifyRecord, PracticingStage,
           TestingStage, TestFailed, ApplyingStage, StoreKnowledge,
           CallFailCycle, Goto
  <1> QED
    BY <1>1, <1>2, <1>3, <1>4 DEF Step

\* What a run has used and what it has left always suffices together.
LEMMA StepRuns ==
    ASSUME DbMayFail = FALSE, 2 * RunIterations >= HandlersNeeded,
           SoloSpecInv, NEW r \in Requests, op[r] = "run", Stands(r),
           RunsInTime(r), Step(r)
    PROVE  /\ RunsInTime(r)'
           /\ pc'[r] \in Resting => RestsInTime(target[r])'
  <1> DEFINE c == target[r]
             ended == Done(c, "run")
  <1>0. /\ c \in Cycles /\ seen[r] \in Stages /\ iter[r] \in Nat
        /\ pc \in [Requests -> Labels] /\ iter \in [Requests -> Nat]
        /\ retries \in [Cycles -> Nat]
        /\ status \in [Cycles -> Statuses \cup {"absent"}]
        /\ retries[c] \in Nat /\ RunIterations \in Nat
        /\ UNCHANGED <<op, target>> /\ TypeOK /\ ControlInv /\ Guard(r)
    BY StepOp, StepTarget, LearningAssumption
       DEF SoloSpecInv, SoloInv, TypeOK, CallTypeOK, ControlTypeOK, RowTypeOK
  <1>1. /\ pc'[r] # "done" => ended' = ended
        /\ pc'[r] = "done" => ended' = ended \cup {r}
        /\ ByHand(c) => ByHand(c)'
        /\ r \notin ended
        /\ pc'[r] \in Resting => pc'[r] = "done"
    BY <1>0, StepDone, NeverBack DEF SoloSpecInv, Resting
  <1>2. \A l \in WorkingLabels :
           l \notin {"adv_publish", "run_loop", "adv_exhaust", "fail_set",
                     "adv_exhaust_publish", "fail_publish"}
           /\ l \notin Resting
    BY DEF WorkingLabels, Stages, Resting
  <1>3. pc[r] \notin Resting /\ Exists(c)
    <2>1. pc[r] \notin Resting
      BY <1>0, StepAlone
    <2> QED
      BY <1>0, <2>1 DEF ControlInv, RowExists
  <1>4. ASSUME pc[r] \in WorkingLabels, ~ByHand(c)
        PROVE  Enough(ended, retries[c], Heading(r), iter[r] - 1)
               /\ iter[r] - 1 \in Nat
    BY <1>0, <1>4 DEF RunsInTime
  <1>5. CASE pc[r] \in WorkingLabels
                          \ {"adv_set", "retry_increment", "retry_set"}
    <2>1. /\ UNCHANGED <<status, retries, iter>>
          /\ pc'[r] \in (WorkingLabels \ {"retry_set"})
                           \cup {"fail_set", "adv_exhaust"}
      BY <1>0, <1>2, <1>5, StepWorks, StepIter DEF RunLoop
    <2>2. pc'[r] \notin {"adv_publish", "run_loop"} \cup Resting
      BY <1>2, <2>1 DEF Resting
    <2>3. iter[r] <= RunIterations /\ iter[r] >= 1 /\ pc[r] # "retry_set"
      BY <1>5 DEF RunsInTime
    <2>4. (Heading(r) = status[c] /\ Heading(r)' = status[c])
             \/ pc'[r] \notin WorkingLabels
      BY <1>0, <1>2, <2>1, <2>3 DEF Heading
    <2>5. CASE pc'[r] \in WorkingLabels
      <3>1. Heading(r)' = Heading(r)
        BY <2>4, <2>5
      <3>2. ByHand(c)' \/ Enough(ended, retries[c], Heading(r), iter[r] - 1)
        BY <1>1, <1>4, <1>5
      <3> QED
        BY <1>0, <1>1, <2>1, <2>2, <2>3, <2>5, <3>1, <3>2
           DEF RunsInTime, Resting
    <2>6. CASE pc'[r] \notin WorkingLabels
      BY <1>0, <2>1, <2>2, <2>3, <2>6 DEF RunsInTime
    <2> QED
      BY <2>5, <2>6
  <1>6. CASE pc[r] = "adv_set"
    <2>1. /\ pc'[r] = "adv_publish" /\ UNCHANGED <<retries, iter>>
          /\ status'[c] = NextStatus[seen[r]]
      BY <1>0, <1>6, StepAt, StepIter
         DEF AdvSet, StatementFails, Goto, UpdateStatus, RunLoop
    <2>2. status[c] \in Stages /\ retries[c] < MaxRetries
          /\ seen[r] = status[c] /\ Heading(r) = status[c]
      BY <1>0, <1>6 DEF Guard, Heading
    <2>3. ASSUME ~ByHand(c)
          PROVE  Enough(ended, retries[c], NextStatus[status[c]], iter[r])
      <3>1. CASE NextStatus[status[c]] \in Stages
        <4>1. HandlersLeft(NextStatus[status[c]], retries[c]) + 1
                 <= HandlersLeft(status[c], retries[c])
          BY <1>0, <2>2, <3>1, HandlersAdvance
        <4>2. Enough(ended, retries[c], NextStatus[status[c]],
                     (iter[r] - 1) + 1)
          BY <1>0, <1>4, <1>6, <2>2, <2>3, <3>1, <4>1, EnoughOn
             DEF WorkingLabels
        <4>3. (iter[r] - 1) + 1 = iter[r]
          BY <1>0
        <4> QED
          BY <4>2, <4>3
      <3>2. CASE NextStatus[status[c]] \notin Stages
        BY <2>2, <3>2, NextStatusType
           DEF Enough, IsTerminal, Statuses
      <3> QED
        BY <3>1, <3>2
    <2>4. /\ "adv_publish" \notin WorkingLabels \cup Resting
          /\ iter[r] <= RunIterations
      BY <1>2 DEF RunsInTime, Resting
    <2> QED
      BY <1>0, <1>1, <2>1, <2>2, <2>3, <2>4 DEF RunsInTime
  <1>7. CASE pc[r] = "retry_increment"
    <2>1. /\ pc'[r] = "retry_set" /\ UNCHANGED <<status, iter>>
          /\ retries'[c] = retries[c] + 1
      BY <1>0, <1>7, StepAt, StepIter
         DEF RetryIncrement, StatementFails, Goto, IncrementRetry, RunLoop
    <2>2. /\ status[c] = "testing" /\ retries[c] < MaxRetries
          /\ Heading(r) = "testing" /\ Heading(r)' = "researching"
      BY <1>0, <1>7, <2>1 DEF Guard, Stands, Heading
    <2>3. ASSUME ~ByHand(c)
          PROVE  Enough(ended, retries[c] + 1, "researching", iter[r] - 1)
      <3>1. HandlersLeft("researching", retries[c] + 1) + 0
               <= HandlersLeft("testing", retries[c])
        BY <1>0, <2>2, HandlersRetry, HandlersBound DEF Stages
      <3>2. Enough(ended, retries[c] + 1, "researching", (iter[r] - 1) + 0)
        <4>1. /\ Enough(ended, retries[c], "testing", iter[r] - 1)
              /\ iter[r] - 1 \in Nat /\ retries[c] + 1 \in Nat
          BY <1>0, <1>4, <1>7, <2>2, <2>3 DEF WorkingLabels
        <4>2. "testing" \in Stages /\ "researching" \in Stages
          BY DEF Stages
        <4> HIDE DEF ended
        <4> QED
          BY <1>0, <3>1, <4>1, <4>2, EnoughOn
      <3>3. (iter[r] - 1) + 0 = iter[r] - 1
        BY <1>0
      <3> QED
        BY <3>2, <3>3
    <2>4. /\ "retry_set" \notin {"adv_publish", "run_loop"} \cup Resting
          /\ iter[r] <= RunIterations /\ iter[r] >= 1
      BY <1>7 DEF RunsInTime, Resting, WorkingLabels
    <2> QED
      BY <1>0, <1>1, <2>1, <2>2, <2>3, <2>4 DEF RunsInTime
  <1>8. CASE pc[r] = "retry_set"
    <2>1. /\ pc'[r] = "adv_get" /\ UNCHANGED <<retries, iter>>
          /\ status'[c] = "researching"
      BY <1>0, <1>8, StepAt, StepIter
         DEF RetrySet, StatementFails, Goto, UpdateStatus, RunLoop
    <2>2. Heading(r) = "researching" /\ Heading(r)' = "researching"
      BY <1>0, <1>8, <2>1 DEF Heading
    <2>3. /\ "adv_get" \notin {"adv_publish", "run_loop"} \cup Resting
          /\ iter[r] <= RunIterations /\ iter[r] >= 1
          /\ pc[r] \in WorkingLabels
      BY <1>8 DEF RunsInTime, Resting, WorkingLabels
    <2> QED
      BY <1>0, <1>1, <1>4, <2>1, <2>2, <2>3 DEF RunsInTime
  <1>9. CASE pc[r] = "adv_publish"
    <2>1. /\ pc'[r] = "run_loop" /\ UNCHANGED <<status, retries, iter>>
      BY <1>0, <1>9, StepAt, StepIter
         DEF AdvPublish, ReturnOk, Goto, RunLoop
    <2>2. "run_loop" \notin WorkingLabels \cup Resting
      BY <1>2 DEF Resting
    <2> QED
      BY <1>0, <1>1, <1>9, <2>1, <2>2 DEF RunsInTime
  <1>10. CASE pc[r] = "run_loop"
    <2>1. UNCHANGED <<status, retries>> /\ RunLoop(r)
      BY <1>10, StepAt DEF RunLoop
    <2>2. ByHand(c) \/ Enough(ended, retries[c], status[c], iter[r])
      BY <1>10 DEF RunsInTime
    <2>3. /\ iter[r] <= RunIterations
          /\ "done" \notin WorkingLabels \cup {"adv_publish", "run_loop"}
          /\ \A l \in Stages : l \in WorkingLabels /\ l # "retry_set"
          /\ "done" \notin {"retry_set"}
      BY <1>2 DEF RunsInTime, Resting, WorkingLabels, Stages
    <2>4. CASE IsTerminal(status[c])
      <3>1. pc'[r] = "done" /\ iter'[r] <= RunIterations
        BY <1>0, <2>1, <2>3, <2>4 DEF RunLoop, Goto
      <3> QED
        BY <1>0, <2>1, <2>3, <2>4, <3>1
           DEF RunsInTime, RestsInTime, Enough
    <2>5. status[c] \in Stages \/ IsTerminal(status[c])
      BY <1>0, <1>3 DEF Exists, Statuses, IsTerminal
    <2>6. CASE status[c] \in Stages /\ iter[r] < RunIterations
      <3>1. /\ pc'[r] = status[c] /\ iter'[r] = iter[r] + 1
            /\ Heading(r)' = status[c]
        BY <1>0, <2>1, <2>3, <2>6, StatusFacts
           DEF RunLoop, Goto, Heading, IsTerminal
      <3>2. pc'[r] \in WorkingLabels
        BY <2>3, <2>6, <3>1
      <3> QED
        BY <1>0, <1>1, <1>2, <2>1, <2>2, <2>6, <3>1, <3>2
           DEF RunsInTime, Resting
    <2>7. CASE status[c] \in Stages /\ iter[r] = RunIterations
      <3>1. pc'[r] = "done" /\ UNCHANGED iter
        BY <1>0, <2>1, <2>7 DEF RunLoop, Goto
      <3>2. ASSUME ~ByHand(c)
            PROVE  Enough(ended \cup {r}, retries[c], status[c], 0)
        <4>1. Enough(ended, retries[c], status[c], RunIterations)
          BY <2>2, <2>7, <3>2
        <4> HIDE DEF ended
        <4> QED
          BY <1>0, <1>1, <2>7, <4>1, SecondRun
      <3> QED
        BY <1>0, <1>1, <2>1, <2>3, <3>1, <3>2 DEF RunsInTime, RestsInTime
    <2> QED
      BY <1>0, <2>3, <2>4, <2>5, <2>6, <2>7
  <1>11. CASE pc[r] \in {"adv_exhaust", "adv_exhaust_publish", "fail_set",
                         "fail_publish"}
    <2>1. /\ UNCHANGED iter
          /\ \/ pc'[r] \in {"adv_exhaust_publish", "fail_set",
                            "fail_publish"}
             \/ /\ pc[r] = "fail_publish" /\ UNCHANGED status
                /\ pc'[r] \in {"run_loop", "done"}
      BY <1>0, <1>11, StepAt, StepIter
         DEF AdvExhaust, AdvExhaustPublish, FailSet, FailPublish,
             StatementFails, ReturnErr, FailReturnOk, Goto, RunLoop
    <2>2. iter[r] <= RunIterations
      BY DEF RunsInTime
    <2>3. CASE pc'[r] \in {"adv_exhaust_publish", "fail_set", "fail_publish"}
      BY <1>0, <1>2, <2>1, <2>2, <2>3 DEF RunsInTime, Resting
    <2>4. CASE pc[r] = "fail_publish" /\ pc'[r] \in {"run_loop", "done"}
                /\ UNCHANGED status
      <3>1. IsTerminal(status'[c])
        BY <1>0, <2>4 DEF Stands, IsTerminal, TerminalStatus
      <3>2. pc'[r] \notin WorkingLabels
        BY <1>2, <2>4 DEF Resting
      <3> QED
        BY <1>0, <2>1, <2>2, <2>4, <3>1, <3>2
           DEF RunsInTime, RestsInTime, Enough, Resting
    <2> QED
      BY <2>1, <2>3, <2>4
  <1>12. pc[r] \in WorkingLabels
                   \cup {"adv_publish", "run_loop", "adv_exhaust", "fail_set",
                         "adv_exhaust_publish", "fail_publish"}
    BY <1>0, <1>3
       DEF Labels, WorkingLabels, ControlInv, RowExists
  <1> QED
    BY <1>5, <1>6, <1>7, <1>8, <1>9, <1>10, <1>11, <1>12

\* A row that was inserted is never removed.
LEMMA RowsStay ==
    ASSUME TypeOK, ControlInv, NEW r \in Requests, Step(r),
           NEW c \in Cycles, Exists(c)
    PROVE  Exists(c)'
  <1>1. /\ target[r] \in Cycles /\ NextStatus[seen[r]] # "absent"
        /\ status \in [Cycles -> Statuses \cup {"absent"}]
    BY NextStatusType DEF TypeOK, CallTypeOK, RowTypeOK
  <1> QED
    BY <1>1, StepRow
       DEF RowStep, UpdateStatus, IncrementRetry, Lifecycle!Create, Exists

\* A start request ends where it started.
LEMMA StepStarts ==
    ASSUME TypeOK, NEW r \in Requests, op[r] = "start", pc[r] \in StartLabels,
           Step(r)
    PROVE  /\ StartStep(r)
           /\ pc'[r] \in StartLabels \cup Resting
  <1>1. StartStep(r)
    BY DEF Step, StartLabels, AdvanceStep, AdvGet, AdvSet, AdvPublish,
           AdvExhaust, AdvExhaustPublish, FailStep, FailSet, FailPublish,
           RetryStep, RetryGet, RetryIncrement, RetrySet, RunLoop, StageStep,
           DetectedStage, ResearchingStage, ResearchInfer, VerifyingStage,
           VerifyUpdate, VerifyRecord, PracticingStage, TestingStage,
           TestFailed, ApplyingStage, StoreKnowledge, Stages
  <1> QED
    BY <1>1, StartReturn
       DEF StartStep, StartCount, StartInsert, StartPublish, StatementFails,
           Goto, StartLabels, Resting, TypeOK, ControlTypeOK

\* What is known of a request that does not run yet, or does not run.
Otherwise(r) ==
    /\ pc[r] = "idle" => iter[r] = 0
    /\ op[r] = "start" => pc[r] \in StartLabels \cup Resting

\* A run under way, and the row of a cycle no run is under way on, never need
\* more handlers than the runs up to the second may use.
SettleInv ==
    /\ StandInv
    /\ \A r \in Requests : Otherwise(r)
    /\ \A c \in Cycles : ~Exists(c) => Done(c, "run") = {}
    /\ \A r \in InFlight : op[r] = "run" => RunsInTime(r)
    /\ \A c \in Cycles :
          (\A r \in InFlight : ~(op[r] = "run" /\ target[r] = c))
              => RestsInTime(c)

\* A step of another operation: it is by hand, or it inserts the row.
LEMMA StepByHand ==
    ASSUME SettleInv, NEW r \in Requests, op[r] # "run", Step(r)
    PROVE  RestsInTime(target[r])'
  <1> DEFINE c == target[r]
  <1>0. /\ c \in Cycles /\ op[r] \in AllOps
        /\ SoloSpecInv /\ TypeOK /\ ControlInv /\ UNCHANGED <<op, target>>
        /\ status \in [Cycles -> Statuses \cup {"absent"}]
        /\ retries \in [Cycles -> Nat]
    BY StepOp, StepTarget
       DEF SettleInv, StandInv, SoloSpecInv, TypeOK, CallTypeOK, RowTypeOK
  <1>1. /\ pc[r] \notin Resting
        /\ \A q \in Requests \ {r} : pc[q] \in Resting
        /\ Done(c, "run")' = Done(c, "run")
        /\ ByHand(c) => ByHand(c)'
    BY <1>0, StepAlone, StepDone
  <1>2. CASE op[r] \in {"advance", "retry"}
    <2>1. ByHand(c)
      BY <1>1, <1>2 DEF ByHand, Resting
    <2> QED
      BY <1>1, <2>1, <1>0 DEF RestsInTime
  <1>3. CASE op[r] = "start"
    <2>1. pc[r] \in StartLabels
      BY <1>1, <1>3 DEF SettleInv, Otherwise
    <2>2. StartStep(r)
      BY <1>0, <1>3, <2>1, StepStarts
    <2>3. CASE StartInsert(r) /\ ~StatementFails(r)
      <3>1. /\ UNCHANGED retries /\ status'[c] = "detected" /\ ~Exists(c)
        BY <1>0, <2>3 DEF StartInsert, ControlInv, StartsFresh, Fresh
      <3>2. Done(c, "run") = {}
        BY <1>0, <3>1 DEF SettleInv
      <3>3. HandlersLeft("detected", retries[c]) + 0 <= HandlersNeeded
        BY <1>0, HandlersBound DEF Stages
      <3> QED
        BY <1>0, <1>1, <3>1, <3>2, <3>3 DEF RestsInTime, Enough
    <2>4. CASE ~StartInsert(r) \/ StatementFails(r)
      <3>1. UNCHANGED <<status, retries>>
        BY <2>2, <2>4 DEF StartStep, StartCount, StartPublish, StatementFails
      <3>2. RestsInTime(c)
        BY <1>0, <1>1, <1>3 DEF SettleInv, InFlight
      <3> QED
        BY <1>0, <1>1, <3>1, <3>2 DEF RestsInTime, Exists
    <2> QED
      BY <2>3, <2>4
  <1> QED
    BY <1>0, <1>2, <1>3 DEF AllOps

LEMMA NextSettle ==
    ASSUME NoFaults, 2 * RunIterations >= HandlersNeeded, SettleInv,
           [Next]_vars
    PROVE  SettleInv'
  <1> USE DEF NoFaults
  <1>0. /\ pc \in [Requests -> Labels] /\ target \in [Requests -> Cycles]
        /\ op \in [Requests -> AllOps] /\ iter \in [Requests -> Nat]
        /\ RunIterations \in Nat
        /\ TypeOK /\ ControlInv /\ SoloSpecInv /\ \A r \in Requests : Stands(r)
    BY LearningAssumption
       DEF SettleInv, StandInv, SoloSpecInv, TypeOK, ControlTypeOK, CallTypeOK
  <1>1. StandInv'
    BY NextStand DEF SettleInv
  <1>2. CASE UNCHANGED vars
    BY <1>1, <1>2
       DEF vars, SettleInv, InFlight, Otherwise, Exists, Done, RunsInTime,
           RestsInTime, ByHand, Heading
  <1>3. ASSUME NEW r \in Requests, Step(r)
        PROVE  SettleInv'
    <2>1. /\ pc[r] \notin Resting
          /\ \A q \in Requests \ {r} : pc'[q] = pc[q] /\ pc[q] \in Resting
          /\ \A d \in Cycles \ {target[r]} :
                status'[d] = status[d] /\ retries'[d] = retries[d]
          /\ UNCHANGED <<op, target>>
      BY <1>0, <1>3, StepAlone, StepTarget, StepOp
    <2>2. /\ \A d : ~(pc'[r] = "done" /\ op[r] = "run" /\ target[r] = d)
                => Done(d, "run")' = Done(d, "run")
          /\ \A d : ByHand(d) => ByHand(d)'
          /\ pc'[r] # "idle"
      BY <1>0, <1>3, StepDone, NeverBack
    <2>3. \A q \in Requests : Otherwise(q)'
      <3>1. \A q \in Requests \ {r} : iter'[q] = iter[q]
        BY <1>0, <1>3, StepIter DEF RunLoop
      <3>2. op[r] = "start" => pc'[r] \in StartLabels \cup Resting
        BY <1>0, <1>3, <2>1, StepStarts DEF SettleInv, Otherwise
      <3> QED
        BY <2>1, <2>2, <3>1, <3>2 DEF SettleInv, Otherwise
    <2>4. ASSUME NEW d \in Cycles, ~Exists(d)'
          PROVE  Done(d, "run")' = {}
      <3>1. ~Exists(d)
        BY <1>0, <1>3, <2>4, RowsStay
      <3>2. op[r] = "run" => Exists(target[r])
        BY <1>0, <2>1 DEF ControlInv, RowExists
      <3> QED
        BY <2>2, <3>1, <3>2 DEF SettleInv
    <2>5. /\ op[r] = "run" => RunsInTime(r)'
          /\ op[r] # "run" \/ pc'[r] \in Resting => RestsInTime(target[r])'
      <3>1. CASE op[r] = "run"
        <4>1. RunsInTime(r)
          BY <2>1, <3>1 DEF SettleInv, InFlight
        <4> QED
          BY <1>0, <1>3, <3>1, <4>1, StepRuns
      <3>2. CASE op[r] # "run"
        BY <1>3, <3>2, StepByHand
      <3> QED
        BY <3>1, <3>2
    <2>6. ASSUME NEW d \in Cycles, d # target[r]
          PROVE  RestsInTime(d)'
      <3>1. RestsInTime(d)
        BY <2>1, <2>6 DEF SettleInv, InFlight
      <3> QED
        BY <2>1, <2>2, <2>6, <3>1 DEF RestsInTime, Exists
    <2> QED
      BY <1>0, <1>1, <2>1, <2>3, <2>4, <2>5, <2>6 DEF SettleInv, InFlight
  <1>4. ASSUME NEW r \in Requests, NEW o \in Ops, NEW c \in Cycles,
               Receive(r, o, c)
        PROVE  SettleInv'
    <2>1. /\ InFlight = {} /\ UNCHANGED <<status, retries, iter>>
          /\ \A q \in Requests \ {r} :
                pc'[q] = pc[q] /\ op'[q] = op[q] /\ target'[q] = target[q]
          /\ pc[r] = "idle" /\ pc'[r] = EntryLabel[o] /\ op'[r] = o
          /\ target'[r] = c /\ o \in AllOps
      BY <1>0, <1>4, NothingInFlight, LearningAssumption DEF Receive, Goto
    <2>2. EntryLabel[o] \in {"start_count", "adv_get", "retry_get", "run_loop"}
          /\ (EntryLabel[o] = "start_count" <=> o = "start")
          /\ (o = "run" => EntryLabel[o] = "run_loop")
      BY <2>1, EntryLabelType DEF EntryLabel, AllOps
    <2>3. \A d : /\ Done(d, "run")' = Done(d, "run")
                 /\ ByHand(d) => ByHand(d)'
      <3>1. pc'[r] \notin {"idle", "refused", "done"}
        BY <2>1, <2>2
      <3> QED
        BY <2>1, <3>1 DEF Done, ByHand
    <2>4. \A d \in Cycles : RestsInTime(d) /\ RestsInTime(d)'
      BY <2>1, <2>3 DEF SettleInv, RestsInTime, Exists
    <2>5. ASSUME o = "run"
          PROVE  RunsInTime(r)'
      <3>1. /\ pc'[r] = "run_loop" /\ iter[r] = 0 /\ Exists(c)
        BY <1>4, <2>1, <2>2, <2>5
           DEF Receive, Addressable, SettleInv, Otherwise
      <3>2. "run_loop" \notin WorkingLabels
        BY DEF WorkingLabels, Stages
      <3> QED
        BY <1>0, <2>1, <2>3, <2>4, <3>1, <3>2 DEF RunsInTime, RestsInTime
    <2>6. \A q \in Requests : Otherwise(q)'
      BY <2>1, <2>2 DEF SettleInv, Otherwise, StartLabels
    <2> QED
      BY <1>1, <2>1, <2>3, <2>4, <2>5, <2>6
         DEF SettleInv, InFlight, Exists
  <1> QED
    BY <1>2, <1>3, <1>4 DEF Next, Abandon

LEMMA InitSettle == Init => SettleInv
  <1> SUFFICES ASSUME Init
               PROVE  SettleInv
    OBVIOUS
  <1>1. InFlight = {} /\ \A r \in Requests : Otherwise(r)
    BY DEF Init, InFlight, Resting, Otherwise, StartLabels
  <1>2. \A c \in Cycles : ~Exists(c) /\ Done(c, "run") = {}
    BY DEF Init, Exists, Done
  <1> QED
    BY <1>1, <1>2, InitStand DEF SettleInv, RestsInTime

\* Two runs settle a cycle that nobody advances or retries, if they have an
\* iteration for every handler: one for each of the six stages, and three more
\* for each retry but the last, since a retry goes back behind researching and
\* the last one finds the limit reached.  The code's six iterations and three
\* retries satisfy it with nothing to spare.
THEOREM TwoRunsSettle ==
    ASSUME NoFaults, 2 * RunIterations >= 3 * MaxRetries + 3
    PROVE  Spec => []SettledAfterTwoRuns
  <1>1. SettleInv /\ [Next]_vars => SettleInv'
    BY NextSettle DEF HandlersNeeded
  <1>2. SettleInv => SettledAfterTwoRuns
    <2> SUFFICES ASSUME SettleInv, InFlight = {}, NEW c \in Cycles,
                        Cardinality(Done(c, "run")) >= 2,
                        Done(c, "advance") \cup Done(c, "retry") = {}
                 PROVE  IsTerminal(status[c])
      BY DEF SettledAfterTwoRuns
    <2>1. ~ByHand(c)
      BY DEF ByHand, Done, InFlight, Resting
    <2>2. Done(c, "run") # {}
      BY FS_EmptySet
    <2>3. Exists(c)
      BY <2>2 DEF SettleInv
    <2>4. Enough(Done(c, "run"), retries[c], status[c], 0)
      BY <2>1, <2>3 DEF SettleInv, RestsInTime
    <2> QED
      BY <2>2, <2>4 DEF Enough
  <1> QED
    BY <1>1, <1>2, InitSettle, PTL DEF Spec
=============================================================================
