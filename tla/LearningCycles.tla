--------------------------- MODULE LearningCycles ---------------------------
(***************************************************************************)
(* The self-learning loop of one project: the rows of learning_cycles and  *)
(* its two child tables, and the HTTP requests that move them (POST        *)
(* /learning/cycles, .../advance, .../retry, .../run).                     *)
(*                                                                         *)
(* A request is an async function.  Each SQL statement is one atomic step; *)
(* between two statements any other request may run, because nothing in    *)
(* the code holds a transaction or a lock across an await.  The label in   *)
(* pc names the statement the request executes next.  A stage handler's    *)
(* first label is the name of its stage.                                   *)
(*                                                                         *)
(* Simplifications.  Prompts, answers and excerpts are dropped: inference  *)
(* either answers or fails, and an answer is only what the handlers branch *)
(* on.  Reads of columns that never change (project_id, origin_task_id)    *)
(* are kept as statements that may fail and otherwise do nothing; they are *)
(* folded into the first statement of the handler that makes them.  A      *)
(* publication and the SELECT that follows it in advance_cycle are one     *)
(* step, since the SELECT's row is only echoed to the client.  Projects    *)
(* do not interact (every query but the circuit breaker's names one cycle, *)
(* the breaker names one project), so there is one.                        *)
(***************************************************************************)
EXTENDS Naturals, Sequences, FiniteSets, LearningStatus

CONSTANTS
    Cycles,         \* ids of learning cycles
    Requests,       \* HTTP requests; each is sent at most once
    Ops,            \* what clients ask for, a subset of AllOps
    MaxRetries,     \* max_retries of the orchestrator (3)
    MaxFailed,      \* max_failed_cycles of the orchestrator (5)
    FailedWindow,   \* LIMIT of count_failed_recent (10)
    RunIterations,  \* stages.len() in the run route (6)
    Inference,      \* what inference may do, a subset of {"answers", "fails",
                    \* "nan"}, the last an answer with a line reading NaN
    MaxInFlight,    \* requests the clients let run at a time
    DbMayFail,      \* TRUE: any SQL statement may return an error
    MayAbandon      \* TRUE: a request may die at any await (client
                    \* disconnect, panic on a slice, server restart)

AllOps == {"start", "advance", "retry", "run"}

ASSUME LearningAssumption ==
    /\ Cycles # {}
    /\ Ops \subseteq AllOps
    /\ MaxRetries \in Nat
    /\ MaxFailed \in Nat
    /\ FailedWindow \in Nat
    /\ RunIterations \in Nat
    /\ Inference \subseteq {"answers", "fails", "nan"}
    /\ MaxInFlight \in Nat \ {0}
    /\ IsFiniteSet(Requests)
    /\ DbMayFail \in BOOLEAN
    /\ MayAbandon \in BOOLEAN

-----------------------------------------------------------------------------
(* Evidence and failure reasons.                                           *)

\* source_type of an evidence row and the trust_tier its handler gives it.
Sources == {"analysis", "vector_memory", "llm_research", "system"}
TrustTier ==
    [s \in Sources |->
        CASE s = "analysis" -> 2 [] s = "vector_memory" -> 3
          [] s = "llm_research" -> 4 [] s = "system" -> 1]

\* Texts of failure_reason and of the errors that become one.
Reasons == {"none", "max_retries", "no_sources", "low_confidence",
            "tests_failed", "terminal", "db"}

VARIABLES
    \* learning_cycles
    status,      \* "absent" until the row is inserted
    retries,     \* retry_count
    reason,      \* failure_reason
    confidence,  \* confidence_score: "unset", or a score
    created,     \* ids by created_at
    \* learning_cycle_evidence, learning_cycle_test_results, memory_entries
    evidence,    \* rows per source_type
    results,     \* stages with a recorded outcome
    learned,     \* raw memory entries stored by the applying stage
    \* NATS
    announced,   \* the status the last published event implies
    missed,      \* TRUE: an event after it was not published
    \* requests
    pc, op, target,
    seen,        \* status read by advance_cycle
    iter,        \* iterations of the run loop
    score,       \* llm_confidence of the verifying handler
    cause,       \* reason fail_cycle is called with
    after        \* "loop": fail_cycle called by a handler, "break": by run

rowVars   == <<status, retries, reason, confidence, created>>
logVars   == <<evidence, results, learned>>
eventVars == <<announced, missed>>
callVars  == <<op, target, seen, iter, score>>
errVars   == <<cause, after>>
vars == <<rowVars, logVars, eventVars, pc, callVars, errVars>>

Resting == {"idle", "done", "refused"}
Labels ==
    Resting \cup Stages
    \cup {"start_count", "start_insert", "start_publish"}
    \cup {"run_loop", "research_infer", "verify_update", "verify_record",
          "test_failed", "store_knowledge"}
    \cup {"adv_get", "adv_set", "adv_publish", "adv_exhaust",
          "adv_exhaust_publish"}
    \cup {"retry_get", "retry_increment", "retry_set"}
    \cup {"fail_set", "fail_publish"}

Exists(c) == status[c] # "absent"
InFlight == {r \in Requests : pc[r] \notin Resting}

Init ==
    /\ status     = [c \in Cycles |-> "absent"]
    /\ retries    = [c \in Cycles |-> 0]
    /\ reason     = [c \in Cycles |-> "none"]
    /\ confidence = [c \in Cycles |-> "unset"]
    /\ created    = <<>>
    /\ evidence   = [c \in Cycles |-> [s \in Sources |-> 0]]
    /\ results    = [c \in Cycles |-> {}]
    /\ learned    = [c \in Cycles |-> 0]
    /\ announced  = [c \in Cycles |-> "nothing"]
    /\ missed     = [c \in Cycles |-> FALSE]
    /\ pc      = [r \in Requests |-> "idle"]
    /\ op      = [r \in Requests |-> "run"]
    /\ target  = [r \in Requests |-> CHOOSE c \in Cycles : TRUE]
    /\ seen    = [r \in Requests |-> "detected"]
    /\ iter    = [r \in Requests |-> 0]
    /\ score   = [r \in Requests |-> "low"]
    /\ cause   = [r \in Requests |-> "none"]
    /\ after   = [r \in Requests |-> "break"]

-----------------------------------------------------------------------------
(* Control: jumps, results of the orchestrator's methods, SQL statements.  *)

Goto(r, label) == pc' = [pc EXCEPT ![r] = label]

\* A method of the orchestrator, or a handler, returned Ok.
ReturnOk(r) ==
    /\ Goto(r, IF op[r] = "run" THEN "run_loop" ELSE "done")
    /\ UNCHANGED errVars

\* It returned Err(why): the run route fails the cycle with that text and
\* leaves its loop, the other routes answer with an error.
ReturnErr(r, why) ==
    IF op[r] = "run"
    THEN /\ Goto(r, "fail_set")
         /\ cause' = [cause EXCEPT ![r] = why]
         /\ after' = [after EXCEPT ![r] = "break"]
    ELSE Goto(r, "done") /\ UNCHANGED errVars

\* A handler calls fail_cycle(id, why).
CallFailCycle(r, why) ==
    /\ Goto(r, "fail_set")
    /\ cause' = [cause EXCEPT ![r] = why]
    /\ after' = [after EXCEPT ![r] = "loop"]

\* The statement at r's label returns an error, propagated by `?`.
StatementFails(r) ==
    /\ DbMayFail
    /\ ReturnErr(r, "db")
    /\ UNCHANGED <<rowVars, logVars, eventVars, callVars>>

\* Mutant: COALESCE(reason), so a NULL does not clear the column.
UpdateStatusKeepingReason(c, s, why) ==
    /\ status' = [status EXCEPT ![c] = s]
    /\ reason' = [reason EXCEPT ![c] = IF why = "none" THEN @ ELSE why]
    /\ UNCHANGED <<retries, confidence, created>>

\* update_status: both columns in one UPDATE.
UpdateStatus(c, s, why) ==
    /\ status' = [status EXCEPT ![c] = s]
    /\ reason' = [reason EXCEPT ![c] = why]
    /\ UNCHANGED <<retries, confidence, created>>

\* increment_retry: retry_count = retry_count + 1 inside the UPDATE.
IncrementRetry(c) ==
    /\ retries' = [retries EXCEPT ![c] = @ + 1]
    /\ UNCHANGED <<status, reason, confidence, created>>

AddEvidence(c, source) ==
    evidence' = [evidence EXCEPT ![c][source] = @ + 1]

AddTestResult(c, stage, passed) ==
    results' = [results EXCEPT ![c] = @ \cup {<<stage, passed>>}]

\* publish_event: a publication that fails is logged and forgotten, without a
\* connection to NATS there is none; the caller goes on as if it was made.
Publish(c, s) ==
    \/ /\ announced' = [announced EXCEPT ![c] = s]
       /\ missed' = [missed EXCEPT ![c] = FALSE]
    \/ /\ missed' = [missed EXCEPT ![c] = TRUE]
       /\ UNCHANGED announced

PublishFinished(c) == Publish(c, "failed")

-----------------------------------------------------------------------------
(* start_cycle                                                             *)

CreatedFailed == {c \in Cycles : status[c] = "failed"}

\* count_failed_recent: COUNT(*) over at most FailedWindow failed rows.
CountFailedRecent ==
    LET n == Cardinality(CreatedFailed)
    IN  IF n < FailedWindow THEN n ELSE FailedWindow

StartCount(r) ==
    /\ pc[r] = "start_count"
    /\ \/ /\ CountFailedRecent >= MaxFailed
          /\ Goto(r, "refused")
          /\ UNCHANGED <<rowVars, logVars, eventVars, callVars, errVars>>
       \/ /\ CountFailedRecent < MaxFailed
          /\ Goto(r, "start_insert")
          /\ UNCHANGED <<rowVars, logVars, eventVars, callVars, errVars>>
       \/ StatementFails(r)

StartInsert(r) ==
    /\ pc[r] = "start_insert"
    /\ \/ /\ status'  = [status EXCEPT ![target[r]] = "detected"]
          /\ created' = Append(created, target[r])
          /\ Goto(r, "start_publish")
          /\ UNCHANGED <<retries, reason, confidence, logVars, eventVars,
                         callVars, errVars>>
       \/ StatementFails(r)

StartPublish(r) ==
    /\ pc[r] = "start_publish"
    /\ Publish(target[r], "detected")
    /\ ReturnOk(r)
    /\ UNCHANGED <<rowVars, logVars, callVars>>

-----------------------------------------------------------------------------
(* advance_cycle                                                           *)

AdvGet(r) ==
    LET c == target[r] IN
    /\ pc[r] = "adv_get"
    /\ \/ /\ IsTerminal(status[c])
          /\ ReturnErr(r, "terminal")
          /\ UNCHANGED <<rowVars, logVars, eventVars, callVars>>
       \/ /\ ~IsTerminal(status[c])
          /\ Goto(r, IF retries[c] >= MaxRetries THEN "adv_exhaust"
                                                 ELSE "adv_set")
          /\ seen' = [seen EXCEPT ![r] = status[c]]
          /\ UNCHANGED <<rowVars, logVars, eventVars, op, target, iter,
                         score, errVars>>
       \/ StatementFails(r)

\* The status written is the successor of the one read at adv_get.
AdvSet(r) ==
    /\ pc[r] = "adv_set"
    /\ \/ /\ UpdateStatus(target[r], NextStatus[seen[r]], "none")
          /\ Goto(r, "adv_publish")
          /\ UNCHANGED <<logVars, eventVars, callVars, errVars>>
       \/ StatementFails(r)

\* Mutant: the event carries the old stage as its new one.
AdvPublishFrom(r) ==
    /\ pc[r] = "adv_publish"
    /\ Publish(target[r], seen[r])
    /\ ReturnOk(r)
    /\ UNCHANGED <<rowVars, logVars, callVars>>

\* The event is out before the SELECT that may still fail the call.
AdvPublish(r) ==
    /\ pc[r] = "adv_publish"
    /\ Publish(target[r], NextStatus[seen[r]])
    /\ \/ ReturnOk(r)
       \/ DbMayFail /\ ReturnErr(r, "db")
    /\ UNCHANGED <<rowVars, logVars, callVars>>

AdvExhaust(r) ==
    /\ pc[r] = "adv_exhaust"
    /\ \/ /\ UpdateStatus(target[r], "failed", "max_retries")
          /\ Goto(r, "adv_exhaust_publish")
          /\ UNCHANGED <<logVars, eventVars, callVars, errVars>>
       \/ StatementFails(r)

AdvExhaustPublish(r) ==
    /\ pc[r] = "adv_exhaust_publish"
    /\ PublishFinished(target[r])
    /\ ReturnErr(r, "max_retries")
    /\ UNCHANGED <<rowVars, logVars, callVars>>

-----------------------------------------------------------------------------
(* fail_cycle: no check of the current status.                             *)

\* Its result goes to the run loop when a handler called it, and is ignored
\* when the run route did.
FailReturnOk(r) ==
    /\ Goto(r, IF after[r] = "loop" THEN "run_loop" ELSE "done")
    /\ UNCHANGED errVars

FailReturnErr(r) ==
    \/ after[r] = "loop" /\ ReturnErr(r, "db")
    \/ after[r] = "break" /\ Goto(r, "done") /\ UNCHANGED errVars

\* Mutant: the event goes out before the UPDATE, which may then fail.
FailSetAnnounced(r) ==
    /\ pc[r] = "fail_set"
    /\ PublishFinished(target[r])
    /\ \/ /\ UpdateStatus(target[r], "failed", cause[r])
          /\ Goto(r, "fail_publish")
          /\ UNCHANGED errVars
       \/ DbMayFail /\ FailReturnErr(r) /\ UNCHANGED rowVars
    /\ UNCHANGED <<logVars, callVars>>

FailSet(r) ==
    /\ pc[r] = "fail_set"
    /\ \/ /\ UpdateStatus(target[r], "failed", cause[r])
          /\ Goto(r, "fail_publish")
          /\ UNCHANGED errVars
       \/ DbMayFail /\ FailReturnErr(r) /\ UNCHANGED rowVars
    /\ UNCHANGED <<logVars, eventVars, callVars>>

FailPublish(r) ==
    /\ pc[r] = "fail_publish"
    /\ \/ PublishFinished(target[r]) /\ FailReturnOk(r)
       \/ DbMayFail /\ FailReturnErr(r) /\ UNCHANGED eventVars
    /\ UNCHANGED <<rowVars, logVars, callVars>>

-----------------------------------------------------------------------------
(* retry_cycle: no check of the current status, no event of its own.       *)

\* Mutant: the limit is checked with > instead of >=.
RetryGetOneMore(r) ==
    /\ pc[r] = "retry_get"
    /\ \/ /\ retries[target[r]] > MaxRetries
          /\ ReturnErr(r, "max_retries")
       \/ /\ retries[target[r]] <= MaxRetries
          /\ Goto(r, "retry_increment")
          /\ UNCHANGED errVars
    /\ UNCHANGED <<rowVars, logVars, eventVars, callVars>>

RetryGet(r) ==
    /\ pc[r] = "retry_get"
    /\ \/ /\ retries[target[r]] >= MaxRetries
          /\ ReturnErr(r, "max_retries")
          /\ UNCHANGED <<rowVars, logVars, eventVars, callVars>>
       \/ /\ retries[target[r]] < MaxRetries
          /\ Goto(r, "retry_increment")
          /\ UNCHANGED <<rowVars, logVars, eventVars, callVars, errVars>>
       \/ StatementFails(r)

RetryIncrement(r) ==
    /\ pc[r] = "retry_increment"
    /\ \/ /\ IncrementRetry(target[r])
          /\ Goto(r, "retry_set")
          /\ UNCHANGED <<logVars, eventVars, callVars, errVars>>
       \/ StatementFails(r)

\* Mutant: the failed test is simply run again.
RetrySetToTesting(r) ==
    /\ pc[r] = "retry_set"
    /\ UpdateStatus(target[r], "testing", "none")
    /\ Goto(r, "adv_get")
    /\ UNCHANGED <<logVars, eventVars, callVars, errVars>>

\* Mutant: the retry has a status the enumeration does not know.
RetrySetToUnknown(r) ==
    /\ pc[r] = "retry_set"
    /\ UpdateStatus(target[r], "retrying", "none")
    /\ Goto(r, "adv_get")
    /\ UNCHANGED <<logVars, eventVars, callVars, errVars>>

RetrySet(r) ==
    /\ pc[r] = "retry_set"
    /\ \/ /\ UpdateStatus(target[r], "researching", "none")
          /\ Goto(r, "adv_get")
          /\ UNCHANGED <<logVars, eventVars, callVars, errVars>>
       \/ StatementFails(r)

-----------------------------------------------------------------------------
(* The run route's loop.                                                   *)

\* Mutant: the loop stops one iteration early.
RunLoopShort(r) ==
    LET s == status[target[r]] IN
    /\ pc[r] = "run_loop"
    /\ iter' = [iter EXCEPT ![r] = @ + 1]
    /\ Goto(r, IF iter[r] + 1 >= RunIterations \/ IsTerminal(s) THEN "done" ELSE s)
    /\ UNCHANGED <<rowVars, logVars, eventVars, op, target, seen, score,
                   errVars>>

\* Mutant: only failed cycles leave the loop; a completed one falls back to
\* the first handler, as unwrap_or(0) does for a status it does not find.
RunLoopReentering(r) ==
    LET s == status[target[r]] IN
    /\ pc[r] = "run_loop"
    /\ iter' = [iter EXCEPT ![r] = @ + 1]
    /\ Goto(r, IF iter[r] >= RunIterations \/ s = "failed" THEN "done"
               ELSE IF s = "completed" THEN "detected" ELSE s)
    /\ UNCHANGED <<rowVars, logVars, eventVars, op, target, seen, score,
                   errVars>>

RunLoop(r) ==
    LET s == status[target[r]] IN
    /\ pc[r] = "run_loop"
    /\ \/ /\ iter[r] >= RunIterations
          /\ Goto(r, "done")
          /\ UNCHANGED iter
       \/ /\ iter[r] < RunIterations
          /\ iter' = [iter EXCEPT ![r] = @ + 1]
          /\ \/ Goto(r, IF IsTerminal(s) THEN "done" ELSE s)
             \/ DbMayFail /\ Goto(r, "done")
    /\ UNCHANGED <<rowVars, logVars, eventVars, op, target, seen, score,
                   errVars>>

-----------------------------------------------------------------------------
(* The stage handlers.                                                     *)

Answers == "answers" \in Inference
Silent  == "fails" \in Inference

\* run_inference answers: an analysis is stored.  It fails: nothing is.
DetectedStage(r) ==
    /\ pc[r] = "detected"
    /\ \/ /\ \/ Answers /\ AddEvidence(target[r], "analysis")
             \/ Silent /\ UNCHANGED evidence
          /\ Goto(r, "adv_get")
          /\ UNCHANGED <<rowVars, results, learned, eventVars, callVars,
                         errVars>>
       \/ StatementFails(r)

\* search_memory: found something, found nothing, or failed.
ResearchingStage(r) ==
    /\ pc[r] = "researching"
    /\ \/ /\ \/ AddEvidence(target[r], "vector_memory")
             \/ UNCHANGED evidence
          /\ Goto(r, "research_infer")
          /\ UNCHANGED <<rowVars, results, learned, eventVars, callVars,
                         errVars>>
       \/ StatementFails(r)

ResearchInfer(r) ==
    /\ pc[r] = "research_infer"
    /\ \/ /\ \/ Answers /\ AddEvidence(target[r], "llm_research")
             \/ Silent /\ AddEvidence(target[r], "system")
          /\ Goto(r, "adv_get")
          /\ UNCHANGED <<rowVars, results, learned, eventVars, callVars,
                         errVars>>
       \/ StatementFails(r)

EvidenceCount(c) ==
    evidence[c]["analysis"] + evidence[c]["vector_memory"]
        + evidence[c]["llm_research"] + evidence[c]["system"]

TotalTrust(c) ==
    LET Weight(s) == TrustTier[s] * evidence[c][s]
    IN  Weight("analysis") + Weight("vector_memory") + Weight("llm_research")
            + Weight("system")

\* min(1, avg_trust/5 + 0.2) >= 0.6, the bonus being 0.2 for any count >= 1.
TrustedOnAverage(c) == TotalTrust(c) >= 2 * EvidenceCount(c)

\* llm_confidence against min_confidence.  NaN is neither below it nor at
\* least it.
ScoreValues == {"low", "high", "nan"}

\* With an answer the mean of the two scores can fall on either side, since
\* the number read from the answer is not clamped, and "NaN" parses as one;
\* without an answer the score of the evidence stands.
Scores(c) ==
    {v \in ScoreValues :
        \/ v # "nan" /\ Answers
        \/ v = "nan" /\ "nan" \in Inference
        \/ v # "nan" /\ Silent /\ (v = "high") = TrustedOnAverage(c)}

VerifyingStage(r) ==
    LET c == target[r] IN
    /\ pc[r] = "verifying"
    /\ \/ /\ EvidenceCount(c) = 0
          /\ CallFailCycle(r, "no_sources")
          /\ UNCHANGED <<rowVars, logVars, eventVars, callVars>>
       \/ /\ EvidenceCount(c) > 0
          /\ \E v \in Scores(c) : score' = [score EXCEPT ![r] = v]
          /\ Goto(r, "verify_update")
          /\ UNCHANGED <<rowVars, logVars, eventVars, op, target, seen, iter,
                         errVars>>
       \/ StatementFails(r)

VerifyUpdate(r) ==
    /\ pc[r] = "verify_update"
    /\ \/ /\ confidence' = [confidence EXCEPT ![target[r]] = score[r]]
          /\ Goto(r, "verify_record")
          /\ UNCHANGED <<status, retries, reason, created, logVars, eventVars,
                         callVars, errVars>>
       \/ StatementFails(r)

\* Mutant: the score is recorded and ignored.
VerifyRecordIgnored(r) ==
    /\ pc[r] = "verify_record"
    /\ AddTestResult(target[r], "verifying", score[r] = "high")
    /\ Goto(r, "adv_get")
    /\ UNCHANGED <<rowVars, evidence, learned, eventVars, callVars, errVars>>

\* The outcome is recorded with >= and the handler fails the cycle with <.
VerifyRecord(r) ==
    /\ pc[r] = "verify_record"
    /\ \/ /\ AddTestResult(target[r], "verifying", score[r] = "high")
          /\ IF score[r] = "low"
             THEN CallFailCycle(r, "low_confidence")
             ELSE Goto(r, "adv_get") /\ UNCHANGED errVars
          /\ UNCHANGED <<rowVars, evidence, learned, eventVars, callVars>>
       \/ StatementFails(r)

\* A failed inference is recorded and the cycle advances all the same.
PracticingStage(r) ==
    /\ pc[r] = "practicing"
    /\ \/ /\ \/ Answers /\ AddTestResult(target[r], "practicing", TRUE)
             \/ Silent /\ AddTestResult(target[r], "practicing", FALSE)
          /\ Goto(r, "adv_get")
          /\ UNCHANGED <<rowVars, evidence, learned, eventVars, callVars,
                         errVars>>
       \/ StatementFails(r)

\* A failed inference counts as a passed test.
TestingStage(r) ==
    /\ pc[r] = "testing"
    /\ \/ /\ \/ /\ AddTestResult(target[r], "testing", TRUE)
                /\ Goto(r, "adv_get")
             \/ /\ Answers
                /\ AddTestResult(target[r], "testing", FALSE)
                /\ Goto(r, "test_failed")
          /\ UNCHANGED <<rowVars, evidence, learned, eventVars, callVars,
                         errVars>>
       \/ StatementFails(r)

TestFailed(r) ==
    /\ pc[r] = "test_failed"
    /\ \/ /\ retries[target[r]] < MaxRetries
          /\ Goto(r, "retry_get")
          /\ UNCHANGED <<rowVars, logVars, eventVars, callVars, errVars>>
       \/ /\ retries[target[r]] >= MaxRetries
          /\ CallFailCycle(r, "tests_failed")
          /\ UNCHANGED <<rowVars, logVars, eventVars, callVars>>
       \/ StatementFails(r)

\* Mutant: what was not answered is stored all the same.
ApplyingStageStoring(r) ==
    /\ pc[r] = "applying"
    /\ \/ Answers /\ AddTestResult(target[r], "applying", TRUE)
       \/ Silent /\ AddTestResult(target[r], "applying", FALSE)
    /\ Goto(r, "store_knowledge")
    /\ UNCHANGED <<rowVars, evidence, learned, eventVars, callVars, errVars>>

ApplyingStage(r) ==
    /\ pc[r] = "applying"
    /\ \/ /\ \/ /\ Answers
                /\ AddTestResult(target[r], "applying", TRUE)
                /\ Goto(r, "store_knowledge")
             \/ /\ Silent
                /\ AddTestResult(target[r], "applying", FALSE)
                /\ Goto(r, "adv_get")
          /\ UNCHANGED <<rowVars, evidence, learned, eventVars, callVars,
                         errVars>>
       \/ StatementFails(r)

\* insert_raw_with_embedding; its failure is only logged.
StoreKnowledge(r) ==
    /\ pc[r] = "store_knowledge"
    /\ \/ learned' = [learned EXCEPT ![target[r]] = @ + 1]
       \/ UNCHANGED learned
    /\ Goto(r, "adv_get")
    /\ UNCHANGED <<rowVars, evidence, results, eventVars, callVars, errVars>>

-----------------------------------------------------------------------------
(* Clients and faults.                                                     *)

EntryLabel == [o \in AllOps |->
    CASE o = "start" -> "start_count" [] o = "advance" -> "adv_get"
      [] o = "retry" -> "retry_get"   [] o = "run" -> "run_loop"]

\* A client knows the ids of existing rows; a start gets a fresh one.
Addressable(o, c) ==
    IF o = "start"
    THEN ~Exists(c) /\ \A r \in InFlight : ~(op[r] = "start" /\ target[r] = c)
    ELSE Exists(c)

Receive(r, o, c) ==
    /\ pc[r] = "idle"
    /\ Cardinality(InFlight) < MaxInFlight
    /\ Addressable(o, c)
    /\ op' = [op EXCEPT ![r] = o]
    /\ target' = [target EXCEPT ![r] = c]
    /\ Goto(r, EntryLabel[o])
    /\ UNCHANGED <<rowVars, logVars, eventVars, seen, iter, score, errVars>>

\* The future is dropped at the await of its label.
Abandon(r) ==
    /\ MayAbandon
    /\ r \in InFlight
    /\ Goto(r, "done")
    /\ UNCHANGED <<rowVars, logVars, eventVars, callVars, errVars>>

StartStep(r)   == StartCount(r) \/ StartInsert(r) \/ StartPublish(r)
AdvanceStep(r) == AdvGet(r) \/ AdvSet(r) \/ AdvPublish(r) \/ AdvExhaust(r)
                    \/ AdvExhaustPublish(r)
FailStep(r)    == FailSet(r) \/ FailPublish(r)
RetryStep(r)   == RetryGet(r) \/ RetryIncrement(r) \/ RetrySet(r)
StageStep(r)   == \/ DetectedStage(r) \/ ResearchingStage(r) \/ ResearchInfer(r)
                  \/ VerifyingStage(r) \/ VerifyUpdate(r) \/ VerifyRecord(r)
                  \/ PracticingStage(r) \/ TestingStage(r) \/ TestFailed(r)
                  \/ ApplyingStage(r) \/ StoreKnowledge(r)

Step(r) == \/ StartStep(r) \/ AdvanceStep(r) \/ FailStep(r) \/ RetryStep(r)
           \/ RunLoop(r) \/ StageStep(r)

Next ==
    \E r \in Requests :
        \/ \E o \in Ops, c \in Cycles : Receive(r, o, c)
        \/ Step(r)
        \/ Abandon(r)

Spec == Init /\ [][Next]_vars

-----------------------------------------------------------------------------
(* Type invariant.                                                         *)

RowTypeOK ==
    /\ status     \in [Cycles -> Statuses \cup {"absent"}]
    /\ retries    \in [Cycles -> Nat]
    /\ reason     \in [Cycles -> Reasons]
    /\ confidence \in [Cycles -> {"unset"} \cup ScoreValues]
    /\ created    \in Seq(Cycles)

LogTypeOK ==
    /\ evidence   \in [Cycles -> [Sources -> Nat]]
    /\ results    \in [Cycles -> SUBSET (Stages \X BOOLEAN)]
    /\ learned    \in [Cycles -> Nat]

EventTypeOK ==
    /\ announced  \in [Cycles -> Statuses \cup {"nothing"}]
    /\ missed     \in [Cycles -> BOOLEAN]

CallTypeOK ==
    /\ op      \in [Requests -> AllOps]
    /\ target  \in [Requests -> Cycles]
    /\ seen    \in [Requests -> Stages]
    /\ iter    \in [Requests -> Nat]
    /\ score   \in [Requests -> ScoreValues]

ControlTypeOK ==
    /\ pc      \in [Requests -> Labels]
    /\ cause   \in [Requests -> Reasons]
    /\ after   \in [Requests -> {"loop", "break"}]

\* Every column, event counter and local variable stays in its range.
TypeOK ==
    RowTypeOK /\ LogTypeOK /\ EventTypeOK /\ CallTypeOK /\ ControlTypeOK

\* A request past its INSERT, or aimed at a known id, has a row to work on.
RowExists ==
    \A r \in Requests :
        /\ pc[r] \in {"start_count", "start_insert", "start_publish"}
              => op[r] = "start"
        /\ pc[r] \notin Resting \cup {"start_count", "start_insert"}
              => Exists(target[r])

-----------------------------------------------------------------------------
(* Safety.                                                                 *)

\* A failed cycle tells why and no other cycle keeps an old reason, whatever
\* requests interleave, fail or die: update_status writes the two columns
\* together, and advancing or retrying clears the reason.
FailureExplained ==
    \A c \in Cycles : (status[c] = "failed") <=> (reason[c] # "none")

\* A cycle is past verifying only with a recorded, sufficient confidence.
ConfidenceGate ==
    \A c \in Cycles :
        status[c] \in {"practicing", "testing", "applying", "completed"}
            => confidence[c] = "high" /\ <<"verifying", TRUE>> \in results[c]

\* A cycle is applying or completed only after a test recorded as passed.
TestGate ==
    \A c \in Cycles :
        status[c] \in {"applying", "completed"}
            => <<"testing", TRUE>> \in results[c]

\* No stage that gates the rest is skipped: it holds while clients send start,
\* run and retry one at a time, even if statements fail and requests die
\* between any two of them.
StagesEarned == ConfidenceGate /\ TestGate

\* Knowledge is stored only behind both gates and an answer of the applying
\* stage: a test that was skipped for want of inference counts as passed, but
\* an outage that goes on stores nothing.
KnowledgeEarned ==
    \A c \in Cycles :
        learned[c] > 0 =>
            {<<stage, TRUE>> : stage \in {"verifying", "testing", "applying"}}
                \subseteq results[c]

\* retry_count never passes the limit, whatever fails or dies between the
\* increment and the statements after it.  Requests that run together may all
\* read the count before any of them increments it: each costs one retry more,
\* and the overrun does not add up over the requests that follow.
RetryBudget ==
    \A c \in Cycles : retries[c] < MaxRetries + MaxInFlight

\* When nothing runs, the last event a subscriber saw for a cycle names the
\* status its row has, unless the publication after it failed: a lost event is
\* made up for by the next one, and the return to researching, which has none
\* of its own, by the one that follows it.  It holds for a sequential client
\* whose requests all run to their end without a database error.
EventsAgreeAtRest ==
    InFlight = {} =>
        \A c \in Cycles :
            Exists(c) /\ ~missed[c] => announced[c] = status[c]

\* Two undisturbed run requests settle a cycle nobody advances or retries by
\* hand: six iterations each are enough for the first pass and every retry
\* the limit allows.
Done(c, o) == {r \in Requests : pc[r] = "done" /\ op[r] = o /\ target[r] = c}
SettledAfterTwoRuns ==
    InFlight = {} =>
        \A c \in Cycles :
            /\ Cardinality(Done(c, "run")) >= 2
            /\ Done(c, "advance") \cup Done(c, "retry") = {}
            => IsTerminal(status[c])

-----------------------------------------------------------------------------
(* Refinement.                                                             *)

\* Taken together, the statements of a sequential client's requests move a
\* row as LearningLifecycle says, although each write of a status is blind
\* and failures and dying requests may fall between any two statements.
Lifecycle == INSTANCE LearningLifecycle WITH
    Cycles <- Cycles, MaxRetries <- MaxRetries,
    status <- status, retries <- retries
LifecycleSpec == Lifecycle!Spec

-----------------------------------------------------------------------------
(* What a step may never do.                                               *)

\* An event is true when it is sent: it names the status the row has at that
\* moment, although it is published one statement after the UPDATE and from
\* the status read before it, and any statement may fail or die.  It holds
\* while clients send one request at a time.
EventsTrue ==
    [][\A c \in Cycles :
         announced'[c] # announced[c] => announced'[c] = status'[c]]_vars

\* A completed or failed cycle is reopened by retry_cycle alone; nothing else
\* moves it.
TerminalLeftByRetryOnly ==
    [][\A c \in Cycles :
         IsTerminal(status[c]) /\ status'[c] # status[c]
             => \E r \in Requests : pc[r] = "retry_set" /\ target[r] = c]_vars
=============================================================================
