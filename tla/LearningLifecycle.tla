-------------------------- MODULE LearningLifecycle -------------------------
(***************************************************************************)
(* What the self-learning loop promises about one cycle row: the stages    *)
(* are passed one at a time and in order, a cycle can be failed from       *)
(* anywhere, and it is taken back to researching only at the price of a    *)
(* retry, of which there are at most MaxRetries.  LearningCycles           *)
(* implements it as long as clients send one request at a time.            *)
(***************************************************************************)
EXTENDS Naturals, LearningStatus

CONSTANTS Cycles, MaxRetries
VARIABLES status, retries

Init ==
    /\ status  = [c \in Cycles |-> "absent"]
    /\ retries = [c \in Cycles |-> 0]

Create(c) ==
    /\ status[c] = "absent"
    /\ status' = [status EXCEPT ![c] = "detected"]
    /\ UNCHANGED retries

Advance(c) ==
    /\ status[c] \in Stages
    /\ retries[c] < MaxRetries
    /\ status' = [status EXCEPT ![c] = NextStatus[status[c]]]
    /\ UNCHANGED retries

Fail(c) ==
    /\ status[c] # "absent"
    /\ status' = [status EXCEPT ![c] = "failed"]
    /\ UNCHANGED retries

SpendRetry(c) ==
    /\ status[c] # "absent"
    /\ retries[c] < MaxRetries
    /\ retries' = [retries EXCEPT ![c] = @ + 1]
    /\ UNCHANGED status

Reopen(c) ==
    /\ retries[c] > 0
    /\ status' = [status EXCEPT ![c] = "researching"]
    /\ UNCHANGED retries

Next ==
    \E c \in Cycles :
        Create(c) \/ Advance(c) \/ Fail(c) \/ SpendRetry(c) \/ Reopen(c)

Spec == Init /\ [][Next]_<<status, retries>>
=============================================================================
