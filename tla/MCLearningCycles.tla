--------------------------- MODULE MCLearningCycles -------------------------
(* Model checking of LearningCycles: requests are interchangeable, and what *)
(* a finished request remembers decides nothing any more.                   *)
EXTENDS LearningCycles, TLC

RequestSymmetry == Permutations(Requests)

\* Two states that differ only in the memory of resting requests, or in a lost
\* event nobody asks for, are one.
LiveRequest(r) ==
    IF pc[r] \in Resting
    THEN <<pc[r]>>
    ELSE <<pc[r], op[r], target[r], seen[r], iter[r], score[r], cause[r],
           after[r]>>
LiveView ==
    <<rowVars, logVars, announced, [r \in Requests |-> LiveRequest(r)]>>

\* The same where the requests that are done, and lost events, count.
EndedRequest(r) ==
    IF pc[r] \in Resting THEN <<pc[r], op[r], target[r]>> ELSE LiveRequest(r)
EndedView ==
    <<rowVars, logVars, eventVars, [r \in Requests |-> EndedRequest(r)]>>
=============================================================================
