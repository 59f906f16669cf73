--------------------------- MODULE LearningStatus ---------------------------
(***************************************************************************)
(* The status enumeration of a learning cycle (LearningCycleStatus and the *)
(* Postgres enum learning_cycle_status), with its successor function.      *)
(***************************************************************************)

Stages == {"detected", "researching", "verifying", "practicing", "testing",
           "applying"}
TerminalStatus == {"completed", "failed"}
Statuses == Stages \cup TerminalStatus

\* LearningCycleStatus::next, defined on the stages only.
NextStatus ==
    [s \in Stages |->
        CASE s = "detected"    -> "researching"
          [] s = "researching" -> "verifying"
          [] s = "verifying"   -> "practicing"
          [] s = "practicing"  -> "testing"
          [] s = "testing"     -> "applying"
          [] s = "applying"    -> "completed"]

IsTerminal(s) == s \in TerminalStatus
=============================================================================
