--------------------------- MODULE MCContextWeaver --------------------------
(* Model checking of the memory and the weaver that reads it: ids, clients  *)
(* and weavers are interchangeable, and what a finished client remembers,   *)
(* its outcome included, decides nothing any more.                          *)
EXTENDS ContextWeaver, TLC

WeaveSymmetry ==
    Permutations(Entries) \cup Permutations(Clients) \cup Permutations(Weavers)

LiveClient(k) ==
    IF pc[k] \in Resting
    THEN <<pc[k] = "idle">>
    ELSE <<pc[k], entry[k], ids[k], todo[k], first[k], second[k], patch[k]>>
LiveView ==
    <<rowVars, loop, weaverVars, [k \in Clients |-> LiveClient(k)]>>
=============================================================================
