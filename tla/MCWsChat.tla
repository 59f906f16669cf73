------------------------------ MODULE MCWsChat ------------------------------
(* Model checking of WsChat: turns are interchangeable, and so are sessions *)
(* and connections.                                                         *)
EXTENDS WsChat, TLC

Call(tool, arguments) == [tool |-> tool, arguments |-> arguments]
Write == Call("memory_write", {"content"})

\* A call that may fail; with it, one that may panic and one that is unknown.
OneCall == {Write}
ThreeCalls ==
    {Write, Call("code_execute", {"code", "language"}), Call("unknown", {})}

ChatSymmetry ==
    Permutations(Turns) \cup Permutations(Sessions) \cup Permutations(Conns)
=============================================================================
