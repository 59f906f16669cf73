----------------------------- MODULE MCServerLife ---------------------------
(* Model checking of ServerLife: a server with a key, one without, a local  *)
(* one, one whose backend nobody knows, and one whose port is not a number. *)
EXTENDS ServerLife

Setting(p, b, k) == [portParses |-> p, backend |-> b, apiKey |-> k]
AllSettings ==
    {Setting(TRUE, "openai", TRUE), Setting(TRUE, "openai", FALSE),
     Setting(TRUE, "local", FALSE), Setting(TRUE, "other", TRUE),
     Setting(FALSE, "openai", TRUE)}
=============================================================================
