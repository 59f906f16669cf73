----------------------------- MODULE MCSseInfer -----------------------------
(* Model checking of SseInfer.  What an ended request remembers decides     *)
(* nothing any more, except what it sent and stored.                        *)
EXTENDS SseInfer

LiveRequest(r) ==
    IF pc[r] = "end"
    THEN <<"end", sent[r]>>
    ELSE <<pc[r], size[r], found[r], history[r], context[r], provider[r],
           events[r], full[r], sent[r]>>
EndedForgotten == <<messages, [r \in Requests |-> LiveRequest(r)]>>
=============================================================================
