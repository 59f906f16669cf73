---------------------------- MODULE AnswerPromise ---------------------------
(***************************************************************************)
(* What a client is promised that asks for an answer, over the WebSocket   *)
(* or by server-sent events: it is shown a text that grows until the text  *)
(* is final; what is kept of it for the next question is that text, whole; *)
(* it is told that the answer is complete only when the text is kept; and  *)
(* once it was told so, or of an error, or the task that answers is gone,  *)
(* nothing happens to the answer any more.  Those whose provider may end   *)
(* an answer twice are told twice that it is complete; they are named.     *)
(***************************************************************************)
EXTENDS Naturals, Sequences, TLAPS

CONSTANTS
    Askers,      \* questions, each asked at most once
    Forgetful,   \* those whose text may not be kept: the database may fail
    Repeating    \* those that may be told "complete" more than once

VARIABLES
    phase,   \* "none", "open", "final" or "over"
    shown,   \* the text the client was shown
    kept,    \* the texts stored for it
    told     \* "complete" and "error", as often as the client was told

answerVars == <<phase, shown, kept, told>>

Init ==
    /\ phase = [a \in Askers |-> "none"]
    /\ shown = [a \in Askers |-> <<>>]
    /\ kept  = [a \in Askers |-> {}]
    /\ told  = [a \in Askers |-> <<>>]

Enter(a, from, to) == phase[a] \in from /\ phase' = [phase EXCEPT ![a] = to]

Ask(a) == Enter(a, {"none"}, "open") /\ UNCHANGED <<shown, kept, told>>

\* The text grows by one piece, whatever it is.
Show(a) ==
    /\ Enter(a, {"open"}, "open")
    /\ shown' = [shown EXCEPT ![a] = shown'[a]]
    /\ Len(shown'[a]) = Len(shown[a]) + 1
    /\ SubSeq(shown'[a], 1, Len(shown[a])) = shown[a]
    /\ UNCHANGED <<kept, told>>

Finish(a) == Enter(a, {"open"}, "final") /\ UNCHANGED <<shown, kept, told>>

Keep(a) ==
    /\ Enter(a, {"final"}, "final")
    /\ kept' = [kept EXCEPT ![a] = @ \cup {shown[a]}]
    /\ UNCHANGED <<shown, told>>

\* The answer is over with this, unless it may be told again.
Complete(a) ==
    /\ Enter(a, {"final"}, IF a \in Repeating THEN "final" ELSE "over")
    /\ kept[a] # {} \/ a \in Forgetful
    /\ told' = [told EXCEPT ![a] = Append(@, "complete")]
    /\ UNCHANGED <<shown, kept>>

Fail(a) ==
    /\ Enter(a, {"open", "final"}, "over")
    /\ told' = [told EXCEPT ![a] = Append(@, "error")]
    /\ UNCHANGED <<shown, kept>>

\* Tasks are gone without a word: the client left, a task or the server died.
Lose ==
    /\ \E lost \in SUBSET Askers :
          phase' = [a \in Askers |-> IF a \in lost /\ phase[a] # "none"
                                     THEN "over" ELSE phase[a]]
    /\ UNCHANGED <<shown, kept, told>>

Next ==
    \/ \E a \in Askers : Ask(a) \/ Show(a) \/ Finish(a) \/ Keep(a)
                            \/ Complete(a) \/ Fail(a)
    \/ Lose

Spec == Init /\ [][Next]_answerVars

-----------------------------------------------------------------------------
(* What the promise means to a client.                                     *)

\* A client that is told "complete" finds the text it was shown, and no other,
\* unless nothing could be kept.
CompleteIsKept ==
    \A a \in Askers :
        /\ kept[a] \subseteq {shown[a]}
        /\ \A i \in DOMAIN told[a] : told[a][i] = "complete"
              => kept[a] # {} \/ a \in Forgetful

\* A client is told one thing about its answer, and nothing after it.  One
\* that may be told "complete" again is told nothing after an error.
LastWord ==
    \A a \in Askers : \A i \in DOMAIN told[a] :
        told[a][i] = "error" \/ a \notin Repeating => i = Len(told[a])

Asked(a) ==
    /\ told[a] \in Seq({"complete", "error"})
    /\ phase[a] \in {"none", "open"} => kept[a] = {} /\ told[a] = <<>>
    /\ phase[a] = "final" => \A i \in DOMAIN told[a] :
          told[a][i] = "complete" /\ a \in Repeating

PromiseInv ==
    /\ phase \in [Askers -> {"none", "open", "final", "over"}]
    /\ shown = [a \in Askers |-> shown[a]]
    /\ kept = [a \in Askers |-> kept[a]]
    /\ told = [a \in Askers |-> told[a]]
    /\ \A a \in Askers : Asked(a)
    /\ CompleteIsKept /\ LastWord

LEMMA NextPromise ==
    ASSUME PromiseInv, [Next]_answerVars
    PROVE  PromiseInv'
  <1> USE DEF PromiseInv
  <1>1. CASE UNCHANGED answerVars
    BY <1>1 DEF answerVars, Asked, CompleteIsKept, LastWord
  <1>2. CASE Lose
    BY <1>2 DEF Lose, Asked, CompleteIsKept, LastWord
  <1>3. ASSUME NEW a \in Askers,
               Ask(a) \/ Show(a) \/ Finish(a) \/ Keep(a)
        PROVE  PromiseInv'
    <2>1. /\ UNCHANGED told
          /\ \A b \in Askers \ {a} :
                /\ phase'[b] = phase[b] /\ shown'[b] = shown[b]
                /\ kept'[b] = kept[b]
          /\ phase' \in [Askers -> {"none", "open", "final", "over"}]
          /\ shown' = [b \in Askers |-> shown'[b]]
          /\ kept' = [b \in Askers |-> kept'[b]]
      BY <1>3 DEF Ask, Show, Finish, Keep, Enter
    <2>2. /\ Asked(a)'
          /\ kept'[a] \subseteq {shown'[a]} /\ kept[a] \subseteq kept'[a]
      <3>1. CASE Ask(a) \/ Show(a) \/ Finish(a)
        BY <2>1, <3>1 DEF Ask, Show, Finish, Enter, Asked, CompleteIsKept
      <3>2. CASE Keep(a)
        BY <2>1, <3>2 DEF Keep, Enter, Asked, CompleteIsKept
      <3> QED
        BY <1>3, <3>1, <3>2
    <2>3. \A b \in Askers : Asked(b)'
      BY <2>1, <2>2 DEF Asked
    <2>4. CompleteIsKept' /\ LastWord'
      BY <2>1, <2>2 DEF CompleteIsKept, LastWord
    <2> QED
      BY <2>1, <2>3, <2>4
  <1>4. ASSUME NEW a \in Askers, NEW what \in {"complete", "error"},
               told' = [told EXCEPT ![a] = Append(@, what)],
               what = "error" \/ a \notin Repeating => phase'[a] = "over",
               what = "complete" => kept[a] # {} \/ a \in Forgetful,
               \E to \in {"final", "over"} : Enter(a, {"open", "final"}, to),
               \A i \in DOMAIN told[a] :
                  told[a][i] = "complete" /\ a \in Repeating,
               UNCHANGED <<shown, kept>>
        PROVE  PromiseInv'
    <2>1. /\ told'[a] \in Seq({"complete", "error"})
          /\ Len(told'[a]) = Len(told[a]) + 1
          /\ DOMAIN told[a] = 1..Len(told[a])
          /\ DOMAIN told'[a] = 1..(Len(told[a]) + 1)
          /\ \A i \in DOMAIN told[a] : told'[a][i] = told[a][i]
          /\ told'[a][Len(told[a]) + 1] = what
      BY <1>4 DEF Asked
    <2>2. /\ phase'[a] \in {"final", "over"}
          /\ \A b \in Askers \ {a} : phase'[b] = phase[b] /\ told'[b] = told[b]
          /\ phase' \in [Askers -> {"none", "open", "final", "over"}]
      BY <1>4 DEF Enter
    <2>3. Asked(a)'
      BY <1>4, <2>1, <2>2 DEF Asked
    <2>4. CompleteIsKept' /\ LastWord'
      BY <1>4, <2>1, <2>2 DEF CompleteIsKept, LastWord
    <2>5. \A b \in Askers \ {a} : Asked(b)'
      BY <1>4, <2>2 DEF Asked
    <2>6. /\ shown' = [b \in Askers |-> shown'[b]]
          /\ kept' = [b \in Askers |-> kept'[b]]
          /\ told' = [b \in Askers |-> told'[b]]
      BY <1>4
    <2> QED
      BY <2>2, <2>3, <2>4, <2>5, <2>6
  <1>5. ASSUME NEW a \in Askers, Complete(a) \/ Fail(a)
        PROVE  PromiseInv'
    <2>1. \A i \in DOMAIN told[a] :
             told[a][i] = "complete" /\ a \in Repeating
      BY <1>5 DEF Complete, Fail, Enter, Asked
    <2>2. CASE Complete(a)
      BY <1>4, <2>1, <2>2 DEF Complete, Enter
    <2>3. CASE Fail(a)
      BY <1>4, <2>1, <2>3 DEF Fail, Enter
    <2> QED
      BY <1>5, <2>2, <2>3
  <1> QED
    BY <1>1, <1>2, <1>3, <1>5 DEF Next

\* Whatever implements the promise keeps what it tells the client: complete is
\* said of a text that is kept as it was shown, and what a client is told is
\* the last word, except where "complete" may be repeated.
THEOREM PromiseHolds == Spec => [](CompleteIsKept /\ LastWord)
  <1>1. Init => PromiseInv
    BY DEF Init, PromiseInv, Asked, CompleteIsKept, LastWord
  <1>2. PromiseInv /\ [Next]_answerVars => PromiseInv'
    BY NextPromise
  <1>3. PromiseInv => CompleteIsKept /\ LastWord
    BY DEF PromiseInv
  <1> QED
    BY <1>1, <1>2, <1>3, PTL DEF Spec
=============================================================================
