----------------------- MODULE InferenceEngine_proofs -----------------------
(***************************************************************************)
(* Theorems about InferenceEngine and ResponseCache, for any calls, keys   *)
(* and limits, each proved through an inductive invariant.                 *)
(***************************************************************************)
EXTENDS InferenceEngine, FiniteSetTheorems, TLAPS

USE DEF cacheVars, callVars

-----------------------------------------------------------------------------
(* Types.                                                                  *)

\* A retry counts an attempt or a hint and goes back to the request; giving
\* up counts nothing.
LEMMA ErrorCounts ==
    ASSUME TypeOK, NEW c \in Calls, Error(c)
    PROVE  \/ /\ pc' = [pc EXCEPT ![c] = "request"]
              /\ \/ /\ attempt[c] < MaxRetries
                    /\ attempt' = [attempt EXCEPT ![c] = attempt[c] + 1]
                    /\ hints' = hints
                 \/ /\ attempt' = attempt
                    /\ hints' = [hints EXCEPT ![c] = hints[c] + 1]
           \/ /\ pc' = [pc EXCEPT ![c] = "failed"]
              /\ UNCHANGED <<attempt, hints>>
  <1>1. PICK e \in Errors : Retry(c, e) \/ GiveUp(c, e)
    BY DEF Error
  <1>2. CASE GiveUp(c, e)
    BY <1>2 DEF GiveUp, Goto
  <1>3. CASE Retry(c, e)
    <2>1. attempt \in [Calls -> 0..MaxRetries] /\ hints \in [Calls -> Nat]
      BY DEF TypeOK
    <2>2. CASE e = "plain"
      <3>1. hints' = [hints EXCEPT ![c] = @]
        BY <1>3, <2>2 DEF Retry
      <3>2. hints' = hints
        BY <2>1, <3>1
      <3> QED
        BY <1>3, <2>2, <3>2 DEF Retry, HasRetriesLeft, Goto
    <2>3. CASE e # "plain"
      <3>1. e = "hinted"
        BY <1>3, <2>3 DEF Retry, ShouldRetry, Errors
      <3>2. attempt' = [attempt EXCEPT ![c] = @]
        BY <1>3, <2>3 DEF Retry
      <3>3. attempt' = attempt
        BY <2>1, <3>2
      <3> QED
        BY <1>3, <3>1, <3>3 DEF Retry, Goto
    <2> QED
      BY <2>2, <2>3
  <1> QED
    BY <1>1, <1>2, <1>3

\* What an insertion may leave of the cached keys.
LEMMA InsertKeeps ==
    ASSUME NEW k \in Keys, NEW v, Insert(k, v)
    PROVE  \E kept \in SUBSET cached :
              /\ cached' = kept \cup {k}
              /\ stale'  = (stale \cap kept) \ {k}
              /\ value'  = [value EXCEPT ![k] = v]
              /\ \/ kept = cached /\ ~Full(cached)
                 \/ kept = cached \ stale /\ ~Full(cached \ stale)
                 \/ /\ Full(cached \ stale)
                    /\ \E x \in cached \ stale : kept = (cached \ stale) \ {x}
  <1>1. PICK kept \in MakeRoom :
             /\ cached' = kept \cup {k}
             /\ stale'  = (stale \cap kept) \ {k}
             /\ value'  = [value EXCEPT ![k] = v]
    BY DEF Insert
  <1>2. CASE ~Full(cached)
    BY <1>1, <1>2 DEF MakeRoom
  <1>3. CASE Full(cached) /\ ~Full(cached \ stale)
    BY <1>1, <1>3 DEF MakeRoom
  <1>4. CASE Full(cached) /\ Full(cached \ stale)
    <2>1. MakeRoom = {(cached \ stale) \ {x} : x \in cached \ stale}
      BY <1>4 DEF MakeRoom
    <2> QED
      BY <1>1, <1>4, <2>1
  <1> QED
    BY <1>2, <1>3, <1>4

LEMMA TypeInit == Init => TypeOK
  BY EngineAssumption
     DEF Init, CacheInit, NoValue, TypeOK, Labels, Deltas

LEMMA TypeStep == TypeOK /\ [Next]_vars => TypeOK'
  <1> SUFFICES ASSUME TypeOK, [Next]_vars
               PROVE  TypeOK'
    OBVIOUS
  <1> USE EngineAssumption DEF TypeOK, Labels
  <1>1. CASE UNCHANGED vars
    BY <1>1 DEF vars
  <1>2. CASE Expire /\ UNCHANGED callVars
    BY <1>2 DEF Expire
  <1>3. ASSUME NEW c \in Calls, NEW o \in {"infer", "stream"}, Begin(c, o)
        PROVE  TypeOK'
    BY <1>3 DEF Begin, Goto
  <1>4. ASSUME NEW c \in Calls, Lookup(c)
        PROVE  TypeOK'
    BY <1>4 DEF Lookup, Goto
  <1>5. ASSUME NEW c \in Calls, HealthCheck(c)
        PROVE  TypeOK'
    BY <1>5 DEF HealthCheck, Goto
  <1>6. ASSUME NEW c \in Calls, Request(c)
        PROVE  TypeOK'
    <2>1. CASE Error(c) /\ UNCHANGED <<content, tokensUsed>>
      BY <1>6, <2>1, ErrorCounts DEF Request
    <2> QED
      BY <1>6, <2>1 DEF Request, Goto
  <1>7. ASSUME NEW c \in Calls, ReceiveDelta(c)
        PROVE  TypeOK'
    <2>1. NextDelta(c) \in Deltas
      BY DEF NextDelta, Deltas
    <2>2. content' = [content EXCEPT ![c] = @ \cup {NextDelta(c)}]
      BY <1>7 DEF ReceiveDelta
    <2>3. content' \in [Calls -> SUBSET Deltas]
      BY <2>1, <2>2
    <2> QED
      BY <1>7, <2>3 DEF ReceiveDelta
  <1>8. ASSUME NEW c \in Calls, StreamEnds(c)
        PROVE  TypeOK'
    BY <1>8 DEF StreamEnds, Goto
  <1>9. ASSUME NEW c \in Calls, StreamError(c)
        PROVE  TypeOK'
    BY <1>9, ErrorCounts DEF StreamError
  <1>10. ASSUME NEW c \in Calls, InsertAnswer(c)
         PROVE  TypeOK'
    <2>1. key[c] \in Keys /\ content[c] \in SUBSET Deltas
      OBVIOUS
    <2>2. cached' \subseteq Keys /\ stale' \subseteq cached'
          /\ value' \in [Keys -> SUBSET Deltas]
      BY <1>10, <2>1, InsertKeeps DEF InsertAnswer
    <2> QED
      BY <1>10, <2>2 DEF InsertAnswer, Goto
  <1>11. ASSUME NEW c \in Calls, Abandon(c)
         PROVE  TypeOK'
    BY <1>11 DEF Abandon, Goto
  <1> QED
    BY <1>1, <1>2, <1>3, <1>4, <1>5, <1>6, <1>7, <1>8, <1>9, <1>10, <1>11
       DEF Next, Step

\* TypeOK, for any number of calls and keys and any limits.
THEOREM TypeCorrect == Spec => []TypeOK
  BY TypeInit, TypeStep, PTL DEF Spec

-----------------------------------------------------------------------------
(* The number of requests.                                                 *)

\* Each request beyond the counted attempts is the one that goes on now.
Counted(c) ==
    /\ requests[c] <= attempt[c] + hints[c] + 1
    /\ pc[c] \in {"idle", "lookup", "health", "request"}
          => requests[c] <= attempt[c] + hints[c]
CountInv == \A c \in Calls : Counted(c)

LEMMA CountStep == TypeOK /\ CountInv /\ [Next]_vars => CountInv'
  <1> SUFFICES ASSUME TypeOK, CountInv, [Next]_vars, NEW d \in Calls
               PROVE  Counted(d)'
    BY DEF CountInv
  <1> USE DEF CountInv, Counted, TypeOK
  <1>1. CASE UNCHANGED vars
    BY <1>1 DEF vars
  <1>2. CASE Expire /\ UNCHANGED callVars
    BY <1>2
  <1>3. ASSUME NEW c \in Calls, NEW o \in {"infer", "stream"}, Begin(c, o)
        PROVE  Counted(d)'
    BY <1>3 DEF Begin, Goto
  <1>4. ASSUME NEW c \in Calls,
               \/ Lookup(c) \/ HealthCheck(c) \/ ReceiveDelta(c)
               \/ StreamEnds(c) \/ InsertAnswer(c) \/ Abandon(c)
        PROVE  Counted(d)'
    BY <1>4
       DEF Lookup, HealthCheck, ReceiveDelta, StreamEnds, InsertAnswer,
           Abandon, Goto
  <1>5. ASSUME NEW c \in Calls, Request(c)
        PROVE  Counted(d)'
    <2>1. CASE Error(c)
      BY <1>5, <2>1, ErrorCounts DEF Request
    <2>2. CASE ~Error(c)
      BY <1>5, <2>2 DEF Request, Goto
    <2> QED
      BY <2>1, <2>2
  <1>6. ASSUME NEW c \in Calls, StreamError(c)
        PROVE  Counted(d)'
    BY <1>6, ErrorCounts DEF StreamError
  <1> QED
    BY <1>1, <1>2, <1>3, <1>4, <1>5, <1>6 DEF Next, Step

\* RequestBound: for any schedule of errors, a call that met no hint sends no
\* more requests than the limit allows.
THEOREM RequestsBounded == Spec => []RequestBound
  <1>1. Init => CountInv
    BY DEF Init, CountInv, Counted
  <1>2. TypeOK /\ CountInv => RequestBound
    BY EngineAssumption DEF TypeOK, CountInv, Counted, RequestBound
  <1> QED
    BY TypeCorrect, CountStep, <1>1, <1>2, PTL DEF Spec

-----------------------------------------------------------------------------
(* The text of an answer.                                                  *)

\* What a call has gathered is what its current request has brought, and a
\* call whose stream ended does not touch its text any more.
Gathered(c) ==
    /\ pc[c] \in {"idle", "lookup", "health", "request", "stream"}
          => ended[c] = 0
    /\ pc[c] = "stream" =>
          /\ requests[c] > 0
          /\ content[c] = {<<c, requests[c], n>> : n \in 1..tokensUsed[c]}
    /\ pc[c] = "insert" => ended[c] # 0 /\ content[c] = WholeAnswer(c)

CachedWhole ==
    \A k \in cached :
        \E d \in Calls : key[d] = k /\ ended[d] # 0 /\ value[k] = WholeAnswer(d)

WholeInv == CachedWhole /\ AnswersWhole /\ \A c \in Calls : Gathered(c)

\* An answer once whole stays as it is, and the keys are never changed.
EndedStays ==
    /\ key' = key
    /\ \A d \in Calls : ended[d] # 0 =>
          ended'[d] # 0 /\ WholeAnswer(d)' = WholeAnswer(d)

LEMMA EndedFrame ==
    ASSUME WholeInv, TypeOK, [Next]_vars
    PROVE  EndedStays
  <1> SUFFICES ASSUME NEW d \in Calls, ended[d] # 0
               PROVE  ended'[d] = ended[d] /\ tokensUsed'[d] = tokensUsed[d]
    <2>1. key' = key
      BY DEF Next, Step, Begin, Lookup, HealthCheck, Request, ReceiveDelta,
             StreamEnds, StreamError, InsertAnswer, Abandon, vars
    <2> QED
      BY <2>1 DEF EndedStays, WholeAnswer
  <1>1. pc[d] \notin {"idle", "lookup", "health", "request", "stream"}
    BY DEF WholeInv, Gathered
  <1> QED
    BY <1>1
       DEF Next, Step, Begin, Lookup, HealthCheck, Request, ReceiveDelta,
           StreamEnds, StreamError, InsertAnswer, Abandon, vars, TypeOK

\* Steps that neither fill the cache nor return an answer.
LEMMA WholeKept ==
    ASSUME WholeInv, TypeOK, EndedStays,
           cached' \subseteq cached, value' = value,
           \A c \in Calls : pc'[c] = "done" =>
               pc[c] = "done" /\ answer'[c] = answer[c]
    PROVE  (CachedWhole /\ AnswersWhole)'
  <1>1. CachedWhole'
    BY DEF WholeInv, CachedWhole, EndedStays
  <1>2. AnswersWhole'
    BY DEF WholeInv, AnswersWhole, EndedStays
  <1> QED
    BY <1>1, <1>2

\* One step adds one delta to the text.
LEMMA DeltaAdded ==
    ASSUME NEW c, NEW r, NEW n \in Nat
    PROVE  {<<c, r, i>> : i \in 1..n} \cup {<<c, r, n + 1>>}
               = {<<c, r, i>> : i \in 1..(n + 1)}
  <1>1. \A i : i \in 1..(n + 1) <=> i \in 1..n \/ i = n + 1
    OBVIOUS
  <1> QED
    BY <1>1

LEMMA GatheredStep ==
    ASSUME WholeInv, TypeOK, [Next]_vars, NEW d \in Calls
    PROVE  Gathered(d)'
  <1> USE DEF Gathered, TypeOK
  <1>0. Gathered(d)
    BY DEF WholeInv
  <1>1. CASE UNCHANGED vars
    BY <1>0, <1>1 DEF vars, WholeAnswer
  <1>2. CASE Expire /\ UNCHANGED callVars
    BY <1>0, <1>2 DEF WholeAnswer
  <1>3. ASSUME NEW c \in Calls,
               \/ \E o \in {"infer", "stream"} : Begin(c, o)
               \/ Lookup(c) \/ HealthCheck(c) \/ InsertAnswer(c) \/ Abandon(c)
        PROVE  Gathered(d)'
    <2>1. /\ UNCHANGED <<requests, content, tokensUsed, ended>>
          /\ \/ pc'[d] = pc[d]
             \/ pc'[d] \in {"lookup", "health", "request", "done", "failed",
                            "gone"} /\ pc[d] # "gone"
          /\ pc'[d] \in {"lookup", "health", "request"} =>
                pc[d] \in {"idle", "lookup", "health", "request"}
      BY <1>3 DEF Begin, Lookup, HealthCheck, InsertAnswer, Abandon, Goto,
                  Resting
    <2> QED
      BY <1>0, <2>1 DEF WholeAnswer
  <1>4. ASSUME NEW c \in Calls, Request(c)
        PROVE  Gathered(d)'
    <2>1. CASE c # d
      <3>1. /\ pc'[d] = pc[d] /\ requests'[d] = requests[d]
            /\ content'[d] = content[d] /\ tokensUsed'[d] = tokensUsed[d]
            /\ ended' = ended
        BY <1>4, <2>1, ErrorCounts DEF Request, Goto
      <3> QED
        BY <1>0, <3>1 DEF WholeAnswer
    <2>2. CASE c = d /\ Error(d)
      <3>1. pc'[d] \in {"request", "failed"} /\ ended' = ended
        BY <1>4, <2>2, ErrorCounts DEF Request
      <3> QED
        BY <1>0, <1>4, <2>2, <3>1 DEF Request
    <2>3. CASE c = d /\ ~Error(d)
      <3>1. /\ pc'[d] = "stream" /\ ended' = ended /\ pc[d] = "request"
            /\ content'[d] = {} /\ tokensUsed'[d] = 0
            /\ requests'[d] = requests[d] + 1
        BY <1>4, <2>3 DEF Request, Goto
      <3>2. {<<d, requests'[d], n>> : n \in 1..0} = {}
        OBVIOUS
      <3> QED
        BY <1>0, <3>1, <3>2
    <2> QED
      BY <2>1, <2>2, <2>3
  <1>5. ASSUME NEW c \in Calls, ReceiveDelta(c)
        PROVE  Gathered(d)'
    <2>1. UNCHANGED <<pc, requests, ended>> /\ pc[c] = "stream"
      BY <1>5 DEF ReceiveDelta
    <2>2. CASE c # d
      BY <1>0, <1>5, <2>1, <2>2 DEF ReceiveDelta, WholeAnswer
    <2>3. CASE c = d
      <3>1. content' = [content EXCEPT ![d] = @ \cup {NextDelta(d)}]
        BY <1>5, <2>3 DEF ReceiveDelta
      <3>2. tokensUsed' = [tokensUsed EXCEPT ![d] = @ + 1]
        BY <1>5, <2>3 DEF ReceiveDelta
      <3>3. /\ content'[d] = content[d] \cup {NextDelta(d)}
            /\ tokensUsed'[d] = tokensUsed[d] + 1
        BY <3>1, <3>2
      <3>4. content'[d] =
               {<<d, requests[d], n>> : n \in 1..(tokensUsed[d] + 1)}
        <4>1. tokensUsed[d] \in Nat
          BY EngineAssumption
        <4>2. content[d] = {<<d, requests[d], n>> : n \in 1..tokensUsed[d]}
          BY <1>0, <2>1, <2>3
        <4> QED
          BY <3>3, <4>1, <4>2, DeltaAdded DEF NextDelta
      <3> QED
        BY <1>0, <2>1, <2>3, <3>3, <3>4
    <2> QED
      BY <2>2, <2>3
  <1>6. ASSUME NEW c \in Calls, StreamEnds(c)
        PROVE  Gathered(d)'
    <2>1. UNCHANGED <<requests, content, tokensUsed>> /\ pc[c] = "stream"
      BY <1>6 DEF StreamEnds
    <2>2. CASE c # d
      <3>1. pc'[d] = pc[d] /\ ended'[d] = ended[d]
        BY <1>6, <2>2 DEF StreamEnds, Goto
      <3> QED
        BY <1>0, <2>1, <3>1 DEF WholeAnswer
    <2>3. CASE c = d
      <3>1. pc'[d] \in {"insert", "done"} /\ ended'[d] = requests[d]
        BY <1>6, <2>3 DEF StreamEnds, Goto
      <3> QED
        BY <1>0, <2>1, <2>3, <3>1 DEF WholeAnswer
    <2> QED
      BY <2>2, <2>3
  <1>7. ASSUME NEW c \in Calls, StreamError(c)
        PROVE  Gathered(d)'
    <2>1. UNCHANGED <<requests, content, tokensUsed, ended>> /\ pc[c] = "stream"
      BY <1>7 DEF StreamError
    <2>2. pc'[d] = pc[d] \/ (c = d /\ pc'[d] \in {"request", "failed"})
      BY <1>7, ErrorCounts DEF StreamError
    <2> QED
      BY <1>0, <2>1, <2>2 DEF WholeAnswer
  <1> QED
    BY <1>1, <1>2, <1>3, <1>4, <1>5, <1>6, <1>7 DEF Next, Step

LEMMA WholeStep == TypeOK /\ WholeInv /\ [Next]_vars => WholeInv'
  <1> SUFFICES ASSUME TypeOK, WholeInv, [Next]_vars
               PROVE  (CachedWhole /\ AnswersWhole)'
    BY GatheredStep DEF WholeInv
  <1>1. EndedStays
    BY EndedFrame
  <1>2. CASE UNCHANGED vars \/ (Expire /\ UNCHANGED callVars)
    BY <1>1, <1>2, WholeKept DEF vars, Expire
  <1>3. ASSUME NEW c \in Calls,
               \/ \E o \in {"infer", "stream"} : Begin(c, o)
               \/ HealthCheck(c) \/ ReceiveDelta(c) \/ Abandon(c)
        PROVE  (CachedWhole /\ AnswersWhole)'
    <2>1. UNCHANGED <<cached, value, answer>>
          /\ \A d \in Calls : pc'[d] = "done" => pc[d] = "done"
      BY <1>3 DEF Begin, HealthCheck, ReceiveDelta, Abandon, Goto, TypeOK
    <2> QED
      BY <1>1, <2>1, WholeKept
  <1>4. ASSUME NEW c \in Calls, Request(c) \/ StreamError(c)
        PROVE  (CachedWhole /\ AnswersWhole)'
    <2>1. UNCHANGED <<cached, value, answer>>
      BY <1>4 DEF Request, StreamError
    <2>2. \A d \in Calls : pc'[d] = "done" => pc[d] = "done"
      BY <1>4, ErrorCounts DEF Request, StreamError, Goto, TypeOK
    <2> QED
      BY <1>1, <2>1, <2>2, WholeKept
  <1>5. ASSUME NEW c \in Calls, Lookup(c)
        PROVE  (CachedWhole /\ AnswersWhole)'
    <2>1. CASE ~Hit(key[c])
      <3>1. UNCHANGED <<cached, value, answer>>
            /\ \A d \in Calls : pc'[d] = "done" => pc[d] = "done"
        BY <1>5, <2>1 DEF Lookup, Goto, TypeOK
      <3> QED
        BY <1>1, <3>1, WholeKept
    <2>2. CASE Hit(key[c])
      <3>1. UNCHANGED <<cached, value>> /\ answer'[c] = value[key[c]]
            /\ \A d \in Calls \ {c} :
                  pc'[d] = pc[d] /\ answer'[d] = answer[d]
        BY <1>5, <2>2 DEF Lookup, Goto, TypeOK
      <3>2. CachedWhole'
        BY <1>1, <3>1 DEF WholeInv, CachedWhole, EndedStays
      <3>3. PICK d \in Calls : /\ key[d] = key[c] /\ ended[d] # 0
                               /\ value[key[c]] = WholeAnswer(d)
        BY <2>2 DEF WholeInv, CachedWhole, Hit
      <3>4. AnswersWhole'
        <4> SUFFICES ASSUME NEW b \in Calls, pc'[b] = "done"
                     PROVE  \E a \in Calls :
                               /\ key'[a] = key'[b] /\ ended'[a] # 0
                               /\ answer'[b] = WholeAnswer(a)'
          BY DEF AnswersWhole
        <4>1. CASE b = c
          BY <1>1, <3>1, <3>3, <4>1 DEF EndedStays
        <4>2. CASE b # c
          BY <1>1, <3>1, <4>2 DEF EndedStays, WholeInv, AnswersWhole
        <4> QED
          BY <4>1, <4>2
      <3> QED
        BY <3>2, <3>4
    <2> QED
      BY <2>1, <2>2
  <1>6. ASSUME NEW c \in Calls, StreamEnds(c)
        PROVE  (CachedWhole /\ AnswersWhole)'
    <2>1. /\ UNCHANGED <<cached, value, content, tokensUsed>>
          /\ pc[c] = "stream"
          /\ ended'[c] = requests[c]
          /\ \A d \in Calls \ {c} : pc'[d] = pc[d] /\ answer'[d] = answer[d]
          /\ pc'[c] = "done" => answer'[c] = content[c]
      BY <1>6 DEF StreamEnds, Goto, TypeOK
    <2>2. CachedWhole'
      BY <1>1, <2>1 DEF WholeInv, CachedWhole, EndedStays
    <2>3. content[c] = WholeAnswer(c)' /\ ended'[c] # 0
      <3>1. Gathered(c)
        BY DEF WholeInv
      <3>2. requests[c] > 0 /\ requests[c] \in Nat
        BY <2>1, <3>1 DEF Gathered, TypeOK
      <3> QED
        BY <2>1, <3>1, <3>2 DEF Gathered, WholeAnswer
    <2>4. AnswersWhole'
      <3> SUFFICES ASSUME NEW b \in Calls, pc'[b] = "done"
                   PROVE  \E a \in Calls :
                             /\ key'[a] = key'[b] /\ ended'[a] # 0
                             /\ answer'[b] = WholeAnswer(a)'
        BY DEF AnswersWhole
      <3>1. CASE b = c
        <4>1. key'[c] = key'[b] /\ answer'[b] = WholeAnswer(c)'
          BY <2>1, <2>3, <3>1
        <4> QED
          BY <2>3, <4>1
      <3>2. CASE b # c
        <4>1. pc[b] = "done" /\ answer'[b] = answer[b]
          BY <2>1, <3>2
        <4>2. PICK a \in Calls : /\ key[a] = key[b] /\ ended[a] # 0
                                 /\ answer[b] = WholeAnswer(a)
          BY <4>1 DEF WholeInv, AnswersWhole
        <4>3. /\ key'[a] = key'[b] /\ ended'[a] # 0
              /\ WholeAnswer(a)' = WholeAnswer(a)
          BY <1>1, <4>2 DEF EndedStays
        <4> QED
          BY <4>1, <4>2, <4>3
      <3> QED
        BY <3>1, <3>2
    <2> QED
      BY <2>2, <2>4
  <1>7. ASSUME NEW c \in Calls, InsertAnswer(c)
        PROVE  (CachedWhole /\ AnswersWhole)'
    <2>1. /\ answer'[c] = content[c]
          /\ \A d \in Calls \ {c} : pc'[d] = pc[d] /\ answer'[d] = answer[d]
          /\ pc[c] = "insert"
      BY <1>7 DEF InsertAnswer, Goto, TypeOK
    <2>2. /\ value'[key[c]] = content[c]
          /\ \A k \in cached' \ {key[c]} : k \in cached /\ value'[k] = value[k]
      <3>1. key[c] \in Keys
        BY DEF TypeOK
      <3> QED
        BY <1>7, <3>1, InsertKeeps DEF InsertAnswer, TypeOK
    <2>3. content[c] = WholeAnswer(c)' /\ ended'[c] # 0
      BY <1>1, <2>1 DEF WholeInv, Gathered, EndedStays
    <2>4. CachedWhole'
      <3> SUFFICES ASSUME NEW k \in cached'
                   PROVE  \E d \in Calls : /\ key'[d] = k /\ ended'[d] # 0
                                            /\ value'[k] = WholeAnswer(d)'
        BY DEF CachedWhole
      <3>1. CASE k = key[c]
        BY <1>1, <2>2, <2>3, <3>1 DEF EndedStays
      <3>2. CASE k # key[c]
        BY <1>1, <2>2, <3>2 DEF EndedStays, WholeInv, CachedWhole
      <3> QED
        BY <3>1, <3>2
    <2>5. AnswersWhole'
      <3> SUFFICES ASSUME NEW b \in Calls, pc'[b] = "done"
                   PROVE  \E a \in Calls :
                             /\ key'[a] = key'[b] /\ ended'[a] # 0
                             /\ answer'[b] = WholeAnswer(a)'
        BY DEF AnswersWhole
      <3>1. CASE b = c
        <4>1. key'[c] = key'[b] /\ answer'[b] = WholeAnswer(c)'
          BY <2>1, <2>3, <3>1
        <4> QED
          BY <2>3, <4>1
      <3>2. CASE b # c
        <4>1. pc[b] = "done" /\ answer'[b] = answer[b]
          BY <2>1, <3>2
        <4>2. PICK a \in Calls : /\ key[a] = key[b] /\ ended[a] # 0
                                 /\ answer[b] = WholeAnswer(a)
          BY <4>1 DEF WholeInv, AnswersWhole
        <4>3. /\ key'[a] = key'[b] /\ ended'[a] # 0
              /\ WholeAnswer(a)' = WholeAnswer(a)
          BY <1>1, <4>2 DEF EndedStays
        <4> QED
          BY <4>1, <4>2, <4>3
      <3> QED
        BY <3>1, <3>2
    <2> QED
      BY <2>4, <2>5
  <1> QED
    BY <1>2, <1>3, <1>4, <1>5, <1>6, <1>7 DEF Next, Step

\* AnswersWhole: no call ever returns a text put together from two attempts,
\* cut off by an error, or made for another key.
THEOREM AnswersAreWhole == Spec => []AnswersWhole
  <1>1. Init => WholeInv
    BY DEF Init, CacheInit, WholeInv, CachedWhole, AnswersWhole, Gathered
  <1>2. WholeInv => AnswersWhole
    BY DEF WholeInv
  <1> QED
    BY TypeCorrect, WholeStep, <1>1, <1>2, PTL DEF Spec

-----------------------------------------------------------------------------
(* The size of the cache.                                                  *)

BoundInv == IsFiniteSet(cached) /\ CacheBound

LEMMA InsertBounded ==
    ASSUME TypeOK, BoundInv, NEW k \in Keys, NEW v, Insert(k, v)
    PROVE  BoundInv'
  <1>1. PICK kept \in SUBSET cached :
             /\ cached' = kept \cup {k}
             /\ \/ kept = cached /\ ~Full(cached)
                \/ kept = cached \ stale /\ ~Full(cached \ stale)
                \/ /\ Full(cached \ stale)
                   /\ \E x \in cached \ stale : kept = (cached \ stale) \ {x}
    BY InsertKeeps
  <1>2. IsFiniteSet(cached) /\ IsFiniteSet(kept) /\ IsFiniteSet(cached \ stale)
        /\ Cardinality(cached \ stale) <= Cardinality(cached)
        /\ Cardinality(cached) <= MaxSize
    BY FS_Subset DEF BoundInv, CacheBound
  <1>3. /\ Cardinality(kept) \in Nat /\ Cardinality(cached) \in Nat
        /\ Cardinality(cached \ stale) \in Nat
    BY <1>2, FS_CardinalityType
  <1>4. Cardinality(kept) < MaxSize
    <2>1. CASE ~Full(kept)
      BY <1>3, <2>1, CacheAssumption DEF Full
    <2>2. CASE \E x \in cached \ stale : kept = (cached \ stale) \ {x}
      <3>1. Cardinality(kept) = Cardinality(cached \ stale) - 1
        BY <1>2, <2>2, FS_RemoveElement
      <3> QED
        BY <1>2, <1>3, <3>1, CacheAssumption
    <2> QED
      BY <1>1, <2>1, <2>2
  <1>5. IsFiniteSet(cached') /\ Cardinality(cached') <= Cardinality(kept) + 1
    <2>1. /\ IsFiniteSet(kept \cup {k})
          /\ Cardinality(kept \cup {k}) =
                IF k \in kept THEN Cardinality(kept) ELSE Cardinality(kept) + 1
      BY ONLY <1>2, FS_AddElement
    <2> QED
      BY <1>1, <1>3, <2>1
  <1>6. Cardinality(cached') \in Nat
    BY <1>5, FS_CardinalityType
  <1> QED
    BY <1>3, <1>4, <1>5, <1>6, CacheAssumption DEF BoundInv, CacheBound

LEMMA BoundStep == TypeOK /\ BoundInv /\ [Next]_vars => BoundInv'
  <1> SUFFICES ASSUME TypeOK, BoundInv, [Next]_vars
               PROVE  BoundInv'
    OBVIOUS
  <1>1. CASE UNCHANGED cached
    BY <1>1 DEF BoundInv, CacheBound
  <1>2. ASSUME NEW c \in Calls, InsertAnswer(c)
        PROVE  BoundInv'
    BY <1>2, InsertBounded DEF InsertAnswer, TypeOK
  <1> QED
    BY <1>1, <1>2
       DEF Next, Step, Begin, Lookup, HealthCheck, Request, ReceiveDelta,
           StreamEnds, StreamError, Abandon, Expire, vars

LEMMA BoundInvariant == Spec => []BoundInv
  <1>1. Init => BoundInv
    BY FS_EmptySet, CacheAssumption
       DEF Init, CacheInit, BoundInv, CacheBound
  <1> QED
    BY TypeCorrect, BoundStep, <1>1, PTL DEF Spec

\* CacheBound, for any number of keys and concurrent insertions.
THEOREM CacheBounded == Spec => []CacheBound
  BY BoundInvariant, PTL DEF BoundInv

\* LiveEvictedLast.  It rests on the bound: only in a cache that never
\* outgrew it does a full set of live entries mean that none is expired.
THEOREM LiveEvictedOnlyLast == Spec => LiveEvictedLast
  <1>1. ASSUME TypeOK, BoundInv, [Next]_vars, NEW k \in cached \ stale,
               k \notin cached'
        PROVE  stale \cap cached' = {} /\ Full(cached \ stale)
    <2>1. PICK c \in Calls : InsertAnswer(c)
      BY <1>1
         DEF Next, Step, Begin, Lookup, HealthCheck, Request, ReceiveDelta,
             StreamEnds, StreamError, Abandon, Expire, vars
    <2>2. Insert(key[c], content[c]) /\ key[c] \in Keys
      BY <1>1, <2>1 DEF InsertAnswer, TypeOK
    <2>3. Full(cached \ stale)
      <3>1. PICK kept \in SUBSET cached :
                 /\ cached' = kept \cup {key[c]}
                 /\ \/ kept = cached /\ ~Full(cached)
                    \/ kept = cached \ stale /\ ~Full(cached \ stale)
                    \/ /\ Full(cached \ stale)
                       /\ \E x \in cached \ stale :
                             kept = (cached \ stale) \ {x}
        BY <2>2, InsertKeeps
      <3>2. k \notin kept
        BY <1>1, <3>1
      <3> QED
        BY <1>1, <3>1, <3>2
    <2>4. cached \ stale = cached
      <3>1. IsFiniteSet(cached) /\ cached \ stale \in SUBSET cached
        BY <1>1 DEF BoundInv
      <3>2. /\ IsFiniteSet(cached \ stale)
            /\ Cardinality(cached \ stale) <= Cardinality(cached)
        BY <3>1, FS_Subset
      <3>3. Cardinality(cached) \in Nat /\ Cardinality(cached \ stale) \in Nat
        BY <3>1, <3>2, FS_CardinalityType
      <3>4. Cardinality(cached) = Cardinality(cached \ stale)
        BY <1>1, <2>3, <3>2, <3>3, CacheAssumption
           DEF BoundInv, CacheBound, Full
      <3> QED
        BY <3>1, <3>4, FS_Subset
    <2>5. stale = {}
      BY <1>1, <2>4 DEF TypeOK
    <2> QED
      BY <2>3, <2>5
  <1>2. TypeOK /\ BoundInv /\ [Next]_vars =>
            [\A k \in cached \ stale :
                k \notin cached' =>
                    stale \cap cached' = {} /\ Full(cached \ stale)]_cacheVars
    BY <1>1
  <1> QED
    BY TypeCorrect, BoundInvariant, <1>2, PTL DEF Spec, LiveEvictedLast
=============================================================================
