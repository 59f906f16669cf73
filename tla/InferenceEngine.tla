-------------------------- MODULE InferenceEngine ---------------------------
(***************************************************************************)
(* InferenceEngine: concurrent calls of infer and stream_infer, which ask  *)
(* one backend, try again after some errors, and share the cache of        *)
(* answers.                                                                *)
(*                                                                         *)
(* A step reaches from one await to the next.  The text of an answer is    *)
(* the set of deltas it was put together from, a delta being               *)
(* <<call, request, position>>; how long a call sleeps before it tries     *)
(* again is left out.  An error is what the engine makes of its text:      *)
(* "plain" is tried again and counted, "hinted" (the text names a delay in *)
(* seconds) is tried again without being counted, "fatal" is given up.     *)
(* An error inside a stream of stream_infer is handed to the consumer and  *)
(* the engine reads on: it changes nothing here.                           *)
(***************************************************************************)
EXTENDS ResponseCache

CONSTANTS
    Calls,       \* calls of infer and stream_infer; each is made once
    MaxRetries,  \* max_retries of RetryConfig::default (3)
    MaxDeltas,   \* deltas of one answer (max_tokens)
    MaxHints,    \* errors that name a delay, per call (the code has no bound)
    MayAbandon   \* TRUE: a call may be dropped at an await

ASSUME EngineAssumption ==
    /\ {MaxRetries, MaxDeltas, MaxHints} \subseteq Nat
    /\ MayAbandon \in BOOLEAN

Errors == {"plain", "hinted", "fatal"}

VARIABLES
    pc,         \* what each call does next
    kind,       \* "infer" or "stream"
    key,        \* model_cache_key of the request
    attempt,    \* attempt of RetryState
    requests,   \* requests sent to the backend
    hints,      \* errors that named a delay
    content,    \* deltas gathered, or handed to the consumer
    tokensUsed, \* number of deltas the current request has brought
    ended,      \* the request whose stream ended without an error, 0 for none
    answer      \* what the call returned

callVars == <<pc, kind, key, attempt, requests, hints, content, tokensUsed,
              ended, answer>>
vars == <<cacheVars, callVars>>

Deltas == Calls \X Nat \X Nat
Labels == {"idle", "lookup", "health", "request", "stream", "insert",
           "done", "failed", "gone"}
Resting == {"idle", "done", "failed", "gone"}

Init ==
    /\ CacheInit
    /\ pc         = [c \in Calls |-> "idle"]
    /\ kind       = [c \in Calls |-> "infer"]
    /\ key        \in [Calls -> Keys]
    /\ attempt    = [c \in Calls |-> 0]
    /\ requests   = [c \in Calls |-> 0]
    /\ hints      = [c \in Calls |-> 0]
    /\ content    = [c \in Calls |-> {}]
    /\ tokensUsed = [c \in Calls |-> 0]
    /\ ended      = [c \in Calls |-> 0]
    /\ answer     = [c \in Calls |-> {}]

Goto(c, label) == pc' = [pc EXCEPT ![c] = label]

-----------------------------------------------------------------------------
(* The retry loop.                                                         *)

HasRetriesLeft(c) == attempt[c] < MaxRetries
ShouldRetry(e) == e # "fatal"

\* Mutant: the limit is checked after the attempt was counted.
RetryOneMore(c, e) ==
    /\ ShouldRetry(e)
    /\ attempt[c] <= MaxRetries
    /\ attempt' = [attempt EXCEPT ![c] = IF e = "plain" THEN @ + 1 ELSE @]
    /\ hints'   = [hints EXCEPT ![c] = IF e = "hinted" THEN @ + 1 ELSE @]
    /\ Goto(c, "request")

\* An error that names a delay is waited for and not counted.
Retry(c, e) ==
    /\ ShouldRetry(e)
    /\ HasRetriesLeft(c)
    /\ attempt' = [attempt EXCEPT ![c] = IF e = "plain" THEN @ + 1 ELSE @]
    /\ hints'   = [hints EXCEPT ![c] = IF e = "hinted" THEN @ + 1 ELSE @]
    /\ Goto(c, "request")

GiveUp(c, e) ==
    /\ ~ShouldRetry(e) \/ ~HasRetriesLeft(c)
    /\ Goto(c, "failed")
    /\ UNCHANGED <<attempt, hints>>

\* The backend reports an error, of any kind; hints are bounded by MaxHints.
Error(c) ==
    \E e \in Errors :
        /\ e = "hinted" => hints[c] < MaxHints
        /\ Retry(c, e) \/ GiveUp(c, e)

-----------------------------------------------------------------------------
(* Steps of a call.                                                        *)

Begin(c, o) ==
    /\ pc[c] = "idle"
    /\ kind' = [kind EXCEPT ![c] = o]
    /\ Goto(c, IF o = "infer" THEN "lookup" ELSE "health")
    /\ UNCHANGED <<cacheVars, key, attempt, requests, hints, content,
                   tokensUsed, ended, answer>>

\* infer looks into the cache first, stream_infer never does.
Lookup(c) ==
    /\ pc[c] = "lookup"
    /\ \/ /\ Hit(key[c])
          /\ answer' = [answer EXCEPT ![c] = value[key[c]]]
          /\ Goto(c, "done")
       \/ /\ ~Hit(key[c])
          /\ Goto(c, "request")
          /\ UNCHANGED answer
    /\ UNCHANGED <<cacheVars, kind, key, attempt, requests, hints, content,
                   tokensUsed, ended>>

\* stream_infer asks for the backend's health first, infer never does.
HealthCheck(c) ==
    /\ pc[c] = "health"
    /\ Goto(c, "request") \/ Goto(c, "failed")
    /\ UNCHANGED <<cacheVars, kind, key, attempt, requests, hints, content,
                   tokensUsed, ended, answer>>

\* stream_inference: a stream, read with an empty text, or an error.
Request(c) ==
    /\ pc[c] = "request"
    /\ requests' = [requests EXCEPT ![c] = @ + 1]
    /\ \/ /\ content' = [content EXCEPT ![c] = {}]
          /\ tokensUsed' = [tokensUsed EXCEPT ![c] = 0]
          /\ Goto(c, "stream")
          /\ UNCHANGED <<attempt, hints>>
       \/ Error(c) /\ UNCHANGED <<content, tokensUsed>>
    /\ UNCHANGED <<cacheVars, kind, key, ended, answer>>

NextDelta(c) == <<c, requests[c], tokensUsed[c] + 1>>

ReceiveDelta(c) ==
    /\ pc[c] = "stream"
    /\ tokensUsed[c] < MaxDeltas
    /\ content' = [content EXCEPT ![c] = @ \cup {NextDelta(c)}]
    /\ tokensUsed' = [tokensUsed EXCEPT ![c] = @ + 1]
    /\ UNCHANGED <<cacheVars, pc, kind, key, attempt, requests, hints, ended,
                   answer>>

\* A finished event, or the end of the stream without one.
StreamEnds(c) ==
    /\ pc[c] = "stream"
    /\ ended' = [ended EXCEPT ![c] = requests[c]]
    /\ \/ /\ kind[c] = "infer"
          /\ Goto(c, "insert")
          /\ UNCHANGED answer
       \/ /\ kind[c] = "stream"
          /\ answer' = [answer EXCEPT ![c] = content[c]]
          /\ Goto(c, "done")
    /\ UNCHANGED <<cacheVars, kind, key, attempt, requests, hints, content,
                   tokensUsed>>

\* Mutant: the error leaves the loop and what came before it is the answer.
StreamErrorForgotten(c) ==
    /\ pc[c] = "stream"
    /\ kind[c] = "infer"
    /\ Goto(c, "insert")
    /\ UNCHANGED <<cacheVars, kind, key, attempt, requests, hints, content,
                   tokensUsed, ended, answer>>

\* An error inside the stream: infer starts over or fails.
StreamError(c) ==
    /\ pc[c] = "stream"
    /\ kind[c] = "infer"
    /\ Error(c)
    /\ UNCHANGED <<cacheVars, kind, key, requests, content, tokensUsed, ended,
                   answer>>

InsertAnswer(c) ==
    /\ pc[c] = "insert"
    /\ Insert(key[c], content[c])
    /\ answer' = [answer EXCEPT ![c] = content[c]]
    /\ Goto(c, "done")
    /\ UNCHANGED <<kind, key, attempt, requests, hints, content, tokensUsed,
                   ended>>

\* The future, or the stream, is dropped.
Abandon(c) ==
    /\ MayAbandon
    /\ pc[c] \notin Resting
    /\ Goto(c, "gone")
    /\ UNCHANGED <<cacheVars, kind, key, attempt, requests, hints, content,
                   tokensUsed, ended, answer>>

Step(c) ==
    \/ Lookup(c) \/ HealthCheck(c) \/ Request(c) \/ ReceiveDelta(c)
    \/ StreamEnds(c) \/ StreamError(c) \/ InsertAnswer(c)

Next ==
    \/ \E c \in Calls :
          \/ \E o \in {"infer", "stream"} : Begin(c, o)
          \/ Step(c)
          \/ Abandon(c)
    \/ Expire /\ UNCHANGED callVars

Spec == Init /\ [][Next]_vars

-----------------------------------------------------------------------------
(* Properties.                                                             *)

\* Every entry, counter and local variable stays in its range, and only
\* cached entries are stale.
TypeOK ==
    /\ cached \subseteq Keys
    /\ stale \subseteq cached
    /\ value \in [Keys -> SUBSET Deltas]
    /\ pc   \in [Calls -> Labels]
    /\ kind \in [Calls -> {"infer", "stream"}]
    /\ key  \in [Calls -> Keys]
    /\ attempt  \in [Calls -> 0..MaxRetries]
    /\ requests \in [Calls -> Nat]
    /\ hints    \in [Calls -> Nat]
    /\ content  \in [Calls -> SUBSET Deltas]
    /\ tokensUsed \in [Calls -> 0..MaxDeltas]
    /\ ended  \in [Calls -> Nat]
    /\ answer \in [Calls -> SUBSET Deltas]

\* The whole answer to the request of call d whose stream ended.
WholeAnswer(d) == {<<d, ended[d], n>> : n \in 1..tokensUsed[d]}

\* What a call returns, fresh or from the cache, is the whole answer some call
\* got for the same key in one request: nothing of an attempt that broke off
\* gets into it, however many calls retry and fill the cache at once.
AnswersWhole ==
    \A c \in Calls : pc[c] = "done" =>
        \E d \in Calls : /\ key[d] = key[c]
                         /\ ended[d] # 0
                         /\ answer[c] = WholeAnswer(d)

\* A call asks the backend at most 1 + MaxRetries times, wherever its errors
\* came, before the stream or inside it, as long as none of them named a delay.
\* Calls that met such an error are exempt: the engine does not count it, and a
\* backend that keeps naming a delay is asked for ever, whatever the maximum.
RequestBound ==
    \A c \in Calls : hints[c] = 0 => requests[c] <= 1 + MaxRetries
=============================================================================
