------------------------------ MODULE SseInfer ------------------------------
(***************************************************************************)
(* The route that answers by server-sent events (routes/inference.rs), for *)
(* concurrent requests to one session, down to the bytes of the provider:  *)
(* the route reads a stream of the engine, the engine passes the stream of *)
(* the backend on, and the backend parses the chunks of an HTTP response.  *)
(*                                                                         *)
(* A step reaches from one await to the next.  A text is the sequence of   *)
(* the positions of its deltas.  A chunk is a number of lines; a line that *)
(* is cut by the end of a chunk parses to nothing, in both halves.  The    *)
(* retries of the engine happen before the stream starts and are the       *)
(* subject of InferenceEngine.                                             *)
(***************************************************************************)
EXTENDS ContextBuilder, FiniteSets

CONSTANTS
    Requests,       \* requests to one session; each is sent at most once
    Unlucky,        \* those whose statements and searches may fail
    Sizes,          \* estimates of messages and memories, in tokens
    MaxFound,       \* memories a search returns (10)
    HistoryLimit,   \* messages of the session put into the context (50)
    MaxDeltas,      \* deltas of one answer (max_tokens)
    MaxLines        \* lines in one chunk

ASSUME SseAssumption ==
    /\ Unlucky \subseteq Requests
    /\ Sizes \subseteq Nat
    /\ {MaxFound, HistoryLimit, MaxDeltas, MaxLines} \subseteq Nat

VARIABLES
    messages,   \* the messages of the session, in order of created_at
    pc,         \* what each request does next
    size,       \* tokens of its message
    found,      \* memories
    history,    \* messages loaded
    context,    \* what the builder made of them
    provider,   \* lines the provider has not sent yet
    events,     \* events of the current chunk not yet handled
    full,       \* full_response
    sent        \* events the client was sent

requestVars == <<pc, size, found, history, context, provider, events, full,
                 sent>>
vars == <<messages, requestVars>>

SeqUpTo(S, n) == UNION {[1..m -> S] : m \in 0..n}

Tiers == {"verified", "consolidated", "raw"}
Memories == [tier : Tiers, tokens : Sizes]
Labels == {"idle", "save", "search", "list", "history", "start", "read",
           "handle", "store", "done", "end"}

Init ==
    /\ messages = <<>>
    /\ pc       = [r \in Requests |-> "idle"]
    /\ size     = [r \in Requests |-> 0]
    /\ found    = [r \in Requests |-> <<>>]
    /\ history  = [r \in Requests |-> <<>>]
    /\ context  = [r \in Requests |-> <<>>]
    /\ provider = [r \in Requests |-> <<>>]
    /\ events   = [r \in Requests |-> <<>>]
    /\ full     = [r \in Requests |-> <<>>]
    /\ sent     = [r \in Requests |-> <<>>]

Goto(r, label) == pc' = [pc EXCEPT ![r] = label]
Send(r, event) == sent' = [sent EXCEPT ![r] = Append(@, event)]

\* create_message; its error is ignored.
CreateMessage(r, role, text, tokens) ==
    \/ messages' = Append(messages, [role |-> role, by |-> r, text |-> text,
                                     tokens |-> tokens])
    \/ r \in Unlucky /\ UNCHANGED messages

-----------------------------------------------------------------------------
(* The handler, up to the response.                                        *)

Receive(r) ==
    /\ pc[r] = "idle"
    /\ \E n \in Sizes : size' = [size EXCEPT ![r] = n]
    /\ Goto(r, "save")
    /\ UNCHANGED <<messages, found, history, context, provider, events, full,
                   sent>>

SaveUserMessage(r) ==
    /\ pc[r] = "save"
    /\ CreateMessage(r, "user", <<>>, size[r])
    /\ Goto(r, "search")
    /\ UNCHANGED <<size, found, history, context, provider, events, full, sent>>

\* The search by embedding, which may fail, and the listing by text after it,
\* whose failure means no memories.
Search(r) ==
    /\ \/ /\ pc[r] \in {"search", "list"}
          /\ \E m \in SeqUpTo(Memories, MaxFound) :
                found' = [found EXCEPT ![r] = m]
          /\ Goto(r, "history")
       \/ /\ r \in Unlucky /\ pc[r] = "search"
          /\ Goto(r, "list")
          /\ UNCHANGED found
       \/ /\ r \in Unlucky /\ pc[r] = "list"
          /\ Goto(r, "history")
          /\ UNCHANGED found
    /\ UNCHANGED <<messages, size, history, context, provider, events, full,
                   sent>>

\* get_recent_messages, oldest first.
Recent(ms) ==
    SubSeq(ms, IF Len(ms) > HistoryLimit THEN Len(ms) - HistoryLimit + 1 ELSE 1,
           Len(ms))

Offered(memories, ms, n) ==
    <<Section("system", "prompt", 1)>>
    \o [i \in DOMAIN memories |->
            Section(memories[i].tier, "memory", memories[i].tokens)]
    \o [i \in DOMAIN ms |->
            Section("history", <<ms[i].role, ms[i].by>>, ms[i].tokens)]
    \o <<Section("user", "input", n)>>

\* Mutant: the whole history is loaded.
LoadWholeHistory(r) ==
    /\ pc[r] = "history"
    /\ history' = [history EXCEPT ![r] = messages]
    /\ context' = [context EXCEPT ![r] =
                      Build(Offered(found[r], history'[r], size[r]))]
    /\ Goto(r, "start")
    /\ UNCHANGED <<messages, size, found, provider, events, full, sent>>

\* The history, empty if it cannot be read, and the context built from it.
LoadHistory(r) ==
    /\ pc[r] = "history"
    /\ \/ history' = [history EXCEPT ![r] = Recent(messages)]
       \/ r \in Unlucky /\ UNCHANGED history
    /\ context' = [context EXCEPT ![r] =
                      Build(Offered(found[r], history'[r], size[r]))]
    /\ Goto(r, "start")
    /\ UNCHANGED <<messages, size, found, provider, events, full, sent>>

-----------------------------------------------------------------------------
(* The provider and the backend.                                           *)

\* A line carries a delta, ends the answer (a finish_reason, or [DONE]), or
\* both.
Line(n) == [delta |-> n, finish |-> FALSE]
LastLine(n) == [delta |-> n, finish |-> TRUE]
Deltas(n) == [i \in 1..n |-> Line(i)]
EndedDeltas(n) == Append(Deltas(n - 1), LastLine(n))
Finish == LastLine(0)

\* What providers send: all deltas, then a finish_reason in a line of its own
\* or in the last delta's, then [DONE]; or nothing after some delta.
Responses ==
    (UNION {{Deltas(n), Append(Deltas(n), Finish),
             Append(Append(Deltas(n), Finish), Finish)} : n \in 0..MaxDeltas})
    \cup
    (UNION {{EndedDeltas(n), Append(EndedDeltas(n), Finish)}
             : n \in 1..MaxDeltas})

Token(n) == <<"token", n>>
Done == <<"done", 0>>
ErrorEvent == <<"error", 0>>

\* Mutant: the finish_reason is looked at before the content.
ParseFinishFirst(line) ==
    (IF line.finish THEN <<Done>> ELSE <<>>)
    \o (IF line.delta # 0 THEN <<Token(line.delta)>> ELSE <<>>)

\* parse_sse_line: the content first, then the end.
Parse(line) ==
    (IF line.delta # 0 THEN <<Token(line.delta)>> ELSE <<>>)
    \o (IF line.finish THEN <<Done>> ELSE <<>>)

\* stream_infer: a stream, or an error once its retries are used up.
Start(r) ==
    /\ pc[r] = "start"
    /\ \/ /\ \E lines \in Responses : provider' = [provider EXCEPT ![r] = lines]
          /\ Goto(r, "read")
          /\ UNCHANGED sent
       \/ /\ Send(r, ErrorEvent)
          /\ Goto(r, "end")
          /\ UNCHANGED provider
    /\ found'   = [found EXCEPT ![r] = <<>>]
    /\ history' = [history EXCEPT ![r] = <<>>]
    /\ context' = [context EXCEPT ![r] = <<>>]
    /\ UNCHANGED <<messages, size, events, full>>

\* The next chunk: some lines, and perhaps one more that its end cuts apart.
ReadChunk(r) ==
    /\ pc[r] = "read"
    /\ \E n \in 0..MaxLines, cut \in {0, 1} :
          /\ n + cut \in 1..Len(provider[r])
          /\ events' = [events EXCEPT ![r] =
                FlattenSeq([i \in 1..n |-> Parse(provider[r][i])])]
          /\ provider' = [provider EXCEPT ![r] =
                SubSeq(@, n + cut + 1, Len(@))]
    /\ Goto(r, IF events'[r] = <<>> THEN "read" ELSE "handle")
    /\ UNCHANGED <<messages, size, found, history, context, full, sent>>

\* The connection breaks: the error goes through the engine to the client.
ConnectionBreaks(r) ==
    /\ pc[r] = "read"
    /\ Send(r, ErrorEvent)
    /\ Goto(r, "end")
    /\ UNCHANGED <<messages, size, found, history, context, provider, events,
                   full>>

\* The response is over.  Nothing is sent or stored for this.
ResponseEnds(r) ==
    /\ pc[r] = "read" /\ provider[r] = <<>>
    /\ Goto(r, "end")
    /\ UNCHANGED <<messages, size, found, history, context, provider, events,
                   full, sent>>

-----------------------------------------------------------------------------
(* The body of the response.                                               *)

\* Mutant: the client reads done before the answer is stored.
HandleEventEagerly(r) ==
    /\ pc[r] = "handle"
    /\ LET event == Head(events[r])
           rest  == Tail(events[r])
       IN  /\ full' = IF event = Done THEN full
                      ELSE [full EXCEPT ![r] = Append(@, event[2])]
           /\ Send(r, event)
           /\ events' = [events EXCEPT ![r] = IF event = Done THEN @ ELSE rest]
           /\ Goto(r, IF event = Done THEN "store"
                      ELSE IF rest = <<>> THEN "read" ELSE "handle")
    /\ UNCHANGED <<messages, size, found, history, context, provider>>

HandleEvent(r) ==
    /\ pc[r] = "handle"
    /\ LET event == Head(events[r])
           rest  == Tail(events[r])
       IN  \/ /\ event = Done
              /\ Goto(r, "store")
              /\ UNCHANGED <<events, full, sent>>
           \/ /\ event # Done
              /\ full' = [full EXCEPT ![r] = Append(@, event[2])]
              /\ Send(r, event)
              /\ events' = [events EXCEPT ![r] = rest]
              /\ Goto(r, IF rest = <<>> THEN "read" ELSE "handle")
    /\ UNCHANGED <<messages, size, found, history, context, provider>>

\* Each finished event stores the answer, the second one again.
StoreAnswer(r) ==
    /\ pc[r] = "store"
    /\ CreateMessage(r, "assistant", full[r], Len(full[r]))
    /\ Goto(r, "done")
    /\ UNCHANGED <<size, found, history, context, provider, events, full, sent>>

SendDone(r) ==
    /\ pc[r] = "done"
    /\ Send(r, Done)
    /\ events' = [events EXCEPT ![r] = Tail(@)]
    /\ Goto(r, IF Len(events[r]) = 1 THEN "read" ELSE "handle")
    /\ UNCHANGED <<messages, size, found, history, context, provider, full>>

\* The client goes away: the handler, or the stream, is dropped.
Disconnect(r) ==
    /\ pc[r] \notin {"idle", "end"}
    /\ Goto(r, "end")
    /\ UNCHANGED <<messages, size, found, history, context, provider, events,
                   full, sent>>

Next ==
    \E r \in Requests :
        \/ Receive(r) \/ SaveUserMessage(r) \/ Search(r) \/ LoadHistory(r)
        \/ Start(r) \/ ReadChunk(r) \/ ConnectionBreaks(r) \/ ResponseEnds(r)
        \/ HandleEvent(r) \/ StoreAnswer(r) \/ SendDone(r) \/ Disconnect(r)

Spec == Init /\ [][Next]_vars

-----------------------------------------------------------------------------
(* Properties.                                                             *)

Positions == 1..MaxDeltas
Events == {"token", "done", "error"} \X (0..MaxDeltas)

\* Every message and local variable stays in its range, the history within
\* its limit.
TypeOK ==
    /\ \A i \in DOMAIN messages :
          /\ messages[i].role \in {"user", "assistant"}
          /\ messages[i].by \in Requests
          /\ messages[i].text \in SeqUpTo(Positions, MaxDeltas)
    /\ pc \in [Requests -> Labels]
    /\ size \in [Requests -> Sizes \cup {0}]
    /\ \A r \in Requests :
          /\ ToSet(found[r]) \subseteq Memories /\ Len(found[r]) <= MaxFound
          /\ ToSet(history[r]) \subseteq ToSet(messages)
          /\ Len(history[r]) <= HistoryLimit
          /\ ToSet(events[r]) \cup ToSet(sent[r]) \subseteq Events
          /\ full[r] \in SeqUpTo(Positions, MaxDeltas)
          /\ pc[r] \in {"handle", "store", "done"} => events[r] # <<>>

ShowEvent(text, e) == IF e[1] = "token" THEN Append(text, e[2]) ELSE text
Shown(r) == FoldLeft(ShowEvent, <<>>, sent[r])
Stored(r) ==
    {messages[i].text : i \in {j \in DOMAIN messages :
        messages[j].role = "assistant" /\ messages[j].by = r}}

\* What is stored as the answer of a request is the whole text its client was
\* shown, however the response was cut into chunks, and every further copy is
\* the same: no text follows a finished event.
StoredIsShown == \A r \in Requests : Stored(r) \subseteq {Shown(r)}

\* Requests keep the promise of an answer, however the response was cut into
\* chunks, broke or ended, and whenever the client went away: the text is
\* final once a finished event was seen, although events follow it.  Each of
\* them tells the client done once more, so every request is a repeating one.
TellEvent(told, e) ==
    CASE e[1] = "token" -> told
      [] e[1] = "done"  -> Append(told, "complete")
      [] e[1] = "error" -> Append(told, "error")
Told(r) == FoldLeft(TellEvent, <<>>, sent[r])
Phase(r) ==
    IF pc[r] = "idle" THEN "none"
    ELSE IF pc[r] = "end" THEN "over"
    ELSE IF pc[r] \in {"store", "done"} \/ Told(r) # <<>> THEN "final"
    ELSE "open"
Promise == INSTANCE AnswerPromise WITH
    Askers    <- Requests,
    Forgetful <- Unlucky,
    Repeating <- Requests,
    phase     <- [r \in Requests |-> Phase(r)],
    shown     <- [r \in Requests |-> Shown(r)],
    kept      <- [r \in Requests |-> Stored(r)],
    told      <- [r \in Requests |-> Told(r)]
AnswersPromised == Promise!Spec

\* A client is told once that its answer is done: done is the end of the stream
\* of events.
DoneOnce ==
    \A r \in Requests :
        \A i, j \in DOMAIN sent[r] : sent[r][i] = Done /\ sent[r][j] = Done => i = j

\* The context is well built from whatever memories were found and whatever
\* other requests had put into the session when the history was read.
ContextFits ==
    \A r \in Requests : pc[r] = "start" =>
        WellBuilt(context[r], Offered(found[r], history[r], size[r]))
=============================================================================
