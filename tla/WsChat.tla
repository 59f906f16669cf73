-------------------------------- MODULE WsChat ------------------------------
(***************************************************************************)
(* The chat over a WebSocket (/ws/chat): the task that reads a connection, *)
(* the generations it spawns, the map of cancellation tokens, the messages *)
(* stored per session and what the client is sent.                         *)
(*                                                                         *)
(* A turn is one user message and all that follows from it.  The reader of *)
(* a connection handles one client message at a time up to the spawn; the  *)
(* spawned generation then runs beside it, and beside those of other turns *)
(* and connections.  A step reaches from one await to the next.            *)
(*                                                                         *)
(* A text is its number of deltas; the tool calls in it are those of any   *)
(* text of so many lines, chosen when they are parsed.  Searching memory,  *)
(* the system prompt and the size of the context window are left out.      *)
(*                                                                         *)
(* Every message is sent under the guard of the sender, which is held over *)
(* the await of the send.  A send is one step here, and takes the guard    *)
(* and gives it back: only after message_complete it is kept, until the    *)
(* token is removed.  A client that stops reading would block a send, and  *)
(* with it every task of its connection: clients are assumed to read on,   *)
(* or to go.  The guard of the token map is never held over an await.      *)
(***************************************************************************)
EXTENDS ToolCalls

CONSTANTS
    Conns, Sessions,
    Turns,           \* user messages; each is sent at most once
    MaxIterations,   \* MAX_TOOL_ITERATIONS (10)
    HistoryLimit,    \* limit of get_recent_messages (20)
    MaxDeltas,       \* deltas of one inference (max_tokens 4096)
    Polite,          \* TRUE: a client waits for the reply to a session's
                     \* last message before it sends the next one
    DbMayFail, InferenceMayFail, MayDisconnect,
    MayPanic,        \* TRUE: slicing a text inside a character may panic
    MayCrash         \* TRUE: the server may die and be started again

ASSUME ChatAssumption ==
    /\ Conns # {} /\ Sessions # {}
    /\ {MaxIterations, HistoryLimit, MaxDeltas} \subseteq Nat
    /\ {Polite, DbMayFail, InferenceMayFail, MayDisconnect, MayPanic, MayCrash}
           \subseteq BOOLEAN

None == "none"
ASSUME NoneIsNobody == None \notin Turns \cup Conns

VARIABLES
    \* one reader per connection
    rpc, current,     \* its next step, and the turn it handles
    tokens,           \* cancel_tokens: the turn that registered last
    \* turns
    conn, session, input, history, gpc, iteration, full, chunk, calls,
    cancelled,
    \* the table messages, by session in order of created_at
    messages,
    \* what was sent to the client, per turn
    streamed,         \* token messages
    replies,          \* message_complete and error messages
    stored            \* lengths of the answers saved

readerVars == <<rpc, current, tokens>>
fixedVars  == <<conn, session>>
genVars    == <<input, history, gpc, iteration, full, chunk, calls>>
clientVars == <<streamed, replies>>
vars == <<readerVars, fixedVars, genVars, cancelled, messages, clientVars,
          stored>>

\* Nothing but the generation of one turn, its messages or its answer.
othersOfGen == <<readerVars, fixedVars, input, history, cancelled, messages,
                 stored>>

Init ==
    /\ rpc       = [c \in Conns |-> "new"]
    /\ current   = [c \in Conns |-> None]
    /\ tokens    = [c \in Conns |-> [s \in Sessions |-> None]]
    /\ conn      = [t \in Turns |-> None]
    /\ session   = [t \in Turns |-> None]
    /\ input     = [t \in Turns |-> {}]
    /\ history   = [t \in Turns |-> {}]
    /\ gpc       = [t \in Turns |-> "none"]
    /\ iteration = [t \in Turns |-> 0]
    /\ full      = [t \in Turns |-> 0]
    /\ chunk     = [t \in Turns |-> 0]
    /\ calls     = [t \in Turns |-> <<>>]
    /\ cancelled = [t \in Turns |-> FALSE]
    /\ messages  = [s \in Sessions |-> <<>>]
    /\ streamed  = [t \in Turns |-> 0]
    /\ replies   = [t \in Turns |-> <<>>]
    /\ stored    = [t \in Turns |-> {}]

-----------------------------------------------------------------------------
(* The reader of connection c, and where a turn's generation is.           *)

Goto(t, label) == gpc' = [gpc EXCEPT ![t] = label]

Read(c, label) == rpc' = [rpc EXCEPT ![c] = label]

Connect(c) ==
    /\ rpc[c] = "new"
    /\ Read(c, "read")
    /\ UNCHANGED <<current, tokens, fixedVars, genVars, cancelled, messages,
                   clientVars, stored>>

\* Between two steps only a generation that has sent message_complete and not
\* yet removed its token keeps the sender locked.
SenderFree(c) == \A t \in Turns : ~(conn[t] = c /\ gpc[t] = "cleanup")

Reply(t, kind) == replies' = [replies EXCEPT ![t] = Append(@, kind)]

Answered(t) == replies[t] # <<>>

\* A polite client waits for a reply, as long as the connection lives.
MaySend(s) ==
    Polite => \A t \in Turns :
                 session[t] = s => Answered(t) \/ rpc[conn[t]] = "closed"

\* Ids are well-formed UUIDs: a malformed one is answered with an error and
\* changes nothing.
UserMessage(c, s, t) ==
    /\ rpc[c] = "read"
    /\ conn[t] = None
    /\ MaySend(s)
    /\ conn'    = [conn EXCEPT ![t] = c]
    /\ session' = [session EXCEPT ![t] = s]
    /\ \/ Read(c, "save") /\ current' = [current EXCEPT ![c] = t]
       \/ MayPanic /\ Read(c, "closed") /\ UNCHANGED current
    /\ UNCHANGED <<tokens, genVars, cancelled, messages, clientVars, stored>>

SaveUserMessage(c) ==
    LET t == current[c] IN
    /\ rpc[c] = "save"
    /\ \/ /\ messages' = [messages EXCEPT ![session[t]] =
                             Append(@, <<"user", t>>)]
          /\ Read(c, "history")
       \/ DbMayFail /\ Read(c, "report") /\ UNCHANGED messages
    /\ UNCHANGED <<current, tokens, fixedVars, genVars, cancelled, clientVars,
                   stored>>

ReportDbError(c) ==
    /\ rpc[c] = "report"
    /\ SenderFree(c)
    /\ Reply(current[c], "error")
    /\ Read(c, "read")
    /\ UNCHANGED <<current, tokens, fixedVars, genVars, cancelled, messages,
                   streamed, stored>>

Recent(s) ==
    LET n == Len(messages[s])
    IN  {messages[s][i] : i \in {i \in 1..n : i + HistoryLimit > n}}

\* Mutant: the history is read before the message is saved.
LoadHistoryAsBefore(c) ==
    LET t == current[c] IN
    /\ rpc[c] = "history"
    /\ history' = [history EXCEPT ![t] = Recent(session[t]) \ {<<"user", t>>}]
    /\ Read(c, "register")
    /\ UNCHANGED <<current, tokens, fixedVars, input, gpc, iteration, full,
                   chunk, calls, cancelled, messages, clientVars, stored>>

\* get_recent_messages; a failure leaves the history empty.
LoadHistory(c) ==
    LET t == current[c] IN
    /\ rpc[c] = "history"
    /\ \/ history' = [history EXCEPT ![t] = Recent(session[t])]
       \/ DbMayFail /\ UNCHANGED history
    /\ Read(c, "register")
    /\ UNCHANGED <<current, tokens, fixedVars, input, gpc, iteration, full,
                   chunk, calls, cancelled, messages, clientVars, stored>>

\* The token goes into the map, whatever it held, and the task is spawned.  It
\* builds the context first; a section that is cut is cut at a byte.
RegisterAndSpawn(c) ==
    LET t == current[c] IN
    /\ rpc[c] = "register"
    /\ tokens' = [tokens EXCEPT ![c][session[t]] = t]
    /\ input'  = [input EXCEPT ![t] = {"request"}]
    /\ \/ Goto(t, "check")
       \/ MayPanic /\ Goto(t, "dead")
    /\ Read(c, "read")
    /\ UNCHANGED <<current, fixedVars, history, iteration, full, chunk, calls,
                   cancelled, messages, clientVars, stored>>

StopGeneration(c, s) ==
    /\ rpc[c] = "read"
    /\ tokens[c][s] # None
    /\ cancelled' = [cancelled EXCEPT ![tokens[c][s]] = TRUE]
    /\ UNCHANGED <<readerVars, fixedVars, genVars, messages, clientVars,
                   stored>>

Disconnect(c) ==
    /\ MayDisconnect
    /\ rpc[c] = "read"
    /\ Read(c, "closed")
    /\ UNCHANGED <<current, tokens, fixedVars, genVars, cancelled, messages,
                   clientVars, stored>>

ReaderStep(c) == SaveUserMessage(c) \/ ReportDbError(c) \/ LoadHistory(c)
                    \/ RegisterAndSpawn(c)

-----------------------------------------------------------------------------
(* The generation of turn t.                                               *)

\* Mutant: a stop is noticed only while tokens arrive.
StartInferenceAnyway(t) ==
    /\ gpc[t] = "check"
    /\ IF iteration[t] >= MaxIterations
       THEN Goto(t, "save") /\ UNCHANGED <<iteration, chunk>>
       ELSE /\ iteration' = [iteration EXCEPT ![t] = @ + 1]
            /\ chunk' = [chunk EXCEPT ![t] = 0]
            /\ Goto(t, "stream")
    /\ UNCHANGED <<othersOfGen, full, calls, clientVars>>

\* Mutant: an inference that cannot be started ends the task silently.
StartInferenceSilent(t) ==
    /\ gpc[t] = "check"
    /\ \/ /\ cancelled[t] \/ iteration[t] >= MaxIterations
          /\ Goto(t, "save")
          /\ UNCHANGED <<iteration, chunk>>
       \/ /\ ~cancelled[t] /\ iteration[t] < MaxIterations
          /\ iteration' = [iteration EXCEPT ![t] = @ + 1]
          /\ chunk' = [chunk EXCEPT ![t] = 0]
          /\ \/ Goto(t, "stream")
             \/ InferenceMayFail /\ Goto(t, "done")
    /\ UNCHANGED <<othersOfGen, full, calls, clientVars>>

\* Mutant: the limit is checked before the iteration is counted.
StartInferenceOneMore(t) ==
    /\ gpc[t] = "check"
    /\ IF cancelled[t] \/ iteration[t] > MaxIterations
       THEN Goto(t, "save") /\ UNCHANGED <<iteration, chunk>>
       ELSE /\ iteration' = [iteration EXCEPT ![t] = @ + 1]
            /\ chunk' = [chunk EXCEPT ![t] = 0]
            /\ Goto(t, "stream")
    /\ UNCHANGED <<othersOfGen, full, calls, clientVars>>

\* The head of the loop: the token, then the limit, then stream_infer.
StartInference(t) ==
    /\ gpc[t] = "check"
    /\ \/ /\ cancelled[t] \/ iteration[t] >= MaxIterations
          /\ Goto(t, "save")
          /\ UNCHANGED <<iteration, chunk>>
       \/ /\ ~cancelled[t] /\ iteration[t] < MaxIterations
          /\ iteration' = [iteration EXCEPT ![t] = @ + 1]
          /\ chunk' = [chunk EXCEPT ![t] = 0]
          /\ \/ Goto(t, "stream")
             \/ InferenceMayFail /\ Goto(t, "error")
    /\ UNCHANGED <<othersOfGen, full, calls, clientVars>>

\* An event arrives; once cancelled it is dropped, whatever it is.
ReceiveDelta(t) ==
    /\ gpc[t] = "stream"
    /\ ~cancelled[t]
    /\ chunk[t] < MaxDeltas
    /\ chunk' = [chunk EXCEPT ![t] = @ + 1]
    /\ full'  = [full EXCEPT ![t] = @ + 1]
    /\ Goto(t, "send")
    /\ UNCHANGED <<othersOfGen, iteration, calls, clientVars>>

SendToken(t) ==
    /\ gpc[t] = "send"
    /\ SenderFree(conn[t])
    /\ streamed' = [streamed EXCEPT ![t] = @ + 1]
    /\ Goto(t, "stream")
    /\ UNCHANGED <<othersOfGen, iteration, full, chunk, calls, replies>>

StreamError(t) ==
    /\ InferenceMayFail
    /\ gpc[t] = "stream"
    /\ ~cancelled[t]
    /\ Goto(t, "error")
    /\ UNCHANGED <<othersOfGen, iteration, full, chunk, calls, clientVars>>

\* The stream is over, or was left after a stop: the calls in what arrived of
\* the response are parsed, stopped or not.
CallsFound == {ParseTextToolCalls(text) : text \in Texts}

ParseToolCalls(t) ==
    /\ gpc[t] = "stream"
    /\ \E found \in CallsFound :
          /\ found # <<>> => chunk[t] > 0
          /\ calls' = [calls EXCEPT ![t] = found]
          /\ Goto(t, IF found = <<>> THEN "save" ELSE "call")
    /\ UNCHANGED <<othersOfGen, iteration, full, chunk, clientVars>>

AnnounceToolCall(t) ==
    /\ gpc[t] = "call"
    /\ calls[t] # <<>>
    /\ SenderFree(conn[t])
    /\ Goto(t, "execute")
    /\ UNCHANGED <<othersOfGen, iteration, full, chunk, calls, clientVars>>

\* An error is kept as a result, and no tool_call_finished follows.  Tools
\* and the summary of a result cut texts inside a character.
ExecuteTool(t) ==
    /\ gpc[t] = "execute"
    /\ \E outcome \in Execute(Head(calls[t])) :
          CASE outcome = "success" ->
                  \/ Goto(t, "finish") /\ UNCHANGED calls
                  \/ MayPanic /\ Goto(t, "dead") /\ UNCHANGED calls
            [] outcome = "panic" ->
                  MayPanic /\ Goto(t, "dead") /\ UNCHANGED calls
            [] OTHER ->
                  Goto(t, "call") /\ calls' = [calls EXCEPT ![t] = Tail(@)]
    /\ UNCHANGED <<othersOfGen, iteration, full, chunk, clientVars>>

FinishToolCall(t) ==
    /\ gpc[t] = "finish"
    /\ SenderFree(conn[t])
    /\ calls' = [calls EXCEPT ![t] = Tail(@)]
    /\ Goto(t, "call")
    /\ UNCHANGED <<othersOfGen, iteration, full, chunk, clientVars>>

\* The results, the request and the answer so far become the user's input.
RebuildContext(t) ==
    /\ gpc[t] = "call"
    /\ calls[t] = <<>>
    /\ input' = [input EXCEPT ![t] = {"results", "request", "answer"}]
    /\ \/ Goto(t, "check")
       \/ MayPanic /\ Goto(t, "dead")
    /\ UNCHANGED <<readerVars, fixedVars, history, iteration, full, chunk,
                   calls, cancelled, messages, clientVars, stored>>

\* Mutant: the error leaves the loop, not the task.
SendErrorAndSave(t) ==
    /\ gpc[t] = "error"
    /\ SenderFree(conn[t])
    /\ Reply(t, "error")
    /\ Goto(t, "save")
    /\ UNCHANGED <<othersOfGen, iteration, full, chunk, calls, streamed>>

\* send_error, then return: the token stays in the map.
SendError(t) ==
    /\ gpc[t] = "error"
    /\ SenderFree(conn[t])
    /\ Reply(t, "error")
    /\ Goto(t, "done")
    /\ UNCHANGED <<othersOfGen, iteration, full, chunk, calls, streamed>>

StoreAnswer(t, n, label) ==
    /\ messages' = [messages EXCEPT ![session[t]] =
                       Append(@, <<"assistant", t>>)]
    /\ stored' = [stored EXCEPT ![t] = @ \cup {n}]
    /\ Goto(t, label)

\* A failure is logged; message_complete follows all the same.
SaveAnswer(t) ==
    /\ gpc[t] = "save"
    /\ \/ StoreAnswer(t, full[t], "complete")
       \/ DbMayFail /\ Goto(t, "complete") /\ UNCHANGED <<messages, stored>>
    /\ UNCHANGED <<readerVars, fixedVars, input, history, iteration, full,
                   chunk, calls, cancelled, clientVars>>

Complete(t) ==
    /\ gpc[t] = "complete"
    /\ SenderFree(conn[t])
    /\ Reply(t, "complete")
    /\ Goto(t, "cleanup")
    /\ UNCHANGED <<othersOfGen, iteration, full, chunk, calls, streamed>>

\* The entry of the session is removed, whosever token it is.
Cleanup(t) ==
    /\ gpc[t] = "cleanup"
    /\ tokens' = [tokens EXCEPT ![conn[t]][session[t]] = None]
    /\ Goto(t, "done")
    /\ UNCHANGED <<rpc, current, fixedVars, input, history, iteration, full,
                   chunk, calls, cancelled, messages, clientVars, stored>>

\* The process dies, and a new one takes connections that are made later.
\* Tasks and token maps are gone; messages persist.
ServerDies ==
    /\ MayCrash
    /\ rpc' = [c \in Conns |-> IF rpc[c] = "new" THEN "new" ELSE "closed"]
    /\ tokens' = [c \in Conns |-> [s \in Sessions |-> None]]
    /\ gpc' = [t \in Turns |-> IF gpc[t] \in {"none", "done"} THEN gpc[t]
                                                             ELSE "dead"]
    /\ UNCHANGED <<current, fixedVars, input, history, iteration, full, chunk,
                   calls, cancelled, messages, clientVars, stored>>

Generate(t) ==
    \/ StartInference(t) \/ ReceiveDelta(t) \/ SendToken(t) \/ StreamError(t)
    \/ ParseToolCalls(t) \/ AnnounceToolCall(t) \/ ExecuteTool(t)
    \/ FinishToolCall(t) \/ RebuildContext(t) \/ SendError(t) \/ SaveAnswer(t)
    \/ Complete(t) \/ Cleanup(t)

Next ==
    \/ \E c \in Conns :
          \/ Connect(c) \/ ReaderStep(c) \/ Disconnect(c)
          \/ \E s \in Sessions :
                StopGeneration(c, s) \/ \E t \in Turns : UserMessage(c, s, t)
    \/ \E t \in Turns : Generate(t)
    \/ ServerDies

Spec == Init /\ [][Next]_vars

\* The runtime polls every task that is ready, calls to the database, the
\* backend and the tools return (an answer or an error), and so does a send: a
\* client reads what it is sent, or its connection breaks.
Fairness == /\ \A c \in Conns : WF_vars(ReaderStep(c))
            /\ \A t \in Turns : WF_vars(Generate(t))
FairSpec == Spec /\ Fairness

-----------------------------------------------------------------------------
(* Properties.                                                             *)

Roles == {"user", "assistant"}

\* Every local variable, column and counter stays in its range.
TypeOK ==
    /\ rpc \in [Conns -> {"new", "read", "save", "history", "register", "report",
                          "closed"}]
    /\ current \in [Conns -> Turns \cup {None}]
    /\ tokens \in [Conns -> [Sessions -> Turns \cup {None}]]
    /\ conn \in [Turns -> Conns \cup {None}]
    /\ session \in [Turns -> Sessions \cup {None}]
    /\ input \in [Turns -> SUBSET {"request", "results", "answer"}]
    /\ history \in [Turns -> SUBSET (Roles \X Turns)]
    /\ gpc \in [Turns -> {"none", "check", "stream", "send", "call", "execute",
                          "finish", "error", "save", "complete", "cleanup",
                          "done", "dead"}]
    /\ iteration \in [Turns -> 0..MaxIterations]
    /\ full \in [Turns -> Nat] /\ streamed \in [Turns -> Nat]
    /\ chunk \in [Turns -> 0..MaxDeltas]
    /\ calls \in [Turns -> Seq(ModelCalls)]
    /\ cancelled \in [Turns -> BOOLEAN]
    /\ messages \in [Sessions -> Seq(Roles \X Turns)]
    /\ replies \in [Turns -> Seq({"complete", "error"})]
    /\ stored \in [Turns -> SUBSET Nat]

\* A response that a stop or the limit of tokens has cut short is parsed all
\* the same, and runs none but the first of the calls the whole response would
\* have run: a call that was cut off does not run, and none is made up of two.
CutShort(t) == gpc[t] = "stream" /\ (cancelled[t] \/ chunk[t] = MaxDeltas)
CutRunsPrefix == (\E t \in Turns : CutShort(t)) => PartsRunPrefix

\* The sections of the context the builder was given last.
Sections(t) == {<<"history", m>> : m \in history[t]}
                   \cup {<<"user", <<x, t>>>> : x \in input[t]}

\* What the backend makes of a context: a section with the role "user" is
\* dropped (the field user_input it sends instead is empty here).
BuildRequest(sections) ==
    {s[2] : s \in {s \in sections : s[1] \in {"system", "memory", "history"}}}
Prompt(t) == BuildRequest(Sections(t))

\* So many messages of the session were stored after the user's that those
\* which are read no longer reach back to it.
PushedOut(t) ==
    \E i \in DOMAIN messages[session[t]] :
        /\ messages[session[t]][i] = <<"user", t>>
        /\ i + HistoryLimit <= Len(messages[session[t]])

\* The model is asked with the user's message among what it reads: it gets
\* there through the table, where it is stored before the history is read.
\* Only a failing read and later messages of the session leave it out.
ModelSeesRequest ==
    [][\A t \in Turns : iteration'[t] # iteration[t] =>
         \/ <<"user", t>> \in Prompt(t)
         \/ DbMayFail /\ Prompt(t) = {}
         \/ PushedOut(t)]_vars

\* The model is asked again only with the results of its tools in the prompt.
ModelSeesResults ==
    [][\A t \in Turns : iteration'[t] # iteration[t] /\ iteration[t] > 0 =>
         <<"results", t>> \in Prompt(t)]_vars

\* The turns keep the promise of an answer, whatever other turns, stops,
\* panics, failures and restarts do: an error ends a turn for good, and so
\* does message_complete, and what is stored in between is what was shown.
FirstDeltas(n) == [i \in 1..n |-> i]
Phase(t) ==
    IF conn[t] = None THEN "none"
    ELSE IF Answered(t) \/ gpc[t] \in {"done", "dead"} THEN "over"
    ELSE IF gpc[t] \in {"save", "complete"} THEN "final"
    ELSE "open"
Promise == INSTANCE AnswerPromise WITH
    Askers    <- Turns,
    Forgetful <- {t \in Turns : DbMayFail},
    Repeating <- {},
    phase     <- [t \in Turns |-> Phase(t)],
    shown     <- [t \in Turns |-> FirstDeltas(streamed[t])],
    kept      <- [t \in Turns |-> {FirstDeltas(n) : n \in stored[t]}],
    told      <- replies
AnswersPromised == Promise!Spec

\* After a stop was handled, nothing more is generated for the turn: no
\* further inference and no further text.
StopEnds ==
    [][\A t \in Turns : cancelled[t] =>
         iteration'[t] = iteration[t] /\ full'[t] = full[t]]_vars

\* A stop for a session reaches the generation running in it: the token map
\* holds the tokens of the active generations by session.
Running(t) == gpc[t] \in {"check", "stream", "send", "call", "execute",
                          "finish"}
StopReaches ==
    \A c \in Conns, t \in Turns :
        Running(t) /\ conn[t] = c => tokens[c][session[t]] = t

\* Every message a reader takes up is answered in the end, by one
\* message_complete or one error, unless the task that had it died: failures
\* of the database and of the backend are reported, and neither a stop, a lost
\* connection, a lock held over an await nor a task that panicked beside it
\* keeps a generation from finishing.
TakenUp(t) == \E c \in Conns : current[c] = t
OneReply == \A t \in Turns : Len(replies[t]) <= 1
Died(t) ==
    \/ gpc[t] = "dead"
    \/ gpc[t] = "none" /\ \E c \in Conns : conn[t] = c /\ rpc[c] = "closed"
EveryMessageAnswered ==
    /\ []OneReply
    /\ \A t \in Turns : TakenUp(t) ~> Answered(t) \/ Died(t)
=============================================================================
