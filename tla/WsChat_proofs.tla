---------------------------- MODULE WsChat_proofs ---------------------------
(***************************************************************************)
(* Theorems about WsChat, for any connections, sessions, turns and limits: *)
(* a stop ends a generation, no turn is replied to twice, and the turns    *)
(* keep the promise of AnswerPromise.                                      *)
(***************************************************************************)
EXTENDS WsChat, SequenceTheorems, TLAPS

Parsing == INSTANCE SequenceFolds WITH Op <- ParseLine

ReaderLabels == {"new", "read", "save", "history", "register", "report",
                 "closed"}
GenLabels == {"none", "check", "stream", "send", "call", "execute", "finish",
              "error", "save", "complete", "cleanup", "done", "dead"}

\* The part of TypeOK the theorems need.
ChatTypes ==
    /\ rpc \in [Conns -> ReaderLabels]
    /\ current \in [Conns -> Turns \cup {None}]
    /\ tokens \in [Conns -> [Sessions -> Turns \cup {None}]]
    /\ conn \in [Turns -> Conns \cup {None}]
    /\ session \in [Turns -> Sessions \cup {None}]
    /\ gpc \in [Turns -> GenLabels]
    /\ iteration \in [Turns -> 0..MaxIterations]
    /\ full \in [Turns -> Nat] /\ streamed \in [Turns -> Nat]
    /\ cancelled \in [Turns -> BOOLEAN]
    /\ replies \in [Turns -> Seq({"complete", "error"})]
    /\ stored \in [Turns -> SUBSET Nat]

\* A generation that has not told the client how it ended.
Unanswered == GenLabels \ {"none", "cleanup", "done", "dead"}

\* A turn that a reader handles is its own, and nobody generates it yet.
ReaderInv ==
    \A c \in Conns : rpc[c] \in {"save", "history", "register", "report"} =>
        /\ current[c] \in Turns
        /\ conn[current[c]] = c
        /\ gpc[current[c]] = "none"
        /\ replies[current[c]] = <<>>

\* What was shown is what was gathered, but for the delta at hand, and a turn
\* is told its end once.
TurnInv ==
    \A t \in Turns :
        /\ conn[t] = None => gpc[t] = "none" /\ replies[t] = <<>>
        /\ gpc[t] \in Unanswered => replies[t] = <<>>
        /\ gpc[t] \in Unanswered \ {"send", "error"} => streamed[t] = full[t]
        /\ gpc[t] = "send" => full[t] = streamed[t] + 1
        /\ gpc[t] = "none" => streamed[t] = 0 /\ full[t] = 0
        /\ gpc[t] = "complete" => stored[t] # {} \/ DbMayFail
        /\ Len(replies[t]) <= 1

ChatInv == ChatTypes /\ ReaderInv /\ TurnInv

\* What a client makes its reader do.
ClientStep(c) ==
    \/ Connect(c) \/ Disconnect(c)
    \/ \E s \in Sessions :
          StopGeneration(c, s) \/ \E t \in Turns : UserMessage(c, s, t)

\* What a generation leaves alone: the readers and all other turns.
GenFrame(t) ==
    /\ UNCHANGED <<rpc, current, conn, session>>
    /\ \A u \in Turns \ {t} :
          /\ gpc'[u] = gpc[u] /\ replies'[u] = replies[u]
          /\ full'[u] = full[u] /\ streamed'[u] = streamed[u]
          /\ stored'[u] = stored[u] /\ cancelled'[u] = cancelled[u]

USE DEF readerVars, fixedVars, genVars, clientVars, othersOfGen

-----------------------------------------------------------------------------
(* Types.                                                                  *)

LEMMA InitTypes == Init => ChatTypes
  BY ChatAssumption, EmptySeq
     DEF Init, ChatTypes, ReaderLabels, GenLabels

LEMMA ReplyTypes ==
    ASSUME ChatTypes, NEW t \in Turns, NEW kind \in {"complete", "error"},
           Reply(t, kind)
    PROVE  /\ replies' \in [Turns -> Seq({"complete", "error"})]
           /\ \A u \in Turns \ {t} : replies'[u] = replies[u]
           /\ replies'[t] = Append(replies[t], kind)
           /\ replies'[t] # <<>>
           /\ Len(replies'[t]) = Len(replies[t]) + 1
  <1>1. replies[t] \in Seq({"complete", "error"})
    BY DEF ChatTypes
  <1>2. Append(replies[t], kind) \in Seq({"complete", "error"})
    BY <1>1, AppendProperties
  <1>3. Append(replies[t], kind) # <<>>
    BY <1>1, AppendProperties
  <1>4. Len(Append(replies[t], kind)) = Len(replies[t]) + 1
    BY <1>1, AppendProperties
  <1>5. replies' = [replies EXCEPT ![t] = Append(replies[t], kind)]
    BY DEF Reply
  <1>6. replies'[t] = Append(replies[t], kind)
    BY <1>5 DEF ChatTypes
  <1> QED
    BY <1>2, <1>3, <1>4, <1>5, <1>6 DEF ChatTypes

LEMMA ReaderTypes ==
    ASSUME ChatTypes, ReaderInv, NEW c \in Conns, ReaderStep(c)
    PROVE  ChatTypes'
  <1>1. CASE SaveUserMessage(c)
    BY <1>1 DEF SaveUserMessage, Read, ChatTypes, ReaderLabels
  <1>2. CASE ReportDbError(c)
    <2>1. current[c] \in Turns
      BY <1>2 DEF ReportDbError, ReaderInv
    <2>2. replies' \in [Turns -> Seq({"complete", "error"})]
      BY <1>2, <2>1, ReplyTypes DEF ReportDbError
    <2> QED
      BY <1>2, <2>2 DEF ReportDbError, Read, ChatTypes, ReaderLabels
  <1>3. CASE LoadHistory(c)
    BY <1>3 DEF LoadHistory, Read, ChatTypes, ReaderLabels
  <1>4. CASE RegisterAndSpawn(c)
    <2>1. current[c] \in Turns
      BY <1>4 DEF RegisterAndSpawn, ReaderInv
    <2>2. gpc' \in [Turns -> GenLabels]
      BY <1>4, <2>1 DEF RegisterAndSpawn, Goto, ChatTypes, GenLabels
    <2>3. tokens' \in [Conns -> [Sessions -> Turns \cup {None}]]
      BY <1>4, <2>1 DEF RegisterAndSpawn, ChatTypes
    <2> QED
      BY <1>4, <2>2, <2>3 DEF RegisterAndSpawn, Read, ChatTypes, ReaderLabels
  <1> QED
    BY <1>1, <1>2, <1>3, <1>4 DEF ReaderStep

LEMMA ClientTypes ==
    ASSUME ChatTypes, NEW c \in Conns, ClientStep(c)
    PROVE  ChatTypes'
  <1>1. CASE Connect(c)
    BY <1>1 DEF Connect, Read, ChatTypes, ReaderLabels
  <1>2. ASSUME NEW s \in Sessions, NEW t \in Turns, UserMessage(c, s, t)
        PROVE  ChatTypes'
    BY <1>2 DEF UserMessage, Read, ChatTypes, ReaderLabels
  <1>3. ASSUME NEW s \in Sessions, StopGeneration(c, s) PROVE ChatTypes'
    BY <1>3 DEF StopGeneration, ChatTypes
  <1>4. CASE Disconnect(c)
    BY <1>4 DEF Disconnect, Read, ChatTypes, ReaderLabels
  <1> QED
    BY <1>1, <1>2, <1>3, <1>4 DEF ClientStep

LEMMA GenTypes ==
    ASSUME ChatTypes, NEW t \in Turns, Generate(t)
    PROVE  ChatTypes' /\ GenFrame(t)
  <1> USE DEF ChatTypes, GenFrame, Goto, GenLabels
  <1>1. CASE StartInference(t)
    <2>1. MaxIterations \in Nat
      BY ChatAssumption
    <2>2. iteration' \in [Turns -> 0..MaxIterations]
      <3>1. iteration \in [Turns -> 0..MaxIterations]
        OBVIOUS
      <3>2. CASE iteration' = iteration
        BY <3>1, <3>2
      <3>3. CASE /\ iteration[t] < MaxIterations
                 /\ iteration' = [iteration EXCEPT ![t] = iteration[t] + 1]
        BY <2>1, <3>1, <3>3
      <3> QED
        BY <1>1, <3>2, <3>3 DEF StartInference
    <2>3. gpc' \in [Turns -> GenLabels] /\ \A u \in Turns \ {t} : gpc'[u] = gpc[u]
      BY <1>1 DEF StartInference
    <2> QED
      BY <1>1, <2>2, <2>3 DEF StartInference
  <1>2. CASE ReceiveDelta(t)
    BY <1>2 DEF ReceiveDelta
  <1>3. CASE SendToken(t)
    BY <1>3 DEF SendToken
  <1>4. CASE StreamError(t)
    BY <1>4 DEF StreamError
  <1>5. CASE ParseToolCalls(t)
    BY <1>5 DEF ParseToolCalls
  <1>6. CASE AnnounceToolCall(t)
    BY <1>6 DEF AnnounceToolCall
  <1>7. CASE ExecuteTool(t)
    BY <1>7 DEF ExecuteTool
  <1>8. CASE FinishToolCall(t)
    BY <1>8 DEF FinishToolCall
  <1>9. CASE RebuildContext(t)
    BY <1>9 DEF RebuildContext
  <1>10. CASE SendError(t)
    <2>1. /\ replies' \in [Turns -> Seq({"complete", "error"})]
          /\ \A u \in Turns \ {t} : replies'[u] = replies[u]
      BY <1>10, ReplyTypes DEF SendError
    <2> QED
      BY <1>10, <2>1 DEF SendError
  <1>11. CASE SaveAnswer(t)
    <2>0. \/ stored' = [stored EXCEPT ![t] = stored[t] \cup {full[t]}]
          \/ stored' = stored
      BY <1>11 DEF SaveAnswer, StoreAnswer
    <2>1. stored' \in [Turns -> SUBSET Nat]
      <3>1. stored \in [Turns -> SUBSET Nat]
        OBVIOUS
      <3>2. full[t] \in Nat /\ stored[t] \in SUBSET Nat
        OBVIOUS
      <3>3. stored[t] \cup {full[t]} \in SUBSET Nat
        BY <3>2
      <3> QED
        BY <2>0, <3>1, <3>3
    <2>2. \A u \in Turns \ {t} : stored'[u] = stored[u]
      BY <2>0
    <2>3. gpc' = [gpc EXCEPT ![t] = "complete"]
      BY <1>11 DEF SaveAnswer, StoreAnswer
    <2> QED
      BY <1>11, <2>1, <2>2, <2>3 DEF SaveAnswer
  <1>12. CASE Complete(t)
    <2>1. /\ replies' \in [Turns -> Seq({"complete", "error"})]
          /\ \A u \in Turns \ {t} : replies'[u] = replies[u]
      BY <1>12, ReplyTypes DEF Complete
    <2> QED
      BY <1>12, <2>1 DEF Complete
  <1>13. CASE Cleanup(t)
    BY <1>13 DEF Cleanup
  <1> QED
    BY <1>1, <1>2, <1>3, <1>4, <1>5, <1>6, <1>7, <1>8, <1>9, <1>10, <1>11,
       <1>12, <1>13 DEF Generate

LEMMA ServerDiesTypes ==
    ASSUME ChatTypes, ServerDies
    PROVE  ChatTypes'
  BY DEF ServerDies, ChatTypes, ReaderLabels, GenLabels

-----------------------------------------------------------------------------
(* Readers and turns.                                                      *)

LEMMA InitInv == Init => ReaderInv /\ TurnInv
  <1> SUFFICES ASSUME Init PROVE ReaderInv /\ TurnInv
    OBVIOUS
  <1>1. ReaderInv
    BY DEF Init, ReaderInv
  <1>2. Len(<<>>) = 0
    OBVIOUS
  <1>3. TurnInv
    BY <1>2 DEF Init, TurnInv, Unanswered, GenLabels
  <1> QED
    BY <1>1, <1>3

LEMMA ReaderKeeps ==
    ASSUME ChatTypes, ReaderInv, TurnInv, NEW c \in Conns, ReaderStep(c)
    PROVE  ReaderInv' /\ TurnInv'
  <1>1. /\ current[c] \in Turns /\ conn[current[c]] = c
        /\ gpc[current[c]] = "none" /\ replies[current[c]] = <<>>
    BY DEF ReaderStep, SaveUserMessage, ReportDbError, LoadHistory,
           RegisterAndSpawn, ReaderInv
  <1> DEFINE t == current[c]
  <1>2. \A d \in Conns \ {c} : rpc'[d] = rpc[d] /\ current' = current
    BY DEF ReaderStep, SaveUserMessage, ReportDbError, LoadHistory,
           RegisterAndSpawn, Read, ChatTypes
  <1>3. \A d \in Conns \ {c} : conn[current[d]] # c \/ current[d] # t
                                   \/ rpc[d] \notin {"save", "history",
                                                     "register", "report"}
    BY <1>1 DEF ReaderInv
  <1>4. UNCHANGED <<conn, full, streamed, stored>>
    BY DEF ReaderStep, SaveUserMessage, ReportDbError, LoadHistory,
           RegisterAndSpawn
  <1>5. CASE SaveUserMessage(c) \/ LoadHistory(c)
    <2>1. UNCHANGED <<current, gpc, replies>>
      BY <1>5 DEF SaveUserMessage, LoadHistory
    <2>2. TurnInv'
      BY <1>4, <2>1 DEF TurnInv
    <2>3. ReaderInv'
      BY <1>1, <1>2, <1>4, <2>1 DEF ReaderInv
    <2> QED
      BY <2>2, <2>3
  <1>6. CASE ReportDbError(c)
    <2>1. UNCHANGED <<current, gpc>> /\ rpc'[c] = "read"
      BY <1>6 DEF ReportDbError, Read, ChatTypes
    <2>2. /\ \A u \in Turns \ {t} : replies'[u] = replies[u]
          /\ Len(replies'[t]) = Len(replies[t]) + 1
      BY <1>1, <1>6, ReplyTypes DEF ReportDbError
    <2>3. Len(replies'[t]) <= 1
      BY <1>1, <2>2
    <2>4. conn[t] # None
      BY <1>1, NoneIsNobody
    <2>5. TurnInv'
      <3> SUFFICES ASSUME NEW u \in Turns
                   PROVE  TurnInv!(u)'
        BY DEF TurnInv
      <3>1. CASE u = t
        <4>1. conn'[u] # None /\ gpc'[u] = "none" /\ Len(replies'[u]) <= 1
          <5>1. conn'[u] # None
            BY <1>4, <2>4, <3>1
          <5>2. gpc'[u] = "none"
            BY <1>1, <2>1, <3>1
          <5>3. Len(replies'[u]) <= 1
            BY <2>3, <3>1
          <5> QED
            BY <5>1, <5>2, <5>3
        <4>2. streamed'[u] = 0 /\ full'[u] = 0
          BY <1>1, <1>4, <3>1 DEF TurnInv
        <4> QED
          BY <4>1, <4>2 DEF Unanswered
      <3>2. CASE u # t
        BY <1>4, <2>1, <2>2, <3>2 DEF TurnInv
      <3> QED
        BY <3>1, <3>2
    <2>6. ReaderInv'
      BY <1>1, <1>2, <1>3, <1>4, <2>1, <2>2 DEF ReaderInv
    <2> QED
      BY <2>5, <2>6
  <1>7. CASE RegisterAndSpawn(c)
    <2>1. UNCHANGED <<current, replies>> /\ rpc'[c] = "read"
      BY <1>7 DEF RegisterAndSpawn, Read, ChatTypes
    <2>2. /\ \A u \in Turns \ {t} : gpc'[u] = gpc[u]
          /\ gpc'[t] \in {"check", "dead"}
      BY <1>1, <1>7 DEF RegisterAndSpawn, Goto, ChatTypes
    <2>3. conn[t] # None
      BY <1>1, NoneIsNobody
    <2>4. TurnInv'
      BY <1>1, <1>4, <2>1, <2>2, <2>3 DEF TurnInv, Unanswered, GenLabels
    <2>5. ReaderInv'
      BY <1>1, <1>2, <1>3, <1>4, <2>1, <2>2 DEF ReaderInv
    <2> QED
      BY <2>4, <2>5
  <1> QED
    BY <1>5, <1>6, <1>7 DEF ReaderStep

LEMMA ClientKeeps ==
    ASSUME ChatTypes, ReaderInv, TurnInv, NEW c \in Conns, ClientStep(c)
    PROVE  ReaderInv' /\ TurnInv'
  <1>1. UNCHANGED <<gpc, replies, full, streamed, stored>>
    BY DEF ClientStep, Connect, UserMessage, StopGeneration, Disconnect
  <1>2. CASE Connect(c) \/ Disconnect(c) \/ \E s \in Sessions :
                StopGeneration(c, s)
    <2>1. UNCHANGED <<conn, current>>
      BY <1>2 DEF Connect, StopGeneration, Disconnect
    <2>2. \A d \in Conns : rpc'[d] \in {rpc[d], "read", "closed"}
      BY <1>2 DEF Connect, StopGeneration, Disconnect, Read, ChatTypes
    <2> QED
      BY <1>1, <2>1, <2>2 DEF ReaderInv, TurnInv
  <1>3. ASSUME NEW s \in Sessions, NEW t \in Turns, UserMessage(c, s, t)
        PROVE  ReaderInv' /\ TurnInv'
    <2>1. /\ conn[t] = None /\ conn'[t] = c
          /\ \A u \in Turns \ {t} : conn'[u] = conn[u]
      BY <1>3 DEF UserMessage, ChatTypes
    <2>2. \A d \in Conns \ {c} : rpc'[d] = rpc[d] /\ current'[d] = current[d]
      BY <1>3 DEF UserMessage, Read, ChatTypes
    <2>3. \/ rpc'[c] = "save" /\ current'[c] = t
          \/ rpc'[c] = "closed"
      BY <1>3 DEF UserMessage, Read, ChatTypes
    <2>4. TurnInv'
      BY <1>1, <2>1 DEF TurnInv
    <2>5. gpc[t] = "none" /\ replies[t] = <<>>
      BY <2>1 DEF TurnInv
    <2>6. \A d \in Conns \ {c} : rpc[d] \in {"save", "history", "register",
                                             "report"} => current[d] # t
      BY <2>1, NoneIsNobody DEF ReaderInv
    <2>7. ReaderInv'
      BY <1>1, <2>1, <2>2, <2>3, <2>5, <2>6 DEF ReaderInv
    <2> QED
      BY <2>4, <2>7
  <1> QED
    BY <1>2, <1>3 DEF ClientStep

\* Whatever a generation does, it does it to a turn no reader handles, and its
\* turn keeps its own part of the invariant.
LEMMA GenKeepsTurn ==
    ASSUME ChatTypes, TurnInv, NEW t \in Turns, Generate(t)
    PROVE  TurnInv!(t)'
  <1>1. conn[t] # None
    BY DEF Generate, StartInference, ReceiveDelta, SendToken, StreamError,
           ParseToolCalls, AnnounceToolCall, ExecuteTool, FinishToolCall,
           RebuildContext, SendError, SaveAnswer, Complete, Cleanup, TurnInv
  <1>2. conn' = conn
    BY GenTypes DEF GenFrame
  <1>3. /\ gpc[t] \in GenLabels
        /\ gpc[t] \in Unanswered => replies[t] = <<>>
        /\ gpc[t] \in Unanswered \ {"send", "error"} => streamed[t] = full[t]
        /\ gpc[t] = "send" => full[t] = streamed[t] + 1
        /\ Len(replies[t]) <= 1
        /\ full[t] \in Nat /\ streamed[t] \in Nat
    BY DEF TurnInv, ChatTypes
  <1>4. CASE StartInference(t)
    <2>1. /\ gpc[t] = "check" /\ gpc'[t] \in {"save", "stream", "error"}
          /\ UNCHANGED <<full, streamed, replies>>
      BY <1>4 DEF StartInference, Goto, ChatTypes
    <2> QED
      BY <1>1, <1>2, <1>3, <2>1 DEF Unanswered, GenLabels
  <1>5. CASE ReceiveDelta(t)
    <2>1. /\ gpc[t] = "stream" /\ gpc'[t] = "send" /\ full'[t] = full[t] + 1
          /\ UNCHANGED <<streamed, replies>>
      BY <1>5 DEF ReceiveDelta, Goto, ChatTypes
    <2> QED
      BY <1>1, <1>2, <1>3, <2>1 DEF Unanswered, GenLabels
  <1>6. CASE SendToken(t)
    <2>1. /\ gpc[t] = "send" /\ gpc'[t] = "stream"
          /\ streamed'[t] = streamed[t] + 1
          /\ UNCHANGED <<full, replies>>
      BY <1>6 DEF SendToken, Goto, ChatTypes
    <2> QED
      BY <1>1, <1>2, <1>3, <2>1 DEF Unanswered, GenLabels
  <1>7. CASE \/ StreamError(t) \/ ParseToolCalls(t) \/ AnnounceToolCall(t)
             \/ ExecuteTool(t) \/ FinishToolCall(t) \/ RebuildContext(t)
    <2>1. /\ gpc[t] \in {"stream", "call", "execute", "finish"}
          /\ gpc'[t] \in {"error", "save", "call", "execute", "finish", "check",
                          "dead"}
          /\ UNCHANGED <<full, streamed, replies>>
      BY <1>7 DEF StreamError, ParseToolCalls, AnnounceToolCall, ExecuteTool,
                  FinishToolCall, RebuildContext, Goto, ChatTypes
    <2> QED
      BY <1>1, <1>2, <1>3, <2>1 DEF Unanswered, GenLabels
  <1>8. CASE SendError(t) \/ Complete(t)
    <2>1. /\ gpc[t] \in {"error", "complete"} /\ gpc'[t] \in {"done", "cleanup"}
      BY <1>8 DEF SendError, Complete, Goto, ChatTypes
    <2>2. replies[t] = <<>>
      BY <1>3, <2>1 DEF Unanswered, GenLabels
    <2>3. Len(replies'[t]) = Len(replies[t]) + 1
      BY <1>8, ReplyTypes DEF SendError, Complete
    <2>4. Len(replies'[t]) <= 1
      BY <2>2, <2>3
    <2> QED
      BY <1>1, <1>2, <2>1, <2>4 DEF Unanswered
  <1>9. CASE SaveAnswer(t)
    <2>1. /\ gpc[t] = "save" /\ gpc'[t] = "complete"
          /\ UNCHANGED <<full, streamed, replies>>
      BY <1>9 DEF SaveAnswer, StoreAnswer, Goto, ChatTypes
    <2>2. stored'[t] # {} \/ DbMayFail
      BY <1>9 DEF SaveAnswer, StoreAnswer, ChatTypes
    <2> QED
      BY <1>1, <1>2, <1>3, <2>1, <2>2 DEF Unanswered, GenLabels
  <1>10. CASE Cleanup(t)
    <2>1. /\ gpc'[t] = "done" /\ replies' = replies
      BY <1>10 DEF Cleanup, Goto, ChatTypes
    <2> QED
      BY <1>1, <1>2, <1>3, <2>1 DEF Unanswered
  <1> QED
    BY <1>4, <1>5, <1>6, <1>7, <1>8, <1>9, <1>10 DEF Generate

LEMMA GenKeeps ==
    ASSUME ChatTypes, ReaderInv, TurnInv, NEW t \in Turns, Generate(t)
    PROVE  ReaderInv' /\ TurnInv'
  <1>1. GenFrame(t)
    BY GenTypes
  <1>2. gpc[t] # "none"
    BY DEF Generate, StartInference, ReceiveDelta, SendToken, StreamError,
           ParseToolCalls, AnnounceToolCall, ExecuteTool, FinishToolCall,
           RebuildContext, SendError, SaveAnswer, Complete, Cleanup
  <1>3. ReaderInv'
    BY <1>1, <1>2 DEF GenFrame, ReaderInv
  <1>4. TurnInv'
    <2>1. TurnInv!(t)'
      BY GenKeepsTurn
    <2>2. \A u \in Turns \ {t} : TurnInv!(u)'
      BY <1>1 DEF GenFrame, TurnInv
    <2> QED
      BY <2>1, <2>2 DEF TurnInv
  <1> QED
    BY <1>3, <1>4

LEMMA ServerDiesKeeps ==
    ASSUME ChatTypes, ReaderInv, TurnInv, ServerDies
    PROVE  ReaderInv' /\ TurnInv'
  <1>1. ReaderInv'
    BY DEF ServerDies, ReaderInv, ChatTypes
  <1>2. \A t \in Turns : /\ gpc'[t] \in {gpc[t], "dead"}
                         /\ gpc[t] = "none" => gpc'[t] = "none"
                         /\ gpc'[t] \in {"none", "done", "dead"}
    BY DEF ServerDies
  <1>3. UNCHANGED <<conn, replies, full, streamed, stored>>
    BY DEF ServerDies
  <1>4. TurnInv'
    BY <1>2, <1>3 DEF TurnInv, Unanswered
  <1> QED
    BY <1>1, <1>4

LEMMA ChatInvariant == Spec => []ChatInv
  <1>1. Init => ChatInv
    BY InitTypes, InitInv DEF ChatInv
  <1>2. ChatInv /\ [Next]_vars => ChatInv'
    <2> SUFFICES ASSUME ChatInv, [Next]_vars PROVE ChatInv'
      OBVIOUS
    <2> USE DEF ChatInv
    <2>1. CASE UNCHANGED vars
      BY <2>1 DEF vars, ChatTypes, ReaderInv, TurnInv
    <2>2. ASSUME NEW c \in Conns, ReaderStep(c) PROVE ChatInv'
      BY <2>2, ReaderTypes, ReaderKeeps
    <2>3. ASSUME NEW c \in Conns, ClientStep(c) PROVE ChatInv'
      BY <2>3, ClientTypes, ClientKeeps
    <2>4. ASSUME NEW t \in Turns, Generate(t) PROVE ChatInv'
      BY <2>4, GenTypes, GenKeeps
    <2>5. CASE ServerDies
      BY <2>5, ServerDiesTypes, ServerDiesKeeps
    <2> QED
      BY <2>1, <2>2, <2>3, <2>4, <2>5 DEF Next, ClientStep
  <1> QED
    BY <1>1, <1>2, PTL DEF Spec

-----------------------------------------------------------------------------
(* Stops and replies.                                                      *)

\* A stop that was handled ends the turn, whatever its generation was about
\* to do: no inference is started and no delta is taken any more.
THEOREM StoppedIsOver == Spec => StopEnds
  <1>1. ASSUME ChatTypes, Next, NEW t \in Turns, cancelled[t]
        PROVE  iteration'[t] = iteration[t] /\ full'[t] = full[t]
    <2>1. ASSUME NEW c \in Conns, ReaderStep(c) \/ ClientStep(c)
          PROVE  UNCHANGED <<iteration, full>>
      BY <2>1 DEF ReaderStep, SaveUserMessage, ReportDbError, LoadHistory,
                  RegisterAndSpawn, ClientStep, Connect, Disconnect,
                  StopGeneration, UserMessage
    <2>2. ASSUME NEW u \in Turns, Generate(u)
          PROVE  /\ iteration'[t] = iteration[t] \/ StartInference(u)
                 /\ full'[t] = full[t] \/ ReceiveDelta(u)
      BY <2>2 DEF Generate, SendToken, StreamError, ParseToolCalls,
                  AnnounceToolCall, ExecuteTool, FinishToolCall, StartInference,
                  ReceiveDelta, RebuildContext, SendError, SaveAnswer, Complete,
                  Cleanup
    <2>3. ASSUME NEW u \in Turns, StartInference(u)
          PROVE  iteration'[t] = iteration[t]
      BY <1>1, <2>3 DEF StartInference, ChatTypes
    <2>4. ASSUME NEW u \in Turns, ReceiveDelta(u)
          PROVE  full'[t] = full[t]
      BY <1>1, <2>4 DEF ReceiveDelta, ChatTypes
    <2>5. CASE ServerDies
      BY <2>5 DEF ServerDies
    <2> QED
      BY <1>1, <2>1, <2>2, <2>3, <2>4, <2>5 DEF Next, ClientStep
  <1>2. ChatInv /\ [Next]_vars =>
           [\A t \in Turns : cancelled[t] =>
               iteration'[t] = iteration[t] /\ full'[t] = full[t]]_vars
    BY <1>1 DEF ChatInv
  <1> QED
    BY <1>2, ChatInvariant, PTL DEF Spec, StopEnds

\* No turn is told its end twice: an error that is reported is followed by
\* nothing, and message_complete by no error.
THEOREM RepliedOnce == Spec => []OneReply
  <1>1. ChatInv => OneReply
    BY DEF ChatInv, TurnInv, OneReply
  <1> QED
    BY <1>1, ChatInvariant, PTL

-----------------------------------------------------------------------------
(* The promise of an answer.                                               *)

LEMMA FirstDeltasGrow ==
    ASSUME NEW n \in Nat
    PROVE  /\ Len(FirstDeltas(n + 1)) = Len(FirstDeltas(n)) + 1
           /\ SubSeq(FirstDeltas(n + 1), 1, Len(FirstDeltas(n))) = FirstDeltas(n)
  <1>1. \A k \in Nat : FirstDeltas(k) \in Seq(Nat) /\ Len(FirstDeltas(k)) = k
    BY DEF FirstDeltas
  <1>2. \A i \in 1..n : FirstDeltas(n + 1)[i] = i /\ FirstDeltas(n)[i] = i
    BY DEF FirstDeltas
  <1> DEFINE cut == SubSeq(FirstDeltas(n + 1), 1, n)
  <1>3. /\ cut \in Seq(Nat) /\ Len(cut) = n
        /\ \A i \in 1..n : cut[i] = FirstDeltas(n + 1)[1 + i - 1]
    BY <1>2, SubSeqProperties
  <1>4. \A i \in 1..n : cut[i] = i
    BY <1>2, <1>3
  <1>5. cut = FirstDeltas(n)
    BY <1>1, <1>2, <1>3, <1>4, SeqEqual
  <1>6. Len(FirstDeltas(n)) = n /\ Len(FirstDeltas(n + 1)) = n + 1
    BY <1>1
  <1>7. SubSeq(FirstDeltas(n + 1), 1, Len(FirstDeltas(n))) = FirstDeltas(n)
    BY <1>5, <1>6
  <1> QED
    BY <1>6, <1>7

\* One turn moves, and nothing of the others is seen to change.
LEMMA EnterOne ==
    ASSUME NEW t \in Turns, NEW from, NEW to,
           Phase(t) \in from, Phase(t)' = to,
           \A u \in Turns \ {t} : Phase(u)' = Phase(u)
    PROVE  Promise!Enter(t, from, to)
  BY DEF Promise!Enter

\* A step that moves no turn, or loses the task of one turn.
LEMMA StillPromised ==
    ASSUME \A u \in Turns : Phase(u)' = Phase(u),
           UNCHANGED <<streamed, stored, replies>>
    PROVE  UNCHANGED Promise!answerVars
  BY DEF Promise!answerVars

LEMMA LostPromised ==
    ASSUME NEW lost \in SUBSET Turns,
           \A u \in Turns : Phase(u)' = IF u \in lost /\ Phase(u) # "none"
                                        THEN "over" ELSE Phase(u),
           UNCHANGED <<streamed, stored, replies>>
    PROVE  Promise!Next
  <1>1. Promise!Lose
    BY DEF Promise!Lose
  <1> QED
    BY <1>1 DEF Promise!Next

LEMMA ReaderPromised ==
    ASSUME ChatInv, NEW c \in Conns, ReaderStep(c)
    PROVE  Promise!Next \/ UNCHANGED Promise!answerVars
  <1> USE DEF ChatInv
  <1>0. PICK t \in Turns : t = current[c]
    BY DEF ReaderStep, SaveUserMessage, ReportDbError, LoadHistory,
           RegisterAndSpawn, ReaderInv
  <1>1. /\ conn[t] = c /\ conn[t] # None
        /\ gpc[t] = "none" /\ replies[t] = <<>>
    BY <1>0, NoneIsNobody
       DEF ReaderStep, SaveUserMessage, ReportDbError, LoadHistory,
           RegisterAndSpawn, ReaderInv
  <1>2. Phase(t) = "open"
    BY <1>1 DEF Phase, Answered
  <1>3. UNCHANGED <<conn, streamed, stored>>
    BY DEF ReaderStep, SaveUserMessage, ReportDbError, LoadHistory,
           RegisterAndSpawn
  <1>4. CASE SaveUserMessage(c) \/ LoadHistory(c)
    <2>1. UNCHANGED <<gpc, replies>>
      BY <1>4 DEF SaveUserMessage, LoadHistory
    <2>2. \A u \in Turns : Phase(u)' = Phase(u)
      BY <1>3, <2>1 DEF Phase, Answered
    <2> QED
      BY <1>3, <2>1, <2>2, StillPromised
  <1>5. CASE ReportDbError(c)
    <2>1. gpc' = gpc
      BY <1>5 DEF ReportDbError
    <2>2. /\ \A u \in Turns \ {t} : replies'[u] = replies[u]
          /\ replies'[t] # <<>>
          /\ replies' = [replies EXCEPT ![t] = Append(@, "error")]
      BY <1>0, <1>5, ReplyTypes DEF ReportDbError, Reply
    <2>3. \A u \in Turns \ {t} : Phase(u)' = Phase(u)
      BY <1>3, <2>1, <2>2 DEF Phase, Answered
    <2>4. Phase(t)' = "over"
      BY <1>1, <1>3, <2>2 DEF Phase, Answered
    <2>5. Promise!Enter(t, {"open", "final"}, "over")
      BY <1>1, <1>2, <2>3, <2>4, EnterOne
    <2>6. Promise!Fail(t)
      BY <1>3, <2>2, <2>5 DEF Promise!Fail
    <2> QED
      BY <1>1, <2>6 DEF Promise!Next
  <1>6. CASE RegisterAndSpawn(c)
    <2>1. /\ replies' = replies /\ gpc'[t] \in {"check", "dead"}
          /\ \A u \in Turns \ {t} : gpc'[u] = gpc[u]
      BY <1>0, <1>6 DEF RegisterAndSpawn, Goto, ChatTypes
    <2>2. \A u \in Turns \ {t} : Phase(u)' = Phase(u)
      BY <1>3, <2>1 DEF Phase, Answered
    <2>3. CASE gpc'[t] = "check"
      <3>1. Phase(t)' = "open"
        BY <1>1, <1>3, <2>1, <2>3 DEF Phase, Answered
      <3> QED
        BY <1>2, <1>3, <2>1, <2>2, <3>1, StillPromised
    <2>4. CASE gpc'[t] = "dead"
      <3>1. Phase(t)' = "over"
        BY <1>1, <1>3, <2>1, <2>4 DEF Phase, Answered
      <3> QED
        BY <1>1, <1>2, <1>3, <2>1, <2>2, <3>1, LostPromised
    <2> QED
      BY <2>1, <2>3, <2>4
  <1> QED
    BY <1>4, <1>5, <1>6 DEF ReaderStep

LEMMA ClientPromised ==
    ASSUME ChatInv, NEW c \in Conns, ClientStep(c)
    PROVE  Promise!Next \/ UNCHANGED Promise!answerVars
  <1> USE DEF ChatInv
  <1>1. UNCHANGED <<gpc, streamed, stored, replies>>
    BY DEF ClientStep, Connect, Disconnect, StopGeneration, UserMessage
  <1>2. CASE conn' = conn
    <2>1. \A u \in Turns : Phase(u)' = Phase(u)
      BY <1>1, <1>2 DEF Phase, Answered
    <2> QED
      BY <1>1, <2>1, StillPromised
  <1>3. ASSUME NEW s \in Sessions, NEW t \in Turns, UserMessage(c, s, t)
        PROVE  Promise!Next
    <2>1. /\ conn[t] = None /\ conn'[t] = c /\ c # None
          /\ \A u \in Turns \ {t} : conn'[u] = conn[u]
      BY <1>3, NoneIsNobody DEF UserMessage, ChatTypes
    <2>2. \A u \in Turns \ {t} : Phase(u)' = Phase(u)
      BY <1>1, <2>1 DEF Phase, Answered
    <2>3. gpc[t] = "none" /\ replies[t] = <<>>
      BY <2>1 DEF TurnInv
    <2>4. Phase(t) = "none" /\ Phase(t)' = "open"
      BY <1>1, <2>1, <2>3 DEF Phase, Answered
    <2>5. Promise!Enter(t, {"none"}, "open")
      BY <2>2, <2>4, EnterOne
    <2>6. Promise!Ask(t)
      BY <1>1, <2>5 DEF Promise!Ask
    <2> QED
      BY <2>6 DEF Promise!Next
  <1> QED
    BY <1>2, <1>3 DEF ClientStep, Connect, Disconnect, StopGeneration

\* The phase of a turn whose generation runs.
LEMMA GenPhase ==
    ASSUME ChatInv, NEW t \in Turns, Generate(t)
    PROVE  /\ conn[t] # None /\ conn' = conn
           /\ gpc[t] \in Unanswered => replies[t] = <<>>
           /\ \A u \in Turns \ {t} : Phase(u)' = Phase(u)
  <1> USE DEF ChatInv
  <1>1. GenFrame(t)
    BY GenTypes
  <1>2. conn[t] # None
    BY DEF Generate, StartInference, ReceiveDelta, SendToken, StreamError,
           ParseToolCalls, AnnounceToolCall, ExecuteTool, FinishToolCall,
           RebuildContext, SendError, SaveAnswer, Complete, Cleanup, TurnInv
  <1>3. \A u \in Turns \ {t} : Phase(u)' = Phase(u)
    BY <1>1 DEF GenFrame, Phase, Answered
  <1> QED
    BY <1>1, <1>2, <1>3 DEF GenFrame, TurnInv

\* The steps that neither show, store nor tell anything.
LEMMA QuietPromised ==
    ASSUME ChatInv, NEW t \in Turns, Generate(t),
           \/ StartInference(t) \/ ReceiveDelta(t) \/ StreamError(t)
           \/ ParseToolCalls(t) \/ AnnounceToolCall(t) \/ ExecuteTool(t)
           \/ FinishToolCall(t) \/ RebuildContext(t)
    PROVE  Promise!Next \/ UNCHANGED Promise!answerVars
  <1> DEFINE Open == {"check", "stream", "send", "call", "execute", "finish",
                      "error"}
  <1>1. /\ gpc[t] \in Open /\ gpc'[t] \in Open \cup {"save", "dead"}
        /\ UNCHANGED <<streamed, stored, replies>>
    BY DEF StartInference, ReceiveDelta, StreamError, ParseToolCalls,
           AnnounceToolCall, ExecuteTool, FinishToolCall, RebuildContext, Goto,
           ChatInv, ChatTypes
  <1>2. Phase(t) = "open"
    BY <1>1, GenPhase DEF Phase, Answered, Unanswered, GenLabels
  <1>3. replies[t] = <<>>
    BY <1>1, GenPhase DEF Unanswered, GenLabels
  <1>4. CASE gpc'[t] \in Open
    <2>1. Phase(t)' = "open"
      BY <1>1, <1>3, <1>4, GenPhase DEF Phase, Answered
    <2> QED
      BY <1>1, <1>2, <2>1, GenPhase, StillPromised
  <1>5. CASE gpc'[t] = "save"
    <2>1. Phase(t)' = "final"
      BY <1>1, <1>3, <1>5, GenPhase DEF Phase, Answered
    <2>2. Promise!Enter(t, {"open"}, "final")
      BY <1>2, <2>1, GenPhase, EnterOne
    <2>3. Promise!Finish(t)
      BY <1>1, <2>2 DEF Promise!Finish
    <2> QED
      BY <2>3 DEF Promise!Next
  <1>6. CASE gpc'[t] = "dead"
    <2>1. Phase(t)' = "over"
      BY <1>1, <1>3, <1>6, GenPhase DEF Phase, Answered
    <2>2. \A u \in Turns : Phase(u)' = IF u \in {t} /\ Phase(u) # "none"
                                       THEN "over" ELSE Phase(u)
      BY <1>2, <2>1, GenPhase
    <2> QED
      BY <1>1, <2>2, LostPromised
  <1> QED
    BY <1>1, <1>4, <1>5, <1>6

LEMMA ShowPromised ==
    ASSUME ChatInv, NEW t \in Turns, Generate(t), SendToken(t)
    PROVE  Promise!Next
  <1>1. /\ gpc[t] = "send" /\ gpc'[t] = "stream"
        /\ streamed \in [Turns -> Nat]
        /\ streamed' = [streamed EXCEPT ![t] = streamed[t] + 1]
        /\ UNCHANGED <<stored, replies>>
    BY DEF SendToken, Goto, ChatInv, ChatTypes
  <1>2. replies[t] = <<>>
    BY <1>1, GenPhase DEF Unanswered, GenLabels
  <1>3. Phase(t) = "open" /\ Phase(t)' = "open"
    BY <1>1, <1>2, GenPhase DEF Phase, Answered
  <1>4. Promise!Enter(t, {"open"}, "open")
    BY <1>3, GenPhase, EnterOne
  <1> DEFINE text == [u \in Turns |-> FirstDeltas(streamed[u])]
  <1>5. text' = [text EXCEPT ![t] = text'[t]]
    BY <1>1
  <1>6. /\ text[t] = FirstDeltas(streamed[t])
        /\ text'[t] = FirstDeltas(streamed[t] + 1)
    BY <1>1
  <1>7. /\ Len(text'[t]) = Len(text[t]) + 1
        /\ SubSeq(text'[t], 1, Len(text[t])) = text[t]
    BY <1>1, <1>6, FirstDeltasGrow
  <1>8. Promise!Show(t)
    BY <1>1, <1>4, <1>5, <1>7 DEF Promise!Show
  <1> QED
    BY <1>8 DEF Promise!Next

LEMMA KeepPromised ==
    ASSUME ChatInv, NEW t \in Turns, Generate(t), SaveAnswer(t)
    PROVE  Promise!Next \/ UNCHANGED Promise!answerVars
  <1>1. /\ gpc[t] = "save" /\ gpc'[t] = "complete"
        /\ UNCHANGED <<streamed, replies>>
    BY DEF SaveAnswer, StoreAnswer, Goto, ChatInv, ChatTypes
  <1>2. replies[t] = <<>> /\ streamed[t] = full[t]
    BY <1>1 DEF ChatInv, TurnInv, Unanswered, GenLabels
  <1>3. Phase(t) = "final" /\ Phase(t)' = "final"
    BY <1>1, <1>2, GenPhase DEF Phase, Answered
  <1>4. CASE stored' = stored
    BY <1>1, <1>3, <1>4, GenPhase, StillPromised
  <1>5. CASE stored' = [stored EXCEPT ![t] = stored[t] \cup {full[t]}]
    <2>1. Promise!Enter(t, {"final"}, "final")
      BY <1>3, GenPhase, EnterOne
    <2> DEFINE texts == [u \in Turns |-> {FirstDeltas(n) : n \in stored[u]}]
    <2>2. stored \in [Turns -> SUBSET Nat]
      BY DEF ChatInv, ChatTypes
    <2>3. texts' = [texts EXCEPT ![t] =
                       texts[t] \cup {FirstDeltas(streamed[t])}]
      BY <1>2, <1>5, <2>2
    <2>4. Promise!Keep(t)
      BY <1>1, <2>1, <2>3 DEF Promise!Keep
    <2> QED
      BY <2>4 DEF Promise!Next
  <1> QED
    BY <1>4, <1>5 DEF SaveAnswer, StoreAnswer

LEMMA TellPromised ==
    ASSUME ChatInv, NEW t \in Turns, Generate(t), SendError(t) \/ Complete(t)
    PROVE  Promise!Next
  <1> USE DEF ChatInv
  <1>1. /\ gpc[t] \in {"error", "complete"}
        /\ UNCHANGED <<streamed, stored>>
    BY DEF SendError, Complete
  <1>2. replies[t] = <<>>
    BY <1>1, GenPhase DEF Unanswered, GenLabels
  <1>3. replies'[t] # <<>>
    BY ReplyTypes DEF SendError, Complete
  <1>4. Phase(t)' = "over"
    BY <1>3, GenPhase DEF Phase, Answered
  <1>5. CASE SendError(t)
    <2>1. Phase(t) = "open"
      BY <1>2, <1>5, GenPhase DEF SendError, Phase, Answered
    <2>2. Promise!Enter(t, {"open", "final"}, "over")
      BY <1>4, <2>1, GenPhase, EnterOne
    <2>3. Promise!Fail(t)
      BY <1>1, <1>5, <2>2 DEF SendError, Reply, Promise!Fail
    <2> QED
      BY <2>3 DEF Promise!Next
  <1>6. CASE Complete(t)
    <2>1. Phase(t) = "final"
      BY <1>2, <1>6, GenPhase DEF Complete, Phase, Answered
    <2>2. Promise!Enter(t, {"final"}, "over")
      BY <1>4, <2>1, GenPhase, EnterOne
    <2>3. stored[t] # {} \/ DbMayFail
      BY <1>6 DEF Complete, TurnInv
    <2>4. \/ [u \in Turns |-> {FirstDeltas(n) : n \in stored[u]}][t] # {}
          \/ t \in {u \in Turns : DbMayFail}
      BY <2>3
    <2>5. Promise!Complete(t)
      BY <1>1, <1>6, <2>2, <2>4 DEF Complete, Reply, Promise!Complete
    <2> QED
      BY <2>5 DEF Promise!Next
  <1> QED
    BY <1>5, <1>6

LEMMA CleanupPromised ==
    ASSUME ChatInv, NEW t \in Turns, Generate(t), Cleanup(t)
    PROVE  Promise!Next \/ UNCHANGED Promise!answerVars
  <1>1. gpc'[t] = "done" /\ UNCHANGED <<streamed, stored, replies>>
    BY DEF Cleanup, Goto, ChatInv, ChatTypes
  <1>2. Phase(t)' = "over" /\ Phase(t) # "none"
    BY <1>1, GenPhase DEF Phase
  <1>3. \A u \in Turns : Phase(u)' = IF u \in {t} /\ Phase(u) # "none"
                                     THEN "over" ELSE Phase(u)
    BY <1>2, GenPhase
  <1> QED
    BY <1>1, <1>3, LostPromised

LEMMA ServerDiesPromised ==
    ASSUME ServerDies
    PROVE  Promise!Next
  <1> DEFINE lost == {t \in Turns : gpc[t] \notin {"none", "done"}}
  <1>1. UNCHANGED <<conn, streamed, stored, replies>>
    BY DEF ServerDies
  <1>2. \A u \in Turns : Phase(u)' = IF u \in lost /\ Phase(u) # "none"
                                     THEN "over" ELSE Phase(u)
    BY <1>1 DEF ServerDies, Phase, Answered
  <1> QED
    BY <1>1, <1>2, LostPromised

LEMMA InitPromised == Init => Promise!Init
  BY DEF Init, Promise!Init, Phase, FirstDeltas

\* Whatever other turns, stops, panics, failures and restarts do, and however
\* many of them there are: a turn is shown a text that only grows, stores that
\* text and no other, and is told it is complete only when it is stored.
THEOREM PromiseKept == Spec => AnswersPromised
  <1>1. ASSUME ChatInv, [Next]_vars
        PROVE  [Promise!Next]_(Promise!answerVars)
    <2>1. CASE UNCHANGED vars
      <3>1. \A u \in Turns : Phase(u)' = Phase(u)
        BY <2>1 DEF vars, Phase, Answered
      <3> QED
        BY <2>1, <3>1, StillPromised DEF vars
    <2>2. ASSUME NEW t \in Turns, Generate(t)
          PROVE  Promise!Next \/ UNCHANGED Promise!answerVars
      BY <1>1, <2>2, QuietPromised, ShowPromised, KeepPromised, TellPromised,
         CleanupPromised DEF Generate
    <2> QED
      BY <1>1, <2>1, <2>2, ReaderPromised, ClientPromised, ServerDiesPromised
         DEF Next, ClientStep
  <1> QED
    BY <1>1, InitPromised, ChatInvariant, PTL
       DEF Spec, AnswersPromised, Promise!Spec

\* What a chat client may rely on: the text of a turn that was completed is
\* stored as it was shown, unless the database may fail, and the client is told
\* one thing, message_complete or an error, and nothing after it.
COROLLARY CompleteIsStored ==
    Spec => [](Promise!CompleteIsKept /\ Promise!LastWord)
  BY PromiseKept, Promise!PromiseHolds, PTL DEF AnswersPromised
-----------------------------------------------------------------------------
(* Parsing.                                                                *)

NoCalls == [open |-> FALSE, block |-> <<>>, calls |-> <<>>]
Parsers == [open : BOOLEAN, block : Seq(Lines), calls : Seq(ModelCalls)]

\* One sequence begins another.
Begins(s, t) == Len(s) <= Len(t) /\ \A i \in 1..Len(s) : s[i] = t[i]

LEMMA ParsingFolds ==
    \A text : ParseLines(text) = Parsing!Fold(NoCalls, text)
  BY DEF ParseLines, NoCalls, Parsing!Fold, FoldLeft, Parsing!FoldLeft,
         MapThenFoldSet, Parsing!MapThenFoldSet, Max, Parsing!Max

LEMMA BeginsIsPrefix ==
    ASSUME NEW S, NEW s \in Seq(S), NEW t \in Seq(S)
    PROVE  IsPrefix(s, t) <=> Begins(s, t)
  <1> DEFINE n == Len(s)
  <1>1. SubSeq(s, 1, n) = s /\ n \in Nat
    BY SubSeqFull
  <1>2. CASE n <= Len(t)
    <2> DEFINE part == SubSeq(t, 1, n)
    <2>1. \A i \in 1..n : t[i] \in S
      BY <1>2
    <2>2. /\ part \in Seq(S) /\ Len(part) = n
          /\ \A i \in 1..n : part[i] = t[i]
      BY <1>1, <2>1, SubSeqProperties
    <2>3. s = part <=> \A i \in 1..n : s[i] = part[i]
      <3> HIDE DEF part
      <3> QED
        BY <2>2, SeqEqual
    <2> QED
      BY <1>1, <1>2, <2>2, <2>3 DEF IsPrefix, Begins
  <1>3. CASE ~(n <= Len(t))
    BY <1>3 DEF IsPrefix, Begins
  <1> QED
    BY <1>2, <1>3

LEMMA BeginsTransitive ==
    ASSUME NEW S, NEW r \in Seq(S), NEW s \in Seq(S), NEW t \in Seq(S),
           Begins(r, s), Begins(s, t)
    PROVE  Begins(r, t)
  <1>1. Len(r) \in Nat /\ Len(s) \in Nat /\ Len(t) \in Nat
    OBVIOUS
  <1>2. \A i \in 1..Len(r) : i \in 1..Len(s)
    BY <1>1 DEF Begins
  <1> QED
    BY <1>1, <1>2 DEF Begins

LEMMA BlockCalls ==
    ASSUME NEW block \in Seq(Lines)
    PROVE  CallsOf(block) \in Seq(ModelCalls)
  <1>1. CASE \E call \in ModelCalls : Writes(block, call)
    <2> DEFINE found == CHOOSE call \in ModelCalls : Writes(block, call)
    <2>1. found \in ModelCalls
      BY <1>1
    <2> HIDE DEF found
    <2>2. <<found>> \in Seq(ModelCalls)
      BY <2>1
    <2> QED
      BY <1>1, <2>2 DEF CallsOf, found
  <1>2. CASE ~\E call \in ModelCalls : Writes(block, call)
    BY <1>2, EmptySeq DEF CallsOf
  <1> QED
    BY <1>1, <1>2

\* A further line adds calls after those that were found, or none.
LEMMA LineKeepsCalls ==
    ASSUME NEW parser \in Parsers, NEW line \in Lines
    PROVE  /\ ParseLine(parser, line) \in Parsers
           /\ Begins(parser.calls, ParseLine(parser, line).calls)
  <1> DEFINE after == ParseLine(parser, line)
  <1>1. /\ parser.block \in Seq(Lines) /\ parser.calls \in Seq(ModelCalls)
        /\ parser.open \in BOOLEAN
    BY DEF Parsers
  <1>2. Begins(parser.calls, parser.calls)
    BY <1>1 DEF Begins
  <1>3. CASE line = Fence /\ parser.open
    <2> DEFINE found == CallsOf(parser.block)
    <2>1. found \in Seq(ModelCalls)
      BY <1>1, BlockCalls
    <2>2. after = [open |-> FALSE, block |-> <<>>,
                   calls |-> parser.calls \o found]
      BY <1>3 DEF ParseLine
    <2> HIDE DEF found
    <2>3. parser.calls \o found \in Seq(ModelCalls)
      BY <1>1, <2>1
    <2>4. Begins(parser.calls, parser.calls \o found)
      BY <1>1, <2>1, ConcatProperties DEF Begins
    <2>5. <<>> \in Seq(Lines)
      BY EmptySeq
    <2> QED
      BY <2>2, <2>3, <2>4, <2>5 DEF Parsers
  <1>4. CASE line = Fence /\ ~parser.open
    <2>1. after = [parser EXCEPT !.open = TRUE]
      BY <1>4 DEF ParseLine
    <2>2. after \in Parsers /\ after.calls = parser.calls
      BY <2>1 DEF Parsers
    <2> QED
      BY <1>2, <2>2
  <1>5. CASE line # Fence /\ parser.open
    <2>1. after = [parser EXCEPT !.block = Append(parser.block, line)]
      BY <1>5 DEF ParseLine
    <2>2. Append(parser.block, line) \in Seq(Lines)
      BY <1>1, AppendProperties
    <2>3. after \in Parsers /\ after.calls = parser.calls
      BY <2>1, <2>2 DEF Parsers
    <2> QED
      BY <1>2, <2>3
  <1>6. CASE line # Fence /\ ~parser.open
    <2>1. after = parser
      BY <1>6 DEF ParseLine
    <2> QED
      BY <1>2, <2>1
  <1> QED
    BY <1>1, <1>3, <1>4, <1>5, <1>6

LEMMA ParsedTypes ==
    ASSUME NEW text \in Seq(Lines)
    PROVE  ParseLines(text) \in Parsers
  <1> DEFINE T == {s \in Seq(Lines) : Parsing!Fold(NoCalls, s) \in Parsers}
  <1>1. <<>> \in T
    <2>1. NoCalls \in Parsers
      BY EmptySeq DEF NoCalls, Parsers
    <2> QED
      BY <2>1, Parsing!FoldEmpty
  <1>2. \A s \in Seq(Lines), x \in Lines : s \in T => Append(s, x) \in T
    BY Parsing!FoldAppend, LineKeepsCalls
  <1>3. Seq(Lines) \subseteq T
    <2> HIDE DEF T
    <2> QED
      BY <1>1, <1>2, Parsing!SeqSetInduction
  <1> QED
    BY <1>3, ParsingFolds

\* The calls of the first lines of a text are the first calls of the text.
LEMMA PartBegins ==
    ASSUME NEW text \in Seq(Lines), NEW n \in 0..Len(text)
    PROVE  Begins(ParseLines(SubSeq(text, 1, n)).calls, ParseLines(text).calls)
  <1> DEFINE C(s) == ParseLines(s).calls
             T == {s \in Seq(Lines) :
                     \A k \in 0..Len(s) : Begins(C(SubSeq(s, 1, k)), C(s))}
  <1>0. \A s \in Seq(Lines) : C(s) \in Seq(ModelCalls)
    BY ParsedTypes DEF Parsers
  <1>1. ASSUME NEW s \in Seq(Lines)
        PROVE  SubSeq(s, 1, Len(s)) = s /\ Begins(C(s), C(s))
    BY <1>0, <1>1, SubSeqFull DEF Begins
  <1>2. <<>> \in T
    <2>1. <<>> \in Seq(Lines) /\ Len(<<>>) = 0
      BY EmptySeq
    <2>2. SubSeq(<<>>, 1, 0) = <<>> /\ Begins(C(<<>>), C(<<>>))
      BY <1>1, <2>1
    <2>3. \A k \in 0..Len(<<>>) : k = 0
      BY <2>1
    <2> HIDE DEF C
    <2> QED
      BY <2>1, <2>2, <2>3
  <1>3. ASSUME NEW s \in Seq(Lines), NEW x \in Lines, s \in T
        PROVE  Append(s, x) \in T
    <2> DEFINE a == Append(s, x)
    <2>1. a \in Seq(Lines) /\ Len(a) = Len(s) + 1 /\ Len(s) \in Nat
      BY AppendProperties
    <2>2. Begins(C(s), C(a))
      <3>1. ParseLines(a) = ParseLine(ParseLines(s), x)
        BY ParsingFolds, Parsing!FoldAppend
      <3> QED
        BY <3>1, ParsedTypes, LineKeepsCalls
    <2>3. ASSUME NEW k \in 0..Len(a)
          PROVE  Begins(C(SubSeq(a, 1, k)), C(a))
      <3>1. CASE k = Len(a)
        BY <1>1, <2>1, <3>1
      <3>2. CASE k # Len(a)
        <4>1. k \in 0..Len(s)
          BY <2>1, <3>2
        <4>2. SubSeq(a, 1, k) = SubSeq(s, 1, k)
          BY <4>1, Parsing!PrefixesOfAppend
        <4>3. Begins(C(SubSeq(s, 1, k)), C(s))
          BY <1>3, <4>1
        <4>4. SubSeq(s, 1, k) \in Seq(Lines)
          <5>1. \A i \in 1..k : s[i] \in Lines
            BY <4>1
          <5> QED
            BY <4>1, <5>1, SubSeqProperties
        <4>5. /\ C(SubSeq(s, 1, k)) \in Seq(ModelCalls)
              /\ C(s) \in Seq(ModelCalls) /\ C(a) \in Seq(ModelCalls)
          BY <1>0, <2>1, <4>4
        <4> HIDE DEF C, a
        <4>6. Begins(C(SubSeq(s, 1, k)), C(a))
          BY <2>2, <4>3, <4>5, BeginsTransitive
        <4> QED
          BY <4>2, <4>6
      <3> QED
        BY <3>1, <3>2
    <2> HIDE DEF C
    <2> QED
      BY <2>1, <2>3
  <1>4. Seq(Lines) \subseteq T
    <2> HIDE DEF T
    <2> QED
      BY <1>2, <1>3, Parsing!SeqSetInduction
  <1> QED
    BY <1>4

\* Wherever a response is cut, and however long it is: the calls that are run
\* are the first of those the whole response would have run.
THEOREM PartsParsed == PartsRunPrefix
  <1> SUFFICES ASSUME NEW text \in Texts, NEW n \in 0..Len(text)
               PROVE  IsPrefix(ParseTextToolCalls(SubSeq(text, 1, n)),
                               ParseTextToolCalls(text))
    BY DEF PartsRunPrefix
  <1>1. text \in Seq(Lines)
    BY ToolAssumption DEF Texts
  <1>2. SubSeq(text, 1, n) \in Seq(Lines)
    <2>1. \A i \in 1..n : text[i] \in Lines
      BY <1>1
    <2> QED
      BY <1>1, <2>1, SubSeqProperties
  <1>3. /\ ParseLines(text).calls \in Seq(ModelCalls)
        /\ ParseLines(SubSeq(text, 1, n)).calls \in Seq(ModelCalls)
    BY <1>1, <1>2, ParsedTypes DEF Parsers
  <1> QED
    BY <1>1, <1>3, PartBegins, BeginsIsPrefix DEF ParseTextToolCalls

\* CutRunsPrefix, for all calls a model may write and texts of any length.
THEOREM CutIsHarmless == Spec => []CutRunsPrefix
  <1>1. CutRunsPrefix
    BY PartsParsed DEF CutRunsPrefix
  <1> QED
    BY <1>1, PTL
-----------------------------------------------------------------------------
(* What is stored, and what the model reads of it.                         *)

\* The rest of TypeOK.
StoreTypes ==
    /\ input \in [Turns -> SUBSET {"request", "results", "answer"}]
    /\ history \in [Turns -> SUBSET (Roles \X Turns)]
    /\ chunk \in [Turns -> 0..MaxDeltas]
    /\ calls \in [Turns -> Seq(ModelCalls)]
    /\ messages \in [Sessions -> Seq(Roles \X Turns)]

Stored(t) ==
    \E i \in DOMAIN messages[session[t]] :
        messages[session[t]][i] = <<"user", t>>

Heard(t) == \/ <<"user", t>> \in history[t]
            \/ DbMayFail /\ history[t] = {}
            \/ PushedOut(t)

\* A turn belongs to a session, and is generated with its own message heard.
HeardWell(t) ==
    /\ conn[t] # None => session[t] \in Sessions
    /\ conn[t] = None => history[t] = {}
    /\ gpc[t] # "none" => Heard(t)

\* A reader stores the message before it reads the history it is to be in.
ReadsWell(c) ==
    /\ rpc[c] \in {"save", "history"} => history[current[c]] = {}
    /\ rpc[c] = "history" => Stored(current[c])
    /\ rpc[c] = "register" => Heard(current[c])

StoreInv ==
    /\ StoreTypes
    /\ \A t \in Turns : HeardWell(t)
    /\ \A c \in Conns : ReadsWell(c)

MessagesGrow == \A s \in Sessions : Begins(messages[s], messages'[s])

LEMMA StoreInit == Init => StoreInv
  <1> SUFFICES ASSUME Init PROVE StoreInv
    OBVIOUS
  <1>1. StoreTypes
    <2>1. 0 \in 0..MaxDeltas
      BY ChatAssumption
    <2> QED
      BY <2>1, EmptySeq DEF Init, StoreTypes
  <1>2. \A t \in Turns : HeardWell(t)
    BY DEF Init, HeardWell
  <1>3. \A c \in Conns : ReadsWell(c)
    BY DEF Init, ReadsWell
  <1> QED
    BY <1>1, <1>2, <1>3 DEF StoreInv

LEMMA AppendGrows ==
    ASSUME StoreTypes, NEW s \in Sessions, NEW m \in Roles \X Turns,
           messages' = [messages EXCEPT ![s] = Append(@, m)]
    PROVE  /\ messages' \in [Sessions -> Seq(Roles \X Turns)]
           /\ messages'[s] = Append(messages[s], m)
           /\ MessagesGrow
  <1>1. \A r \in Sessions : messages[r] \in Seq(Roles \X Turns)
    BY DEF StoreTypes
  <1>2. /\ Append(messages[s], m) \in Seq(Roles \X Turns)
        /\ Begins(messages[s], Append(messages[s], m))
    BY <1>1, AppendProperties DEF Begins
  <1>3. \A r \in Sessions : Begins(messages[r], messages[r])
    BY <1>1 DEF Begins
  <1> QED
    BY <1>1, <1>2, <1>3 DEF StoreTypes, MessagesGrow

LEMMA SameGrows ==
    ASSUME StoreTypes, messages' = messages
    PROVE  MessagesGrow
  <1>1. \A r \in Sessions : messages[r] \in Seq(Roles \X Turns)
    BY DEF StoreTypes
  <1> QED
    BY <1>1 DEF MessagesGrow, Begins

LEMMA StillHeard ==
    ASSUME StoreTypes, StoreTypes', MessagesGrow, NEW t \in Turns,
           session[t] \in Sessions, session'[t] = session[t],
           history'[t] = history[t]
    PROVE  (Heard(t) => Heard(t)') /\ (Stored(t) => Stored(t)')
  <1> DEFINE old == messages[session[t]]
             new == messages'[session[t]]
  <1>1. /\ old \in Seq(Roles \X Turns) /\ new \in Seq(Roles \X Turns)
        /\ Begins(old, new) /\ HistoryLimit \in Nat
    BY ChatAssumption DEF StoreTypes, MessagesGrow
  <1> HIDE DEF old, new
  <1>2. \A i \in DOMAIN old : i \in DOMAIN new /\ new[i] = old[i]
    <2>1. /\ DOMAIN old = 1..Len(old) /\ DOMAIN new = 1..Len(new)
          /\ Len(old) \in Nat /\ Len(new) \in Nat
      BY <1>1
    <2> QED
      BY <1>1, <2>1 DEF Begins
  <1>3. Len(old) <= Len(new) /\ Len(old) \in Nat /\ Len(new) \in Nat
    BY <1>1 DEF Begins
  <1>4. \A i \in DOMAIN old :
           i + HistoryLimit <= Len(old) => i + HistoryLimit <= Len(new)
    <2>1. \A i \in DOMAIN old : i \in Nat
      BY <1>1
    <2> QED
      BY <1>1, <1>3, <2>1
  <1>5. PushedOut(t) => PushedOut(t)'
    BY <1>2, <1>4 DEF PushedOut, old, new
  <1>6. Stored(t) => Stored(t)'
    BY <1>2 DEF Stored, old, new
  <1> QED
    BY <1>5, <1>6 DEF Heard

\* A turn and a reader that a step leaves alone.
LEMMA HeardFrame ==
    ASSUME ChatInv, StoreInv, StoreTypes', MessagesGrow, NEW t \in Turns,
           conn'[t] = conn[t], session'[t] = session[t],
           history'[t] = history[t], gpc'[t] # "none" => gpc[t] # "none"
    PROVE  HeardWell(t)'
  <1>1. HeardWell(t) /\ StoreTypes
    BY DEF StoreInv
  <1>2. gpc[t] # "none" => session[t] \in Sessions
    BY <1>1 DEF HeardWell, ChatInv, TurnInv
  <1> QED
    BY <1>1, <1>2, StillHeard DEF HeardWell

LEMMA ReadsFrame ==
    ASSUME ChatInv, StoreInv, StoreTypes', MessagesGrow, NEW c \in Conns,
           rpc'[c] \in {rpc[c], "read", "report", "closed", "new"},
           current'[c] = current[c],
           current[c] \in Turns /\ conn[current[c]] = c =>
              /\ session'[current[c]] = session[current[c]]
              /\ history'[current[c]] = history[current[c]]
    PROVE  ReadsWell(c)'
  <1>1. StoreTypes /\ ReadsWell(c)
    BY DEF StoreInv
  <1>2. CASE rpc[c] \in {"save", "history", "register"}
    <2>0. PICK t \in Turns : t = current[c]
      BY <1>2 DEF ChatInv, ReaderInv
    <2>1. conn[t] = c /\ c # None
      BY <1>2, <2>0, NoneIsNobody DEF ChatInv, ReaderInv
    <2>2. session[t] \in Sessions
      BY <2>1 DEF StoreInv, HeardWell
    <2>3. current'[c] = t
      BY <2>0
    <2>4. /\ Heard(t) => Heard(t)'
          /\ Stored(t) => Stored(t)'
          /\ history'[t] = history[t]
      BY <1>1, <2>0, <2>1, <2>2, StillHeard
    <2>5. (rpc[c] = "register" => Heard(t)) /\ (rpc[c] = "history" => Stored(t))
          /\ (rpc[c] \in {"save", "history"} => history[t] = {})
      BY <1>1, <2>0 DEF ReadsWell
    <2>6. /\ rpc'[c] = "register" => Heard(current[c])'
          /\ rpc'[c] = "history" => Stored(current[c])'
          /\ rpc'[c] \in {"save", "history"} => history'[current'[c]] = {}
      BY <2>3, <2>4, <2>5 DEF Heard, Stored, PushedOut
    <2> QED
      BY <2>6 DEF ReadsWell
  <1>3. CASE rpc[c] \notin {"save", "history", "register"}
    BY <1>3 DEF ReadsWell
  <1> QED
    BY <1>2, <1>3
LEMMA ClientStores ==
    ASSUME ChatInv, StoreInv, NEW c \in Conns, ClientStep(c)
    PROVE  StoreInv'
  <1>1. UNCHANGED <<input, history, chunk, calls, messages, gpc>>
    BY DEF ClientStep, Connect, Disconnect, StopGeneration, UserMessage
  <1>2. StoreTypes' /\ StoreTypes
    BY <1>1 DEF StoreInv, StoreTypes
  <1>3. MessagesGrow
    BY <1>1, <1>2, SameGrows
  <1>4. CASE UNCHANGED <<conn, session, current>>
             /\ \A d \in Conns : rpc'[d] \in {rpc[d], "read", "closed"}
    BY <1>1, <1>2, <1>3, <1>4, HeardFrame, ReadsFrame DEF StoreInv
  <1>5. CASE Connect(c) \/ Disconnect(c)
             \/ \E s \in Sessions : StopGeneration(c, s)
    <2>1. UNCHANGED <<conn, session, current>>
          /\ \A d \in Conns : rpc'[d] \in {rpc[d], "read", "closed"}
      BY <1>5 DEF Connect, Disconnect, StopGeneration, Read, ChatInv, ChatTypes
    <2> QED
      BY <1>4, <2>1
  <1>6. ASSUME NEW s \in Sessions, NEW t \in Turns, UserMessage(c, s, t)
        PROVE  StoreInv'
    <2>1. /\ conn[t] = None /\ conn'[t] = c /\ session'[t] = s
          /\ \A u \in Turns \ {t} :
                conn'[u] = conn[u] /\ session'[u] = session[u]
      BY <1>6 DEF UserMessage, ChatInv, ChatTypes
    <2>2. \A d \in Conns \ {c} : rpc'[d] = rpc[d] /\ current'[d] = current[d]
      BY <1>6 DEF UserMessage, Read, ChatInv, ChatTypes
    <2>3. \/ rpc'[c] = "save" /\ current'[c] = t
          \/ rpc'[c] = "closed"
      BY <1>6 DEF UserMessage, Read, ChatInv, ChatTypes
    <2>4. history[t] = {} /\ gpc[t] = "none"
      BY <2>1 DEF StoreInv, HeardWell, ChatInv, TurnInv
    <2>5. HeardWell(t)'
      BY <1>1, <2>1, <2>4, NoneIsNobody DEF HeardWell
    <2>6. \A u \in Turns \ {t} : HeardWell(u)'
      BY <1>1, <1>2, <1>3, <2>1, HeardFrame
    <2>7. ReadsWell(c)'
      BY <1>1, <2>3, <2>4 DEF ReadsWell
    <2>8. ASSUME NEW d \in Conns \ {c}
          PROVE  ReadsWell(d)'
      <3>1. current[d] \in Turns /\ conn[current[d]] = d => current[d] # t
        BY <2>1, NoneIsNobody
      <3>2. current[d] \in Turns /\ conn[current[d]] = d =>
               session'[current[d]] = session[current[d]]
        BY <2>1, <3>1
      <3> QED
        BY <1>1, <1>2, <1>3, <2>2, <3>2, ReadsFrame
    <2> QED
      BY <1>2, <2>5, <2>6, <2>7, <2>8 DEF StoreInv
  <1> QED
    BY <1>5, <1>6 DEF ClientStep

LEMMA RecentHears ==
    ASSUME StoreTypes, NEW t \in Turns, session[t] \in Sessions, Stored(t)
    PROVE  /\ Recent(session[t]) \subseteq Roles \X Turns
           /\ <<"user", t>> \in Recent(session[t]) \/ PushedOut(t)
  <1> DEFINE ms == messages[session[t]]
             n == Len(ms)
  <1>1. /\ ms \in Seq(Roles \X Turns) /\ n \in Nat /\ DOMAIN ms = 1..n
        /\ HistoryLimit \in Nat
    BY ChatAssumption DEF StoreTypes
  <1>2. PICK i \in 1..n : ms[i] = <<"user", t>>
    BY <1>1 DEF Stored
  <1> HIDE DEF ms, n
  <1>3. Recent(session[t]) =
           {ms[j] : j \in {j \in 1..n : j + HistoryLimit > n}}
    BY DEF Recent, ms, n
  <1>4. Recent(session[t]) \subseteq Roles \X Turns
    BY <1>1, <1>3
  <1>5. i + HistoryLimit > n \/ i + HistoryLimit <= n
    BY <1>1
  <1>6. i + HistoryLimit > n => <<"user", t>> \in Recent(session[t])
    BY <1>2, <1>3
  <1>7. i + HistoryLimit <= n => PushedOut(t)
    BY <1>1, <1>2 DEF PushedOut, ms, n
  <1> QED
    BY <1>4, <1>5, <1>6, <1>7

LEMMA ReaderStores ==
    ASSUME ChatInv, StoreInv, NEW c \in Conns, ReaderStep(c)
    PROVE  StoreInv'
  <1> USE DEF StoreInv
  <1>0. PICK t \in Turns : t = current[c]
    BY DEF ReaderStep, SaveUserMessage, ReportDbError, LoadHistory,
           RegisterAndSpawn, ChatInv, ReaderInv
  <1>1. /\ conn[t] = c /\ conn[t] # None /\ gpc[t] = "none"
    BY <1>0, NoneIsNobody
       DEF ReaderStep, SaveUserMessage, ReportDbError, LoadHistory,
           RegisterAndSpawn, ChatInv, ReaderInv
  <1>2. session[t] \in Sessions
    BY <1>1 DEF HeardWell
  <1>3. UNCHANGED <<conn, session, current>>
    BY DEF ReaderStep, SaveUserMessage, ReportDbError, LoadHistory,
           RegisterAndSpawn
  <1>4. \A d \in Conns \ {c} : rpc'[d] = rpc[d]
    BY DEF ReaderStep, SaveUserMessage, ReportDbError, LoadHistory,
           RegisterAndSpawn, Read, ChatInv, ChatTypes
  <1>5. ASSUME StoreTypes', MessagesGrow,
               \A u \in Turns \ {t} : gpc'[u] = gpc[u] /\ history'[u] = history[u]
        PROVE  /\ \A u \in Turns \ {t} : HeardWell(u)'
               /\ \A d \in Conns \ {c} : ReadsWell(d)'
    <2>1. \A u \in Turns \ {t} : HeardWell(u)'
      BY <1>3, <1>5, HeardFrame
    <2>2. ASSUME NEW d \in Conns \ {c}
          PROVE  ReadsWell(d)'
      <3>1. current[d] \in Turns /\ conn[current[d]] = d => current[d] # t
        BY <1>1
      <3>2. current[d] \in Turns /\ conn[current[d]] = d =>
               history'[current[d]] = history[current[d]]
        BY <1>5, <3>1
      <3> QED
        BY <1>3, <1>4, <1>5, <3>2, ReadsFrame
    <2> QED
      BY <2>1, <2>2
  <1>6. CASE SaveUserMessage(c)
    <2>1. UNCHANGED <<input, history, chunk, calls, gpc>>
          /\ rpc[c] = "save" /\ rpc'[c] \in {"history", "report"}
      BY <1>6 DEF SaveUserMessage, Read, ChatInv, ChatTypes
    <2>2. <<"user", t>> \in Roles \X Turns
      BY DEF Roles
    <2>3. CASE messages' = [messages EXCEPT ![session[t]] =
                              Append(@, <<"user", t>>)]
      <3>1. /\ StoreTypes' /\ MessagesGrow
            /\ messages'[session[t]] = Append(messages[session[t]], <<"user", t>>)
        BY <1>2, <2>1, <2>2, <2>3, AppendGrows DEF StoreTypes
      <3>2. Stored(t)'
        <4> DEFINE ms == messages[session[t]]
        <4>1. ms \in Seq(Roles \X Turns)
          BY <1>2 DEF StoreTypes
        <4>2. /\ Len(ms) + 1 \in DOMAIN Append(ms, <<"user", t>>)
              /\ Append(ms, <<"user", t>>)[Len(ms) + 1] = <<"user", t>>
          BY <2>2, <4>1, AppendProperties
        <4> QED
          BY <1>3, <3>1, <4>2 DEF Stored
      <3>3. history'[t] = {}
        BY <1>0, <2>1 DEF ReadsWell
      <3>4. HeardWell(t)'
        BY <1>1, <1>2, <1>3, <2>1 DEF HeardWell
      <3>5. ReadsWell(c)'
        BY <1>0, <1>3, <2>1, <3>2, <3>3 DEF ReadsWell, Stored
      <3> QED
        BY <1>5, <2>1, <3>1, <3>4, <3>5
    <2>4. CASE messages' = messages /\ rpc'[c] = "report"
      <3>1. StoreTypes' /\ MessagesGrow
        BY <2>1, <2>4, SameGrows DEF StoreTypes
      <3>2. HeardWell(t)'
        BY <1>1, <1>2, <1>3, <2>1 DEF HeardWell
      <3>3. ReadsWell(c)'
        BY <2>4 DEF ReadsWell
      <3> QED
        BY <1>5, <2>1, <3>1, <3>2, <3>3
    <2> QED
      BY <1>0, <1>6, <2>1, <2>3, <2>4
         DEF SaveUserMessage, Read, ChatInv, ChatTypes
  <1>7. CASE ReportDbError(c)
    <2>1. UNCHANGED <<input, history, chunk, calls, gpc, messages>>
          /\ rpc'[c] = "read"
      BY <1>7 DEF ReportDbError, Read, ChatInv, ChatTypes
    <2>2. StoreTypes' /\ MessagesGrow
      BY <2>1, SameGrows DEF StoreTypes
    <2>3. HeardWell(t)'
      BY <1>1, <1>2, <1>3, <2>1 DEF HeardWell
    <2>4. ReadsWell(c)'
      BY <2>1 DEF ReadsWell
    <2> QED
      BY <1>5, <2>1, <2>2, <2>3, <2>4
  <1>8. CASE LoadHistory(c)
    <2>1. UNCHANGED <<input, chunk, calls, gpc, messages>>
          /\ rpc[c] = "history" /\ rpc'[c] = "register"
      BY <1>8 DEF LoadHistory, Read, ChatInv, ChatTypes
    <2>2. Stored(t) /\ history[t] = {}
      BY <1>0, <2>1 DEF ReadsWell, Stored
    <2>3. /\ Recent(session[t]) \subseteq Roles \X Turns
          /\ <<"user", t>> \in Recent(session[t]) \/ PushedOut(t)
      BY <1>2, <2>2, RecentHears
    <2>4. \/ history' = [history EXCEPT ![t] = Recent(session[t])]
          \/ DbMayFail /\ history' = history
      BY <1>0, <1>8 DEF LoadHistory
    <2>5. history \in [Turns -> SUBSET (Roles \X Turns)]
      BY DEF StoreTypes
    <2>6. history' \in [Turns -> SUBSET (Roles \X Turns)]
      BY <2>3, <2>4, <2>5
    <2>7. StoreTypes' /\ MessagesGrow
      BY <2>1, <2>6, SameGrows DEF StoreTypes
    <2>8. \A u \in Turns \ {t} : history'[u] = history[u]
      BY <2>4, <2>5
    <2>9. \/ history'[t] = Recent(session[t])
          \/ DbMayFail /\ history'[t] = {}
      BY <2>2, <2>4, <2>5
    <2>10. Heard(t)'
      BY <1>3, <2>1, <2>3, <2>9 DEF Heard, PushedOut
    <2>11. HeardWell(t)'
      BY <1>1, <1>2, <1>3, <2>1 DEF HeardWell
    <2>12. ReadsWell(c)'
      BY <1>0, <1>3, <2>1, <2>10 DEF ReadsWell, Heard, PushedOut
    <2> QED
      BY <1>5, <2>1, <2>7, <2>8, <2>11, <2>12
  <1>9. CASE RegisterAndSpawn(c)
    <2>1. UNCHANGED <<history, chunk, calls, messages>>
          /\ rpc[c] = "register" /\ rpc'[c] = "read"
          /\ input' = [input EXCEPT ![t] = {"request"}]
          /\ \A u \in Turns \ {t} : gpc'[u] = gpc[u]
      BY <1>0, <1>9 DEF RegisterAndSpawn, Read, Goto, ChatInv, ChatTypes
    <2>2. StoreTypes' /\ MessagesGrow
      BY <2>1, SameGrows DEF StoreTypes
    <2>3. Heard(t)
      BY <1>0, <2>1 DEF ReadsWell, Heard, PushedOut
    <2>4. HeardWell(t)'
      BY <1>1, <1>2, <1>3, <2>1, <2>3 DEF HeardWell, Heard, PushedOut
    <2>5. ReadsWell(c)'
      BY <2>1 DEF ReadsWell
    <2> QED
      BY <1>5, <2>1, <2>2, <2>4, <2>5
  <1> QED
    BY <1>6, <1>7, <1>8, <1>9 DEF ReaderStep
\* A tool is run only while there is a call to run.
CallsLeft ==
    \A t \in Turns : gpc[t] \in {"execute", "finish"} => calls[t] # <<>>

LEMMA CallsLeftNext ==
    ASSUME ChatInv, StoreTypes, CallsLeft, [Next]_vars
    PROVE  CallsLeft'
  <1> USE DEF ChatInv, ChatTypes, StoreTypes, CallsLeft
  <1>1. CASE UNCHANGED vars
    BY <1>1 DEF vars
  <1>2. ASSUME NEW c \in Conns, ReaderStep(c) \/ ClientStep(c)
        PROVE  CallsLeft'
    <2>1. /\ calls' = calls
          /\ \A u \in Turns : gpc'[u] \in {gpc[u], "check", "dead"}
      BY <1>2
         DEF ReaderStep, SaveUserMessage, ReportDbError, LoadHistory,
             RegisterAndSpawn, Goto, ClientStep, Connect, Disconnect,
             StopGeneration, UserMessage
    <2> QED
      BY <2>1
  <1>3. ASSUME NEW t \in Turns, Generate(t)
        PROVE  CallsLeft'
    <2>1. CASE AnnounceToolCall(t)
      BY <2>1 DEF AnnounceToolCall, Goto
    <2>2. CASE ExecuteTool(t)
      <3>1. /\ gpc[t] = "execute" /\ calls[t] # <<>>
            /\ \A u \in Turns \ {t} : gpc'[u] = gpc[u] /\ calls'[u] = calls[u]
            /\ \/ gpc'[t] \in {"finish", "dead"} /\ calls' = calls
               \/ gpc'[t] = "call"
        BY <2>2 DEF ExecuteTool, Goto
      <3> QED
        BY <3>1
    <2>3. CASE ~AnnounceToolCall(t) /\ ~ExecuteTool(t)
      <3>1. /\ gpc'[t] \notin {"execute", "finish"}
            /\ \A u \in Turns \ {t} : gpc'[u] = gpc[u] /\ calls'[u] = calls[u]
        BY <1>3, <2>3
           DEF Generate, StartInference, ReceiveDelta, SendToken, StreamError,
               ParseToolCalls, FinishToolCall, RebuildContext, SendError,
               SaveAnswer, StoreAnswer, Complete, Cleanup, Goto
      <3> QED
        BY <3>1
    <2> QED
      BY <2>1, <2>2, <2>3
  <1>4. CASE ServerDies
    BY <1>4 DEF ServerDies
  <1> QED
    BY <1>1, <1>2, <1>3, <1>4 DEF Next, ClientStep

LEMMA GenStoreTypes ==
    ASSUME ChatInv, StoreInv, CallsLeft, NEW t \in Turns, Generate(t)
    PROVE  StoreTypes' /\ MessagesGrow
  <1> USE DEF StoreTypes
  <1>1. /\ StoreTypes /\ gpc[t] # "none"
        /\ calls[t] \in Seq(ModelCalls) /\ chunk[t] \in 0..MaxDeltas
        /\ MaxDeltas \in Nat
    BY ChatAssumption
       DEF StoreInv, Generate, StartInference, ReceiveDelta, SendToken,
           StreamError, ParseToolCalls, AnnounceToolCall, ExecuteTool,
           FinishToolCall, RebuildContext, SendError, SaveAnswer, Complete,
           Cleanup
  <1>2. CASE StartInference(t) \/ ReceiveDelta(t)
    <2>1. UNCHANGED <<input, history, calls, messages>>
      BY <1>2 DEF StartInference, ReceiveDelta
    <2>2. \/ chunk' = chunk
          \/ chunk' = [chunk EXCEPT ![t] = 0]
          \/ /\ chunk[t] < MaxDeltas
             /\ chunk' = [chunk EXCEPT ![t] = chunk[t] + 1]
      BY <1>2 DEF StartInference, ReceiveDelta
    <2>3. 0 \in 0..MaxDeltas
          /\ (chunk[t] < MaxDeltas => chunk[t] + 1 \in 0..MaxDeltas)
      BY <1>1
    <2>4. chunk' \in [Turns -> 0..MaxDeltas]
      BY <1>1, <2>2, <2>3
    <2> QED
      BY <1>1, <2>1, <2>4, SameGrows
  <1>3. CASE ParseToolCalls(t) \/ ExecuteTool(t) \/ FinishToolCall(t)
    <2>1. UNCHANGED <<input, history, chunk, messages>>
      BY <1>3 DEF ParseToolCalls, ExecuteTool, FinishToolCall
    <2>2. PICK found \in Seq(ModelCalls) :
             calls' = calls \/ calls' = [calls EXCEPT ![t] = found]
      <3>1. CASE ParseToolCalls(t)
        <4>1. PICK text \in Texts :
                 calls' = [calls EXCEPT ![t] = ParseTextToolCalls(text)]
          BY <3>1 DEF ParseToolCalls, CallsFound
        <4>2. text \in Seq(Lines)
          BY ToolAssumption DEF Texts
        <4>3. ParseTextToolCalls(text) \in Seq(ModelCalls)
          BY <4>2, ParsedTypes DEF ParseTextToolCalls, Parsers
        <4> QED
          BY <4>1, <4>3
      <3>2. CASE ExecuteTool(t) \/ FinishToolCall(t)
        <4>1. gpc[t] \in {"execute", "finish"}
          BY <3>2 DEF ExecuteTool, FinishToolCall
        <4>2. Tail(calls[t]) \in Seq(ModelCalls)
          BY <1>1, <4>1, HeadTailProperties DEF CallsLeft
        <4>3. \/ calls' = calls
              \/ calls' = [calls EXCEPT ![t] = Tail(calls[t])]
          BY <3>2 DEF ExecuteTool, FinishToolCall
        <4> QED
          BY <4>2, <4>3
      <3> QED
        BY <1>3, <3>1, <3>2
    <2>3. calls' \in [Turns -> Seq(ModelCalls)]
      BY <1>1, <2>2
    <2> QED
      BY <1>1, <2>1, <2>3, SameGrows
  <1>4. CASE RebuildContext(t)
    <2>1. UNCHANGED <<history, chunk, calls, messages>>
      BY <1>4 DEF RebuildContext
    <2>2. input' \in [Turns -> SUBSET {"request", "results", "answer"}]
      BY <1>1, <1>4 DEF RebuildContext
    <2> QED
      BY <1>1, <2>1, <2>2, SameGrows
  <1>5. CASE SaveAnswer(t)
    <2>1. UNCHANGED <<input, history, chunk, calls>>
      BY <1>5 DEF SaveAnswer
    <2>2. session[t] \in Sessions
      BY <1>1 DEF StoreInv, HeardWell, ChatInv, TurnInv
    <2>3. <<"assistant", t>> \in Roles \X Turns
      BY DEF Roles
    <2>4. \/ messages' = messages
          \/ messages' = [messages EXCEPT ![session[t]] =
                             Append(@, <<"assistant", t>>)]
      BY <1>5 DEF SaveAnswer, StoreAnswer
    <2> QED
      BY <1>1, <2>1, <2>2, <2>3, <2>4, AppendGrows, SameGrows
  <1>6. CASE \/ SendToken(t) \/ StreamError(t) \/ AnnounceToolCall(t)
             \/ SendError(t) \/ Complete(t) \/ Cleanup(t)
    <2>1. UNCHANGED <<input, history, chunk, calls, messages>>
      BY <1>6 DEF SendToken, StreamError, AnnounceToolCall, SendError, Complete,
                  Cleanup
    <2> QED
      BY <1>1, <2>1, SameGrows
  <1> QED
    BY <1>2, <1>3, <1>4, <1>5, <1>6 DEF Generate

LEMMA GenStores ==
    ASSUME ChatInv, StoreInv, CallsLeft, NEW t \in Turns, Generate(t)
    PROVE  StoreInv'
  <1>1. StoreTypes' /\ MessagesGrow
    BY GenStoreTypes
  <1>2. UNCHANGED <<rpc, current, conn, session>>
        /\ \A u \in Turns \ {t} : gpc'[u] = gpc[u]
    BY GenTypes DEF ChatInv, GenFrame
  <1>3. gpc[t] # "none" /\ history' = history
    BY DEF Generate, StartInference, ReceiveDelta, SendToken, StreamError,
           ParseToolCalls, AnnounceToolCall, ExecuteTool, FinishToolCall,
           RebuildContext, SendError, SaveAnswer, Complete, Cleanup
  <1>4. \A u \in Turns : HeardWell(u)'
    BY <1>1, <1>2, <1>3, HeardFrame
  <1>5. \A c \in Conns : ReadsWell(c)'
    BY <1>1, <1>2, <1>3, ReadsFrame
  <1> QED
    BY <1>1, <1>4, <1>5 DEF StoreInv

LEMMA OthersStore ==
    ASSUME ChatInv, StoreInv, ServerDies \/ UNCHANGED vars
    PROVE  StoreInv'
  <1>1. UNCHANGED <<input, history, chunk, calls, messages, current, conn,
                    session>>
    BY DEF ServerDies, vars
  <1>2. StoreTypes' /\ StoreTypes
    BY <1>1 DEF StoreInv, StoreTypes
  <1>3. MessagesGrow
    BY <1>1, <1>2, SameGrows
  <1>4. \A u \in Turns : gpc'[u] # "none" => gpc[u] # "none"
    BY DEF ServerDies, vars
  <1>5. \A c \in Conns : rpc'[c] \in {rpc[c], "new", "closed"}
    BY DEF ServerDies, vars
  <1>6. \A u \in Turns : HeardWell(u)'
    BY <1>1, <1>2, <1>3, <1>4, HeardFrame
  <1>7. \A c \in Conns : ReadsWell(c)'
    BY <1>1, <1>2, <1>3, <1>5, ReadsFrame
  <1> QED
    BY <1>2, <1>6, <1>7 DEF StoreInv

\* Messages, histories and calls are typed, and every turn that is generated
\* has its own message among what the model is to read.
LEMMA StoreInvariant == Spec => [](ChatInv /\ StoreInv /\ CallsLeft)
  <1>1. Init => StoreInv /\ CallsLeft
    BY StoreInit DEF Init, CallsLeft
  <1>2. ChatInv /\ StoreInv /\ CallsLeft /\ [Next]_vars
           => StoreInv' /\ CallsLeft'
    <2> SUFFICES ASSUME ChatInv, StoreInv, CallsLeft, [Next]_vars
                 PROVE  StoreInv' /\ CallsLeft'
      OBVIOUS
    <2>1. CallsLeft'
      BY CallsLeftNext DEF StoreInv
    <2> QED
      BY <2>1, ReaderStores, ClientStores, GenStores, OthersStore
         DEF Next, ClientStep
  <1> QED
    BY <1>1, <1>2, ChatInvariant, PTL DEF Spec

\* TypeOK, for any connections, sessions, turns and limits.
THEOREM TypeCorrect == Spec => []TypeOK
  <1>1. ChatInv /\ StoreInv => TypeOK
    BY DEF ChatInv, ChatTypes, StoreInv, StoreTypes, TypeOK, ReaderLabels,
           GenLabels
  <1> QED
    BY <1>1, StoreInvariant, PTL

LEMMA PromptIsHistory == \A t : Prompt(t) = history[t]
  <1> TAKE t
  <1> DEFINE Told == {<<"history", m>> : m \in history[t]}
             Hearing == {s \in Sections(t) :
                           s[1] \in {"system", "memory", "history"}}
  <1>1. Hearing = Told
    BY DEF Sections
  <1>2. Prompt(t) = {s[2] : s \in Hearing}
    BY DEF Prompt, BuildRequest
  <1>3. Prompt(t) = {s[2] : s \in Told}
    BY <1>1, <1>2
  <1>4. {s[2] : s \in Told} = history[t]
    <2>1. \A s \in Told : s[2] \in history[t]
      OBVIOUS
    <2>2. \A m \in history[t] : <<"history", m>> \in Told
                                /\ <<"history", m>>[2] = m
      OBVIOUS
    <2> HIDE DEF Told
    <2> QED
      BY <2>1, <2>2
  <1> QED
    BY <1>3, <1>4

\* ModelSeesRequest, however many turns of a session overlap: the message of a
\* turn is missing from what the model reads only when the history could not be
\* read, or when HistoryLimit messages were stored after it.
THEOREM RequestSeen == Spec => ModelSeesRequest
  <1> DEFINE Asked ==
        \A t \in Turns : iteration'[t] # iteration[t] =>
            \/ <<"user", t>> \in Prompt(t)
            \/ DbMayFail /\ Prompt(t) = {}
            \/ PushedOut(t)
  <1>1. ASSUME ChatInv, StoreInv, [Next]_vars
        PROVE  Asked
    <2> SUFFICES ASSUME NEW t \in Turns, iteration'[t] # iteration[t]
                 PROVE  Heard(t)
      BY PromptIsHistory DEF Heard
    <2>1. ASSUME NEW c \in Conns, ReaderStep(c) \/ ClientStep(c)
          PROVE  UNCHANGED iteration
      BY <2>1 DEF ReaderStep, SaveUserMessage, ReportDbError, LoadHistory,
                  RegisterAndSpawn, ClientStep, Connect, Disconnect,
                  StopGeneration, UserMessage
    <2>2. ASSUME NEW u \in Turns, Generate(u)
          PROVE  iteration'[t] = iteration[t] \/ StartInference(u)
      BY <2>2 DEF Generate, SendToken, StreamError, ParseToolCalls,
                  AnnounceToolCall, ExecuteTool, FinishToolCall,
                  ReceiveDelta, RebuildContext, SendError, SaveAnswer, Complete,
                  Cleanup
    <2>3. ASSUME NEW u \in Turns, StartInference(u)
          PROVE  u = t /\ gpc[t] # "none"
      BY <1>1, <2>3 DEF StartInference, ChatInv, ChatTypes
    <2>4. gpc[t] # "none"
      BY <1>1, <2>1, <2>2, <2>3 DEF Next, ClientStep, ServerDies, vars
    <2> QED
      BY <1>1, <2>4 DEF StoreInv, HeardWell
  <1> QED
    BY <1>1, StoreInvariant, PTL DEF Spec, ModelSeesRequest
=============================================================================
