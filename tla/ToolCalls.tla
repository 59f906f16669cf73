------------------------------ MODULE ToolCalls -----------------------------
(***************************************************************************)
(* Tool calls: how they are found in the text of a response, and what the  *)
(* registry and the five tools in it answer (model-runtime, tools.rs and   *)
(* executors.rs).                                                          *)
(*                                                                         *)
(* A text is a sequence of lines.  A line is a fence (three backticks, be  *)
(* it the first or the last line of a block), blank, the JSON of one call, *)
(* or anything else.  The JSON of a call may be spread over several lines, *)
(* which then count as one here; a part of them is anything else.          *)
(* Arguments are the names of those that are there and have their type.    *)
(* The queue of ToolCallManager and the parser of native tool calls are    *)
(* left out: nothing in src/ uses them.                                    *)
(***************************************************************************)
EXTENDS Naturals, Sequences, SequencesExt

CONSTANTS
    ModelCalls,   \* calls a model may write
    MaxLines      \* lines of one response

ToolNames == {"memory_search", "memory_write", "code_execute", "web_search",
              "run_tests"}
Arguments == {"query", "content", "code", "language", "other_language"}
Calls == [tool : ToolNames \cup {"unknown"}, arguments : SUBSET Arguments]

ASSUME ToolAssumption == ModelCalls \subseteq Calls /\ MaxLines \in Nat

Fence == <<"fence">>
Blank == <<"blank">>
Other == <<"other">>
CallLine(call) == <<"call", call>>
Lines == {Fence, Blank, Other} \cup {CallLine(call) : call \in ModelCalls}
Texts == UNION {[1..n -> Lines] : n \in 0..MaxLines}

-----------------------------------------------------------------------------
(* parse_text_tool_calls.                                                  *)

\* The lines of a block are put together again and parsed as one JSON value,
\* blank lines around it or not: a block is the JSON of one call or is dropped.
Writes(block, call) ==
    \E i \in DOMAIN block :
        /\ block[i] = CallLine(call)
        /\ \A j \in DOMAIN block \ {i} : block[j] = Blank

CallsOf(block) ==
    IF \E call \in ModelCalls : Writes(block, call)
    THEN <<CHOOSE call \in ModelCalls : Writes(block, call)>>
    ELSE <<>>

\* Every fence opens a block or closes the one that is open.
ParseLine(parser, line) ==
    CASE line = Fence /\ parser.open ->
            [open |-> FALSE, block |-> <<>>,
             calls |-> parser.calls \o CallsOf(parser.block)]
      [] line = Fence /\ ~parser.open -> [parser EXCEPT !.open = TRUE]
      [] line # Fence -> IF parser.open
                         THEN [parser EXCEPT !.block = Append(@, line)]
                         ELSE parser

ParseLines(text) ==
    FoldLeft(ParseLine, [open |-> FALSE, block |-> <<>>, calls |-> <<>>], text)

\* Mutant: what follows the last fence is parsed, too.
ParseUnclosed(text) == ParseLines(text).calls \o CallsOf(ParseLines(text).block)

\* A block that is still open at the end is dropped.
ParseTextToolCalls(text) == ParseLines(text).calls

-----------------------------------------------------------------------------
(* ToolRegistry::execute: the five tools and what each may answer, given    *)
(* the arguments that are there.  check_permission lets everybody pass.    *)

Needs(arguments, given, outcomes) ==
    IF arguments \subseteq given THEN outcomes ELSE {"invalid_arguments"}

\* The memory may fail.
MemorySearch(given) == Needs({"query"}, given, {"success", "execution_failed"})
MemoryWrite(given)  == Needs({"content"}, given, {"success", "execution_failed"})

\* The code is cut at byte 50 for the log and at byte 30 for the answer, in a
\* character perhaps.  A language it does not know is found out in between, and
\* is an invalid argument, too.
CodeExecute(given) ==
    IF "language" \in given
    THEN Needs({"code"}, given, {"success", "panic"})
    ELSE Needs({"code", "other_language"}, given, {"invalid_arguments", "panic"})

WebSearch(given) == Needs({"query"}, given, {"success"})

RunTests(given) ==
    Needs({"code"}, given,
          IF given \cap {"language", "other_language"} # {}
          THEN {"success"} ELSE {"invalid_arguments"})

Execute(call) ==
    CASE call.tool = "memory_search" -> MemorySearch(call.arguments)
      [] call.tool = "memory_write"  -> MemoryWrite(call.arguments)
      [] call.tool = "code_execute"  -> CodeExecute(call.arguments)
      [] call.tool = "web_search"    -> WebSearch(call.arguments)
      [] call.tool = "run_tests"     -> RunTests(call.arguments)
      [] OTHER                       -> {"not_found"}

\* The calls in any part of a response that ends early are the first of the
\* calls the whole response would have run.
PartsRunPrefix ==
    \A text \in Texts : \A n \in 0..Len(text) :
        IsPrefix(ParseTextToolCalls(SubSeq(text, 1, n)),
                 ParseTextToolCalls(text))
=============================================================================
