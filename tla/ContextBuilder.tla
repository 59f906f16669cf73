--------------------------- MODULE ContextBuilder ---------------------------
(***************************************************************************)
(* ContextBuilder::build: the sections of a prompt, ordered by priority    *)
(* and cut to the context window.  A section is a record: its kind, what   *)
(* it is taken from, its estimate in tokens, and whether it is whole.      *)
(* Contents are left out.  A section that is cut is longer than what is    *)
(* left for it, so what is left is what it gets.                           *)
(***************************************************************************)
EXTENDS Naturals, Sequences, SequencesExt

CONSTANT Window     \* max_tokens of the builder (128 000)

ASSUME WindowAssumption == Window \in Nat

\* The kinds of sections in the order of their priority: 0, 10, 20, 30 for
\* the tiers of memory, 40, 50.
Kinds == <<"system", "verified", "consolidated", "raw", "history", "user">>

Section(kind, from, tokens) ==
    [kind |-> kind, from |-> from, tokens |-> tokens, whole |-> TRUE]

\* sort_by_key is stable: sections of one kind keep their order.
FileUnderKind(files, s) == [files EXCEPT ![s.kind] = Append(@, s)]
ByKind(sections) ==
    FoldLeft(FileUnderKind, [k \in ToSet(Kinds) |-> <<>>], sections)
ByPriority(sections) ==
    FlattenSeq([i \in DOMAIN Kinds |-> ByKind(sections)[Kinds[i]]])

\* Mutant: the tokens of a section that fits are not counted.
PlaceUncounted(built, s) ==
    IF built.used + s.tokens <= Window
    THEN [built EXCEPT !.result = Append(@, s)]
    ELSE built

Cut(s, rest) ==
    [kind |-> s.kind, from |-> s.from, tokens |-> rest, whole |-> FALSE]

\* One turn of the loop.  A cut section takes what is left, and does not
\* count: the next one that does not fit is cut to the same size.
Place(built, s) ==
    CASE built.used + s.tokens <= Window ->
            [used |-> built.used + s.tokens, result |-> Append(built.result, s)]
      [] built.used + s.tokens > Window /\ (s.kind = "system" \/ built.used >= Window) ->
            built
      [] OTHER ->
            [used |-> built.used,
             result |-> Append(built.result, Cut(s, Window - built.used))]

NothingBuilt == [used |-> 0, result |-> <<>>]
Build(sections) == FoldLeft(Place, NothingBuilt, ByPriority(sections)).result

-----------------------------------------------------------------------------
CountWhole(n, s) == IF s.whole THEN n + s.tokens ELSE n
TokensOfWhole(sections) == FoldLeft(CountWhole, 0, sections)

\* What a context built from the offered sections is for: a section, whole or
\* cut, fits into what the whole sections before it left of the window, so that
\* the context keeps within its window up to the first cut section, that one
\* included; nothing was cut or left out that would still have fitted; and no
\* section stands before one of a higher priority.  What stands behind a cut
\* section is exempt: a cut section does not count, so every further one, and
\* every whole one behind it, goes beyond the window.
Rank(s) == CHOOSE i \in DOMAIN Kinds : Kinds[i] = s.kind
WellBuilt(context, offered) ==
    LET used == TokensOfWhole(context)
    IN  /\ \A i \in DOMAIN context :
              TokensOfWhole(SubSeq(context, 1, i - 1)) + context[i].tokens
                  <= Window
        /\ \A s \in ToSet(offered) \ ToSet(context) : used + s.tokens > Window
        /\ \A i, j \in DOMAIN context :
              i < j => Rank(context[i]) <= Rank(context[j])
=============================================================================
