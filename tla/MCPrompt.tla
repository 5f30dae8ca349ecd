------------------------------- MODULE MCPrompt -------------------------------
(* TLC instances of Prompt. *)
EXTENDS Prompt

Segment(checks, kind, op) == [checks |-> checks, kind |-> kind, op |-> op]

Plain(line, name) == [line |-> line, inner |-> line, name |-> name, cd |-> <<>>, cwd |-> <<>>]

\* test ; exit $LASTEXITCODE in web, and bash -c "test || true"
MCCommands ==
  {[Plain(<<Segment({"TEST"}, "check", ";"), Segment({}, "handsOn", "none")>>, "test")
      EXCEPT !.cd = <<"web">>],
   [Plain(<<Segment({"TEST"}, "check", "none")>>, "sh")
      EXCEPT !.inner = <<Segment({"TEST"}, "check", "||"), Segment({}, "other", "none")>>]}

MCTexts == {{"TEST"}, {"SANDBOX_DENIED"}}

\* Prompts for the rules: a few signs of each kind, alone and together.
MCSignals ==
  {[PlainPrompt EXCEPT !.write = w, !.structural = st, !.refactor = r, !.broad = b, !.audit = b,
                       !.routine = n, !.surfaces = su, !.gates = g, !.verify = TRUE,
                       !.size = sz] :
     w \in BOOLEAN, st \in {0, 1}, r \in BOOLEAN, b \in BOOLEAN, n \in {0, 2},
     su \in {{}, {"web"}}, g \in {{}, {"build"}},
     sz \in {"small", "medium"}}

WriteSignals == [PlainPrompt EXCEPT !.write = TRUE, !.sensitive = {"auth"}]

\* A write task, without a word on checks, and one that demands test in web.
Free   == [signals |-> WriteSignals, lines |-> <<>>, skip |-> FALSE]
Gated  == [Free EXCEPT !.lines =
             <<[is |-> "section"], [is |-> "surface", name |-> <<"web">>],
               [is |-> "command", name |-> "test", category |-> "TEST", refused |-> FALSE]>>]

MCPrompts ==
  {[signals |-> s, lines |-> <<>>, skip |-> FALSE] : s \in MCSignals}
    \cup {Free, Gated, [Free EXCEPT !.skip = TRUE]}

MCExplored == {<<Free, "critical">>, <<Gated, "conserve">>}

Answer(percent, reached) ==
  [bucket |-> TRUE, used |-> [primary |-> percent, secondary |-> 10], reached |-> reached]

MCQuotaAnswers ==
  {[Answer(0, FALSE) EXCEPT !.bucket = FALSE], Answer(70, FALSE), Answer(94, FALSE),
   Answer(95, FALSE), Answer(100, FALSE), Answer(20, TRUE)}

MCSlugs == <<"luna", "sol", "terra">>

MCCatalogs == {{}, {"sol", "terra"}}

MCFiles == {{"SOURCE_CODE"}}
==============================================================================
