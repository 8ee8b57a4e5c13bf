----------------------------- MODULE MCSessions -----------------------------
EXTENDS Sessions

\* A session, two nested ones, and a codex one; the keys of the first two collate
\* the other way round, the third repeats the first's.
MCAbout ==
  [p \in 1 .. 4 |-> [engine |-> IF p = 4 THEN "codex" ELSE "claude", nested |-> p \in {2, 3},
                     cwd |-> IF p \in {1, 4} THEN <<"link", "sub">> ELSE <<"repo">>,
                     head |-> IF p = 4 THEN <<"interactive">> ELSE <<"none", "interactive", "programmatic">>]]
MCAllowlist == {<<"repo">>, <<"gone">>}
MCRealPath == [p \in {<<"repo">>, <<"repo", "sub">>, <<"link", "sub">>} |->
                 IF p = <<"link", "sub">> THEN <<"repo", "sub">> ELSE p]
MCKey == <<1, 2, 1, 5>>
MCCollate == <<2, 1, 2, 5>>
MCFilters ==
  {[engine |-> "any", subagents |-> TRUE, active |-> FALSE, after |-> 0, prefix |-> <<>>],
   [engine |-> "claude", subagents |-> TRUE, active |-> TRUE, after |-> 0, prefix |-> <<>>],
   [engine |-> "any", subagents |-> FALSE, active |-> FALSE, after |-> 1, prefix |-> <<"sub">>]}

\* A prompt, an answer with two calls, their results, a long answer whose cut may
\* fall into a surrogate pair, and a record of no interest.
MCClaudeLines ==
  {Line("user", "user", <<>>, <<>>, <<<<"a">>>>, 0),
   Line("assistant", "assistant", <<"t1", "t2">>, <<>>, <<>>, 1),
   Line("user", "user", <<>>, <<"t1">>, <<>>, 0),
   Line("assistant", "assistant", <<>>, <<>>, <<<<"a">>, <<>>, <<"hi", "lo", "a">>>>, 0),
   Line("summary", "none", <<>>, <<>>, <<>>, 0)}

MCCodexLines ==
  {Line("message", "user", <<NoId>>, <<>>, <<<<"a">>>>, 0),
   Line("message", "assistant", <<NoId>>, <<>>, <<<<"hi", "lo", "hi", "lo">>>>, 0),
   Line("call", "none", <<"t1">>, <<>>, <<>>, 0),
   Line("output", "none", <<"t1">>, <<>>, <<>>, 0),
   Line("enrichment", "none", <<"t1">>, <<>>, <<>>, 0),
   Line("enrichment", "none", <<NoId>>, <<>>, <<>>, 0)}
=============================================================================
