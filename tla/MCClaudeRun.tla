----------------------------- MODULE MCClaudeRun -----------------------------
(***************************************************************************)
(* ClaudeRun with two attempts whose ids share a segment, and a file       *)
(* system with a repository, links into it and out of it, and a directory  *)
(* that is no repository.                                                  *)
(***************************************************************************)
EXTENDS ClaudeRun, TLC

CONSTANTS r1, r2

MCAttemptOf == (r1 :> <<"a", ".">>) @@ (r2 :> <<"a", "/">>)

Directory == {<<"repo">>, <<"repo", ".git">>, <<"repo", "sub">>, <<"repo2">>}
Link == (<<"link">> :> <<"repo">>) @@ (<<"link", "sub">> :> <<"repo", "sub">>)
          @@ (<<"repo", "out">> :> <<"repo2">>)
MCRealPath == [p \in Directory |-> p] @@ Link
MCAllowlist == {<<"link">>, <<"repo2">>, <<"gone">>}
MCWorkspace ==
  [repoRoot : {<<"link">>, <<"repo">>, <<"repo2">>, <<"gone">>},
   cwd : {NoCwd, <<"repo">>, <<"link", "sub">>, <<"repo", "out">>, <<"repo", "none">>}]

\* What validateWorkspace is to let through here: the repository by either name, and
\* a cwd that is really below it.
ASSUME WorkspacesLetThrough ==
  {w \in MCWorkspace : ValidateWorkspace(w) = "ok"} =
    [repoRoot : {<<"link">>, <<"repo">>}, cwd : {NoCwd, <<"repo">>, <<"link", "sub">>}]
=============================================================================
