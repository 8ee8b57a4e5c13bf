------------------------------ MODULE MCStartup ------------------------------
(* Startup with the server's options and the environment as definitions.     *)
EXTENDS Startup

MCHostEnv == [v \in {"HOME", "PATH", "CLAUDE_CONFIG_DIR", "CLAUDE_CODE_OAUTH_TOKEN"} |-> "host"]
MCOptions ==
  {[simple |-> FALSE, confirmAfter |-> 1, force404s |-> 0, wrongFingerprint |-> FALSE],
   [simple |-> FALSE, confirmAfter |-> NoAuto, force404s |-> 1, wrongFingerprint |-> FALSE],
   [simple |-> TRUE, confirmAfter |-> NoAuto, force404s |-> 0, wrongFingerprint |-> FALSE]}
=============================================================================
