------------------------------ MODULE Startup ------------------------------
(***************************************************************************)
(* runDaemon (src/index.ts) up to daemon.start, with the self-checks of    *)
(* src/engine/isolate.ts, on one of the hosts that Pairing's connects run  *)
(* on: the config file and the keychain it starts from are the ones they   *)
(* write, at any moment.                                                   *)
(*                                                                         *)
(* The engine the two self-checks spawn is external: it may answer, lose   *)
(* its login, hang, ask for permission, and write the sentinel with or     *)
(* without asking, up to the moment it is gone.                            *)
(***************************************************************************)
EXTENDS Pairing

CONSTANTS
  DevKey,     \* "dev-key", the default of config.keyId
  NoSigner,   \* no signer yet
  HostEnv     \* the daemon's environment: a function on the names it has, to "host"

ASSUME HostEnvAssumption == HostEnv \in [DOMAIN HostEnv -> {"host"}] /\ "HOME" \in DOMAIN HostEnv
ASSUME DevKeyAssumption == DevKey \notin Identity /\ NoSigner \notin Key

VARIABLES
  daemon,     \* the process: the await of runDaemon it is at, and its locals
  probe       \* the engine under selfCheckGate and its sentinel (external)

vars == <<opts, now, minted, rows, codes, registered, devices, forced, conn, keychain, config,
          daemon, probe>>

Starting == {"detect", "login", "gate", "signer"}

\* agent and key are config.agentId and config.keyId; override: HUGIND_AGENT_ID and
\* HUGIND_SERVER_URL were set (to something no server here gave out, NoId) without
\* HUGIND_KEY_ID.  settings: <stateDir>/isolation holds the empty-allow settings; each
\* start makes it anew.
DaemonState ==
  [at : {"off", "serve"} \cup Starting, host : Host, agent : Identity \cup {NoId},
   key : Identity \cup {DevKey, NoId}, override : BOOLEAN, env : {"host", "isolated"},
   settings : BOOLEAN, gate : BOOLEAN, signer : Key \cup {NoSigner}]
ProbeState == [alive : BOOLEAN, fired : BOOLEAN, wrote : BOOLEAN]
NoProbe == [alive |-> FALSE, fired |-> FALSE, wrote |-> FALSE]
Off(h) ==
  [at |-> "off", host |-> h, agent |-> NoId, key |-> NoId, override |-> FALSE,
   env |-> "host", settings |-> FALSE, gate |-> FALSE, signer |-> NoSigner]

TypeOK ==
  /\ PairingTypeOK
  /\ daemon \in DaemonState
  /\ probe \in ProbeState

Init ==
  /\ PairingInit
  /\ \E h \in Host : daemon = Off(h)
  /\ probe = NoProbe

\* process.exit, a signal, or a crash; a probe is orphaned, and is nothing to the
\* next start.
Exit == daemon' = Off(daemon.host) /\ probe' = NoProbe

-----------------------------------------------------------------------------
(* loadConfigOrExit.                                                       *)

\* readPairingConfig throws on a malformed file, and the Config schema on a missing
\* serverUrl or agentId.
ReadPairingConfigThrows(paired) == paired = "torn"
ConfigParses(paired, override) == paired = "absent" => override

Load(paired, override) ==
  /\ daemon.at = "off"
  /\ \/ /\ ReadPairingConfigThrows(paired) \/ ~ConfigParses(paired, override)
        /\ UNCHANGED daemon
     \/ /\ ~ReadPairingConfigThrows(paired) /\ ConfigParses(paired, override)
        /\ daemon' = [daemon EXCEPT !.at = "detect", !.override = override,
                                    !.agent = IF override THEN NoId ELSE paired,
                                    !.key = IF paired = "absent" THEN DevKey ELSE paired]

Start(override) ==
  /\ Load(config[daemon.host], override)
  /\ UNCHANGED <<pairing, probe>>

-----------------------------------------------------------------------------
(* The self-checks.                                                        *)

Picked(names) == [v \in names \cap DOMAIN HostEnv |-> HostEnv[v]]
EnvAuthOverlay == Picked({"ANTHROPIC_API_KEY", "CLAUDE_CODE_OAUTH_TOKEN"})
EnvAllowlist ==
  {"PATH", "HOME", "LANG", "LC_ALL", "LC_CTYPE", "TMPDIR", "TERM", "SHELL", "USER", "LOGNAME"}

\* { ...env, ...overlay }.
Spread(env, overlay) ==
  [v \in DOMAIN env \cup DOMAIN overlay |-> IF v \in DOMAIN overlay THEN overlay[v] ELSE env[v]]

\* The overlay wins over what the daemon passes on of its own environment.
ScrubbedChildEnv(overlay) == Spread(Picked(EnvAllowlist), overlay)

\* The directory whose settings claude reads (external).
SettingsOf(env) == IF "CLAUDE_CONFIG_DIR" \in DOMAIN env THEN env["CLAUDE_CONFIG_DIR"] ELSE env["HOME"]

IsolationMode == {"home-swap", "config-dir"}
IsolationEnv(mode) ==
  LET name == IF mode = "config-dir" THEN "CLAUDE_CONFIG_DIR" ELSE "HOME"
  IN Spread([v \in {name} |-> "isolated"], EnvAuthOverlay)

\* buildIsolation, and its cleanup with the empty overlay that replaces it.
BuildIsolation(d, mode) ==
  [d EXCEPT !.env = SettingsOf(ScrubbedChildEnv(IsolationEnv(mode))), !.settings = TRUE]
CleanupIsolation(d) == [d EXCEPT !.env = SettingsOf(ScrubbedChildEnv(<<>>)), !.settings = FALSE]

\* detectEngineCapabilities always resolves; the login probe is spawned.
Detected(mode) ==
  /\ daemon.at = "detect"
  /\ daemon' = [BuildIsolation(daemon, mode) EXCEPT !.at = "login"]
  /\ UNCHANGED <<pairing, probe>>

\* selfCheckLogin.  The probe cannot be spawned, says that the login is lost, or
\* closes without saying so; that includes being killed by the timer.
LoginOutcome == {"spawn error", "login error", "closed"}
LoggedIn(outcome) == outcome = "closed"

LoginChecked(outcome) ==
  /\ daemon.at = "login" /\ outcome \in LoginOutcome
  /\ \/ /\ LoggedIn(outcome)
        /\ daemon' = [daemon EXCEPT !.at = "gate"]
        /\ probe' = [NoProbe EXCEPT !.alive = TRUE]
     \/ /\ ~LoggedIn(outcome)
        /\ daemon' = [CleanupIsolation(daemon) EXCEPT !.at = "signer"]
        /\ UNCHANGED probe
  /\ UNCHANGED <<pairing>>

\* The engine asks to write the sentinel, and is denied.
ProbePrompts ==
  /\ daemon.at = "gate" /\ probe.alive /\ ~probe.fired
  /\ probe' = [probe EXCEPT !.fired = TRUE]
  /\ UNCHANGED <<pairing, daemon>>

\* It writes the sentinel: unasked, against the denial, or late.
ProbeWrites ==
  /\ probe.alive /\ ~probe.wrote
  /\ probe' = [probe EXCEPT !.wrote = TRUE]
  /\ UNCHANGED <<pairing, daemon>>

\* Mutant: the probe counts although the engine did not exit.
MutantFinish(exited) ==
  /\ daemon.at = "gate"
  /\ daemon' = [daemon EXCEPT !.at = "signer", !.gate = probe.fired /\ ~probe.wrote]
  /\ probe' = [probe EXCEPT !.alive = @ /\ ~exited]
  /\ UNCHANGED <<pairing>>

\* finish: on 'close' with exited; without it on the timer, a spawn error or a
\* failed setup.  SIGKILL is sent, but takes effect later.
Finish(exited) ==
  /\ daemon.at = "gate"
  /\ daemon' = [daemon EXCEPT !.at = "signer", !.gate = probe.fired /\ ~probe.wrote /\ exited]
  /\ probe' = [probe EXCEPT !.alive = @ /\ ~exited]
  /\ UNCHANGED <<pairing>>

ProbeDies ==
  /\ daemon.at # "gate" /\ probe.alive
  /\ probe' = [probe EXCEPT !.alive = FALSE]
  /\ UNCHANGED <<pairing, daemon>>

-----------------------------------------------------------------------------
(* keychainSigner, read only now: the config was read before the checks.   *)

StoredKey == IF daemon.key = DevKey THEN NoKey ELSE keychain[daemon.host][daemon.key]

LoadSigner ==
  /\ daemon.at = "signer"
  /\ \/ StoredKey = NoKey /\ Exit
     \/ /\ StoredKey # NoKey
        /\ daemon' = [daemon EXCEPT !.at = "serve", !.signer = StoredKey]
        /\ UNCHANGED probe
  /\ UNCHANGED <<pairing>>

\* SIGTERM, a crash, or a throw on the way to catch.
Stops ==
  /\ daemon.at # "off"
  /\ Exit
  /\ UNCHANGED <<pairing>>

\* buildTranscript, of what differs between two hellos: who signs, and for whom.
HelloTranscript(agent, key) == [tag |-> "auth", agent |-> agent, key |-> key, origin |-> Origin]
HelloSignature == Sign(daemon.signer, HelloTranscript(daemon.agent, daemon.key))

\* The public keys a relay has on record for an agent.
RecordedKeys(agent) ==
  IF agent \in Token THEN {k \in Key : rows[agent].state = "active" /\ rows[agent].winner = k}
  ELSE IF agent = SimpleId THEN registered ELSE {}

\* verifyHello.
VerifyHello ==
  IF daemon.agent # daemon.key \/ RecordedKeys(daemon.agent) = {} THEN "agent_unknown"
  ELSE IF \E k \in RecordedKeys(daemon.agent) :
            VerifyTranscript(k, HelloTranscript(daemon.agent, daemon.key), HelloSignature)
       THEN "ok" ELSE "bad_signature"

-----------------------------------------------------------------------------
StartupStep ==
  \/ LoadSigner
  \/ \E mode \in IsolationMode : Detected(mode)
  \/ \E outcome \in LoginOutcome : LoginChecked(outcome)
  \/ \E exited \in BOOLEAN : Finish(exited)

Next ==
  \/ PairingNext /\ UNCHANGED <<daemon, probe>>
  \/ \E override \in BOOLEAN : Start(override)
  \/ StartupStep \/ ProbePrompts \/ ProbeWrites \/ ProbeDies \/ Stops

Spec == Init /\ [][Next]_vars

-----------------------------------------------------------------------------
(* Safety.                                                                 *)

\* auth/connect.ts stores the seed, then writes the config, and either may be cut
\* short: a config file that parses names a key that this host's keychain holds
\* and that the server has registered, and activated, for that very device.
NeverHalfPaired ==
  \A h \in Host : config[h] \in Identity =>
    /\ keychain[h][config[h]] \in registered
    /\ config[h] \in Token =>
         rows[config[h]].state = "active" /\ rows[config[h]].winner = keychain[h][config[h]]

\* index.ts reads the config, checks the engine for minutes, then reads the key:
\* a daemon that serves with what connect wrote is one the relay verifies.
PairedDaemonVerifies == daemon.at = "serve" /\ ~daemon.override => VerifyHello = "ok"

\* index.ts "the approval gate is LIVE only when BOTH hold": the engine runs under
\* the isolated config, that config is in place, and the write it was denied has
\* not happened and cannot happen any more.
GateIsProven ==
  daemon.gate => /\ daemon.env = "isolated" /\ daemon.settings
                 /\ probe.fired /\ ~probe.wrote /\ ~probe.alive

\* A pairing is one device's: the server has registered the key of every connect
\* that ended paired, and two that did so by tokens used different ones.
OneDevicePerToken ==
  \A c \in Conn : conn[c].at = "done" =>
    /\ c \in registered
    /\ \A d \in Conn : conn[d].at = "done" /\ conn[d].id = conn[c].id /\ conn[c].id \in Token => d = c

-----------------------------------------------------------------------------
(* Liveness: timers fire, the clock advances, and a request is answered or *)
(* fails (fetch gives up on a silent server); nobody needs to confirm.     *)

Fairness ==
  /\ WF_vars(Tick /\ UNCHANGED <<conn, disk, daemon, probe>>)
  /\ \A c \in Conn :
       WF_vars((Step(c) \/ Serve(c) \/ FetchFails(c)) /\ UNCHANGED <<daemon, probe>>)

FairSpec == Spec /\ Fairness

\* The deadline of connect's loop: a connect ends, whatever the server answers and
\* whether or not anyone confirms.
ConnectEnds == \A c \in Conn : conn[c].at # "idle" ~> conn[c].at \in Ended
=============================================================================
