---------------------------- MODULE AdapterSetup ----------------------------
(***************************************************************************)
(* How the adapters of a command are chosen: a mode each, from the config  *)
(* file and the environment, and what a backend of each would answer to    *)
(* probe.                                                                  *)
(***************************************************************************)
EXTENDS ScoutSearch, SentinelScreen, RouterPlan, BenchVerdict

Adapters == {"scout", "bench", "sentinel", "router"}

\* A setting: not given, one of the two modes, or another word.
Settings == {"unset", "stub", "local", "unknown"}

\* adapter_config_from_mapping, then overlay_adapter_env: the environment wins,
\* but the file must be in order in any case.
ResolveMode(file, environment) ==
  CASE "unknown" \in {file, environment} -> "ValidationError"
    [] environment \in {"stub", "local"} -> environment
    [] environment = "unset" /\ file = "local" -> "local"
    [] OTHER -> "stub"

\* Can the settings be such that exactly these adapters are to be local?
MayRequest(requested) ==
  \A a \in Adapters: \E file, environment \in Settings:
    ResolveMode(file, environment) = IF a \in requested THEN "local" ELSE "stub"

\* The settings may be ones that no command accepts.
MayBeRefused ==
  \E file, environment \in Settings: ResolveMode(file, environment) = "ValidationError"

\* Probes[a]: what probe of the local adapter a may answer.
Probes ==
  [a \in Adapters |->
     CASE a = "scout" ->
            {ScoutProbe(jsonl, projection, script, warehouse) :
               jsonl \in JsonlFiles, projection \in DbFiles, script \in BOOLEAN,
               warehouse \in DbFiles}
       [] a = "bench" ->
            {BenchProbe(cli, which, checkout, importable) :
               cli \in BOOLEAN, which \in BOOLEAN, checkout \in BOOLEAN,
               importable \in BOOLEAN}
       [] a = "sentinel" -> {SentinelProbe(present) : present \in SUBSET Parts}
       [] a = "router" ->
            {RouterProbe(script, evidence) : script \in BOOLEAN, evidence \in Evidence}]

\* Can exactly these of the requested adapters have a backend that probes ok?
MayBePresent(present, requested) ==
  \A a \in requested: (a \in present) \in Probes[a]

\* Broken variant of AdapterCheck: the check names the mode and asks no probe.
AdapterCheckByMode(a, requested, present) == TRUE

\* _adapter_check: a stub is always ok.
AdapterCheck(a, requested, present) == a \in requested => a \in present

=============================================================================
