-------------------------------- MODULE Boot --------------------------------
(***************************************************************************)
(* What the container entrypoint (cmd/entrypoint) and the configuration    *)
(* (internal/config) make of an environment and of command-line flags.     *)
(*                                                                         *)
(* A string is a sequence of pieces; only spaces and slashes are told      *)
(* apart from other text.  An environment is a function on the variables   *)
(* that are set, with short names: dataDir is NSQLITE_DATA_DIR, bucket is  *)
(* NSQLITE_LITESTREAM_S3_BUCKET, and so on.  Flags are a function on the   *)
(* fields that are given; a variable that is set is not empty.             *)
(***************************************************************************)
EXTENDS Integers, Sequences, FiniteSetsExt

TrimSpace(s) ==
    LET text == {i \in DOMAIN s : s[i] # " "} IN
    IF text = {} THEN <<>> ELSE SubSeq(s, Min(text), Max(text))

TrimRight(s, piece) ==
    LET rest == {i \in DOMAIN s : s[i] # piece} IN
    IF rest = {} THEN <<>> ELSE SubSeq(s, 1, Max(rest))

TrimLeft(s, piece) ==
    LET rest == {i \in DOMAIN s : s[i] # piece} IN
    IF rest = {} THEN <<>> ELSE SubSeq(s, Min(rest), Len(s))

\* path.Join(dir, "database.sqlite") and filepath.Join: a cleaned path, as its
\* names, each with its place among them.
Names(dir) == {i \in DOMAIN dir : dir[i] # "/"}

Join(dir) ==
    [absolute |-> dir # <<>> /\ Head(dir) = "/",
     names |-> {<<Cardinality({j \in Names(dir) : j <= i}), dir[i]>> : i \in Names(dir)}
               \cup {<<Cardinality(Names(dir)) + 1, "database.sqlite">>}]
-----------------------------------------------------------------------------
\* cmd/entrypoint

Trimmed(env, key) == IF key \in DOMAIN env THEN TrimSpace(env[key]) ELSE <<>>

defaultValue(env, key, fallback) ==
    IF Trimmed(env, key) = <<>> THEN fallback ELSE Trimmed(env, key)

\* parseBool of NSQLITE_LITESTREAM_ENABLED, FALSE by default, or an error.
LitestreamEnabled(env) ==
    LET value == Trimmed(env, "enabled") IN
    IF value \in {<<>>, <<"0">>, <<"false">>, <<"no">>, <<"off">>} THEN "no"
    ELSE IF value \in {<<"1">>, <<"true">>, <<"yes">>, <<"on">>} THEN "yes" ELSE "error"

Required == {"bucket", "path", "endpoint", "region", "accessKey", "secretKey"}

Tuning == [configPath |-> <<"/", "tmp", "/", "litestream.yml">>, logLevel |-> <<"info">>,
           logFormat |-> <<"text">>, snapshotInterval |-> <<"24h">>,
           snapshotRetention |-> <<"168h">>, syncInterval |-> <<"1s">>,
           validationInterval |-> <<"5m">>]

\* required: none of them may be blank.
RequiredSet(env) == \A key \in Required : Trimmed(env, key) # <<>>

loadLitestreamSettings(env) ==
    [key \in Required \cup DOMAIN Tuning \cup {"session"} |->
        CASE key = "path" -> TrimLeft(Trimmed(env, key), "/")
          [] key \in DOMAIN Tuning -> defaultValue(env, key, Tuning[key])
          [] OTHER -> Trimmed(env, key)]

execEnvironment(settings) ==
    LET token == IF settings.session = <<>> THEN {} ELSE {"AWS_SESSION_TOKEN"} IN
    [key \in {"AWS_ACCESS_KEY_ID", "AWS_SECRET_ACCESS_KEY"} \cup token |->
        CASE key = "AWS_ACCESS_KEY_ID" -> settings.accessKey
          [] key = "AWS_SECRET_ACCESS_KEY" -> settings.secretKey
          [] OTHER -> settings.session]

mergeExecEnvironment(base, overrides) ==
    [key \in DOMAIN base \cup DOMAIN overrides |->
        IF key \in DOMAIN overrides THEN overrides[key] ELSE base[key]]

\* Mutant: the directory is not looked at.
resolveDefaultPath(dataDir) == Join(<<"/", "data">>)

resolveDatabasePath(dataDir) ==
    Join(IF TrimRight(dataDir, "/") = <<>> THEN <<"/", "data">> ELSE TrimRight(dataDir, "/"))

renderLitestreamConfig(path, s) ==
    [database |-> path, bucket |-> s.bucket, path |-> s.path, endpoint |-> s.endpoint,
     region |-> s.region, sync |-> s.syncInterval, validation |-> s.validationInterval,
     logging |-> <<s.logLevel, s.logFormat>>,
     snapshot |-> <<s.snapshotInterval, s.snapshotRetention>>]

\* buildEntrypointPlan: nothing to replicate, or the Litestream to exec.
NoReplica == [replicate |-> FALSE]
buildEntrypointPlan(env) ==
    IF LitestreamEnabled(env) = "no" THEN NoReplica
    ELSE LET settings == loadLitestreamSettings(env)
             path == resolveDatabasePath(defaultValue(env, "dataDir", <<"/", "data">>))
         IN  [replicate |-> TRUE, configPath |-> settings.configPath,
              config |-> renderLitestreamConfig(path, settings),
              env |-> mergeExecEnvironment(env, execEnvironment(settings))]

PlanRefused(env) ==
    LitestreamEnabled(env) = "error" \/ (LitestreamEnabled(env) = "yes" /\ ~RequiredSet(env))
-----------------------------------------------------------------------------
\* internal/config: a flag, else the variable, else the default.  Durations are
\* in microseconds; hosts and ports are told apart by whether they are valid.

Defaults == [dataDir |-> <<"/", "data">>, txIdleTimeout |-> 10000000, maxReadConns |-> 10,
             cacheSizeKB |-> 20000, busyTimeout |-> 5000000, listenHost |-> "valid",
             listenPort |-> "valid"]

Config(env, flags) ==
    [f \in DOMAIN Defaults |->
        IF f \in DOMAIN flags THEN flags[f] ELSE IF f \in DOMAIN env THEN env[f] ELSE Defaults[f]]

\* Parse: the validations, of which there is none for maxReadConns.
Parses(c) ==
    /\ c.listenHost = "valid" /\ c.listenPort = "valid"
    /\ {c.txIdleTimeout, c.busyTimeout, c.cacheSizeKB} \subseteq Nat \ {0}
=============================================================================
