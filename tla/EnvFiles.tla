------------------------------ MODULE EnvFiles ------------------------------
(***************************************************************************)
(* scripts/env: gen-dev-env and gen-prod-env write the environment files,  *)
(* validate-env judges one.  Each command reads at most one file, decides, *)
(* and writes it whole or not at all.                                      *)
(*                                                                         *)
(* A value keeps what the scripts tell apart: what it is, the host or the  *)
(* length class, a number (a port, the identity of a secret, backslashes), *)
(* and the quotes in it.  NUTTOO_NAME stands for every key with a fixed    *)
(* default that nothing else depends on (the ticker, the log level, the    *)
(* paths, the machine).  Comments and the order of lines are left out.     *)
(***************************************************************************)
EXTENDS Naturals

CONSTANTS
  Files,        \* paths --out and --file name
  Overrides,    \* what --set gives: functions from keys to values
  ProcessEnvs,  \* environments validate-env may run in, likewise
  Edits         \* what the operator writes by hand, likewise

Value == [is : {"empty", "word", "port", "http", "store", "secret"}, of : STRING,
          n : Nat, quote : {"no", "single", "inner"}]

V(is, of, n) == [is |-> is, of |-> of, n |-> n, quote |-> "no"]

Empty == V("empty", "", 0)
Port(n) == V("port", "", n)
Http(host, n) == V("http", host, n)
Store(host) == V("store", host, 0)

Secrets == {"JWT_SECRET", "API_KEY_SALT"}
Stores == {"DATABASE_URL", "REDIS_URL"}
Ports == {"NUTTOO_API_PORT", "NUTTOO_WEB_PORT"}

VARIABLES
  files,   \* file -> its keys and values, absent files have none
  author,  \* file -> who wrote it last
  issued,  \* secrets generated so far
  argv,    \* the last generator command
  exit     \* exit code of the last command

envVars == <<files, author, issued, argv, exit>>

NoFile == [k \in {} |-> Empty]
Exists(f) == author[f] # "nobody"

EnvArgs == [file : Files, force : BOOLEAN, merge : BOOLEAN, set : Overrides,
            noSecrets : BOOLEAN, lenient : BOOLEAN, dry : BOOLEAN]

\* gen-dev-env merges unless told to overwrite; the last of the two flags wins.
DevArgs == {a \in EnvArgs : a.merge = ~a.force /\ ~a.lenient}

ProdArgs == EnvArgs

-----------------------------------------------------------------------------
(* Writing and reading a file                                              *)

\* What a value is after the file is written and read: the surrounding quotes
\* are stripped, and a quote inside gains a backslash that nothing removes.
Reread(v) ==
  CASE v.quote = "single" -> [v EXCEPT !.quote = "no"]
    [] v.quote = "inner" -> [v EXCEPT !.n = @ + 1]
    [] OTHER -> v

Parsed(f) == [k \in DOMAIN files[f] |-> Reread(files[f][k])]

MergeEnv(base, incoming) ==
  [k \in DOMAIN base \cup DOMAIN incoming |->
     IF k \in DOMAIN incoming THEN incoming[k] ELSE base[k]]

Filled(env, k) == k \in DOMAIN env /\ env[k] # Empty

FreshSecret(k) == V("secret", "long", issued + IF k = "JWT_SECRET" THEN 1 ELSE 2)

\* Mutant: every run generates the secrets.
NewSecrets(env, noSecrets) ==
  MergeEnv(env, [k \in Secrets |-> IF noSecrets THEN Empty ELSE FreshSecret(k)])

\* Secrets that are missing or empty are generated, or left empty on request.
ApplySecrets(env, noSecrets) ==
  MergeEnv(env, [k \in {k \in Secrets : ~Filled(env, k)} |->
                   IF noSecrets THEN Empty ELSE FreshSecret(k)])

Write(a, env, who) ==
  /\ exit' = 0
  /\ argv' = [file |-> a.file, force |-> a.force, set |-> DOMAIN a.set]
  /\ IF a.dry THEN UNCHANGED <<files, author, issued>>
     ELSE /\ files' = [files EXCEPT ![a.file] = env]
          /\ author' = [author EXCEPT ![a.file] = who]
          /\ issued' = issued + IF a.noSecrets THEN 0 ELSE 2

-----------------------------------------------------------------------------
(* gen-dev-env                                                             *)

DevDefaults ==
  [NODE_ENV |-> V("word", "development", 0), NUTTOO_NAME |-> V("word", "Nuttoo", 0),
   NUTTOO_API_PORT |-> Port(8787), NUTTOO_WEB_PORT |-> Port(5173),
   VITE_API_BASE_URL |-> Http("localhost", 8787), CORS_ORIGIN |-> Http("localhost", 5173),
   DATABASE_URL |-> Store("localhost"), REDIS_URL |-> Store("localhost")]

\* A URL that nobody set follows the port it names.
FollowPort(env, chosen, url, port) ==
  IF url \in chosen THEN env
  ELSE [env EXCEPT ![url] =
          Http("localhost", IF env[port] = Empty THEN DevDefaults[port].n ELSE env[port].n)]

DevEnv(a) ==
  LET existing == IF a.merge /\ Exists(a.file) THEN Parsed(a.file) ELSE NoFile
      chosen == DOMAIN existing \cup DOMAIN a.set
      env == MergeEnv(ApplySecrets(MergeEnv(DevDefaults, existing), a.noSecrets), a.set)
  IN FollowPort(FollowPort(env, chosen, "VITE_API_BASE_URL", "NUTTOO_API_PORT"),
                chosen, "CORS_ORIGIN", "NUTTOO_WEB_PORT")

GenDevEnv(a) == Write(a, DevEnv(a), "gen-dev-env")

-----------------------------------------------------------------------------
(* gen-prod-env                                                            *)

ProdBase ==
  [NODE_ENV |-> V("word", "production", 0), NUTTOO_NAME |-> V("word", "Nuttoo", 0),
   NUTTOO_API_PORT |-> Port(8787), NUTTOO_WEB_PORT |-> Port(5173),
   PUBLIC_BASE_URL |-> Empty, CORS_ORIGIN |-> Empty, DATABASE_URL |-> Empty,
   REDIS_URL |-> Empty, JWT_SECRET |-> Empty, API_KEY_SALT |-> Empty]

ProdRequired == {"NODE_ENV", "PUBLIC_BASE_URL", "CORS_ORIGIN"} \cup Stores \cup Secrets

ProdEnv(a) ==
  LET existing == IF a.merge /\ Exists(a.file) THEN Parsed(a.file) ELSE NoFile
  IN MergeEnv(ApplySecrets(MergeEnv(ProdBase, existing), a.noSecrets), a.set)

LongEnough(k, v) ==
  CASE k = "JWT_SECRET" -> v.of = "long"
    [] k = "API_KEY_SALT" -> v.of \in {"long", "medium"}

\* Mutant: the stores are not among the required keys.
RequireNoStores(env) == \A k \in ProdRequired \ Stores : Filled(env, k)

\* Every required key has a value.
EnsureRequired(env) == \A k \in ProdRequired : Filled(env, k)

ValidateProd(env, lenient) ==
  /\ env["NODE_ENV"] = V("word", "production", 0)
  /\ lenient \/ \A k \in Stores : env[k].of # "localhost"
  /\ \A k \in Secrets : LongEnough(k, env[k])

ProdRefused(a) ==
  \/ Exists(a.file) /\ ~a.force /\ ~a.merge
  \/ ~EnsureRequired(ProdEnv(a))
  \/ ~ValidateProd(ProdEnv(a), a.lenient)

GenProdEnv(a) ==
  /\ ~ProdRefused(a)
  /\ Write(a, ProdEnv(a), IF a.lenient THEN "gen-prod-env --allow-localhost" ELSE "gen-prod-env")

RefuseProdEnv(a) ==
  /\ ProdRefused(a)
  /\ exit' = 1
  /\ UNCHANGED <<files, author, issued, argv>>

-----------------------------------------------------------------------------
(* validate-env                                                            *)

Fail(key, why) == [level |-> "fail", key |-> key, why |-> why]
Warn(key, why) == [level |-> "warn", key |-> key, why |-> why]

RequiredKeysForMode(mode) ==
  IF mode = "prod" THEN ProdRequired
  ELSE {"NODE_ENV", "NUTTOO_NAME", "CORS_ORIGIN"} \cup Ports \cup Stores

BadPort(v) == v.is # "port" \/ v.n \notin 1..65535

\* The issues of an environment in a mode: dev (docker is the same) or prod.
Issues(env, mode, lenient, allowEmpty) ==
  LET filled == {k \in DOMAIN env : env[k] # Empty}
      prod == mode = "prod"
      modes == {V("word", w, 0) : w \in {"development", "production", "Production", "test"}}
  IN {Fail(k, "missing") : k \in RequiredKeysForMode(mode) \ DOMAIN env}
     \cup {Fail(k, "empty") : k \in (RequiredKeysForMode(mode) \cap DOMAIN env)
                                      \ (filled \cup allowEmpty)}
     \cup {Warn(k, "unexpected") : k \in {k \in {"NODE_ENV"} \cap filled : env[k] \notin modes}}
     \cup {Fail(k, "mode") : k \in {k \in {"NODE_ENV"} \cap filled :
                                      prod /\ env[k].of \notin {"production", "Production"}}}
     \cup {Fail(k, "port") : k \in {k \in Ports \cap filled : BadPort(env[k])}}
     \cup {Fail(k, "shape") : k \in {k \in Stores \cap filled : env[k].is \notin {"store", "http"}}}
     \cup {Fail(k, "localhost") : k \in {k \in Stores \cap filled :
                                           prod /\ ~lenient /\ env[k].of = "localhost"}}
     \cup {Fail(k, "shape") : k \in {k \in {"CORS_ORIGIN"} \cap filled : env[k].is # "http"}}
     \cup {Warn(k, "localhost") : k \in {k \in {"CORS_ORIGIN"} \cap filled :
                                           prod /\ ~lenient /\ env[k].of = "localhost"}}
     \cup {Fail(k, "shape") : k \in {k \in {"PUBLIC_BASE_URL"} \cap filled :
                                       prod /\ env[k].is # "http"}}
     \cup {Fail(k, "short") : k \in {k \in Secrets \cap filled : prod /\ ~LongEnough(k, env[k])}}
     \cup {Warn(k, "mismatch") : k \in {k \in {"VITE_API_BASE_URL"} \cap filled :
             /\ ~prod /\ "NUTTOO_API_PORT" \in filled
             /\ env[k].is = "http" /\ env[k].n # env["NUTTOO_API_PORT"].n}}

ExitCode(issues, strict) ==
  IF \E i \in issues : i.level = "fail" \/ strict THEN 2
  ELSE IF issues # {} THEN 1 ELSE 0

\* A missing file is a failure; the environment of the process wins over the file.
ValidateEnv(f, mode, lenient, allowEmpty, strict) ==
  /\ exit' \in IF Exists(f)
               THEN {ExitCode(Issues(MergeEnv(Parsed(f), p), mode, lenient, allowEmpty), strict) :
                       p \in ProcessEnvs}
               ELSE {2}
  /\ UNCHANGED <<files, author, issued, argv>>

-----------------------------------------------------------------------------
EnvInit ==
  /\ files = [f \in Files |-> NoFile] /\ author = [f \in Files |-> "nobody"]
  /\ issued = 0 /\ argv = [file |-> "", force |-> FALSE, set |-> {}] /\ exit = 0

\* The operator edits a file.
Edit(f, e) ==
  /\ Exists(f) /\ author[f] # "operator"
  /\ files' = [files EXCEPT ![f] = MergeEnv(Parsed(f), e)]
  /\ author' = [author EXCEPT ![f] = "operator"]
  /\ UNCHANGED <<issued, argv, exit>>

EnvCommand ==
  \/ \E a \in DevArgs : GenDevEnv(a)
  \/ \E a \in ProdArgs : GenProdEnv(a) \/ RefuseProdEnv(a)
  \/ \E f \in Files, m \in {"dev", "prod"}, l, s \in BOOLEAN, e \in {{}, Secrets} :
       ValidateEnv(f, m, l, e, s)

-----------------------------------------------------------------------------
(* Properties                                                              *)

\* Quoting survives the round trip: no value changes when it is written and read.
Unquoted(f) == Parsed(f) = files[f]

\* gen-prod-env and validate-env have separate checks: what the first wrote
\* without --allow-localhost, alone or over any older file, the second faults
\* only for what the first does not look at, the shape of a URL and a port.
ProductionEnvValid ==
  \A f \in Files : author[f] = "gen-prod-env" /\ Unquoted(f) =>
    \A i \in Issues(Parsed(f), "prod", FALSE, {}) : i.level = "fail" => i.why \in {"shape", "port"}

\* A secret in a file outlives every generator run that neither overwrites the
\* file nor sets the key, whichever of the two generators it is.
SecretsKept ==
  [][\A f \in Files, k \in Secrets :
       /\ Filled(files[f], k) /\ Unquoted(f)
       /\ files'[f] # files[f] /\ author'[f] # "operator"
       /\ ~argv'.force /\ k \notin argv'.set
       => files'[f][k] = files[f][k]]_envVars
=============================================================================
