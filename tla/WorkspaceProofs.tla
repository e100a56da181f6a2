-------------------------- MODULE WorkspaceProofs ---------------------------
(***************************************************************************)
(* What the scripts promise, for any files, overrides, terminals, programs *)
(* and histories.  The four families of commands share no state, so there  *)
(* is one invariant for each, kept by the steps of that family and left    *)
(* alone by the steps of the others.                                       *)
(***************************************************************************)
EXTENDS Workspace, TLAPS

-----------------------------------------------------------------------------
(* Environment files                                                       *)

\* A file nobody wrote has no keys, and one that gen-prod-env wrote last, without
\* --allow-localhost, still passes the checks it made before it wrote.
EnvInv ==
  /\ DOMAIN files = Files /\ DOMAIN author = Files
  /\ \A f \in Files :
       /\ author[f] = "nobody" => files[f] = NoFile
       /\ author[f] = "gen-prod-env" =>
            EnsureRequired(files[f]) /\ ValidateProd(files[f], FALSE)

LEMMA EnvInitInv == EnvInit => EnvInv
  BY DEF EnvInit, EnvInv

\* A generator that writes a file leaves the others, and says whose the file is.
LEMMA WriteKeepsEnv ==
  ASSUME EnvInv, NEW a \in EnvArgs, NEW env, NEW who, Write(a, env, who), who # "nobody",
         who = "gen-prod-env" => EnsureRequired(env) /\ ValidateProd(env, FALSE)
  PROVE  EnvInv'
<1>1. a.file \in Files
  BY DEF EnvArgs
<1>2. CASE a.dry
  BY <1>2 DEF Write, EnvInv, EnsureRequired, ValidateProd
<1>3. CASE ~a.dry
  <2>1. files' = [files EXCEPT ![a.file] = env] /\ author' = [author EXCEPT ![a.file] = who]
    BY <1>3 DEF Write
  <2>2. DOMAIN files' = Files /\ DOMAIN author' = Files
    BY <2>1 DEF EnvInv
  <2>3. ASSUME NEW f \in Files
        PROVE  /\ author'[f] = "nobody" => files'[f] = NoFile
               /\ author'[f] = "gen-prod-env" =>
                    EnsureRequired(files'[f]) /\ ValidateProd(files'[f], FALSE)
    <3>1. CASE f = a.file
      <4>1. files'[f] = env /\ author'[f] = who
        BY <1>1, <2>1, <3>1 DEF EnvInv
      <4> QED
        BY <4>1
    <3>2. CASE f # a.file
      <4>1. files'[f] = files[f] /\ author'[f] = author[f]
        BY <2>1, <3>2 DEF EnvInv
      <4> QED
        BY <4>1 DEF EnvInv
    <3> QED
      BY <3>1, <3>2
  <2> QED
    BY <2>2, <2>3 DEF EnvInv
<1> QED
  BY <1>2, <1>3

LEMMA EnvStepInv == EnvInv /\ [Next]_workspaceVars => EnvInv'
<1> SUFFICES ASSUME EnvInv, [Next]_workspaceVars PROVE EnvInv'
  OBVIOUS
<1>1. CASE UNCHANGED envVars
  BY <1>1 DEF EnvInv, envVars, EnsureRequired, ValidateProd
<1>2. ASSUME NEW a \in DevArgs, GenDevEnv(a) PROVE EnvInv'
  BY <1>2, WriteKeepsEnv DEF GenDevEnv, DevArgs
<1>3. ASSUME NEW a \in ProdArgs, GenProdEnv(a) PROVE EnvInv'
  <2>1. EnsureRequired(ProdEnv(a)) /\ ValidateProd(ProdEnv(a), a.lenient)
    BY <1>3 DEF GenProdEnv, ProdRefused
  <2>2. CASE a.lenient = TRUE
    BY <1>3, <2>2, WriteKeepsEnv DEF GenProdEnv, ProdArgs
  <2>3. CASE a.lenient = FALSE
    BY <1>3, <2>1, <2>3, WriteKeepsEnv DEF GenProdEnv, ProdArgs
  <2> QED
    BY <2>2, <2>3 DEF ProdArgs, EnvArgs
<1>4. ASSUME NEW a \in ProdArgs, RefuseProdEnv(a) PROVE EnvInv'
  BY <1>4 DEF RefuseProdEnv, EnvInv, EnsureRequired, ValidateProd
<1>5. ASSUME NEW f \in Files, NEW m, NEW l, NEW e, NEW s, ValidateEnv(f, m, l, e, s)
      PROVE  EnvInv'
  BY <1>5 DEF ValidateEnv, EnvInv, EnsureRequired, ValidateProd
<1>6. ASSUME NEW f \in Files, NEW e \in Edits, Edit(f, e) PROVE EnvInv'
  BY <1>6 DEF Edit, EnvInv, EnsureRequired, ValidateProd
<1> QED
  BY <1>1, <1>2, <1>3, <1>4, <1>5, <1>6
  DEF Next, Env, EnvCommand, Wallet, Idl, Ci, workspaceVars

\* The checks that gen-prod-env makes cover what validate-env fails a file for,
\* apart from the shape of a URL and of a port.
LEMMA ProdChecksCover ==
  ASSUME NEW env, EnsureRequired(env), ValidateProd(env, FALSE),
         NEW i \in Issues(env, "prod", FALSE, {}), i.level = "fail"
  PROVE  i.why \in {"shape", "port"}
<1>1. \A k \in ProdRequired : k \in DOMAIN env /\ env[k] # Empty
  BY DEF EnsureRequired, Filled
<1>2. env["NODE_ENV"].of = "production"
  BY DEF ValidateProd, V
<1>3. \A k \in Stores : env[k].of # "localhost"
  BY DEF ValidateProd
<1>4. \A k \in Secrets : LongEnough(k, env[k])
  BY DEF ValidateProd
<1>5. RequiredKeysForMode("prod") = ProdRequired
  BY DEF RequiredKeysForMode
<1> QED
  BY <1>1, <1>2, <1>3, <1>4, <1>5 DEF Issues, Fail, Warn

\* What gen-prod-env accepted without --allow-localhost, validate-env --mode=prod
\* faults for the shape of a URL or a port only: for every override, every file it
\* was merged over and every value an operator wrote there before.
THEOREM ProductionEnvCorrect == Spec => []ProductionEnvValid
<1>1. EnvInv => ProductionEnvValid
  <2> SUFFICES ASSUME EnvInv, NEW f \in Files, author[f] = "gen-prod-env", Unquoted(f),
                      NEW i \in Issues(Parsed(f), "prod", FALSE, {}), i.level = "fail"
               PROVE  i.why \in {"shape", "port"}
    BY DEF ProductionEnvValid
  <2>1. Parsed(f) = files[f]
    BY DEF Unquoted
  <2>2. EnsureRequired(files[f]) /\ ValidateProd(files[f], FALSE)
    BY DEF EnvInv
  <2> QED
    BY <2>1, <2>2, ProdChecksCover
<1>2. Init => EnvInv
  BY EnvInitInv DEF Init
<1> QED
  BY <1>1, <1>2, EnvStepInv, PTL DEF Spec

\* A generator keeps a secret that the file has and the command does not set.
LEMMA SecretApplied ==
  ASSUME NEW base, NEW existing, NEW set, NEW noSecrets, NEW k \in Secrets,
         Filled(existing, k), k \notin DOMAIN set
  PROVE  LET env == MergeEnv(ApplySecrets(MergeEnv(base, existing), noSecrets), set)
         IN k \in DOMAIN env /\ env[k] = existing[k]
<1> DEFINE merged == MergeEnv(base, existing)
           given == ApplySecrets(merged, noSecrets)
<1>1. k \in DOMAIN merged /\ merged[k] = existing[k]
  BY DEF MergeEnv, Filled
<1>2. Filled(merged, k)
  BY <1>1 DEF Filled
<1> HIDE DEF merged
<1>3. k \in DOMAIN given /\ given[k] = merged[k]
  BY <1>1, <1>2 DEF ApplySecrets, MergeEnv
<1> HIDE DEF given
<1>4. k \in DOMAIN MergeEnv(given, set) /\ MergeEnv(given, set)[k] = given[k]
  BY <1>3 DEF MergeEnv
<1> QED
  BY <1>1, <1>3, <1>4 DEF merged, given

\* A URL that follows a port is no secret.
LEMMA FollowPortKeeps ==
  ASSUME NEW env, NEW chosen, NEW url, NEW port, NEW k, k \in DOMAIN env, k # url
  PROVE  k \in DOMAIN FollowPort(env, chosen, url, port)
         /\ FollowPort(env, chosen, url, port)[k] = env[k]
  BY DEF FollowPort

\* A secret outlives every run of a generator that neither overwrites the file
\* nor sets the key, whatever else the file, the command and its options are.
THEOREM SecretsCorrect == Spec => SecretsKept
<1> DEFINE Kept == \A f \in Files, k \in Secrets :
       /\ Filled(files[f], k) /\ Unquoted(f)
       /\ files'[f] # files[f] /\ author'[f] # "operator"
       /\ ~argv'.force /\ k \notin argv'.set
       => files'[f][k] = files[f][k]
<1>1. EnvInv /\ [Next]_workspaceVars => [Kept]_envVars
  <2> SUFFICES ASSUME EnvInv, [Next]_workspaceVars,
                      NEW f \in Files, NEW k \in Secrets, Filled(files[f], k), Unquoted(f),
                      files'[f] # files[f], author'[f] # "operator",
                      ~argv'.force, k \notin argv'.set
               PROVE  files'[f][k] = files[f][k]
    OBVIOUS
  <2>1. Exists(f) /\ Parsed(f) = files[f]
    BY DEF Exists, EnvInv, Filled, NoFile, Unquoted
  <2>2. ASSUME NEW a \in EnvArgs, NEW env, NEW who, Write(a, env, who)
        PROVE  f = a.file /\ ~a.force /\ k \notin DOMAIN a.set /\ files'[f] = env
    <3>1. ~a.dry /\ files' = [files EXCEPT ![a.file] = env]
      BY <2>2 DEF Write
    <3>2. f = a.file
      BY <3>1 DEF EnvInv
    <3> QED
      BY <2>2, <3>1, <3>2 DEF Write, EnvInv
  <2>3. ASSUME NEW a \in DevArgs, GenDevEnv(a) PROVE files'[f][k] = files[f][k]
    <3>1. a \in EnvArgs /\ a.merge = ~a.force
      BY DEF DevArgs
    <3>2. f = a.file /\ ~a.force /\ k \notin DOMAIN a.set /\ files'[f] = DevEnv(a)
      BY <2>2, <2>3, <3>1 DEF GenDevEnv
    <3> DEFINE env == MergeEnv(ApplySecrets(MergeEnv(DevDefaults, files[f]), a.noSecrets), a.set)
               chosen == DOMAIN files[f] \cup DOMAIN a.set
               once == FollowPort(env, chosen, "VITE_API_BASE_URL", "NUTTOO_API_PORT")
    <3>3. k \in DOMAIN env /\ env[k] = files[f][k]
      BY <3>2, SecretApplied
    <3>4. DevEnv(a) = FollowPort(once, chosen, "CORS_ORIGIN", "NUTTOO_WEB_PORT")
      BY <2>1, <3>1, <3>2 DEF DevEnv
    <3> HIDE DEF env, chosen
    <3>5. k \in DOMAIN once /\ once[k] = env[k]
      BY <3>3, FollowPortKeeps DEF Secrets
    <3> HIDE DEF once
    <3>6. DevEnv(a)[k] = once[k]
      BY <3>4, <3>5, FollowPortKeeps DEF Secrets
    <3> QED
      BY <3>2, <3>3, <3>5, <3>6
  <2>4. ASSUME NEW a \in ProdArgs, GenProdEnv(a) PROVE files'[f][k] = files[f][k]
    <3>1. f = a.file /\ ~a.force /\ k \notin DOMAIN a.set /\ files'[f] = ProdEnv(a)
      BY <2>2, <2>4 DEF GenProdEnv, ProdArgs
    <3>2. a.merge
      BY <2>1, <2>4, <3>1 DEF GenProdEnv, ProdRefused
    <3>3. ProdEnv(a) = MergeEnv(ApplySecrets(MergeEnv(ProdBase, files[f]), a.noSecrets), a.set)
      BY <2>1, <3>1, <3>2 DEF ProdEnv
    <3> QED
      BY <3>1, <3>3, SecretApplied
  <2>5. ASSUME NEW g \in Files, NEW e \in Edits, Edit(g, e) PROVE FALSE
    BY <2>5 DEF Edit, EnvInv
  <2>6. files' # files
    OBVIOUS
  <2> QED
    BY <2>3, <2>4, <2>5, <2>6
    DEF Next, Env, EnvCommand, RefuseProdEnv, ValidateEnv, Wallet, Idl, Ci, workspaceVars, envVars
<1>2. Init => EnvInv
  BY EnvInitInv DEF Init
<1> QED
  BY <1>1, <1>2, EnvStepInv, PTL DEF Spec, SecretsKept

-----------------------------------------------------------------------------
(* Test wallets                                                            *)

Listed == [i : Indices, key : Nat \ {NoKey}, own : Nat \ {NoKey}]
WalletSteps == {"none", "generate", "keygen", "pubkey", "fund", "report"}
Run == [pc : WalletSteps, i : Nat, args : [count : Nat, force : BOOLEAN, fund : BOOLEAN],
        own : Nat, list : Seq(Listed)]

\* The key a run took from a file is there and is the one it made, or a run with
\* --force removed the one or the other.
Placed(file, gone, e) ==
  /\ file[e.i] = e.key \/ e.key \in gone
  /\ e.key = e.own \/ e.own \in gone

\* The key a run has made and not yet read.
Own(w) == [i |-> w.i, key |-> w.own, own |-> w.own]

WalletTypes ==
  /\ keyFile \in [Indices -> Nat] /\ made \in Nat
  /\ wallet \in [Terminals -> Run] /\ reported \in [Terminals -> Seq(Listed)]

\* A run is at a file of its own, and what it has listed so far is in place: what
\* it reports at the end is what it listed on the way.
WalletsInv ==
  /\ WalletTypes
  /\ \A t \in Terminals :
       /\ wallet[t].pc # "none" =>
            wallet[t].args.count \in Indices /\ wallet[t].i \in 1..wallet[t].args.count
       /\ wallet[t].pc = "pubkey" =>
            Own(wallet[t]) \in Listed /\ Placed(keyFile, replaced, Own(wallet[t]))
       /\ \A n \in 1..Len(wallet[t].list) : Placed(keyFile, replaced, wallet[t].list[n])
       /\ \A n \in 1..Len(reported[t]) : Placed(keyFile, replaced, reported[t][n])

LEMMA NoRunTyped ==
  NoRun \in Run /\ NoRun.pc = "none" /\ NoRun.i = 1 /\ NoRun.list = <<>> /\ Len(NoRun.list) = 0
  BY DEF NoRun, Run, WalletSteps, NoKey

LEMMA WalletsInitInv == WalletsInit => WalletsInv
  BY NoRunTyped DEF WalletsInit, WalletsInv, WalletTypes, NoKey, Placed

\* A step that leaves in place whatever was, and gives one terminal a run and a
\* report of entries that are in place, keeps the invariant.
LEMMA WalletsKept ==
  ASSUME WalletsInv,
         keyFile' \in [Indices -> Nat], made' \in Nat,
         \A e \in Listed : Placed(keyFile, replaced, e) => Placed(keyFile', replaced', e),
         NEW t \in Terminals, NEW w \in Run, wallet' = [wallet EXCEPT ![t] = w],
         w.pc # "none" => w.args.count \in Indices /\ w.i \in 1..w.args.count,
         w.pc = "pubkey" => Own(w) \in Listed /\ Placed(keyFile', replaced', Own(w)),
         \A n \in 1..Len(w.list) : Placed(keyFile', replaced', w.list[n]),
         NEW r \in Seq(Listed), reported' = [reported EXCEPT ![t] = r],
         \A n \in 1..Len(r) : Placed(keyFile', replaced', r[n])
  PROVE  WalletsInv'
<1>1. wallet' \in [Terminals -> Run] /\ reported' \in [Terminals -> Seq(Listed)]
  BY DEF WalletsInv, WalletTypes
<1>2. ASSUME NEW u \in Terminals
      PROVE  /\ wallet'[u].pc # "none" =>
                  /\ wallet'[u].args.count \in Indices
                  /\ wallet'[u].i \in 1..wallet'[u].args.count
             /\ wallet'[u].pc = "pubkey" =>
                  Own(wallet'[u]) \in Listed /\ Placed(keyFile', replaced', Own(wallet'[u]))
             /\ \A n \in 1..Len(wallet'[u].list) : Placed(keyFile', replaced', wallet'[u].list[n])
             /\ \A n \in 1..Len(reported'[u]) : Placed(keyFile', replaced', reported'[u][n])
  <2>1. CASE u = t
    <3>1. wallet'[u] = w /\ reported'[u] = r
      BY <2>1 DEF WalletsInv, WalletTypes
    <3> QED
      BY <3>1
  <2>2. CASE u # t
    <3>1. wallet'[u] = wallet[u] /\ reported'[u] = reported[u]
      BY <2>2 DEF WalletsInv, WalletTypes
    <3>2. wallet[u].list \in Seq(Listed) /\ reported[u] \in Seq(Listed)
      BY DEF WalletsInv, WalletTypes, Run, WalletSteps
    <3>3. \A n \in 1..Len(wallet[u].list) : wallet[u].list[n] \in Listed
      BY <3>2
    <3>4. \A n \in 1..Len(reported[u]) : reported[u][n] \in Listed
      BY <3>2
    <3> QED
      BY <3>1, <3>3, <3>4 DEF WalletsInv
  <2> QED
    BY <2>1, <2>2
<1> QED
  BY <1>1, <1>2 DEF WalletsInv, WalletTypes

LEMMA WalletStepInv ==
  ASSUME WalletsInv, NEW t \in Terminals,
         \/ \E a \in WalletArgs : CreateWallets(t, a)
         \/ ClearFile(t) \/ Keygen(t) \/ ReadPubkey(t) \/ FundWallet(t)
         \/ Report(t) \/ WalletDies(t)
  PROVE  WalletsInv'
<1> DEFINE w == wallet[t]
<1>1. /\ w \in Run /\ w.list \in Seq(Listed) /\ reported[t] \in Seq(Listed)
      /\ w.pc # "none" => w.args.count \in Indices /\ w.i \in 1..w.args.count
      /\ w.pc = "pubkey" => Own(w) \in Listed /\ Placed(keyFile, replaced, Own(w))
      /\ \A n \in 1..Len(w.list) : w.list[n] \in Listed /\ Placed(keyFile, replaced, w.list[n])
      /\ \A n \in 1..Len(reported[t]) : reported[t][n] \in Listed /\ Placed(keyFile, replaced, reported[t][n])
  <2>1. w \in Run /\ w.list \in Seq(Listed) /\ reported[t] \in Seq(Listed)
    BY DEF WalletsInv, WalletTypes, Run, WalletSteps
  <2> QED
    BY <2>1 DEF WalletsInv
<1>2. reported = [reported EXCEPT ![t] = reported[t]]
  BY DEF WalletsInv, WalletTypes
<1>3. w.pc # "none" => w.i \in Indices
  BY <1>1, WalletsAssumption DEF Indices
<1>4. keyFile \in [Indices -> Nat] /\ made \in Nat
  BY DEF WalletsInv, WalletTypes
<1>5. ASSUME NEW a \in WalletArgs, CreateWallets(t, a) PROVE WalletsInv'
  <2> DEFINE v == [NoRun EXCEPT !.pc = "generate", !.args = a]
  <2>1. a.count \in Indices /\ a \in [count : Nat, force : BOOLEAN, fund : BOOLEAN]
    BY WalletsAssumption DEF WalletArgs, Indices
  <2>2. v \in Run /\ v.pc = "generate" /\ v.i = 1 /\ v.args = a /\ v.list = <<>> /\ Len(v.list) = 0
    BY <2>1, NoRunTyped DEF Run, WalletSteps
  <2>3. v.args.count \in Indices /\ v.i \in 1..v.args.count
    BY <2>1, <2>2, WalletsAssumption DEF Indices
  <2>4. \A e \in Listed : Placed(keyFile, replaced, e) => Placed(keyFile', replaced', e)
    BY <1>5 DEF CreateWallets, Placed
  <2>5. wallet' = [wallet EXCEPT ![t] = v] /\ reported' = [reported EXCEPT ![t] = <<>>]
        /\ keyFile' = keyFile /\ made' = made
    BY <1>5 DEF CreateWallets
  <2> HIDE DEF v
  <2>6. <<>> \in Seq(Listed) /\ Len(<<>>) = 0
    OBVIOUS
  <2>7. /\ \A n \in 1..Len(v.list) : Placed(keyFile', replaced', v.list[n])
        /\ \A n \in 1..Len(<<>>) : Placed(keyFile', replaced', <<>>[n])
    BY <2>2, <2>6
  <2> QED
    BY <1>4, <2>2, <2>4, <2>5, <2>3, <2>6, <2>7, WalletsKept
<1>6. CASE ClearFile(t)
  <2> DEFINE v == [w EXCEPT !.pc = "keygen"]
  <2>1. v \in Run /\ v.pc = "keygen" /\ v.i = w.i /\ v.args = w.args /\ v.list = w.list /\ w.pc # "none"
    BY <1>1, <1>6 DEF ClearFile, At, Run, WalletSteps
  <2>2. wallet' = [wallet EXCEPT ![t] = v] /\ reported' = reported /\ made' = made
    BY <1>6 DEF ClearFile, GoTo, WalletsInv, WalletTypes
  <2>3. keyFile' = [keyFile EXCEPT ![w.i] = NoKey]
        /\ replaced' = replaced \cup ({keyFile[w.i]} \ {NoKey})
    BY <1>6 DEF ClearFile, Here
  <2>4. keyFile' \in [Indices -> Nat]
    BY <1>4, <2>3 DEF NoKey
  <2>5. \A e \in Listed : Placed(keyFile, replaced, e) => Placed(keyFile', replaced', e)
    BY <1>4, <2>3 DEF Placed, Listed
  <2> HIDE DEF v
  <2> QED
    BY <1>1, <1>2, <1>4, <2>1, <2>2, <2>4, <2>5, WalletsKept
<1>7. CASE Keygen(t)
  <2> DEFINE key == made + 1
             v == [w EXCEPT !.pc = "pubkey", !.own = key]
  <2>1. key \in Nat \ {NoKey}
    BY <1>4 DEF NoKey
  <2>2. wallet' = [wallet EXCEPT ![t] = v] /\ reported' = reported /\ replaced' = replaced
        /\ made' = key /\ keyFile' = [keyFile EXCEPT ![w.i] = key]
        /\ keyFile[w.i] = NoKey
    BY <1>7 DEF Keygen, Here, WalletsInv, WalletTypes
  <2> HIDE DEF key
  <2>3. v \in Run /\ v.i = w.i /\ v.args = w.args /\ v.list = w.list /\ v.own = key
        /\ w.pc # "none"
    BY <1>1, <1>7, <2>1 DEF Keygen, At, Run, WalletSteps
  <2>4. keyFile' \in [Indices -> Nat] /\ made' \in Nat
    BY <1>4, <2>1, <2>2
  <2>5. \A e \in Listed : Placed(keyFile, replaced, e) => Placed(keyFile', replaced', e)
    BY <1>4, <2>2 DEF Placed, Listed
  <2> HIDE DEF v
  <2>6. Own(v) \in Listed /\ Placed(keyFile', replaced', Own(v))
    BY <1>3, <1>4, <2>1, <2>2, <2>3 DEF Own, Listed, Placed
  <2> QED
    BY <1>1, <1>2, <2>2, <2>3, <2>4, <2>5, <2>6, WalletsKept
<1>8. CASE ReadPubkey(t)
  <2> DEFINE e == [i |-> w.i, key |-> keyFile[w.i], own |-> w.own]
             list == Append(w.list, e)
             more == w.i < w.args.count
             i == IF more THEN w.i + 1 ELSE 1
             v == [w EXCEPT !.list = list, !.i = i,
                     !.pc = IF more THEN "generate" ELSE IF w.args.fund THEN "fund" ELSE "report"]
  <2>1. w.pc = "pubkey" /\ keyFile[w.i] # NoKey
    BY <1>8 DEF ReadPubkey, At, Here
  <2>2. w.args.count \in Nat /\ w.i \in Nat
    BY <1>1 DEF Run, WalletSteps
  <2>3. i \in 1..w.args.count /\ i \in Nat
    BY <1>1, <2>1, <2>2
  <2>4. e \in Listed /\ Placed(keyFile, replaced, e)
    BY <1>1, <1>3, <1>4, <2>1 DEF Own, Listed, Placed
  <2>5. wallet' = [wallet EXCEPT ![t] = v] /\ reported' = reported
        /\ keyFile' = keyFile /\ made' = made /\ replaced' = replaced
    BY <1>8 DEF ReadPubkey, Here
  <2> HIDE DEF e, i
  <2>6. list \in Seq(Listed) /\ \A n \in 1..Len(list) : Placed(keyFile, replaced, list[n])
    BY <1>1, <2>4
  <2> HIDE DEF list, more
  <2>7. v \in Run /\ v.pc # "pubkey" /\ v.i = i /\ v.args = w.args /\ v.list = list
    BY <1>1, <2>3, <2>6 DEF Run, WalletSteps
  <2>8. \A f : Placed(keyFile, replaced, f) => Placed(keyFile', replaced', f)
    BY <2>5 DEF Placed
  <2>9. v.args.count \in Indices /\ v.i \in 1..v.args.count
    BY <1>1, <2>1, <2>3, <2>7
  <2>10. \A n \in 1..Len(v.list) : Placed(keyFile', replaced', v.list[n])
    BY <2>6, <2>7, <2>8
  <2> HIDE DEF v
  <2> QED
    BY <1>1, <1>2, <1>4, <2>5, <2>7, <2>8, <2>9, <2>10, WalletsKept
<1>9. CASE FundWallet(t)
  <2> DEFINE v == IF w.i < w.args.count THEN [w EXCEPT !.i = w.i + 1]
                  ELSE [w EXCEPT !.pc = "report"]
             i == w.i + 1
  <2>1. w.pc = "fund"
    BY <1>9 DEF FundWallet, At
  <2>2. wallet' = [wallet EXCEPT ![t] = v] /\ reported' = reported
        /\ keyFile' = keyFile /\ made' = made /\ replaced' = replaced
    BY <1>9 DEF FundWallet
  <2>3. w.args.count \in Nat /\ w.i \in Nat /\ i \in Nat
    BY <1>1 DEF Run, WalletSteps
  <2>4. w.i < w.args.count => i \in 1..w.args.count
    BY <2>3
  <2> HIDE DEF i
  <2>5. v \in Run /\ v.pc # "pubkey" /\ v.args = w.args /\ v.list = w.list /\ v.i \in 1..v.args.count
    <3>1. CASE w.i < w.args.count
      <4>1. v = [w EXCEPT !.i = i]
        BY <3>1 DEF i
      <4> HIDE DEF v
      <4> QED
        BY <1>1, <2>1, <2>3, <2>4, <3>1, <4>1 DEF Run, WalletSteps
    <3>2. CASE ~(w.i < w.args.count)
      BY <1>1, <2>1, <3>2 DEF Run, WalletSteps
    <3> QED
      BY <3>1, <3>2
  <2>6. \A f : Placed(keyFile, replaced, f) => Placed(keyFile', replaced', f)
    BY <2>2 DEF Placed
  <2> HIDE DEF v
  <2> QED
    BY <1>1, <1>2, <1>4, <2>1, <2>2, <2>5, <2>6, WalletsKept
<1>10. CASE Report(t)
  <2>1. wallet' = [wallet EXCEPT ![t] = NoRun] /\ reported' = [reported EXCEPT ![t] = w.list]
        /\ keyFile' = keyFile /\ made' = made /\ replaced' = replaced
    BY <1>10 DEF Report
  <2>2. \A f : Placed(keyFile, replaced, f) => Placed(keyFile', replaced', f)
    BY <2>1 DEF Placed
  <2>3. \A n \in 1..Len(NoRun.list) : Placed(keyFile', replaced', NoRun.list[n])
    BY NoRunTyped
  <2> QED
    BY <1>1, <1>4, <2>1, <2>2, <2>3, NoRunTyped, WalletsKept
<1>11. CASE WalletDies(t)
  <2>1. wallet' = [wallet EXCEPT ![t] = NoRun] /\ reported' = reported
        /\ keyFile' = keyFile /\ made' = made /\ replaced' = replaced
    BY <1>11 DEF WalletDies
  <2>2. \A f : Placed(keyFile, replaced, f) => Placed(keyFile', replaced', f)
    BY <2>1 DEF Placed
  <2>3. \A n \in 1..Len(NoRun.list) : Placed(keyFile', replaced', NoRun.list[n])
    BY NoRunTyped
  <2> QED
    BY <1>1, <1>2, <1>4, <2>1, <2>2, <2>3, NoRunTyped, WalletsKept
<1> QED
  BY <1>5, <1>6, <1>7, <1>8, <1>9, <1>10, <1>11

\* Whatever the terminals do over one directory, a run reports the keys it made, each
\* in the file it names, until a run with --force removes them.
THEOREM WalletsCorrect == Spec => []ReportsWhatItMade
<1>1. WalletsInv /\ [Next]_workspaceVars => WalletsInv'
  <2> SUFFICES ASSUME WalletsInv, [Next]_workspaceVars PROVE WalletsInv'
    OBVIOUS
  <2>1. CASE UNCHANGED walletVars
    BY <2>1 DEF WalletsInv, WalletTypes, Placed, walletVars
  <2>2. CASE Wallet
    BY <2>1, <2>2, WalletStepInv DEF Wallet, WalletStep
  <2> QED
    BY <2>1, <2>2 DEF Next, Env, Idl, Ci, workspaceVars
<1>2. WalletsInv => ReportsWhatItMade
  BY DEF WalletsInv, ReportsWhatItMade, OwnAndInPlace, Placed
<1>3. Init => WalletsInv
  BY WalletsInitInv DEF Init
<1> QED
  BY <1>1, <1>2, <1>3, PTL DEF Spec

-----------------------------------------------------------------------------
(* Exported IDLs                                                           *)

AnIdl == [build : Nat, json : BOOLEAN]
Entry == [name : Programs, hash : AnIdl]
ExportSteps == {"none", "read", "copy", "hash", "index", "done"}
Export == [pc : ExportSteps, todo : SUBSET Programs, file : SUBSET Programs,
           metas : SUBSET Entry, force : BOOLEAN, makeIndex : BOOLEAN]

\* What the export notes of a program is what it exported, and it never comes back
\* to a program it noted; an IDL that was built stays in target/idl, so what is
\* copied is one.
IdlsInv ==
  /\ target \in [Programs -> AnIdl] /\ out \in [Programs -> AnIdl]
  /\ export \in Export /\ builds \in Nat
  /\ \A p \in export.todo \cup export.file : target[p] # NoIdl
  /\ export.todo \cap export.file = {} /\ \A p, q \in export.file : p = q
  /\ export.pc = "hash" => \A p \in export.file : out[p] # NoIdl
  /\ \A e \in export.metas :
       /\ out[e.name] # NoIdl /\ e.hash = out[e.name]
       /\ e.name \notin export.todo
       /\ export.pc = "copy" => e.name \notin export.file
  /\ export.pc = "done" /\ export.makeIndex => index = export.metas

LEMMA NoExportTyped ==
  /\ NoExport \in Export /\ NoIdl \in AnIdl
  /\ NoExport.todo = {} /\ NoExport.file = {} /\ NoExport.metas = {} /\ NoExport.pc = "none"
  BY DEF NoExport, Export, ExportSteps, NoIdl, AnIdl

LEMMA IdlsInitInv == IdlsInit => IdlsInv
  BY NoExportTyped DEF IdlsInit, IdlsInv

LEMMA IdlStepInv == IdlsInv /\ [Next]_workspaceVars => IdlsInv'
<1> SUFFICES ASSUME IdlsInv, [Next]_workspaceVars PROVE IdlsInv'
  OBVIOUS
<1> USE DEF IdlsInv
<1>1. CASE UNCHANGED idlVars
  BY <1>1 DEF idlVars
<1>2. ASSUME NEW p \in Programs, NEW json \in BOOLEAN, AnchorBuild(p, json) PROVE IdlsInv'
  <2> DEFINE n == builds + 1
             idl == [build |-> n, json |-> json]
  <2>1. n \in Nat /\ n # 0
    OBVIOUS
  <2>2. builds' = n /\ target' = [target EXCEPT ![p] = idl] /\ UNCHANGED <<out, index, export>>
    BY <1>2 DEF AnchorBuild
  <2> HIDE DEF n
  <2>3. idl \in AnIdl /\ idl # NoIdl
    BY <2>1 DEF AnIdl, NoIdl
  <2> HIDE DEF idl
  <2>4. target' \in [Programs -> AnIdl]
        /\ \A q \in Programs : target[q] # NoIdl => target'[q] # NoIdl
    BY <2>2, <2>3
  <2>5. \A q \in export.todo \cup export.file : target'[q] # NoIdl
    BY <2>4 DEF Export
  <2> QED
    BY <2>1, <2>2, <2>4, <2>5
<1>3. ASSUME NEW a \in ExportArgs, ExportIdls(a) PROVE IdlsInv'
  <2> DEFINE found == {p \in a.only : target[p] # NoIdl}
             x == [NoExport EXCEPT !.pc = "read", !.todo = found,
                                   !.force = a.force, !.makeIndex = a.makeIndex]
  <2>1. a.only \in SUBSET Programs /\ a.force \in BOOLEAN /\ a.makeIndex \in BOOLEAN
    BY DEF ExportArgs
  <2>2. found \in SUBSET Programs /\ \A p \in found : target[p] # NoIdl
    BY <2>1
  <2>3. out' \in [Programs -> AnIdl] /\ target' = target /\ builds' = builds
    BY <1>3, NoExportTyped DEF ExportIdls
  <2>4. export' = IF found = {} THEN NoExport ELSE x
    BY <1>3 DEF ExportIdls
  <2> HIDE DEF found
  <2>5. /\ x \in Export /\ x.pc = "read" /\ x.todo = found
        /\ x.file = {} /\ x.metas = {}
    BY <2>1, <2>2, NoExportTyped DEF Export, ExportSteps
  <2> HIDE DEF x
  <2> QED
    BY <2>2, <2>3, <2>4, <2>5, NoExportTyped
<1>4. ASSUME NEW p \in Programs, ReadIdl(p) PROVE IdlsInv'
  <2> DEFINE x == [export EXCEPT !.pc = "copy", !.file = {p}, !.todo = @ \ {p}]
  <2>1. x \in Export /\ x.pc = "copy" /\ x.file = {p} /\ x.todo = export.todo \ {p}
        /\ x.metas = export.metas
    BY DEF Export, ExportSteps
  <2>2. export' = x /\ UNCHANGED <<target, out, index, builds>> /\ p \in export.todo
    BY <1>4 DEF ReadIdl
  <2> HIDE DEF x
  <2> QED
    BY <2>1, <2>2
<1>5. ASSUME NEW p \in Programs, CopyIdl(p) PROVE IdlsInv'
  <2> DEFINE x == [export EXCEPT !.pc = "hash"]
  <2>1. x \in Export /\ x.pc = "hash" /\ x.file = export.file /\ x.todo = export.todo
        /\ x.metas = export.metas
    BY DEF Export, ExportSteps
  <2>2. /\ export' = x /\ out' = [out EXCEPT ![p] = target[p]]
        /\ UNCHANGED <<target, index, builds>>
        /\ export.pc = "copy" /\ p \in export.file
    BY <1>5 DEF CopyIdl
  <2> HIDE DEF x
  <2>3. out' \in [Programs -> AnIdl] /\ out'[p] # NoIdl
    BY <2>2
  <2>4. \A q \in Programs : q # p => out'[q] = out[q]
    BY <2>2
  <2>6. \A q \in export.file : out'[q] # NoIdl
    BY <2>2, <2>3
  <2>7. \A e \in export.metas : e.name \in Programs /\ e.name # p /\ e \in Entry
    BY <2>2 DEF Export, Entry
  <2> QED
    BY <2>1, <2>2, <2>3, <2>4, <2>6, <2>7
<1>6. ASSUME NEW p \in Programs, HashIdl(p) PROVE IdlsInv'
  <2> DEFINE e == [name |-> p, hash |-> out[p]]
             m == export.metas \cup {e}
             pc == IF export.todo = {} THEN "index" ELSE "read"
             x == [export EXCEPT !.pc = pc, !.metas = m]
  <2>1. e \in Entry /\ m \in SUBSET Entry
    BY DEF Entry, Export
  <2>2. export' = x /\ UNCHANGED <<target, out, index, builds>>
        /\ export.pc = "hash" /\ p \in export.file
    BY <1>6 DEF HashIdl, HashOf
  <2>3. e.name = p /\ e.hash = out[p]
    OBVIOUS
  <2> HIDE DEF e
  <2>4. \A d \in m : out[d.name] # NoIdl /\ d.hash = out[d.name] /\ d.name \notin export.todo
    BY <2>2, <2>3
  <2> HIDE DEF m
  <2>5. x \in Export /\ x.pc \in {"index", "read"} /\ x.file = export.file
        /\ x.todo = export.todo /\ x.metas = m
    BY <2>1 DEF Export, ExportSteps
  <2> HIDE DEF x
  <2> QED
    BY <2>2, <2>4, <2>5
<1>7. CASE WriteIndex
  <2> DEFINE x == [export EXCEPT !.pc = "done"]
  <2>1. x \in Export /\ x.pc = "done" /\ x.file = export.file /\ x.todo = export.todo
        /\ x.metas = export.metas /\ x.makeIndex = export.makeIndex
    BY DEF Export, ExportSteps
  <2>2. export' = x /\ UNCHANGED <<target, out, builds>>
        /\ index' = IF export.makeIndex THEN export.metas ELSE index
    BY <1>7 DEF WriteIndex
  <2> HIDE DEF x
  <2> QED
    BY <2>1, <2>2
<1>8. CASE ExportDies
  BY <1>8, NoExportTyped DEF ExportDies
<1> QED
  BY <1>1, <1>2, <1>3, <1>4, <1>5, <1>6, <1>7, <1>8
  DEF Next, Idl, ExportIdl, Env, Wallet, Ci, workspaceVars

\* However often anchor builds while an export runs, the index that the export
\* leaves has, for each IDL it names, the hash of the file beside it.
THEOREM IdlsCorrect == Spec => []IndexMatchesFiles
<1>1. IdlsInv => IndexMatchesFiles
  BY DEF IdlsInv, IndexMatchesFiles
<1>2. Init => IdlsInv
  BY IdlsInitInv DEF Init
<1> QED
  BY <1>1, <1>2, IdlStepInv, PTL DEF Spec

-----------------------------------------------------------------------------
(* Versions and release notes                                              *)

\* A file that a strict run writes has the commit it was made from.
TellsCommit(f) == f.strict => f.version.sha = f.at

VersionsInv ==
  /\ DOMAIN versions = Places
  /\ \A p \in Places : TellsCommit(versions[p])
  /\ TellsCommit(writing.file)

LEMMA VersionStepInv == VersionsInv /\ [Next]_workspaceVars => VersionsInv'
<1> SUFFICES ASSUME VersionsInv, [Next]_workspaceVars PROVE VersionsInv'
  OBVIOUS
<1> USE DEF VersionsInv
<1>1. CASE UNCHANGED <<versions, writing>>
  BY <1>1 DEF TellsCommit
<1>2. ASSUME NEW a \in VersionArgs, NEW g \in BOOLEAN, StartVersion(a, g) PROVE VersionsInv'
  <2> DEFINE sha == IF g THEN NoSha ELSE Len(log)
             v == ComputeVersion(a.tag, a.build, sha)
  <2>1. versions' = versions /\ writing'.file = [version |-> v, at |-> Len(log), strict |-> a.strict]
        /\ (a.strict => sha # NoSha)
    BY <1>2 DEF StartVersion
  <2>2. a.strict => sha = Len(log)
    BY <2>1
  <2> HIDE DEF sha
  <2>3. v.sha = sha
    BY DEF ComputeVersion
  <2> HIDE DEF v
  <2> QED
    BY <2>1, <2>2, <2>3 DEF TellsCommit
<1>3. ASSUME NEW p \in Places, WriteVersion(p) PROVE VersionsInv'
  <2>1. versions' = [versions EXCEPT ![p] = writing.file] /\ writing'.file = writing.file
    BY <1>3 DEF WriteVersion
  <2> QED
    BY <2>1 DEF TellsCommit
<1>4. CASE VersionDies
  BY <1>4 DEF VersionDies, NoWriting, NoVersion, TellsCommit
<1> QED
  BY <1>1, <1>2, <1>3, <1>4
  DEF Next, Ci, ReleaseCommand, ReleaseStep, Commit, Tag, WriteNotes, Env, Wallet, Idl,
      workspaceVars, releaseVars

\* Two VERSION files of strict runs with one version are of one commit, for any
\* history and any targets, whichever runs were cut short between them.
THEOREM VersionsCorrect == Spec => []StrictVersionsTellCommits
<1>1. VersionsInv => StrictVersionsTellCommits
  BY DEF VersionsInv, TellsCommit, StrictVersionsTellCommits
<1>2. TellsCommit(NoVersion) /\ NoWriting.file = NoVersion
  BY DEF TellsCommit, NoVersion, NoWriting
<1>3. Init => VersionsInv
  BY <1>2 DEF Init, ReleaseInit, VersionsInv
<1> QED
  BY <1>1, <1>3, VersionStepInv, PTL DEF Spec

\* Each subject is of exactly one section.
LEMMA OneSection ==
  ASSUME NEW s
  PROVE  /\ \E title \in Sections : Classify(title, s)
         /\ \A t, u \in Sections : Classify(t, s) /\ Classify(u, s) => t = u
  BY DEF Classify, Sections

\* Strict notes list each commit of their range in one section and no other, for
\* every history and every kind of subject.
THEOREM NotesCorrect == Spec => []NotesListTheRange
<1>1. ASSUME NotesListTheRange, NEW a \in NotesArgs, NEW d \in BOOLEAN, NEW g \in BOOLEAN,
             WriteNotes(a, d, g)
      PROVE  NotesListTheRange'
  <2> DEFINE from == IF a.from # 0 THEN a.from ELSE IF d THEN 0 ELSE LastTag
             listed == IF g THEN {} ELSE from + 1 .. Len(log)
             commits(title) == {c \in listed : Classify(title, log[c])}
             titles == {t \in Sections : commits(t) # {}}
             sections == {[title |-> t, commits |-> commits(t)] : t \in titles}
  <2>1. notes' = [from |-> from, to |-> Len(log), strict |-> a.strict, sections |-> sections]
        /\ (a.strict => ~g)
    BY <1>1 DEF WriteNotes
  <2>2. UNION {s.commits : s \in sections} = listed
    <3> HIDE DEF listed
    <3>1. ASSUME NEW c \in listed PROVE \E s \in sections : c \in s.commits
      <4>1. PICK t \in Sections : Classify(t, log[c])
        BY OneSection
      <4>2. c \in commits(t) /\ t \in titles
        BY <4>1
      <4>3. [title |-> t, commits |-> commits(t)] \in sections
        BY <4>2
      <4> QED
        BY <4>2, <4>3
    <3>2. ASSUME NEW s \in sections PROVE s.commits \subseteq listed
      OBVIOUS
    <3> QED
      BY <3>1, <3>2
  <2>3. ASSUME NEW s \in sections, NEW r \in sections, s # r
        PROVE  s.commits \cap r.commits = {}
    <3> HIDE DEF listed
    <3>1. PICK t \in titles : s = [title |-> t, commits |-> commits(t)]
      OBVIOUS
    <3>2. PICK u \in titles : r = [title |-> u, commits |-> commits(u)]
      OBVIOUS
    <3>3. t # u /\ t \in Sections /\ u \in Sections
      BY <2>3, <3>1, <3>2
    <3>4. \A c \in commits(t) : c \notin commits(u)
      BY <3>3, OneSection
    <3> QED
      BY <3>1, <3>2, <3>4
  <2> HIDE DEF from, sections
  <2>4. notes'.strict => UNION {s.commits : s \in notes'.sections} = notes'.from + 1 .. notes'.to
    BY <2>1, <2>2
  <2>5. \A s, r \in notes'.sections : s # r => s.commits \cap r.commits = {}
    BY <2>1, <2>3
  <2> QED
    BY <2>4, <2>5 DEF NotesListTheRange
<1>2. NotesListTheRange /\ [Next]_workspaceVars => NotesListTheRange'
  <2> SUFFICES ASSUME NotesListTheRange, [Next]_workspaceVars PROVE NotesListTheRange'
    OBVIOUS
  <2>1. CASE UNCHANGED notes
    BY <2>1 DEF NotesListTheRange
  <2> QED
    BY <1>1, <2>1
    DEF Next, Ci, ReleaseCommand, ReleaseStep, Commit, Tag, StartVersion, WriteVersion, VersionDies,
        Env, Wallet, Idl, workspaceVars, releaseVars
<1>3. Init => NotesListTheRange
  BY DEF Init, ReleaseInit, NoNotes, NotesListTheRange
<1> QED
  BY <1>2, <1>3, PTL DEF Spec
=============================================================================
