------------------------------ MODULE Registry ------------------------------
(***************************************************************************)
(* The nuttoo_registry program (programs/nuttoo_registry/src): a registry  *)
(* per authority, and the module, fork and run accounts created under it.  *)
(*                                                                         *)
(* An instruction is atomic: the runtime discards every write of one that  *)
(* returns an error, so an action is the whole handler with its            *)
(* #[account] constraints, and an instruction that would fail is not       *)
(* enabled.  The address of an account is derived from the seeds, so it is *)
(* written as the tuple of the seeds: a registry is its authority's key, a *)
(* module, fork or run is <<registry, id>>.  Strings are their lengths.    *)
(***************************************************************************)
EXTENDS Naturals, FiniteSets

CONSTANTS
  Keys,        \* public keys: authorities and signers
  ModuleIds,   \* 32-byte ids a publisher chooses
  ForkIds,
  RunIds,
  Shas,        \* artifact hashes
  Sizes,       \* artifact sizes in bytes
  Metas,       \* module metadata: the length of each string
  NoteLens,    \* lengths of a fork's notes
  Policies,
  MaxCount,    \* u64::MAX, where saturating_add stays
  MaxTime      \* bound on the clock

Meta == [name: Nat, version: Nat, description: Nat, uri: Nat]

Policy == [allow_forks: BOOLEAN, allow_unverified: BOOLEAN,
           max_artifact_bytes: 0..MaxCount, max_runs_per_module: 0..MaxCount]

ASSUME ConstantsAssumption ==
  /\ MaxCount \in Nat \ {0}
  /\ MaxTime \in Nat
  /\ Metas \subseteq Meta
  /\ NoteLens \subseteq Nat
  /\ Policies \subseteq Policy
  /\ Sizes \subseteq Nat

VARIABLES
  registries,  \* registry accounts, by authority
  modules,     \* module accounts, by <<registry, module_id>>
  forks,       \* fork accounts, by <<registry, fork_id>>
  runs,        \* run accounts, by <<registry, run_id>>
  now          \* Clock::unix_timestamp

vars == <<registries, modules, forks, runs, now>>

-----------------------------------------------------------------------------
(* Helpers                                                                 *)

ModuleKeys == Keys \X ModuleIds
ForkKeys == Keys \X ForkIds
RunKeys == Keys \X RunIds

MAX_NAME_LEN == 64
MAX_VERSION_LEN == 32
MAX_DESC_LEN == 256
MAX_URI_LEN == 256
MAX_NOTES_LEN == 512
DEFAULT_BUMP_PADDING == 8

\* Length 0 stands for every string that trims to nothing.
ValidMeta(m) ==
  /\ m.name \in 1..MAX_NAME_LEN
  /\ m.version \in 1..MAX_VERSION_LEN
  /\ m.description <= MAX_DESC_LEN
  /\ m.uri <= MAX_URI_LEN

ValidNotes(n) == n \in 1..MAX_NOTES_LEN

\* The bytes the strings of a module take; the rest of its account is fixed.
Bytes(m) == m.name + m.version + m.description + m.uri

\* The bytes a new module's account leaves for its strings, forever.
SpaceFor(m) == Bytes(m) + DEFAULT_BUMP_PADDING

\* Mutants, each the code without one of its checks or updates: an unchecked and
\* a wrapping addition, init_if_needed for init, no comparison of the module's
\* registry, a limit that lets one more run in, no test of verified, no touch,
\* and a fork counted in its module's registry.
UncheckedInc(n) == n + 1
WrappingInc(n) == (n + 1) % (MaxCount + 1)
InitIfNeeded(accounts, k) == TRUE
OfAnyRegistry(k, r) == k \in DOMAIN modules
RunLimitOffByOne(k, r) ==
  modules[k].run_count <= registries[r].policy.max_runs_per_module
AdmitsUnverified(policy, size, verified) == size <= policy.max_artifact_bytes
Untouched(registry) == registry
CountedByModule(r, k) == k[1]

SaturatingInc(n) == IF n < MaxCount THEN n + 1 ELSE MaxCount

\* init: the account must not exist.
Unused(accounts, k) == k \notin DOMAIN accounts

\* Create the account at address k.
Create(accounts, k, value) ==
  [a \in DOMAIN accounts \cup {k} |-> IF a = k THEN value ELSE accounts[a]]

\* has_one = authority, and the same check again in the handler.
SignedByAuthority(r, signer) ==
  /\ r \in DOMAIN registries
  /\ registries[r].authority = signer

\* require_keys_eq!(m.registry, reg.key())
OfRegistry(k, r) == k \in DOMAIN modules /\ modules[k].registry = r

\* The limits publish_module and attest_artifact put on an artifact.
Admits(policy, size, verified) ==
  /\ size <= policy.max_artifact_bytes
  /\ policy.allow_unverified \/ verified

UnderRunLimit(k, r) ==
  modules[k].run_count < registries[r].policy.max_runs_per_module

Touch(registry) == [registry EXCEPT !.updated_at = now]

CountModule(registry) == Touch([registry EXCEPT !.module_count = SaturatingInc(@)])
CountFork(registry) == Touch([registry EXCEPT !.fork_count = SaturatingInc(@)])
CountRun(registry) == Touch([registry EXCEPT !.run_count = SaturatingInc(@)])

\* The registry whose fork_count create_fork increments.
ForkCountedBy(r, k) == r

-----------------------------------------------------------------------------
(* Instructions                                                            *)

Init ==
  /\ registries = [r \in {} |-> {}]
  /\ modules = [k \in {} |-> {}]
  /\ forks = [k \in {} |-> {}]
  /\ runs = [k \in {} |-> {}]
  /\ now = 0

\* Anyone may pay; the authority does not sign.
InitRegistry(r, policy) ==
  /\ Unused(registries, r)
  /\ registries' = Create(registries, r,
       [authority |-> r, policy |-> policy, created_at |-> now, updated_at |-> now,
        module_count |-> 0, fork_count |-> 0, run_count |-> 0])
  /\ UNCHANGED <<modules, forks, runs, now>>

SetPolicy(r, signer, policy) ==
  /\ SignedByAuthority(r, signer)
  /\ registries' = [registries EXCEPT ![r] = Touch([@ EXCEPT !.policy = policy])]
  /\ UNCHANGED <<modules, forks, runs, now>>

PublishModule(r, signer, id, meta, sha, size, verified) ==
  /\ SignedByAuthority(r, signer)
  /\ Unused(modules, <<r, id>>)
  /\ ValidMeta(meta)
  /\ Admits(registries[r].policy, size, verified)
  /\ modules' = Create(modules, <<r, id>>,
       [registry |-> r, owner |-> signer, created_at |-> now, updated_at |-> now,
        meta |-> meta, space |-> SpaceFor(meta),
        artifact_sha256 |-> sha, artifact_size |-> size, verified |-> verified,
        run_count |-> 0])
  /\ registries' = [registries EXCEPT ![r] = CountModule(@)]
  /\ UNCHANGED <<forks, runs, now>>

\* No realloc: metadata that outgrows the account fails to serialize on exit.
UpdateModule(r, signer, k, meta) ==
  /\ SignedByAuthority(r, signer)
  /\ ValidMeta(meta)
  /\ OfRegistry(k, r)
  /\ Bytes(meta) <= modules[k].space
  /\ modules' = [modules EXCEPT ![k].meta = meta, ![k].updated_at = now]
  /\ UNCHANGED <<registries, forks, runs, now>>

\* Any signer, and a module of any registry.
CreateFork(r, signer, id, k, notes) ==
  /\ r \in DOMAIN registries
  /\ k \in DOMAIN modules
  /\ Unused(forks, <<r, id>>)
  /\ registries[r].policy.allow_forks
  /\ ValidNotes(notes)
  /\ forks' = Create(forks, <<r, id>>,
       [registry |-> r, module |-> k, owner |-> signer, created_at |-> now])
  /\ registries' = [registries EXCEPT ![ForkCountedBy(r, k)] = CountFork(@)]
  /\ UNCHANGED <<modules, runs, now>>

AttestArtifact(r, signer, k, sha, size, verified) ==
  /\ SignedByAuthority(r, signer)
  /\ Admits(registries[r].policy, size, verified)
  /\ OfRegistry(k, r)
  /\ modules' = [modules EXCEPT ![k].artifact_sha256 = sha, ![k].artifact_size = size,
                                ![k].verified = verified, ![k].updated_at = now]
  /\ UNCHANGED <<registries, forks, runs, now>>

\* The fork, the exit code and the output hashes are recorded as given and never
\* read again (the fork need not exist), so they are left out.
RecordRun(r, signer, id, k) ==
  /\ SignedByAuthority(r, signer)
  /\ Unused(runs, <<r, id>>)
  /\ OfRegistry(k, r)
  /\ UnderRunLimit(k, r)
  /\ runs' = Create(runs, <<r, id>>,
       [registry |-> r, module |-> k, owner |-> signer, created_at |-> now])
  /\ modules' = [modules EXCEPT ![k].run_count = SaturatingInc(@), ![k].updated_at = now]
  /\ registries' = [registries EXCEPT ![r] = CountRun(@)]
  /\ UNCHANGED <<forks, now>>

Tick ==
  /\ now < MaxTime
  /\ now' = now + 1
  /\ UNCHANGED <<registries, modules, forks, runs>>

Next ==
  \/ \E r \in Keys, p \in Policies : InitRegistry(r, p)
  \/ \E r, s \in Keys, p \in Policies : SetPolicy(r, s, p)
  \/ \E r, s \in Keys, id \in ModuleIds, m \in Metas, h \in Shas, z \in Sizes,
        v \in BOOLEAN : PublishModule(r, s, id, m, h, z, v)
  \/ \E r, s \in Keys, k \in ModuleKeys, m \in Metas : UpdateModule(r, s, k, m)
  \/ \E r, s \in Keys, id \in ForkIds, k \in ModuleKeys, n \in NoteLens :
        CreateFork(r, s, id, k, n)
  \/ \E r, s \in Keys, k \in ModuleKeys, h \in Shas, z \in Sizes, v \in BOOLEAN :
        AttestArtifact(r, s, k, h, z, v)
  \/ \E r, s \in Keys, id \in RunIds, k \in ModuleKeys : RecordRun(r, s, id, k)
  \/ Tick

Spec == Init /\ [][Next]_vars

-----------------------------------------------------------------------------
(* Properties                                                              *)

ModulesOf(r) == {k \in DOMAIN modules : modules[k].registry = r}
ForksOf(r) == {k \in DOMAIN forks : forks[k].registry = r}
RunsIn(r) == {k \in DOMAIN runs : runs[k].registry = r}
RunsOf(m) == {k \in DOMAIN runs : runs[k].module = m}

Time == 0..MaxTime
Count == 0..MaxCount

RegistryRecord == [authority : Keys, policy : Policies, created_at : Time,
                   updated_at : Time, module_count : Count, fork_count : Count,
                   run_count : Count]
ModuleRecord == [registry : Keys, owner : Keys, created_at : Time, updated_at : Time,
                 meta : Metas, space : Nat, artifact_sha256 : Shas,
                 artifact_size : Sizes, verified : BOOLEAN, run_count : Count]
ForkRecord == [registry : Keys, module : ModuleKeys, owner : Keys, created_at : Time]
RunRecord == [registry : Keys, module : ModuleKeys, owner : Keys, created_at : Time]

\* Every account holds values of its fields' types at an address it can have.
TypeOK ==
  /\ DOMAIN registries \subseteq Keys
  /\ registries \in [DOMAIN registries -> RegistryRecord]
  /\ DOMAIN modules \subseteq ModuleKeys
  /\ modules \in [DOMAIN modules -> ModuleRecord]
  /\ DOMAIN forks \subseteq ForkKeys
  /\ forks \in [DOMAIN forks -> ForkRecord]
  /\ DOMAIN runs \subseteq RunKeys
  /\ runs \in [DOMAIN runs -> RunRecord]
  /\ now \in Time

Saturate(n) == IF n <= MaxCount THEN n ELSE MaxCount

\* The counters a registry advertises are the numbers of its accounts, up to
\* the saturation of u64: no handler counts an account twice, misses one, or
\* counts it in another registry (saturating_add in publish_module, create_fork
\* and record_run).
CountersMatchAccounts ==
  \A r \in DOMAIN registries :
    /\ registries[r].module_count = Saturate(Cardinality(ModulesOf(r)))
    /\ registries[r].fork_count = Saturate(Cardinality(ForksOf(r)))
    /\ registries[r].run_count = Saturate(Cardinality(RunsIn(r)))

\* The run count of a module, which record_run tests against the policy, is
\* exactly the number of its run accounts: it is never reset, and never
\* saturates although the addition would.
RunCountExact ==
  \A k \in DOMAIN modules : modules[k].run_count = Cardinality(RunsOf(k))

\* Accounts name accounts that exist: a module's, fork's and run's registry, a
\* fork's module, and a run's module, which is of the run's own registry; and the
\* registry's authority, whoever paid, owns its modules and runs (a fork is its
\* signer's: create_fork asks for no authority).
References ==
  /\ \A r \in DOMAIN registries : registries[r].authority = r
  /\ \A k \in DOMAIN modules :
       /\ k[1] = modules[k].registry /\ k[1] \in DOMAIN registries
       /\ modules[k].owner = k[1]
  /\ \A k \in DOMAIN forks :
       /\ k[1] = forks[k].registry /\ k[1] \in DOMAIN registries
       /\ forks[k].module \in DOMAIN modules
  /\ \A k \in DOMAIN runs :
       /\ k[1] = runs[k].registry /\ k[1] \in DOMAIN registries
       /\ runs[k].owner = k[1]
       /\ runs[k].module \in DOMAIN modules
       /\ modules[runs[k].module].registry = runs[k].registry

\* updated_at is a high-water mark: a registry's is no earlier than the creation
\* of any account counted in it, a module's than that of any of its runs, and
\* none is later than the clock (the calls of touch, and record_run's update of
\* the module as well as of the registry).
Timestamps ==
  /\ \A r \in DOMAIN registries :
       /\ registries[r].created_at <= registries[r].updated_at
       /\ registries[r].updated_at <= now
       /\ \A k \in ModulesOf(r) : modules[k].created_at <= registries[r].updated_at
       /\ \A k \in ForksOf(r) : forks[k].created_at <= registries[r].updated_at
       /\ \A k \in RunsIn(r) : runs[k].created_at <= registries[r].updated_at
  /\ \A k \in DOMAIN modules :
       /\ modules[k].created_at <= modules[k].updated_at
       /\ modules[k].updated_at <= now
       /\ \A x \in RunsOf(k) : runs[x].created_at \in
                               modules[k].created_at..modules[k].updated_at

\* A step that writes a module obeys the policy its registry had before the
\* step: a new artifact is within the size limit and verified if it must be,
\* and the run count ends within the limit whenever it grows.  A policy
\* tightened by set_policy binds the steps after it, not what is there already.
SameArtifact(m, n) ==
  /\ m.artifact_sha256 = n.artifact_sha256
  /\ m.artifact_size = n.artifact_size
  /\ m.verified = n.verified

WriteObeys(k, policy) ==
  /\ \/ k \in DOMAIN modules /\ SameArtifact(modules'[k], modules[k])
     \/ /\ modules'[k].artifact_size <= policy.max_artifact_bytes
        /\ modules'[k].verified \/ policy.allow_unverified
  /\ k \in DOMAIN modules /\ modules'[k].run_count # modules[k].run_count
       => /\ modules'[k].run_count = modules[k].run_count + 1
          /\ modules'[k].run_count <= policy.max_runs_per_module

PolicyBindsWrites ==
  [][\A k \in DOMAIN modules' : WriteObeys(k, registries[k[1]].policy)]_vars

\* The accounts implement the append-only ledger (docs/protocol/state-machine.md:
\* "On-chain transitions are append-only").
Entry(kind, account, k, module) ==
  [kind |-> kind, registry |-> account.registry, id |-> k[2], module |-> module]

Entries ==
  {Entry("module", modules[k], k, k) : k \in DOMAIN modules} \cup
  {Entry("fork", forks[k], k, forks[k].module) : k \in DOMAIN forks} \cup
  {Entry("run", runs[k], k, runs[k].module) : k \in DOMAIN runs}

Advertised(registry) ==
  [kind \in {"module", "fork", "run"} |->
     CASE kind = "module" -> registry.module_count
       [] kind = "fork" -> registry.fork_count
       [] kind = "run" -> registry.run_count]

Counters == [r \in DOMAIN registries |-> Advertised(registries[r])]

L == INSTANCE Ledger WITH entries <- Entries, counters <- Counters

AppendOnly == L!Spec

\* docs/protocol/module-spec.md: once registered on-chain, a module's version is
\* immutable.
VersionImmutable ==
  [][\A k \in DOMAIN modules : modules'[k].meta.version = modules[k].meta.version]_vars
=============================================================================
