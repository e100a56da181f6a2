--------------------------- MODULE RegistryProofs ---------------------------
(***************************************************************************)
(* Theorems about the registry program, for every set of keys and ids,     *)
(* every policy and metadata, every width of the counters and any clock.   *)
(***************************************************************************)
EXTENDS Registry, FiniteSetTheorems, TLAPS

-----------------------------------------------------------------------------
(* Helpers                                                                 *)

\* The saturating addition stays in the width of a counter.
LEMMA SaturatingIncType ==
  ASSUME NEW n \in Count
  PROVE  SaturatingInc(n) \in Count
BY ConstantsAssumption DEF SaturatingInc, Count

\* A registry keeps its type when a policy or a counter of it is replaced and
\* it is touched.
LEMMA TouchType ==
  ASSUME TypeOK, NEW reg \in RegistryRecord
  PROVE  /\ Touch(reg) \in RegistryRecord
         /\ \A p \in Policies : Touch([reg EXCEPT !.policy = p]) \in RegistryRecord
         /\ CountModule(reg) \in RegistryRecord
         /\ CountFork(reg) \in RegistryRecord
         /\ CountRun(reg) \in RegistryRecord
<1>1. now \in Time
  BY DEF TypeOK
<1>2. /\ SaturatingInc(reg.module_count) \in Count
      /\ SaturatingInc(reg.fork_count) \in Count
      /\ SaturatingInc(reg.run_count) \in Count
  BY SaturatingIncType DEF RegistryRecord
<1> QED
  BY <1>1, <1>2 DEF Touch, CountModule, CountFork, CountRun, RegistryRecord

-----------------------------------------------------------------------------
(* Type correctness                                                        *)

LEMMA TypeInit == Init => TypeOK
BY ConstantsAssumption DEF Init, TypeOK, Time

LEMMA TypeInitRegistry ==
  ASSUME TypeOK, NEW r \in Keys, NEW p \in Policies, InitRegistry(r, p)
  PROVE  TypeOK'
<1> DEFINE reg == [authority |-> r, policy |-> p, created_at |-> now,
                   updated_at |-> now, module_count |-> 0, fork_count |-> 0,
                   run_count |-> 0]
<1>1. reg \in RegistryRecord
  BY ConstantsAssumption DEF RegistryRecord, TypeOK, Count
<1>2. /\ DOMAIN Create(registries, r, reg) \subseteq Keys
      /\ Create(registries, r, reg) \in [DOMAIN Create(registries, r, reg) -> RegistryRecord]
  <2> HIDE DEF reg
  <2>1. registries \in [DOMAIN registries -> RegistryRecord] /\ DOMAIN registries \subseteq Keys
    BY DEF TypeOK
  <2>2. /\ DOMAIN Create(registries, r, reg) = DOMAIN registries \cup {r}
        /\ Create(registries, r, reg) \in [DOMAIN Create(registries, r, reg) -> RegistryRecord]
    BY <1>1, <2>1 DEF Create
  <2> QED BY <2>1, <2>2
<1> QED
  BY <1>2 DEF InitRegistry, TypeOK

LEMMA TypeSetPolicy ==
  ASSUME TypeOK, NEW r \in Keys, NEW s \in Keys, NEW p \in Policies, SetPolicy(r, s, p)
  PROVE  TypeOK'
<1>1. registries[r] \in RegistryRecord /\ r \in DOMAIN registries
  BY DEF SetPolicy, SignedByAuthority, TypeOK
<1>2. Touch([registries[r] EXCEPT !.policy = p]) \in RegistryRecord
  BY <1>1, TouchType
<1> QED
  BY <1>1, <1>2 DEF SetPolicy, TypeOK

LEMMA TypePublishModule ==
  ASSUME TypeOK, NEW r \in Keys, NEW s \in Keys, NEW id \in ModuleIds, NEW m \in Metas,
         NEW h \in Shas, NEW z \in Sizes, NEW v \in BOOLEAN,
         PublishModule(r, s, id, m, h, z, v)
  PROVE  TypeOK'
<1> DEFINE mod == [registry |-> r, owner |-> s, created_at |-> now, updated_at |-> now,
                   meta |-> m, space |-> SpaceFor(m), artifact_sha256 |-> h,
                   artifact_size |-> z, verified |-> v, run_count |-> 0]
           ms == Create(modules, <<r, id>>, mod)
<1>1. registries[r] \in RegistryRecord /\ r \in DOMAIN registries
  BY DEF PublishModule, SignedByAuthority, TypeOK
<1>2. CountModule(registries[r]) \in RegistryRecord
  BY <1>1, TouchType
<1>3. SpaceFor(m) \in Nat
  BY ConstantsAssumption DEF SpaceFor, Bytes, Meta, DEFAULT_BUMP_PADDING
<1>4. mod \in ModuleRecord
  BY <1>3, ConstantsAssumption DEF ModuleRecord, TypeOK, Count
<1>5. DOMAIN ms \subseteq ModuleKeys /\ ms \in [DOMAIN ms -> ModuleRecord]
  <2> HIDE DEF mod
  <2>1. /\ modules \in [DOMAIN modules -> ModuleRecord] /\ DOMAIN modules \subseteq ModuleKeys
        /\ <<r, id>> \in ModuleKeys
    BY DEF TypeOK, ModuleKeys
  <2> QED
    BY <1>4, <2>1 DEF Create
<1>6. modules' = ms /\ UNCHANGED <<forks, runs, now>>
  BY DEF PublishModule
<1>7. registries' \in [DOMAIN registries -> RegistryRecord]
  <2>1. registries' = [registries EXCEPT ![r] = CountModule(registries[r])]
    BY DEF PublishModule
  <2>2. registries \in [DOMAIN registries -> RegistryRecord]
    BY DEF TypeOK
  <2> QED
    BY <1>1, <1>2, <2>1, <2>2
<1> QED
  <2> HIDE DEF ms
  <2> QED BY <1>5, <1>6, <1>7 DEF TypeOK

LEMMA TypeUpdateModule ==
  ASSUME TypeOK, NEW r \in Keys, NEW s \in Keys, NEW k \in ModuleKeys, NEW m \in Metas,
         UpdateModule(r, s, k, m)
  PROVE  TypeOK'
<1>1. modules[k] \in ModuleRecord /\ k \in DOMAIN modules /\ now \in Time
  BY DEF UpdateModule, OfRegistry, TypeOK
<1>2. [modules[k] EXCEPT !.meta = m, !.updated_at = now] \in ModuleRecord
  BY <1>1 DEF ModuleRecord
<1> QED
  BY <1>1, <1>2 DEF UpdateModule, TypeOK

LEMMA TypeCreateFork ==
  ASSUME TypeOK, NEW r \in Keys, NEW s \in Keys, NEW id \in ForkIds, NEW k \in ModuleKeys,
         NEW n \in NoteLens, CreateFork(r, s, id, k, n)
  PROVE  TypeOK'
<1> DEFINE fork == [registry |-> r, module |-> k, owner |-> s, created_at |-> now]
           fs == Create(forks, <<r, id>>, fork)
<1>1. registries[r] \in RegistryRecord /\ r \in DOMAIN registries
  BY DEF CreateFork, TypeOK
<1>2. CountFork(registries[r]) \in RegistryRecord
  BY <1>1, TouchType
<1>3. fork \in ForkRecord
  BY DEF ForkRecord, TypeOK
<1>4. DOMAIN fs \subseteq ForkKeys /\ fs \in [DOMAIN fs -> ForkRecord]
  <2> HIDE DEF fork
  <2>1. /\ forks \in [DOMAIN forks -> ForkRecord] /\ DOMAIN forks \subseteq ForkKeys
        /\ <<r, id>> \in ForkKeys
    BY DEF TypeOK, ForkKeys
  <2> QED
    BY <1>3, <2>1 DEF Create
<1>5. forks' = fs /\ UNCHANGED <<modules, runs, now>>
  BY DEF CreateFork
<1>6. registries' \in [DOMAIN registries -> RegistryRecord]
  <2>1. registries' = [registries EXCEPT ![r] = CountFork(registries[r])]
    BY DEF CreateFork, ForkCountedBy
  <2>2. registries \in [DOMAIN registries -> RegistryRecord]
    BY DEF TypeOK
  <2> QED
    BY <1>1, <1>2, <2>1, <2>2
<1> QED
  <2> HIDE DEF fs
  <2> QED BY <1>4, <1>5, <1>6 DEF TypeOK

LEMMA TypeAttestArtifact ==
  ASSUME TypeOK, NEW r \in Keys, NEW s \in Keys, NEW k \in ModuleKeys, NEW h \in Shas,
         NEW z \in Sizes, NEW v \in BOOLEAN, AttestArtifact(r, s, k, h, z, v)
  PROVE  TypeOK'
<1>1. modules[k] \in ModuleRecord /\ k \in DOMAIN modules /\ now \in Time
  BY DEF AttestArtifact, OfRegistry, TypeOK
<1>2. [modules[k] EXCEPT !.artifact_sha256 = h, !.artifact_size = z, !.verified = v,
                         !.updated_at = now] \in ModuleRecord
  BY <1>1 DEF ModuleRecord
<1> QED
  BY <1>1, <1>2 DEF AttestArtifact, TypeOK

LEMMA TypeRecordRun ==
  ASSUME TypeOK, NEW r \in Keys, NEW s \in Keys, NEW id \in RunIds, NEW k \in ModuleKeys,
         RecordRun(r, s, id, k)
  PROVE  TypeOK'
<1> DEFINE run == [registry |-> r, module |-> k, owner |-> s, created_at |-> now]
           rs == Create(runs, <<r, id>>, run)
<1>1. registries[r] \in RegistryRecord /\ r \in DOMAIN registries
  BY DEF RecordRun, SignedByAuthority, TypeOK
<1>2. CountRun(registries[r]) \in RegistryRecord
  BY <1>1, TouchType
<1>3. modules[k] \in ModuleRecord /\ k \in DOMAIN modules /\ now \in Time
  BY DEF RecordRun, OfRegistry, TypeOK
<1>4. SaturatingInc(modules[k].run_count) \in Count
  BY <1>3, SaturatingIncType DEF ModuleRecord
<1>5. [modules[k] EXCEPT !.run_count = SaturatingInc(@), !.updated_at = now] \in ModuleRecord
  BY <1>3, <1>4 DEF ModuleRecord
<1>6. run \in RunRecord
  BY DEF RunRecord, TypeOK
<1>7. DOMAIN rs \subseteq RunKeys /\ rs \in [DOMAIN rs -> RunRecord]
  <2> HIDE DEF run
  <2>1. /\ runs \in [DOMAIN runs -> RunRecord] /\ DOMAIN runs \subseteq RunKeys
        /\ <<r, id>> \in RunKeys
    BY DEF TypeOK, RunKeys
  <2> QED
    BY <1>6, <2>1 DEF Create
<1>8. runs' = rs /\ UNCHANGED <<forks, now>>
  BY DEF RecordRun
<1>9. registries' \in [DOMAIN registries -> RegistryRecord]
  <2>1. registries' = [registries EXCEPT ![r] = CountRun(registries[r])]
    BY DEF RecordRun
  <2>2. registries \in [DOMAIN registries -> RegistryRecord]
    BY DEF TypeOK
  <2> QED
    BY <1>1, <1>2, <2>1, <2>2
<1>10. modules' \in [DOMAIN modules -> ModuleRecord]
  BY <1>3, <1>5 DEF RecordRun, TypeOK
<1> QED
  <2> HIDE DEF rs
  <2> QED BY <1>7, <1>8, <1>9, <1>10 DEF TypeOK

LEMMA TypeStep == TypeOK /\ [Next]_vars => TypeOK'
<1> SUFFICES ASSUME TypeOK, [Next]_vars PROVE TypeOK'
  OBVIOUS
<1>1. CASE UNCHANGED vars
  BY <1>1 DEF vars, TypeOK
<1>2. CASE Tick
  BY <1>2, ConstantsAssumption DEF Tick, TypeOK, Time
<1> QED
  BY <1>1, <1>2, TypeInitRegistry, TypeSetPolicy, TypePublishModule, TypeUpdateModule,
     TypeCreateFork, TypeAttestArtifact, TypeRecordRun DEF Next

\* Every reachable state is well typed: in particular every counter stays within
\* the width of u64.
THEOREM TypeCorrect == Spec => []TypeOK
<1>1. Init => TypeOK
  BY TypeInit
<1>2. TypeOK /\ [Next]_vars => TypeOK'
  BY TypeStep
<1> QED
  BY <1>1, <1>2, PTL DEF Spec

-----------------------------------------------------------------------------
(* The accounts and their counters                                         *)

\* The sets of accounts are finite, which Cardinality needs.
Finite ==
  /\ IsFiniteSet(DOMAIN modules)
  /\ IsFiniteSet(DOMAIN forks)
  /\ IsFiniteSet(DOMAIN runs)

\* The inductive invariant.  The counters need References: a new registry and a
\* new module start at zero because no account names them before they exist.
IInv == TypeOK /\ Finite /\ References /\ CountersMatchAccounts /\ RunCountExact

\* A step that creates no account and moves no counter.
Quiet ==
  /\ DOMAIN registries' = DOMAIN registries
  /\ \A r \in DOMAIN registries :
       /\ registries'[r].authority = registries[r].authority
       /\ registries'[r].module_count = registries[r].module_count
       /\ registries'[r].fork_count = registries[r].fork_count
       /\ registries'[r].run_count = registries[r].run_count
  /\ DOMAIN modules' = DOMAIN modules
  /\ \A k \in DOMAIN modules :
       /\ modules'[k].registry = modules[k].registry
       /\ modules'[k].owner = modules[k].owner
       /\ modules'[k].run_count = modules[k].run_count
  /\ UNCHANGED <<forks, runs>>

LEMMA QuietSteps ==
  ASSUME TypeOK
  PROVE  /\ UNCHANGED vars => Quiet
         /\ Tick => Quiet
         /\ \A r, s \in Keys, p \in Policies : SetPolicy(r, s, p) => Quiet
         /\ \A r, s \in Keys, k \in ModuleKeys, m \in Metas :
              UpdateModule(r, s, k, m) => Quiet
         /\ \A r, s \in Keys, k \in ModuleKeys, h \in Shas, z \in Sizes, v \in BOOLEAN :
              AttestArtifact(r, s, k, h, z, v) => Quiet
<1> USE DEF Quiet
<1>1. UNCHANGED vars => Quiet
  BY DEF vars
<1>2. Tick => Quiet
  BY DEF Tick
<1>3. ASSUME NEW r \in Keys, NEW s \in Keys, NEW p \in Policies, SetPolicy(r, s, p)
      PROVE  Quiet
  <2>1. registries \in [DOMAIN registries -> RegistryRecord] /\ r \in DOMAIN registries
    BY <1>3 DEF TypeOK, SetPolicy, SignedByAuthority
  <2> QED
    BY <1>3, <2>1 DEF SetPolicy, Touch, RegistryRecord
<1>4. ASSUME NEW r \in Keys, NEW s \in Keys, NEW k \in ModuleKeys, NEW m \in Metas,
             UpdateModule(r, s, k, m)
      PROVE  Quiet
  BY <1>4 DEF UpdateModule, OfRegistry, TypeOK, ModuleRecord
<1>5. ASSUME NEW r \in Keys, NEW s \in Keys, NEW k \in ModuleKeys, NEW h \in Shas,
             NEW z \in Sizes, NEW v \in BOOLEAN, AttestArtifact(r, s, k, h, z, v)
      PROVE  Quiet
  BY <1>5 DEF AttestArtifact, OfRegistry, TypeOK, ModuleRecord
<1> QED
  BY <1>1, <1>2, <1>3, <1>4, <1>5

LEMMA QuietPreserves ==
  ASSUME IInv, TypeOK', Quiet
  PROVE  IInv'
<1>1. /\ \A r : ModulesOf(r)' = ModulesOf(r)
      /\ \A r : ForksOf(r)' = ForksOf(r)
      /\ \A r : RunsIn(r)' = RunsIn(r)
      /\ \A k : RunsOf(k)' = RunsOf(k)
  BY DEF Quiet, ModulesOf, ForksOf, RunsIn, RunsOf
<1>2. Finite'
  BY DEF IInv, Finite, Quiet
<1>3. References'
  BY DEF IInv, References, Quiet
<1>4. CountersMatchAccounts'
  BY <1>1 DEF IInv, CountersMatchAccounts, Quiet
<1>5. RunCountExact'
  BY <1>1 DEF IInv, RunCountExact, Quiet
<1> QED
  BY <1>2, <1>3, <1>4, <1>5 DEF IInv

\* Counting one more account: the counter stays the saturated cardinality.
LEMMA CountOneMore ==
  ASSUME NEW S, IsFiniteSet(S), NEW x, x \notin S
  PROVE  /\ IsFiniteSet(S \cup {x})
         /\ Cardinality(S \cup {x}) = Cardinality(S) + 1
         /\ SaturatingInc(Saturate(Cardinality(S))) = Saturate(Cardinality(S \cup {x}))
<1>1. Cardinality(S) \in Nat
  BY FS_CardinalityType
<1>2. IsFiniteSet(S \cup {x}) /\ Cardinality(S \cup {x}) = Cardinality(S) + 1
  BY FS_AddElement
<1> QED
  BY <1>1, <1>2, ConstantsAssumption DEF SaturatingInc, Saturate

LEMMA FiniteParts ==
  ASSUME Finite
  PROVE  /\ \A r : IsFiniteSet(ModulesOf(r))
         /\ \A r : IsFiniteSet(ForksOf(r))
         /\ \A r : IsFiniteSet(RunsIn(r))
         /\ \A k : IsFiniteSet(RunsOf(k))
BY FS_Subset DEF Finite, ModulesOf, ForksOf, RunsIn, RunsOf

LEMMA InvInitRegistry ==
  ASSUME IInv, TypeOK', NEW r \in Keys, NEW p \in Policies, InitRegistry(r, p)
  PROVE  IInv'
<1> USE DEF InitRegistry, Unused
<1>1. /\ DOMAIN registries' = DOMAIN registries \cup {r}
      /\ registries'[r].authority = r
      /\ registries'[r].module_count = 0
      /\ registries'[r].fork_count = 0
      /\ registries'[r].run_count = 0
      /\ \A q \in DOMAIN registries : registries'[q] = registries[q]
  BY DEF Create
<1>2. /\ \A q : ModulesOf(q)' = ModulesOf(q)
      /\ \A q : ForksOf(q)' = ForksOf(q)
      /\ \A q : RunsIn(q)' = RunsIn(q)
      /\ \A k : RunsOf(k)' = RunsOf(k)
  BY DEF ModulesOf, ForksOf, RunsIn, RunsOf
<1>3. ModulesOf(r) = {} /\ ForksOf(r) = {} /\ RunsIn(r) = {}
  BY DEF IInv, References, ModulesOf, ForksOf, RunsIn
<1>4. Saturate(Cardinality({})) = 0
  BY FS_EmptySet, ConstantsAssumption DEF Saturate
<1>5. Finite'
  BY DEF IInv, Finite
<1>6. References'
  BY <1>1 DEF IInv, References
<1>7. CountersMatchAccounts'
  BY <1>1, <1>2, <1>3, <1>4 DEF IInv, CountersMatchAccounts
<1>8. RunCountExact'
  BY <1>2 DEF IInv, RunCountExact
<1> QED
  BY <1>5, <1>6, <1>7, <1>8 DEF IInv

LEMMA InvPublishModule ==
  ASSUME IInv, TypeOK', NEW r \in Keys, NEW s \in Keys, NEW id \in ModuleIds,
         NEW m \in Metas, NEW h \in Shas, NEW z \in Sizes, NEW v \in BOOLEAN,
         PublishModule(r, s, id, m, h, z, v)
  PROVE  IInv'
<1> DEFINE k == <<r, id>>
<1>1. /\ r \in DOMAIN registries
      /\ registries[r].authority = s
      /\ k \notin DOMAIN modules
      /\ UNCHANGED <<forks, runs>>
  BY DEF PublishModule, SignedByAuthority, Unused
<1>2. /\ DOMAIN modules' = DOMAIN modules \cup {k}
      /\ modules'[k].registry = r
      /\ modules'[k].owner = s
      /\ modules'[k].run_count = 0
      /\ \A j \in DOMAIN modules : modules'[j] = modules[j]
  BY <1>1 DEF PublishModule, Create
<1>3. registries \in [DOMAIN registries -> RegistryRecord]
  BY DEF IInv, TypeOK
<1>4. /\ DOMAIN registries' = DOMAIN registries
      /\ registries'[r] = CountModule(registries[r])
      /\ \A q \in DOMAIN registries : q # r => registries'[q] = registries[q]
  BY <1>1, <1>3 DEF PublishModule
<1>5. /\ registries'[r].authority = registries[r].authority
      /\ registries'[r].module_count = SaturatingInc(registries[r].module_count)
      /\ registries'[r].fork_count = registries[r].fork_count
      /\ registries'[r].run_count = registries[r].run_count
  BY <1>1, <1>3, <1>4 DEF CountModule, Touch, RegistryRecord
<1> HIDE DEF k
<1>6. /\ ModulesOf(r)' = ModulesOf(r) \cup {k} /\ k \notin ModulesOf(r)
      /\ \A q : q # r => ModulesOf(q)' = ModulesOf(q)
      /\ \A q : ForksOf(q)' = ForksOf(q)
      /\ \A q : RunsIn(q)' = RunsIn(q)
      /\ \A j : RunsOf(j)' = RunsOf(j)
  BY <1>1, <1>2 DEF ModulesOf, ForksOf, RunsIn, RunsOf
<1>7. RunsOf(k) = {}
  BY <1>1 DEF IInv, References, RunsOf
<1>8. Finite'
  BY <1>1, <1>2, CountOneMore DEF IInv, Finite
<1>9. References'
  <2>1. k[1] = r
    BY DEF k
  <2> QED
    BY <1>1, <1>2, <1>4, <1>5, <2>1 DEF IInv, References
<1>10. CountersMatchAccounts'
  <2>1. SaturatingInc(registries[r].module_count) = Saturate(Cardinality(ModulesOf(r)'))
    BY <1>1, <1>6, FiniteParts, CountOneMore DEF IInv, CountersMatchAccounts
  <2> QED
    BY <1>1, <1>4, <1>5, <1>6, <2>1 DEF IInv, CountersMatchAccounts
<1>11. RunCountExact'
  BY <1>2, <1>6, <1>7, FS_EmptySet DEF IInv, RunCountExact
<1> QED
  BY <1>8, <1>9, <1>10, <1>11 DEF IInv

LEMMA InvCreateFork ==
  ASSUME IInv, TypeOK', NEW r \in Keys, NEW s \in Keys, NEW id \in ForkIds,
         NEW m \in ModuleKeys, NEW n \in NoteLens, CreateFork(r, s, id, m, n)
  PROVE  IInv'
<1> DEFINE k == <<r, id>>
<1>1. /\ r \in DOMAIN registries
      /\ m \in DOMAIN modules
      /\ k \notin DOMAIN forks
      /\ UNCHANGED <<modules, runs>>
  BY DEF CreateFork, Unused
<1>2. /\ DOMAIN forks' = DOMAIN forks \cup {k}
      /\ forks'[k].registry = r
      /\ forks'[k].module = m
      /\ \A j \in DOMAIN forks : forks'[j] = forks[j]
  BY <1>1 DEF CreateFork, Create
<1>3. registries \in [DOMAIN registries -> RegistryRecord]
  BY DEF IInv, TypeOK
<1>4. /\ DOMAIN registries' = DOMAIN registries
      /\ registries'[r] = CountFork(registries[r])
      /\ \A q \in DOMAIN registries : q # r => registries'[q] = registries[q]
  BY <1>1, <1>3 DEF CreateFork, ForkCountedBy
<1>5. /\ registries'[r].authority = registries[r].authority
      /\ registries'[r].module_count = registries[r].module_count
      /\ registries'[r].fork_count = SaturatingInc(registries[r].fork_count)
      /\ registries'[r].run_count = registries[r].run_count
  BY <1>1, <1>3, <1>4 DEF CountFork, Touch, RegistryRecord
<1> HIDE DEF k
<1>6. /\ ForksOf(r)' = ForksOf(r) \cup {k} /\ k \notin ForksOf(r)
      /\ \A q : q # r => ForksOf(q)' = ForksOf(q)
      /\ \A q : ModulesOf(q)' = ModulesOf(q)
      /\ \A q : RunsIn(q)' = RunsIn(q)
      /\ \A j : RunsOf(j)' = RunsOf(j)
  BY <1>1, <1>2 DEF ModulesOf, ForksOf, RunsIn, RunsOf
<1>7. Finite'
  BY <1>1, <1>2, CountOneMore DEF IInv, Finite
<1>8. References'
  <2>1. k[1] = r
    BY DEF k
  <2> QED
    BY <1>1, <1>2, <1>4, <1>5, <2>1 DEF IInv, References
<1>9. CountersMatchAccounts'
  <2>1. SaturatingInc(registries[r].fork_count) = Saturate(Cardinality(ForksOf(r)'))
    BY <1>1, <1>6, FiniteParts, CountOneMore DEF IInv, CountersMatchAccounts
  <2> QED
    BY <1>1, <1>4, <1>5, <1>6, <2>1 DEF IInv, CountersMatchAccounts
<1>10. RunCountExact'
  BY <1>1, <1>6 DEF IInv, RunCountExact
<1> QED
  BY <1>7, <1>8, <1>9, <1>10 DEF IInv

LEMMA InvRecordRun ==
  ASSUME IInv, TypeOK', NEW r \in Keys, NEW s \in Keys, NEW id \in RunIds,
         NEW m \in ModuleKeys, RecordRun(r, s, id, m)
  PROVE  IInv'
<1> DEFINE k == <<r, id>>
<1>1. /\ r \in DOMAIN registries
      /\ registries[r].authority = s
      /\ m \in DOMAIN modules
      /\ modules[m].registry = r
      /\ k \notin DOMAIN runs
      /\ UNCHANGED forks
  BY DEF RecordRun, SignedByAuthority, Unused, OfRegistry
<1>2. /\ DOMAIN runs' = DOMAIN runs \cup {k}
      /\ runs'[k].registry = r
      /\ runs'[k].module = m
      /\ runs'[k].owner = s
      /\ \A j \in DOMAIN runs : runs'[j] = runs[j]
  BY <1>1 DEF RecordRun, Create
<1>3. /\ registries \in [DOMAIN registries -> RegistryRecord]
      /\ modules \in [DOMAIN modules -> ModuleRecord]
  BY DEF IInv, TypeOK
<1>4. /\ DOMAIN registries' = DOMAIN registries
      /\ registries'[r] = CountRun(registries[r])
      /\ \A q \in DOMAIN registries : q # r => registries'[q] = registries[q]
  BY <1>1, <1>3 DEF RecordRun
<1>5. /\ registries'[r].authority = registries[r].authority
      /\ registries'[r].module_count = registries[r].module_count
      /\ registries'[r].fork_count = registries[r].fork_count
      /\ registries'[r].run_count = SaturatingInc(registries[r].run_count)
  BY <1>1, <1>3, <1>4 DEF CountRun, Touch, RegistryRecord
\* The limit a policy sets is itself a u64, so the addition is exact.
<1>6. /\ modules[m].run_count \in Nat
      /\ modules[m].run_count < MaxCount
  <2>1. modules[m].run_count \in 0..MaxCount /\ registries[r].policy \in Policy
    BY <1>1, <1>3, ConstantsAssumption DEF ModuleRecord, RegistryRecord, Count
  <2>2. modules[m].run_count < registries[r].policy.max_runs_per_module
    BY DEF RecordRun, UnderRunLimit
  <2>3. registries[r].policy.max_runs_per_module \in 0..MaxCount
    BY <2>1 DEF Policy
  <2> QED
    BY <2>1, <2>2, <2>3, ConstantsAssumption
<1>7. /\ DOMAIN modules' = DOMAIN modules
      /\ \A j \in DOMAIN modules : /\ modules'[j].registry = modules[j].registry
                                  /\ modules'[j].owner = modules[j].owner
      /\ modules'[m].run_count = modules[m].run_count + 1
      /\ \A j \in DOMAIN modules : j # m => modules'[j] = modules[j]
  BY <1>1, <1>3, <1>6 DEF RecordRun, SaturatingInc, ModuleRecord
<1> HIDE DEF k
<1>8. /\ RunsIn(r)' = RunsIn(r) \cup {k} /\ k \notin RunsIn(r)
      /\ RunsOf(m)' = RunsOf(m) \cup {k} /\ k \notin RunsOf(m)
      /\ \A q : q # r => RunsIn(q)' = RunsIn(q)
      /\ \A j : j # m => RunsOf(j)' = RunsOf(j)
      /\ \A q : ForksOf(q)' = ForksOf(q)
      /\ \A q : ModulesOf(q)' = ModulesOf(q)
  BY <1>1, <1>2, <1>7 DEF ModulesOf, ForksOf, RunsIn, RunsOf
<1>9. Finite'
  BY <1>1, <1>2, <1>7, CountOneMore DEF IInv, Finite
<1>10. References'
  <2>1. k[1] = r
    BY DEF k
  <2> QED
    BY <1>1, <1>2, <1>4, <1>5, <1>7, <2>1 DEF IInv, References
<1>11. CountersMatchAccounts'
  <2>1. SaturatingInc(registries[r].run_count) = Saturate(Cardinality(RunsIn(r)'))
    BY <1>1, <1>8, FiniteParts, CountOneMore DEF IInv, CountersMatchAccounts
  <2> QED
    BY <1>1, <1>4, <1>5, <1>8, <2>1 DEF IInv, CountersMatchAccounts
<1>12. RunCountExact'
  <2>1. Cardinality(RunsOf(m)') = Cardinality(RunsOf(m)) + 1
    BY <1>8, FiniteParts, CountOneMore DEF IInv
  <2> QED
    BY <1>1, <1>7, <1>8, <2>1 DEF IInv, RunCountExact
<1> QED
  BY <1>9, <1>10, <1>11, <1>12 DEF IInv

LEMMA InvInit == Init => IInv
<1> SUFFICES ASSUME Init PROVE IInv
  OBVIOUS
<1>1. TypeOK
  BY TypeInit
<1>2. Finite /\ References /\ CountersMatchAccounts /\ RunCountExact
  BY FS_EmptySet DEF Init, Finite, References, CountersMatchAccounts, RunCountExact
<1> QED
  BY <1>1, <1>2 DEF IInv

LEMMA InvStep == IInv /\ [Next]_vars => IInv'
<1> SUFFICES ASSUME IInv, [Next]_vars PROVE IInv'
  OBVIOUS
<1>1. TypeOK /\ TypeOK'
  BY TypeStep DEF IInv
<1>2. CASE UNCHANGED vars
  BY <1>1, <1>2, QuietSteps, QuietPreserves
<1>3. CASE Tick
  BY <1>1, <1>3, QuietSteps, QuietPreserves
<1>4. CASE \E r, s \in Keys, p \in Policies : SetPolicy(r, s, p)
  BY <1>1, <1>4, QuietSteps, QuietPreserves
<1>5. CASE \E r, s \in Keys, k \in ModuleKeys, m \in Metas : UpdateModule(r, s, k, m)
  BY <1>1, <1>5, QuietSteps, QuietPreserves
<1>6. CASE \E r, s \in Keys, k \in ModuleKeys, h \in Shas, z \in Sizes, v \in BOOLEAN :
             AttestArtifact(r, s, k, h, z, v)
  BY <1>1, <1>6, QuietSteps, QuietPreserves
<1> QED
  BY <1>1, <1>2, <1>3, <1>4, <1>5, <1>6, InvInitRegistry, InvPublishModule,
     InvCreateFork, InvRecordRun DEF Next

LEMMA InvCorrect == Spec => []IInv
<1>1. Init => IInv
  BY InvInit
<1>2. IInv /\ [Next]_vars => IInv'
  BY InvStep
<1> QED
  BY <1>1, <1>2, PTL DEF Spec

\* The counters every registry advertises are the numbers of its accounts, up to
\* the saturation of u64, in every reachable state.
THEOREM CountersCorrect == Spec => []CountersMatchAccounts
<1>1. IInv => CountersMatchAccounts
  BY DEF IInv
<1> QED
  BY <1>1, InvCorrect, PTL

\* A module's run count is the number of its run accounts: the limit that
\* record_run tests is tested against the truth, and never saturates.
THEOREM RunCountCorrect == Spec => []RunCountExact
<1>1. IInv => RunCountExact
  BY DEF IInv
<1> QED
  BY <1>1, InvCorrect, PTL

\* No account ever names an account that does not exist, and no run a module of
\* another registry.
THEOREM ReferencesCorrect == Spec => []References
<1>1. IInv => References
  BY DEF IInv
<1> QED
  BY <1>1, InvCorrect, PTL

-----------------------------------------------------------------------------
(* Timestamps                                                              *)

\* What a step may do to timestamps: an account that it creates has the clock's,
\* in an account that it writes updated_at becomes the clock's, and the accounts
\* that count one it creates are written in the same step.
StampedRegistries ==
  \A r \in DOMAIN registries' :
    \/ /\ r \in DOMAIN registries
       /\ registries'[r].created_at = registries[r].created_at
       /\ registries'[r].updated_at \in {registries[r].updated_at, now}
    \/ /\ r \notin DOMAIN registries
       /\ registries'[r].created_at = now /\ registries'[r].updated_at = now

StampedModules ==
  \A k \in DOMAIN modules' :
    \/ /\ k \in DOMAIN modules
       /\ modules'[k].registry = modules[k].registry
       /\ modules'[k].created_at = modules[k].created_at
       /\ modules'[k].updated_at \in {modules[k].updated_at, now}
    \/ /\ k \notin DOMAIN modules
       /\ modules'[k].created_at = now /\ modules'[k].updated_at = now
       /\ registries'[modules'[k].registry].updated_at = now

StampedForks ==
  \A k \in DOMAIN forks' :
    \/ k \in DOMAIN forks /\ forks'[k] = forks[k]
    \/ forks'[k].created_at = now /\ registries'[forks'[k].registry].updated_at = now

StampedRuns ==
  \A k \in DOMAIN runs' :
    \/ k \in DOMAIN runs /\ runs'[k] = runs[k]
    \/ /\ runs'[k].created_at = now /\ registries'[runs'[k].registry].updated_at = now
       /\ runs'[k].module \in DOMAIN modules /\ modules'[runs'[k].module].updated_at = now

LEMMA StampsOrdered ==
  ASSUME IInv, TypeOK', Timestamps, now' \in {now, now + 1},
         StampedRegistries, StampedModules, StampedForks, StampedRuns
  PROVE  Timestamps'
<1>1. now \in Nat /\ now' \in Nat /\ now <= now'
  BY ConstantsAssumption DEF IInv, TypeOK, Time
<1>2. /\ \A r \in DOMAIN registries : registries[r].created_at \in Nat /\ registries[r].updated_at \in Nat
      /\ \A k \in DOMAIN modules : modules[k].created_at \in Nat /\ modules[k].updated_at \in Nat
      /\ \A k \in DOMAIN forks : forks[k].created_at \in Nat
      /\ \A k \in DOMAIN runs : runs[k].created_at \in Nat
  BY ConstantsAssumption
  DEF IInv, TypeOK, Time, RegistryRecord, ModuleRecord, ForkRecord, RunRecord
<1>3. ASSUME NEW r \in DOMAIN registries'
      PROVE  /\ registries'[r].created_at <= registries'[r].updated_at
             /\ registries'[r].updated_at <= now'
             /\ registries'[r].updated_at \in Nat
             /\ r \in DOMAIN registries =>
                  registries[r].updated_at <= registries'[r].updated_at
  <2>1. CASE r \in DOMAIN registries
    <3>1. registries[r].created_at <= registries[r].updated_at /\ registries[r].updated_at <= now
      BY <2>1 DEF Timestamps
    <3>2. /\ registries'[r].created_at = registries[r].created_at
          /\ registries'[r].updated_at \in {registries[r].updated_at, now}
      BY <2>1 DEF StampedRegistries
    <3> QED
      BY <1>1, <1>2, <2>1, <3>1, <3>2
  <2>2. CASE r \notin DOMAIN registries
    BY <1>1, <2>2 DEF StampedRegistries
  <2> QED
    BY <2>1, <2>2
<1>4. ASSUME NEW k \in DOMAIN modules'
      PROVE  /\ modules'[k].created_at <= modules'[k].updated_at
             /\ modules'[k].updated_at <= now'
             /\ modules'[k].updated_at \in Nat
             /\ k \in DOMAIN modules =>
                  /\ modules'[k].created_at = modules[k].created_at
                  /\ modules[k].updated_at <= modules'[k].updated_at
  <2>1. CASE k \in DOMAIN modules
    <3>1. modules[k].created_at <= modules[k].updated_at /\ modules[k].updated_at <= now
      BY <2>1 DEF Timestamps
    <3>2. /\ modules'[k].created_at = modules[k].created_at
          /\ modules'[k].updated_at \in {modules[k].updated_at, now}
      BY <2>1 DEF StampedModules
    <3> QED
      BY <1>1, <1>2, <2>1, <3>1, <3>2
  <2>2. CASE k \notin DOMAIN modules
    BY <1>1, <2>2 DEF StampedModules
  <2> QED
    BY <2>1, <2>2
<1>5. ASSUME NEW r \in DOMAIN registries', NEW k \in ModulesOf(r)'
      PROVE  modules'[k].created_at <= registries'[r].updated_at
  <2>1. k \in DOMAIN modules' /\ modules'[k].registry = r
    BY DEF ModulesOf
  <2>2. CASE k \in DOMAIN modules
    <3>1. modules[k].registry = r /\ modules'[k].created_at = modules[k].created_at
      BY <2>1, <2>2 DEF StampedModules
    <3>2. r \in DOMAIN registries
      BY <2>2, <3>1 DEF IInv, References
    <3>3. modules[k].created_at <= registries[r].updated_at
      BY <2>2, <3>1, <3>2 DEF Timestamps, ModulesOf
    <3> QED
      BY <1>2, <1>3, <2>2, <3>1, <3>2, <3>3
  <2>3. CASE k \notin DOMAIN modules
    BY <1>1, <2>1, <2>3 DEF StampedModules
  <2> QED
    BY <2>2, <2>3
<1>6. ASSUME NEW r \in DOMAIN registries', NEW k \in ForksOf(r)'
      PROVE  forks'[k].created_at <= registries'[r].updated_at
  <2>1. k \in DOMAIN forks' /\ forks'[k].registry = r
    BY DEF ForksOf
  <2>2. CASE k \in DOMAIN forks /\ forks'[k] = forks[k]
    <3>1. r \in DOMAIN registries
      BY <2>1, <2>2 DEF IInv, References
    <3>2. forks[k].created_at <= registries[r].updated_at
      BY <2>1, <2>2, <3>1 DEF Timestamps, ForksOf
    <3> QED
      BY <1>2, <1>3, <2>2, <3>1, <3>2
  <2>3. CASE ~ (k \in DOMAIN forks /\ forks'[k] = forks[k])
    BY <1>1, <2>1, <2>3 DEF StampedForks
  <2> QED
    BY <2>2, <2>3
<1>7. ASSUME NEW r \in DOMAIN registries', NEW k \in RunsIn(r)'
      PROVE  runs'[k].created_at <= registries'[r].updated_at
  <2>1. k \in DOMAIN runs' /\ runs'[k].registry = r
    BY DEF RunsIn
  <2>2. CASE k \in DOMAIN runs /\ runs'[k] = runs[k]
    <3>1. r \in DOMAIN registries
      BY <2>1, <2>2 DEF IInv, References
    <3>2. runs[k].created_at <= registries[r].updated_at
      BY <2>1, <2>2, <3>1 DEF Timestamps, RunsIn
    <3> QED
      BY <1>2, <1>3, <2>2, <3>1, <3>2
  <2>3. CASE ~ (k \in DOMAIN runs /\ runs'[k] = runs[k])
    BY <1>1, <2>1, <2>3 DEF StampedRuns
  <2> QED
    BY <2>2, <2>3
<1>8. ASSUME NEW k \in DOMAIN modules', NEW x \in RunsOf(k)'
      PROVE  runs'[x].created_at \in modules'[k].created_at..modules'[k].updated_at
  <2>1. x \in DOMAIN runs' /\ runs'[x].module = k
    BY DEF RunsOf
  <2>2. CASE x \in DOMAIN runs /\ runs'[x] = runs[x]
    <3>1. k \in DOMAIN modules
      BY <2>1, <2>2 DEF IInv, References
    <3>2. runs[x].created_at \in modules[k].created_at..modules[k].updated_at
      BY <2>1, <2>2, <3>1 DEF Timestamps, RunsOf
    <3> QED
      BY <1>2, <1>4, <2>2, <3>1, <3>2
  <2>3. CASE ~ (x \in DOMAIN runs /\ runs'[x] = runs[x])
    <3>1. runs'[x].created_at = now /\ k \in DOMAIN modules /\ modules'[k].updated_at = now
      BY <2>1, <2>3 DEF StampedRuns
    <3>2. modules[k].created_at <= now
      BY <1>1, <1>2, <3>1 DEF Timestamps
    <3> QED
      BY <1>1, <1>2, <1>4, <3>1, <3>2
  <2> QED
    BY <2>2, <2>3
<1> QED
  BY <1>3, <1>4, <1>5, <1>6, <1>7, <1>8 DEF Timestamps

\* The last three need not be looked at where modules, forks or runs do not change.
LEMMA SameStamps ==
  /\ UNCHANGED registries => StampedRegistries
  /\ UNCHANGED modules => StampedModules
  /\ UNCHANGED forks => StampedForks
  /\ UNCHANGED runs => StampedRuns
BY DEF StampedRegistries, StampedModules, StampedForks, StampedRuns

\* A registry that a step touches.
LEMMA TouchedRegistry ==
  ASSUME TypeOK, NEW r \in DOMAIN registries, NEW reg,
         registries' = [registries EXCEPT ![r] = reg],
         reg.created_at = registries[r].created_at, reg.updated_at = now
  PROVE  StampedRegistries /\ registries'[r].updated_at = now
BY DEF StampedRegistries, TypeOK

LEMMA Touches ==
  ASSUME NEW reg \in RegistryRecord, NEW p
  PROVE  \A x \in {Touch([reg EXCEPT !.policy = p]), CountModule(reg), CountFork(reg), CountRun(reg)} :
           x.created_at = reg.created_at /\ x.updated_at = now
BY DEF Touch, CountModule, CountFork, CountRun, RegistryRecord

LEMMA StampStep == IInv /\ Timestamps /\ [Next]_vars => Timestamps'
<1> SUFFICES ASSUME IInv, Timestamps, [Next]_vars PROVE Timestamps'
  OBVIOUS
<1>1. TypeOK /\ TypeOK'
  BY TypeStep DEF IInv
<1>2. \A r \in DOMAIN registries : registries[r] \in RegistryRecord
  BY <1>1 DEF TypeOK
<1>3. \A k \in DOMAIN modules : modules[k] \in ModuleRecord
  BY <1>1 DEF TypeOK
<1>4. CASE UNCHANGED vars \/ Tick
  <2>1. UNCHANGED <<registries, modules, forks, runs>> /\ now' \in {now, now + 1}
    BY <1>4 DEF vars, Tick
  <2> QED
    BY <1>1, <2>1, SameStamps, StampsOrdered
<1>5. ASSUME NEW r \in Keys, NEW p \in Policies, InitRegistry(r, p) PROVE Timestamps'
  <2>1. StampedRegistries
    BY <1>5 DEF InitRegistry, Unused, Create, StampedRegistries
  <2> QED
    BY <1>1, <1>5, <2>1, SameStamps, StampsOrdered DEF InitRegistry
<1>6. ASSUME NEW r \in Keys, NEW s \in Keys, NEW p \in Policies, SetPolicy(r, s, p)
      PROVE  Timestamps'
  <2>1. r \in DOMAIN registries
    BY <1>6 DEF SetPolicy, SignedByAuthority
  <2> DEFINE reg == Touch([registries[r] EXCEPT !.policy = p])
  <2>2. registries' = [registries EXCEPT ![r] = reg]
    BY <1>6 DEF SetPolicy
  <2>3. reg.created_at = registries[r].created_at /\ reg.updated_at = now
    BY <1>2, <2>1, Touches
  <2> HIDE DEF reg
  <2>4. StampedRegistries
    BY <1>1, <2>1, <2>2, <2>3, TouchedRegistry
  <2> QED
    BY <1>1, <1>6, <2>4, SameStamps, StampsOrdered DEF SetPolicy
<1>7. ASSUME NEW r \in Keys, NEW s \in Keys, NEW id \in ModuleIds, NEW m \in Metas,
             NEW h \in Shas, NEW z \in Sizes, NEW v \in BOOLEAN,
             PublishModule(r, s, id, m, h, z, v)
      PROVE  Timestamps'
  <2> DEFINE mod == [registry |-> r, owner |-> s, created_at |-> now, updated_at |-> now,
                     meta |-> m, space |-> SpaceFor(m), artifact_sha256 |-> h,
                     artifact_size |-> z, verified |-> v, run_count |-> 0]
  <2>1. /\ r \in DOMAIN registries /\ <<r, id>> \notin DOMAIN modules
        /\ registries' = [registries EXCEPT ![r] = CountModule(registries[r])]
        /\ modules' = Create(modules, <<r, id>>, mod)
        /\ UNCHANGED <<forks, runs, now>>
    BY <1>7 DEF PublishModule, SignedByAuthority, Unused
  <2>2. StampedRegistries /\ registries'[r].updated_at = now
    BY <1>1, <1>2, <2>1, Touches, TouchedRegistry
  <2>3. mod.registry = r /\ mod.created_at = now /\ mod.updated_at = now
    OBVIOUS
  <2> HIDE DEF mod
  <2>4. StampedModules
    BY <2>1, <2>2, <2>3 DEF Create, StampedModules
  <2> QED
    BY <1>1, <2>1, <2>2, <2>4, SameStamps, StampsOrdered
<1>8. ASSUME NEW r \in Keys, NEW s \in Keys, NEW k \in ModuleKeys, NEW m \in Metas,
             UpdateModule(r, s, k, m)
      PROVE  Timestamps'
  <2>1. k \in DOMAIN modules /\ UNCHANGED <<registries, forks, runs, now>>
        /\ modules' = [modules EXCEPT ![k].meta = m, ![k].updated_at = now]
    BY <1>8 DEF UpdateModule, OfRegistry
  <2>2. StampedModules
    BY <1>1, <1>3, <2>1 DEF StampedModules, ModuleRecord, TypeOK
  <2> QED
    BY <1>1, <2>1, <2>2, SameStamps, StampsOrdered
<1>9. ASSUME NEW r \in Keys, NEW s \in Keys, NEW id \in ForkIds, NEW k \in ModuleKeys,
             NEW n \in NoteLens, CreateFork(r, s, id, k, n)
      PROVE  Timestamps'
  <2> DEFINE fork == [registry |-> r, module |-> k, owner |-> s, created_at |-> now]
  <2>1. /\ r \in DOMAIN registries
        /\ registries' = [registries EXCEPT ![r] = CountFork(registries[r])]
        /\ forks' = Create(forks, <<r, id>>, fork)
        /\ UNCHANGED <<modules, runs, now>>
    BY <1>9 DEF CreateFork, ForkCountedBy
  <2>2. StampedRegistries /\ registries'[r].updated_at = now
    BY <1>1, <1>2, <2>1, Touches, TouchedRegistry
  <2>3. StampedForks
    BY <2>1, <2>2 DEF Create, StampedForks
  <2> QED
    BY <1>1, <2>1, <2>2, <2>3, SameStamps, StampsOrdered
<1>10. ASSUME NEW r \in Keys, NEW s \in Keys, NEW k \in ModuleKeys, NEW h \in Shas,
              NEW z \in Sizes, NEW v \in BOOLEAN, AttestArtifact(r, s, k, h, z, v)
       PROVE  Timestamps'
  <2>1. k \in DOMAIN modules /\ UNCHANGED <<registries, forks, runs, now>>
        /\ modules' = [modules EXCEPT ![k].artifact_sha256 = h, ![k].artifact_size = z,
                                      ![k].verified = v, ![k].updated_at = now]
    BY <1>10 DEF AttestArtifact, OfRegistry
  <2>2. StampedModules
    BY <1>1, <1>3, <2>1 DEF StampedModules, ModuleRecord, TypeOK
  <2> QED
    BY <1>1, <2>1, <2>2, SameStamps, StampsOrdered
<1>11. ASSUME NEW r \in Keys, NEW s \in Keys, NEW id \in RunIds, NEW k \in ModuleKeys,
              RecordRun(r, s, id, k)
       PROVE  Timestamps'
  <2> DEFINE a == [registry |-> r, module |-> k, owner |-> s, created_at |-> now]
             n == SaturatingInc(modules[k].run_count)
  <2>1. /\ r \in DOMAIN registries /\ k \in DOMAIN modules
        /\ registries' = [registries EXCEPT ![r] = CountRun(registries[r])]
        /\ modules' = [modules EXCEPT ![k].run_count = n, ![k].updated_at = now]
        /\ runs' = Create(runs, <<r, id>>, a)
        /\ UNCHANGED <<forks, now>>
    BY <1>11 DEF RecordRun, SignedByAuthority, OfRegistry
  <2>2. StampedRegistries /\ registries'[r].updated_at = now
    BY <1>1, <1>2, <2>1, Touches, TouchedRegistry
  <2> HIDE DEF n
  <2>3. StampedModules /\ modules'[k].updated_at = now
    BY <1>1, <1>3, <2>1 DEF StampedModules, ModuleRecord, TypeOK
  <2>4. a.registry = r /\ a.module = k /\ a.created_at = now
    OBVIOUS
  <2> HIDE DEF a
  <2>5. StampedRuns
    BY <2>1, <2>2, <2>3, <2>4 DEF Create, StampedRuns
  <2> QED
    BY <1>1, <2>1, <2>2, <2>3, <2>5, SameStamps, StampsOrdered
<1> QED
  BY <1>4, <1>5, <1>6, <1>7, <1>8, <1>9, <1>10, <1>11 DEF Next

\* updated_at is a high-water mark in every reachable state: no handler writes an
\* account, or appends one that it counts, without touching it, on any clock.
THEOREM TimestampsCorrect == Spec => []Timestamps
<1>1. Init => Timestamps
  BY DEF Init, Timestamps
<1> QED
  BY <1>1, InvCorrect, StampStep, PTL DEF Spec

-----------------------------------------------------------------------------
(* The policy                                                              *)

LEMMA PolicyStep ==
  ASSUME IInv, [Next]_vars
  PROVE  \A k \in DOMAIN modules' : WriteObeys(k, registries[k[1]].policy)
<1>1. modules \in [DOMAIN modules -> ModuleRecord]
  BY DEF IInv, TypeOK
<1>2. \A k \in DOMAIN modules : modules[k].registry = k[1]
  BY DEF IInv, References
<1>3. CASE UNCHANGED modules
  BY <1>3 DEF WriteObeys, SameArtifact
<1>4. ASSUME NEW r \in Keys, NEW s \in Keys, NEW id \in ModuleIds, NEW m \in Metas,
             NEW h \in Shas, NEW z \in Sizes, NEW v \in BOOLEAN,
             PublishModule(r, s, id, m, h, z, v)
      PROVE  \A k \in DOMAIN modules' : WriteObeys(k, registries[k[1]].policy)
  <2> DEFINE new == <<r, id>>
  <2>1. new[1] = r /\ new \notin DOMAIN modules /\ Admits(registries[r].policy, z, v)
    BY <1>4 DEF PublishModule, Unused
  <2>2. /\ DOMAIN modules' = DOMAIN modules \cup {new}
        /\ modules'[new].artifact_size = z /\ modules'[new].verified = v
        /\ \A k \in DOMAIN modules : modules'[k] = modules[k]
    BY <1>4, <2>1 DEF PublishModule, Create
  <2> HIDE DEF new
  <2> QED
    BY <2>1, <2>2 DEF Admits, WriteObeys, SameArtifact
<1>5. ASSUME NEW r \in Keys, NEW s \in Keys, NEW k \in ModuleKeys, NEW m \in Metas,
             UpdateModule(r, s, k, m)
      PROVE  \A j \in DOMAIN modules' : WriteObeys(j, registries[j[1]].policy)
  BY <1>1, <1>5 DEF UpdateModule, OfRegistry, ModuleRecord, WriteObeys, SameArtifact
<1>6. ASSUME NEW r \in Keys, NEW s \in Keys, NEW k \in ModuleKeys, NEW h \in Shas,
             NEW z \in Sizes, NEW v \in BOOLEAN, AttestArtifact(r, s, k, h, z, v)
      PROVE  \A j \in DOMAIN modules' : WriteObeys(j, registries[j[1]].policy)
  <2>1. k \in DOMAIN modules /\ k[1] = r /\ Admits(registries[r].policy, z, v)
    BY <1>2, <1>6 DEF AttestArtifact, OfRegistry
  <2>2. /\ DOMAIN modules' = DOMAIN modules
        /\ modules'[k].artifact_size = z /\ modules'[k].verified = v
        /\ modules'[k].run_count = modules[k].run_count
        /\ \A j \in DOMAIN modules : j # k => modules'[j] = modules[j]
    BY <1>1, <1>6, <2>1 DEF AttestArtifact, ModuleRecord
  <2> QED
    BY <2>1, <2>2 DEF Admits, WriteObeys, SameArtifact
<1>7. ASSUME NEW r \in Keys, NEW s \in Keys, NEW id \in RunIds, NEW k \in ModuleKeys,
             RecordRun(r, s, id, k)
      PROVE  \A j \in DOMAIN modules' : WriteObeys(j, registries[j[1]].policy)
  <2>1. /\ k \in DOMAIN modules /\ k[1] = r
        /\ modules[k].run_count < registries[r].policy.max_runs_per_module
    BY <1>2, <1>7 DEF RecordRun, OfRegistry, UnderRunLimit
  <2>2. registries[r].policy \in Policy /\ modules[k].run_count \in 0..MaxCount
    <3>1. registries[r] \in RegistryRecord /\ modules[k] \in ModuleRecord
      BY <1>1, <1>7, <2>1 DEF RecordRun, SignedByAuthority, IInv, TypeOK
    <3> QED
      BY <3>1, ConstantsAssumption DEF RegistryRecord, ModuleRecord, Count
  <2>3. /\ registries[r].policy.max_runs_per_module \in 0..MaxCount
        /\ SaturatingInc(modules[k].run_count) = modules[k].run_count + 1
    BY <2>1, <2>2, ConstantsAssumption DEF Policy, SaturatingInc
  <2>4. /\ DOMAIN modules' = DOMAIN modules
        /\ SameArtifact(modules'[k], modules[k])
        /\ modules'[k].run_count = modules[k].run_count + 1
        /\ \A j \in DOMAIN modules : j # k => modules'[j] = modules[j]
    BY <1>1, <1>7, <2>1, <2>3 DEF RecordRun, ModuleRecord, SameArtifact
  <2> QED
    BY <2>1, <2>2, <2>3, <2>4, ConstantsAssumption DEF WriteObeys, SameArtifact
<1>8. \/ UNCHANGED modules
      \/ \E r, s \in Keys, id \in ModuleIds, m \in Metas, h \in Shas, z \in Sizes,
            v \in BOOLEAN : PublishModule(r, s, id, m, h, z, v)
      \/ \E r, s \in Keys, k \in ModuleKeys, m \in Metas : UpdateModule(r, s, k, m)
      \/ \E r, s \in Keys, k \in ModuleKeys, h \in Shas, z \in Sizes, v \in BOOLEAN :
            AttestArtifact(r, s, k, h, z, v)
      \/ \E r, s \in Keys, id \in RunIds, k \in ModuleKeys : RecordRun(r, s, id, k)
  BY DEF Next, vars, Tick, InitRegistry, SetPolicy, CreateFork
<1> QED
  BY <1>3, <1>4, <1>5, <1>6, <1>7, <1>8

\* Whatever the policies were and become, a write to a module obeys the policy in
\* force when it is made: the size and verification of an artifact, and the run
\* limit.
THEOREM PolicyCorrect == Spec => PolicyBindsWrites
<1>1. IInv /\ [Next]_vars
        => [\A k \in DOMAIN modules' : WriteObeys(k, registries[k[1]].policy)]_vars
  BY PolicyStep
<1> QED
  BY <1>1, InvCorrect, PTL DEF Spec, PolicyBindsWrites

-----------------------------------------------------------------------------
(* The ledger                                                              *)

LEMMA QuietMapsToStutter ==
  ASSUME Quiet
  PROVE  Entries' = Entries /\ Counters' = Counters
<1>1. Entries' = Entries
  BY DEF Quiet, Entries, Entry
<1>2. Counters' = Counters
  BY DEF Quiet, Counters, Advertised
<1> QED
  BY <1>1, <1>2

\* Replacing one registry's counters, kind by kind.
LEMMA AdvertisedCount ==
  ASSUME NEW reg \in RegistryRecord
  PROVE  /\ Advertised(CountModule(reg)) = L!CountOne(Advertised(reg), "module")
         /\ Advertised(CountFork(reg)) = L!CountOne(Advertised(reg), "fork")
         /\ Advertised(CountRun(reg)) = L!CountOne(Advertised(reg), "run")
BY DEF Advertised, CountModule, CountFork, CountRun, Touch, SaturatingInc,
       RegistryRecord, L!CountOne

LEMMA LedgerInit == Init => L!Init
BY DEF Init, L!Init, Entries, Counters

LEMMA LedgerOpen ==
  ASSUME IInv, NEW r \in Keys, NEW p \in Policies, InitRegistry(r, p)
  PROVE  L!Open(r)
<1> DEFINE reg == [authority |-> r, policy |-> p, created_at |-> now,
                   updated_at |-> now, module_count |-> 0, fork_count |-> 0,
                   run_count |-> 0]
<1>1. /\ r \notin DOMAIN registries
      /\ registries' = Create(registries, r, reg)
      /\ UNCHANGED <<modules, forks, runs>>
  BY DEF InitRegistry, Unused
<1>2. Advertised(reg) = [kind \in {"module", "fork", "run"} |-> 0]
  BY DEF Advertised
<1> HIDE DEF reg
<1>3. Counters' = [s \in DOMAIN Counters \cup {r} |->
                     IF s = r THEN [kind \in {"module", "fork", "run"} |-> 0]
                     ELSE Counters[s]]
  BY <1>1, <1>2 DEF Counters, Create
<1>4. Entries' = Entries
  BY <1>1 DEF Entries
<1> QED
  BY <1>1, <1>3, <1>4 DEF L!Open, L!Kinds, Counters

\* The counters after one registry counted an entry.
LEMMA LedgerCount ==
  ASSUME TypeOK, NEW r \in DOMAIN registries, NEW reg,
         registries' = [registries EXCEPT ![r] = reg],
         NEW kind, Advertised(reg) = L!CountOne(Advertised(registries[r]), kind)
  PROVE  /\ r \in DOMAIN Counters
         /\ Counters' = [Counters EXCEPT ![r] = L!CountOne(@, kind)]
<1>1. registries \in [DOMAIN registries -> RegistryRecord]
  BY DEF TypeOK
<1>2. /\ DOMAIN registries' = DOMAIN registries
      /\ registries'[r] = reg
      /\ \A q \in DOMAIN registries : q # r => registries'[q] = registries[q]
  BY <1>1
<1>3. Counters' = [q \in DOMAIN registries |-> Advertised(registries'[q])]
  BY <1>2 DEF Counters
<1> QED
  BY <1>2, <1>3 DEF Counters

LEMMA LedgerPublishModule ==
  ASSUME IInv, NEW r \in Keys, NEW s \in Keys, NEW id \in ModuleIds,
         NEW m \in Metas, NEW h \in Shas, NEW z \in Sizes, NEW v \in BOOLEAN,
         PublishModule(r, s, id, m, h, z, v)
  PROVE  L!Append("module", r, id, <<r, id>>)
<1> DEFINE k == <<r, id>>
<1>1. /\ r \in DOMAIN registries
      /\ registries[r] \in RegistryRecord
      /\ k \notin DOMAIN modules
      /\ UNCHANGED <<forks, runs>>
      /\ registries' = [registries EXCEPT ![r] = CountModule(registries[r])]
  BY DEF PublishModule, SignedByAuthority, Unused, IInv, TypeOK
<1>2. /\ DOMAIN modules' = DOMAIN modules \cup {k}
      /\ modules'[k].registry = r
      /\ \A j \in DOMAIN modules : modules'[j] = modules[j]
  BY <1>1 DEF PublishModule, Create
<1>3. ~ \E e \in Entries : e.kind = "module" /\ e.registry = r /\ e.id = id
  <2>1. \A j \in DOMAIN modules : j \in Keys \X ModuleIds /\ modules[j].registry = j[1]
    BY DEF IInv, TypeOK, ModuleKeys, References
  <2>2. \A j \in DOMAIN modules : ~ (j[1] = r /\ j[2] = id)
    BY <1>1, <2>1
  <2> QED
    BY <2>1, <2>2 DEF Entries, Entry
<1>4. Entries' = Entries \cup
        {[kind |-> "module", registry |-> r, id |-> id, module |-> <<r, id>>]}
  <2>1. k[2] = id
    OBVIOUS
  <2>2. Entry("module", modules'[k], k, k)
          = [kind |-> "module", registry |-> r, id |-> id, module |-> k]
    BY <1>2, <2>1 DEF Entry
  <2> HIDE DEF k
  <2>3. {Entry("module", modules[j], j, j) : j \in DOMAIN modules}'
          = {Entry("module", modules[j], j, j) : j \in DOMAIN modules}
              \cup {[kind |-> "module", registry |-> r, id |-> id, module |-> k]}
    BY <1>1, <1>2, <2>2
  <2>4. Entries' = Entries \cup
          {[kind |-> "module", registry |-> r, id |-> id, module |-> k]}
    BY <1>1, <2>3 DEF Entries
  <2> QED
    BY <2>4 DEF k
<1>5. /\ r \in DOMAIN Counters
      /\ Counters' = [Counters EXCEPT ![r] = L!CountOne(@, "module")]
  <2>1. TypeOK
    BY DEF IInv
  <2>2. Advertised(CountModule(registries[r]))
          = L!CountOne(Advertised(registries[r]), "module")
    BY <1>1, AdvertisedCount
  <2> QED
    BY <1>1, <2>1, <2>2, LedgerCount
<1> QED
  BY <1>3, <1>4, <1>5 DEF L!Append

LEMMA LedgerCreateFork ==
  ASSUME IInv, NEW r \in Keys, NEW s \in Keys, NEW id \in ForkIds, NEW m \in ModuleKeys,
         NEW n \in NoteLens, CreateFork(r, s, id, m, n)
  PROVE  L!Append("fork", r, id, m)
<1> DEFINE k == <<r, id>>
<1>1. /\ r \in DOMAIN registries
      /\ registries[r] \in RegistryRecord
      /\ m \in DOMAIN modules
      /\ k \notin DOMAIN forks
      /\ UNCHANGED <<modules, runs>>
      /\ registries' = [registries EXCEPT ![r] = CountFork(registries[r])]
  BY DEF CreateFork, ForkCountedBy, Unused, IInv, TypeOK
<1>2. /\ DOMAIN forks' = DOMAIN forks \cup {k}
      /\ forks'[k].registry = r
      /\ forks'[k].module = m
      /\ \A j \in DOMAIN forks : forks'[j] = forks[j]
  BY <1>1 DEF CreateFork, Create
<1>3. ~ \E e \in Entries : e.kind = "fork" /\ e.registry = r /\ e.id = id
  <2>1. \A j \in DOMAIN forks : j \in Keys \X ForkIds /\ forks[j].registry = j[1]
    BY DEF IInv, TypeOK, ForkKeys, References
  <2>2. \A j \in DOMAIN forks : ~ (j[1] = r /\ j[2] = id)
    BY <1>1, <2>1
  <2> QED
    BY <2>1, <2>2 DEF Entries, Entry
<1>4. Entries' = Entries \cup
        {[kind |-> "fork", registry |-> r, id |-> id, module |-> m]}
  <2>1. k[2] = id
    OBVIOUS
  <2> HIDE DEF k
  <2>2. Entry("fork", forks'[k], k, forks'[k].module)
          = [kind |-> "fork", registry |-> r, id |-> id, module |-> m]
    BY <1>2, <2>1 DEF Entry
  <2>3. {Entry("fork", forks[j], j, forks[j].module) : j \in DOMAIN forks}'
          = {Entry("fork", forks[j], j, forks[j].module) : j \in DOMAIN forks}
              \cup {[kind |-> "fork", registry |-> r, id |-> id, module |-> m]}
    BY <1>1, <1>2, <2>2
  <2> QED
    BY <1>1, <2>3 DEF Entries
<1>5. \E e \in Entries : e.kind = "module" /\ e.module = m
  <2>1. Entry("module", modules[m], m, m) \in Entries
    BY <1>1 DEF Entries
  <2>2. LET e == Entry("module", modules[m], m, m) IN e.kind = "module" /\ e.module = m
    BY DEF Entry
  <2> QED
    BY <2>1, <2>2
<1>6. /\ r \in DOMAIN Counters
      /\ Counters' = [Counters EXCEPT ![r] = L!CountOne(@, "fork")]
  <2>1. TypeOK
    BY DEF IInv
  <2>2. Advertised(CountFork(registries[r]))
          = L!CountOne(Advertised(registries[r]), "fork")
    BY <1>1, AdvertisedCount
  <2> QED
    BY <1>1, <2>1, <2>2, LedgerCount
<1> QED
  BY <1>3, <1>4, <1>5, <1>6 DEF L!Append


LEMMA LedgerRecordRun ==
  ASSUME IInv, NEW r \in Keys, NEW s \in Keys, NEW id \in RunIds, NEW m \in ModuleKeys,
         RecordRun(r, s, id, m)
  PROVE  L!Append("run", r, id, m)
<1> DEFINE k == <<r, id>>
<1>1. /\ r \in DOMAIN registries
      /\ registries[r] \in RegistryRecord
      /\ m \in DOMAIN modules
      /\ k \notin DOMAIN runs
      /\ UNCHANGED forks
      /\ registries' = [registries EXCEPT ![r] = CountRun(registries[r])]
  BY DEF RecordRun, SignedByAuthority, OfRegistry, Unused, IInv, TypeOK
<1>2. /\ DOMAIN runs' = DOMAIN runs \cup {k}
      /\ runs'[k].registry = r
      /\ runs'[k].module = m
      /\ \A j \in DOMAIN runs : runs'[j] = runs[j]
  BY <1>1 DEF RecordRun, Create
<1>3. ~ \E e \in Entries : e.kind = "run" /\ e.registry = r /\ e.id = id
  <2>1. \A j \in DOMAIN runs : j \in Keys \X RunIds /\ runs[j].registry = j[1]
    BY DEF IInv, TypeOK, RunKeys, References
  <2>2. \A j \in DOMAIN runs : ~ (j[1] = r /\ j[2] = id)
    BY <1>1, <2>1
  <2> QED
    BY <2>1, <2>2 DEF Entries, Entry
<1>4. Entries' = Entries \cup
        {[kind |-> "run", registry |-> r, id |-> id, module |-> m]}
  <2>1. k[2] = id
    OBVIOUS
  <2> HIDE DEF k
  <2>2. Entry("run", runs'[k], k, runs'[k].module)
          = [kind |-> "run", registry |-> r, id |-> id, module |-> m]
    BY <1>2, <2>1 DEF Entry
  <2>3. {Entry("run", runs[j], j, runs[j].module) : j \in DOMAIN runs}'
          = {Entry("run", runs[j], j, runs[j].module) : j \in DOMAIN runs}
              \cup {[kind |-> "run", registry |-> r, id |-> id, module |-> m]}
    BY <1>1, <1>2, <2>2
  <2>4. {Entry("module", modules[j], j, j) : j \in DOMAIN modules}'
          = {Entry("module", modules[j], j, j) : j \in DOMAIN modules}
    <3>1. /\ DOMAIN modules' = DOMAIN modules
          /\ \A j \in DOMAIN modules : modules'[j].registry = modules[j].registry
      BY <1>1 DEF RecordRun, IInv, TypeOK, ModuleRecord
    <3> QED
      BY <3>1 DEF Entry
  <2> QED
    BY <1>1, <2>3, <2>4 DEF Entries
<1>5. \E e \in Entries : e.kind = "module" /\ e.module = m
  <2>1. Entry("module", modules[m], m, m) \in Entries
    BY <1>1 DEF Entries
  <2>2. LET e == Entry("module", modules[m], m, m) IN e.kind = "module" /\ e.module = m
    BY DEF Entry
  <2> QED
    BY <2>1, <2>2
<1>6. /\ r \in DOMAIN Counters
      /\ Counters' = [Counters EXCEPT ![r] = L!CountOne(@, "run")]
  <2>1. TypeOK
    BY DEF IInv
  <2>2. Advertised(CountRun(registries[r]))
          = L!CountOne(Advertised(registries[r]), "run")
    BY <1>1, AdvertisedCount
  <2> QED
    BY <1>1, <2>1, <2>2, LedgerCount
<1>7. m[1] = r
  BY <1>1 DEF RecordRun, OfRegistry, IInv, References
<1> QED
  BY <1>3, <1>4, <1>5, <1>6, <1>7 DEF L!Append

LEMMA LedgerStep ==
  ASSUME IInv, [Next]_vars
  PROVE  [L!Next]_(L!vars)
<1>1. ASSUME Quiet PROVE [L!Next]_(L!vars)
  BY <1>1, QuietMapsToStutter DEF L!vars
<1>2. TypeOK
  BY DEF IInv
<1>3. ASSUME NEW r \in Keys, NEW p \in Policies, InitRegistry(r, p) PROVE L!Next
  BY <1>3, LedgerOpen DEF L!Next
<1>4. ASSUME NEW r \in Keys, NEW s \in Keys, NEW id \in ModuleIds, NEW m \in Metas,
             NEW h \in Shas, NEW z \in Sizes, NEW v \in BOOLEAN,
             PublishModule(r, s, id, m, h, z, v)
      PROVE  L!Next
  <2>1. L!Append("module", r, id, <<r, id>>) /\ <<r, id>> \in Keys \X ModuleIds
    BY <1>4, LedgerPublishModule
  <2>2. "module" \in L!Kinds /\ id \in L!Ids("module")
    BY DEF L!Kinds, L!Ids
  <2> QED
    BY <2>1, <2>2 DEF L!Next
<1>5. ASSUME NEW r \in Keys, NEW s \in Keys, NEW id \in ForkIds, NEW m \in ModuleKeys,
             NEW n \in NoteLens, CreateFork(r, s, id, m, n)
      PROVE  L!Next
  <2>1. L!Append("fork", r, id, m) /\ m \in Keys \X ModuleIds
    BY <1>5, LedgerCreateFork DEF ModuleKeys
  <2>2. "fork" \in L!Kinds /\ id \in L!Ids("fork")
    BY DEF L!Kinds, L!Ids
  <2> QED
    BY <2>1, <2>2 DEF L!Next
<1>6. ASSUME NEW r \in Keys, NEW s \in Keys, NEW id \in RunIds, NEW m \in ModuleKeys,
             RecordRun(r, s, id, m)
      PROVE  L!Next
  <2>1. L!Append("run", r, id, m) /\ m \in Keys \X ModuleIds
    BY <1>6, LedgerRecordRun DEF ModuleKeys
  <2>2. "run" \in L!Kinds /\ id \in L!Ids("run")
    BY DEF L!Kinds, L!Ids
  <2> QED
    BY <2>1, <2>2 DEF L!Next
<1>7. \/ Quiet
      \/ \E r \in Keys, p \in Policies : InitRegistry(r, p)
      \/ \E r, s \in Keys, id \in ModuleIds, m \in Metas, h \in Shas, z \in Sizes,
            v \in BOOLEAN : PublishModule(r, s, id, m, h, z, v)
      \/ \E r, s \in Keys, id \in ForkIds, k \in ModuleKeys, n \in NoteLens :
            CreateFork(r, s, id, k, n)
      \/ \E r, s \in Keys, id \in RunIds, k \in ModuleKeys : RecordRun(r, s, id, k)
  BY <1>2, QuietSteps DEF Next
<1> QED
  BY <1>1, <1>3, <1>4, <1>5, <1>6, <1>7

\* The program implements the append-only ledger: what a reader of the chain is
\* told about a registry never changes except by one entry and one count.
THEOREM ImplementsLedger == Spec => AppendOnly
<1>1. Init => L!Init
  BY LedgerInit
<1>2. IInv /\ [Next]_vars => [L!Next]_(L!vars)
  BY LedgerStep
<1> QED
  BY <1>1, <1>2, InvCorrect, PTL DEF Spec, AppendOnly, L!Spec
=============================================================================
