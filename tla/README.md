# Verification of Nuttoo

TLA+ specifications of the Nuttoo registry program and of the services around it,
the TLC configurations that check them on small instances, and TLAPS proofs about
them. Source paths are relative to `src/`.

## The system

Nuttoo is a registry of code modules on Solana with services that index, run and
publish them. A team reading this project should know these parts.

| Part | State | Operations | Works with |
|---|---|---|---|
| Registry program `programs/nuttoo_registry` | registry, module, fork and run accounts | seven instructions | clock sysvar, the indexer reads its chain |
| Indexer `apps-indexer` | event table, module/fork/run rows, two checkpoints; the slot it is at, in memory | backfill, polling or websocket stream, persistEvents | RPC node, Postgres |
| Worker `apps-worker` | in-memory queue, artifact files, temporary directories, a child process | pack, verify, run and publish jobs | file system, firejail |
| API `apps-api` | rows in Postgres, object files | create and read modules, forks and runs | Redis queue, Postgres, file system |
| Agent `apps-agent` | tick, phase, summaries, ETags | observe, summarise, plan, publish, propose | GitHub/npm, the SDK's client |
| Scripts `scripts/env`, `scripts/solana`, `scripts/ci` | environment files, key files, exported IDLs and their index, VERSION files, release notes | generate and validate, make and fund wallets, export, compute and write | the operator, `solana-keygen`, `anchor build`, git |
| Packages `packages/*` | none, but a client's timeout | queue, repositories, SDK, module kit | the services |
| CLI, web, infra | settings, token and bundle files, each overwritten whole | one-shot commands, pages, deployment | the API, the cluster |

Behaviours that are hard, per part, with what makes the part correct:

- **Registry.** Accounts refer to each other across instructions signed by
  different people, and a policy may change between two of them. Correct means:
  the counters count, references never dangle, limits hold when a module is
  written, and no account goes away. (Counters and timestamps aside, what is rewritten
  is a registry's policy and a module's metadata and artifact.)
- **Indexer.** Every `await` may fail or be the last thing the process does; a
  rolling update runs two instances on one database. Correct means: while no
  call fails, a checkpoint never passes a transaction that was not stored (among the
  first `TxCap` of its slot) and replaying a slot converges to what the chain says;
  and every confirmed slot is reached.
- **Worker.** A child's exit, its output, the timer and the kill race; the queue
  is lost with the process. Correct means: a result is complete, what is collected is
  bounded, a directory outlives the child that runs in it and is removed after it (but
  for a crash or a failing `rm`), the wait ends, and the loop goes on to every job that
  the process lives to reach.
- **API and stores.** A row and a job, or an object and a row, are written one
  after the other; files are not written atomically. Correct means: what a
  content address returns is what was stored there, and every run that was answered
  as queued has its job (one whose request failed after the insert may stay `QUEUED`
  without one).
- **Agent.** A step that throws loses the state it built, and a language model may
  answer anything or nothing. Correct means: the memory is that of the ticks that
  completed, and the loop never stops. What a tick is there for, publishing, always
  fails (see Findings).
- **Scripts.** They are run again and again over the files of earlier runs and of
  each other, from several terminals, while other tools write what they read.
  Correct means: what one writes the others accept, and what is reported,
  indexed or numbered is what is on disk and in the history.

`PROJECT.json` lists every component with its status and every hazard at its line.

## Modules

| Module | Models |
|---|---|
| `Registry` | the registry program: accounts, constraints, instructions |
| `Ledger` | what it promises: an append-only ledger with counters |
| `RegistryProofs` | theorems about `Registry` |
| `MCRegistry` | values of the constants for TLC |
| `Persist` | the log parsers and `PersistService.persistEvents` |
| `Indexer` | backfill, the polling stream, checkpoints; EXTENDS `Persist` |
| `MCIndexer` | chains for TLC |
| `ObjectStore` | the API's `StorageService.putObject` over files written in pieces |
| `Api` | the API's requests that write; EXTENDS `ObjectStore` |
| `ApiProofs` | theorems about `ObjectStore` and `Api` |
| `MCApi` | requests for TLC |
| `Sandbox` | the worker's `runSandbox` and the program it runs |
| `SandboxProofs` | theorems about it |
| `MCSandbox` | `Sandbox` for TLC, with the values of one finding |
| `IndexerWs` | the websocket stream: callbacks over `Persist`; EXTENDS `Indexer` |
| `MCIndexerWs` | chains for it |
| `IndexerProofs` | theorems about `Persist`, `Indexer` and `IndexerWs` |
| `ConvergenceProofs` | the theorems that their tables become what the chain says; EXTENDS `IndexerProofs` |
| `Worker` | the job loop, the processors, the artifact store; EXTENDS `Sandbox` |
| `WorkerProofs` | theorems about it; EXTENDS `SandboxProofs` |
| `MCWorker` | queues for it |
| `Agent` | the agent's loop, its cognition and its actions |
| `AgentProofs` | theorems about it |
| `MCAgent` | plans, suggestions and configurations |
| `EnvFiles` | the environment generators and the validator |
| `Wallets` | `create-test-wallets.ts` in several terminals |
| `Idls` | `export-idls.ts` beside `anchor build` |
| `Release` | `version.ts` and `release-notes.ts` over a git history |
| `Workspace` | a checkout with all of these; EXTENDS the four above |
| `WorkspaceProofs` | theorems about the four in it |
| `MCWorkspace` | commands for TLC |

### Registry

An instruction is one action: Solana discards the writes of an instruction that
fails, so an action is the whole handler under its `#[account]` constraints, and
one that would fail is not enabled. An account's address is derived from its
seeds, so the functions `registries`, `modules`, `forks` and `runs` are keyed by
the seeds. `init` is "the address is not in the domain". Strings are their
lengths, which is all `validate.rs` and `Module::space_for` look at. A module's
`space` is what its account holds forever, because `update_module` does not
reallocate; its account may be filled up to the 8 bytes of padding. The handlers
of `create_fork` and `update_module` ask for less than one might expect (any
signer may fork, a module of any registry may be forked, an update is subject to
no policy); the actions ask for just as little. `utils/pda.rs` repeats the
functions of `utils/validate.rs`; they are equal and modelled once. Events, bumps
and the recorded results of a run are never read again and left out.

`MaxCount` is `u64::MAX`; TLC takes 3 or 1 so that counters saturate. `Tick` is
the clock, which never goes back, up to `MaxTime`.

### Persist and Indexer

A step of an instance is the code between two awaits; `proc[i].pc` names the
await it is at. The chain and the database are shared by the instances and may
refuse a call (`Fault`, at most `MaxFaults` times); the code turns most failures
into an empty result, and so does the model. `Crash` forgets what is in memory,
`Start` boots with `backfill`. `Write` executes one statement of `persistEvents`
at a time, in the order of the code: the event row, then modules, forks and runs,
which is not the order of the log. An upsert that finds its row leaves the
status alone; an update that finds none, or a creation that a key of the schema
forbids, is refused and dropped. The keys are those of
`packages/db/prisma/schema.prisma`: the parents of a fork or a run (`References`) and
`@@unique([name, version])` of a module (`Unique`). `NameOf` gives what no two rows may
share: of a module its name and version, which are `unknown` and `0.0.0` where the log has
none, and of a fork or a run its own id. The schema has no table for events and
checkpoints and lacks columns and an enum value that the indexer writes (`Module.status`,
`Module.manifestSha256`, `Fork.status`, `CREATED`); the model takes the tables as the
indexer's code does. A slot or checkpoint is a number or `None`
(JavaScript's `null`), and slot 0 is as false as `null`. The constants 50, 100
and 200 of the code are `Window`, `BackWindow` and `TxCap`. The checkpoint
`logs`, which nothing resumes from, tells the properties where indexing began; `backfill`
reads and saves it in two awaits (`BackfillReadLogs`, `BackfillLogs`).
The program's own events are in another format than the lines the parsers look
for; chains here are made of the lines the parsers recognise.

A call that fails is an empty result, and so a slot may be passed over or a checkpoint
overwritten; `NoLostTransaction` and `Converged` are about behaviours up to the first
failing call, and about the first `TxCap` transactions of a slot. What is lost otherwise
is what the code loses.

`Converged` compares the tables with the log by the positions of its lines (`Lines`,
`Line`, `Later`): `SaidBy` is the status a row was created with or the last one it
changed to. The code cannot know a row whose creation it never saw (before indexing
began, or after the first `TxCap` transactions of a slot), and so the property is about
the sets of rows it could follow: `Followed` sets are those of which it took every
line, which refer to no row outside the set, and of which each was created before any
other row of its name and version: the database refuses the later ones (`Rivals`), and
with them what refers to them, which is therefore in no `Followed` set.
`CreationsAssumption` says that creations logged for one id are alike, name and version
included (`NameOf` is a function of the id): an id is the address of an account, which
`Registry` creates once, and `upsert` creates the rows of a table with one status
(`services/persist.ts:37`, `:62`, `:83`). `ProgramOrder` says that a row belongs to one
table and that what a line refers to was created before it, as `Registry` does; TLC
evaluates it on the chains of every indexer run (`OrderAssumption`).

### ObjectStore and Api

A content stands for its hash and so for its key. `writeFile` truncates the file
and writes it in pieces (`Pieces`), each at its own position, so a file is the set
of the pieces it holds and two requests that put one object interfere only through
the truncation. `cut` remembers which objects a failed write or a crash left
unfinished. In `Api` a request's `pc` names the await it is at: the object
(`Store`, `StorePiece`, `Stored`), the rows it looks up (`FindModule`,
`FindFork`), the insertion, the queue. A request that inserts a row gives it its
own name as id. A failing call (`Fault`) refuses the request, and an insertion or
a job that fails may still have happened, its answer lost. The schemas reject a
malformed body before anything happens; `Bodies` says what each request may ask
for. `Queued` is whether `REDIS_URL` is set.

### Sandbox

One worker calls `runSandbox` again and again. `pc` is where the call is: the
files (`Stage`), the child (`waiting`), the `finally` (`removing`). The child is
any program: it writes to its two pipes while they have room, leaves descendants
that hold them (`held`) or have their output redirected (`detached`), and exits when it
likes, or never. A descendant that holds the pipes may close them and run on
(`DescendantsEnd`). Nothing waits for a detached one or kills it: it outlives the run,
the wall time and the directory, until it ends by itself or the container does. What
programs do to the file system is not modelled, so that a directory is removed or
`rm` fails, whatever runs in it. The worker reads chunks
(`Collect`), and the timer fires (`Timeout`), at any moment; `Kill` finds a child
that runs or one that has ended. Node's `close` comes when the child has ended and
both pipes are at their end, and that means that no descendant holds them. `spawnPlain` and
firejail's `spawnAndCollect` are line for line the same; killing firejail leaves
its own child as a descendant. A crash, or a program that cannot be started (an `error`
event without a listener), ends every process of the container and
leaves its `/tmp`. `Marker` is the length of `\nOUTPUT_LIMIT_EXCEEDED`, which
counts against the limit again. Time is not modelled: the timer may fire at once.

### IndexerWs

`STREAM_MODE=websockets` has the boot of `Indexer` (`Backfill`) and then a
subscription. `WsConfirm` confirms a slot and starts a callback for each of its
transactions in each subscribed instance (`CallbacksOf`); `calls` holds the statements a callback
has left, and `Callback` executes one, of any callback: that is how they mix at
the awaits. A notification may be lost with the connection (a `Fault`), a
statement may fail and is dropped. The two copies of the callback in the code, with
a program id and without, are one. `heard` and `calm` are there for the properties: it is
calm until callbacks overlap, a call fails, a notification is lost, a process dies, or a
boot saves a checkpoint after a callback was told something, which could take it back.

### Worker

The loop pulls one job at a time; `step` is where its processor is. A payload is
valid or not, an artifact is its content, which stands for its key, and is absent,
cut or whole; `PackOpen` truncates, `PackWrite` writes. A bundle is JSON, and a
proper beginning of a JSON object is none, which is why a cut artifact does not
parse. A run goes through the actions of `Sandbox`. Only the demo seed fills the
queue in the code; the queues of the run exercise every processor, in the order in
which failures and leftovers matter. A crash, or a program that cannot be started,
empties the queue and keeps the files: the jobs behind the one in hand are lost, and
`JobsServed` excepts it.

### Agent

A tick works on a copy (`local`) of the loop's state (`state`), as `step` does with
its `{ ...state }`; `Complete` replaces the state, `Throw` drops the copy. What is
observed and summarised is represented by the number of the tick. A thinker is
heuristic or asks the model: the request is sent, has headers, is answered, fails,
or is aborted by its timer, which covers the body. An answer is any plan or
suggestions of a set, usable or not. Whether the endpoint or the prompt file is
there is left open at each request. `NuttooClient` (`packages/sdk/src/client.ts:11-64`)
has neither `createModule` nor `createFork`: with publishing allowed and a module to
publish, `publish-module.ts:27` throws before there is a promise for its `.catch`, and
the tick with it (`Publish`). Without a module to publish nothing is published, and
every suggestion is passed over for want of a module id (`Propose`). The sources'
requests have no timer of their own in the code; that they end is `fetch`'s default
timeouts. `HEARTBEAT_EVERY_TICKS`, `maxActionsPerTick` and `allowNetwork` are read by
nothing and not modelled.

### EnvFiles, Wallets, Idls, Release, Workspace

`EnvFiles` has one action per command, because a command reads at most one file and
writes it whole: the three scripts differ in their defaults, their checks and what
they merge, which `DevEnv`, `ProdEnv` and `Issues` keep. A value keeps what a check
looks at: its kind, host or length, a number, its quoting. Quotes are not the
identity through a file: those around a value are stripped, and one inside gains a
backslash at every merge (`Reread`). `Wallets` and `Idls` have one action per call
of the file system or of a tool, and `solana-keygen` and `anchor build` act beside
them. `Release` writes VERSION files one after the other. Of the commands that take
several steps, `create-test-wallets` runs in several terminals at once; one `export-idls`
runs at a time, beside `anchor build`, and one `version.ts`, beside commits and tags. (Two
`export-idls --force` at once can leave an index with a hash of the other's copy.) In
`Workspace` the four families of commands share no file, so a behaviour follows one `family`: what one
does is not changed by the steps of the others, and the product of their states
says nothing more.

## Runs

| Run | Shows | Bounds |
|---|---|---|
| `registry` | counters, run counts, references, policy; refinement of `Ledger` | two keys, each an authority and a signer, one module and fork id per registry, two run ids, three metadata (good, one that outgrows its account, blank name), two policies, counters up to 3; the clock stands still; symmetric keys |
| `registry_clock` | type invariant, saturation, timestamps | one key, two modules, two runs, counters that saturate at 1, three instants |
| `registry_version` | finding: a version is not immutable | as `registry`, no symmetry |
| `indexer` | types, convergence, catching up under fairness | one instance, four chains of nine slots with logs in and out of table order, a slot with more transactions than are looked at, and a second module of one name and version after, beside and before the first; two crashes at any step |
| `indexer_overlap` | no transaction behind a checkpoint is lost; no row dangles | two instances, one crash and one failing call at any step, five slots |
| `indexer_ws` | what was heard is stored, the logs checkpoint, convergence of callbacks that do not overlap, references | one instance, two chains of five slots (two transactions in one slot, one without events, a namesake of the module), one failing call or one slot's lost notifications, one crash |
| `indexer_slot_zero` | finding: a checkpoint at slot 0 is ignored | as `indexer`, switched on at slot 3 or 6 |
| `api` | objects, rows, lineage, queue | four requests (two modules of one artifact and perhaps one name, a fork, a fork or a run of either), two pieces, one failing call, one crash |
| `sandbox` | results, output, directories, the wait; whole artifacts, every job's turn while the process lives | five queues of up to six jobs, two contents, two runs, one file, two pipes of two units, a limit of one, three units written per pipe, one failing call, one crash |
| `agent` | the memory, ticks that end | four configurations, two names, plans and suggestions one longer than the limits, four ticks (one heartbeat), two kept summaries, one crash |
| `workspace` | environment files, secrets, wallets, index, versions, notes | two files, six overrides, three edits and two commands; two terminals, two wallets, three runs; two programs, three builds, three exports; three kinds of commits, two commits, two commands |
| `sandbox_output` | finding: too much output and yet ok | one run, no faults, no descendants |

Twelve runs, nine that pass and three that show a finding.

Two keys are enough in `registry` for every mismatch of registry, module and
signer; two runs of one module reach the limit of the stricter policy while the
other key counts. Two overlapping instances are what a rolling update of one
replica gives (`infra/kubernetes/deployment-indexer.yml`); one crash is enough to
leave any prefix of a transaction's statements behind, two to do so during the
replay. In `indexer_ws` the chains have a creation and a status in slots that follow
each other, so that callbacks of both orders mix. Four ticks are three that complete, so
that summaries are cut at two, with one that fails before, between or after them. In `workspace` a second
command meets the file of the first, an edited one included, and a third run of
`create-test-wallets` replaces what two have mixed.

**Deadlock** is not checked where the system may stop: every id is used, or the
chain ends and the poller sleeps.

**Fairness.** `Indexer!FairSpec` is weakly fair to every instance's steps and to
its restart: the event loop runs whatever can run, awaited calls answer (with a
result or an error), and Kubernetes restarts the container. Nothing is assumed of
the chain's head or of crashes. `Sandbox!FairSpec` is weakly fair to the worker
and to its timer, and assumes nothing of the program: it may never exit.
`Worker!FairWorkerSpec` is the same with the loop around it. `Agent!FairSpec` is
weakly fair to the loop's own steps and to the timer of `callLlm`, and assumes
nothing of the model: it may never answer, or begin and never end.

### Findings

- `registry_version`: `docs/protocol/module-spec.md:71` says a registered module's
  version is immutable; `instructions/update_module.rs:35` assigns it.
- `indexer_slot_zero`: `stream/polling.ts:31` tests a slot for truth. On a chain of
  at most 100 slots, `backfill` saves checkpoint 0, and the poller starts 50 slots
  behind the head instead of at slot 1.
- `sandbox_output`: `apps-worker/test/sandbox.spec.ts:44` expects a run over the
  output limit not to be ok; `sandbox/container.ts:101` only kills, and a child
  that has exited with 0 by then is reported ok.

Met while modelling, and in no run of its own:

- `apps-agent/src/actions/publish-module.ts:37` logs a module that cannot be published and
  goes on; the client it calls (`packages/sdk/src/client.ts:11-64`) has no `createModule`, so
  the call throws before the handler is attached and the tick fails (`Publish` in `Agent`).
  `apps-cli` makes calls of the same kind (`commands/module/publish.ts:25`,
  `commands/fork/create.ts:30`).
- `scripts/env/gen-dev-env.ts:302` says the URLs reflect the ports "if user updated
  ports"; a port changed on a later run does not change a URL that is in the file.
- `scripts/solana/export-idls.ts:36` calls itself safe to run repeatedly; without
  `--force` a second run dies on the first file it made. `--program` rewrites the
  index with that one program. A file is checked to be JSON by one read and copied
  by another.
- `.github/workflows/release.yml:34` runs `release-notes.ts` on the commit just
  tagged, whose own tag is the last one: the notes are empty. `NotesListTheRange` is
  satisfied by empty notes of an empty range.
- `packages/db/prisma/schema.prisma` lacks tables and columns that
  `apps-indexer/src/services/persist.ts` and `sync/checkpoints.ts` write, and its unique name
  and version of a module refuses a second account that the registry program allows.
- `container.ts:100-116` kills the child and waits for its pipes: a descendant with its
  output redirected outlives the run and its directory.
- `run.service.ts:46` leaves a run `QUEUED` when the process dies or the queue fails after
  the insert.
- `scripts/repo/lint-tree.ts` ends an uncaught error with the code of warnings.
- `apps-cli/src/commands/module/pack.ts:40` writes its bundle into the directory it
  packs, so the next pack holds the last bundle; `publish.ts:26` reads a name and a
  version that a pack never writes, so every module is published as "module" 0.1.0.

## Proofs

A theorem holds for every value of the constants that satisfies the assumptions
named here; a run shows the same property on the instance of its configuration.
Every safety property of the passing runs is proved. Every inductive
invariant was checked by TLC on the run of its module before it was proved.

`RegistryProofs` proves, for any keys, ids, policies and bounds that satisfy
`ConstantsAssumption`, every property of the runs `registry` and `registry_clock`:

- `TypeCorrect`, `CountersCorrect`, `RunCountCorrect`, `ReferencesCorrect`,
  `PolicyCorrect`, `ImplementsLedger`, `TimestampsCorrect`.

They rest on one inductive invariant, `IInv`: the types, that the sets of accounts
are finite (they grow one at a time from none; cardinalities mean nothing
otherwise), the references, the counters and the run counts. The counters need
the references: a new account is counted in its own registry only because the
address it is created at names that registry. The run counts need finiteness and
the guard of `record_run`, which keeps a count below `max_runs_per_module` and so
below saturation. One lemma per instruction shows what it leaves of the invariant.
The refinement shows that every instruction appends one entry, opens a registry
or stutters; it needs the references, to find the module a fork or a run names
among the ledger's entries.

`ApiProofs` first proves `StoreComplete` of the object store, for any number of requests,
contents and pieces. `MissingIsPending` is why: what a file lacks, one of its writers, the one
that truncated it last, has yet to write; the others only help, because their
pieces are the same. It then proves that `Api` does to the objects what
`ObjectStore` does (`ApiStores`), and `TypeCorrect`, `RowsCorrect`,
`LineageCorrect` and `QueueCorrect`, all of the run `api`. What a request does
rests on what it looked up steps before; `Underway` says what it knows at each
step. Every step only adds rows and files (`Grows`), so what one request knows
stays so when another acts (`OthersKnow`).

`SandboxProofs` proves every safety property of the run `sandbox` for any pipe
size, limits and number of runs. The invariant: what is written is in a pipe or
collected (`Accounted`); a child that runs has not been collected above the limit
(`RunningBelowLimit`), because the chunk that passes it kills, so that what is
collected and in the pipes is bounded at that moment and only moves afterwards;
nothing holds the pipes after the wait (`WaitOver`); `Directories` says where the
directories are at every step. `CleanupCorrect` says that the child has ended between runs,
nobody holds its pipes, and only crashes and a failed `rm` leave a directory; it says
nothing of detached descendants, which may run on.

`IndexerProofs` is about the indexer in both modes, for any chain, windows, number of
instances, failing calls and crashes.

- What a scan puts to work is built by flattening sequences of sequences, a recursive
  definition. `SetInduction` (a set of numbers with 0 and all successors is `Nat`, from
  the library's `WFMin`) takes the place of the induction theorems the provers cannot
  instantiate; `InFlatten` and `InStatements` follow: a slot's work has the statement
  of every transaction that is due and none that the chain does not log.
- `IndexerInvariant`, `TypeCorrect`: the types, confirmed slots only, and work that was
  logged (`FromLog`).
- `ReferencesCorrect` and, over the websocket, `WsReferencesCorrect`. The invariant is
  about creations the chain logs (`ReferencesInv`): one whose row is stored has its
  parents stored. A second creation of a stored row is a no-op, so both must name the
  same parents: that is `CreationsAssumption`, which `Registry` justifies, because an id
  is an account's address and an account is created once. A creation that the unique name
  and version refuses stores nothing.
- `NoTransactionLost`, while no call fails and for the first `TxCap` transactions of a
  slot, under two hypotheses. `PastTheWindow`: the cluster is past its
  first `BackWindow` slots; otherwise backfill saves checkpoint 0, which is no
  checkpoint (`indexer_slot_zero`). `OneBegins`: a database without checkpoints is
  begun by one instance, for two that seed it at once may start from different slots;
  one that has checkpoints may be polled by any number. Invariant: before the logs
  checkpoint exists, the only instance is in backfill and will start both at one slot
  (`FirstBootInv`); after that, the checkpoint, what a poller has in `last` and the slot
  before the one it scans have everything behind them stored, and a slot being written
  is stored or still in work (`BegunInv`). A crash loses the work and the claim together.
- `WsInvariant`, `HeardCorrect`, `LogsCheckpointCorrect`: a callback has stored its
  transaction or has not begun (`HeardInv`); a checkpoint the boot writes is `BackWindow`
  slots behind the head or more (`BehindInv`), so that a closer one is a callback's.

`ConvergenceProofs` is about what the tables become, which depends on the order of
everything: of the lines in the log, of the statements, of what a crash left behind.

- `ConvergedCorrect`: `Converged`, for any chain in the program's order, windows, crashes
  and failing calls (the property is about the time before the first one). Hypotheses:
  `ProgramOrder`; `PastTheWindow`, as above; `OneInstance`: two that overlap write the
  slots of one behind those of the other, and a status may go back until the slower has
  caught up.
- Looking at what is written does not tell whether the rest will be right, so the
  invariant looks ahead. `AheadRow` says of a list of statements that it will leave a row
  with a given status: what it changes it creates before or finds, what it creates has
  its parents before, no row of its name and version is created before it or is there
  (`Free`), and its last change has that status, or else its creation, or else the row. A statement leaves the rest ahead (`AheadStep`) and an empty list means the
  row has the status (`AheadEnd`). That the parsers and `persistEvents` make such a list
  of a slot, although they reorder it by table, is `AheadStart`: it follows the last line
  of a row through `FlattenSeq` (`LastWritten`), what it comes after (`CoveredWritten`), and
  that a row which is first of its name is written before its rivals (`WrittenFirst`,
  `FollowedEarlier`).
- A crash throws the list away in the middle. `AfterRow` is what holds of a row then: the
  row is as it was, or has what the half-written slot created, or the slot has another
  change for it; and that is enough for the list of the whole slot to be ahead again.
  `ConvergingInv` says that the checkpoint's slot is settled in this sense and that what
  an instance has to write is ahead; before indexing began the tables are empty.
- `ConvergedCalmly`: `ConvergedWhenCalm`, for any number of instances, under
  `ProgramOrder`. While all is calm there is one callback at most, of a later slot than
  those that ended, with statements ahead of everything that was told and the checkpoint
  last (`CalmInv`). A slot that is confirmed then either starts the only callback or
  tells nothing and has no transaction. A boot that saves a checkpoint over a callback's
  ends the calm, by its definition: with several instances the code allows it.

`WorkerProofs` proves `ArtifactsCorrect` and, with the lemmas of `SandboxProofs`, that
the sandbox keeps all its safety properties when the job loop calls it
(`SandboxCorrect`). The
invariant relates the step of a processor to what it has read: a content that parsed
was whole then, and stays so unless it was packed again (`retaken`).

`AgentProofs` proves `MemoryCorrect` from `AgentInvariant`: what a tick knows at each
step of the copy it works on, which has its own summary from the step that pushed it, and
that the loop's state has nothing of a tick before it completes.

`WorkspaceProofs` proves every property of the run `workspace`: `ProductionEnvCorrect`
(what the operator set and what the merge and the defaults give pass the checks both
scripts share), `SecretsCorrect` (an action property), `WalletsCorrect` (a key listed by
a run is in its file and is the one this run generated, or a run with `--force` has removed
the one or the other, at every step between `solana-keygen` and the report; without
`--force` it follows that no two runs report one file),
`IdlsCorrect` (what is hashed is what was copied), `VersionsCorrect` (a strict version
names its commit) and `NotesCorrect`. `WalletsAssumption` says that the number of wallets
is a number.

Model-checked only, with fairness: `CaughtUp`, `WaitEnds`, `JobsServed`, `TicksEnd`.
Liveness and ENABLED are beyond the prover. So is induction through the library's
induction theorems; where a proof needs induction over a length, `SetInduction` stands
in for it.

## Not modelled

The other components, with the reason, are in `PROJECT.json`.

- Without a caller in the repository: the queue package (the API imports a
  `createQueueClient` that it does not have), the module kit, the repositories of
  `packages/db`, `ArtifactStore.delete`, the agent's `run-module.ts`, `blob.ts` and
  `cache.ts`. There is no use of them to model.
- `scripts/db`: the Prisma CLI over two models the schema does not have.
- What a program does to the file system, and a client method that does not exist beyond
  the throw it causes.
- Stateless or read-only: CLI, web, the API's plumbing, `lint-tree.ts`, `tree.ts`,
  metrics, the other packages; stubs (`geyser.ts`,
  `packages/solana`); the older copy of the worker (`nuttoo/worker`, `worker`).
- Inside the modelled scripts: `--require`, `--to` of `release-notes.ts` (the range ends at
  the head), printing, the order of keys. Assumed: a hash tool is installed (without one
  `export-idls.ts:173` writes an empty hash), short commit hashes are distinct, no commit message holds
  the separator of `release-notes.ts`, and the commit of the CI's variables is the
  one checked out.

## Plan

Done: `Registry`, `Ledger`, `Persist`, `Indexer`, `IndexerWs`, `ObjectStore`, `Api`,
`Sandbox`, `Worker`, `Agent`, the scripts' modules, and the proofs above.

Worth stating next: that two polling instances which overlapped converge once one of them
is gone and the other has written past the slots of both, and the worker's and the
API's queues as one, should the API's `createQueueClient` come to exist.
