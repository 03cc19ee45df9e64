# Verification of Prime Claw's Episode lifecycle

Prime Claw lets a *Conversation* (a Prime Agent session in the primary checkout) hand one
reviewed task to an *Episode*: a worktree, a branch, one Prime Agent session and one execute
assignment. The code that does this is in `src/prime-agent-plugin` (TypeScript tools and
extensions). Several Conversations run in separate processes and share a project directory; the
daemon, Orca, Git remotes, the Episode's own agent and people act at the same time. Everything
that survives a process is a file or a resource in one of those systems, and every operation
follows the same rule: record the intent, do one external operation, record what it returned,
never blindly repeat an uncertain one (`docs/design-decisions/DD-004`).

## Inventory

| Component | State | Operations | What must hold |
|---|---|---|---|
| Ownership registry (`extension-support/episode-ownership.ts`, `episode-close.ts`) | `.prime-claw/ownership.json`, two directory locks | write, guarded remove, provider switch, guarded deletion, rollback | one live Episode per Conversation, task, Backlog path and folder; no entry lost; a provider switch is all or nothing |
| Task ownership transitions (`task-episode-ownership.ts`) | entries of the registry | reservation (three forms), folder-to-task transition, Beads evidence advance | nothing is written for an entry that changed meanwhile |
| Task Episode creation (`spec-episode.ts`) | entry, native task status, worktree, automation, run, session, tab | admission, allocation, launch, binding, continuation, reopening | no duplicate worktree, launch or assignment; what exists can be found from the entry |
| Task Episode cleanup (`spec-episode.ts`, `task-episode-cleanup.ts`, `task-history-workspace.ts`) | session tree, nested clone, remote branch, worktree, local branch, entry | inspection, five removals, release of ownership | ownership goes last; only confirmed commits and clean bytes go; a retry can go on |
| Episode handoff (`spec-episode.ts`, `workflow-chain.ts`, `handoff-chain.ts`, `prep-chain.ts`) | route and evidence in the entry, two prompts | prepare, admit first prompt, commit evidence, admit follow-up | a prompt is never sent twice; evidence is committed when the first was admitted |
| Daemon client (`DaemonJsonlClient`) | connection, pending requests | connect, request, acknowledge, fail | a request ends once; a mutation without an answer is reported uncertain |
| Task history (`task-history-workspace.ts`) and providers (`task-providers.ts`) | nested clones, their remote and local branch, the configuration at the root, Beads stores | prepare a checkout, prepare an Episode's worktree, observe, publish one task | the published history only grows and reports about it stay true; local work is neither lost nor published unasked |
| Provider migration (`task-provider-migration.ts`) | source and destination stores, receipt, layout, registry | inspect, copy, publish, switch, delete source, recover, roll back | the source goes only when every task has its complete published copy and, at that moment, no live entry names it; a report of failure means nothing is switched |
| Project initialization (`project-initialization.ts`, `template-review.ts`) | template files at two places, manifest, reset intent, review evidence, pid lock | reconcile, migrate from the old place, accept, reset, keep, restore, recover a stale lock | one run at a time; a text somebody wrote is not replaced unasked; an interrupted reset is completed or discarded |
| Goal continuation nudge (`goal-continuation-nudge.ts`) | last continuation seen, a counter | context, clear | a reminder only after enough rapid continuations |
| Reviewed-plan tools, oversight, prep chain | none of their own | wrappers | - |
| Launcher, scripts, images, policies | containers, services | shell | - |

The components meet in three places: the registry (all of them read and write it), the daemon's
session list, and the task's native status. What makes the system hard is that nearly every
decision is made from something read before an `await`, a lock or a process boundary.

## Modules

| Module | Models |
|---|---|
| `OwnershipRecords` | records of the registry and the predicates of `episode-ownership.ts` |
| `OwnershipRegistry` | abstract specification: `Put`, `Remove`, `Switch`, `Rollback`, each atomic |
| `EpisodeOwnership` | the registry as it runs: decision outside the lock, `mkdir` lock, read-check-compute, `rename`, `rmSync`; deadlines and deaths |
| `EpisodeCleanup` | `finalize_task_episode` with everything that can happen beside it |
| `EpisodeCreation` | `create_task_episode`, new or continued |
| `EpisodeHandoff` | `handoff_task_episode` and `handoff_spec_episode`: two preparations, two prompts, the callback between them |
| `DaemonCommands` | abstract specification: each command is reported once and truthfully, and acts at most once |
| `DaemonClient` | `DaemonJsonlClient`: connections, handshake, timers, responses, `failAll` |
| `TaskLog` | abstract specification: one published set of commits that grows, and claims about it that are true for good |
| `TaskHistory` | preparation of a checkout and of an Episode's worktree, observation and publication of a task, for the three kinds of store |
| `ProviderMigration` | `migrateTaskProvider` from Beads to Backlog, with creations, edits and the operator beside it |
| `ProjectInitialization` | the template assets, their manifest and the project mutation lock |
| `...Proofs` | theorems about the module they are named after |
| `MC...` | model values and symmetry for TLC |

The specifications compose through what they share rather than through one product state space.
`EpisodeCreation`, `EpisodeHandoff` and `ProviderMigration` each see the ownership entry as the
atomic registry that `EpisodeOwnership` is shown to implement; the daemon of `EpisodeHandoff` is
the one whose client `DaemonClient` describes (a prompt is written once, and its caller may give
up before the daemon acts); the commits of a handoff or a creation are publications of
`TaskHistory`, whose effect on others is `TaskLog`.

**Ownership.** A process is a Conversation, since its tools run one at a time. `Begin...` is the
caller's decision from an unlocked read; the result is carried in `op` and checked again inside
the lock exactly as far as the code does (`Accepts`): `writeEpisodeOwnership` compares nothing but
the binding, removal and evidence advance compare the whole record, the provider switch compares
every live task entry, deletion and rollback the whole registry. `Compute`, `Publish` and
`Release` are separate because a process can die between them. A crash forgets `op`, `next` and
`undo` and leaves `lockDir`. Fields that are neither identity nor status are one `content`.
`migrateTaskProvider` accepts one direction only, hence `SourceProvider` and `TargetProvider`.

**Cleanup.** One invocation is a sequence of steps that break at every `await` at which something
else can act: an inspection is `ReadGit`, `ListSessions`, `ReadStates`, `ReadRemote`; a session
removal is `CheckSession`, `KillSession`, `DeleteSession`. `why` says which inspection of the code
it is. The snapshot keeps what the callers read: which resources are present, idleness and
cleanliness. Any throw ends the invocation and its memory (`memo` is the adapter's
`resolvedUpstream`), and it can be invoked again. Outside it, sessions wake, rest, fork children,
are closed and opened again; a busy one edits, commits, pushes and edits task history; the host
may delete the merged branch. Orca's forced removal may also delete the branch and its
configuration, as the comments in `task-episode-cleanup.ts` say, and may fail before or after it.
The daemon is taken to refuse to delete the history of a running session. `Elsewhere` are the
descendants whose working directory is not the worktree: the code finds a live session by its
directory or by a listed parent only, so one of them that has lost its parent is found by nobody.
`OwnershipRemovedLast` therefore speaks of sessions in the worktree and of everything else the
Episode owns; the theorems hold for any `Elsewhere`.

**Creation.** `entry` is the durable record, `record` the invocation's copy, `made` what exists
outside. `Marks` are the identities a record can hold. Every external operation may fail before
it acts (`Broken`), or act and lose its response (`Then`); every write may fail (`Save`), and so
may the write of `markUncertain` (`Fail`); the process may die anywhere (`Crash`). A run that Orca
accepted starts a session later (`Starts`) and shows its tab later still (`Shows`), whether or not
anybody waits for it. `Visit` opens a session in the new worktree that Prime Claw did not launch.
`Resume` is the explicit continuation of an operation, with or without a session to bind.

**Handoff.** `mode` is the kind of entry, which decides the path: folder and Backlog-in-branch
entries are prepared once, published Backlog and Beads entries twice with an observation of the
provider between. `record` is the entry as a preparation carries it through its awaits, `prepared`
what the first one returned (`preparedRecord`). A prompt is a message on `wire`; the daemon handles
it whenever it likes, refuses it on another route or, for the first one, on a busy session, and
the caller may have stopped waiting. `result` keeps the error classes apart that the tools report
differently: a plain error, an uncertain first or second prompt, a rejected follow-up, a failed
callback. The Beads commit is one locked mutation, the Backlog one a comparison and a write.
`Migrate` and `Restore` are the switch from Beads to Backlog by another process and its rollback,
seen from this entry; a published entry may be the result of a switch that can still be undone.

**Daemon client.** `connect` returns at once while the field is set, so a socket that was refused
or lost is never replaced; `close` clears the field and the socket's own events come later, which
is why sockets have a state of their own. `failAll` is shared by the events of all sockets.
Requests may overlap and may follow `close`, more than the publishers do. Lines are whole
messages. A mutation without an answer is reported uncertain; `DaemonCommands` says what that and
a plain failure promise.

**Task history.** A history is the set of its commits, an ancestor a subset, a missing ref the
empty set. A commit has a task and the number of the edit whose bytes it holds; who made the edit
is kept aside, so that a commit of an agent's draft is visible. Every native command is a step:
fetches, merges, pushes, clones, the two steps that replace the root configuration by a link.
`Interrupted` and the second outcome of a push or an edit let each fail before or after it acted,
or the process die anywhere, and the next invocation starts from what is on disk. `Init` ranges
over what earlier days and other hosts have left: branch and clone that agree, lag, lead or
diverge, a clone of another kind, a configuration as file or link. `Draft` is an agent's edit,
`HostPublishes` a push by another host.
`Selected` are the tasks that operations are asked to publish. `CanForward` is what
`git merge --ff-only` accepts: a clone that already has everything is "already up to date" and
goes on unchanged, one behind is moved unless a change is in the way. `InTheWay` says the same of
the state alone, so that `CalmPrepared` does not rest on the guard it is about: an Episode's clone
that is merely ahead of the published branch, as a failed push leaves it, is no obstacle.

**Provider migration.** A source revision is the version of every task; `confirmed` is the one the
operator has seen. A destination is a set of records, each with the stage its creation reached:
created, marked with the mapping comment, complete; a record with comments of two migrations is
`mixed`. `work`, `head` and `remote` are the working tree, the commit and the published history.
An invocation captures the source, looks for an earlier destination, creates, marks and places
copies, writes a receipt, commits, pushes, verifies, switches the registry under the lock, deletes
the source under the lock, and publishes the layout. `Recover`, `Restore` and `Select` are the
error path after the switch. Beside it, `Edit` changes the source, `Detect`, `Admit`, `Reserve` and
`Activate` are an Episode creation with its provider choice, `Discard` and `PublishWork` the
operator in the destination clone. `unseen` holds the tasks edited after the last look at the
source, which the code cannot save.

**Project initialization.** A content is a number: no file, a version of the template, or a text
somebody wrote. The lock file is created before its record is written, a stale one is removed
under a recovery marker, and a process is dead when no run has its number. A reconciliation mends
a pending intent, looks at each asset and decides, then replaces files and at last the manifest;
`Mend`, `Redo` and `Recover` are the completion of an interrupted reset. `link` keeps the three
stages of moving an old directory. People edit without the lock; `late` holds what they wrote or
replaced after the run in progress had read the asset, in the one place they edited, and `asked`
the texts a reset was told to replace, because the code promises nothing about either. `dropped` holds the assets whose file somebody has removed
during the run in progress: the reconciliation that recovered its interrupted reset then finds no
file and takes the copy at the old place, even if that has the text the reset replaced. So
`ResetSettled` speaks of the text of an asset whose file nobody removed meanwhile.

## Runs

| Run | Bounds | Shows |
|---|---|---|
| `ownership_safety` | 2 Conversations (1 migrates), 2 tasks, 1 path, 1 folder, 1 Episode | uniqueness, exclusion, guarded deletion, refinement of `OwnershipRegistry`, nobody waits for ever |
| `cleanup_safety` | root, child, grandchild, all in the worktree; 2 heads; 3 disturbances | ownership last, refs and bytes kept, remote identifiable |
| `cleanup_liveness` | root, child, grandchild that runs in another directory; 2 disturbances | repeated invocations end |
| `cleanup_clone` | root, child; 2 disturbances | finding 1 |
| `creation` | 2 Conversations, 1 task, 2 launched sessions, 1 visitor, 2 disturbances | no duplicates, evidence, assignments, completion |
| `creation_admission` | as `creation` | finding 2 |
| `handoff` | 4 kinds of entry, 2 invocations, 3 disturbances | order of prompts, truthful reports, evidence after admission, switches kept, completion |
| `handoff_route` | published and Beads entries, 1 invocation, 2 disturbances | finding 3 |
| `daemon_client` | 1 query, 2 mutations, 2 connections | reports, acknowledgements, handshake, refinement of `DaemonCommands`, every request ends |
| `task_history` | 3 kinds of store, 2 processes, primary checkout and 1 worktree, 2 tasks of which 1 is published, 5 edits (3 of them initial), 2 invocations, 1 disturbance | refinement of `TaskLog`, local work kept, drafts stay local, what is published is the file's content, calm preparations succeed |
| `migration` | 2 processes, 1 task, 2 Conversations, 1 edit, 2 invocations, 2 disturbances | no task and no live Episode is lost with the source, entries name copies that exist, reports are true |
| `initialization` | 2 processes, 1 asset, 2 template versions, 1 edit, 3 runs, 1 disturbance | one run at a time, texts kept, resets settled |

Why the bounds are enough. Two Conversations and two tasks contain every collision of a pair, and
all checks of the registry are pairwise; the proofs remove this bound. Three levels of sessions
are the least in which a planned descendant, a fork during the removal and a surviving grandchild
occur together. A *disturbance* (`MaxTrouble`) is a failure, a crash, a wake-up, a reopening or a
visit; two in creation give a failure followed by a failed or lost reaction to it, three in
cleanup a wake-up, an interruption and a reopening in one behaviour, three in a handoff a session
closed and opened during a migration. A second invocation of the handoff meets prompts the first
one left behind. Two connections are what an event of an old socket beside a current one needs;
the proofs remove the bounds of the client, of the handoff, of the cleanup and of the creation. In
the task history two
invocations give two that overlap and one that finds what another left; three of the five edits
are the history `Init` starts from, the remaining two a draft and the tool's own, or two edits of
one file; the proofs remove these bounds for all six properties. In a migration the
second invocation is the concurrent one or the retry, two disturbances a failure followed by a
failed reaction or by a step of the operator. One task and the receipt are two records that are
created one after the other, so that partial destinations occur, and no step relates two tasks
except through the completeness of the whole set; the proofs remove these bounds too. In the
initialization three runs are an interrupted one, the one that
recovers its lock, and the one that finds what both left; assets are independent except for the
lock and the manifest. All three properties are proved for any processes, assets, versions and runs.

Actions that need no disturbance (rest, fork, work, exit, host deletion, late starts) are unbounded. Deadlock is
checked in the ownership and creation runs; everywhere else the system may stop: a released
Episode is the end of a cleanup, and the others end when their bounded calls are over. Processes,
tasks, Conversations and assets are symmetric in the runs of task history, migration and
initialization, which check no liveness; no run with a liveness property uses symmetry.

Fairness. `EpisodeOwnership`: code inside the lock is synchronous, and a waiter polls every 10 ms
until its deadline. A process that dies keeps neither promise: `Crash` disables both.
`EpisodeCleanup`: the tool goes on while it is enabled, which includes being invoked again by the
Conversation, and a busy session comes to rest; `CleanupCompletes` claims nothing while one of
the named obstacles (`Blocked`) remains. `EpisodeCreation`: a live invocation goes on, Orca starts
a run it accepted and shows its tab; `CreationCompletes` claims nothing after a disturbance.
`EpisodeHandoff`: a live invocation goes on and each request has a timer (`StopWaiting`); nothing
is assumed of the daemon. `DaemonClient`: the three timers fire, and nothing else is assumed.
The other specifications state no fairness: their operations end when the native commands they
wait for do, which the code does not bound. What a preparation or a handoff achieves when nothing
interferes is stated as an invariant there (`CalmPrepared`, `CalmAdmitted`).

## Proofs

`EpisodeOwnershipProofs` proves for all values of the constants, from `OwnershipAssumption` (the
absent field and absent entry are not values) and `MigratorsAssumption`:

* `TypeCorrect`: `Spec => []TypeOK`.
* `MutualExclusion`, `BindingsUnique`, `DestructionSafe`: the three safety invariants of the run.
* `Refinement`: `Spec => ImplementsRegistry`; every `Publish` is one operation of
  `OwnershipRegistry`, everything else a stutter.

None of the three invariants is inductive. What a process has computed is only right because
nobody published since: the inductive invariant says, for each process inside the lock, that its
`next` is the accepted result on the *current* registry, that the registry is unique, that a
process destroying the source has the registry equal to its `undo.after`, and that
`undo` is a real switch. Exclusion is what preserves these facts when another process steps, so
the lock invariant is proved first and the rest rests on it. The refinement follows because
`Publish` is the only step that changes the file and, by the invariant, what it writes satisfies
the abstract operation chosen by `op.kind`.

`DaemonClientProofs` proves for all requests and any number of connections, from
`ClientAssumption` (mutations are requests, nobody is not one): `TypeCorrect`, `Acknowledgements`,
`Negotiation`, and `Refinement`, `Spec => ImplementsCommands`. The inductive invariant follows one
command: before it is written there is no trace of it (`Unsent`), it is written to one socket only
and is gone there once it was handled or answered (`WrittenOnce`), and a mutation that was
reported as failed is nowhere (`FailedUnsent`). Without these a command could be reported as
failed while a copy of it is still on its way. Steps fall into two groups, those that write a
waiting request and those that settle requests without an answer; one lemma for each (`WriteStep`,
`MoveStep`) carries the invariant through timers, refusals, lost connections and `failAll`. In the
refinement, `Handle` is `Apply` or a stutter and every other step is one `Report`.

`TaskHistoryProofs`, from `TaskHistoryAssumption`: `Typed`; `Published`, `Spec =>
ImplementsTaskLog`; `WorkIsKept`, `Spec => LocalWorkKept`. That reports stay true is not inductive:
a report is made from what an invocation read several commands ago. `HistoryInv` therefore adds,
for each step of each process, what it knows there and nobody can make false (`Placed`: what it
has seen of the remote is still part of it, a history to advance to contains the branch, the
clone it works in exists), that the ordinary and Beads stores are there (`OwnStore`), and that
claims are part of the remote. Because histories only grow, `Placed` survives the steps of others;
one lemma (`Moves` and its kin) carries it through every step that moves one process, and each
group of steps then only says what it reads and writes.

What the histories *contain* is a second invariant on top, `WrittenInv`, from which follow
`DraftsKeptLocal` (`DraftsStayLocal`), `EditsPublished` (`EditPublished`) and `ConfigPublished`
(`RelocatedConfigPublished`). A commit's number is that of an edit, and in no history is it an
agent's edit of a task nobody asked to publish (`Written`); a task file in a clone is never older
than the last commit of that task there (`Ahead`); and an invocation that has edited a task knows
where its edit is: in the working tree, then in the clone, then in the head it pushes and reports
(`Fits`). `EditPublished` alone would not survive the commit of another session between the edit
and the reading of HEAD; it does because work and heads only grow. The content of a file is the
*largest* number among its commits: that a bounded set of numbers has one (`Largest`) comes from
the well-foundedness of `<` in the library, by a smallest counterexample.

`CalmInv` is for `CalmIsPrepared` (`CalmPrepared`): while nobody interferes, everything the
preparation has read still holds (`Calmly`: the remote it saw is the remote, the tracking ref
agrees, the clone it compares is there, a merge of the primary can forward, the root configuration is in the
stage it left it in), so that the only ways to be blocked are the ones `Preparable` names.

`ProviderMigrationProofs`, from `MigrationAssumption`: `MigrationTyped`; `Stranded`, `Spec =>
NobodyStranded`; `Truthful`, `Spec => ReportTruthful`; `Lossless`, `Spec => []NothingLost`;
`CopiesFollowed`, `Spec => []OwnersFollow`. The inductive invariant has three layers. `CutoverInv`
is about the switch: invocations have numbers of their own; from the switch on an invocation
remembers both registries, the first entirely on the source, the second on Backlog (`Remembered`);
an entry with the number of a running invocation was switched by it, and the invocation knows
(`SwitchKnown`), so that an error path never takes a switched registry for an untouched one;
whoever deletes holds the lock alone and the registry is still on Backlog (`Deleting`).

`RecordsInv` is about the destination: records are numbered without gaps, the complete ones of the
published history are in the commit and those of the commit in the working tree (`Layered`), an
invocation maps each task to a record of that task (`Knowing`, `Claims`), no record was created by
two invocations (`Apart`), and the record to be marked is the last one its invocation created and
still bare (`Fresh`). Two migrations at once make this necessary: each counts the records of a
store the other one writes to. `CopiesInv` then says what is published: while the source is being
removed and after, the published history has a complete copy of every task, as the task is now
unless somebody edited it after the last look (`Saved`); from the last look to the switch it has
the copies that the entries are going to name (`Published`), and each entry on Backlog names such
a copy (`Following`). Complete copies are never taken out of it (`RemoteGrows`).

`ProjectInitializationProofs`, from `InitializationAssumption` (two markers are not records):
`Excluded`, `Spec => []LockExclusion`; `InitializationTyped`; `CustomizationsKept`, `Spec =>
CustomizationKept`; `ResetsSettle`, `Spec => ResetSettled`. `LockInv`: runs have numbers of their
own, the number a recovering process found in the lock file is that of a dead run (`StaleIsDead`),
and whoever is between taking and removing the lock has its number in it (`Held`). The second
check of a recovery, under the marker, is what keeps `Held` when two processes recover the same
file. `RunsInv` says what a run knows of the asset it is at (`Knows`) and of a pending intent
(`Recoveries`). Other runs cannot make it false, since the lock keeps them out; people can, as
they edit without the lock, and the code compares contents before it replaces or removes: they can
only turn what the run has read into something that may go, an upstream text, one a reset was
told to replace, or one written too late to be seen (`MayGo`). For a recovered reset, file and
entry of its asset stay as the reset wants them from the run's own write until the intent is
removed, whatever is reconciled between.

`EpisodeHandoffProofs`, from `HandoffAssumption`, for any number of invocations: `TypeCorrect`;
`Ordered` (`ExecuteFollowsHandoff`); `Truthful` (`ReportTruthful`); `EvidenceLast`
(`EvidenceAfterAdmission`); `SwitchStays` (`SwitchKept`). `HandoffInv`: a prompt is under way once,
and neither admitted nor answered meanwhile (`Traces`); what the invocation knows of its own
prompts from where it is (`Progress`); every copy of the entry that may be written back, the
migration's two included, has only evidence of an admitted prompt (`Copies`); which switches can
still be undone (`Switches`); evidence is recorded from its verification on (`Recorded`); and each
`result` has its reason (`Outcome`). `CalmIsAdmitted` (`CalmAdmitted`) needs another one on top,
`CalmInv`: while nothing interferes the route chosen is the session's, the entry is the one that
was read or written last, and the only prompt under way is the invocation's own, to an idle session
if it is the first. Without `Copies` a rollback could bring back evidence that no
prompt supports; without `Traces` a late admission could contradict a report already made.

`EpisodeCleanupProofs`, from `CleanupAssumption` (the tree of sessions has its root, the confirmed
head is a commit): `TypeCorrect`; `Identifiable` (`RemoteIdentifiable`); `OwnershipLast`
(`OwnershipRemovedLast`); `RefsDeleted` (`OnlyTerminalRefsDeleted`); `WorktreeKept`
(`WorktreeBytesKept`). The cleanup decides from snapshots that are old when it acts. `CleanupInv`
says which of their statements stay true: what an inspection did not find is gone for good, for a
worktree, a local branch (`SnapshotTrue`) and the root session (`TreeTrue`, `RuntimeTrue`); a
remote branch it did not find can be pushed again, but only from the worktree, and once the root
is gone only by a descendant that escaped (`UpstreamTrue`). That is why the order runtime, remote,
worktree, branch matters: each removal rests on a statement the earlier ones have made stable. All
but `OwnershipRemovedLast` leave out Orca's forced removal beside an escaped descendant (`Forced`),
where the code cannot keep them.

`EpisodeCreationProofs`, from `CreationAssumption` (a session has not the name of a job, and the
absent entry is no entry): `TypeCorrect`; `Single` (`NoDuplicates`); `Traceable` (`Reconcilable`); `Assigned`
(`ActiveIsAssigned`); `EvidenceStays` (`EvidenceKept`). `CreationInv` speaks of one Conversation
at a time. `Durable` is what an entry implies about the resources, whether or not an invocation
goes on: nothing is made before its name is recorded, nothing is launched before the launch is, at
most one run or assignment exists, and Orca's sessions are exactly those that were told to
execute. `Allocating` is what an invocation knows at each of its steps: its record is the entry,
the entry is not active, nothing is assigned before the launch, how many automations there can be,
which session can be bound. Without the first a retry could not tell what it may repeat, without
the second it would act on an entry that another invocation advanced. A step of one Conversation
leaves the facts of the others alone (`FineKeeps`); writes, operations with their lost responses,
failures and the outside world each have a lemma (`SaveStep`, `ThenStep`, `FailStep`, `WorldStep`).
`Rest` adds what bears on none of this: the lock, the task statuses, the sessions already seen.

Out of the prover's reach, and only checked by TLC: liveness (`OperationsEnd`,
`CleanupCompletes`, `CreationCompletes`, `CallsEnd`, `RequestsSettle`). Every other property of a
passing run is stated by a theorem.

## Findings

1. `cleanup_clone`. The nested clone is removed before the sessions are; a session that wakes up
   between the clone's status check and `rmSync` loses uncommitted task content.
2. `creation_admission`. In Progress is published before the only check that the task has no
   other owner.
3. `handoff_route`. A session that loses its route between the two preparations is reopened and
   its route recorded by the second; after the first prompt was admitted, the callback takes that
   write for somebody else's, and the follow-up is not sent.

Each counterexample is what TLC prints for the run; the lines are in `PROJECT.json`.

Observations: behaviour met while modelling that the models contain, and that no property forbids.

1. A session somebody opens in the new worktree in time is bound and reported in place of the
   launched one (`spec-episode.ts:1294`). `Visit` and `Bind` of `EpisodeCreation` contain it, and
   `ActiveIsAssigned` excepts the visitor's session: it does not notice a wrong binding.
2. An override may be accepted while the intent of an interrupted reset is pending, since
   accepting does not look at it (`project-initialization.ts:1115`). The next reconciliation
   finishes the reset and replaces the accepted text. `CustomizationKept` and `ResetSettled` treat
   such a text as one the reset was told to replace.
3. Two confirmed migrations at once exclude each other only in the registry's switch and in the
   deletion (`task-provider-migration.ts:2709`), so each may publish a copy of a task.
   `NothingLost` and `NobodyStranded` hold all the same. `NobodyStranded` is about the moment at
   which the source goes; that nothing is reserved on it afterwards it does not say.
4. A text that a reset was to replace can come back while the reset is recovered: the migration
   from the old place and the reset are both interrupted, so that the old copy is still there, and
   somebody removes the new file during the recovery (`project-initialization.ts:1028`). The proof
   of `ResetSettled` does not go through without that exception, and TLC has the behaviour with
   one process and `MaxTrouble = 2`, one disturbance more than the run allows.

5. Orca removes the worktree with `--force` (`task-episode-cleanup.ts:385`). When a descendant
   that outlived its parent is opened and works between the last status check and the removal, its
   bytes go. `RemoteIdentifiable`, `OnlyTerminalRefsDeleted` and `WorktreeBytesKept` except this
   case (`Forced`), so they say nothing about it: the code gives Orca no state to compare.
6. A live descendant in another directory whose parent is removed before it is listed again is not
   found (`task-episode-cleanup.ts:176`): the cleanup completes and it runs on.

## Not modelled

* The text of prompts and results, dialogs, argument validation, formats of provider data; Git's
  and Orca's own behaviour beyond what the code relies on; foreign worktrees, terminals and branch
  heads that an inspection only refuses.
* Task history: the adoption of stores that exist in other layouts and the local-only mode. They
  run once in a project's life, in one process, and mostly classify what they find.
* Task providers: the parsing of native data and the read-only inventory; the selection and
  publication of a status are in `TaskHistory`, the choice of a provider in `ProviderMigration`.
* Provider migration: the conversion of a task's fields, memory documents and worktree layouts;
  a copy is complete or it is not.
* Project initialization: provider setup, the Orca registration and the inventory of old
  specifications, which keep no state of their own.
* Folder Episodes (`createSpecEpisode`) allocate as task Episodes do and are present only as
  version-1 entries of the registry and of the handoff.
* The prep chain admits two prompts in the caller's own session through the chain that
  `EpisodeHandoff` models. Reviewed-plan tools are sequential wrappers. The goal continuation
  nudge is a counter in one session's memory whose only effect is a reminder.
* The launcher, scripts, images and policies have no part in this state.
