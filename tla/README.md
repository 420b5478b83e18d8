# Verification of the Forge Development Hub CLI and portal

TLA+ models of `fdh` (the command-line tool that installs components of a hub
into a developer's projects) and of the portal API behind it, the TLC runs that
check them on small instances, and TLAPS proofs of what matters most for every
instance. The Go sources are the reference: each definition names the lines it
stands for in `PROJECT.json` ("map").

## 1. The system

A **hub** is a git repository of components: skills, rules, agents, hooks, each
a directory, listed in `hub/registry.yaml`, and grouped into harnesses in
`hub/harnesses.yaml`. Three programs work on it.

**`fdh`** runs in a project on a developer's machine.

| part | state | operations |
|---|---|---|
| hub cache (`pkg/hubregistry`) | one sparse git checkout per machine and hub URL, shared by all projects | `Load` (fetch, reset, narrow the checkout to the catalogue), `FetchComponent` (widen it by one directory) |
| adapters (`pkg/adapters`) | the installed files of each component and agent, as a directory or as one flat file | hash the source, compare with the marker, copy, write the marker |
| markers (`pkg/managed`) | `.fdh-managed.yaml` beside each install: hash and hub commit | written by adapters, read by every scan |
| manifest, lock (`pkg/consumermanifest`, `pkg/consumerlock`) | `.fdh/manifest.yaml` (wanted), `.fdh/lock.yaml` (resolved) | expand against a harness, diff by name, write |
| `.gitignore` (`pkg/gitignore`) | the managed block | rewrite with the locations found by a scan of markers |
| commands (`internal/cli`) | their own variables only | install, init, switch, update, uninstall |
| state ledger, instincts (`pkg/state`, `pkg/instincts`) | `~/.fdh/state.json` | upsert, repair; record and merge instincts |
| telemetry (`internal/cli/telemetry`) | consent, salt, a queue of 64 events | enable, rotate, flush with a deadline |

**The portal API** (`internal/portalapi`) serves the catalogue from a snapshot,
receives telemetry, and turns what users ask for in the web portal into pull
requests on the hub (`gitops`). It runs in several replicas; one of them
aggregates the telemetry (`telemetry_loop.go`).

**Batch tools and front ends** (registry builders, the npm wrapper, the web
portal) hold no state of their own between runs.

The parts interact through files and git, not calls: commands of one machine
meet in the hub cache, commands of one project in its files, portal and people
on the hub's `main` branch, replicas in the telemetry database. Nothing of this
is locked (the only exceptions are git's own `index.lock` and the transactions
of the database).

### What is hard

- A command is a sequence of file writes without a transaction; it can stop
  after any of them, and the next command starts from what is left.
- The hub, the cache and the developer's files change between two steps of a
  command: content, catalogue and commit of one marker are read at three moments.
- Another run's `Load` deletes component directories from the cache's checkout
  while they are being hashed or copied.
- A pull request is composed by half a dozen API calls; `main`, the branch and
  the pull request can each change between two of them, and the branch is reused.
- The aggregation counts, then computes the retention cutoff, then deletes,
  while events arrive and after passes that failed.
- `state.json`, `telemetry.json` and `config.yaml` are read, changed and written
  back whole by every command; what another one wrote in between is lost.
- A registry is rebuilt in place while clients download its parts one after the
  other, keep them and fall back on them.
- The portal's requests read the clone in several steps while a refresh checks
  out another commit of it.

`PROJECT.json` ("hazards") lists these at their lines, with the properties that
would catch each, or the reason why none does yet.

### What makes each part correct

| part | properties |
|---|---|
| markers | `MarkerPublished`, `MarkerTruthful` |
| install | `InstallMatchesLock`, `LocalEditsKept` |
| switch, uninstall | `RemovedIsGone`, `SwitchSparesWanted` |
| update | `RefreshComplete`, `UpdateConverges` |
| doctor | `OkIsPublished` |
| `.gitignore` | `IgnoreExact`, `IgnoreKeepsForeign` |
| every command | `CommandEnds` |
| catalogue and constraints | `CatalogueInstalls`, `ConstraintPicks` |
| named install | `InstalledIsReleased`, `CalmInstallSucceeds`, `NeverDowngraded`, `MarksAreSound` |
| state ledger, instincts | `KeepsPromise`, `LedgerWhole`, `CountNotAhead`, `InstinctsKept`, `DraftsAreGroups`, `DraftsAreKept` |
| telemetry of the CLI | `OptOutHolds`, `RotateForgets`, `AskedOnce` |
| portal snapshot and requests | `SnapshotWhole`, `SnapshotForward`, `EventuallyCurrent`, `ReleasedIsFixed`, `ContributionsOfHead` |
| gitops | `ProposalIsAction`, `BranchHasOwner`, `MergeKeepsMirror`, `LifecycleForwardOnMain`, `KeepsProposals` |
| telemetry of the portal | `NothingCountedTwice`, `DayIsWhole`, `EventuallyCounted` |

## 2. Modules

| module | models |
|---|---|
| `FdhHub` | the hub as a constant history `HubTree`, `HubHarness`; manifests and their expansion; markers |
| `FdhProject` | one project, the cache it shares, and the commands as interleaved processes; its properties |
| `FdhReports` | what `fdh doctor` says of a state of `FdhProject` |
| `Catalogue` | the hub's catalogue as a sequence of entries, the check its CI runs, and what `fdh init` makes of it with the adapters it has |
| `Versions` | version constraints, and the ranges they stand for |
| `GitignoreText` | `.gitignore` as a text: sentinels, blank lines, the developer's lines, LF and CRLF |
| `SkillText` | `SKILL.md` as lines: byte order mark, the `installed_from` mark, parsing, the portability rules |
| `Lines` | what is left of a text without some of its lines, for these two |
| `FdhDocuments` | `FdhProject` and `FdhReports` with the catalogue and the constraints that the commands read |
| `Ledger` | the abstract state ledger: every operation whole, on the current content |
| `StateLedger` | `state.json`, the instincts beside it, and the commands on both; it implements `Ledger` |
| `InstinctClusters` | the functions of `fdh evolve`: similarity, groups, directories of drafts |
| `InstinctDrafts` | `StateLedger` with these functions |
| `TelemetryClient` | consent, setting and salt of the CLI's telemetry, its commands interleaved |
| `RegistryInstall` | a registry that is rebuilt in place, the client's cache, `fdh install <name>` |
| `InstalledTexts` | `RegistryInstall` with the two texts that an install writes into |
| `HubServer` | the portal's clone, its refreshes and the requests that read it |
| `HubEdits` | the two files of the hub that the portal edits, and what each action makes of them |
| `Proposals` | the abstract promise of the portal: a pull request is one action, made from what `main` held at one or two moments |
| `PortalGitops` | composition of pull requests beside people who merge, close, push; it implements `Proposals` |
| `TelemetryRollups` | events, rollups and the passes of the aggregation loop |
| `FdhProjectProofs` | every safety property of `FdhProject`, that of `FdhReports`, those of `FdhDocuments` |
| `StateLedgerProofs` | the refinement of `Ledger`, every safety property of `StateLedger`, those of `InstinctDrafts` |
| `RegistryInstallProofs` | every safety property of `RegistryInstall`, those of `InstalledTexts` |
| `PortalGitopsProofs` | the refinement of `Proposals`, every safety property of `PortalGitops` |
| `TelemetryClientProofs`, `HubServerProofs`, `TelemetryProofs` | every safety property of the module each is named after |
| `DataLemmas` | induction and recursion over the numbers, least elements: lemmas that several of these proofs cite |
| `MC...` | instances for TLC |

Modules compose by extension where components share state: `FdhReports` reads
the states of `FdhProject`; `FdhDocuments` takes the catalogue and the
constraints along, `InstalledTexts` the two texts that a named install writes
into, `InstinctDrafts` the functions of evolve. The pure functions have no
variables: a run evaluates them in its initial states, over every input up to a
bound, against a statement of what they are for. The bound is a constant of the
statement, and the theorems hold for every bound.

### FdhProject: state and actions

Files are abstract blobs and the SHA-256 of a tree is the tree itself. `disk[l]`
and `marker[l]` are one location: a component at one agent, stored as a
directory or as a flat file (`Layout`). `cache[c]` is the component's directory
in the cache's working tree and `cacheHead` the commit it is checked out at.
Each process has a program counter and the variables of its command: what it
loaded (`reg`), the manifest (`man`), the resolutions (`old`, `want`), the
locations still to do (`todo`, `del`), where it is (`at`, `idx`), the hash so far
(`src`) and the markers it saw (`scan`).

| code | actions |
|---|---|
| `hubregistry.Load`, `fetchAndCheckout` | `Load` (with or without the network), `OtherProjectLoads`, `OtherProjectWrites` (file by file) |
| `runInstallManifest`, `runInitWizard`, `runSwitch`, `runUpdate`, `runUninstall` | `Start...`, `Plan...`, `PlanReturns`, `Confirm`, `GenerateFromLegacy` |
| `os.RemoveAll` of an install | `BeginRemove`, `RemoveFile`, `RemoveMarker` (in any order), `Removed` |
| `FetchComponent`, `directoryInstall`, `flatInstall`, `copyTree` | `BeginInstall`, `HashFile`, `CheckMarker`, `CopyFile`, `CopyFlat`, `WriteMarker`, `FetchFails`, `InstallFails` |
| manifest, lock, gitignore writes | `WriteManifest`, `WriteLock`, `LockReturns`, `ScanMarkers`, `ApplyGitignore`, `Finish` |
| errors and signals | `Crash` (at any step; a file or a marker that was being written is cut), `RefreshFails`, `FinalizeFails` |
| developer, hub | `UserWritesFile`, `UserDeletesFile`, `UserRemovesInstall`, `UserEditsManifest`, `UserRemovesManifest`, `HubPublishes` |

Abstractions worth knowing. `Load` is one step for the commands of the project
that runs it; for the other projects of the machine the reset of the cache happens
file by file. The directories that a failing update plan has fetched before it
fails stay in the cache in the code and not in the model: no command reads a
directory without fetching it first. The manifest, lock and `.gitignore` are each
replaced by a rename or a single write and are one step. A marker is written in
place (`managed.go` 151), so a crash leaves it cut anywhere (`kept`, one of
`Extents`): empty, a text that does not parse, or with the fields in front of the
cut, a part of the hash among them. Readers take a missing field for empty. `fdh
init` ignores what its last steps return (`init_wizard.go` 476): `LockReturns` and
`FinalizeFails` take such a run to its end like one that wrote everything. A
removal whose `os.Remove` fails without an error for the command (`uninstall.go`
96) is left out. Kinds other than skills are not part of the scans of update and
uninstall (`Skills`), as in the code. Scopes other than the project's, agent
filters and the dry runs are left out; version constraints are in `Versions`, the
entry in the state ledger in `StateLedger`.

### PortalGitops and Proposals

`main` is the sequence of commits of the hub, a commit being the two files the
portal edits; `branch` and `pr` are what GitHub holds; a request walks through
the calls of one `Compose...` function (`find`, `registry`, `harnesses`, `tip`,
`exists`, `create`, `commit`, `open`) and keeps what each call returned, so each
is used as stale as the code uses it. Two requests interleave call by call. People
merge, close, delete and keep branches and push to `main` at any moment, between
the reads of a request too, and may delete the branch that a request has just
made. A request may stop after any call. `KeepsHeads` says whether people may leave
the branch of a closed pull request behind. Two history variables say what the
properties need to speak of this: `since`, where `main` was when a request first
read a file (a branch keeps it beside the commit it starts from), and `cut`, the
branches that were deleted under a request.

Nothing in the code makes the two files and the base commit of one pull request
come from one moment (`compose.go` 97, `compose_curate.go` 78). The properties say
what holds all the same, and what holds only of a pull request that was composed while
`main` stood still (`Still`), however stale it is when it is merged: that is the
condition of `MergeKeepsMirror` and `LifecycleForwardOnMain`, and it is about one pull
request, not about the behaviour: main moves under other requests all the time.

`Proposals` knows neither requests nor calls: it has what the commits of `main`
hold (`hub`), the open proposals (`open`), each an action, the tree it starts from
and the tree it proposes, and the branches that somebody deleted under a request
(`cut`). Its steps are `Propose`, `Merge`, `Close`, `Push` and `Cut`. `Propose`
takes one action, edits the first file as `main` held it at one moment and the
second as it held it at that moment or later, and puts both on a commit that is
not older than either. The refinement mapping takes `hub` to `main` and `open` to
the open pull requests with the commits their branches start from; every call of a
request but the last is a stutter. The two modules share the edits (`HubEdits`)
and nothing of how they come about.

### TelemetryRollups

A pass is the statements of one READ COMMITTED transaction, `AggComponents`,
`AggFunnel`, `Prune`, `Commit`; events are inserted and time passes between any
two of them. `written` is what the transaction sees of the rollups. `received`
is a history variable: every event that was ever inserted. A pass may fail at any
statement, the process may crash, and it may boot without a database, in which
case the code never tries again (`degraded`).

### StateLedger and Ledger

`ledger` and `tmp` are `state.json` and its temporary file: absent, torn, or a
content with the registered projects, the hub's stamp and the key `instincts`,
perhaps with bytes after the JSON value. `handle[p]` is the file behind a
command's open descriptor, which a rename by another command turns from the
temporary file into the ledger itself. The operations are the steps of
`state.Load`, `Save`, `MutateState` and `WriteAtomic`: `Load`, `Mutate`,
`OpenTmp`, `WriteTmp`, `Rename`; the instinct commands add theirs (`Draft...`,
`Publish...`, `ListLocal`, `ImportItem`, `KeepItem`, `Delete`). The strict
decoder of the CLI and the lenient one of the instincts differ as they do in the
code (`Loadable`, `Salvaged`).

`Ledger` says what the file promises: each change is one operation (`Register`,
`Forget`, `Tally`) on the content that the last one left. The refinement mapping
(`Shown`) is the content that a reader sees; reading, the temporary file and
every crash are stutters. It holds while commands take turns; `turns` is chosen
at the start, so the same run has overlapping commands too, for which
`InstinctsKept` still holds but for an import of the same identifier.

### HubServer

`clone` is the repository of the portal, `work` its working tree, written file by
file while requests read it; `lock` is `Server.mu`. A refresh is `Refresh`,
`Fetch`, `CheckoutFile`..., `Build`, `Store`, and may fail at each; what a failed
checkout wrote stays. A request is the sequence of its reads (`ReadDeclared`,
`ReadTags`, `ReadHash`, ...), because the handlers hold no lock: they go to the
clone and not to the snapshot. The walk of the history for the contributions is
one step under `contribMu`. `History` and `TagOf` are the commits of one component
and the release pipeline's tags, `Verdict` the outcome of a scan. A tree is hashed
file by file (`ListFiles`, `HashEntrypoint`, `ReadHash`), beside checkouts that
write and remove its files: a file that is gone when it is opened fails the
request (`bundle.go` 115, `versions.go` 243), and `torn` remembers that a checkout
disturbed the files of this request's tree. `ReadSource` and `ScanTip` read the
tip's tree in one step; no property is about what they get. History is linear; the
caching headers and the deployment whose sidecar syncs the tree without
`Server.mu` are left out.

### RegistryInstall

The producer truncates and rewrites the four files of a component one after the
other; the host serves what is there, torn bodies too; the client's cache keeps
what it got by the rules of `Cache-Control` and falls back on it when the host is
down. That the metadata of a copy cannot be written is ignored (`http.go` 523,
558): the answer is used, and the cache keeps the copy of before or none
(`unkept`). `Header` gives each kind of URL its `Cache-Control`; the run has those
of the wire protocol (`docs/portal-api.md` 28, 41), where the files of a version
are `immutable` and a copy of one is never asked for again (`kept = "forever"`).
An install in another project uses the same cache: `pending` is what it asked for
and has not kept yet (`AskElsewhere`, `KeepElsewhere`), and it may be kept over a
newer copy. `install` reads index, manifest, sidecar and archive in the code's
order, verifies, and writes files, provenance, marker and ignore rule one at a
time, the files in any order, so that no property rests on the order of a walk.
Three history variables serve the properties: `calm`, nothing disturbed this
install; `behind`, the manifest in the cache is not the last one that was got;
`old`, this install took its manifest from the cache while it was behind. Retries
of one request are one step; the request's outcomes are those of the last attempt.
Two installs into one target at a time are left out.

### TelemetryClient

Each command keeps its own copy of the two files it read (`conf`, `st`) and
writes them back whole: truncation (`Open...`) and writing (`Write...`) are two
steps. Salts are numbers in the order they are drawn. `will`, `mishaps` and
`floor` are history variables: the developer's last decision, what has gone wrong
since, and the salt of the last rotation that nothing overlapped.

### Catalogue, Versions, GitignoreText, SkillText, InstinctClusters

Functions of a document. A text is a sequence of lines or tokens, of which only
the ones that the code tells apart are different values. The statements at the
end of each module quantify over every input of a bounded size and say what the
function is for, in terms of the input and the result, not of the code's steps.
Loops are functions on the numbers up to a length (`Drop` of `Lines`, `Parents` of
`InstinctClusters`), so that a proof can follow them.

Agents and hooks have an adapter for one agent only (`Adapters`;
`agent_adapter.go` 96, `hook_adapter.go` 119), and `fdh init` skips the pairs that
have none without a word (`init_wizard_harness.go` 286): an accepted component
that supports no agent with an adapter is offered, chosen, written to the manifest
and placed nowhere. `CatalogueInstalls` says exactly where each component is
placed: at the chosen agents that it supports and that have an adapter. In a
`.gitignore` the end of a line is LF or CRLF; `Apply` rewrites the second to the
first. A `SKILL.md` may start with a byte order mark, with which the code takes
other paths (`provenance.go` 110 to 149), among them one where marking overwrites
the text in place; a key of the frontmatter may hold an indented `installed_from`
(`Held`), which the code takes for its own (246).

## 3. Runs

| run | question | instance |
|---|---|---|
| `project_crash` | What do successful commands establish after crashes? `MarkerTruthful`, `InstallMatchesLock`, `IgnoreExact`, `RemovedIsGone`; and what can doctor be believed? `OkIsPublished` | two skills, one a directory and one a flat file; two harnesses; two files, one dropped by commit 2; one process; one fault: a stop at any step with what was being written cut, or an init that fails silently at its end |
| `project_edits` | What happens to the developer's edits? `RefreshComplete`, `UpdateConverges`, `LocalEditsKept`, `SwitchSparesWanted` | one skill, installed for two agents from one fetch, as a directory and as a flat file; two harnesses; three edits, between commands |
| `project_shared` | What can a marker be trusted for with two commands at once? `MarkerPublished` | one skill, two processes, two commits, either load resets the cache |
| `project_ends` | Does a command end beside other projects? `CommandEnds`. Are catalogues and constraints what they say? `CatalogueInstalls`, `ConstraintPicks` | one skill that commit 2 replaces by another, one process, other projects rewriting the cache; catalogues of up to two entries (`MaxEntries`) out of every right one and one with each mistake, over two kinds, skills with an adapter for every agent and hooks with one for one agent, two directories each, two agents; every constraint with numbers 0 to 2 and lists of up to two versions (`MaxList`) |
| `gitops_proposals` | What does a pull request say, what do merges do to `main`, and do the calls of a request look like one? `ProposalIsAction`, `BranchHasOwner`, `MergeKeepsMirror`, `LifecycleForwardOnMain`, `KeepsProposals` | two requests, one component in the catalogue and one not; users ask for three actions, two of them on one component, others push two more, a yank and an import; three commits of `main`, moved at any moment; one request that stops half-way or one branch deleted under its request |
| `telemetry_rollups` | Are events counted once, in full and in the end? `NothingCountedTwice`, `DayIsWhole`, `EventuallyCounted` | one component and one onboarding step, two events, days of two units, two faults |
| `ledger_turns` | Does `state.json` keep the ledger's promise, and what becomes of instincts? `LedgerWhole`, `CountNotAhead`, `KeepsPromise`, `InstinctsKept`, `DraftsAreGroups`, `DraftsAreKept` | two commands, three in all, one project, a bundle of two instincts and a malformed entry, one crash or edit; every similarity graph on four instincts (`MaxGraph`), every list of three out of 24 instincts (`MaxInstincts`), up to four drafts (`MaxDrafts`) |
| `portal_catalogue` | Do requests and refreshes agree on what is released? `SnapshotWhole`, `ReleasedIsFixed` | two commits: a release, and a second one that drops a file; two refreshers, one request at a time for a manifest, a sidecar or an archive, one fault |
| `portal_refresh` | Does the snapshot go forward, and reach `main`? `SnapshotForward`, `EventuallyCurrent`, `ContributionsOfHead` | three commits: these, and a change that brings the file back without a bump of the version; two refreshers, one request for contributions, two faults |
| `registry_install` | What does an install from a registry put down? `InstalledIsReleased`, `CalmInstallSucceeds`, `NeverDowngraded`; what do its writes do to texts? `IgnoreKeepsForeign`, `MarksAreSound` | three commits: a release, a change of its content under the same version, a second release that drops a file; two files; the headers of the wire protocol; one fault: a build or an install that stops, an answer that is not kept, or an install elsewhere that asks for the manifest; any number of installs; `.gitignore` of up to seven tokens (`MaxIgnored`) and two managed paths, `SKILL.md` of up to three lines after the opening fence when it is marked twice (`MaxMarked`) and of four when it is published (`MaxPublished`), with and without a byte order mark; LF, CRLF and mixed, with and without a last newline |
| `telemetry_client` | Is a no kept, a rotated id forgotten? `OptOutHolds`, `RotateForgets`, `AskedOnce` | two terminals, four commands, one write that fails or command that is killed |
| `claim_archive` (violation) | `ArchiveMatchesSidecar`: what docs/portal-api.md says of archives | `registry_install` with the portal's layout of archives |

`claim_archive` is the one finding: an archive of the portal has no top-level
directory, the client wants exactly one and hashes what is inside it
(`tarball.go` 154, `git.go` 604).

### The bounds, and why they are enough

Two commits of `FdhProject` are enough for content to change, for a file to
disappear and for a component to move between harnesses under a running
command; two files are the least with a torn, a missing and a mixed tree; one
fault lets the commands that follow meet what another left behind. Two processes
interleave in every order; the theorems of section 4 cover any number. In
`project_crash` each skill has one location; a component installed for
two agents from one fetch is in `project_edits`.

For the registry and the snapshot three commits are the least with content that
changes both with and without a bump of the version and a file that goes
away: a mixture of two commits differs from each of them. What requests read of the
clone needs two, a past release and a checkout that removes one of its files. In
`gitops_proposals` three commits let `main` move between the two reads of a request and
again before it is merged. Two faults of
`portal_refresh` let a fetch fail after a checkout that stopped half-way, or a
restart follow a failed clone. Three commands of `ledger_turns` are an import,
a change of what it imported, and a third one on the result; four of
`telemetry_client` are a decision, two commands that overlap, and one that shows
what they left. Catalogues of two entries are the least with a duplicate or an
orphan; lines of a text meet in pairs (a sentinel and a blank line,
a fence and the end of the file), which seven tokens, four lines with their
ends, hold with foreign lines on both sides. For these functions the bounds only
spare time: the theorems are for inputs of any length.

`CHECK_DEADLOCK FALSE` appears in the telemetry runs and in `ledger_turns`: a
degraded process never acts again, and elsewhere the bounds on commands stop the
rest.

### Fairness

`FdhProject` assumes weak fairness of `Run(p)`: the operating system schedules a
running process. Nothing makes the developer answer a prompt, the hub publish or
a fault happen, so `CommandEnds` says "ends or waits for the answer".
`TelemetryRollups` assumes it of `Aggregate`, because the loop's ticker fires
again and again, and of `Boot`, because Kubernetes restarts the process.
`HubServer` assumes it of `Refresh(Loop)`, the ticker of `RunRefreshLoop`, and of
the steps of a refresh under way; nobody has to merge, tag, ask or force a
refresh. The others are checked for safety only.

## 4. Proofs

Each theorem holds for every value of the constants that satisfies the
assumptions of its module, so for any number of processes, commits, files, agents,
events and faults, and not only for the instances of section 3. The column
"when" names what else it assumes; a run that checks the property satisfies it.

| theorem | property | when | inductive invariant |
|---|---|---|---|
| `TypeCorrect` | `TypeOK` of `FdhProject`, checked within `IgnoreExact` | always | `Typed`: a process that works on a location has one (`AtOK`) |
| `MarkersArePublished` | `MarkerPublished` | always | `Published` |
| `MarkersAreTruthful` | `MarkerTruthful` | `Alone` | `Truthful` |
| `OkInstallsArePublished` | `OkIsPublished`, which leaves out markers cut in front of the hash | `Alone` | from `MarkersAreTruthful` |
| `EditsAreKept` | `LocalEditsKept` | `Quiet` | `Spared` |
| `WantedIsSpared` | `SwitchSparesWanted` | `OneKindPerName` | `SparesWanted` |
| `IgnoreIsExact` | `IgnoreExact`, which has `TypeOK` in it | `Quiet`, one process | `IgnoreFollows` |
| `RemovedStaysGone` | `RemovedIsGone` | `Quiet`, one process, `OneKindPerName` | `OnTrack`, `UninstallTakesAll`, `SwitchTakesAll` |
| `InstallsMatchLocks` | `InstallMatchesLock` | `Quiet`, `Alone` | `Truthful`, `OnTrack`, `InstallsAll` |
| `RefreshesAreComplete` | `RefreshComplete` | `Quiet`, `Alone` | `Truthful`, `OnTrack`, `CopiesInOrder` |
| `UpdatesConverge` | `UpdateConverges` | `Quiet`, `Alone`, `Bodied` | these, and `RefreshesAll` |
| `LedgerKeepsPromise` | `KeepsPromise`, the refinement | always (the property speaks of commands in turn) | `LedgerInv` |
| `LedgerIsWhole` | `LedgerWhole` | always (in turn) | `LedgerInv` |
| `InstinctsAreKept` | `InstinctsKept` | always | `InstinctsInv` |
| `CounterIsNotAhead` | `CountNotAhead` | always (in turn) | `InstinctsInv`, `CountInTurn` |
| `RotateIsForgetting` | `RotateForgets` | always | `ClientInv` |
| `NobodyIsAskedTwice` | `AskedOnce` | always | `AskedInv` |
| `NoIsKept` | `OptOutHolds` | always | `NoInv` |
| `InstallsAreReleased` | `InstalledIsReleased` | always | `GenuineInv` |
| `VersionsNeverGoBack` | `NeverDowngraded`, but for a manifest taken from a cache that had lost a newer one | always | `VersionInv` |
| `CalmInstallsSucceed` | `CalmInstallSucceeds`, but for an immutable copy that is wrong (`Wedged`) | `Wrapped` | `CalmInv` |
| `SnapshotsAreWhole`, `SnapshotsGoForward` | `SnapshotWhole`, `SnapshotForward` | always | `HubInv` |
| `ReleasesAreFixed`, `ContributionsAreOfHead` | `ReleasedIsFixed`, `ContributionsOfHead` | always | `HubInv` |
| `PortalKeepsProposals` | `KeepsProposals`, the refinement | always | `GitopsInv` |
| `ProposalsAreActions` | `ProposalIsAction` | always | `GitopsInv` |
| `LifecycleMovesForward` | `LifecycleForwardOnMain` | always (the property is about merges of what was composed while `main` stood still, and pushes) | `GitopsInv` |
| `BranchesHaveOwners` | `BranchHasOwner` | always (until a request stops half-way) | `GitopsInv`, `OwnersInv` |
| `MergesKeepMirror` | `MergeKeepsMirror` | always (of what was composed while `main` stood still) | `GitopsInv` |
| `TypesKept` | `TypeOK` of `TelemetryRollups` | always | `Typed`: the rows received are finitely many |
| `EventsCountOnce` | `NothingCountedTwice` | always | `NoExcess` |
| `DaysStayWhole` | `DayIsWhole` | always | `Whole` |
| `ConstraintsPickHighest` | `ConstraintPicks` | always | none: `MatchesRange` by cases on the operator, `HighestIsPicked` by induction over the list |
| `AcceptedCataloguesInstall` | `CatalogueInstalls` | always | none: `AcceptedInstalls` from what each check refuses |
| `DraftsStayGroups` | `DraftsAreGroups` | always | none: induction over paths and over the order of groups |
| `DraftsStayKept` | `DraftsAreKept` | always | none: induction over the drafts |
| `MarksStaySound` | `MarksAreSound` | always | none: induction over the lines |
| `IgnoreStaysForeign` | `IgnoreKeepsForeign` | always | none: induction over the tokens |

### What the hypotheses mean

- `Alone`: one command at a time, on a cache nobody else moves. `fdh` locks
  neither the project nor the cache; the two hazards without a property in
  section 1 are what happens otherwise.
- `Quiet`: the developer edits between commands and not while one runs. The
  commands look at a file once and use what they saw later.
- `OneKindPerName`: no two components share a name. `fdh` removes by name; on a
  hub where a rule and a skill share one, a switch that drops the rule removes the
  skill that it wants, edits included, and then installs it anew. The catalogue
  check refuses a name twice within a kind only.
- `Bodied`: what is listed and laid out flat has a `SKILL.md`. The flat adapter
  refuses a component without one, so its refresh fails every time.
- `Wrapped`: the host serves archives with a top-level directory. The portal's have
  none, and no install from them succeeds (`claim_archive`).

The assumptions on constants are named `...Assumption` beside the constants, and
TLC evaluates each. Most say what a constant is. A few are facts of the code: no
entry, action, lock or marker is the value for "none"; `NewULID` draws no
identifier a bundle has (`FreshAssumption`); the versions of the releases do not
decrease (`ReleaseAssumption`, `HistoryAssumption`); a tag is on a commit that declares
its version (`TagAssumption`). Those of the documents say that what the code tells
apart is apart: a sentinel or the end of a line is no line (`LineAssumption`), no
plain line of a skill is a mark (`TextAssumption`), a slug of a draft ends in no
number (`SlugAssumption`), the paths are listed in an order (`PathAssumption`), the
bounds are numbers (`DocumentAssumption`, `DraftAssumption`, `TextBoundAssumption`).

### Along which argument

*Markers.* `MarkerPublished` by itself is not inductive: a marker is written from
`src` and `reg`, so `Published` adds that nobody is ahead of the hub
(`NoneAhead`), that the cache's working tree holds published content
(`CachePublished`), and that what a process has hashed so far is published for
the component it works on (`ReadPublished`). `Truthful` needs more: the cache
stays at the commit of every process that has loaded (`CacheIsMine`); the
directory of a component that is being installed, or has been installed for some
of its agents and not for all, is in place in the cache (`Materialized`), which
is what makes one fetch for several agents sound; and what has been hashed is
that commit's (`ReadTruthful`). Most steps touch none of it; the proofs name what
such steps have in common (`Calm`: reads no source file and writes no marker;
`Settled`: loads nothing; `Steady`: begins no work and leaves the cache alone),
and prove once that every other action has it, and once that it keeps the
invariant.

*Edits and removals.* A plan is made at one moment and carried out many steps
later, so each invariant here says what is still to happen: what an update is to
refresh without `--force` holds no edit (`RefreshSpares`, which rests on markers
having hashes of the hub's files only), what a switch is to remove is nothing it
wants (`SparesWanted`), what is left of a removed component is still to be removed
(`UninstallTakesAll`, `SwitchTakesAll`). The first two hold beside any number of
other commands, because a process changes nothing of what another one works with
(`ActsAreOwn`). `OnTrack` says which steps each command goes through.

*Success.* `InstallsAll`: each wanted location is either still to be done or
in place. `CopiesInOrder`: the files before the one to be copied next
are the source's. `RefreshesAll`: whatever the drift check would still name is still
to be refreshed, and can be fetched.

*State ledger.* While commands take turns the temporary file is the view of the one
command that writes, and that view is one operation of `Ledger` on what readers
see (`WritesInTurn`). A rename is then that operation, and every other step of the
model a stutter (`StepInTurn`), which is the refinement. `InstinctInv` follows an
import: every readable instinct is in the index it has listed or among the
items it has written (`IndexInTurn`). `CountInTurn` says what a deletion under way
still owes the counter.

*Telemetry of the CLI.* `Shape` says what a command that saves has in hand at
each step, `SaltsFresh` that no copy of the store is older than the last rotation
that counted, `AloneMeans` that a command that found nobody beside it still has
the files it read.

*Named install.* Every whole body that the host or the cache holds is of some
release, and a hash that was accepted ties version and tree together
(`GenuineInv`). `Grows` adds that what is installed is of a version that the site has or
had (`Published`) and, unless the cache is `behind`, of none above that of the cached
manifest (`NotAbove`): so only an install that falls back on a manifest while the
cache is behind can go back. `Undisturbed` follows one install and the copies it can
meet, for as long as no immutable copy is wrong: while nothing disturbs an install,
no step wedges or mends one.

*Portal.* `RefreshInv` says what each step of a refresh knows of the clone that it
alone moves, `RequestInv` what each request still has to hold of the clone that it
does not lock: what was listed of the tree, and that only a checkout that disturbs
it makes it `torn` (`FitsTorn`). `GitopsInv` has two parts. `Reads`: what a
request holds is what some commits of `main` held, the first file's at `since`,
the second's and the base in that order after it (`RegistryRead`, `RosterRead`).
`Built`: a branch with a commit is an action that somebody asked for (`IsAction`),
the one in the title of its pull request unless the branch was deleted under a
request, and has at most one request that writes to it (`OneWriter`). `main` only
grows, so what its commits held stays true whatever people do. Of a pull request
composed while `main` stood still, `since` and base are one commit, and a merge of
it is its edit on a newer tree (`StillMerges`). `OwnersInv` adds the request that
is about to write or open (`GoesOn`), whom nobody takes its branch away from while
nothing has stopped. For the refinement the last call takes effect as the whole
request: the moments that `Built` names are those of `Propose`; the calls before
it touch no branch with a pull request (`WriterRests`), and a pull request that
ends takes away its own proposal only (`ShownEnds`), because a branch names its
pull request.

*Telemetry of the portal.* `DayIsWhole` is not inductive. `Whole` follows a pass:
a day with all its rows, or with none and counted (`StoredWhole`); a day that can
leave the retention before the pass commits is counted in full from the statement
that counts it on (`CountedWhole`); what the pass deletes is one whole day or
nothing of it (`DeletedWhole`), which needs the cutoff to be the start of a day
(`CutoffIsDay`, from the lemmas about division); and the pass commits within
`MaxPass` (`PassTime`). The event that would break each of these is tardy by
definition (`PastRowIsTardy`).

*Documents.* The functions of a document fold over it. The library's induction
takes a predicate as a parameter, so `DataLemmas` has induction for a set of
numbers (`InductionOn`) and the existence of a function that is given step by step
(`Stepwise`), from which each fold gets its table. `HighestIsPicked` carries the
highest version so far through the list. For the groups of evolve, the parent
pointers form a forest at every step of the two loops (`Forest`: nothing is
farther from its root than there are elements that are no roots, so `Root`
arrives); a join merges two trees and nothing else (`JoinTrees`), and what the
loops have seen so far is together and no more (`Together`). Of two drafts with
one slug the later has the higher number, and no slug ends in one. For `SKILL.md`,
`DropTable` says what a line does to what is kept: without its mark lines a marked
text is what it was without its own, which is why the second mark replaces the
first. For `.gitignore` the ends of lines are made LF first (`Normalized`), and a
text that has only those is what it was; the block is written between what
precedes the first sentinel and what follows the last: neither part has a sentinel
(`Surrounds`), so the block that is read back is the one that was written
(`WrittenReads`), and dropping blank lines commutes with the cuts. A second run
takes away the blank line above the block where there is one (`BlankLineAbove`),
and then there is none.

### Only model-checked

Every safety invariant and action property that a passing run checks is stated by
a theorem. What stays with TLC: the liveness properties `CommandEnds`,
`EventuallyCurrent` and `EventuallyCounted`, because fairness and ENABLED are out
of the prover's reach; and the claim that `claim_archive` refutes. TLC still
checks everything else on its instances, where a wrong model shows as a state
and not as an obligation that fails.

## 5. Not modelled

`PROJECT.json` ("components") lists every part and why. Without a module are the
hook adapter and the probes of a host (one write, or none), the authoring
commands, authentication, middleware, metrics and configuration of the portal,
the decoding and querying of its telemetry, the npm wrapper and the web
front end: pure functions of one document, HTTP plumbing and rendering.

Left out of the parts that have one: the recovery of a corrupt hub cache and its
clone; the git transport, signatures and further kinds of a named install; late
effects of GitHub calls that timed out; more than one aggregating replica; the
cap of 64 queued events and the feedback command of the CLI; the search, filters,
docs and caching headers of the portal; the YAML, JSON and Markdown texts
themselves. Command lines, output and logging are nowhere.

## 6. Further disagreements

Met while modelling, and described rather than run; where a property below holds
only on a condition, this is the condition's reason.

Project commands. An edit made between the plan and the apply pass of update is
overwritten. Switch leaves the flat files of components it reports
uninstalled, is not one transaction, as its help says, and after `fdh init` drops
nothing, because init wrote every member as an explicit entry
(`init_wizard_harness.go` 384, `switch.go` 58). A frozen install compares names
and installs the hub's head (`install_manifest.go` 152, 174). A marker's hash is
that of the source although existing files are kept (`skill_adapter.go` 111,
263). Every flat install counts as locally edited; doctor reports them as ok
whatever they hold. `update --force` leaves an edited skill alone when its marker
names the head. A first install adopts a directory the developer authored; a
deleted file is not restored by a second install; removing a rule by name removes
the skill of that name, and so does a switch that drops the rule and wants the
skill, which it installs anew. Two commands can drop each other's paths from
`.gitignore`. `fdh init` reports success over the lock and the `.gitignore` of
before when its last steps fail (`init_wizard.go` 476, `init_wizard_harness.go` 453
to 462): `IgnoreExact` and `InstallMatchesLock` are about the other commands. A
marker that was cut in front of its hash, or is empty, makes doctor report whatever
the directory holds as ok (`doctor.go` 278, `managed.go` 161), until the next install
or update rewrites it. An agent or hook for an agent without an adapter is
accepted by the catalogue's check, offered by `fdh init` and placed nowhere
(`init_wizard_harness.go` 286).

Named install. It writes a marker with an empty hub commit and the hash of the
tree before the `installed_from` line was added, which update and doctor then take
for an edit, so such a skill is never refreshed. With the portal's `immutable`
headers, content that changes without a bump of its version makes every later
install of a client that has one part of it cached fail until the next version
(`docs/portal-api.md` 41). The same headers keep a body that arrived torn: it is
cached before it is verified and, being immutable, never asked for again
(`http.go` 540 to 562), so every later install of that version fails on its hash;
`CalmInstallSucceeds` excludes exactly this state (`Wedged`). A manifest whose
metadata cannot be written is used and not kept, so that an install that later
falls back on the cache can put down an older version (`http.go` 506, 523, 558);
so can one after an install elsewhere has kept a late answer over a newer one.
`fdh list` shows declarative installs as "unknown".

Texts. `gitignore.Apply` rewrites CRLF to LF wherever it changes the file at all,
the developer's lines included (`gitignore.go` 57; 9 says byte-identically, 43
verbatim), and is not idempotent when lines precede the block: the second run
takes the blank line above it away again, once (45 says idempotent). A second pair
of sentinels survives. With a byte order mark and no frontmatter, `append(bom,
...)` writes over the file's own bytes, so that the beginning of the text is lost
(`provenance.go` 112, 122); `StripBreadcrumb` does nothing behind a byte order
mark. An indented `installed_from` under another key is taken for fdh's own and
replaced (246). A file with two `installed_from` lines keeps the second
(`provenance.go` 95 says exactly one); a closing fence that ends the file is
accepted by the parser and leaves the file unmarked. An exact constraint with a
pre-release never matches it, though `semver.go` 20 lists the form.

State ledger. With overlapping commands updates are lost, the counter can get ahead of
the files (two deletions of which one's count is lost), two writers share one
temporary file, and a mixed file is read by one decoder and dropped whole by the
other. Once an instinct is captured the CLI refuses the ledger, because it does
not know the key `instincts`. An import overwrites its own first entry when an
identifier repeats with another body, and counts both (`instinct.go` 725 looks
identifiers up in what was there before; docs/instincts.md 116 says that such
conflicts fail). docs/quickstart.md 240 says that repair
installs again; it only forgets. The slug "a-2" collides with the second draft
of "a".

Telemetry of the CLI. A rotation that overlaps another command can be undone by
that command's save, against the message of `telemetry_cmd.go` 132. After a
failed save the new salt is used, against the comment of `telemetry.go` 244.
`config set telemetry.enabled false` is recorded in one file only.

Portal. A request for a past release hashes the tip's tree too, file by file and
without the lock: a checkout that removes a file meanwhile makes the portal answer
it with an error (`versions.go` 243), though the release has not changed;
`ReleasedIsFixed` allows that refusal and no other. The verdict of the scanned
working tree is kept for the hash of the newest version, which may be a tag that
is not checked out (`server.go` 402). A walk of the history cut short by the
removal of a failed first clone is kept for that head (`contributions.go` 153). A
duplicate request for a component is answered with the pull request of a different
action, because the branch names the component only (`compose_curate.go` 44).
Nothing checks the members of a harness against the registry: importing a
component that the default harness already names leaves flags and harness apart.
Files read before `main` moves are committed on the new tip, so that the pull
request reverts what moved it and its merge can take a status back (`compose.go`
97); flag and harness read on both sides of a push leave the default harness out
of step (`compose_curate.go` 78). A request that stops after CreateBranch leaves a
branch that makes every later request for that component a conflict (`compose.go`
101), until somebody deletes it. A late event for a pruned day replaces that day's
count by its own, against the comment of `pgx_store.go` 174; pruning can delete an
event that arrived after the count of the same pass (122).

## 7. Plan

1. Proofs: those of section 4 are done. Left are the weakest hypotheses: which of
   `Quiet` and `Alone` the theorems about one command can do without when another
   project only loads.
2. `HubCache`: clone, corruption, recovery, loads of several projects in detail;
   the cache of `FdhProject` as its abstraction.
3. An abstract `InstalledSet` (what a project promises: the marked locations are
   those of the lock) that `FdhProject` implements between commands.
4. Late effects of timed-out calls in `PortalGitops`, two aggregating replicas in
   `TelemetryRollups`, the sidecar deployment in `HubServer`.
5. The npm wrapper's interrupted postinstall.
