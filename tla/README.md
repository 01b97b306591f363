# chilled-proxy, specified

chilled-proxy is a caching proxy for package registries (crates.io, npm, PyPI,
Maven) that hides versions younger than a *cooldown* window. This directory
holds TLA+ models of its core, the TLC configurations that check them on small
instances, and proofs checked by TLAPS.

## The system

| Part | State | Operations | Interacts with |
|---|---|---|---|
| `chilled-core` cooldown and validators | none | cutoff, bucket, marker, validator equivalence, expiry | every registry |
| shared caches: `MetadataCache`, `FilteredMemo`, cache files | a map of upstream validators with their check time; a map of filtered bodies tagged with validator and cutoff bucket; pristine files whose mtime is upstream's Last-Modified | fetch, store, invalidate, clear at 8192 entries; get, put; atomic write by rename | every handler, concurrently |
| `crates-proxy` index handler | the caches, per crate | the ladder: 304, memo, file, upstream, stale file | cargo, the upstream index |
| `crates-proxy` downloads, purge | `.crate` files, the index cache | the age gate, its own index fetch, artifact cache, purge | the index handler's caches |
| `maven-proxy` | a sidecar file of version ages per artifact, the caches | POM probes, sidecar load and save, metadata filter, generated checksums, download gate | upstream, the caches |
| `npm-proxy` | the caches, per package; tarballs | packuments with repaired tags, version documents carved out of them, the tarball gate | npm, upstream, the caches |
| `pypi-proxy` | the caches, per project, with a memo entry per representation; distribution files | simple index from upstreams that speak JSON or HTML, the file gate and file lookup | pip, upstream, the caches |
| `chilled-api` accounts | SQLite: users, sessions; the provisioning cache; browsers' cookies | login, logout, first-user signup, creating, changing and deleting accounts, OIDC provisioning, bootstrap admin | the browser, the database |
| `chilled-api` snapshots | SQLite: artifact rows, runs | periodic scans of the cache, purge, re-pull, retention | the registries' caches |
| `chilled-api` log hub | a ring of 1000 lines, a broadcast of 256 | push, snapshot, subscribe | the logger, SSE clients |
| `chilled-proxy` binary | settings, mounts, credentials | resolution of flags, environment and mount specs, with every refusal; HTTP clients; the router over the mounts | everything |
| `chilled-ui`, `chilled-wire` | browser state; plain types | -- | `chilled-api` |

What is hard about it: handlers run concurrently and are cut at every `await`
(upstream I/O, the blocking thread pool), so what is read before an await is
used after it, and the file write and the metadata store of one refresh can be
separated by another's; the clock moves buckets and expires entries in the
middle of a request; upstream fails or publishes in between; the process
restarts, perhaps with another window, while files and the clients' own
conditional caches survive; clients hang up, which drops a handler where it
waits. `PROJECT.json` lists each hazard at its line and the properties that
watch it.

What makes each part correct, in a line: *registries* -- no answer, by
whichever rung, shows or hands out a version younger than the window, hides an
aged one for longer than the documented jitter, or confirms a copy that is not
what would be served; *maven* -- recorded ages are never earlier than
publication and only ever age in; *accounts* -- nobody comes to act for somebody
else, and what the identity provider owns stays as it is; *command line* --
every path has one owner and credentials never cross mounts; *snapshots* -- a complete scan leaves
exactly the rows of the files it saw; *log hub* -- a subscriber gets every line
once, in order, or is told of the gap.

## Modules

| Module | What it is |
|---|---|
| `Cooldown` | the shared arithmetic, as operators |
| `AgeGate` | what the proxy promises a client about one package, with no cache in sight |
| `CratesIndex` | the index handler for one crate: shared caches, concurrent requests, upstream, clock, faults; the properties |
| `CratesDownload` | extends `CratesIndex` with downloads, their gate and purges |
| `Packument` | npm for one package: packuments, version documents and tarballs over the same caches |
| `SimplePage` | PyPI for one project: the index in both representations, and its files |
| `MavenSidecar` | the ages of one Maven artifact: metadata requests and downloads that load, probe for and save the sidecar concurrently |
| `LogFeed` | what `GET /api/logs` promises a reader, with no buffer or channel in sight |
| `LogHub` | the log hub and the answers that read it: push under its lock, subscribe, snapshot, replay, receive, lag |
| `Snapshot` | the table of cached artifacts: the loop that scans the caches and syncs it, and the requests that delete, re-pull and clear |
| `Accounts` | users and sessions, under concurrent requests, in both modes and across restarts between them |
| `Mounts` | the start of the process: from flags and environment to mounts, credentials and HTTP clients, or a refusal; the router |
| `Crates_proofs`, `MavenSidecar_proofs`, `LogHub_proofs`, `Snapshot_proofs`, `Accounts_proofs`, `Packument_proofs`, `SimplePage_proofs`, `Mounts_proofs` | theorems about all of these; `Crates_proofs` is about `CratesIndex` and `CratesDownload` |
| `MC...` | an instance of each for TLC |

### How `Cooldown` and `CratesIndex` correspond to the code

Time is a counter of ticks; `BucketLen` is `MEMO_BUCKET_SECS` in ticks and 0
stands for `None` in validators and stamps. Upstream's history `hist` is the
sequence of published versions: an ETag is named by the revision (the length of
the history) it was sent with, Last-Modified is the last publication's time. A
body is abstracted to the revision it is of (pristine) or the set of version
numbers it lists (filtered).

| TLA+ | code |
|---|---|
| `disk` | the index file: the revision of its bytes and its mtime |
| `meta` | the crate's entry in `MetadataCache` (etag, mtime, atime) |
| `memo` | the crate's entry in `FilteredMemo` |
| `window` | `RegistrySettings.cooldown` as it applies to the crate; 0 for no cooldown or an exempt crate |
| `req[c]` | the locals of one `handle_index` call: `window_ok`, the client's validators, the carried entry, the body, the captured cutoff |
| `copy[c]` | what cargo has cached: the validators and marker it will send, and the lines it has |
| `resp[c]` | the last answer the running process gave |
| `Begin` | parsing of If-None-Match / If-Modified-Since and `window_ok` |
| `Lookup`, `ReadFresh`, `FindMtime` | the warm-cache rungs of `handle_index` |
| `Fetch`, `FetchUnknown`, `FetchFails` | `conditional_get` in `forward_index`: 200 or 304, 4xx, and transport error / over the cap / 5xx |
| `WriteFile`, `WriteFileFails` | `cache_write_index` -- data by rename, then the mtime; errors are only logged |
| `StoreMeta200`, `StoreMeta304` | `metadata.store` and the choice of 304, memo or body that follows without an await |
| `ReadAfter304`, `LostFile` | the file an upstream 304 vouches for, and `invalidate` + 503 when it is gone |
| `ReadStale`, `FindStale` | the stale copy served in an outage |
| `Render`, `FilterDone` | `index_ok` before and after its blocking filter task |
| `Tick`, `Publish`, `Restart`, `Disconnect`, `WipeFile`, `EvictMeta`, `EvictMemo` | the world: time, upstream, a restart under any window, a client that hangs up, an operator who clears the cache directory, another crate's store that clears a full map |

`CratesDownload` adds `dl[d]`, the locals of one `handle_download` call, the set
`crates` of cached artifacts and `reply[d]`. `GateRead`, `GateFetch`,
`GateWrite`, `GateStore` are `download_old_enough` and `fetch_index_for_gate`;
`ReadCrate`, `DownloadCrate`, `StoreCrate` the rest of the handler; `Purge` is
`purge_artifact` and `purge_all`.

### How `MavenSidecar` corresponds to the code

Maven metadata carries no dates, so the proxy asks for each version's POM and
keeps a stamp per version: its Last-Modified (`"lm"`), or the moment of the
probe (`"fs"`, first seen) when the POM is absent, has no usable date or cannot
be fetched. Versions are numbered in the order of publication. A published
version's `kind` says what a probe of it can find.

| TLA+ | code |
|---|---|
| `sidecar` | `.chilled-versions.json`, `VersionTimes` on disk |
| `memo` | the artifact's entry in `FilteredMemo`; the validator is named by the revision `rev` |
| `job[c]` | the locals of `metadata_ok` and `filter_pipeline`: revision, captured cutoff, loaded stamps, versions whose probe is out |
| `page[c]` | the last metadata answer: status, revision, cutoff it was made under, versions listed |
| `get[d]`, `reply[d]`, `files` | the locals of `serve_artifact` and `artifact_old_enough`, its last answer, the cached artifact files |
| `failed` | history, for `HidesOnlyYoung` only: versions some probe of which failed |
| `MetadataOk`, `Load`, `Probe`, `SaveAndFilter`, `Done` | the parts of `metadata_ok` and `filter_pipeline` between awaits; probes are concurrent and come back one by one in any order |
| `ProbeFails`, `SaveFails`, `Disconnect` | a POM fetch that fails; a save that fails (logged); a client that hangs up |
| `GateLoad`, `GateProbe`, `GateSave` and their failures | `artifact_old_enough` |
| `ReadFile`, `FetchArtifact`, `StoreArtifact` and their failures | the rest of `serve_artifact` |

A metadata request starts where the caching ladder hands `metadata_ok` a
document, which may be of any revision published so far: the ladder in front
mirrors the crates one. A request for a generated checksum takes the same steps
as one for the document. `AsksUnpublished` says whether downloads may name a
version that upstream does not carry yet.

### How `LogHub` corresponds to the code

Every line gets a `seq` and is put into a ring (the backlog) and sent on a
broadcast channel; both hold `Arc`s to the same `LogLine`, so a line is its seq
and `log[seq]` is its level and target.

| TLA+ | code |
|---|---|
| `log`, `holder` | the lines logged so far; who holds the lock on `buf` |
| `buf`, `chan` | `LogHub.buf`, and all that was sent on `LogHub.tx`, of which the channel keeps the last `ChannelCap` |
| `params[c]`, `rx[c]`, `backlog[c]`, `last_seq[c]`, `sent[c]` | the query of one request, the position of its receiver, what is left of its backlog, the seq the live part is deduplicated against, and the events sent |
| `Record`, `Broadcast` | `LogHub::push`, called by `TeeLogger::log`: the ring, then the send, under one lock |
| `Subscribe`, `Snapshot` | the two calls of `handle_logs`, which pushes may separate |
| `Replay`, `EndOfBacklog` | the backlog half of the stream, and its end without `follow` |
| `Lagged`, `Receive` | the live half: `RecvError::Lagged` becomes a gap event, a line is dropped unless it is newer than the backlog and selected |
| `HangUp` | a client that drops its stream |

`LogFeed` knows neither ring nor channel: a reader has a cursor into the log that
only moves forward; a line it wants is delivered as the cursor reaches it, or is
covered by a gap event that owns up to at least as many lines as were skipped.
`Cursor`, `Wants` and `Begun` map the detailed state to it: the cursor of an
answer stands before its next backlog line, and then at the line its receiver
read last, unless the backlog already went further.

### How `Snapshot` corresponds to the code

| TLA+ | code |
|---|---|
| `mounted` | the names in `mounts_ops` of the running process |
| `files[m]` | the cached files of a mount; an artifact (name and version) consists of `Parts` -- one `.crate` or tarball, several files for Maven and PyPI |
| `rows`, `runs`, `configs` | the tables `artifacts`, `snapshot_runs`, `mount_configs` |
| `queue`, `task` | the refresh channel; the loop in `task.rs` and the locals of `run_scoped` (`complete`, and in `seen` the scanned artifacts) |
| `req[c]` | the locals of one `handle_delete`, `handle_repull` or `handle_clear` |
| `gone`, `adrift` | history: artifacts absent at some moment of the current run; mounts that changed with no refresh to follow |
| `Tick`, `Dequeue`, `RunFails` | the `select!` of the loop, and an `Err` from the run, which it only logs |
| `InsertRun`, `Scan`, `ScanIncomplete`, `ScanPanics`, `Commit`, `CommitFails` | the parts of `run_scoped`: the row of the run, the scan of each mount, and the transaction (`Upserted`, `Pruned`, `Finish`, `Swept`) |
| `ScanSkips` | `cache_stats` leaving out directories it cannot read; `task.partial` notes the mount for the properties |
| `Lookup`, `Clear`, `PurgeArtifact`, `PurgeAll`, `Repull`, `DropRows`, `Send` | the steps of the handlers between awaits |
| `Refresh` | both `handle_refresh` |
| `Store`, `Wipe`, `HangUp`, `Restart` | a download through a mount, an operator, a client that leaves, a new process under any set of mounts |

Ids of runs are compared only with the current one, so a run is kept by its age.
Ids of rows are never reused (`AUTOINCREMENT`): `gen` distinguishes the row of an
artifact from an earlier one that a request still holds.

### How `Packument` corresponds to the code

The ladder is that of `CratesIndex` with npm's differences: only the ETag of a
client counts, a version document is never conditional, an empty result is a
404, a lost file under an upstream 304 is a 503. A packument is named by its
revision; a filtered one is the set of versions it lists and the version `latest`
names. What upstream publishes is `dated` or without a `time` entry, `servable`
or named so that no tarball path can hold it, and `tagged` as latest or not.

| TLA+ | code |
|---|---|
| `disk`, `meta`, `memo`, `tarballs` | the cached pristine packument, the metadata entry, the memo entry, the cached tarballs |
| `req[c]` | the locals of `handle_packument`, `handle_version_doc` or `handle_tarball` |
| `FilterPackument`, `RepairedTags` | `filter_packument`: versions dropped by age or name, `latest` moved to the newest dated survivor when its version is gone |
| `ExtractVersionDoc` | `extract_version_doc`, from the filtered body |
| `BeginPackument` ... `FilterFails` | the ladder of `serve_packument`, `forward_packument` and `filtered_served` |
| `BeginTarball`, `GateRead` ... `GateStore` | the fail-closed gate and the unconditional fetch it makes on a cold cache |
| `ReadTarball`, `DownloadTarball`, `StoreTarball` | the rest of `handle_tarball` |

`ServedBody` computes the marker that goes with a body at the moment the answer
is built, after the filter task; the body was made for the cutoff captured before.

### How `SimplePage` corresponds to the code

A project's index can be asked for as JSON or HTML, and upstream may speak
either, whatever was asked; `Dialect` is what it speaks since a given upload.
File `f` is the `f`-th that upstream listed; `NameOf` maps files to names, since
`lookup_file` goes by name. A JSON index also lists versions, of which one
(`Unbacked`) never had a file; `ServedVersions` drops a version only if all of its
files were dropped. An HTML page without a single stamp is `Undatable`: under a
cooldown it is served as the empty index and not stored.

| TLA+ | code |
|---|---|
| `memo[fmt]` | the `FilteredMemo` entry under the project's key for that representation |
| `files[p]` | the bytes cached under the path of file `p`: those of the file they came from |
| `req[c]` | the locals of `serve_project` or `serve_file`; `found` is the index entry `lookup_file` returned |
| `WindowOk` | the validator's marker and format tag |
| `Lookup` ... `FindStale` | the ladder, `forward_project` |
| `Filter`, `FilterDone`, `Show` | `project_ok` around its blocking task, and `project_response` |
| `BeginFile`, `LookRead` ... `LookStore`, `Resolved` | the gate or URL resolution of `serve_file` through `lookup_file` |
| `Source`, `Download`, `StoreFile` | `upstream_file_url`, and the fetch and store of the bytes |

### How `Accounts` corresponds to the code

A request is the chain of statements its handler has SQLite run; each is atomic
and anything may happen between two. An account is its id; ids are never reused
(`AUTOINCREMENT`, `NextId`). A session remembers by which password it was
obtained (`proof`), for `OtherSessionsSignedOut` only.

| TLA+ | code |
|---|---|
| `config` | `UiConfig` of the running process, `ResolveUi` of flags that `ValidUi` accepts |
| `users`, `lastId`, `sessions` | the two tables and the sequence |
| `provisioned` | `UiStateInner.provisioned`, lost in a restart |
| `jar[c]`, `req[c]` | a browser's cookie; the locals of its request: the `Identity` the middleware attached, the target, the wish |
| `ResolveSession`; `ResolveOidc`, `SeenBefore`, `Provision`, `FindOidc` | the identity middleware in the two modes |
| `Login`, `Mint` | `handle_login`: verify, then `create_session`, whose foreign key refuses a deleted account |
| `FirstUser` | `handle_first_user`: count and insert in one transaction, then `create_session` |
| `CheckTarget`, `DeleteUser` | `handle_delete`: look, then delete; `ON DELETE CASCADE` takes the sessions |
| `VerifyCurrent`, `Update`, `Purge` | `handle_update_me` |
| `Restart`, `BootstrapAdmin` | a new process on the same database, under any accepted flags |
| `Disconnect`, `ProvisionFails`, `Expire` | a dropped handler or failed statement; an insert whose failure is only logged; a session at its end |

### How `Mounts` corresponds to the code

`cli` and `env` are what the operator typed and exported; each step of the start
reads them and goes on or refuses, as `main` does on an `Err`: `ParseFlags` (clap's
parsers), `MountKind` per registry (`resolve_instances`: own mount, built-in ones,
specs), `CheckNames`, `AttachAuth` (`auth::env`, `auth::resolve`), `CheckLayout`
(`mount::check`) and `Build`. A path is a sequence of segments, in which a doubled
or trailing slash leaves an empty one. A setting's value is known by where it came
from, and so is a credential: `<<"flag", name>>` or `<<"env", token>>`.
`Owners(path)` is the router that `build_app_with` assembles.

## Checks

All runs turn deadlock checking off: clock, history and faults are bounded, so
every behaviour of an instance ends.

| Run | Instance | Shows |
|---|---|---|
| `index` | two clients interleaved, failing writes, windows {0, 1}, 3 ticks, 2 versions, one fault | `CooldownHolds` and the refinement of `AgeGate` under concurrency |
| `download` | a client and a downloader, `restrict_downloads`, versions with and without a date | `GateHolds`, and `CooldownHolds` with the gate filling the caches |
| `packument` | a client that asks for anything, windows {0, 1}, TTL 0, 3 ticks, 2 versions of four sorts, one fault | `CooldownHolds`, `DocsStayHidden`, `LatestIsServed`, `GateHolds`, and that the 503 of a lost file is not permanent |
| `simple_page` | the same for PyPI, with three files of which two share a name, and uploads that change version, date, host and upstream's dialect | `CooldownHolds`, `KeepsLiveVersions`, `RepresentationFits`, `GateHolds` |
| `maven_sidecar` | a resolver and a getter, windows {0, 1}, buckets of 2, 3 ticks, 2 versions (dated or without a POM), one fault; downloads of published versions only | `ListsOnlyAged`, `ServesOnlyAged`, `HidesOnlyYoung`, `StampsNotEarly` |
| `maven_before` | the same, and downloads may ask for a version before it exists | violated: a stamp from before publication ages in too early |
| `log_hub` | two loggers, one client, a ring and a channel of 2, backlogs of 0, 1 and 3, both filters, up to 4 lines | `DeliveredInOrder`, `KeepsFeedPromise` (the refinement of `LogFeed`), `FollowersCatchUp` |
| `snapshot` | two mounts, one artifact of two files, one request, one fault, one change from outside, `KEEP_RUNS` 2 | `PrunedWasGone`, `OutOfSyncIsOwed`, `CatchesUp` |
| `accounts` | two browsers, two names, two passwords, seven sets of flags of which three are accepted, 3 accounts, 2 sessions, one fault | `SessionsHaveOwner`, `NobodyInherits`, `ProviderAccountsStay`, `OnlyOwnersChange`, `MembersAdmitMembers` |
| `account_brick` | a signup, then a restart under oidc | violated: the provisioning cache keeps a live user out |
| `password_change` | one account, three sessions | violated: a login that overlaps a password change survives it |
| `mounts` | some hundred thousand pairs of command line and environment | `RoutesApart`, `CredentialsReachTheirMount` |

*Bounds.* `MaxNow`, `MaxRev`, `MaxFaults` bound the clock, upstream and the
number of failures; they are guards of `Tick`, `Publish` and `Fault`. Three ticks
and a window of 1 let a version be published, hidden, and shown, with entries
that expire on the way; two versions are needed for a body that is partly
filtered and for a superseded revision; one fault is a restart, an outage, a
wiped file or a lost entry at any moment, and two of them at once are what the
theorems, which bound nothing, cover. Two clients suffice for the races (a third
adds no new kind of pair). In `packument` and `simple_page` one client asks for
everything in turn, so what one request leaves in the caches the next, of
another kind, finds; two at once are the theorems' matter, or, for PyPI, those of
the ladder it shares with the others. At most one version is published per tick:
Last-Modified has a resolution of a second, and two publications within it are
indistinguishable to the code. In `simple_page` a file whose name is its own and
two that share one (`SharedNames`) give the gate both cases, and the order in
which the two are uploaded all there is to tell them apart by. For `MavenSidecar` three ticks and a window of 1
let a version be published, probed, and age; with two versions a probe can fail
for one while the other is dated, and a save can carry the stamps of both. For
`LogHub` four lines overflow a ring and a channel of 2 and leave lines that are in
the backlog and the channel at once, in only one of them, and in neither; one
client is enough, for clients share only the hub and do not change it; two
loggers contend for the lock. For `Snapshot` two mounts are what scoped runs,
unmounting and cleaning up need; a second artifact of a mount would be scanned,
pruned and purged like the first. A purge, a scan and the commit that brings the
row back take one request and one run; a re-pull that half succeeds takes two
files. Any number of requests is the theorem's matter. For `Accounts` two
browsers are the one that changes an account and the one that is surprised;
three ids let an account be deleted and a later one come. A restart, the one
fault, can switch the mode either way. For `Mounts` the instances vary one thing
at a time around a plain command line, and combine layouts, Maven and PyPI specs,
built-in mounts, flags and variables, with names that fold into the same
environment token, paths inside each other's, and a spec that takes the name of a
disabled registry whose `--maven-proxy-url` is set: that flag is not for it.

*Fairness.* The fair specifications make each request's next step weakly fair --
the tokio runtime polls ready tasks, and the upstream client has timeouts, so a
fetch ends, by failing at worst. Nothing is assumed of the clock, upstream,
restarts or faults; failing steps are not fair.
For `LogHub`, `Broadcast` is weakly fair (push does not block while it holds the
lock) and so is reading: axum polls the stream for as long as the client
reads. Nobody has to log, to ask or to stay. For `Snapshot` only the loop is
weakly fair: the interval keeps ticking and statements end. A request may wait
for upstream for ever, and the table must catch up without it. `Packument`'s
`FairSpec` also has npm ask for the packument again and again (strong fairness of
`BeginPackument`: the same client's other requests may take turns with it). The
liveness properties are `LostFileIsTransient`, `FollowersCatchUp` and `CatchesUp`.

*The disagreements.* The three violations are described under "findings" in
`PROJECT.json` with the lines on both sides. `maven_before` needs a download of a
version that is not published yet together with a probe that fails with neither
404 nor 410, and then shows the version before it is a window old; hence the
hypothesis `~AsksUnpublished` of the passing run and of the theorems.
`account_brick` needs an account made in builtin mode whose name the provider
also knows, and a restart under oidc. `password_change` needs a login that
verified the old password before the change and creates its session after the
purge.

Other things seen while modelling, which break no stated promise or only err on
the closed side, and have no run of their own: a 304 of the index is decided in
one bucket and labelled in the next, so a client that keeps the label keeps its
copy a bucket longer; around a publication the memo can hold older bytes under a
newer validator until the entry expires; of two concurrent Maven probes the later
save can drop a date the earlier one learned, and an aged version is hidden
again; a gap event of the log counts lines the client's filter would have dropped
as well; a scan leaves out the unreadable directory of one package without
being incomplete, so its rows go until the next scan; a body over the size cap is
answered like any failed fetch, with the stale body or 502, where the
repository's README (line 105) has 507; two users may delete each other at
once (manage.rs:71 checks the caller only); with crates mounted at `/`, paths
under `/api/v1/crates` go to the registry and not to the UI.

One more disagreement is stated here and not by a violated run. `lookup_file`
(file.rs:44) takes the first entry of the file's *name*, while the request and the
cache go by *path*. Where an index has two files of one name, the path of the
second is answered with the bytes the first's entry points to, which are then
cached under the second path; or, if that host is not allowed, with the
second file's own bytes, from the pinned host or from the cache, though only the
first's age was looked at -- the second may be young or carry no date. The
code's comments say otherwise: "the entry that says how old a file is also says
where it lives, so the two can never disagree" (file.rs:138-139), and same-named
files at different paths "must not collide" (file.rs:166-168); so does the
repository's README (line 143): "The gate and the download resolve from the same
index entry, so they cannot disagree." `simple_page` has two such files, and
`GateHolds` promises for them only what the code keeps: that the first of the
name has aged. What it says of the bytes it says where no other file has that
name, as on PyPI itself.

## Proofs

`Crates_proofs` proves of `CratesIndex`, for any set of clients, any windows, any bucket
length, TTL and bounds:

- `TypeCorrect`: `Spec => []TypeOK`;
- `CooldownAlwaysHolds`: `Spec => []CooldownHolds`;
- `RefinesAgeGateHolds`: under `~RelabelsOn304`, `Spec => RefinesAgeGate`, the whole
  refinement of `AgeGate`.

`CooldownHolds` -- a client answered by this process holds no dated version
younger than the running window -- is not inductive: a 304 confirms a copy made
earlier, perhaps by another process under another window, and the memo returns
a body made earlier. `CooldownInv` adds what those answers rest on:
publication dates lie in the past and bodies are of known revisions
(`PublishedInPast`, `KnownRevisions`); the memo is aged by the running window
(`MemoAged`); a client's copy is aged by *its marker's* window (`MarkersTrue`);
a request's `window_ok` means the copy's marker has the running window
(`WindowOkTrue`), which survives until the answer since a restart drops all
requests; and the cutoff captured before filtering is no later than a window
ago (`CutsPast`), which time only confirms. Each action is one lemma for the
types and one for the invariant; both theorems combine them by PTL. The only
assumptions are the named ones on the constants, `BucketAssumption` and
`IndexAssumption`.

The refinement says more than `CooldownHolds`: that a client ends up with *one*
published revision, and that nothing older than the window is missing from it
for longer than a bucket. `RefineInv` says what each cache vouches for. A memo entry
under a validator, and a client's copy under a marker, is some revision seen
through a cutoff of the bucket it names (`Seen`, `MemoTells`, `CopyTells`); a copy
without a marker but with a validator is a whole revision; the file on disk is one
too (`DiskTells`). A request under way (`RequestTells`) has sent its copy's own
validators, its `window_ok` speaks of the bucket in which it *arrived*, and the
cutoff it captured lies between its arrival and now. Lemmas `BucketFloor`,
`BucketOrder` and `TimesOrder` do the arithmetic of buckets. A step of the ladder
is then a stutter (`GotoSilent`, `RefuseSilent`) or one `AnswerWith`
(`AnswerRefines`): a 304 because its validator makes `CopyTells` apply to the copy,
a memo hit because its bucket is that of now, a filtered body because its cutoff
was captured after the request arrived. The hypothesis `~RelabelsOn304` is
needed: a client that replaces the ETag of its copy by the one a 304 carries (as
RFC 9111 allows) may file a body of one bucket under the next, and TLC then finds
`RefinesAgeGate` violated, though never `CooldownHolds`, which is proved for both.

`Crates_proofs` proves of `CratesDownload`'s `DownloadSpec`:

- `DownloadTypeCorrect`: `[]DownloadTypeOK`;
- `GateAlwaysHolds`: `[]GateHolds`;
- `CooldownBesideGate`: `[]CooldownHolds`, that the gate, which writes the index
  file and the metadata entry too, does the index no harm.

`GateInv` adds to `GateHolds` that a download at the gate carries a cutoff at
least a window in the past and judges a revision upstream has published, and
that one past the gate is of a cleared version. It rests on `CooldownInv`
(publications in the past, the file of a known revision), and the steps of the
index handler are taken over from the proofs of `CratesIndex`: to the downloads they
only let time pass.

`MavenSidecar_proofs` proves, for any resolvers and getters, windows, bucket
length, probe outcomes and bounds:

- `TypeCorrect`: `Spec => []TypeOK`;
- under `~AsksUnpublished`: `ListsOnlyAgedHolds`, `ServesOnlyAgedHolds` and
  `StampsNotEarlyHolds`, from one inductive invariant, `SidecarInv`.

The heart of `SidecarInv` is that no stamp, on disk or in any request's hands, is
earlier than the publication of its version (`StampsNotEarly`). It survives the
lost updates: whichever whole map is saved last, each of its stamps is late
enough. Together with cutoffs at least a window in the past (`CutsPast`) a stamp
at or below the cutoff dates an aged version (lemma `StampAged`); the memo and
the versions past the gate are then aged too (`MemoAged`, `GatePassed`), and
stay so, since a restart drops them. The proof reads the invariant one request
at a time (`JobOk`, `GetOk`), so a step re-establishes it for the request it
moves.

`HidesOnlyYoungHolds` is the converse, and needs no hypothesis on what downloads ask
for. `HidesInv` is about the versions no probe of which has failed. Whoever holds
a stamp of a dated one -- the file, a listing, a download -- holds its exact date
(`Exact`), so a lost update loses stamps but never falsifies one; a request that
filters has a stamp of every version it listed, those it loaded and those it
probed for (`JobKnows`); and what is filtered from exact stamps, memo and answers
alike, lists everything that had aged by the start of its bucket (`Complete`).

`LogHub_proofs` proves, for any loggers and clients, any filters, any sizes of the
ring, the channel and the backlogs, and any number of lines:

- `LogHubTypeCorrect`: `Spec => []LogHubTypeOK`;
- `DeliveredInOrderHolds`: `Spec => []DeliveredInOrder`;
- `ImplementsLogFeed`: `Spec => KeepsFeedPromise`, the whole refinement.

The invariant behind the last two, `FeedInv`, says what subscribing before the
snapshot buys: ring and channel are runs of consecutive lines that end with the
last line logged, except between `Record` and `Broadcast`, when the channel is
one line behind and the lock is held; what is left of a backlog is a run that
ends at `last_seq`; and while any of it is left, the receiver stands no further
than the line after it. Hence no line lies between the backlog and the first live one. A step of
the hub is then a `Write` or a stutter of `LogFeed`, one of a request a `Begin`,
an `Advance` by delivery, omission or loss, or a stutter.

`Snapshot_proofs` proves, for any mounts, artifacts, files, requests and bounds:

- `SnapshotTypeCorrect`: `Spec => []SnapshotTypeOK`, which includes the unique
  index: no artifact has two rows;
- `PrunedWasGoneHolds`: `Spec => PrunedWasGone`;
- `OutOfSyncIsOwedHolds`: `Spec => []OutOfSyncIsOwed`.

`TaskInv` says what a run has noted (scanned mounts and mounts to scan are
disjoint parts of its scope, and it has seen artifacts of the former only). For
`PrunedWasGone` the history is then shown complete (`GoneInv`): whatever is not
cached now, or was not seen in a mount already scanned, has been absent during the
run. `OutOfSyncIsOwed` is not inductive, since a table in sync while a run
holds an older scan of it is about to be changed by the commit: `OwedInv` demands
of a mount the run has scanned that the scan still matches the cache, or that
a refresh is to come. The type invariant needs that a request under way is about a
mounted registry (`ReqMounted`), and that some generation is free for a new row
(`FreshGenNat`, by counting the clients).

`Accounts_proofs` proves, for any browsers, names, passwords, flags and bounds:

- `AccountsTypeCorrect`: `Spec => []TypeOK`;
- `SessionsHaveOwnerHolds`: `Spec => []SessionsHaveOwner`;
- `NobodyInheritsHolds`, `ProviderAccountsStayHolds`, `OnlyOwnersChangeHolds`,
  `MembersAdmitMembersHolds`, of the four action properties.

None of them is inductive by itself, for a request is let in by one statement and
acts by another. `AccountsInv` says what stays true of it in between
(`RequestOk`): the id it is about was handed out before, so no later account can
have it; one that is about to delete or update is not about a provider's row,
since a row never changes its source (`Keeps`) and a provider's row has no
password to verify (`TablesOk`). Lemma `RowSteps` then names the three ways a step
changes a row -- inserted under the next id, deleted, updated by its owner -- from
which each action property follows.

`Packument_proofs` proves, for any clients, windows, TTL, bucket length,
publications and bounds, from `BucketAssumption` and `PackumentAssumption`:

- `PackumentTypeCorrect`: `Spec => []TypeOK`;
- `CooldownHoldsAlways`, `DocsStayHiddenAlways`, `LatestIsServedAlways` and
  `GateHoldsAlways`: the four safety invariants of the run.

`PackInv` labels every body kept with the window it was filtered through: the memo
with the running one, a client's copy with its marker's (`CopyOk`), and then
says of each version of it that it is servable and old enough, and of its
`latest` that it is one of them (`BodyOk`). A request under way (`RequestOk`)
holds a revision upstream has published, a cutoff a window in the past
(`CutOk`), a `window_ok` that still speaks of the copy its client has, and past
the gate a version that is cleared. The clauses take the history, the window and
the clock as parameters, so that one lemma (`LaterClient`) carries them through
ticks and publications, and one (`OneClient`) through a step of one client. That
the repaired `latest` is served rests on `GreatestFacts`: a nonempty set of
positions has a greatest member, by the well-foundedness of the naturals.

`SimplePage_proofs` proves, for any clients, files, dialects, windows, TTL, bucket
length and bounds:

- `SimpleTypeCorrect`: `Spec => []TypeOK`;
- `CooldownHoldsAlways`, `KeepsLiveVersionsAlways`, `RepresentationFitsAlways` and
  `GateHoldsAlways`.

`SimpleInv` follows `PackInv` in labelling what is kept with the window it was
filtered through, and adds what PyPI has more of. The memo of a format holds a
body of that format, and a `window_ok` speaks of a copy of the format that was asked
for, since the format is part of the validator. A body filtered under a cooldown
lists a version only if it shows a file of it or upstream had none for it, and a
JSON one lists every version it shows a file of (`Filtered`); without a cooldown
that is so where upstream lists versions (`Lively`), while JSON made of an HTML page
shows files and lists nothing. `lookup_file` finds the first file of a name or
none (`EntryFacts`), whichever revision it reads; so a request past the gate
knows of its path's name that the first file of it is cleared, and of a path
whose name is its own (`OnlyOne`) that what is cached, found and handed out is the
file of that path.

`Mounts_proofs` proves, for any set of command lines and environments, any names,
tokens, settings and defaults:

- `MountsTypeCorrect`: `Spec => []TypeOK`;
- `CredentialsReachTheirMountHolds`: `Spec => []CredentialsReachTheirMount`;
- `RoutesApartHolds`: under `LinksTold`, `Spec => []RoutesApart`.

A start that goes on has passed the checks before, and the invariants say what
each leaves behind. `StartInv` carries the mounts as a sequence of well-formed
records (`MountsOk`), which each of the three sources of mounts extends: a kind's
own, the built-in ones, those of the specs; none of a kind whose turn has not come.
`AuthInv` keeps, from the step that checks them, that names are apart, that flags
and variables name mounts that are there, and that what is attached is what
`auth::resolve` states; all of it reads the mounts' names only (`AuthByName`), so
attaching the credentials does not disturb it. Two mounts that sent one
credential would share a name or a token. `LayoutInv` keeps the layout that
`mount::check` accepted and that links carry their mount's path. A path is then
owned once because two prefixes of one path are equal or nested
(`PrefixesClash`), and `Clash`, which looks both ways, refused exactly that for
every pair, whichever mount was made first; a lone mount at `/` is the other case
(`LoneOwner`). That `ParsePath` cuts after the last segment that is not empty
(`ParsePathFacts`), and changes nothing the second time (`ParseOnce`), makes its
paths the ones the router compares.

The named assumptions are what the parsers ensure: names are not empty and no path
segment that would be refused, the kinds and built-in mounts have names, a
default is something (`NamesAssumption`, `NoneAssumption`), a path is a sequence of
segments, two kinds have a default second upstream (`TypedAssumption`).
`LinksTold` is a hypothesis about the operator: a proxy URL that is stated has the
path of the mount it is stated for -- in a spec, that spec's mount, and by
`--<kind>-proxy-url`, the registry's own mount and no other, a spec that takes its
name included (`StatedProxyUrl`). The code takes it as it is, since a reverse
proxy may rewrite paths; TLC checks that the command lines of the run meet it.

Only model-checked: liveness (TLAPS has no ENABLED or fairness reasoning). Every
safety property, action property and refinement of a passing run is also a theorem.

## Not modelled

A panic of the index filter task (500); malformed paths and `config.json`; two
spellings of a crate name that share one file; yanked versions; several
publications within one second; a wall clock that goes backwards; an upstream
that sends different sets of validators in different responses; a detached
write that lands after the same client has already asked again.
Dates, NDJSON, JSON and XML scanning and HTTP formatting are abstracted to what
they yield.

- npm: dist-tags other than `latest` (each is dropped or kept by the same rule),
  the rewriting of tarball URLs, the ping and search routes.
- PyPI: `.metadata` files, which age and travel with their distribution; escaping
  and scanning of HTML text; the redirect to normalized names.
- Maven: the ladder in front of `metadata_ok`, `<latest>` and `<release>`, version
  names that no path can hold, snapshots' own metadata.
- Log hub: a poisoned lock, the wording of lines, and the browser's own
  reconnection after a stream ends; a restart begins a new log.
- Snapshots: sizes and times of a row; a scan of one mount that files change under
  (it is taken to be of one moment); the expiry of sessions in the retention
  sweep, which is `Accounts`' `Expire`.
- Accounts: hashing, the attributes of cookies, the length rules of names and
  passwords, read-only views.
- Command line: the text of values and messages, header names beyond the two
  kinds the checks tell apart, `CHILLED_UPSTREAM_HEADERS` and a mount named
  `upstream`; a mount that is renamed or re-pointed between two starts and so
  takes over a cache directory.
- `chilled-ui`, `chilled-wire` and `chilled-testkit` (a browser front end, plain
  data types, a test harness), the database schema beyond its keys, and logging.

## Plan

1. The ladder in front of the Maven metadata, and `<latest>`/`<release>`.
2. Proofs of what that adds.
