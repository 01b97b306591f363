---------------------------- MODULE MavenSidecar ----------------------------
(***************************************************************************)
(* The ages of one Maven artifact's versions. Maven metadata carries no    *)
(* dates, so maven-proxy probes each version's POM and keeps what it       *)
(* learned in a sidecar file. Metadata requests and the download gate load *)
(* that file, probe upstream, and write it back whole, concurrently.       *)
(*                                                                         *)
(* A metadata request starts where the caching ladder hands metadata_ok a  *)
(* document: any revision published so far, under a validator naming it.   *)
(***************************************************************************)
EXTENDS Cooldown, FiniteSets

CONSTANTS
  Resolvers, Getters,   \* clients of metadata and of artifact files; each
                        \* has at most one request under way
  Windows,              \* cooldown windows a start may configure; 0: none
  RestrictDownloads,    \* settings.restrict_downloads
  AsksUnpublished,      \* getters may ask for versions not published yet
  Kinds,                \* what a POM probe can find, of those below
  MaxNow, MaxRev, MaxFaults     \* bounds of the clock, upstream and faults

(* A POM with a usable Last-Modified, one without, and no POM at all.      *)
AllKinds == {"dated", "undated", "missing"}

ASSUME SidecarAssumption ==
  /\ Windows \subseteq Nat /\ Windows # {}
  /\ Kinds \subseteq AllKinds
  /\ {RestrictDownloads, AsksUnpublished} \subseteq BOOLEAN
  /\ MaxNow \in Nat /\ MaxRev \in Nat /\ MaxFaults \in Nat

VARIABLES
  now,          \* the wall clock
  hist,         \* versions published upstream, oldest first
  faults,       \* failures and restarts so far
  failed,       \* history: the versions some probe of which has failed
  window,       \* the running process' cooldown for the artifact
  sidecar,      \* .chilled-versions.json: a stamp per version
  memo,         \* FilteredMemo's entry for the artifact
  files,        \* the versions whose artifact file is cached
  job,          \* a metadata request under way: its locals
  page,         \* the last metadata answer this process gave a resolver
  get,          \* a download under way: its locals
  reply         \* the last answer this process gave a getter

envVars == <<now, hist, faults, failed, window>>
jobVars == <<job, page>>
getVars == <<get, reply>>
vars == <<envVars, sidecar, memo, files, jobVars, getVars>>

Versions == 1..MaxRev

NoStamp == [ts |-> 0, src |-> "none"]
NoTimes == [v \in Versions |-> NoStamp]
NoMemo == [rev |-> 0, bkt |-> 0, lines |-> {}]
NoJob == [pc |-> "idle", rev |-> 0, cut |-> 0, times |-> NoTimes,
          pending |-> {}, changed |-> FALSE]
NoPage == [status |-> 0, rev |-> 0, cut |-> 0, lines |-> {}]
NoGet == [pc |-> "idle", ver |-> 0, cut |-> 0, times |-> NoTimes]
NoReply == [status |-> 0, ver |-> 0]

Cutoff == CutoffFrom(now, window)

Fault == faults < MaxFaults /\ faults' = faults + 1
-----------------------------------------------------------------------------
(* Stamps and probes.                                                      *)

EpochFirstSeen == [ts |-> 0, src |-> "fs"]  \* mutation: a clock error's default

FirstSeen == [ts |-> now, src |-> "fs"]

Contains(times, v) == times[v] # NoStamp

(* A first-seen guess is worth another probe while it still gates.         *)
NeedsRetry(times, v, cut) == times[v].src = "fs" /\ times[v].ts > cut

Pending(times, rev, cut) ==
  {v \in 1..rev : ~Contains(times, v) \/ NeedsRetry(times, v, cut)}

Published(v) == v \in 1..Len(hist)

Absent(v) == ~Published(v) \/ hist[v].kind = "missing"

(* probe_version on an upstream that answers 2xx; Probed::stamp makes a    *)
(* first-seen guess of an absent POM.                                      *)
FirstPomStamp(v) ==         \* mutation: always the first version's POM
  IF Published(v) /\ hist[v].kind = "dated"
    THEN [ts |-> hist[1].at, src |-> "lm"] ELSE FirstSeen

Stamp(v) ==
  IF Published(v) /\ hist[v].kind = "dated"
    THEN [ts |-> hist[v].at, src |-> "lm"] ELSE FirstSeen

(* filter_metadata: a version of unknown age is dropped.                   *)
Survivors(times, rev, cut) ==
  {v \in 1..rev : Contains(times, v) /\ times[v].ts <= cut}
-----------------------------------------------------------------------------
(* metadata_ok and filter_pipeline.                                        *)

JobAt(c, pc) == job[c].pc = pc

Show(c, status, rev, cut, lines) ==
  /\ job' = [job EXCEPT ![c] = NoJob]
  /\ page' = [page EXCEPT ![c] = [status |-> status, rev |-> rev, cut |-> cut,
                                  lines |-> lines]]

JobGoto(c, r) == job' = [job EXCEPT ![c] = r] /\ UNCHANGED page

AnyBucketMemoHas(rev) == memo.rev = rev     \* mutation: whatever bucket

MemoHas(rev) == memo.rev = rev /\ memo.bkt = Bucket(Cutoff)

MetadataOk(c, rev) ==
  /\ JobAt(c, "idle")
  /\ \/ Cutoff = Unfiltered /\ Show(c, 200, rev, 0, 1..rev)
     \/ Cutoff # Unfiltered /\ MemoHas(rev) /\ Show(c, 200, rev, Cutoff, memo.lines)
     \/ /\ Cutoff # Unfiltered /\ ~MemoHas(rev)
        /\ job' = [job EXCEPT ![c] =
                    [NoJob EXCEPT !.pc = "load", !.rev = rev, !.cut = Cutoff]]
        /\ page' = [page EXCEPT ![c] = NoPage]
  /\ UNCHANGED <<envVars, sidecar, memo, files, getVars>>

Load(c) ==
  /\ JobAt(c, "load")
  /\ LET pending == Pending(sidecar, job[c].rev, job[c].cut)
     IN  JobGoto(c, [job[c] EXCEPT !.pc = "probe", !.times = sidecar,
                                   !.pending = pending, !.changed = pending # {}])
  /\ UNCHANGED <<envVars, sidecar, memo, files, getVars>>

(* One of the concurrent probes comes back; an absent POM stays hidden.    *)
Learn(c, v, stamp) ==
  JobGoto(c, [job[c] EXCEPT !.pending = @ \ {v}, !.times[v] = stamp])

Probe(c, v) ==
  /\ JobAt(c, "probe") /\ v \in job[c].pending
  /\ Learn(c, v, IF Absent(v) THEN FirstSeen ELSE Stamp(v))
  /\ UNCHANGED <<envVars, sidecar, memo, files, getVars>>

(* A transport error or a status other than 2xx, 404 and 410.              *)
ProbeFails(c, v) ==
  /\ JobAt(c, "probe") /\ v \in job[c].pending /\ Fault
  /\ Learn(c, v, FirstSeen)
  /\ failed' = failed \cup {v}
  /\ UNCHANGED <<now, hist, window, sidecar, memo, files, getVars>>

(* The whole map replaces the file, by a rename.                           *)
Saved(c) == IF job[c].changed THEN job[c].times ELSE sidecar

Probed(c) == JobAt(c, "probe") /\ job[c].pending = {}

SaveAndFilter(c) ==
  /\ Probed(c)
  /\ sidecar' = Saved(c)
  /\ JobGoto(c, [job[c] EXCEPT !.pc = "done", !.changed = FALSE])
  /\ UNCHANGED <<envVars, memo, files, getVars>>

SaveFails(c) ==
  /\ Probed(c) /\ job[c].changed /\ Fault
  /\ JobGoto(c, [job[c] EXCEPT !.pc = "done", !.changed = FALSE])
  /\ UNCHANGED <<now, hist, failed, window, sidecar, memo, files, getVars>>

(* Memoize under the bucket of the cutoff filtered with; nothing is        *)
(* memoized, and 404 answered, when no version survived.                   *)
Done(c) ==
  LET r == job[c]
      lines == Survivors(r.times, r.rev, r.cut)
  IN
  /\ JobAt(c, "done")
  /\ \/ lines = {} /\ Show(c, 404, r.rev, r.cut, {}) /\ UNCHANGED memo
     \/ /\ lines # {}
        /\ Show(c, 200, r.rev, r.cut, lines)
        /\ memo' = [rev |-> r.rev, bkt |-> Bucket(r.cut), lines |-> lines]
  /\ UNCHANGED <<envVars, sidecar, files, getVars>>

(* The client hangs up; a save already handed to the thread pool lands.    *)
Disconnect(c) ==
  /\ ~JobAt(c, "idle") /\ Fault
  /\ JobGoto(c, NoJob)
  /\ sidecar' = IF Probed(c) THEN Saved(c) ELSE sidecar
  /\ UNCHANGED <<now, hist, failed, window, memo, files, getVars>>
-----------------------------------------------------------------------------
(* serve_artifact: the gate, the file cache, upstream.                     *)

GetAt(d, pc) == get[d].pc = pc

Reply(d, status) ==
  /\ get' = [get EXCEPT ![d] = NoGet]
  /\ reply' = [reply EXCEPT ![d] = [status |-> status, ver |-> get[d].ver]]

GetGoto(d, r) == get' = [get EXCEPT ![d] = r] /\ UNCHANGED reply

Gated == RestrictDownloads /\ Cutoff # Unfiltered

ServeArtifact(d, v) ==
  /\ GetAt(d, "idle")
  /\ AsksUnpublished \/ Published(v)
  /\ get' = [get EXCEPT ![d] = [NoGet EXCEPT
               !.pc = IF Gated THEN "load" ELSE "file",
               !.ver = v, !.cut = IF Gated THEN Cutoff ELSE 0]]
  /\ reply' = [reply EXCEPT ![d] = NoReply]
  /\ UNCHANGED <<envVars, sidecar, memo, files, jobVars>>

FailOpenVerdict(d, ts) ==   \* mutation: what could not be dated may pass
  IF ts <= get[d].cut \/ get[d].times[get[d].ver].src = "fs"
    THEN GetGoto(d, [NoGet EXCEPT !.pc = "file", !.ver = get[d].ver]) ELSE Reply(d, 403)

LegalVerdict(d, ts) ==      \* mutation: another refusal
  IF ts <= get[d].cut THEN GetGoto(d, [NoGet EXCEPT !.pc = "file", !.ver = get[d].ver]) ELSE Reply(d, 451)

Verdict(d, ts) ==
  IF ts <= get[d].cut THEN GetGoto(d, [NoGet EXCEPT !.pc = "file", !.ver = get[d].ver]) ELSE Reply(d, 403)

GateLoad(d) ==
  LET v == get[d].ver IN
  /\ GetAt(d, "load")
  /\ IF Contains(sidecar, v) /\ ~NeedsRetry(sidecar, v, get[d].cut)
       THEN Verdict(d, sidecar[v].ts)
       ELSE GetGoto(d, [get[d] EXCEPT !.pc = "probe", !.times = sidecar])
  /\ UNCHANGED <<envVars, sidecar, memo, files, jobVars>>

(* An absent version is 404 and leaves no stamp.                           *)
GateProbe(d) ==
  LET v == get[d].ver IN
  /\ GetAt(d, "probe")
  /\ IF Absent(v) THEN Reply(d, 404)
     ELSE GetGoto(d, [get[d] EXCEPT !.pc = "save", !.times[v] = Stamp(v)])
  /\ UNCHANGED <<envVars, sidecar, memo, files, jobVars>>

GateProbeFails(d) ==
  /\ GetAt(d, "probe") /\ Fault
  /\ GetGoto(d, [get[d] EXCEPT !.pc = "save", !.times[get[d].ver] = FirstSeen])
  /\ failed' = failed \cup {get[d].ver}
  /\ UNCHANGED <<now, hist, window, sidecar, memo, files, jobVars>>

GateSave(d) ==
  /\ GetAt(d, "save")
  /\ sidecar' = get[d].times
  /\ Verdict(d, get[d].times[get[d].ver].ts)
  /\ UNCHANGED <<envVars, memo, files, jobVars>>

GateSaveFails(d) ==
  /\ GetAt(d, "save") /\ Fault
  /\ Verdict(d, get[d].times[get[d].ver].ts)
  /\ UNCHANGED <<now, hist, failed, window, sidecar, memo, files, jobVars>>

ReadFile(d) ==
  /\ GetAt(d, "file")
  /\ IF get[d].ver \in files THEN Reply(d, 200)
                             ELSE GetGoto(d, [get[d] EXCEPT !.pc = "fetch"])
  /\ UNCHANGED <<envVars, sidecar, memo, files, jobVars>>

FetchArtifact(d) ==
  /\ GetAt(d, "fetch")
  /\ IF Published(get[d].ver) THEN GetGoto(d, [get[d] EXCEPT !.pc = "store"])
                              ELSE Reply(d, 404)
  /\ UNCHANGED <<envVars, sidecar, memo, files, jobVars>>

(* Transport error 502, an upstream 5xx forwarded, a body over the cap 507 *)
FetchFails(d, status) ==
  /\ GetAt(d, "fetch") /\ Fault
  /\ Reply(d, status)
  /\ UNCHANGED <<now, hist, failed, window, sidecar, memo, files, jobVars>>

StoreArtifact(d) ==
  /\ GetAt(d, "store")
  /\ files' = files \cup {get[d].ver}
  /\ Reply(d, 200)
  /\ UNCHANGED <<envVars, sidecar, memo, jobVars>>

StoreFails(d) ==
  /\ GetAt(d, "store") /\ Fault
  /\ Reply(d, 200)
  /\ UNCHANGED <<now, hist, failed, window, sidecar, memo, files, jobVars>>

HangUp(d) ==
  /\ ~GetAt(d, "idle") /\ Fault
  /\ GetGoto(d, NoGet)
  /\ sidecar' = IF GetAt(d, "save") THEN get[d].times ELSE sidecar
  /\ files' = IF GetAt(d, "store") THEN files \cup {get[d].ver} ELSE files
  /\ UNCHANGED <<now, hist, failed, window, memo, jobVars>>
-----------------------------------------------------------------------------
(* The world around the handlers.                                          *)

Tick ==
  /\ now < MaxNow /\ now' = now + 1
  /\ UNCHANGED <<hist, faults, failed, window, sidecar, memo, files, jobVars, getVars>>

Publish(kind) ==
  /\ Len(hist) < MaxRev
  /\ hist' = Append(hist, [at |-> now, kind |-> kind])
  /\ UNCHANGED <<now, faults, failed, window, sidecar, memo, files, jobVars, getVars>>

(* Files survive a restart, whatever cooldown it configures.               *)
Restart(w) ==
  /\ Fault
  /\ window' = w
  /\ memo' = NoMemo
  /\ job' = [c \in Resolvers |-> NoJob] /\ page' = [c \in Resolvers |-> NoPage]
  /\ get' = [d \in Getters |-> NoGet] /\ reply' = [d \in Getters |-> NoReply]
  /\ UNCHANGED <<now, hist, failed, sidecar, files>>

EvictMemo ==
  /\ Fault /\ memo # NoMemo
  /\ memo' = NoMemo
  /\ UNCHANGED <<now, hist, failed, window, sidecar, files, jobVars, getVars>>

(* purge_artifact removes one version's directory; the sidecar stays.      *)
PurgeArtifact(v) ==
  /\ v \in files
  /\ files' = files \ {v}
  /\ UNCHANGED <<envVars, sidecar, memo, jobVars, getVars>>

(* purge_all removes the sidecar with everything else on disk.             *)
PurgeAll ==
  /\ Fault
  /\ files' = {} /\ sidecar' = NoTimes
  /\ UNCHANGED <<now, hist, failed, window, memo, jobVars, getVars>>

Init ==
  /\ now = 1 /\ hist = <<>> /\ faults = 0 /\ failed = {}
  /\ window \in Windows
  /\ sidecar = NoTimes /\ memo = NoMemo /\ files = {}
  /\ job = [c \in Resolvers |-> NoJob] /\ page = [c \in Resolvers |-> NoPage]
  /\ get = [d \in Getters |-> NoGet] /\ reply = [d \in Getters |-> NoReply]

Resolve(c) ==
  \/ \E rev \in 1..Len(hist) : MetadataOk(c, rev)
  \/ Load(c) \/ SaveAndFilter(c) \/ SaveFails(c) \/ Done(c) \/ Disconnect(c)
  \/ \E v \in Versions : Probe(c, v) \/ ProbeFails(c, v)

Download(d) ==
  \/ \E v \in Versions : ServeArtifact(d, v)
  \/ GateLoad(d) \/ GateProbe(d) \/ GateSave(d)
  \/ ReadFile(d) \/ FetchArtifact(d) \/ StoreArtifact(d)
  \/ GateProbeFails(d) \/ GateSaveFails(d) \/ StoreFails(d) \/ HangUp(d)
  \/ \E status \in {500, 502, 507} : FetchFails(d, status)

Next ==
  \/ \E c \in Resolvers : Resolve(c)
  \/ \E d \in Getters : Download(d)
  \/ Tick
  \/ \E kind \in Kinds : Publish(kind)
  \/ \E w \in Windows : Restart(w)
  \/ EvictMemo \/ PurgeAll
  \/ \E v \in Versions : PurgeArtifact(v)

Spec == Init /\ [][Next]_vars
-----------------------------------------------------------------------------
(* Properties.                                                             *)

Stamps == [ts : Nat, src : {"none", "lm", "fs"}]
Times == [Versions -> Stamps]
Jobs ==
  [pc : {"idle", "load", "probe", "done"}, rev : 0..MaxRev, cut : Nat, times : Times,
   pending : SUBSET Versions, changed : BOOLEAN]
Pages == [status : {0, 200, 404}, rev : Nat, cut : Nat, lines : SUBSET Versions]
Gets ==
  {g \in [pc : {"idle", "load", "probe", "save", "file", "fetch", "store"},
          ver : Versions \cup {0}, cut : Nat, times : Times] :
     g.pc = "idle" \/ g.ver \in Versions}
Replies == [status : {0, 200, 403, 404, 500, 502, 507}, ver : Versions \cup {0}]

(* Every variable ranges over the values the code's types allow.           *)
TypeOK ==
  /\ now \in Nat \ {0} /\ faults \in Nat /\ window \in Windows
  /\ hist \in Seq([at : Nat, kind : AllKinds]) /\ Len(hist) <= MaxRev
  /\ failed \subseteq Versions
  /\ sidecar \in Times
  /\ memo \in [rev : Nat, bkt : Nat, lines : SUBSET Versions]
  /\ files \subseteq Versions
  /\ job \in [Resolvers -> Jobs] /\ page \in [Resolvers -> Pages]
  /\ get \in [Getters -> Gets] /\ reply \in [Getters -> Replies]

Aged(v) == Published(v) /\ hist[v].at + window <= now

(* The cooldown on metadata: whatever the probes found, whenever they were *)
(* made and whichever request saved them last, no version younger than the *)
(* window is listed.                                                       *)
ListsOnlyAged ==
  \A c \in Resolvers :
    window > 0 => \A v \in page[c].lines : Aged(v)

(* --restrict-downloads: no artifact younger than the window is handed out.*)
ServesOnlyAged ==
  \A d \in Getters :
    RestrictDownloads /\ window > 0 /\ reply[d].status = 200 => Aged(reply[d].ver)

(* And nothing else is hidden: a listed version with a date, no probe of   *)
(* which has failed, is shown once it has aged past the start of the       *)
(* bucket in which the request arrived -- whoever saved the sidecar last,  *)
(* whatever was memoized, purged or restarted.                             *)
HidesOnlyYoung ==
  \A c \in Resolvers :
    LET p == page[c] IN
    p.status # 0 /\ window > 0 =>
      \A v \in (1..p.rev) \ failed :
        hist[v].kind = "dated" /\ hist[v].at <= Bucket(p.cut) * BucketLen => v \in p.lines

(* Why: no stamp, on disk or in a request's hands, is earlier than the     *)
(* publication of the version it is about.                                 *)
NotEarly(times) ==
  \A v \in Versions : Contains(times, v) => Published(v) /\ hist[v].at <= times[v].ts

StampsNotEarly ==
  /\ NotEarly(sidecar)
  /\ \A c \in Resolvers : NotEarly(job[c].times)
  /\ \A d \in Getters : NotEarly(get[d].times)

(* The two properties, inductively: publications lie in the past, requests *)
(* are about published versions and carry cutoffs that do too, the gate    *)
(* saves a stamp of the version it judges, and what the memo holds or the  *)
(* gate has let through is aged.                                           *)
PublishedInPast == \A i \in 1..Len(hist) : hist[i].at \in 1..now

KnownVersions ==
  /\ \A c \in Resolvers : job[c].rev <= Len(hist) /\ job[c].pending \subseteq 1..Len(hist)
  /\ \A d \in Getters :
       /\ ~GetAt(d, "idle") => Published(get[d].ver)
       /\ GetAt(d, "save") => Contains(get[d].times, get[d].ver)

Past(cut) == window > 0 /\ (cut = 0 \/ cut + window <= now)

CutsPast ==
  /\ \A c \in Resolvers : ~JobAt(c, "idle") => Past(job[c].cut)
  /\ \A d \in Getters : get[d].pc \in {"load", "probe", "save"} => Past(get[d].cut)

MemoAged == window > 0 => \A v \in memo.lines : Aged(v)

GatePassed ==
  \A d \in Getters :
    get[d].pc \in {"file", "fetch", "store"} /\ RestrictDownloads /\ window > 0 =>
      Aged(get[d].ver)

SidecarInv ==
  /\ PublishedInPast /\ KnownVersions /\ CutsPast /\ StampsNotEarly
  /\ MemoAged /\ GatePassed /\ ListsOnlyAged /\ ServesOnlyAged

=============================================================================
