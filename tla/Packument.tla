----------------------------- MODULE Packument -----------------------------
(***************************************************************************)
(* npm-proxy, for one package: the packument, the documents of single      *)
(* versions carved out of it, and the tarballs, with the metadata cache,   *)
(* the cached packument and the memo of rewritten bodies they share, the   *)
(* upstream registry, and the clients' own conditional caches.             *)
(*                                                                         *)
(* A step ends where the handler awaits; other requests, the clock,        *)
(* upstream and the operator interleave there.                             *)
(***************************************************************************)
EXTENDS Cooldown, FiniteSets, FiniteSetsExt

CONSTANTS
  Resolvers,        \* clients that ask for packuments and version documents
  Getters,          \* clients that ask for tarballs; each has at most one
                    \* request under way
  Windows,          \* cooldown windows a start may configure; 0: none, or
                    \* the package is exempt
  Ttl,              \* cache_ttl
  Publications,     \* what upstream may publish: [dated, servable, tagged]
  RestrictDownloads,            \* settings.restrict_downloads
  MaxNow, MaxRev, MaxFaults     \* bounds of the clock, upstream and faults

ASSUME PackumentAssumption ==
  /\ Windows \subseteq Nat /\ Windows # {}
  /\ {Ttl, MaxNow, MaxRev, MaxFaults} \subseteq Nat
  /\ Publications \subseteq [dated : BOOLEAN, servable : BOOLEAN, tagged : BOOLEAN]
  /\ RestrictDownloads \in BOOLEAN

VARIABLES
  now,          \* the wall clock
  hist,         \* versions published upstream, oldest first
  faults,       \* failures and restarts so far
  window,       \* the running process' cooldown for this package
  disk,         \* the cached pristine packument: revision and mtime
  meta,         \* MetadataCache's entry for the package
  memo,         \* FilteredMemo's entry for the package
  tarballs,     \* the versions whose tarball is cached
  req,          \* a client's request under way: the handler's locals
  copy,         \* the packument a client has cached, with its ETag
  resp          \* the last answer this process gave a client

envVars   == <<now, hist, faults, window>>
cacheVars == <<disk, meta, memo, tarballs>>
vars == <<envVars, cacheVars, req, copy, resp>>

Clients == Resolvers \cup Getters

NoFile == [rev |-> 0, mtime |-> 0]
NoBody == [rev |-> 0, versions |-> {}, latest |-> 0]
NoMemo == [val |-> NoValidator, bkt |-> 0, body |-> NoBody]
NoCopy == [etag |-> 0, marker |-> NoMarker, body |-> NoBody]
NoAnswer == [kind |-> "none", ver |-> 0, status |-> 0]

(* What is asked for: the packument, the document of a version or of the   *)
(* dist-tag latest (version 0), or the tarball of a version.               *)
NoRequest ==
  [pc |-> "idle", kind |-> "none", ver |-> 0, ok |-> FALSE, etag |-> 0,
   entry |-> NoEntry, data |-> 0, cut |-> Unfiltered]

Cutoff == CutoffFrom(now, window)
ServeMarker == MarkerAt(Cutoff, window)
-----------------------------------------------------------------------------
(* filter_packument. Revision rev of the document lists versions 1..rev;   *)
(* its `latest` is the last of them that was published under that tag.     *)

Greatest(S) == IF S = {} THEN 0 ELSE Max(S)

UpstreamLatest(rev) == Greatest({v \in 1..rev : hist[v].tagged})

UnservableVersions(rev) == {v \in 1..rev : ~hist[v].servable}

(* A version without a stamp is taken to be old.                           *)
TooNewVersions(rev, cut) ==
  IF cut = Unfiltered THEN {}
  ELSE {v \in 1..rev : hist[v].dated /\ hist[v].at > cut}

NewestSurvivor(survivors) == Greatest({v \in survivors : hist[v].dated})

KeptTags(rev, removed, survivors) == UpstreamLatest(rev)         \* mutation

RepairedTags(rev, removed, survivors) ==
  IF removed = {} \/ UpstreamLatest(rev) \in survivors THEN UpstreamLatest(rev)
  ELSE NewestSurvivor(survivors)

FilterPackument(rev, cut) ==
  LET removed   == UnservableVersions(rev) \cup TooNewVersions(rev, cut)
      survivors == 1..rev \ removed
  IN  [rev |-> rev, versions |-> survivors,
       latest |-> RepairedTags(rev, removed, survivors)]

AllFiltered(body) == body.versions = {}

(* extract_version_doc: the version asked for, or the one `latest` names;  *)
(* 0 if the body has neither.                                              *)
PristineVersionDoc(body, ver) == IF ver = 0 THEN body.latest ELSE ver   \* mutation

ExtractVersionDoc(body, ver) ==
  LET v == IF ver = 0 THEN body.latest ELSE ver
  IN  IF v \in body.versions THEN v ELSE 0
-----------------------------------------------------------------------------
(* Moving a request on, and answering it.                                  *)

At(c, pc) == req[c].pc = pc

Goto(c, r) == req' = [req EXCEPT ![c] = r] /\ UNCHANGED <<copy, resp>>

Answer(c, status, ver) ==
  /\ req' = [req EXCEPT ![c] = NoRequest]
  /\ resp' = [resp EXCEPT ![c] = [kind |-> req[c].kind, ver |-> ver, status |-> status]]

Refuse(c, status) == Answer(c, status, 0) /\ UNCHANGED copy

(* handle_packument and handle_version_doc take what the ladder served:    *)
(* a body, labelled by the clock of the moment the answer is built, ...    *)
ServedBody(c, e, body) ==
  IF req[c].kind = "packument"
    THEN /\ Answer(c, 200, 0)
         /\ copy' = [copy EXCEPT ![c] =
              [etag |-> e.etag, body |-> body,
               marker |-> IF e.etag # 0 THEN ServeMarker ELSE NoMarker]]
    ELSE LET v == ExtractVersionDoc(body, req[c].ver)
         IN  /\ Answer(c, IF v # 0 THEN 200 ELSE 404, v)
             /\ UNCHANGED copy

(* ... or that the client's copy is current.                               *)
ServedNotModified(c) ==
  /\ Answer(c, IF req[c].kind = "packument" THEN 304 ELSE 500, 0)
  /\ UNCHANGED copy

AnyCopyMayNotModify(c, e) == e.etag # 0 /\ e.etag = req[c].etag    \* mutation

MayNotModify(c, e) == req[c].ok /\ e.etag # 0 /\ e.etag = req[c].etag

MemoBucket(cut) == IF cut = Unfiltered THEN 0 ELSE Bucket(cut)

(* memoized_served; FilteredMemo never matches an entry with no validator. *)
MemoHas(e) ==
  /\ Validator(e) # NoValidator
  /\ memo.val = Validator(e) /\ memo.bkt = MemoBucket(Cutoff)

ServeMemo(c, e) == ServedBody(c, e, memo.body)
-----------------------------------------------------------------------------
(* handle_packument, handle_version_doc and serve_packument.               *)

(* Only the ETag counts; a version document is never conditional.          *)
BeginPackument(c) ==
  /\ At(c, "idle")
  /\ req' = [req EXCEPT ![c] =
       [NoRequest EXCEPT !.pc = "lookup", !.kind = "packument",
                         !.etag = copy[c].etag, !.ok = copy[c].marker = ServeMarker]]
  /\ resp' = [resp EXCEPT ![c] = NoAnswer]
  /\ UNCHANGED <<envVars, cacheVars, copy>>

ConditionalVersionDoc(c, ver) ==   \* mutation: passes the client's condition on
  /\ At(c, "idle")
  /\ req' = [req EXCEPT ![c] =
       [NoRequest EXCEPT !.pc = "lookup", !.kind = "doc", !.ver = ver,
                         !.etag = copy[c].etag, !.ok = copy[c].marker = ServeMarker]]
  /\ resp' = [resp EXCEPT ![c] = NoAnswer]
  /\ UNCHANGED <<envVars, cacheVars, copy>>

BeginVersionDoc(c, ver) ==
  /\ At(c, "idle")
  /\ req' = [req EXCEPT ![c] =
       [NoRequest EXCEPT !.pc = "lookup", !.kind = "doc", !.ver = ver]]
  /\ resp' = [resp EXCEPT ![c] = NoAnswer]
  /\ UNCHANGED <<envVars, cacheVars, copy>>

Lookup(c) ==
  /\ At(c, "lookup")
  /\ IF meta = NoEntry THEN Goto(c, [req[c] EXCEPT !.pc = "find"])
     ELSE IF IsExpired(meta, now, Ttl)
       THEN Goto(c, [req[c] EXCEPT !.pc = "fetch", !.entry = meta])
     ELSE IF MayNotModify(c, meta) THEN ServedNotModified(c)
     ELSE IF MemoHas(meta) THEN ServeMemo(c, meta)
     ELSE Goto(c, [req[c] EXCEPT !.pc = "read", !.entry = meta])
  /\ UNCHANGED <<envVars, cacheVars>>

ReadFresh(c) ==
  /\ At(c, "read")
  /\ Goto(c, IF disk # NoFile THEN [req[c] EXCEPT !.pc = "filter", !.data = disk.rev]
             ELSE [req[c] EXCEPT !.pc = "find", !.entry = NoEntry])
  /\ UNCHANGED <<envVars, cacheVars>>

FileEntry == [NoEntry EXCEPT !.mtime = disk.mtime]

ClientsOwnFindMtime(c) ==       \* mutation: revalidates the client's validator
  /\ At(c, "find")
  /\ Goto(c, [req[c] EXCEPT !.pc = "fetch",
       !.entry = IF disk # NoFile THEN FileEntry
                 ELSE [NoEntry EXCEPT !.etag = req[c].etag]])
  /\ UNCHANGED <<envVars, cacheVars>>

FindMtime(c) ==
  /\ At(c, "find")
  /\ Goto(c, [req[c] EXCEPT !.pc = "fetch", !.entry = FileEntry])
  /\ UNCHANGED <<envVars, cacheVars>>
-----------------------------------------------------------------------------
(* forward_packument.                                                      *)

Current == Len(hist)

Unchanged(e) ==
  IF e.etag # 0 THEN e.etag = Current
  ELSE e.mtime # 0 /\ hist[Current].at <= e.mtime

(* conditional_get: the registry sends both validators.                    *)
Harvest == [etag |-> Current, mtime |-> hist[Current].at, atime |-> now]

Fetch(c) ==
  /\ At(c, "fetch") /\ hist # <<>>
  /\ Goto(c, IF Unchanged(req[c].entry)
               THEN [req[c] EXCEPT !.pc = "store304", !.entry = Harvest]
               ELSE [req[c] EXCEPT !.pc = "write", !.entry = Harvest, !.data = Current])
  /\ UNCHANGED <<envVars, cacheVars>>

FetchUnknown(c) ==
  /\ At(c, "fetch") /\ hist = <<>>
  /\ Refuse(c, 404)
  /\ UNCHANGED <<envVars, cacheVars>>

Fault == faults < MaxFaults /\ faults' = faults + 1

(* A transport error, a body over max_metadata_size, or a 5xx: the stale   *)
(* packument if there is one, labelled from its file.                      *)
FetchFails(c) ==
  /\ At(c, "fetch") /\ Fault
  /\ Goto(c, [req[c] EXCEPT !.pc = "readstale", !.entry = NoEntry])
  /\ UNCHANGED <<now, hist, window, cacheVars>>

Written(c) == [rev |-> req[c].data, mtime |-> req[c].entry.mtime]

WritePackument(c) ==
  /\ At(c, "write")
  /\ disk' = Written(c)
  /\ Goto(c, [req[c] EXCEPT !.pc = "store200"])
  /\ UNCHANGED <<envVars, meta, memo, tarballs>>

WriteFails(c) ==
  /\ req[c].pc \in {"write", "gatewrite"} /\ Fault
  /\ disk' \in {disk, [rev |-> req[c].data, mtime |-> now]}
  /\ Goto(c, [req[c] EXCEPT !.pc = IF At(c, "write") THEN "store200" ELSE "gatestore"])
  /\ UNCHANGED <<now, hist, window, meta, memo, tarballs>>

StoreMeta200(c) ==
  /\ At(c, "store200")
  /\ meta' = req[c].entry
  /\ IF MayNotModify(c, req[c].entry) THEN ServedNotModified(c)
     ELSE Goto(c, [req[c] EXCEPT !.pc = "filter"])
  /\ UNCHANGED <<envVars, disk, memo, tarballs>>

StoreMeta304(c) ==
  /\ At(c, "store304")
  /\ meta' = req[c].entry
  /\ IF MayNotModify(c, req[c].entry) THEN ServedNotModified(c)
     ELSE IF MemoHas(req[c].entry) THEN ServeMemo(c, req[c].entry)
     ELSE Goto(c, [req[c] EXCEPT !.pc = "read304"])
  /\ UNCHANGED <<envVars, disk, memo, tarballs>>

ReadAfter304(c) ==
  /\ At(c, "read304")
  /\ Goto(c, IF disk # NoFile THEN [req[c] EXCEPT !.pc = "filter", !.data = disk.rev]
             ELSE [req[c] EXCEPT !.pc = "lost"])
  /\ UNCHANGED <<envVars, cacheVars>>

LostFile(c) ==
  /\ At(c, "lost")
  /\ meta' = NoEntry
  /\ Refuse(c, 503)
  /\ UNCHANGED <<envVars, disk, memo, tarballs>>

(* A failed fetch is a 502; upstream's own 5xx is passed on as it came,    *)
(* which the model does not tell apart.                                    *)
ReadStale(c) ==
  /\ At(c, "readstale")
  /\ IF disk = NoFile THEN Refuse(c, 502)
     ELSE Goto(c, [req[c] EXCEPT !.pc = "findstale", !.data = disk.rev])
  /\ UNCHANGED <<envVars, cacheVars>>

FindStale(c) ==
  /\ At(c, "findstale")
  /\ Goto(c, [req[c] EXCEPT !.pc = "filter", !.entry = FileEntry])
  /\ UNCHANGED <<envVars, cacheVars>>
-----------------------------------------------------------------------------
(* filtered_served: cutoff and bucket are captured, the body is filtered   *)
(* on the blocking pool, memoized under the captured bucket, and served.   *)

Filter(c) ==
  /\ At(c, "filter")
  /\ IF MemoHas(req[c].entry) THEN ServeMemo(c, req[c].entry)
     ELSE Goto(c, [req[c] EXCEPT !.pc = "filtering", !.cut = Cutoff])
  /\ UNCHANGED <<envVars, cacheVars>>

FilterDone(c) ==
  LET r    == req[c]
      body == FilterPackument(r.data, r.cut)
  IN
  /\ At(c, "filtering")
  /\ IF AllFiltered(body) THEN Refuse(c, 404) /\ UNCHANGED memo
     ELSE /\ ServedBody(c, r.entry, body)
          /\ memo' = IF Validator(r.entry) = NoValidator THEN memo
                     ELSE [val |-> Validator(r.entry), bkt |-> MemoBucket(r.cut),
                           body |-> body]
  /\ UNCHANGED <<envVars, disk, meta, tarballs>>

(* The filter task panics, or upstream's body is not JSON.                 *)
FilterFails(c, status) ==
  /\ At(c, "filtering") /\ Fault
  /\ Refuse(c, status)
  /\ UNCHANGED <<now, hist, window, cacheVars>>
-----------------------------------------------------------------------------
(* handle_tarball: the fail-closed gate on the pristine packument, then    *)
(* the tarball cache, then upstream.                                       *)

Gated == RestrictDownloads /\ Cutoff # Unfiltered

BeginTarball(c, ver) ==
  /\ At(c, "idle")
  /\ req' = [req EXCEPT ![c] =
       [NoRequest EXCEPT !.pc = IF Gated THEN "gate" ELSE "tarball", !.kind = "tarball",
                         !.ver = ver,
                         !.cut = IF Gated THEN Cutoff ELSE Unfiltered]]
  /\ resp' = [resp EXCEPT ![c] = NoAnswer]
  /\ UNCHANGED <<envVars, cacheVars, copy>>

FailOpenOldEnough(c, rev) ==    \* mutation: a version without a date may pass
  req[c].ver \in 1..rev /\ (hist[req[c].ver].dated => hist[req[c].ver].at <= req[c].cut)

TarballOldEnough(c, rev) ==
  /\ req[c].ver \in 1..rev
  /\ hist[req[c].ver].dated
  /\ hist[req[c].ver].at <= req[c].cut

Verdict(c, rev) ==
  IF TarballOldEnough(c, rev) THEN Goto(c, [req[c] EXCEPT !.pc = "tarball"])
  ELSE Refuse(c, 403)

GateRead(c) ==
  /\ At(c, "gate")
  /\ IF disk # NoFile THEN Verdict(c, disk.rev)
     ELSE Goto(c, [req[c] EXCEPT !.pc = "gatefetch"])
  /\ UNCHANGED <<envVars, cacheVars>>

(* On a cold cache the gate fetches the packument itself, unconditionally. *)
GateFetch(c) ==
  /\ At(c, "gatefetch")
  /\ IF hist = <<>> THEN Refuse(c, 403)
     ELSE Goto(c, [req[c] EXCEPT !.pc = "gatewrite", !.entry = Harvest, !.data = Current])
  /\ UNCHANGED <<envVars, cacheVars>>

GateFetchFails(c) ==
  /\ At(c, "gatefetch") /\ Fault
  /\ Refuse(c, 403)
  /\ UNCHANGED <<now, hist, window, cacheVars>>

GateWrite(c) ==
  /\ At(c, "gatewrite")
  /\ disk' = Written(c)
  /\ Goto(c, [req[c] EXCEPT !.pc = "gatestore"])
  /\ UNCHANGED <<envVars, meta, memo, tarballs>>

GateStore(c) ==
  /\ At(c, "gatestore")
  /\ meta' = req[c].entry
  /\ Verdict(c, req[c].data)
  /\ UNCHANGED <<envVars, disk, memo, tarballs>>

ReadTarball(c) ==
  /\ At(c, "tarball")
  /\ IF req[c].ver \in tarballs THEN Answer(c, 200, req[c].ver) /\ UNCHANGED copy
     ELSE Goto(c, [req[c] EXCEPT !.pc = "download"])
  /\ UNCHANGED <<envVars, cacheVars>>

(* The body is kept in memory while it is stored.                          *)
DownloadTarball(c) ==
  /\ At(c, "download")
  /\ IF req[c].ver \in 1..Current THEN Goto(c, [req[c] EXCEPT !.pc = "storetarball"])
     ELSE Refuse(c, 404)
  /\ UNCHANGED <<envVars, cacheVars>>

(* A transport error, upstream's error passed on, or a body over           *)
(* max_artifact_size.                                                      *)
DownloadFails(c, status) ==
  /\ At(c, "download") /\ Fault
  /\ Refuse(c, status)
  /\ UNCHANGED <<now, hist, window, cacheVars>>

StoreTarball(c) ==
  /\ At(c, "storetarball")
  /\ tarballs' = tarballs \cup {req[c].ver}
  /\ Answer(c, 200, req[c].ver) /\ UNCHANGED copy
  /\ UNCHANGED <<envVars, disk, meta, memo>>

StoreTarballFails(c) ==
  /\ At(c, "storetarball") /\ Fault
  /\ Answer(c, 200, req[c].ver) /\ UNCHANGED copy
  /\ UNCHANGED <<now, hist, window, cacheVars>>
-----------------------------------------------------------------------------
(* The world around the handlers.                                          *)

Tick ==
  /\ now < MaxNow /\ now' = now + 1
  /\ UNCHANGED <<hist, faults, window, cacheVars, req, copy, resp>>

(* At most one publication per tick, the resolution of Last-Modified.      *)
Publish(p) ==
  /\ Len(hist) < MaxRev
  /\ hist # <<>> => hist[Len(hist)].at < now
  /\ hist' = Append(hist, [at |-> now, dated |-> p.dated, servable |-> p.servable,
                           tagged |-> p.tagged])
  /\ UNCHANGED <<now, faults, window, cacheVars, req, copy, resp>>

(* Only the cache directory and the clients' copies survive.               *)
Restart(w) ==
  /\ Fault
  /\ window' = w
  /\ meta' = NoEntry /\ memo' = NoMemo
  /\ req' = [c \in Clients |-> NoRequest]
  /\ resp' = [c \in Clients |-> NoAnswer]
  /\ UNCHANGED <<now, hist, disk, tarballs, copy>>

(* The client hangs up; a write handed to the thread pool still lands.     *)
Disconnect(c) ==
  /\ ~At(c, "idle") /\ Fault
  /\ Goto(c, NoRequest)
  /\ disk' = IF req[c].pc \in {"write", "gatewrite"} THEN Written(c) ELSE disk
  /\ tarballs' = IF At(c, "storetarball") THEN tarballs \cup {req[c].ver} ELSE tarballs
  /\ UNCHANGED <<now, hist, window, meta, memo>>

(* The operator clears the cache directory under the running process.      *)
WipeCache ==
  /\ Fault /\ disk # NoFile
  /\ disk' = NoFile /\ tarballs' = {}
  /\ UNCHANGED <<now, hist, window, meta, memo, req, copy, resp>>

(* purge_artifact and purge_all remove tarballs; packuments stay.          *)
Purge(vers) ==
  /\ Fault /\ vers \cap tarballs # {}
  /\ tarballs' = tarballs \ vers
  /\ UNCHANGED <<now, hist, window, disk, meta, memo, req, copy, resp>>

Init ==
  /\ now = 1 /\ hist = <<>> /\ faults = 0
  /\ window \in Windows
  /\ disk = NoFile /\ meta = NoEntry /\ memo = NoMemo /\ tarballs = {}
  /\ req = [c \in Clients |-> NoRequest]
  /\ copy = [c \in Clients |-> NoCopy]
  /\ resp = [c \in Clients |-> NoAnswer]

Resolve(c) == BeginPackument(c) \/ \E ver \in 0..MaxRev : BeginVersionDoc(c, ver)

Get(c) == \E ver \in 1..MaxRev : BeginTarball(c, ver)

Step(c) ==
  \/ Lookup(c) \/ ReadFresh(c) \/ FindMtime(c)
  \/ Fetch(c) \/ FetchUnknown(c)
  \/ WritePackument(c) \/ StoreMeta200(c)
  \/ StoreMeta304(c) \/ ReadAfter304(c) \/ LostFile(c)
  \/ ReadStale(c) \/ FindStale(c)
  \/ Filter(c) \/ FilterDone(c)
  \/ GateRead(c) \/ GateFetch(c) \/ GateWrite(c) \/ GateStore(c)
  \/ ReadTarball(c) \/ DownloadTarball(c) \/ StoreTarball(c)

StepFails(c) ==
  \/ FetchFails(c) \/ WriteFails(c) \/ GateFetchFails(c) \/ StoreTarballFails(c)
  \/ Disconnect(c)
  \/ \E status \in {500, 502} : FilterFails(c, status)
  \/ \E status \in {502, 507} : DownloadFails(c, status)

Environment ==
  \/ Tick
  \/ \E p \in Publications : Publish(p)
  \/ \E w \in Windows : Restart(w)
  \/ WipeCache
  \/ \E vers \in {{v} : v \in 1..MaxRev} \cup {1..MaxRev} : Purge(vers)

Next ==
  \/ \E c \in Resolvers : Resolve(c)
  \/ \E c \in Getters : Get(c)
  \/ \E c \in Clients : Step(c) \/ StepFails(c)
  \/ Environment

Spec == Init /\ [][Next]_vars

(* The runtime polls ready tasks and upstream's answers have timeouts; npm *)
(* asks for the packument again. Faults, clock and upstream are not fair.  *)
FairSpec ==
  /\ Spec
  /\ \A c \in Resolvers : SF_vars(BeginPackument(c))
  /\ \A c \in Clients : WF_vars(Step(c))
-----------------------------------------------------------------------------
(* Properties.                                                             *)

Entries == [etag : Nat, mtime : Nat, atime : Nat]
Markers == [win : Nat, bkt : Nat]
Bodies == [rev : Nat, versions : SUBSET Nat, latest : Nat]
Cutoffs == Nat \cup {Unfiltered}
Pcs == {"idle", "lookup", "find", "read", "fetch", "write", "store200", "store304",
        "read304", "lost", "readstale", "findstale", "filter", "filtering",
        "gate", "gatefetch", "gatewrite", "gatestore", "tarball", "download", "storetarball"}
AskKinds == {"none", "packument", "doc", "tarball"}
Statuses == {0, 200, 304, 403, 404, 500, 502, 503, 507}

(* Every variable ranges over the values the code's types allow; and a     *)
(* request for a version document never may be answered 304, so that the   *)
(* 500 kept for one that is never comes ("Unreachable: version doc         *)
(* requests carry no client validators", version_doc.rs:35).               *)
TypeOK ==
  /\ now \in Nat \ {0} /\ faults \in Nat /\ window \in Windows
  /\ hist \in Seq([at : Nat, dated : BOOLEAN, servable : BOOLEAN, tagged : BOOLEAN])
  /\ disk \in [rev : Nat, mtime : Nat]
  /\ meta \in Entries
  /\ memo \in [val : Nat \X Nat, bkt : Nat, body : Bodies]
  /\ tarballs \subseteq Nat
  /\ req \in [Clients -> [pc : Pcs, kind : AskKinds, ver : Nat, ok : BOOLEAN, etag : Nat,
                         entry : Entries, data : Nat, cut : Cutoffs]]
  /\ \A c \in Clients : req[c].kind = "doc" => ~req[c].ok
  /\ copy \in [Clients -> [etag : Nat, marker : Markers, body : Bodies]]
  /\ resp \in [Clients -> [kind : AskKinds, ver : Nat, status : Statuses]]

Answered(c, kind, statuses) == resp[c].kind = kind /\ resp[c].status \in statuses

HasPackument(c) == Answered(c, "packument", {200, 304})

OldEnough(v, win) == win > 0 /\ hist[v].dated => hist[v].at + win <= now

Aged(body, win) == \A v \in body.versions : OldEnough(v, win)

(* The cooldown: whichever rung answered, and whatever was reconfigured    *)
(* since the copy or the cache was made, a client answered by this process *)
(* holds no dated version younger than the running window.                 *)
CooldownHolds == \A c \in Clients : HasPackument(c) => Aged(copy[c].body, window)

(* "Derived from the filtered packument so hidden versions stay hidden"    *)
(* (version_doc.rs:13): the document of a version, asked for by number or  *)
(* as `latest`, is of a servable version, and not of one younger than the  *)
(* window -- from the memo too.                                            *)
DocsStayHidden ==
  \A c \in Clients : Answered(c, "doc", {200}) =>
    /\ resp[c].ver \in 1..Len(hist) /\ hist[resp[c].ver].servable
    /\ OldEnough(resp[c].ver, window)

(* "A tag can only name a served version" (version_doc.rs:44): the latest  *)
(* that a client or the memo holds is one of the versions beside it.       *)
LatestIsServed ==
  \A body \in {memo.body} \cup {copy[c].body : c \in Clients} :
    body.latest # 0 => body.latest \in body.versions

(* The gate is fail-closed: with restrict_downloads, a tarball handed out  *)
(* is of a version that is dated and a window old.                         *)
GateHolds ==
  \A c \in Clients :
    Answered(c, "tarball", {200}) /\ RestrictDownloads /\ window > 0 =>
      hist[resp[c].ver].dated /\ OldEnough(resp[c].ver, window)

(* packument.rs:146-148: no client is stuck on the 503 of a lost file.     *)
LostFileIsTransient ==
  \A c \in Clients :
    resp[c].status = 503 ~> resp[c].kind = "packument" /\ resp[c].status \in {200, 304, 404}
=============================================================================
