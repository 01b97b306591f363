----------------------------- MODULE SimplePage -----------------------------
(***************************************************************************)
(* pypi-proxy, for one project: its simple index, served as JSON or HTML   *)
(* from an upstream that speaks either, and its distribution files, with   *)
(* the metadata cache, the cached pristine index and the memo they share.  *)
(*                                                                         *)
(* File f is the f-th that upstream ever listed; NameOf[f] is its file     *)
(* name, which two files of an index may share, and f itself stands for    *)
(* its path and for its bytes.                                             *)
(*                                                                         *)
(* A step ends where the handler awaits; other requests, the clock,        *)
(* upstream and the operator interleave there.                             *)
(***************************************************************************)
EXTENDS Cooldown, FiniteSets

CONSTANTS
  Resolvers,        \* clients that ask for the index
  Getters,          \* clients that ask for files; each has at most one
                    \* request under way
  Windows,          \* cooldown windows a start may configure; 0: none
  Ttl,              \* cache_ttl
  NameOf,           \* the name of each file
  Uploads,          \* what upstream may upload: [dated, allowed, ver, dialect]
  RestrictDownloads,            \* settings.restrict_downloads
  MaxNow, MaxFaults             \* bounds of the clock and of faults

Formats == {"json", "html"}
Dialects == Formats \cup {"other"}      \* "other": neither, by its type
MaxRev == Len(NameOf)

ASSUME SimpleAssumption ==
  /\ Windows \subseteq Nat /\ Windows # {}
  /\ {Ttl, MaxNow, MaxFaults} \subseteq Nat
  /\ NameOf \in Seq(Nat \ {0})
  /\ Uploads \subseteq [dated : BOOLEAN, allowed : BOOLEAN, ver : Nat \ {0},
                        dialect : Dialects]
  /\ RestrictDownloads \in BOOLEAN

VARIABLES
  now,          \* the wall clock
  hist,         \* files uploaded so far, oldest first
  faults,       \* failures and restarts so far
  window,       \* the running process' cooldown for this project
  disk,         \* the cached pristine index: revision and mtime
  meta,         \* MetadataCache's entry for the project
  memo,         \* FilteredMemo's entry for the project in each format
  files,        \* the bytes cached under each path; 0: none
  req,          \* a client's request under way: the handler's locals
  copy,         \* the index a client has cached, with its ETag
  resp          \* the last answer this process gave a client

envVars   == <<now, hist, faults, window>>
cacheVars == <<disk, meta, memo, files>>
vars == <<envVars, cacheVars, req, copy, resp>>

Clients == Resolvers \cup Getters
Paths == 1..MaxRev

NoFile == [rev |-> 0, mtime |-> 0]
NoBody == [fmt |-> "none", rev |-> 0, files |-> {}, versions |-> {}]
NoMemo == [val |-> NoValidator, bkt |-> 0, body |-> NoBody]
NoCopy == [etag |-> 0, marker |-> NoMarker, body |-> NoBody]
NoAnswer == [kind |-> "none", fmt |-> "none", path |-> 0, bytes |-> 0, status |-> 0]

(* kind and fmt or path: what is asked for. data: the revision in hand,    *)
(* 0 for the empty index. found: the entry lookup_file returned, 0: none.  *)
NoRequest ==
  [pc |-> "idle", kind |-> "none", fmt |-> "none", path |-> 0, ok |-> FALSE,
   etag |-> 0, entry |-> NoEntry, data |-> 0, cut |-> Unfiltered, found |-> 0]

Cutoff == CutoffFrom(now, window)
ServeMarker == MarkerAt(Cutoff, window)
-----------------------------------------------------------------------------
(* The index documents. Revision rev lists the files 1..rev, in the        *)
(* dialect upstream speaks since the last of them.                         *)

Dialect(rev) == hist[rev].dialect

(* A page without a single stamp, which only a normalized HTML page is.    *)
Undatable(rev) == Dialect(rev) = "html" /\ \A f \in 1..rev : ~hist[f].dated

VersionsOf(fs) == {hist[f].ver : f \in fs}

(* JSON also lists a release whose files are all gone; HTML and the empty  *)
(* index list no versions.                                                 *)
Unbacked == 0
Listed(rev) ==
  IF rev = 0 \/ Dialect(rev) # "json" THEN {} ELSE VersionsOf(1..rev) \cup {Unbacked}

UndatedPass(rev, cut) ==                                         \* mutation
  {f \in 1..rev : hist[f].dated => hist[f].at <= cut}

(* A file without a stamp is dropped.                                      *)
OldFiles(rev, cut) == {f \in 1..rev : hist[f].dated /\ hist[f].at <= cut}

LatestFileVersions(rev, fs) ==          \* mutation: a version goes with any file
  Listed(rev) \ VersionsOf(1..rev \ fs)

ServedVersions(rev, fs) ==
  IF Listed(rev) = {} THEN VersionsOf(fs)
  ELSE {v \in Listed(rev) : v \in VersionsOf(fs) \/ v \notin VersionsOf(1..rev)}

(* filter_simple_json, and render_html, which shows files only.            *)
Produced(rev, cut, fmt) ==
  LET fs == IF cut = Unfiltered THEN 1..rev ELSE OldFiles(rev, cut)
  IN  [fmt |-> fmt, rev |-> rev, files |-> fs,
       versions |-> IF fmt = "html" THEN {}
                    ELSE IF cut = Unfiltered THEN Listed(rev)
                    ELSE ServedVersions(rev, fs)]

(* lookup_file: the first entry of that name.                              *)
Entry(rev, path) ==
  LET named == {f \in 1..rev : NameOf[f] = NameOf[path]}
  IN  IF named = {} THEN 0 ELSE CHOOSE f \in named : \A g \in named : f <= g
-----------------------------------------------------------------------------
(* Moving a request on, and answering it.                                  *)

At(c, pc) == req[c].pc = pc

Goto(c, r) == req' = [req EXCEPT ![c] = r] /\ UNCHANGED <<copy, resp>>

Answer(c, status, bytes) ==
  /\ req' = [req EXCEPT ![c] = NoRequest]
  /\ resp' = [resp EXCEPT ![c] = [kind |-> req[c].kind, fmt |-> req[c].fmt,
                                 path |-> req[c].path, bytes |-> bytes,
                                 status |-> status]]

Refuse(c, status) == Answer(c, status, 0) /\ UNCHANGED copy

(* project_response: the marker is computed when the response is built.    *)
Show(c, e, body) ==
  /\ Answer(c, 200, 0)
  /\ copy' = [copy EXCEPT ![c] =
       [etag |-> e.etag, marker |-> IF e.etag # 0 THEN ServeMarker ELSE NoMarker,
        body |-> body]]

NotModified(c) == Answer(c, 304, 0) /\ UNCHANGED copy

AnyFormatOk(c, fmt) == copy[c].marker = ServeMarker              \* mutation

WindowOk(c, fmt) ==
  copy[c].marker = ServeMarker /\ copy[c].etag # 0 /\ copy[c].body.fmt = fmt

MayNotModify(c, e) == req[c].ok /\ e.etag # 0 /\ e.etag = req[c].etag

MemoBucket(cut) == IF cut = Unfiltered THEN 0 ELSE Bucket(cut)

MemoHas(c, e) ==
  /\ Validator(e) # NoValidator
  /\ memo[req[c].fmt].val = Validator(e)
  /\ memo[req[c].fmt].bkt = MemoBucket(Cutoff)

ShowMemo(c, e) == Show(c, e, memo[req[c].fmt].body)
-----------------------------------------------------------------------------
(* serve_project.                                                          *)

BeginProject(c, fmt) ==
  /\ At(c, "idle")
  /\ req' = [req EXCEPT ![c] =
       [NoRequest EXCEPT !.pc = "lookup", !.kind = "index", !.fmt = fmt,
                         !.etag = copy[c].etag, !.ok = WindowOk(c, fmt)]]
  /\ resp' = [resp EXCEPT ![c] = NoAnswer]
  /\ UNCHANGED <<envVars, cacheVars, copy>>

Lookup(c) ==
  /\ At(c, "lookup")
  /\ IF meta = NoEntry THEN Goto(c, [req[c] EXCEPT !.pc = "find"])
     ELSE IF IsExpired(meta, now, Ttl)
       THEN Goto(c, [req[c] EXCEPT !.pc = "fetch", !.entry = meta])
     ELSE IF MayNotModify(c, meta) THEN NotModified(c)
     ELSE IF MemoHas(c, meta) THEN ShowMemo(c, meta)
     ELSE Goto(c, [req[c] EXCEPT !.pc = "read", !.entry = meta])
  /\ UNCHANGED <<envVars, cacheVars>>

ReadFresh(c) ==
  /\ At(c, "read")
  /\ Goto(c, IF disk # NoFile THEN [req[c] EXCEPT !.pc = "filter", !.data = disk.rev]
             ELSE [req[c] EXCEPT !.pc = "find", !.entry = NoEntry])
  /\ UNCHANGED <<envVars, cacheVars>>

FileEntry == [NoEntry EXCEPT !.mtime = disk.mtime]

FindMtime(c) ==
  /\ At(c, "find")
  /\ Goto(c, [req[c] EXCEPT !.pc = "fetch", !.entry = FileEntry])
  /\ UNCHANGED <<envVars, cacheVars>>
-----------------------------------------------------------------------------
(* forward_project.                                                        *)

Current == Len(hist)

Unchanged(e) ==
  IF e.etag # 0 THEN e.etag = Current
  ELSE e.mtime # 0 /\ hist[Current].at <= e.mtime

Harvest == [etag |-> Current, mtime |-> hist[Current].at, atime |-> now]

Fetched(c, pc) == [req[c] EXCEPT !.pc = pc, !.entry = Harvest, !.data = Current]

(* An undatable page is withheld under a cooldown: the empty index, under  *)
(* upstream's validators, and nothing is stored. A page of another type is *)
(* refused under a cooldown and passed through without one.                *)
Fetch(c) ==
  /\ At(c, "fetch") /\ hist # <<>>
  /\ IF Unchanged(req[c].entry)
       THEN Goto(c, [req[c] EXCEPT !.pc = "store304", !.entry = Harvest])
     ELSE IF Undatable(Current) /\ Cutoff # Unfiltered
       THEN Goto(c, [Fetched(c, "filter") EXCEPT !.data = 0])
     ELSE IF Dialect(Current) # "other" THEN Goto(c, Fetched(c, "write"))
     ELSE IF Cutoff # Unfiltered THEN Refuse(c, 502)
     ELSE Show(c, NoEntry, [NoBody EXCEPT !.fmt = "other", !.rev = Current,
                                          !.files = 1..Current])
  /\ UNCHANGED <<envVars, cacheVars>>

FetchUnknown(c) ==
  /\ At(c, "fetch") /\ hist = <<>>
  /\ Refuse(c, 404)
  /\ UNCHANGED <<envVars, cacheVars>>

Fault == faults < MaxFaults /\ faults' = faults + 1

(* A transport error, a body over max_metadata_size, or a 5xx.             *)
FetchFails(c) ==
  /\ At(c, "fetch") /\ Fault
  /\ Goto(c, [req[c] EXCEPT !.pc = "readstale", !.entry = NoEntry])
  /\ UNCHANGED <<now, hist, window, cacheVars>>

Written(c) == [rev |-> req[c].data, mtime |-> req[c].entry.mtime]

WriteIndex(c) ==
  /\ At(c, "write")
  /\ disk' = Written(c)
  /\ Goto(c, [req[c] EXCEPT !.pc = "store200"])
  /\ UNCHANGED <<envVars, meta, memo, files>>

WriteFails(c) ==
  /\ req[c].pc \in {"write", "lookwrite"} /\ Fault
  /\ disk' \in {disk, [rev |-> req[c].data, mtime |-> now]}
  /\ Goto(c, [req[c] EXCEPT !.pc = IF At(c, "write") THEN "store200" ELSE "lookstore"])
  /\ UNCHANGED <<now, hist, window, meta, memo, files>>

StoreMeta200(c) ==
  /\ At(c, "store200")
  /\ meta' = req[c].entry
  /\ IF MayNotModify(c, req[c].entry) THEN NotModified(c)
     ELSE Goto(c, [req[c] EXCEPT !.pc = "filter"])
  /\ UNCHANGED <<envVars, disk, memo, files>>

StoreMeta304(c) ==
  /\ At(c, "store304")
  /\ meta' = req[c].entry
  /\ IF MayNotModify(c, req[c].entry) THEN NotModified(c)
     ELSE IF MemoHas(c, req[c].entry) THEN ShowMemo(c, req[c].entry)
     ELSE Goto(c, [req[c] EXCEPT !.pc = "read304"])
  /\ UNCHANGED <<envVars, disk, memo, files>>

ReadAfter304(c) ==
  /\ At(c, "read304")
  /\ Goto(c, IF disk # NoFile THEN [req[c] EXCEPT !.pc = "filter", !.data = disk.rev]
             ELSE [req[c] EXCEPT !.pc = "lost"])
  /\ UNCHANGED <<envVars, cacheVars>>

LostFile(c) ==
  /\ At(c, "lost")
  /\ meta' = NoEntry
  /\ Refuse(c, 503)
  /\ UNCHANGED <<envVars, disk, memo, files>>

ReadStale(c) ==
  /\ At(c, "readstale")
  /\ IF disk = NoFile THEN Refuse(c, 502)
     ELSE Goto(c, [req[c] EXCEPT !.pc = "findstale", !.data = disk.rev])
  /\ UNCHANGED <<envVars, cacheVars>>

FindStale(c) ==
  /\ At(c, "findstale")
  /\ Goto(c, [req[c] EXCEPT !.pc = "filter", !.entry = FileEntry])
  /\ UNCHANGED <<envVars, cacheVars>>
-----------------------------------------------------------------------------
(* project_ok: the cutoff and the bucket are captured, the body is         *)
(* filtered and rendered on the blocking pool, memoized for its format     *)
(* under the captured bucket, and served.                                  *)

Filter(c) ==
  /\ At(c, "filter")
  /\ IF MemoHas(c, req[c].entry) THEN ShowMemo(c, req[c].entry)
     ELSE Goto(c, [req[c] EXCEPT !.pc = "filtering", !.cut = Cutoff])
  /\ UNCHANGED <<envVars, cacheVars>>

OneMemoKey(fmt) == Formats                                       \* mutation

MemoKeys(fmt) == {fmt}

FilterDone(c) ==
  LET r    == req[c]
      body == Produced(r.data, r.cut, r.fmt)
      kept == [val |-> Validator(r.entry), bkt |-> MemoBucket(r.cut), body |-> body]
  IN
  /\ At(c, "filtering")
  /\ Show(c, r.entry, body)
  /\ memo' = IF kept.val = NoValidator THEN memo
             ELSE [fmt \in Formats |-> IF fmt \in MemoKeys(r.fmt) THEN kept ELSE memo[fmt]]
  /\ UNCHANGED <<envVars, disk, meta, files>>

(* The filter task panics, or the JSON index does not parse.               *)
FilterFails(c, status) ==
  /\ At(c, "filtering") /\ Fault
  /\ Refuse(c, status)
  /\ UNCHANGED <<now, hist, window, cacheVars>>
-----------------------------------------------------------------------------
(* serve_file: under a gate the lookup comes first and the cache after it, *)
(* without one the lookup only resolves the URL of a file not cached.      *)

Gated == RestrictDownloads /\ Cutoff # Unfiltered

BeginFile(c, path) ==
  /\ At(c, "idle")
  /\ req' = [req EXCEPT ![c] =
       [NoRequest EXCEPT !.pc = IF Gated THEN "look" ELSE "cached", !.kind = "file",
                         !.path = path,
                         !.cut = IF Gated THEN Cutoff ELSE Unfiltered]]
  /\ resp' = [resp EXCEPT ![c] = NoAnswer]
  /\ UNCHANGED <<envVars, cacheVars, copy>>

FailOpenOldEnough(entry, cut) ==                                 \* mutation
  entry # 0 /\ (hist[entry].dated => hist[entry].at <= cut)

EntryOldEnough(entry, cut) ==
  entry # 0 /\ hist[entry].dated /\ hist[entry].at <= cut

LegalResolved(c, entry) ==                                       \* mutation
  IF req[c].cut = Unfiltered
    THEN Goto(c, [req[c] EXCEPT !.pc = "download", !.found = entry])
  ELSE IF EntryOldEnough(entry, req[c].cut)
    THEN Goto(c, [req[c] EXCEPT !.pc = "cached", !.found = entry])
  ELSE Refuse(c, 451)

Resolved(c, entry) ==
  IF req[c].cut = Unfiltered
    THEN Goto(c, [req[c] EXCEPT !.pc = "download", !.found = entry])
  ELSE IF EntryOldEnough(entry, req[c].cut)
    THEN Goto(c, [req[c] EXCEPT !.pc = "cached", !.found = entry])
  ELSE Refuse(c, 403)

LookRead(c) ==
  /\ At(c, "look")
  /\ IF disk # NoFile THEN Resolved(c, Entry(disk.rev, req[c].path))
     ELSE Goto(c, [req[c] EXCEPT !.pc = "lookfetch"])
  /\ UNCHANGED <<envVars, cacheVars>>

(* On a cold cache the index is fetched unconditionally and stored, also   *)
(* an undatable one.                                                       *)
LookFetch(c) ==
  /\ At(c, "lookfetch")
  /\ IF hist = <<>> \/ Dialect(Current) = "other" THEN Resolved(c, 0)
     ELSE Goto(c, Fetched(c, "lookwrite"))
  /\ UNCHANGED <<envVars, cacheVars>>

LookFetchFails(c) ==
  /\ At(c, "lookfetch") /\ Fault
  /\ Resolved(c, 0)
  /\ UNCHANGED <<now, hist, window, cacheVars>>

LookWrite(c) ==
  /\ At(c, "lookwrite")
  /\ disk' = Written(c)
  /\ Goto(c, [req[c] EXCEPT !.pc = "lookstore"])
  /\ UNCHANGED <<envVars, meta, memo, files>>

LookStore(c) ==
  /\ At(c, "lookstore")
  /\ meta' = req[c].entry
  /\ Resolved(c, Entry(req[c].data, req[c].path))
  /\ UNCHANGED <<envVars, disk, memo, files>>

ReadFile(c) ==
  /\ At(c, "cached")
  /\ IF files[req[c].path] # 0
       THEN Answer(c, 200, files[req[c].path]) /\ UNCHANGED copy
     ELSE Goto(c, [req[c] EXCEPT !.pc = IF req[c].found = 0 THEN "look" ELSE "download"])
  /\ UNCHANGED <<envVars, cacheVars>>

(* upstream_file_url: where the entry says, if that host is allowed, or    *)
(* the same path under the pinned files URL.                               *)
Source(c) ==
  IF req[c].found # 0 /\ hist[req[c].found].allowed THEN req[c].found ELSE req[c].path

Download(c) ==
  /\ At(c, "download")
  /\ IF Source(c) \in 1..Current THEN Goto(c, [req[c] EXCEPT !.pc = "storefile",
                                                           !.found = Source(c)])
     ELSE Refuse(c, 404)
  /\ UNCHANGED <<envVars, cacheVars>>

DownloadFails(c, status) ==
  /\ At(c, "download") /\ Fault
  /\ Refuse(c, status)
  /\ UNCHANGED <<now, hist, window, cacheVars>>

Stored(c) == [files EXCEPT ![req[c].path] = req[c].found]

StoreFile(c) ==
  /\ At(c, "storefile")
  /\ files' = Stored(c)
  /\ Answer(c, 200, req[c].found) /\ UNCHANGED copy
  /\ UNCHANGED <<envVars, disk, meta, memo>>

StoreFileFails(c) ==
  /\ At(c, "storefile") /\ Fault
  /\ Answer(c, 200, req[c].found) /\ UNCHANGED copy
  /\ UNCHANGED <<now, hist, window, cacheVars>>
-----------------------------------------------------------------------------
(* The world around the handlers.                                          *)

Tick ==
  /\ now < MaxNow /\ now' = now + 1
  /\ UNCHANGED <<hist, faults, window, cacheVars, req, copy, resp>>

(* At most one upload per tick, the resolution of Last-Modified. A file's  *)
(* version is read off its name.                                           *)
Upload(u) ==
  /\ Len(hist) < MaxRev
  /\ hist # <<>> => hist[Len(hist)].at < now
  /\ \A f \in 1..Len(hist) : NameOf[f] = NameOf[Len(hist) + 1] => hist[f].ver = u.ver
  /\ hist' = Append(hist, [at |-> now, dated |-> u.dated, allowed |-> u.allowed,
                           ver |-> u.ver, dialect |-> u.dialect])
  /\ UNCHANGED <<now, faults, window, cacheVars, req, copy, resp>>

(* Only the cache directory and the clients' copies survive.               *)
Restart(w) ==
  /\ Fault
  /\ window' = w
  /\ meta' = NoEntry /\ memo' = [fmt \in Formats |-> NoMemo]
  /\ req' = [c \in Clients |-> NoRequest]
  /\ resp' = [c \in Clients |-> NoAnswer]
  /\ UNCHANGED <<now, hist, disk, files, copy>>

(* The client hangs up; a write handed to the thread pool still lands.     *)
Disconnect(c) ==
  /\ ~At(c, "idle") /\ Fault
  /\ Goto(c, NoRequest)
  /\ disk' = IF req[c].pc \in {"write", "lookwrite"} THEN Written(c) ELSE disk
  /\ files' = IF At(c, "storefile") THEN Stored(c) ELSE files
  /\ UNCHANGED <<now, hist, window, meta, memo>>

(* The operator clears the cache directory under the running process.      *)
WipeCache ==
  /\ Fault /\ disk # NoFile
  /\ disk' = NoFile /\ files' = [p \in Paths |-> 0]
  /\ UNCHANGED <<now, hist, window, meta, memo, req, copy, resp>>

(* purge_artifact removes the files of one release, purge_all every file.  *)
Purge(vers) ==
  LET gone == {p \in Paths : Entry(Current, p) # 0 /\ hist[Entry(Current, p)].ver \in vers}
  IN
  /\ Fault
  /\ \E p \in gone : files[p] # 0
  /\ files' = [p \in Paths |-> IF p \in gone THEN 0 ELSE files[p]]
  /\ UNCHANGED <<now, hist, window, disk, meta, memo, req, copy, resp>>

Init ==
  /\ now = 1 /\ hist = <<>> /\ faults = 0
  /\ window \in Windows
  /\ disk = NoFile /\ meta = NoEntry
  /\ memo = [fmt \in Formats |-> NoMemo]
  /\ files = [p \in Paths |-> 0]
  /\ req = [c \in Clients |-> NoRequest]
  /\ copy = [c \in Clients |-> NoCopy]
  /\ resp = [c \in Clients |-> NoAnswer]

Step(c) ==
  \/ Lookup(c) \/ ReadFresh(c) \/ FindMtime(c)
  \/ Fetch(c) \/ FetchUnknown(c)
  \/ WriteIndex(c) \/ StoreMeta200(c)
  \/ StoreMeta304(c) \/ ReadAfter304(c) \/ LostFile(c)
  \/ ReadStale(c) \/ FindStale(c)
  \/ Filter(c) \/ FilterDone(c)
  \/ LookRead(c) \/ LookFetch(c) \/ LookWrite(c) \/ LookStore(c)
  \/ ReadFile(c) \/ Download(c) \/ StoreFile(c)

StepFails(c) ==
  \/ FetchFails(c) \/ WriteFails(c) \/ LookFetchFails(c) \/ StoreFileFails(c)
  \/ Disconnect(c)
  \/ \E status \in {500, 502} : FilterFails(c, status)
  \/ \E status \in {502, 507} : DownloadFails(c, status)

AllVersions == {u.ver : u \in Uploads}

Environment ==
  \/ Tick
  \/ \E u \in Uploads : Upload(u)
  \/ \E w \in Windows : Restart(w)
  \/ WipeCache
  \/ \E vers \in {{v} : v \in AllVersions} \cup {AllVersions} : Purge(vers)

Next ==
  \/ \E c \in Resolvers, fmt \in Formats : BeginProject(c, fmt)
  \/ \E c \in Getters, path \in Paths : BeginFile(c, path)
  \/ \E c \in Clients : Step(c) \/ StepFails(c)
  \/ Environment

Spec == Init /\ [][Next]_vars
-----------------------------------------------------------------------------
(* Properties.                                                             *)

Entries == [etag : Nat, mtime : Nat, atime : Nat]
Markers == [win : Nat, bkt : Nat]
Bodies == [fmt : Dialects \cup {"none"}, rev : Nat, files : SUBSET Nat, versions : SUBSET Nat]
Pcs == {"idle", "lookup", "find", "read", "fetch", "write", "store200", "store304",
        "read304", "lost", "readstale", "findstale", "filter", "filtering",
        "look", "lookfetch", "lookwrite", "lookstore", "cached", "download", "storefile"}
AskKinds == {"none", "index", "file"}
AskFormats == Formats \cup {"none"}
Statuses == {0, 200, 304, 403, 404, 500, 502, 503, 507}

(* Every variable ranges over the values the code's types allow.           *)
TypeOK ==
  /\ now \in Nat \ {0} /\ faults \in Nat /\ window \in Windows
  /\ hist \in Seq([at : Nat, dated : BOOLEAN, allowed : BOOLEAN, ver : Nat,
                   dialect : Dialects])
  /\ disk \in [rev : Nat, mtime : Nat]
  /\ meta \in Entries
  /\ memo \in [Formats -> [val : Nat \X Nat, bkt : Nat, body : Bodies]]
  /\ files \in [Paths -> Nat]
  /\ req \in [Clients -> [pc : Pcs, kind : AskKinds, fmt : AskFormats, path : Nat,
                         ok : BOOLEAN, etag : Nat, entry : Entries, data : Nat,
                         cut : Nat \cup {Unfiltered}, found : Nat]]
  /\ copy \in [Clients -> [etag : Nat, marker : Markers, body : Bodies]]
  /\ resp \in [Clients -> [kind : AskKinds, fmt : AskFormats, path : Nat, bytes : Nat,
                          status : Statuses]]

Answered(c, kind, statuses) == resp[c].kind = kind /\ resp[c].status \in statuses

(* Under a cooldown a file counts as old only by its own stamp.            *)
Aged(f, win) == win > 0 => hist[f].dated /\ hist[f].at + win <= now

(* The cooldown, in both representations: whichever rung answered, a       *)
(* client answered by this process holds no file that is younger than the  *)
(* running window or that carries no stamp, and the versions beside them   *)
(* are of such files or of no file at all.                                 *)
CooldownHolds ==
  \A c \in Clients : Answered(c, "index", {200, 304}) =>
    /\ \A f \in copy[c].body.files : Aged(f, window)
    /\ window > 0 =>
         \A v \in copy[c].body.versions :
           v \in VersionsOf(copy[c].body.files) \/ v \notin VersionsOf(1..copy[c].body.rev)

(* "Drop only versions we actually filtered every file out of" (simple.rs: *)
(* 92): where upstream lists versions, every JSON index lists those a      *)
(* shown file is of, and a release without files. Under a cooldown it does *)
(* so too where upstream lists none ("every served document describes its  *)
(* own surviving files, whatever dialect upstream spoke", simple.rs:100);  *)
(* one made of an HTML page without a cooldown lists none.                 *)
KeepsLiveVersions ==
  \A c \in Clients : LET body == copy[c].body IN
    body.fmt = "json" =>
      /\ Listed(body.rev) # {} => {Unbacked} \cup VersionsOf(body.files) \subseteq body.versions
      /\ window > 0 /\ Answered(c, "index", {200, 304}) =>
           VersionsOf(body.files) \subseteq body.versions

(* Vary and the format tag: whatever representation a client asks for is   *)
(* what it holds when answered, and a 304 never confirms the other one.    *)
RepresentationFits ==
  \A c \in Clients : Answered(c, "index", {200, 304}) =>
    copy[c].body.fmt \in {resp[c].fmt, "other"}

(* The first file upstream listed under the name of path, and whether path *)
(* alone has that name.                                                    *)
FirstNamed(path) ==
  CHOOSE f \in Paths : /\ NameOf[f] = NameOf[path]
                       /\ \A g \in Paths : NameOf[g] = NameOf[path] => f <= g

OnlyOne(path) == \A p \in Paths : NameOf[p] = NameOf[path] => p = path

(* The file gate is fail-closed: with restrict_downloads under a cooldown, *)
(* a file is handed out only if the first that upstream listed under its   *)
(* name is dated and a window old; and where no other file has that name,  *)
(* the bytes are those of a file that is, be they cached before the        *)
(* cooldown, fetched from where the entry points or from the pinned host.  *)
GateHolds ==
  \A c \in Clients :
    Answered(c, "file", {200}) /\ RestrictDownloads /\ window > 0 =>
      /\ FirstNamed(resp[c].path) <= Current /\ Aged(FirstNamed(resp[c].path), window)
      /\ OnlyOne(resp[c].path) => Aged(resp[c].bytes, window)
=============================================================================
