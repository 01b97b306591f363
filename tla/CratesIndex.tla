---------------------------- MODULE CratesIndex ----------------------------
(***************************************************************************)
(* The sparse-index handler of crates-proxy, for one crate: the metadata   *)
(* cache, the on-disk index file and the memo of filtered bodies that all  *)
(* its requests share, the upstream index it revalidates against, and the  *)
(* clients' own conditional caches.                                        *)
(*                                                                         *)
(* A request is a chain of steps; a step ends where the handler awaits     *)
(* (upstream, the blocking thread pool) or has released a lock, and other  *)
(* requests, the clock, upstream and the operator interleave there.        *)
(***************************************************************************)
EXTENDS Cooldown

CONSTANTS
  Clients,          \* each has at most one request under way
  Windows,          \* cooldown windows a start may configure; 0: none, or
                    \* the crate is exempt (RegistrySettings.overrides)
  Ttl,              \* cache_ttl
  Dating,           \* whether a published line carries its pubtime
  HasEtag,          \* upstream's responses carry an ETag
  HasDate,          \* ... and a Last-Modified
  RelabelsOn304,    \* a client stores the ETag a 304 carries (RFC 9111)
  DiskMayFail,      \* writes to the cache directory may fail
  MaxNow, MaxRev, MaxFaults     \* bounds of the clock, upstream and faults

ASSUME IndexAssumption ==
  /\ Windows \subseteq Nat /\ Windows # {}
  /\ Ttl \in Nat /\ MaxNow \in Nat /\ MaxRev \in Nat /\ MaxFaults \in Nat
  /\ Dating \subseteq BOOLEAN
  /\ {HasEtag, HasDate, RelabelsOn304, DiskMayFail} \subseteq BOOLEAN

VARIABLES
  now,          \* the wall clock
  hist,         \* versions published upstream, oldest first
  faults,       \* failures and restarts so far
  window,       \* the running process' cooldown for this crate
  disk,         \* the cached index file: upstream revision and mtime
  meta,         \* MetadataCache's entry for the crate
  memo,         \* FilteredMemo's entry for the crate
  req,          \* a client's request under way: the handler's locals
  copy,         \* the response a client has cached, with its validators
  resp          \* the last answer this process gave a client

envVars    == <<now, hist, faults, window>>
sharedVars == <<disk, meta, memo>>
clientVars == <<copy, resp>>
vars == <<envVars, sharedVars, req, clientVars>>

NoFile == [rev |-> 0, mtime |-> 0]
NoMemo == [val |-> NoValidator, bkt |-> 0, rev |-> 0, lines |-> {}]
NoCopy == [etag |-> 0, mtime |-> 0, marker |-> NoMarker, rev |-> 0, lines |-> {}]
NoAnswer == [status |-> 0, trouble |-> "none", asked |-> 0]

(* A request's locals: the moment it arrived, window_ok, the validators it *)
(* sent, the entry the handler carries, the body read or fetched, how the  *)
(* fetch failed if it did, and the cutoff captured before filtering.       *)
NoRequest ==
  [pc |-> "idle", asked |-> 0, ok |-> FALSE, mine |-> NoEntry,
   entry |-> NoEntry, data |-> 0, trouble |-> "none", cut |-> 0]

Cutoff == CutoffFrom(now, window)
ServeMarker == MarkerAt(Cutoff, window)
-----------------------------------------------------------------------------
(* Moving a request on, and answering it.                                  *)

At(c, pc) == req[c].pc = pc

Goto(c, r) == req' = [req EXCEPT ![c] = r]

Answer(c, status) ==
  /\ req' = [req EXCEPT ![c] = NoRequest]
  /\ resp' = [resp EXCEPT ![c] = [status |-> status, trouble |-> req[c].trouble,
                                  asked |-> req[c].asked]]

Refuse(c, status) == Answer(c, status) /\ UNCHANGED copy

(* cooldown_validators: a filtered body has a marked ETag and no date.     *)
Label(e, marker) ==
  IF marker = NoMarker
    THEN [etag |-> e.etag, mtime |-> e.mtime, marker |-> NoMarker]
    ELSE [etag |-> e.etag, mtime |-> 0,
          marker |-> IF e.etag # 0 THEN marker ELSE NoMarker]

Served(e, marker, rev, lines) ==
  LET l == Label(e, marker)
  IN  [etag |-> l.etag, mtime |-> l.mtime, marker |-> l.marker,
       rev |-> rev, lines |-> lines]

Ok(c, e, marker, rev, lines) ==
  /\ Answer(c, 200)
  /\ copy' = [copy EXCEPT ![c] = Served(e, marker, rev, lines)]

(* index_not_modified reads the clock again for the marker it sends.       *)
NotModified(c, e) ==
  /\ Answer(c, 304)
  /\ copy' = IF RelabelsOn304
               THEN [copy EXCEPT ![c] =
                      Served(e, ServeMarker, copy[c].rev, copy[c].lines)]
               ELSE copy

MemoHas(e) ==
  /\ Cutoff # Unfiltered
  /\ Validator(e) # NoValidator
  /\ memo.val = Validator(e) /\ memo.bkt = Bucket(Cutoff)

MemoHit(c, e) ==
  Ok(c, e, ServeMarker, memo.rev, memo.lines)

MayNotModify(c, e) == req[c].ok /\ IsEquivalent(e, req[c].mine)
-----------------------------------------------------------------------------
(* handle_index: the local rungs of the ladder.                            *)

(* window_ok: the client's copy was filtered as we would filter now.       *)
AnyMarkerOk(c) == TRUE      \* mutation: any copy may be confirmed

WindowOk(c) == copy[c].marker = ServeMarker

(* unmark_etag and etag_marker take apart what the client sends back.      *)
Begin(c) ==
  /\ At(c, "idle")
  /\ LET mine == IF copy[c].etag # 0 THEN [NoEntry EXCEPT !.etag = copy[c].etag]
                                     ELSE [NoEntry EXCEPT !.mtime = copy[c].mtime]
     IN  Goto(c, [NoRequest EXCEPT !.pc = "lookup", !.asked = now, !.mine = mine,
                                   !.ok = WindowOk(c)])
  /\ resp' = [resp EXCEPT ![c] = NoAnswer]
  /\ UNCHANGED <<envVars, sharedVars, copy>>

(* The metadata cache and, while it is fresh, the two answers that need no *)
(* file: 304, and the memoized body.                                       *)
Lookup(c) ==
  /\ At(c, "lookup")
  /\ \/ /\ meta = NoEntry
        /\ Goto(c, [req[c] EXCEPT !.pc = "find"]) /\ UNCHANGED clientVars
     \/ /\ meta # NoEntry /\ IsExpired(meta, now, Ttl)
        /\ Goto(c, [req[c] EXCEPT !.pc = "fetch", !.entry = meta])
        /\ UNCHANGED clientVars
     \/ /\ meta # NoEntry /\ ~IsExpired(meta, now, Ttl)
        /\ \/ MayNotModify(c, meta) /\ NotModified(c, meta)
           \/ ~MayNotModify(c, meta) /\ MemoHas(meta) /\ MemoHit(c, meta)
           \/ /\ ~MayNotModify(c, meta) /\ ~MemoHas(meta)
              /\ Goto(c, [req[c] EXCEPT !.pc = "read", !.entry = meta])
              /\ UNCHANGED clientVars
  /\ UNCHANGED <<envVars, sharedVars>>

(* The cached file, under metadata that is still fresh.                    *)
ReadFresh(c) ==
  /\ At(c, "read")
  /\ Goto(c, IF disk # NoFile
               THEN [req[c] EXCEPT !.pc = "render", !.data = disk.rev]
               ELSE [req[c] EXCEPT !.pc = "find", !.entry = NoEntry])
  /\ UNCHANGED <<envVars, sharedVars, clientVars>>

(* cache_find_index: an entry that knows only the file's mtime.            *)
FileEntry == [NoEntry EXCEPT !.mtime = disk.mtime]

FindMtime(c) ==
  /\ At(c, "find")
  /\ Goto(c, [req[c] EXCEPT !.pc = "fetch", !.entry = FileEntry])
  /\ UNCHANGED <<envVars, sharedVars, clientVars>>
-----------------------------------------------------------------------------
(* forward_index: revalidate upstream, then store and serve.               *)

Current == Len(hist)

(* What upstream makes of the condition conditional_get sends for e.       *)
Unchanged(e) ==
  IF e.etag # 0 THEN HasEtag /\ e.etag = Current
  ELSE HasDate /\ e.mtime # 0 /\ hist[Current].at <= e.mtime

(* conditional_get harvests the headers present and stamps the check.      *)
Harvest(e) ==
  [etag  |-> IF HasEtag THEN Current ELSE e.etag,
   mtime |-> IF HasDate THEN hist[Current].at ELSE e.mtime,
   atime |-> now]

Fetch(c) ==
  /\ At(c, "fetch") /\ hist # <<>>
  /\ LET e == req[c].entry
     IN  Goto(c, IF Unchanged(e)
                   THEN [req[c] EXCEPT !.pc = "store304", !.entry = Harvest(e)]
                   ELSE [req[c] EXCEPT !.pc = "write", !.entry = Harvest(e),
                                       !.data = Current])
  /\ UNCHANGED <<envVars, sharedVars, clientVars>>

(* No such crate yet: a 4xx is a real answer and is forwarded.             *)
FetchUnknown(c) ==
  /\ At(c, "fetch") /\ hist = <<>>
  /\ Refuse(c, 404)
  /\ UNCHANGED <<envVars, sharedVars>>

Fault == faults < MaxFaults /\ faults' = faults + 1

(* A transport error, a body over max_metadata_size, or a 5xx.             *)
Troubles == {"transport", "too_large", "5xx"}

FetchFails(c, trouble) ==
  /\ At(c, "fetch") /\ Fault
  /\ Goto(c, [req[c] EXCEPT !.pc = "readstale", !.entry = NoEntry,
                            !.trouble = trouble])
  /\ UNCHANGED <<now, hist, window, sharedVars, clientVars>>

(* The file is replaced by a rename, its mtime pinned to Last-Modified; a  *)
(* failure of either is only logged.                                       *)
FileTime(e) == IF e.mtime # 0 THEN e.mtime ELSE now

Written(c) == [rev |-> req[c].data, mtime |-> FileTime(req[c].entry)]

WriteFile(c) ==
  /\ At(c, "write")
  /\ disk' = Written(c)
  /\ Goto(c, [req[c] EXCEPT !.pc = "store200"])
  /\ UNCHANGED <<envVars, meta, memo, clientVars>>

WriteFileFails(c) ==
  /\ DiskMayFail /\ At(c, "write") /\ Fault
  /\ disk' \in {disk, [rev |-> req[c].data, mtime |-> now]}
  /\ Goto(c, [req[c] EXCEPT !.pc = "store200"])
  /\ UNCHANGED <<now, hist, window, meta, memo, clientVars>>

StoreMeta200(c) ==
  /\ At(c, "store200")
  /\ meta' = req[c].entry
  /\ \/ MayNotModify(c, req[c].entry) /\ NotModified(c, req[c].entry)
     \/ /\ ~MayNotModify(c, req[c].entry)
        /\ Goto(c, [req[c] EXCEPT !.pc = "render"]) /\ UNCHANGED clientVars
  /\ UNCHANGED <<envVars, disk, memo>>

StoreMeta304(c) ==
  LET e == req[c].entry IN
  /\ At(c, "store304")
  /\ meta' = e
  /\ \/ MayNotModify(c, e) /\ NotModified(c, e)
     \/ ~MayNotModify(c, e) /\ MemoHas(e) /\ MemoHit(c, e)
     \/ /\ ~MayNotModify(c, e) /\ ~MemoHas(e)
        /\ Goto(c, [req[c] EXCEPT !.pc = "read304"]) /\ UNCHANGED clientVars
  /\ UNCHANGED <<envVars, disk, memo>>

ReadAfter304(c) ==
  /\ At(c, "read304")
  /\ Goto(c, IF disk # NoFile
               THEN [req[c] EXCEPT !.pc = "render", !.data = disk.rev]
               ELSE [req[c] EXCEPT !.pc = "lost"])
  /\ UNCHANGED <<envVars, sharedVars, clientVars>>

(* The file the 304 vouches for is gone: forget the metadata, answer 503.  *)
LostFile(c) ==
  /\ At(c, "lost")
  /\ meta' = NoEntry
  /\ Refuse(c, 503)
  /\ UNCHANGED <<envVars, disk, memo>>

(* A stale copy beats failing; it is labelled from the file, never from    *)
(* the client's validators.                                                *)
TimeoutStatusOf(trouble) == IF trouble = "5xx" THEN 500 ELSE 504     \* mutation

StatusOf(trouble) == IF trouble = "5xx" THEN 500 ELSE 502

ReadStale(c) ==
  /\ At(c, "readstale")
  /\ \/ disk = NoFile /\ Refuse(c, StatusOf(req[c].trouble))
     \/ /\ disk # NoFile /\ UNCHANGED clientVars
        /\ Goto(c, [req[c] EXCEPT !.pc = "findstale", !.data = disk.rev])
  /\ UNCHANGED <<envVars, sharedVars>>

FindStale(c) ==
  /\ At(c, "findstale")
  /\ Goto(c, [req[c] EXCEPT !.pc = "render", !.entry = FileEntry])
  /\ UNCHANGED <<envVars, sharedVars, clientVars>>
-----------------------------------------------------------------------------
(* index_ok: serve a pristine body verbatim, or filtered (and memoized).   *)

Render(c) ==
  LET e == req[c].entry IN
  /\ At(c, "render")
  /\ \/ Cutoff = Unfiltered /\ Ok(c, e, NoMarker, req[c].data, 1..req[c].data)
     \/ MemoHas(e) /\ MemoHit(c, e)
     \/ /\ Cutoff # Unfiltered /\ ~MemoHas(e)
        /\ Goto(c, [req[c] EXCEPT !.pc = "filter", !.cut = Cutoff])
        /\ UNCHANGED clientVars
  /\ UNCHANGED <<envVars, sharedVars>>

(* The blocking filter task is done: memoize and answer under the bucket   *)
(* captured before it ran.                                                 *)
LateMarker(c) == ServeMarker            \* mutation: the clock read again

CapturedMarker(c) == MarkerAt(req[c].cut, window)

FilterDone(c) ==
  LET r == req[c]
      body == FilterIndex(hist, r.data, r.cut)
  IN
  /\ At(c, "filter")
  /\ memo' = IF Validator(r.entry) = NoValidator THEN memo
             ELSE [val |-> Validator(r.entry), bkt |-> Bucket(r.cut),
                   rev |-> r.data, lines |-> body]
  /\ Ok(c, r.entry, CapturedMarker(c), r.data, body)
  /\ UNCHANGED <<envVars, disk, meta>>
-----------------------------------------------------------------------------
(* The world around the handler.                                           *)

Tick ==
  /\ now < MaxNow /\ now' = now + 1
  /\ UNCHANGED <<hist, faults, window, sharedVars, req, clientVars>>

(* At most one publication per tick: the one-second Last-Modified names a  *)
(* revision.                                                               *)
Publish(dated) ==
  /\ Len(hist) < MaxRev
  /\ hist # <<>> => hist[Len(hist)].at < now
  /\ hist' = Append(hist, [at |-> now, dated |-> dated])
  /\ UNCHANGED <<now, faults, window, sharedVars, req, clientVars>>

(* The process stops at any step and starts again, perhaps reconfigured:   *)
(* only the file and the clients' own copies survive.                      *)
Restart(w) ==
  /\ Fault
  /\ window' = w
  /\ meta' = NoEntry /\ memo' = NoMemo
  /\ req' = [c \in Clients |-> NoRequest]
  /\ resp' = [c \in Clients |-> NoAnswer]
  /\ UNCHANGED <<now, hist, disk, copy>>

(* The client hangs up and the handler is dropped where it waits; a write  *)
(* already handed to the thread pool still lands.                          *)
Disconnect(c) ==
  /\ ~At(c, "idle") /\ Fault
  /\ Goto(c, NoRequest)
  /\ disk' = IF At(c, "write") THEN Written(c) ELSE disk
  /\ UNCHANGED <<now, hist, window, meta, memo, clientVars>>

(* The operator clears the cache directory under the running process.      *)
WipeFile ==
  /\ Fault /\ disk # NoFile
  /\ disk' = NoFile
  /\ UNCHANGED <<now, hist, window, meta, memo, req, clientVars>>

(* Another crate's store found its map at capacity and cleared it.         *)
EvictMeta ==
  /\ Fault /\ meta # NoEntry
  /\ meta' = NoEntry
  /\ UNCHANGED <<now, hist, window, disk, memo, req, clientVars>>

EvictMemo ==
  /\ Fault /\ memo # NoMemo
  /\ memo' = NoMemo
  /\ UNCHANGED <<now, hist, window, disk, meta, req, clientVars>>

Init ==
  /\ now = 1 /\ hist = <<>> /\ faults = 0
  /\ window \in Windows
  /\ disk = NoFile /\ meta = NoEntry /\ memo = NoMemo
  /\ req = [c \in Clients |-> NoRequest]
  /\ copy = [c \in Clients |-> NoCopy]
  /\ resp = [c \in Clients |-> NoAnswer]

Step(c) ==
  \/ Lookup(c) \/ ReadFresh(c) \/ FindMtime(c)
  \/ Fetch(c) \/ FetchUnknown(c)
  \/ WriteFile(c) \/ StoreMeta200(c)
  \/ StoreMeta304(c) \/ ReadAfter304(c) \/ LostFile(c)
  \/ ReadStale(c) \/ FindStale(c)
  \/ Render(c) \/ FilterDone(c)

StepFails(c) ==
  \/ WriteFileFails(c) \/ Disconnect(c)
  \/ \E trouble \in Troubles : FetchFails(c, trouble)

Environment ==
  \/ Tick
  \/ \E dated \in Dating : Publish(dated)
  \/ \E w \in Windows : Restart(w)
  \/ WipeFile \/ EvictMeta \/ EvictMemo

Next ==
  \/ \E c \in Clients : Begin(c) \/ Step(c) \/ StepFails(c)
  \/ Environment

Spec == Init /\ [][Next]_vars

-----------------------------------------------------------------------------
(* Properties.                                                             *)

Entries == [etag : Nat, mtime : Nat, atime : Nat]
Markers == [win : Nat, bkt : Nat]
Pcs == {"idle", "lookup", "find", "read", "fetch", "write", "store200",
        "store304", "read304", "lost", "readstale", "findstale", "render", "filter"}
Requests ==
  [pc : Pcs, asked : Nat, ok : BOOLEAN, mine : Entries, entry : Entries,
   data : Nat, trouble : Troubles \cup {"none"}, cut : Nat]
Copies == [etag : Nat, mtime : Nat, marker : Markers, rev : Nat, lines : SUBSET Nat]
Statuses == {0, 200, 304, 404, 500, 502, 503}
Answers == [status : Statuses, trouble : Troubles \cup {"none"}, asked : Nat]

(* Every variable ranges over the values the code's types allow.           *)
TypeOK ==
  /\ now \in Nat \ {0} /\ faults \in Nat /\ window \in Windows
  /\ hist \in Seq([at : Nat, dated : BOOLEAN])
  /\ disk \in [rev : Nat, mtime : Nat]
  /\ meta \in Entries
  /\ memo \in [val : Nat \X Nat, bkt : Nat, rev : Nat, lines : SUBSET Nat]
  /\ req \in [Clients -> Requests]
  /\ copy \in [Clients -> Copies]
  /\ resp \in [Clients -> Answers]

Answered(c) == resp[c].status \in {200, 304}

(* No line of a body is a dated version younger than the window.           *)
Aged(lines, win) ==
  win > 0 => \A i \in lines : hist[i].dated => hist[i].at + win <= now

(* The cooldown: whatever rung of the ladder answered -- 304, memo, file,  *)
(* upstream, stale copy -- and whatever was reconfigured since the client  *)
(* or the cache got its copy, a client answered by this process holds no   *)
(* dated version younger than the window it runs with.                     *)
CooldownHolds == \A c \in Clients : Answered(c) => Aged(copy[c].lines, window)

(* Why it holds, inductively. Bodies are of revisions upstream has          *)
(* published, and publication dates lie in the past; what the memo holds   *)
(* is aged by the running window, what a client holds under a marker by    *)
(* the marker's; and window_ok means the two windows are one.              *)
PublishedInPast == \A i \in 1..Len(hist) : hist[i].at \in 1..now

KnownRevisions ==
  /\ disk.rev <= Len(hist)
  /\ \A c \in Clients : req[c].data <= Len(hist)
  /\ memo.lines \subseteq 1..Len(hist)
  /\ \A c \in Clients : copy[c].lines \subseteq 1..Len(hist)

MemoAged == Aged(memo.lines, window)

MarkersTrue ==
  \A c \in Clients : copy[c].marker # NoMarker =>
    copy[c].marker.win > 0 /\ Aged(copy[c].lines, copy[c].marker.win)

WindowOkTrue ==
  \A c \in Clients : req[c].ok /\ window > 0 =>
    copy[c].marker # NoMarker /\ copy[c].marker.win = window

CutsPast ==
  \A c \in Clients : req[c].pc = "filter" =>
    window > 0 /\ (req[c].cut = 0 \/ req[c].cut + window <= now)

CooldownInv ==
  /\ PublishedInPast /\ KnownRevisions
  /\ MemoAged /\ MarkersTrue /\ WindowOkTrue /\ CutsPast
  /\ CooldownHolds

(* What the age gate promises, whatever the caches do.                     *)
Gate == INSTANCE AgeGate WITH
  asked    <- [c \in Clients |-> req[c].asked + resp[c].asked],
  answered <- [c \in Clients |-> Answered(c)],
  held     <- [c \in Clients |-> copy[c].lines]

RefinesAgeGate == Gate!Spec
=============================================================================
