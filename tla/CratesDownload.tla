--------------------------- MODULE CratesDownload ---------------------------
(***************************************************************************)
(* The crate-file downloads of crates-proxy beside its index handler: the  *)
(* age gate of --restrict-downloads, which reads the same index file and   *)
(* fills the same caches, then the artifact cache and the upstream fetch.  *)
(***************************************************************************)
EXTENDS CratesIndex

CONSTANTS
  Downloaders,          \* each has at most one download under way
  RestrictDownloads     \* settings.restrict_downloads

ASSUME DownloadAssumption == RestrictDownloads \in BOOLEAN

VARIABLES
  crates,       \* the versions whose .crate file is cached
  dl,           \* a download under way: the handler's locals
  reply         \* the last answer this process gave a downloader

downloadVars == <<crates, dl, reply>>
allVars == <<vars, downloadVars>>

NoDownload == [pc |-> "idle", ver |-> 0, cut |-> Unfiltered, data |-> 0, entry |-> NoEntry]
NoReply == [status |-> 0, ver |-> 0]

DlAt(d, pc) == dl[d].pc = pc

DlGoto(d, r) == dl' = [dl EXCEPT ![d] = r] /\ UNCHANGED reply

Reply(d, status) ==
  /\ dl' = [dl EXCEPT ![d] = NoDownload]
  /\ reply' = [reply EXCEPT ![d] = [status |-> status, ver |-> dl[d].ver]]

(* version_pubtime of the requested version in a pristine body, against    *)
(* the cutoff captured when the request came in. Fail-closed: an unlisted  *)
(* or undated version is not old enough.                                   *)
FailOpenOldEnough(d, rev) ==        \* mutation: what is unknown may pass
  dl[d].ver \in 1..rev /\ hist[dl[d].ver].dated => hist[dl[d].ver].at <= dl[d].cut

OldEnough(d, rev) ==
  /\ dl[d].ver \in 1..rev
  /\ hist[dl[d].ver].dated
  /\ hist[dl[d].ver].at <= dl[d].cut

Verdict(d, rev) ==
  IF OldEnough(d, rev) THEN DlGoto(d, [dl[d] EXCEPT !.pc = "crate"]) ELSE Reply(d, 403)
-----------------------------------------------------------------------------
(* handle_download; an exempt crate, or no restriction, skips the gate.    *)
Gated == RestrictDownloads /\ Cutoff # Unfiltered

Download(d, v) ==
  /\ DlAt(d, "idle")
  /\ dl' = [dl EXCEPT ![d] =
             [NoDownload EXCEPT !.pc = IF Gated THEN "gate" ELSE "crate",
                                !.ver = v, !.cut = IF Gated THEN Cutoff ELSE Unfiltered]]
  /\ reply' = [reply EXCEPT ![d] = NoReply]
  /\ UNCHANGED <<vars, crates>>

GateRead(d) ==
  /\ DlAt(d, "gate")
  /\ IF disk # NoFile THEN Verdict(d, disk.rev)
                      ELSE DlGoto(d, [dl[d] EXCEPT !.pc = "gatefetch"])
  /\ UNCHANGED <<vars, crates>>

(* fetch_index_for_gate: unconditional, so never a 304; anything but a 200 *)
(* leaves the gate closed.                                                 *)
GateFetch(d) ==
  /\ DlAt(d, "gatefetch")
  /\ IF hist = <<>> THEN Reply(d, 403)
     ELSE DlGoto(d, [dl[d] EXCEPT !.pc = "gatewrite", !.data = Current,
                                  !.entry = Harvest(NoEntry)])
  /\ UNCHANGED <<vars, crates>>

GateFetchFails(d) ==
  /\ DlAt(d, "gatefetch") /\ Fault
  /\ Reply(d, 403)
  /\ UNCHANGED <<now, hist, window, sharedVars, req, clientVars, crates>>

GateWrite(d) ==
  /\ DlAt(d, "gatewrite")
  /\ disk' = [rev |-> dl[d].data, mtime |-> FileTime(dl[d].entry)]
  /\ DlGoto(d, [dl[d] EXCEPT !.pc = "gatestore"])
  /\ UNCHANGED <<envVars, meta, memo, req, clientVars, crates>>

GateWriteFails(d) ==
  /\ DiskMayFail /\ DlAt(d, "gatewrite") /\ Fault
  /\ disk' \in {disk, [rev |-> dl[d].data, mtime |-> now]}
  /\ DlGoto(d, [dl[d] EXCEPT !.pc = "gatestore"])
  /\ UNCHANGED <<now, hist, window, meta, memo, req, clientVars, crates>>

GateStore(d) ==
  /\ DlAt(d, "gatestore")
  /\ meta' = dl[d].entry
  /\ Verdict(d, dl[d].data)
  /\ UNCHANGED <<envVars, disk, memo, req, clientVars, crates>>

(* The cached .crate file, else download_crate.                            *)
ReadCrate(d) ==
  /\ DlAt(d, "crate")
  /\ IF dl[d].ver \in crates THEN Reply(d, 200)
                             ELSE DlGoto(d, [dl[d] EXCEPT !.pc = "download"])
  /\ UNCHANGED <<vars, crates>>

DownloadCrate(d) ==
  /\ DlAt(d, "download")
  /\ IF dl[d].ver \in 1..Current THEN DlGoto(d, [dl[d] EXCEPT !.pc = "store"])
                                 ELSE Reply(d, 404)
  /\ UNCHANGED <<vars, crates>>

(* Transport error 502, an upstream 5xx forwarded, a body over the cap 507 *)
DownloadFails(d, status) ==
  /\ DlAt(d, "download") /\ Fault
  /\ Reply(d, status)
  /\ UNCHANGED <<now, hist, window, sharedVars, req, clientVars, crates>>

StoreCrate(d) ==
  /\ DlAt(d, "store")
  /\ crates' = crates \cup {dl[d].ver}
  /\ Reply(d, 200)
  /\ UNCHANGED vars

StoreCrateFails(d) ==
  /\ DiskMayFail /\ DlAt(d, "store") /\ Fault
  /\ Reply(d, 200)
  /\ UNCHANGED <<now, hist, window, sharedVars, req, clientVars, crates>>

(* The client hangs up; writes handed to the thread pool still land.       *)
HangUp(d) ==
  /\ ~DlAt(d, "idle") /\ Fault
  /\ DlGoto(d, NoDownload)
  /\ disk' = IF DlAt(d, "gatewrite")
               THEN [rev |-> dl[d].data, mtime |-> FileTime(dl[d].entry)] ELSE disk
  /\ crates' = IF DlAt(d, "store") THEN crates \cup {dl[d].ver} ELSE crates
  /\ UNCHANGED <<now, hist, window, meta, memo, req, clientVars>>

(* purge_artifact and purge_all delete files, whoever is being served.     *)
Purge(vs) ==
  /\ vs # {} /\ vs \subseteq crates
  /\ crates' = crates \ vs
  /\ UNCHANGED <<vars, dl, reply>>

(* A restart drops the downloads under way too; the .crate files stay.     *)
RestartAll(w) ==
  /\ Restart(w)
  /\ dl' = [d \in Downloaders |-> NoDownload]
  /\ reply' = [d \in Downloaders |-> NoReply]
  /\ UNCHANGED crates
-----------------------------------------------------------------------------
Versions == 1..MaxRev

DownloadInit ==
  /\ Init
  /\ crates = {}
  /\ dl = [d \in Downloaders |-> NoDownload]
  /\ reply = [d \in Downloaders |-> NoReply]

DownloadStep(d) ==
  \/ GateRead(d) \/ GateFetch(d) \/ GateWrite(d) \/ GateStore(d)
  \/ ReadCrate(d) \/ DownloadCrate(d) \/ StoreCrate(d)

DownloadStepFails(d) ==
  \/ GateFetchFails(d) \/ GateWriteFails(d) \/ StoreCrateFails(d) \/ HangUp(d)
  \/ \E status \in {500, 502, 507} : DownloadFails(d, status)

IndexNext ==
  \/ \E c \in Clients : Begin(c) \/ Step(c) \/ StepFails(c)
  \/ Tick
  \/ \E dated \in Dating : Publish(dated)
  \/ WipeFile \/ EvictMeta \/ EvictMemo

DownloadNext ==
  \/ IndexNext /\ UNCHANGED downloadVars
  \/ \E w \in Windows : RestartAll(w)
  \/ \E d \in Downloaders :
       \/ \E v \in Versions : Download(d, v)
       \/ DownloadStep(d) \/ DownloadStepFails(d)
  \/ \E vs \in SUBSET crates : Purge(vs)

DownloadSpec == DownloadInit /\ [][DownloadNext]_allVars
-----------------------------------------------------------------------------
DlPcs == {"idle", "gate", "gatefetch", "gatewrite", "gatestore", "crate",
          "download", "store"}

Downloads ==
  {r \in [pc : DlPcs, ver : Versions \cup {0}, cut : Nat \cup {Unfiltered},
          data : Nat, entry : Entries] :
     r.pc = "idle" \/ r.ver \in Versions}
Replies == [status : {0, 200, 403, 404, 500, 502, 507}, ver : Versions \cup {0}]

(* The caches and the downloads range over the values the code allows.     *)
DownloadTypeOK ==
  /\ TypeOK
  /\ crates \subseteq Versions
  /\ dl \in [Downloaders -> Downloads]
  /\ reply \in [Downloaders -> Replies]

(* A version the gate should let through.                                  *)
Cleared(v) == v \in 1..Len(hist) /\ hist[v].dated /\ hist[v].at + window <= now

(* --restrict-downloads: no version younger than the running window, or    *)
(* of unknown age, is handed out -- from whichever cache, under whichever  *)
(* index (stale, just fetched, being replaced by an index request), and    *)
(* whatever was downloaded before the restriction was configured.          *)
GateHolds ==
  \A d \in Downloaders :
    RestrictDownloads /\ window > 0 /\ reply[d].status = 200 => Cleared(reply[d].ver)

(* Inductively: a download at the gate carries a cutoff in the past and    *)
(* judges a revision upstream has published; one past the gate is cleared. *)
AtGate(d) == dl[d].pc \in {"gate", "gatefetch", "gatewrite", "gatestore"}
PastGate(d) == dl[d].pc \in {"crate", "download", "store"}

GateInv ==
  /\ \A d \in Downloaders :
       /\ AtGate(d) => window > 0 /\ (dl[d].cut = 0 \/ dl[d].cut + window <= now)
       /\ dl[d].data <= Len(hist)
       /\ PastGate(d) /\ RestrictDownloads /\ window > 0 => Cleared(dl[d].ver)
  /\ GateHolds
=============================================================================
