------------------------------ MODULE Snapshot ------------------------------
(***************************************************************************)
(* The table of cached artifacts (chilled-api): the task that scans the    *)
(* mounts' cache directories and syncs the table (snapshot/), and the      *)
(* requests that delete or re-pull artifacts behind its back               *)
(* (routes/purge.rs). A statement or a transaction is one step.            *)
(***************************************************************************)
EXTENDS Integers, Sequences, FiniteSets

CONSTANTS
  Mounts,       \* mount names any run of the process may be configured with
  Arts,         \* artifacts: a package's name and version
  Parts,        \* the files an artifact may consist of (jar, pom; one for crates)
  Clients,      \* requests to delete, re-pull or clear
  All,          \* the refresh scope None: every mount
  KeepRuns,     \* KEEP_RUNS
  MaxRequests,  \* bound: requests that purge or refresh
  MaxChanges,   \* bound: files stored or wiped by others
  MaxFaults     \* bound: failures, hang-ups and restarts

ASSUME SnapshotAssumption ==
  /\ All \notin Mounts
  /\ IsFiniteSet(Clients) /\ KeepRuns \in Nat \ {0}
  /\ MaxRequests \in Nat /\ MaxChanges \in Nat /\ MaxFaults \in Nat

VARIABLES
  mounted,      \* mounts_ops: the mounts this process serves
  files,        \* per mount, the cached files
  rows,         \* table artifacts
  runs,         \* table snapshot_runs
  configs,      \* table mount_configs: the mounts with a row
  queue,        \* the refresh channel
  task,         \* the snapshot loop and the locals of run_scoped
  req,          \* the locals of each request
  requests, changes, faults,
  gone,         \* history: artifacts absent at some moment of the current run
  adrift        \* history: mounts that changed with no refresh to follow

dbVars == <<rows, runs, configs>>
worldVars == <<requests, changes, faults>>
vars == <<mounted, files, dbVars, queue, task, req, worldVars, gone, adrift>>

Cached(m) == {a \in Arts : \E p \in Parts : <<a, p>> \in files[m]}
Listed(m) == {a \in Arts : \E r \in rows : r.mount = m /\ r.art = a}

(* The mounts a refresh scope selects.                                     *)
Covers(scope) == IF scope = All THEN mounted ELSE {scope} \intersect mounted

IdleTask == [pc |-> "idle", scope |-> All, todo |-> {},
             complete |-> {}, partial |-> {}, seen |-> {}]
NoRow == [mount |-> All, art |-> All, gen |-> 0]
IdleReq == [pc |-> "idle", kind |-> "none", row |-> NoRow, paths |-> {}, refetched |-> FALSE]

Init ==
  /\ mounted \in SUBSET Mounts
  /\ files \in [Mounts -> SUBSET (Arts \X Parts)]
  /\ rows = {} /\ runs = {} /\ configs = {}
  /\ queue = <<>> /\ task = IdleTask
  /\ req = [c \in Clients |-> IdleReq]
  /\ requests = 0 /\ changes = 0 /\ faults = 0
  /\ gone = {} /\ adrift = Mounts

Fault == faults < MaxFaults /\ faults' = faults + 1

(* Every step that touches files during a run records what is absent after *)
(* it.                                                                     *)
SetFiles(m, fs) ==
  /\ files' = [files EXCEPT ![m] = fs]
  /\ gone' = IF task.pc = "scan"
             THEN gone \union ({m} \X {a \in Arts : \A p \in Parts : <<a, p>> \notin fs})
             ELSE gone

-----------------------------------------------------------------------------
(* The loop (task.rs): a tick or a queued request, then one run.           *)

OnceTick ==   \* mutation: one run at startup, the rest on demand
  /\ task.pc = "idle" /\ runs = {}
  /\ task' = [IdleTask EXCEPT !.pc = "insert"]
  /\ UNCHANGED <<mounted, files, dbVars, queue, req, worldVars, gone, adrift>>

Tick ==
  /\ task.pc = "idle"
  /\ task' = [IdleTask EXCEPT !.pc = "insert"]
  /\ UNCHANGED <<mounted, files, dbVars, queue, req, worldVars, gone, adrift>>

Dequeue ==
  /\ task.pc = "idle" /\ queue # <<>>
  /\ queue' = Tail(queue)
  /\ task' = [IdleTask EXCEPT !.pc = "insert", !.scope = Head(queue)]
  /\ UNCHANGED <<mounted, files, dbVars, req, worldVars, gone, adrift>>

(* A run that fails leaves what it covered to the next tick.               *)
RunFails ==
  /\ Fault
  /\ task' = IdleTask /\ gone' = {}
  /\ adrift' = adrift \union Covers(task.scope)

-----------------------------------------------------------------------------
(* run_scoped. The ids of runs are consecutive and only ever compared with *)
(* the current one, so a run is kept by its age: run_id minus its id.      *)

InsertRun ==
  /\ task.pc = "insert"
  /\ runs' = {[r EXCEPT !.age = @ + 1] : r \in runs} \union {[age |-> 0, finished |-> FALSE]}
  /\ task' = [task EXCEPT !.pc = "scan", !.todo = Covers(task.scope)]
  /\ gone' = {k \in Mounts \X Arts : k[2] \notin Cached(k[1])}
  /\ UNCHANGED <<mounted, files, rows, configs, queue, req, worldVars, adrift>>

InsertRunFails ==
  /\ task.pc = "insert" /\ RunFails
  /\ UNCHANGED <<mounted, files, dbVars, queue, req, requests, changes>>

(* One mount's scan, of one moment; cache_stats of every registry leaves   *)
(* out, without a word, what is below a directory that it cannot read:     *)
(* such scans are noted in partial, for the properties only.               *)
Scan(m) ==
  /\ task.pc = "scan" /\ m \in task.todo
  /\ task' = [task EXCEPT !.todo = @ \ {m}, !.complete = @ \union {m},
                          !.seen = @ \union ({m} \X Cached(m))]
  /\ adrift' = adrift \ {m}
  /\ UNCHANGED <<mounted, files, dbVars, queue, req, worldVars, gone>>

ScanSkips(m) ==
  /\ task.pc = "scan" /\ m \in task.todo /\ Fault
  /\ \E found \in SUBSET Cached(m) :
       task' = [task EXCEPT !.todo = @ \ {m}, !.complete = @ \union {m},
                            !.partial = @ \union {m}, !.seen = @ \union ({m} \X found)]
  /\ adrift' = adrift \union {m}
  /\ UNCHANGED <<mounted, files, dbVars, queue, req, requests, changes, gone>>

ScanIncomplete(m) ==
  /\ task.pc = "scan" /\ m \in task.todo /\ Fault
  /\ task' = [task EXCEPT !.todo = @ \ {m}]
  /\ adrift' = adrift \union {m}
  /\ UNCHANGED <<mounted, files, dbVars, queue, req, requests, changes, gone>>

ScanPanics ==
  /\ task.pc = "scan" /\ task.todo # {} /\ RunFails
  /\ UNCHANGED <<mounted, files, dbVars, queue, req, requests, changes>>

(* Ids of rows are never reused: an id stands for one artifact for ever,   *)
(* and gen tells its row from earlier ones that a request still holds.     *)
Held(m, a) == {req[c].row.gen : c \in {d \in Clients :
                  req[d].row.mount = m /\ req[d].row.art = a}}
FreshGen(m, a) == CHOOSE n \in 0..Cardinality(Clients) : n \notin Held(m, a)

NewRow(k) == [mount |-> k[1], art |-> k[2], gen |-> FreshGen(k[1], k[2])]

BlindUpserted == rows \union {NewRow(k) : k \in task.seen}   \* mutation

(* The upsert keeps the id of a row it finds, and then the prune.          *)
Upserted ==
  rows \union {NewRow(k) : k \in {j \in task.seen : j[2] \notin Listed(j[1])}}

ScopePruned(r) ==   \* mutation: unmounted rows are judged by the scope
  \/ <<r.mount, r.art>> \notin task.seen /\ r.mount \in task.complete
  \/ r.mount \notin Covers(task.scope)

Pruned(r) ==
  \/ <<r.mount, r.art>> \notin task.seen /\ r.mount \in task.complete
  \/ r.mount \notin mounted

(* retention_sweep, for runs; sessions are another module's.               *)
Swept(r) == r.age >= KeepRuns \/ (r.age > 0 /\ ~r.finished)

Finish(r) == IF r.age = 0 THEN [r EXCEPT !.finished = TRUE] ELSE r

Commit ==
  /\ task.pc = "scan" /\ task.todo = {}
  /\ rows' = {r \in Upserted : ~Pruned(r)}
  /\ runs' = {r \in {Finish(s) : s \in runs} : ~Swept(r)}
  /\ configs' = mounted
  /\ task' = IdleTask /\ gone' = {}
  /\ UNCHANGED <<mounted, files, queue, req, worldVars, adrift>>

CommitFails ==
  /\ task.pc = "scan" /\ task.todo = {} /\ RunFails
  /\ UNCHANGED <<mounted, files, dbVars, queue, req, requests, changes>>

-----------------------------------------------------------------------------
(* Requests: handle_delete, handle_repull (a row, by id), handle_clear (a  *)
(* mount), and the two handle_refresh.                                     *)

Request == requests < MaxRequests /\ requests' = requests + 1

Lookup(c) ==
  /\ req[c].pc = "idle" /\ Request
  /\ \E r \in rows, kind \in {"delete", "repull"} :
       /\ r.mount \in mounted
       /\ req' = [req EXCEPT ![c] = [IdleReq EXCEPT !.pc = "purge", !.kind = kind, !.row = r]]
  /\ UNCHANGED <<mounted, files, dbVars, queue, task, changes, faults, gone, adrift>>

Clear(c) ==
  /\ req[c].pc = "idle" /\ Request
  /\ \E m \in mounted :
       req' = [req EXCEPT ![c] = [IdleReq EXCEPT !.pc = "purge", !.kind = "clear",
                                                 !.row = [NoRow EXCEPT !.mount = m]]]
  /\ UNCHANGED <<mounted, files, dbVars, queue, task, changes, faults, gone, adrift>>

Refresh ==
  /\ Request
  /\ \E scope \in mounted \union {All} : queue' = Append(queue, scope)
  /\ UNCHANGED <<mounted, files, dbVars, task, req, changes, faults, gone, adrift>>

(* A file that cannot be removed stays, unreported by purge_all, and is    *)
(* not among the paths that purge_artifact returns.                        *)
PurgeArtifact(c) ==
  LET m == req[c].row.mount
      present == {f \in files[m] : f[1] = req[c].row.art} IN
  /\ req[c].pc = "purge" /\ req[c].kind # "clear"
  /\ \E removed \in SUBSET present :
       /\ IF removed = present THEN UNCHANGED faults ELSE Fault
       /\ SetFiles(m, files[m] \ removed)
       /\ req' = [req EXCEPT ![c].paths = removed,
                             ![c].pc = IF req[c].kind = "repull" /\ removed # {}
                                       THEN "fetch" ELSE "drop"]
  /\ UNCHANGED <<mounted, dbVars, queue, task, requests, changes, adrift>>

PurgeAll(c) ==
  LET m == req[c].row.mount IN
  /\ req[c].pc = "purge" /\ req[c].kind = "clear"
  /\ \E left \in SUBSET files[m] :
       /\ IF left = {} THEN UNCHANGED faults ELSE Fault
       /\ SetFiles(m, left)
  /\ req' = [req EXCEPT ![c].pc = "drop"]
  /\ UNCHANGED <<mounted, dbVars, queue, task, requests, changes, adrift>>

HastyAfterPath(c, f, ok) ==   \* mutation: nothing to refresh when all came back
  LET rest == req[c].paths \ {f} IN
  req' = [req EXCEPT ![c].paths = rest, ![c].refetched = @ \/ ok,
                     ![c].pc = IF rest # {} THEN "fetch"
                               ELSE IF req[c].refetched \/ ok THEN "idle" ELSE "drop"]

AfterPath(c, f, ok) ==
  LET refetched == req[c].refetched \/ ok
      rest == req[c].paths \ {f} IN
  req' = [req EXCEPT ![c].paths = rest, ![c].refetched = refetched,
                     ![c].pc = IF rest # {} THEN "fetch"
                               ELSE IF refetched THEN "send" ELSE "drop"]

(* One path through the mount's own router: it is cached again, or answers *)
(* without a file (a failed write), or fails.                              *)
Repull(c) ==
  \E f \in req[c].paths :
    /\ req[c].pc = "fetch"
    /\ \/ /\ AfterPath(c, f, TRUE)
          /\ SetFiles(req[c].row.mount, files[req[c].row.mount] \union {f})
          /\ UNCHANGED faults
       \/ /\ AfterPath(c, f, TRUE) /\ Fault
          /\ UNCHANGED <<files, gone>>
       \/ /\ AfterPath(c, f, FALSE)
          /\ UNCHANGED <<files, gone, faults>>
    /\ UNCHANGED <<mounted, dbVars, queue, task, requests, changes, adrift>>

(* delete_by_id or delete_many; an error is ignored.                       *)
DropRows(c) ==
  /\ req[c].pc = "drop"
  /\ \/ /\ rows' = IF req[c].kind = "clear"
                   THEN {r \in rows : r.mount # req[c].row.mount}
                   ELSE rows \ {req[c].row}
        /\ UNCHANGED faults
     \/ Fault /\ UNCHANGED rows
  /\ req' = [req EXCEPT ![c].pc = "send"]
  /\ UNCHANGED <<mounted, files, runs, configs, queue, task, requests, changes, gone, adrift>>

Send(c) ==
  /\ req[c].pc = "send"
  /\ queue' = Append(queue, req[c].row.mount)
  /\ req' = [req EXCEPT ![c] = IdleReq]
  /\ UNCHANGED <<mounted, files, dbVars, task, worldVars, gone, adrift>>

(* A client that hangs up drops its handler where it waits.                *)
HangUp(c) ==
  /\ req[c].pc # "idle" /\ Fault
  /\ req' = [req EXCEPT ![c] = IdleReq]
  /\ adrift' = IF req[c].pc = "purge" THEN adrift ELSE adrift \union {req[c].row.mount}
  /\ UNCHANGED <<mounted, files, dbVars, queue, task, requests, changes, gone>>

-----------------------------------------------------------------------------
(* The world: other clients' downloads, an operator, a restart under       *)
(* another configuration.                                                  *)

Change(m, fs) ==
  /\ changes < MaxChanges /\ changes' = changes + 1
  /\ SetFiles(m, fs)
  /\ adrift' = adrift \union {m}
  /\ UNCHANGED <<mounted, dbVars, queue, task, req, requests, faults>>

Store(m) == m \in mounted /\ \E f \in (Arts \X Parts) \ files[m] : Change(m, files[m] \union {f})

Wipe(m) == files[m] # {} /\ Change(m, {})

Restart ==
  /\ Fault
  /\ mounted' \in SUBSET Mounts
  /\ queue' = <<>> /\ task' = IdleTask /\ gone' = {}
  /\ req' = [c \in Clients |-> IdleReq]
  /\ adrift' = Mounts
  /\ UNCHANGED <<files, dbVars, requests, changes>>

-----------------------------------------------------------------------------
TaskStep ==
  Tick \/ Dequeue \/ InsertRun \/ (\E m \in Mounts : Scan(m)) \/ Commit

ReqStep(c) ==
  PurgeArtifact(c) \/ PurgeAll(c) \/ Repull(c) \/ DropRows(c) \/ Send(c)

Next ==
  \/ TaskStep \/ InsertRunFails \/ ScanPanics \/ CommitFails
  \/ \E m \in Mounts : ScanSkips(m) \/ ScanIncomplete(m) \/ Store(m) \/ Wipe(m)
  \/ \E c \in Clients : Lookup(c) \/ Clear(c) \/ ReqStep(c) \/ HangUp(c)
  \/ Refresh \/ Restart

Spec == Init /\ [][Next]_vars

(* The interval keeps ticking and the runtime polls the loop; scans and    *)
(* statements end. Requests need not: a re-pull waits for upstream.        *)
FairSpec == Spec /\ WF_vars(TaskStep)

-----------------------------------------------------------------------------
(* Properties                                                              *)

RowSet == [mount : Mounts, art : Arts, gen : Nat]
TaskSet == [pc : {"idle", "insert", "scan"}, scope : Mounts \union {All},
            todo : SUBSET Mounts, complete : SUBSET Mounts, partial : SUBSET Mounts,
            seen : SUBSET (Mounts \X Arts)]
ReqSet == [pc : {"idle", "purge", "fetch", "drop", "send"},
           kind : {"none", "delete", "repull", "clear"},
           row : [mount : Mounts \union {All}, art : Arts \union {All}, gen : Nat],
           paths : SUBSET (Arts \X Parts), refetched : BOOLEAN]

(* The types of the tables, the loop's and the requests' state, and the    *)
(* unique index of the artifacts table.                                    *)
SnapshotTypeOK ==
  /\ mounted \subseteq Mounts /\ files \in [Mounts -> SUBSET (Arts \X Parts)]
  /\ rows \subseteq RowSet
  /\ \A r, s \in rows : r.mount = s.mount /\ r.art = s.art => r = s
  /\ runs \subseteq [age : Nat, finished : BOOLEAN]
  /\ configs \subseteq Mounts /\ queue \in Seq(Mounts \union {All})
  /\ task \in TaskSet /\ req \in [Clients -> ReqSet]
  /\ requests \in 0..MaxRequests /\ changes \in 0..MaxChanges /\ faults \in 0..MaxFaults
  /\ gone \subseteq Mounts \X Arts /\ adrift \subseteq Mounts

(* A run prunes the row of a mounted artifact only if its files were       *)
(* absent at some moment of the run, or its mount's scan left something    *)
(* out: neither an incomplete scan nor a scoped run takes other rows.      *)
PrunedWasGone ==
  [][Commit => \A r \in rows \ rows' :
       r.mount \in mounted \ task.partial => <<r.mount, r.art>> \in gone]_vars

InSync(m) == Listed(m) = Cached(m)

(* A refresh of m is to come: queued, or from a request under way.         *)
Announced(m) ==
  \/ \E i \in 1..Len(queue) : m \in Covers(queue[i])
  \/ \E c \in Clients : req[c].pc \in {"fetch", "drop", "send"} /\ req[c].row.mount = m

ToScan(m) ==
  \/ task.pc = "insert" /\ m \in Covers(task.scope)
  \/ task.pc = "scan" /\ m \in task.todo

SawAll(m) ==
  task.pc = "scan" /\ m \in task.complete /\ \A a \in Arts : <<m, a>> \in task.seen <=> a \in Cached(m)

(* Where the table and the cache of a mounted registry differ, a refresh   *)
(* that will see the difference is queued, under way or certain to be      *)
(* queued -- unless the difference arose behind the API's back. purge.rs:  *)
(* "the queued scoped run re-syncs everything else".                       *)
OutOfSyncIsOwed ==
  \A m \in mounted : InSync(m) \/ Announced(m) \/ ToScan(m) \/ SawAll(m) \/ m \in adrift

(* Whatever set them apart -- a hang-up, a failed run, a wiped cache --    *)
(* the table and the cache agree on each artifact again in the end.        *)
CatchesUp ==
  \A m \in Mounts : \A a \in Arts :
    (m \in mounted /\ ~(a \in Listed(m) <=> a \in Cached(m)))
      ~> (m \notin mounted \/ (a \in Listed(m) <=> a \in Cached(m)))
=============================================================================
