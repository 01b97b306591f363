-------------------------- MODULE Snapshot_proofs --------------------------
(***************************************************************************)
(* Theorems about Snapshot: the types, what a run may prune, and that the  *)
(* table and the cache never differ for long without a refresh to come.    *)
(***************************************************************************)
EXTENDS Snapshot, FiniteSetTheorems, TLAPS

Files == Arts \X Parts

TaskTypeOK == task \in TaskSet
ReqTypeOK == req \in [Clients -> ReqSet]

(* The rest of the types.                                                  *)
TablesTypeOK ==
  /\ mounted \subseteq Mounts /\ files \in [Mounts -> SUBSET Files]
  /\ rows \subseteq RowSet
  /\ runs \subseteq [age : Nat, finished : BOOLEAN]
  /\ configs \subseteq Mounts /\ queue \in Seq(Mounts \union {All})
  /\ requests \in 0..MaxRequests /\ changes \in 0..MaxChanges /\ faults \in 0..MaxFaults
  /\ gone \subseteq Mounts \X Arts /\ adrift \subseteq Mounts

RowsUnique == \A r, s \in rows : r.mount = s.mount /\ r.art = s.art => r = s

LEMMA TypeSplit ==
  SnapshotTypeOK <=> TablesTypeOK /\ TaskTypeOK /\ ReqTypeOK /\ RowsUnique
BY DEF SnapshotTypeOK, TablesTypeOK, TaskTypeOK, ReqTypeOK, RowsUnique, Files

-----------------------------------------------------------------------------
(* Some generation is free: no more rows are held than there are clients.  *)

LEMMA FreshGenNat ==
  ASSUME ReqTypeOK, NEW m, NEW a
  PROVE  FreshGen(m, a) \in Nat
<1> DEFINE H == {c \in Clients : req[c].row.mount = m /\ req[c].row.art = a}
           n == Cardinality(Clients)
           G == Held(m, a)
<1>1. IsFiniteSet(Clients) /\ n \in Nat
  BY SnapshotAssumption, FS_CardinalityType
<1>2. IsFiniteSet(H) /\ Cardinality(H) <= n
  BY <1>1, FS_Subset
<1>3. G = {req[c].row.gen : c \in H}
  BY DEF Held
<1>4. IsFiniteSet(G) /\ Cardinality(G) <= Cardinality(H)
  <2> DEFINE f == [c \in H |-> req[c].row.gen]
  <2>1. f \in Surjection(H, G)
    BY <1>3 DEF Surjection
  <2> QED BY <2>1, <1>2, FS_Surjection
<1>5. \E i \in 0..n : i \notin G
  <2> SUFFICES ASSUME \A i \in 0..n : i \in G PROVE FALSE
    OBVIOUS
  <2>1. 0..n \subseteq G
    OBVIOUS
  <2>2. Cardinality(0..n) <= Cardinality(G)
    BY <2>1, <1>4, FS_Subset
  <2>3. Cardinality(0..n) = n + 1
    BY <1>1, FS_Interval
  <2>4. Cardinality(G) \in Nat /\ Cardinality(H) \in Nat
    BY <1>2, <1>4, FS_CardinalityType
  <2> HIDE DEF n, G, H
  <2> QED BY <1>1, <1>2, <1>4, <2>2, <2>3, <2>4
<1>6. FreshGen(m, a) \in 0..n
  BY <1>5 DEF FreshGen
<1> QED BY <1>1, <1>6

-----------------------------------------------------------------------------
(* Types. A request under way is about a mounted registry.                 *)

ReqMounted == \A c \in Clients : req[c].pc # "idle" => req[c].row.mount \in mounted

TypeInv == TablesTypeOK /\ TaskTypeOK /\ ReqTypeOK /\ RowsUnique /\ ReqMounted

LEMMA InitTypeInv == Init => TypeInv
<1> SUFFICES ASSUME Init PROVE TypeInv
  OBVIOUS
<1>1. TablesTypeOK
  BY SnapshotAssumption DEF Init, TablesTypeOK, Files
<1>2. TaskTypeOK /\ ReqTypeOK
  BY DEF Init, TaskTypeOK, TaskSet, IdleTask, ReqTypeOK, ReqSet, IdleReq, NoRow
<1>3. RowsUnique /\ ReqMounted
  BY DEF Init, RowsUnique, ReqMounted, IdleReq
<1> QED BY <1>1, <1>2, <1>3 DEF TypeInv

LEMMA CoversMounted ==
  ASSUME NEW scope
  PROVE  Covers(scope) \subseteq mounted
BY DEF Covers

LEMMA FaultCounts ==
  ASSUME faults \in 0..MaxFaults, Fault
  PROVE  faults' \in 0..MaxFaults
BY SnapshotAssumption DEF Fault

LEMMA IdleTyped == IdleTask \in TaskSet /\ IdleReq \in ReqSet
BY DEF TaskSet, IdleTask, ReqSet, IdleReq, NoRow

(* A step of the loop leaves the requests alone.                           *)
LEMMA LoopReqs ==
  ASSUME TypeInv, UNCHANGED <<mounted, req>>
  PROVE  ReqTypeOK' /\ ReqMounted'
BY DEF TypeInv, ReqTypeOK, ReqMounted

LEMMA QueueTyped ==
  ASSUME TypeInv, NEW x \in Mounts \union {All}
  PROVE  /\ Append(queue, x) \in Seq(Mounts \union {All})
         /\ queue # <<>> => /\ Head(queue) \in Mounts \union {All}
                           /\ Tail(queue) \in Seq(Mounts \union {All})
BY DEF TypeInv, TablesTypeOK

LEMMA StartTypes ==
  ASSUME TypeInv, Tick \/ Dequeue
  PROVE  TypeInv'
<1>1. TablesTypeOK /\ TaskTypeOK /\ RowsUnique
  BY DEF TypeInv
<1>2. CASE Tick
  <2>1. TablesTypeOK' /\ RowsUnique' /\ UNCHANGED <<mounted, req>>
    BY <1>1, <1>2 DEF Tick, TablesTypeOK, RowsUnique, dbVars, worldVars
  <2>2. TaskTypeOK'
    BY <1>2 DEF Tick, TaskTypeOK, TaskSet, IdleTask
  <2> QED BY <2>1, <2>2, LoopReqs DEF TypeInv
<1>3. CASE Dequeue
  <2>1. queue # <<>> /\ Head(queue) \in Mounts \union {All} /\ queue' \in Seq(Mounts \union {All})
    BY <1>3, QueueTyped DEF Dequeue
  <2>2. TablesTypeOK' /\ RowsUnique' /\ UNCHANGED <<mounted, req>>
    BY <1>1, <1>3, <2>1 DEF Dequeue, TablesTypeOK, RowsUnique, dbVars, worldVars
  <2>3. TaskTypeOK'
    BY <1>3, <2>1 DEF Dequeue, TaskTypeOK, TaskSet, IdleTask
  <2> QED BY <2>2, <2>3, LoopReqs DEF TypeInv
<1> QED BY <1>2, <1>3

LEMMA InsertRunTypes ==
  ASSUME TypeInv, InsertRun
  PROVE  TypeInv'
<1>1. TablesTypeOK /\ TaskTypeOK /\ RowsUnique
  BY DEF TypeInv
<1>2. runs' \subseteq [age : Nat, finished : BOOLEAN]
  <2>1. runs \subseteq [age : Nat, finished : BOOLEAN]
    BY <1>1 DEF TablesTypeOK
  <2>2. \A r \in runs : [r EXCEPT !.age = @ + 1] \in [age : Nat, finished : BOOLEAN]
    BY <2>1
  <2>3. [age |-> 0, finished |-> FALSE] \in [age : Nat, finished : BOOLEAN]
    OBVIOUS
  <2>4. runs' = {[r EXCEPT !.age = @ + 1] : r \in runs} \union {[age |-> 0, finished |-> FALSE]}
    BY DEF InsertRun
  <2> QED BY <2>2, <2>3, <2>4
<1>3. TablesTypeOK' /\ RowsUnique' /\ UNCHANGED <<mounted, req>>
  BY <1>1, <1>2 DEF InsertRun, TablesTypeOK, RowsUnique, worldVars
<1>4. TaskTypeOK'
  <2>1. Covers(task.scope) \subseteq Mounts
    BY <1>1, CoversMounted DEF TablesTypeOK
  <2> QED BY <1>1, <2>1 DEF InsertRun, TaskTypeOK, TaskSet
<1> QED BY <1>3, <1>4, LoopReqs DEF TypeInv

LEMMA RunFailsTypes ==
  ASSUME TypeInv, InsertRunFails \/ ScanPanics \/ CommitFails
  PROVE  TypeInv'
<1>1. TablesTypeOK /\ RowsUnique
  BY DEF TypeInv
<1>2. RunFails /\ UNCHANGED <<mounted, files, dbVars, queue, req, requests, changes>>
  BY DEF InsertRunFails, ScanPanics, CommitFails
<1>3. faults' \in 0..MaxFaults
  BY <1>1, <1>2, FaultCounts DEF RunFails, TablesTypeOK
<1>4. adrift' \subseteq Mounts
  BY <1>1, <1>2, CoversMounted DEF RunFails, TablesTypeOK
<1>5. TablesTypeOK' /\ RowsUnique'
  BY <1>1, <1>2, <1>3, <1>4 DEF RunFails, TablesTypeOK, RowsUnique, dbVars
<1>6. TaskTypeOK'
  BY <1>2, IdleTyped DEF RunFails, TaskTypeOK
<1> QED BY <1>2, <1>5, <1>6, LoopReqs DEF TypeInv

LEMMA ScanTypes ==
  ASSUME TypeInv, NEW m \in Mounts, Scan(m) \/ ScanSkips(m) \/ ScanIncomplete(m)
  PROVE  TypeInv'
<1>1. TablesTypeOK /\ TaskTypeOK /\ RowsUnique
  BY DEF TypeInv
<1>2. UNCHANGED <<mounted, files, dbVars, queue, req, requests, changes, gone>>
  BY DEF Scan, ScanSkips, ScanIncomplete, worldVars
<1>3. faults' \in 0..MaxFaults
  BY <1>1, FaultCounts DEF Scan, ScanSkips, ScanIncomplete, worldVars, TablesTypeOK
<1>4. adrift' \subseteq Mounts
  BY <1>1 DEF Scan, ScanSkips, ScanIncomplete, TablesTypeOK
<1>5. TablesTypeOK' /\ RowsUnique'
  BY <1>1, <1>2, <1>3, <1>4 DEF TablesTypeOK, RowsUnique, dbVars
<1>6. TaskTypeOK'
  <2>1. \A found \in SUBSET Cached(m) : {m} \X found \subseteq Mounts \X Arts
    BY DEF Cached
  <2>2. Cached(m) \in SUBSET Cached(m)
    OBVIOUS
  <2>3. /\ task = [pc |-> task.pc, scope |-> task.scope, todo |-> task.todo,
                   complete |-> task.complete, partial |-> task.partial, seen |-> task.seen]
        /\ task.pc \in {"idle", "insert", "scan"} /\ task.scope \in Mounts \union {All}
        /\ task.todo \subseteq Mounts /\ task.complete \subseteq Mounts
        /\ task.partial \subseteq Mounts
        /\ task.seen \subseteq Mounts \X Arts
    BY <1>1 DEF TaskTypeOK, TaskSet
  <2>4. ASSUME NEW found \in SUBSET Cached(m), NEW partial \in SUBSET {m},
               task' = [task EXCEPT !.todo = @ \ {m}, !.complete = @ \union {m},
                                    !.partial = @ \union partial, !.seen = @ \union ({m} \X found)]
        PROVE  TaskTypeOK'
    <3>1. {m} \X found \subseteq Mounts \X Arts
      BY <2>1
    <3> QED BY <2>3, <2>4, <3>1 DEF TaskTypeOK, TaskSet
  <2>5. CASE Scan(m)
    <3>1. task' = [task EXCEPT !.todo = @ \ {m}, !.complete = @ \union {m},
                               !.seen = @ \union ({m} \X Cached(m))]
      BY <2>5 DEF Scan
    <3>2. task' = [task EXCEPT !.todo = @ \ {m}, !.complete = @ \union {m},
                               !.partial = @ \union {}, !.seen = @ \union ({m} \X Cached(m))]
      BY <2>3, <3>1
    <3>3. {} \in SUBSET {m}
      OBVIOUS
    <3> QED BY <2>2, <2>4, <3>2, <3>3
  <2>6. CASE ScanSkips(m)
    BY <2>4, <2>6 DEF ScanSkips
  <2>7. CASE ScanIncomplete(m)
    BY <2>3, <2>7 DEF ScanIncomplete, TaskTypeOK, TaskSet
  <2> QED BY <2>5, <2>6, <2>7
<1> QED BY <1>2, <1>5, <1>6, LoopReqs DEF TypeInv

LEMMA UpsertedTyped ==
  ASSUME TypeInv
  PROVE  /\ Upserted \subseteq RowSet
         /\ \A r, s \in Upserted : r.mount = s.mount /\ r.art = s.art => r = s
<1>1. rows \subseteq RowSet /\ task.seen \subseteq Mounts \X Arts /\ RowsUnique /\ ReqTypeOK
  BY DEF TypeInv, TablesTypeOK, TaskTypeOK, TaskSet
<1> DEFINE fresh == {j \in task.seen : j[2] \notin Listed(j[1])}
<1>2. \A k \in fresh : /\ NewRow(k) \in RowSet
                       /\ NewRow(k).mount = k[1] /\ NewRow(k).art = k[2]
                       /\ k = <<k[1], k[2]>>
  BY <1>1, FreshGenNat DEF NewRow, RowSet
<1>3. \A k \in fresh : \A r \in rows : ~(r.mount = k[1] /\ r.art = k[2])
  BY <1>1 DEF Listed, RowSet
<1>4. Upserted = rows \union {NewRow(k) : k \in fresh}
  BY DEF Upserted
<1> HIDE DEF fresh
<1>5. Upserted \subseteq RowSet
  BY <1>1, <1>2, <1>4
<1>6. ASSUME NEW r \in Upserted, NEW s \in Upserted, r.mount = s.mount, r.art = s.art
      PROVE  r = s
  BY <1>1, <1>2, <1>3, <1>4, <1>6 DEF RowsUnique
<1> QED BY <1>5, <1>6

LEMMA CommitTypes ==
  ASSUME TypeInv, Commit
  PROVE  TypeInv'
<1>1. TablesTypeOK
  BY DEF TypeInv
<1>2. rows' \subseteq RowSet /\ RowsUnique'
  BY UpsertedTyped DEF Commit, RowsUnique
<1>3. runs' \subseteq [age : Nat, finished : BOOLEAN]
  <2>1. runs \subseteq [age : Nat, finished : BOOLEAN]
    BY <1>1 DEF TablesTypeOK
  <2>2. \A r \in runs : Finish(r) \in [age : Nat, finished : BOOLEAN]
    BY <2>1 DEF Finish
  <2> QED BY <2>2 DEF Commit
<1>4. TablesTypeOK'
  BY <1>1, <1>2, <1>3 DEF Commit, TablesTypeOK, worldVars
<1>5. TaskTypeOK' /\ UNCHANGED <<mounted, req>>
  BY IdleTyped DEF Commit, TaskTypeOK
<1> QED BY <1>2, <1>4, <1>5, LoopReqs DEF TypeInv

(* The step of a request, and of the world, leaves the loop alone.         *)
LEMMA TablesFrame ==
  ASSUME TypeInv,
         UNCHANGED <<mounted, runs, configs, task>>,
         files' \in [Mounts -> SUBSET Files], rows' \subseteq rows,
         queue' \in Seq(Mounts \union {All}),
         requests' \in 0..MaxRequests, changes' \in 0..MaxChanges, faults' \in 0..MaxFaults,
         gone' \subseteq Mounts \X Arts, adrift' \subseteq Mounts
  PROVE  TablesTypeOK' /\ TaskTypeOK' /\ RowsUnique'
BY DEF TypeInv, TablesTypeOK, TaskTypeOK, RowsUnique

LEMMA SetFilesTyped ==
  ASSUME TypeInv, NEW m \in Mounts, NEW fs \in SUBSET Files, SetFiles(m, fs)
  PROVE  files' \in [Mounts -> SUBSET Files] /\ gone' \subseteq Mounts \X Arts
<1>1. files \in [Mounts -> SUBSET Files] /\ gone \subseteq Mounts \X Arts
  BY DEF TypeInv, TablesTypeOK
<1>2. files' \in [Mounts -> SUBSET Files]
  BY <1>1 DEF SetFiles
<1>3. gone' \subseteq gone \union ({m} \X {a \in Arts : \A p \in Parts : <<a, p>> \notin fs})
  BY DEF SetFiles
<1> QED BY <1>1, <1>2, <1>3

(* One request changes, and stays about a mounted registry.                *)
LEMMA ReqUpdate ==
  ASSUME TypeInv, NEW c \in Clients, NEW r \in ReqSet,
         r.pc # "idle" => r.row.mount \in mounted,
         req' = [req EXCEPT ![c] = r], mounted' = mounted
  PROVE  ReqTypeOK' /\ ReqMounted'
BY DEF TypeInv, ReqTypeOK, ReqMounted

(* What a request under way holds.                                         *)
LEMMA ReqFields ==
  ASSUME TypeInv, NEW c \in Clients
  PROVE  /\ req[c] \in ReqSet /\ req[c].row.mount \in Mounts \union {All}
         /\ req[c].paths \subseteq Files /\ req[c].refetched \in BOOLEAN
         /\ req[c].pc # "idle" => req[c].row.mount \in mounted /\ req[c].row.mount \in Mounts
         /\ mounted \subseteq Mounts /\ files \in [Mounts -> SUBSET Files]
BY DEF TypeInv, ReqTypeOK, ReqMounted, ReqSet, Files, TablesTypeOK

LEMMA RequestCounts ==
  ASSUME requests \in 0..MaxRequests, Request
  PROVE  requests' \in 0..MaxRequests
BY SnapshotAssumption DEF Request

(* The counters, queue and histories a request's step may leave alone.     *)
LEMMA TablesSame ==
  ASSUME TypeInv
  PROVE  /\ files \in [Mounts -> SUBSET Files] /\ queue \in Seq(Mounts \union {All})
         /\ requests \in 0..MaxRequests /\ changes \in 0..MaxChanges
         /\ faults \in 0..MaxFaults
         /\ gone \subseteq Mounts \X Arts /\ adrift \subseteq Mounts /\ mounted \subseteq Mounts
BY DEF TypeInv, TablesTypeOK

LEMMA LookupTypes ==
  ASSUME TypeInv, NEW c \in Clients, Lookup(c)
  PROVE  TypeInv'
<1>1. requests' \in 0..MaxRequests
  BY TablesSame, RequestCounts DEF Lookup
<1>2. TablesTypeOK' /\ TaskTypeOK' /\ RowsUnique'
  BY <1>1, TablesSame, TablesFrame DEF Lookup, dbVars
<1>3. PICK r \in rows, kind \in {"delete", "repull"} :
        /\ r.mount \in mounted
        /\ req' = [req EXCEPT ![c] = [IdleReq EXCEPT !.pc = "purge", !.kind = kind, !.row = r]]
  BY DEF Lookup
<1>4. r \in RowSet
  BY <1>3 DEF TypeInv, TablesTypeOK
<1> DEFINE new == [IdleReq EXCEPT !.pc = "purge", !.kind = kind, !.row = r]
<1>5. new \in ReqSet /\ new.row.mount \in mounted
  BY <1>3, <1>4 DEF ReqSet, RowSet, IdleReq
<1>6. mounted' = mounted /\ req' = [req EXCEPT ![c] = new]
  BY <1>3 DEF Lookup
<1> HIDE DEF new
<1>7. ReqTypeOK' /\ ReqMounted'
  BY <1>5, <1>6, ReqUpdate
<1> QED BY <1>2, <1>7 DEF TypeInv

LEMMA ClearTypes ==
  ASSUME TypeInv, NEW c \in Clients, Clear(c)
  PROVE  TypeInv'
<1>1. requests' \in 0..MaxRequests
  BY TablesSame, RequestCounts DEF Clear
<1>2. TablesTypeOK' /\ TaskTypeOK' /\ RowsUnique'
  BY <1>1, TablesSame, TablesFrame DEF Clear, dbVars
<1>3. PICK m \in mounted :
        req' = [req EXCEPT ![c] = [IdleReq EXCEPT !.pc = "purge", !.kind = "clear",
                                                  !.row = [NoRow EXCEPT !.mount = m]]]
  BY DEF Clear
<1> DEFINE new == [IdleReq EXCEPT !.pc = "purge", !.kind = "clear",
                                  !.row = [NoRow EXCEPT !.mount = m]]
<1>4. m \in Mounts
  BY TablesSame
<1>5. new \in ReqSet /\ new.row.mount \in mounted
  BY <1>4 DEF ReqSet, IdleReq, NoRow
<1>6. mounted' = mounted /\ req' = [req EXCEPT ![c] = new]
  BY <1>3 DEF Clear
<1> HIDE DEF new
<1>7. ReqTypeOK' /\ ReqMounted'
  BY <1>5, <1>6, ReqUpdate
<1> QED BY <1>2, <1>7 DEF TypeInv

LEMMA RefreshTypes ==
  ASSUME TypeInv, Refresh
  PROVE  TypeInv'
<1>1. requests' \in 0..MaxRequests
  BY TablesSame, RequestCounts DEF Refresh
<1>2. queue' \in Seq(Mounts \union {All})
  BY TablesSame DEF Refresh
<1>3. TablesTypeOK' /\ TaskTypeOK' /\ RowsUnique'
  BY <1>1, <1>2, TablesSame, TablesFrame DEF Refresh, dbVars
<1>4. UNCHANGED <<mounted, req>>
  BY DEF Refresh
<1> QED BY <1>3, <1>4, LoopReqs DEF TypeInv

LEMMA PurgeTypes ==
  ASSUME TypeInv, NEW c \in Clients, PurgeArtifact(c) \/ PurgeAll(c)
  PROVE  TypeInv'
<1> DEFINE m == req[c].row.mount
<1>1. m \in Mounts /\ m \in mounted /\ req[c] \in ReqSet /\ files[m] \subseteq Files
  BY ReqFields DEF PurgeArtifact, PurgeAll
<1>2. UNCHANGED <<mounted, dbVars, queue, task, requests, changes, adrift>>
  BY DEF PurgeArtifact, PurgeAll, worldVars
<1>3. faults' \in 0..MaxFaults
  BY TablesSame, FaultCounts DEF PurgeArtifact, PurgeAll, worldVars
<1>4. CASE PurgeArtifact(c)
  <2>1. PICK removed \in SUBSET {f \in files[m] : f[1] = req[c].row.art} :
          /\ SetFiles(m, files[m] \ removed)
          /\ req' = [req EXCEPT ![c].paths = removed,
                                ![c].pc = IF req[c].kind = "repull" /\ removed # {}
                                          THEN "fetch" ELSE "drop"]
    BY <1>4 DEF PurgeArtifact
  <2> DEFINE new == [req[c] EXCEPT !.paths = removed,
                                   !.pc = IF req[c].kind = "repull" /\ removed # {}
                                          THEN "fetch" ELSE "drop"]
  <2>2. files' \in [Mounts -> SUBSET Files] /\ gone' \subseteq Mounts \X Arts
    BY <1>1, <2>1, SetFilesTyped
  <2>3. removed \subseteq Arts \X Parts
    BY <1>1 DEF Files
  <2>4. new \in ReqSet /\ new.row.mount \in mounted
    BY <1>1, <2>3 DEF ReqSet
  <2>5. req' = [req EXCEPT ![c] = new]
    BY <2>1 DEF TypeInv, ReqTypeOK
  <2> HIDE DEF new, m
  <2>6. ReqTypeOK' /\ ReqMounted'
    BY <1>2, <2>4, <2>5, ReqUpdate
  <2>7. TablesTypeOK' /\ TaskTypeOK' /\ RowsUnique'
    BY <1>2, <1>3, <2>2, TablesSame, TablesFrame DEF dbVars
  <2> QED BY <2>6, <2>7 DEF TypeInv
<1>5. CASE PurgeAll(c)
  <2> DEFINE new == [req[c] EXCEPT !.pc = "drop"]
  <2>1. req' = [req EXCEPT ![c] = new]
    BY <1>5 DEF PurgeAll, TypeInv, ReqTypeOK
  <2>2. files' \in [Mounts -> SUBSET Files] /\ gone' \subseteq Mounts \X Arts
    <3>1. PICK left \in SUBSET files[m] : SetFiles(m, left)
      BY <1>5 DEF PurgeAll
    <3> QED BY <1>1, <3>1, SetFilesTyped
  <2>3. new \in ReqSet /\ new.row.mount \in mounted
    BY <1>1 DEF ReqSet
  <2> HIDE DEF new, m
  <2>4. ReqTypeOK' /\ ReqMounted'
    BY <1>2, <2>1, <2>3, ReqUpdate
  <2>5. TablesTypeOK' /\ TaskTypeOK' /\ RowsUnique'
    BY <1>2, <1>3, <2>2, TablesSame, TablesFrame DEF dbVars
  <2> QED BY <2>4, <2>5 DEF TypeInv
<1> QED BY <1>4, <1>5

LEMMA RepullTypes ==
  ASSUME TypeInv, NEW c \in Clients, Repull(c)
  PROVE  TypeInv'
<1> DEFINE m == req[c].row.mount
<1>1. PICK f \in req[c].paths :
        /\ req[c].pc = "fetch"
        /\ \/ /\ AfterPath(c, f, TRUE) /\ SetFiles(m, files[m] \union {f})
              /\ UNCHANGED faults
           \/ AfterPath(c, f, TRUE) /\ Fault /\ UNCHANGED <<files, gone>>
           \/ AfterPath(c, f, FALSE) /\ UNCHANGED <<files, gone, faults>>
        /\ UNCHANGED <<mounted, dbVars, queue, task, requests, changes, adrift>>
  BY DEF Repull
<1>2. /\ m \in Mounts /\ m \in mounted /\ req[c] \in ReqSet /\ req[c].refetched \in BOOLEAN
      /\ files[m] \subseteq Files /\ files \in [Mounts -> SUBSET Files]
      /\ f \in Files /\ req[c].paths \subseteq Files
  BY <1>1, ReqFields
<1>3. PICK ok \in BOOLEAN : AfterPath(c, f, ok)
  BY <1>1
<1> DEFINE new == [req[c] EXCEPT !.paths = req[c].paths \ {f},
                                 !.refetched = req[c].refetched \/ ok,
                                 !.pc = IF req[c].paths \ {f} # {} THEN "fetch"
                                        ELSE IF req[c].refetched \/ ok THEN "send" ELSE "drop"]
<1>4. req' = [req EXCEPT ![c] = new]
  BY <1>3 DEF AfterPath, TypeInv, ReqTypeOK
<1>5. new \in ReqSet /\ new.row.mount \in mounted
  BY <1>2 DEF ReqSet, Files
<1>6. faults' \in 0..MaxFaults
  BY <1>1, TablesSame, FaultCounts
<1>7. files' \in [Mounts -> SUBSET Files] /\ gone' \subseteq Mounts \X Arts
  <2>1. CASE SetFiles(m, files[m] \union {f})
    <3>1. files[m] \union {f} \in SUBSET Files
      BY <1>2
    <3> HIDE DEF m, new
    <3> QED BY <1>2, <2>1, <3>1, SetFilesTyped
  <2>2. CASE UNCHANGED <<files, gone>>
    BY <2>2, TablesSame
  <2> QED BY <1>1, <2>1, <2>2
<1> HIDE DEF new, m
<1>8. ReqTypeOK' /\ ReqMounted'
  BY <1>1, <1>4, <1>5, ReqUpdate
<1>9. TablesTypeOK' /\ TaskTypeOK' /\ RowsUnique'
  BY <1>1, <1>6, <1>7, TablesSame, TablesFrame DEF dbVars
<1> QED BY <1>8, <1>9 DEF TypeInv

LEMMA FinishTypes ==
  ASSUME TypeInv, NEW c \in Clients, DropRows(c) \/ Send(c) \/ HangUp(c)
  PROVE  TypeInv'
<1>1. req[c] \in ReqSet /\ req[c].row.mount \in mounted /\ req[c].row.mount \in Mounts
  BY ReqFields DEF DropRows, Send, HangUp
<1>2. CASE DropRows(c)
  <2> DEFINE new == [req[c] EXCEPT !.pc = "send"]
  <2>1. rows' \subseteq rows /\ faults' \in 0..MaxFaults
    BY <1>2, TablesSame, FaultCounts DEF DropRows
  <2>2. TablesTypeOK' /\ TaskTypeOK' /\ RowsUnique'
    BY <1>2, <2>1, TablesSame, TablesFrame DEF DropRows
  <2>3. new \in ReqSet /\ new.row.mount \in mounted
    BY <1>1 DEF ReqSet
  <2>4. req' = [req EXCEPT ![c] = new] /\ mounted' = mounted
    BY <1>2 DEF DropRows, TypeInv, ReqTypeOK
  <2> HIDE DEF new
  <2>5. ReqTypeOK' /\ ReqMounted'
    BY <2>3, <2>4, ReqUpdate
  <2> QED BY <2>2, <2>5 DEF TypeInv
<1>3. ASSUME Send(c) \/ HangUp(c)
      PROVE  ReqTypeOK' /\ ReqMounted'
  <2>1. req' = [req EXCEPT ![c] = IdleReq] /\ mounted' = mounted
    BY <1>3 DEF Send, HangUp
  <2> QED BY <2>1, IdleTyped, ReqUpdate DEF IdleReq
<1>4. CASE Send(c)
  <2>1. queue' \in Seq(Mounts \union {All})
    BY <1>1, <1>4, QueueTyped DEF Send
  <2>2. TablesTypeOK' /\ TaskTypeOK' /\ RowsUnique'
    BY <1>4, <2>1, TablesSame, TablesFrame DEF Send, dbVars, worldVars
  <2> QED BY <1>3, <1>4, <2>2 DEF TypeInv
<1>5. CASE HangUp(c)
  <2>1. faults' \in 0..MaxFaults
    BY <1>5, TablesSame, FaultCounts DEF HangUp
  <2>2. adrift' \subseteq Mounts
    BY <1>1, <1>5, TablesSame DEF HangUp
  <2>3. TablesTypeOK' /\ TaskTypeOK' /\ RowsUnique'
    BY <1>5, <2>1, <2>2, TablesSame, TablesFrame DEF HangUp, dbVars
  <2> QED BY <1>3, <1>5, <2>3 DEF TypeInv
<1> QED BY <1>2, <1>4, <1>5

LEMMA ChangeTypes ==
  ASSUME TypeInv, NEW m \in Mounts, Store(m) \/ Wipe(m)
  PROVE  TypeInv'
<1>1. PICK fs \in SUBSET Files : Change(m, fs)
  <2>1. files[m] \subseteq Files
    BY TablesSame
  <2> QED BY <2>1 DEF Store, Wipe, Files
<1>2. files' \in [Mounts -> SUBSET Files] /\ gone' \subseteq Mounts \X Arts
  BY <1>1, SetFilesTyped DEF Change
<1>3. changes' \in 0..MaxChanges
  BY <1>1, TablesSame, SnapshotAssumption DEF Change
<1>4. TablesTypeOK' /\ TaskTypeOK' /\ RowsUnique'
  BY <1>1, <1>2, <1>3, TablesSame, TablesFrame DEF Change, dbVars
<1>5. UNCHANGED <<mounted, req>>
  BY <1>1 DEF Change
<1> QED BY <1>4, <1>5, LoopReqs DEF TypeInv

LEMMA RestartTypes ==
  ASSUME TypeInv, Restart
  PROVE  TypeInv'
<1>1. TablesTypeOK /\ RowsUnique
  BY DEF TypeInv
<1>2. faults' \in 0..MaxFaults
  BY TablesSame, FaultCounts DEF Restart
<1>3. TablesTypeOK' /\ RowsUnique'
  BY <1>1, <1>2 DEF Restart, TablesTypeOK, RowsUnique, dbVars
<1>4. TaskTypeOK' /\ ReqTypeOK' /\ ReqMounted'
  BY IdleTyped DEF Restart, TaskTypeOK, ReqTypeOK, ReqMounted, IdleReq
<1> QED BY <1>3, <1>4 DEF TypeInv

LEMMA StutterTypes ==
  ASSUME TypeInv, UNCHANGED vars
  PROVE  TypeInv'
BY DEF TypeInv, TablesTypeOK, TaskTypeOK, ReqTypeOK, RowsUnique, ReqMounted, vars, dbVars, worldVars

LEMMA StepTypes ==
  ASSUME TypeInv, [Next]_vars
  PROVE  TypeInv'
<1>1. CASE TaskStep
  BY <1>1, StartTypes, InsertRunTypes, ScanTypes, CommitTypes DEF TaskStep
<1>2. CASE InsertRunFails \/ ScanPanics \/ CommitFails
  BY <1>2, RunFailsTypes
<1>3. CASE \E m \in Mounts : ScanSkips(m) \/ ScanIncomplete(m) \/ Store(m) \/ Wipe(m)
  BY <1>3, ScanTypes, ChangeTypes
<1>4. CASE \E c \in Clients : Lookup(c) \/ Clear(c) \/ ReqStep(c) \/ HangUp(c)
  BY <1>4, LookupTypes, ClearTypes, PurgeTypes, RepullTypes, FinishTypes DEF ReqStep
<1>5. CASE Refresh \/ Restart
  BY <1>5, RefreshTypes, RestartTypes
<1>6. CASE UNCHANGED vars
  BY <1>6, StutterTypes
<1> QED BY <1>1, <1>2, <1>3, <1>4, <1>5, <1>6 DEF Next

LEMMA TypeInvariant == Spec => []TypeInv
<1>1. TypeInv /\ [Next]_vars => TypeInv'
  BY StepTypes
<1> QED BY InitTypeInv, <1>1, PTL DEF Spec

(* Every reachable state has the types; a row stays the only one of its    *)
(* artifact although requests delete and runs re-insert it.                *)
THEOREM SnapshotTypeCorrect == Spec => []SnapshotTypeOK
<1>1. TypeInv => SnapshotTypeOK
  BY TypeSplit DEF TypeInv
<1> QED BY <1>1, TypeInvariant, PTL

-----------------------------------------------------------------------------
(* What a run has noted: nothing before its scan, then mounts it covers,   *)
(* each to scan or scanned, and artifacts of the scanned ones only.        *)

TaskInv ==
  /\ task.pc # "scan" => task.complete = {} /\ task.seen = {}
  /\ task.pc = "scan" =>
       /\ task.todo \subseteq Covers(task.scope) /\ task.complete \subseteq Covers(task.scope)
       /\ task.todo \intersect task.complete = {}
       /\ task.seen \subseteq task.complete \X Arts

LEMMA InitTaskInv == Init => TaskInv
BY DEF Init, TaskInv, IdleTask

LEMMA TaskFields ==
  ASSUME TypeInv
  PROVE  task = [pc |-> task.pc, scope |-> task.scope, todo |-> task.todo,
                 complete |-> task.complete, partial |-> task.partial, seen |-> task.seen]
BY DEF TypeInv, TaskTypeOK, TaskSet

(* Only the loop writes its state, and only a restart what is mounted.     *)
LEMMA LoopFrame ==
  ASSUME [Next]_vars
  PROVE  \/ Tick \/ Dequeue \/ InsertRun \/ Commit
         \/ \E m \in Mounts : Scan(m) \/ ScanSkips(m) \/ ScanIncomplete(m)
         \/ InsertRunFails \/ ScanPanics \/ CommitFails
         \/ Restart
         \/ UNCHANGED <<mounted, task>>
<1>1. CASE \E m \in Mounts : Store(m) \/ Wipe(m)
  BY <1>1 DEF Store, Wipe, Change
<1>2. CASE \E c \in Clients : Lookup(c) \/ Clear(c) \/ ReqStep(c) \/ HangUp(c)
  BY <1>2 DEF Lookup, Clear, ReqStep, PurgeArtifact, PurgeAll, Repull, DropRows, Send, HangUp
<1>3. CASE Refresh
  BY <1>3 DEF Refresh
<1>4. CASE UNCHANGED vars
  BY <1>4 DEF vars
<1> QED BY <1>1, <1>2, <1>3, <1>4 DEF Next, TaskStep

(* The steps that end or begin a run leave nothing noted.                  *)
LEMMA Unscanned ==
  ASSUME Tick \/ Dequeue \/ Commit \/ InsertRunFails \/ ScanPanics \/ CommitFails \/ Restart
  PROVE  task'.pc # "scan" /\ task'.complete = {} /\ task'.seen = {}
<1>1. CASE Tick
  BY <1>1 DEF Tick, IdleTask
<1>2. CASE Dequeue
  BY <1>2 DEF Dequeue, IdleTask
<1>3. CASE Commit \/ InsertRunFails \/ ScanPanics \/ CommitFails \/ Restart
  <2>1. task' = IdleTask
    BY <1>3 DEF Commit, InsertRunFails, ScanPanics, CommitFails, RunFails, Restart
  <2> QED BY <2>1 DEF IdleTask
<1> QED BY <1>1, <1>2, <1>3

LEMMA StepTaskInv ==
  ASSUME TypeInv, TaskInv, [Next]_vars
  PROVE  TaskInv'
<1>1. CASE Tick \/ Dequeue \/ Commit \/ InsertRunFails \/ ScanPanics \/ CommitFails \/ Restart
  BY <1>1, Unscanned DEF TaskInv
<1>2. CASE InsertRun
  <2>1. task' = [task EXCEPT !.pc = "scan", !.todo = Covers(task.scope)] /\ mounted' = mounted
    BY <1>2 DEF InsertRun
  <2>2. task.complete = {} /\ task.seen = {}
    BY <1>2 DEF InsertRun, TaskInv
  <2> QED BY <2>1, <2>2, TaskFields DEF TaskInv, Covers
<1>3. ASSUME NEW m \in Mounts, Scan(m) \/ ScanSkips(m) \/ ScanIncomplete(m)
      PROVE  TaskInv'
  <2>1. PICK complete \in SUBSET {m}, found \in SUBSET Cached(m) :
          /\ task'.pc = task.pc /\ task'.scope = task.scope /\ task'.todo = task.todo \ {m}
          /\ task'.complete = task.complete \union complete
          /\ task'.seen = task.seen \union (complete \X found)
    <3>1. CASE Scan(m)
      <4>1. task' = [task EXCEPT !.todo = @ \ {m}, !.complete = @ \union {m},
                                 !.seen = @ \union ({m} \X Cached(m))]
        BY <3>1 DEF Scan
      <4> QED BY <4>1, TaskFields
    <3>2. CASE ScanSkips(m)
      <4>1. PICK found \in SUBSET Cached(m) :
              task' = [task EXCEPT !.todo = @ \ {m}, !.complete = @ \union {m},
                                   !.partial = @ \union {m}, !.seen = @ \union ({m} \X found)]
        BY <3>2 DEF ScanSkips
      <4> QED BY <4>1, TaskFields
    <3>3. CASE ScanIncomplete(m)
      <4>1. task' = [task EXCEPT !.todo = @ \ {m}]
        BY <3>3 DEF ScanIncomplete
      <4>2. task'.complete = task.complete \union {} /\ task'.seen = task.seen \union ({} \X {})
        BY <4>1, TaskFields
      <4> QED BY <4>1, <4>2, TaskFields
    <3> QED BY <1>3, <3>1, <3>2, <3>3
  <2>2. task.pc = "scan" /\ m \in task.todo /\ mounted' = mounted
    BY <1>3 DEF Scan, ScanSkips, ScanIncomplete
  <2>3. /\ task'.pc = "scan" /\ task'.scope = task.scope /\ task'.todo = task.todo \ {m}
        /\ task'.complete = task.complete \union complete
        /\ task'.seen = task.seen \union (complete \X found)
    BY <2>1, <2>2
  <2>4. found \subseteq Arts
    BY DEF Cached
  <2>5. Covers(task.scope)' = Covers(task.scope)
    BY <2>2, <2>3 DEF Covers
  <2> QED BY <2>2, <2>3, <2>4, <2>5 DEF TaskInv
<1>4. CASE UNCHANGED <<mounted, task>>
  BY <1>4 DEF TaskInv, Covers
<1> QED BY <1>1, <1>2, <1>3, <1>4, LoopFrame

-----------------------------------------------------------------------------
(* What a run may prune. The history is complete: an artifact that is not  *)
(* cached now, or that a completed scan did not see, is in it.             *)

GoneInv ==
  task.pc = "scan" =>
    /\ \A m \in Mounts, a \in Arts : a \notin Cached(m) => <<m, a>> \in gone
    /\ \A m \in task.complete \ task.partial, a \in Arts :
         <<m, a>> \notin task.seen => <<m, a>> \in gone

LEMMA SetFilesGone ==
  ASSUME TypeInv, GoneInv, NEW m \in Mounts, NEW fs, SetFiles(m, fs), UNCHANGED task
  PROVE  GoneInv'
<1> SUFFICES ASSUME task.pc = "scan" PROVE GoneInv'
  BY DEF GoneInv
<1>1. gone' = gone \union ({m} \X {a \in Arts : \A p \in Parts : <<a, p>> \notin fs})
  BY DEF SetFiles
<1>2. \A n \in Mounts : files'[n] = IF n = m THEN fs ELSE files[n]
  BY TablesSame DEF SetFiles
<1>3. ASSUME NEW n \in Mounts, NEW a \in Arts, ~(\E p \in Parts : <<a, p>> \in files'[n])
      PROVE  <<n, a>> \in gone'
  <2>1. CASE n = m
    BY <1>1, <1>2, <1>3, <2>1
  <2>2. CASE n # m
    BY <1>1, <1>2, <1>3, <2>2 DEF GoneInv, Cached
  <2> QED BY <2>1, <2>2
<1>4. \A n \in Mounts, a \in Arts : a \notin Cached(n)' => <<n, a>> \in gone'
  BY <1>3 DEF Cached
<1>5. \A n \in task.complete \ task.partial, a \in Arts :
        <<n, a>> \notin task.seen => <<n, a>> \in gone'
  BY <1>1 DEF GoneInv
<1> QED BY <1>4, <1>5 DEF GoneInv

LEMMA StepGoneInv ==
  ASSUME TypeInv, TaskInv, GoneInv, [Next]_vars
  PROVE  GoneInv'
<1>1. CASE Tick \/ Dequeue \/ Commit \/ InsertRunFails \/ ScanPanics \/ CommitFails \/ Restart
  BY <1>1, Unscanned DEF GoneInv
<1>2. CASE InsertRun
  <2>1. /\ task' = [task EXCEPT !.pc = "scan", !.todo = Covers(task.scope)]
        /\ gone' = {k \in Mounts \X Arts : k[2] \notin Cached(k[1])} /\ files' = files
    BY <1>2 DEF InsertRun
  <2>2. task'.complete = {}
    BY <1>2, <2>1, TaskFields DEF InsertRun, TaskInv
  <2>3. \A m \in Mounts, a \in Arts : a \notin Cached(m)' => <<m, a>> \in gone'
    BY <2>1 DEF Cached
  <2> QED BY <2>2, <2>3 DEF GoneInv
<1>3. ASSUME NEW m \in Mounts, Scan(m)
      PROVE  GoneInv'
  <2>1. /\ task.pc = "scan" /\ UNCHANGED <<files, gone>>
        /\ task'.complete = task.complete \union {m} /\ task'.partial = task.partial
        /\ task'.seen = task.seen \union ({m} \X Cached(m))
    BY <1>3, TaskFields DEF Scan
  <2> QED BY <2>1 DEF GoneInv, Cached
<1>4. ASSUME NEW m \in Mounts, ScanIncomplete(m)
      PROVE  GoneInv'
  <2>1. /\ task.pc = "scan" /\ UNCHANGED <<files, gone>>
        /\ task'.complete = task.complete /\ task'.partial = task.partial
        /\ task'.seen = task.seen
    BY <1>4, TaskFields DEF ScanIncomplete
  <2> QED BY <2>1 DEF GoneInv, Cached
<1>5. CASE \E m \in Mounts : Store(m) \/ Wipe(m)
  BY <1>5, SetFilesGone DEF Store, Wipe, Change
<1>6. ASSUME NEW c \in Clients, PurgeArtifact(c) \/ PurgeAll(c) \/ Repull(c)
      PROVE  GoneInv'
  <2>1. req[c].row.mount \in Mounts /\ UNCHANGED task
    BY <1>6, ReqFields DEF PurgeArtifact, PurgeAll, Repull
  <2>2. (\E fs : SetFiles(req[c].row.mount, fs)) \/ UNCHANGED <<files, gone>>
    BY <1>6 DEF PurgeArtifact, PurgeAll, Repull
  <2>3. CASE UNCHANGED <<files, gone>>
    BY <2>1, <2>3 DEF GoneInv, Cached
  <2> QED BY <2>1, <2>2, <2>3, SetFilesGone
<1>7. ASSUME NEW c \in Clients, Lookup(c) \/ Clear(c) \/ DropRows(c) \/ Send(c) \/ HangUp(c)
      PROVE  GoneInv'
  <2>1. UNCHANGED <<files, task, gone>>
    BY <1>7 DEF Lookup, Clear, DropRows, Send, HangUp
  <2> QED BY <2>1 DEF GoneInv, Cached
<1>8. CASE Refresh \/ UNCHANGED vars
  <2>1. UNCHANGED <<files, task, gone>>
    BY <1>8 DEF Refresh, vars
  <2> QED BY <2>1 DEF GoneInv, Cached
<1>9. ASSUME NEW m \in Mounts, ScanSkips(m)
      PROVE  GoneInv'
  <2>1. PICK found \in SUBSET Cached(m) :
          task' = [task EXCEPT !.todo = @ \ {m}, !.complete = @ \union {m},
                               !.partial = @ \union {m}, !.seen = @ \union ({m} \X found)]
    BY <1>9 DEF ScanSkips
  <2>2. /\ task.pc = "scan" /\ UNCHANGED <<files, gone>>
        /\ task'.complete \ task'.partial = (task.complete \ task.partial) \ {m}
        /\ task'.seen = task.seen \union ({m} \X found)
    BY <1>9, <2>1, TaskFields DEF ScanSkips
  <2> QED BY <2>2 DEF GoneInv, Cached
<1> QED BY <1>1, <1>2, <1>3, <1>4, <1>5, <1>6, <1>7, <1>8, <1>9 DEF Next, TaskStep, ReqStep

LEMMA CommitPrunesGone ==
  ASSUME TypeInv, GoneInv, Commit, NEW r \in rows \ rows', r.mount \in mounted \ task.partial
  PROVE  <<r.mount, r.art>> \in gone
<1>1. r \in Upserted
  BY DEF Upserted
<1>2. Pruned(r) /\ task.pc = "scan"
  BY <1>1 DEF Commit
<1>3. <<r.mount, r.art>> \notin task.seen /\ r.mount \in task.complete
  BY <1>2 DEF Pruned
<1>4. r.art \in Arts
  BY DEF TypeInv, TablesTypeOK, RowSet
<1> QED BY <1>2, <1>3, <1>4 DEF GoneInv

(* As long as every directory of a mount can be read, a run drops rows of  *)
(* its artifacts only if their files were absent at some moment of the     *)
(* run, however purges, re-pulls and downloads interleave with its scan.   *)
THEOREM PrunedWasGoneHolds == Spec => PrunedWasGone
<1>1. Init => TypeInv /\ TaskInv /\ GoneInv
  BY InitTypeInv, InitTaskInv DEF Init, GoneInv, IdleTask
<1>2. TypeInv /\ TaskInv /\ GoneInv /\ [Next]_vars => (TypeInv /\ TaskInv /\ GoneInv)'
  BY StepTypes, StepTaskInv, StepGoneInv
<1>3. TypeInv /\ GoneInv /\ [Next]_vars =>
        [Commit => \A r \in rows \ rows' :
           r.mount \in mounted \ task.partial => <<r.mount, r.art>> \in gone]_vars
  BY CommitPrunesGone
<1> QED BY <1>1, <1>2, <1>3, PTL DEF Spec, PrunedWasGone

-----------------------------------------------------------------------------
(* A difference is owed a refresh. Inductively more is true: a mount that  *)
(* a running scan has completed is not merely in sync but was seen in full, *)
(* or one of the other ways out holds.                                     *)

Owed(m) ==
  \/ Announced(m) \/ ToScan(m) \/ SawAll(m) \/ m \in adrift
  \/ InSync(m) /\ ~(task.pc = "scan" /\ m \in task.complete)

OwedInv == \A m \in mounted : Owed(m)

(* A row of another mount, or none, changed: m's list is the same.         *)
LEMMA ListedSame ==
  ASSUME NEW m, {r \in rows : r.mount = m}' = {r \in rows : r.mount = m}
  PROVE  Listed(m)' = Listed(m)
<1>1. \A a \in Arts : (\E r \in rows' : r.mount = m /\ r.art = a)
                      <=> (\E r \in rows : r.mount = m /\ r.art = a)
  OBVIOUS
<1> QED BY <1>1 DEF Listed

(* What a step must keep of m so that m's refresh stays owed.              *)
LEMMA OwedFrame ==
  ASSUME NEW m, Owed(m), UNCHANGED <<mounted, task>>, files'[m] = files[m],
         Listed(m)' = Listed(m), Announced(m) => Announced(m)', m \in adrift => m \in adrift'
  PROVE  Owed(m)'
<1>1. Cached(m)' = Cached(m) /\ InSync(m)' = InSync(m)
  BY DEF Cached, InSync
<1>2. ToScan(m)' = ToScan(m)
  BY DEF ToScan, Covers
<1>3. SawAll(m)' = SawAll(m)
  BY <1>1 DEF SawAll
<1> QED BY <1>1, <1>2, <1>3 DEF Owed

LEMMA AnnouncedFrame ==
  ASSUME TypeInv, NEW m, Announced(m), mounted' = mounted,
         queue' = queue \/ \E x \in Mounts \union {All} : queue' = Append(queue, x),
         \A c \in Clients :
           req[c].pc \in {"fetch", "drop", "send"} /\ req[c].row.mount = m =>
             req'[c].pc \in {"fetch", "drop", "send"} /\ req'[c].row.mount = m
  PROVE  Announced(m)'
<1>1. queue \in Seq(Mounts \union {All})
  BY TablesSame
<1>2. \A i \in 1..Len(queue) : i \in 1..Len(queue') /\ queue'[i] = queue[i]
  BY <1>1
<1>3. \A x : Covers(x)' = Covers(x)
  BY DEF Covers
<1>4. CASE \E i \in 1..Len(queue) : m \in Covers(queue[i])
  <2>1. PICK i \in 1..Len(queue) : m \in Covers(queue[i])
    BY <1>4
  <2>2. i \in 1..Len(queue') /\ queue'[i] = queue[i]
    BY <1>2
  <2>3. m \in Covers(queue[i])'
    BY <2>1, <2>2 DEF Covers
  <2> QED BY <2>2, <2>3 DEF Announced
<1>5. CASE \E c \in Clients : req[c].pc \in {"fetch", "drop", "send"} /\ req[c].row.mount = m
  BY <1>5 DEF Announced
<1> QED BY <1>4, <1>5 DEF Announced

(* The same for a step of one request c that is about another mount.       *)
LEMMA OtherMount ==
  ASSUME TypeInv, NEW m, NEW c \in Clients, NEW r, Announced(m), mounted' = mounted,
         queue' = queue \/ \E x \in Mounts \union {All} : queue' = Append(queue, x),
         req' = [req EXCEPT ![c] = r],
         req[c].pc \in {"idle", "purge"} \/ req[c].row.mount # m
  PROVE  Announced(m)'
BY AnnouncedFrame DEF TypeInv, ReqTypeOK

LEMMA StartOwed ==
  ASSUME TypeInv, OwedInv, Tick \/ Dequeue
  PROVE  OwedInv'
<1> SUFFICES ASSUME NEW m \in mounted' PROVE Owed(m)'
  BY DEF OwedInv
<1>1. m \in mounted /\ UNCHANGED <<mounted, files, rows, req, adrift>> /\ task.pc = "idle"
  BY DEF Tick, Dequeue, dbVars
<1>2. Owed(m) /\ Cached(m)' = Cached(m) /\ Listed(m)' = Listed(m) /\ \A x : Covers(x)' = Covers(x)
  BY <1>1 DEF OwedInv, Cached, Listed, Covers
<1>3. task'.pc = "insert"
  BY DEF Tick, Dequeue, IdleTask
<1>4. ~ToScan(m) /\ ~SawAll(m)
  BY <1>1 DEF ToScan, SawAll
<1>5. CASE m \in adrift \/ InSync(m)
  BY <1>1, <1>2, <1>3, <1>5 DEF Owed, InSync
<1>6. CASE Announced(m)
  <2>1. CASE Tick
    <3>1. queue' = queue
      BY <2>1 DEF Tick
    <3> QED BY <1>1, <1>6, <3>1, AnnouncedFrame DEF Owed
  <2>2. CASE Dequeue
    <3>1. queue # <<>> /\ queue' = Tail(queue) /\ task'.scope = Head(queue)
      BY <2>2 DEF Dequeue, IdleTask
    <3>2. CASE \E d \in Clients : req[d].pc \in {"fetch", "drop", "send"} /\ req[d].row.mount = m
      BY <1>1, <3>2 DEF Owed, Announced
    <3>3. CASE \E i \in 1..Len(queue) : m \in Covers(queue[i])
      <4>1. PICK i \in 1..Len(queue) : m \in Covers(queue[i])
        BY <3>3
      <4>2. queue \in Seq(Mounts \union {All})
        BY TablesSame
      <4>3. CASE i = 1
        <5>1. Head(queue) = queue[i]
          BY <3>1, <4>2, <4>3
        <5>2. m \in Covers(task.scope)'
          BY <1>2, <3>1, <4>1, <5>1, <1>1 DEF Covers
        <5> QED BY <1>3, <5>2 DEF Owed, ToScan
      <4>4. CASE i # 1
        <5>1. i - 1 \in 1..Len(queue') /\ queue'[i - 1] = queue[i]
          BY <3>1, <4>2, <4>4
        <5>2. m \in Covers(queue[i - 1])'
          BY <1>1, <4>1, <5>1 DEF Covers
        <5> QED BY <5>1, <5>2 DEF Owed, Announced
      <4> QED BY <4>3, <4>4
    <3> QED BY <1>6, <3>2, <3>3 DEF Announced
  <2> QED BY <2>1, <2>2
<1> QED BY <1>2, <1>4, <1>5, <1>6 DEF Owed

LEMMA InsertRunOwed ==
  ASSUME TypeInv, TaskInv, OwedInv, InsertRun
  PROVE  OwedInv'
<1> SUFFICES ASSUME NEW m \in mounted' PROVE Owed(m)'
  BY DEF OwedInv
<1>1. m \in mounted /\ UNCHANGED <<mounted, files, rows, req, adrift, queue>> /\ task.pc = "insert"
  BY DEF InsertRun
<1>2. /\ task'.pc = "scan" /\ task'.todo = Covers(task.scope) /\ task'.complete = {}
  BY <1>1, TaskFields DEF InsertRun, TaskInv
<1>3. Owed(m) /\ Cached(m)' = Cached(m) /\ Listed(m)' = Listed(m)
  BY <1>1 DEF OwedInv, Cached, Listed
<1>4. Announced(m) => Announced(m)'
  BY <1>1, AnnouncedFrame
<1>5. ToScan(m) => ToScan(m)'
  BY <1>1, <1>2 DEF ToScan
<1>6. ~SawAll(m)
  BY <1>1 DEF SawAll
<1> QED BY <1>1, <1>2, <1>3, <1>4, <1>5, <1>6 DEF Owed, InSync

LEMMA RunFailsOwed ==
  ASSUME TypeInv, TaskInv, OwedInv, InsertRunFails \/ ScanPanics \/ CommitFails
  PROVE  OwedInv'
<1> SUFFICES ASSUME NEW m \in mounted' PROVE Owed(m)'
  BY DEF OwedInv
<1>1. /\ m \in mounted /\ UNCHANGED <<mounted, files, rows, req, queue>>
      /\ task' = IdleTask /\ adrift' = adrift \union Covers(task.scope)
  BY DEF InsertRunFails, ScanPanics, CommitFails, RunFails, dbVars
<1>2. Owed(m) /\ Cached(m)' = Cached(m) /\ Listed(m)' = Listed(m)
  BY <1>1 DEF OwedInv, Cached, Listed
<1>3. Announced(m) => Announced(m)'
  BY <1>1, AnnouncedFrame
<1>4. ToScan(m) \/ SawAll(m) => m \in Covers(task.scope)
  BY DEF ToScan, SawAll, TaskInv
<1> QED BY <1>1, <1>2, <1>3, <1>4 DEF Owed, InSync, IdleTask

LEMMA ScanOwed ==
  ASSUME TypeInv, TaskInv, OwedInv, NEW n \in Mounts, Scan(n) \/ ScanSkips(n) \/ ScanIncomplete(n)
  PROVE  OwedInv'
<1> SUFFICES ASSUME NEW m \in mounted' PROVE Owed(m)'
  BY DEF OwedInv
<1>1. /\ m \in mounted /\ UNCHANGED <<mounted, files, rows, req, queue>>
      /\ task.pc = "scan" /\ n \in task.todo
  BY DEF Scan, ScanSkips, ScanIncomplete, dbVars
<1>2. Owed(m) /\ Cached(m)' = Cached(m) /\ Listed(m)' = Listed(m) /\ InSync(m)' = InSync(m)
  BY <1>1 DEF OwedInv, Cached, Listed, InSync
<1>3. Announced(m) => Announced(m)'
  BY <1>1, AnnouncedFrame
<1>4. /\ task'.pc = "scan" /\ task'.todo = task.todo \ {n}
      /\ m # n => /\ m \in task'.complete <=> m \in task.complete
                  /\ \A a \in Arts : <<m, a>> \in task'.seen <=> <<m, a>> \in task.seen
                  /\ m \in adrift => m \in adrift'
  <2>1. CASE Scan(n)
    <3>1. task' = [task EXCEPT !.todo = @ \ {n}, !.complete = @ \union {n},
                               !.seen = @ \union ({n} \X Cached(n))] /\ adrift' = adrift \ {n}
      BY <2>1 DEF Scan
    <3> QED BY <1>1, <3>1, TaskFields
  <2>2. CASE ScanSkips(n)
    <3>1. PICK found \in SUBSET Cached(n) :
            task' = [task EXCEPT !.todo = @ \ {n}, !.complete = @ \union {n},
                                 !.partial = @ \union {n}, !.seen = @ \union ({n} \X found)]
      BY <2>2 DEF ScanSkips
    <3>2. adrift' = adrift \union {n}
      BY <2>2 DEF ScanSkips
    <3> QED BY <1>1, <3>1, <3>2, TaskFields
  <2>3. CASE ScanIncomplete(n)
    <3>1. task' = [task EXCEPT !.todo = @ \ {n}] /\ adrift' = adrift \union {n}
      BY <2>3 DEF ScanIncomplete
    <3> QED BY <1>1, <3>1, TaskFields
  <2> QED BY <2>1, <2>2, <2>3
<1>5. CASE m # n
  <2>1. ToScan(m)' = ToScan(m)
    BY <1>1, <1>4, <1>5 DEF ToScan
  <2>2. SawAll(m) => SawAll(m)'
    BY <1>1, <1>2, <1>4, <1>5 DEF SawAll
  <2> QED BY <1>1, <1>2, <1>3, <1>4, <1>5, <2>1, <2>2 DEF Owed
<1>6. CASE m = n /\ Scan(n)
  <2>1. task' = [task EXCEPT !.todo = @ \ {n}, !.complete = @ \union {n},
                             !.seen = @ \union ({n} \X Cached(n))]
    BY <1>6 DEF Scan
  <2>2. n \in task'.complete /\ task'.seen = task.seen \union ({n} \X Cached(n))
    BY <2>1, TaskFields
  <2>3. \A a \in Arts : <<n, a>> \notin task.seen
    BY <1>1 DEF TaskInv
  <2>4. SawAll(m)'
    BY <1>2, <1>4, <1>6, <2>2, <2>3 DEF SawAll
  <2> QED BY <2>4 DEF Owed
<1>7. CASE m = n /\ ~Scan(n)
  <2>1. n \in adrift'
    BY <1>7 DEF ScanSkips, ScanIncomplete
  <2> QED BY <1>7, <2>1 DEF Owed
<1> QED BY <1>5, <1>6, <1>7

LEMMA CommitOwed ==
  ASSUME TypeInv, TaskInv, OwedInv, Commit
  PROVE  OwedInv'
<1> SUFFICES ASSUME NEW m \in mounted' PROVE Owed(m)'
  BY DEF OwedInv
<1>1. /\ m \in mounted /\ UNCHANGED <<mounted, files, req, queue, adrift>>
      /\ task.pc = "scan" /\ task.todo = {} /\ task' = IdleTask
      /\ rows' = {r \in Upserted : ~Pruned(r)}
  BY DEF Commit
<1>2. Owed(m) /\ Cached(m)' = Cached(m)
  BY <1>1 DEF OwedInv, Cached
<1>3. Announced(m) => Announced(m)'
  BY <1>1, AnnouncedFrame
<1>4. ~ToScan(m)
  BY <1>1 DEF ToScan
<1>5. /\ task.seen \subseteq task.complete \X Arts /\ task.seen \subseteq Mounts \X Arts
      /\ rows \subseteq RowSet
  BY <1>1 DEF TaskInv, TypeInv, TaskTypeOK, TaskSet, TablesTypeOK
<1>6. \A k \in task.seen : NewRow(k).mount = k[1] /\ NewRow(k).art = k[2] /\ k = <<k[1], k[2]>>
  BY <1>5 DEF NewRow
<1>7. CASE m \in task.complete
  <2>1. ASSUME NEW a \in Arts, <<m, a>> \in task.seen
        PROVE  \E r \in rows' : r.mount = m /\ r.art = a
    <3>1. PICK r \in Upserted : r.mount = m /\ r.art = a
      <4>1. CASE a \in Listed(m)
        BY <4>1 DEF Listed, Upserted
      <4>2. CASE a \notin Listed(m)
        <5>1. NewRow(<<m, a>>) \in Upserted
          BY <2>1, <4>2 DEF Upserted
        <5> QED BY <2>1, <1>6, <5>1
      <4> QED BY <4>1, <4>2
    <3>2. ~Pruned(r)
      BY <1>1, <2>1, <3>1 DEF Pruned
    <3> QED BY <1>1, <3>1, <3>2
  <2>2. ASSUME NEW r \in rows', r.mount = m
        PROVE  <<m, r.art>> \in task.seen
    BY <1>1, <1>7, <2>2 DEF Pruned
  <2>3. Listed(m)' = {a \in Arts : <<m, a>> \in task.seen}
    BY <2>1, <2>2 DEF Listed
  <2>4. SawAll(m) => InSync(m)'
    BY <1>2, <2>3 DEF SawAll, InSync, Cached
  <2> QED BY <1>1, <1>2, <1>3, <1>4, <1>7, <2>4 DEF Owed, IdleTask
<1>8. CASE m \notin task.complete
  <2>1. \A r \in Upserted : r.mount = m => r \in rows
    BY <1>5, <1>6, <1>8 DEF Upserted
  <2>2. \A r \in rows : r.mount = m => r \in Upserted /\ ~Pruned(r)
    BY <1>1, <1>8 DEF Upserted, Pruned
  <2>3. {r \in rows : r.mount = m}' = {r \in rows : r.mount = m}
    BY <1>1, <2>1, <2>2
  <2>4. InSync(m)' = InSync(m)
    BY <1>2, <2>3, ListedSame DEF InSync
  <2>5. ~SawAll(m)
    BY <1>8 DEF SawAll
  <2> QED BY <1>1, <1>2, <1>3, <1>4, <2>4, <2>5 DEF Owed, IdleTask
<1> QED BY <1>7, <1>8

(* Requests: whatever they do to a mount, they have a refresh of it to     *)
(* send, and they do nothing to the others.                                *)
LEMMA RequestOwed ==
  ASSUME TypeInv, OwedInv, Refresh \/ \E c \in Clients : Lookup(c) \/ Clear(c)
  PROVE  OwedInv'
<1> SUFFICES ASSUME NEW m \in mounted' PROVE Owed(m)'
  BY DEF OwedInv
<1>1. m \in mounted /\ UNCHANGED <<mounted, files, rows, task, adrift>>
  BY DEF Refresh, Lookup, Clear, dbVars
<1>2. Owed(m) /\ Listed(m)' = Listed(m)
  BY <1>1 DEF OwedInv, Listed
<1>3. ASSUME Announced(m) PROVE Announced(m)'
  <2>1. CASE Refresh
    <3>1. req' = req /\ \E x \in Mounts \union {All} : queue' = Append(queue, x)
      BY <2>1, TablesSame DEF Refresh
    <3> QED BY <1>1, <1>3, <3>1, AnnouncedFrame
  <2>2. ASSUME NEW c \in Clients, Lookup(c) \/ Clear(c)
        PROVE  Announced(m)'
    <3>1. queue' = queue /\ req[c].pc = "idle" /\ \E r : req' = [req EXCEPT ![c] = r]
      BY <2>2 DEF Lookup, Clear
    <3> QED BY <1>1, <1>3, <3>1, OtherMount
  <2> QED BY <2>1, <2>2
<1> QED BY <1>1, <1>2, <1>3, OwedFrame

LEMMA SetFilesOthers ==
  ASSUME TypeInv, NEW n, NEW fs, SetFiles(n, fs), NEW m \in Mounts, m # n
  PROVE  files'[m] = files[m]
BY TablesSame DEF SetFiles

LEMMA PurgeOwed ==
  ASSUME TypeInv, OwedInv, NEW c \in Clients, PurgeArtifact(c) \/ PurgeAll(c) \/ Repull(c)
  PROVE  OwedInv'
<1> SUFFICES ASSUME NEW m \in mounted' PROVE Owed(m)'
  BY DEF OwedInv
<1> DEFINE n == req[c].row.mount
<1>1. m \in mounted /\ m \in Mounts /\ UNCHANGED <<mounted, rows, task, adrift, queue>>
  BY TablesSame DEF PurgeArtifact, PurgeAll, Repull, dbVars
<1>2. Owed(m) /\ Listed(m)' = Listed(m)
  BY <1>1 DEF OwedInv, Listed
<1>3. (\E fs : SetFiles(n, fs)) \/ UNCHANGED files
  BY DEF PurgeArtifact, PurgeAll, Repull
<1>4. /\ req' = [req EXCEPT ![c] = req'[c]]
      /\ req'[c].pc \in {"fetch", "drop", "send"} /\ req'[c].row.mount = n
  <2>1. req \in [Clients -> ReqSet] /\ req[c] \in ReqSet
    BY DEF TypeInv, ReqTypeOK
  <2>2. CASE PurgeArtifact(c)
    <3>1. PICK paths : req' = [req EXCEPT ![c].paths = paths,
                               ![c].pc = IF req[c].kind = "repull" /\ paths # {}
                                         THEN "fetch" ELSE "drop"]
      BY <2>2 DEF PurgeArtifact
    <3> QED BY <2>1, <3>1 DEF ReqSet
  <2>3. CASE PurgeAll(c)
    BY <2>1, <2>3 DEF PurgeAll, ReqSet
  <2>4. CASE Repull(c)
    <3>1. PICK f \in req[c].paths : AfterPath(c, f, TRUE) \/ AfterPath(c, f, FALSE)
      BY <2>4 DEF Repull
    <3>2. PICK ok \in BOOLEAN : AfterPath(c, f, ok)
      BY <3>1
    <3> QED BY <2>1, <3>2 DEF AfterPath, ReqSet
  <2> QED BY <2>2, <2>3, <2>4
<1>5. CASE m = n
  <2>1. Announced(m)'
    BY <1>4, <1>5 DEF Announced
  <2> QED BY <2>1 DEF Owed
<1>6. CASE m # n
  <2>1. files'[m] = files[m]
    BY <1>1, <1>3, <1>6, SetFilesOthers
  <2>2. Announced(m) => Announced(m)'
    BY <1>1, <1>4, <1>6, OtherMount
  <2> QED BY <1>1, <1>2, <2>1, <2>2, OwedFrame
<1> QED BY <1>5, <1>6

LEMMA DropOwed ==
  ASSUME TypeInv, OwedInv, NEW c \in Clients, DropRows(c)
  PROVE  OwedInv'
<1> SUFFICES ASSUME NEW m \in mounted' PROVE Owed(m)'
  BY DEF OwedInv
<1> DEFINE n == req[c].row.mount
<1>1. /\ m \in mounted /\ UNCHANGED <<mounted, files, task, adrift, queue>>
      /\ req' = [req EXCEPT ![c].pc = "send"]
  BY DEF DropRows
<1>2. Owed(m)
  BY <1>1 DEF OwedInv
<1>3. req \in [Clients -> ReqSet] /\ req[c] \in ReqSet
  BY DEF TypeInv, ReqTypeOK
<1>4. req' = [req EXCEPT ![c] = req'[c]] /\ req'[c].pc = "send" /\ req'[c].row.mount = n
  BY <1>1, <1>3 DEF ReqSet
<1>5. CASE m = n
  <2>1. Announced(m)'
    BY <1>4, <1>5 DEF Announced
  <2> QED BY <2>1 DEF Owed
<1>6. CASE m # n
  <2>1. {r \in rows : r.mount = m}' = {r \in rows : r.mount = m}
    BY <1>6 DEF DropRows
  <2>2. Announced(m) => Announced(m)'
    BY <1>1, <1>4, <1>6, OtherMount
  <2> QED BY <1>1, <1>2, <2>1, <2>2, ListedSame, OwedFrame
<1> QED BY <1>5, <1>6

LEMMA SendOwed ==
  ASSUME TypeInv, OwedInv, NEW c \in Clients, Send(c) \/ HangUp(c)
  PROVE  OwedInv'
<1> SUFFICES ASSUME NEW m \in mounted' PROVE Owed(m)'
  BY DEF OwedInv
<1> DEFINE n == req[c].row.mount
<1>1. /\ m \in mounted /\ UNCHANGED <<mounted, files, rows, task>>
      /\ req' = [req EXCEPT ![c] = IdleReq]
  BY DEF Send, HangUp, dbVars
<1>2. Owed(m) /\ Listed(m)' = Listed(m) /\ (m \in adrift => m \in adrift')
  BY <1>1 DEF OwedInv, Listed, Send, HangUp
<1>3. n \in mounted /\ n \in Mounts
  BY ReqFields DEF Send, HangUp
<1>4. queue' = queue \/ queue' = Append(queue, n)
  BY DEF Send, HangUp
<1>5. CASE m # n \/ req[c].pc = "purge"
  <2>1. Announced(m) => Announced(m)'
    BY <1>1, <1>3, <1>4, <1>5, OtherMount
  <2> QED BY <1>1, <1>2, <2>1, OwedFrame
<1>6. CASE m = n /\ Send(c)
  <2>1. queue' = Append(queue, n) /\ queue \in Seq(Mounts \union {All})
    BY <1>6, TablesSame DEF Send
  <2>2. Len(queue') \in 1..Len(queue') /\ queue'[Len(queue')] = n
    BY <1>3, <2>1
  <2>3. n \in Covers(queue[Len(queue)])'
    BY <1>1, <1>3, <2>2 DEF Covers
  <2> QED BY <1>6, <2>2, <2>3 DEF Owed, Announced
<1>7. CASE m = n /\ HangUp(c) /\ req[c].pc # "purge"
  <2>1. m \in adrift'
    BY <1>7 DEF HangUp
  <2> QED BY <2>1 DEF Owed
<1> QED BY <1>5, <1>6, <1>7

LEMMA ChangeOwed ==
  ASSUME TypeInv, OwedInv, NEW n \in Mounts, Store(n) \/ Wipe(n)
  PROVE  OwedInv'
<1> SUFFICES ASSUME NEW m \in mounted' PROVE Owed(m)'
  BY DEF OwedInv
<1>1. PICK fs : Change(n, fs)
  BY DEF Store, Wipe
<1>2. /\ m \in mounted /\ m \in Mounts /\ UNCHANGED <<mounted, rows, queue, req, task>>
      /\ adrift' = adrift \union {n} /\ SetFiles(n, fs)
  BY <1>1, TablesSame DEF Change, dbVars
<1>3. CASE m = n
  BY <1>2, <1>3 DEF Owed
<1>4. CASE m # n
  <2>1. files'[m] = files[m]
    BY <1>2, <1>4, SetFilesOthers
  <2>2. Owed(m) /\ Listed(m)' = Listed(m)
    BY <1>2 DEF OwedInv, Listed
  <2>3. Announced(m) => Announced(m)'
    BY <1>2, AnnouncedFrame
  <2> QED BY <1>2, <2>1, <2>2, <2>3, OwedFrame
<1> QED BY <1>3, <1>4

LEMMA StepOwed ==
  ASSUME TypeInv, TaskInv, OwedInv, [Next]_vars
  PROVE  OwedInv'
<1>1. CASE TaskStep
  BY <1>1, StartOwed, InsertRunOwed, ScanOwed, CommitOwed DEF TaskStep
<1>2. CASE InsertRunFails \/ ScanPanics \/ CommitFails
  BY <1>2, RunFailsOwed
<1>3. CASE \E m \in Mounts : ScanSkips(m) \/ ScanIncomplete(m) \/ Store(m) \/ Wipe(m)
  BY <1>3, ScanOwed, ChangeOwed
<1>4. CASE \E c \in Clients : Lookup(c) \/ Clear(c) \/ ReqStep(c) \/ HangUp(c)
  BY <1>4, RequestOwed, PurgeOwed, DropOwed, SendOwed DEF ReqStep
<1>5. CASE Refresh
  BY <1>5, RequestOwed
<1>6. CASE Restart
  BY <1>6 DEF Restart, OwedInv, Owed
<1>7. CASE UNCHANGED vars
  <2>1. UNCHANGED <<mounted, files, rows, task, queue, req, adrift>>
    BY <1>7 DEF vars, dbVars
  <2>2. ASSUME NEW m \in mounted PROVE Owed(m)'
    <3>1. Owed(m) /\ Listed(m)' = Listed(m)
      BY <2>1 DEF OwedInv, Listed
    <3>2. Announced(m) => Announced(m)'
      BY <2>1, AnnouncedFrame
    <3> QED BY <2>1, <3>1, <3>2, OwedFrame
  <2> QED BY <2>1, <2>2 DEF OwedInv
<1> QED BY <1>1, <1>2, <1>3, <1>4, <1>5, <1>6, <1>7 DEF Next

(* Wherever the table and the cache differ, a refresh that will notice is  *)
(* to come or the difference arose behind the API's back: for any number   *)
(* of mounts, artifacts and concurrent requests, scans that skip included. *)
THEOREM OutOfSyncIsOwedHolds == Spec => []OutOfSyncIsOwed
<1>1. Init => TypeInv /\ TaskInv /\ OwedInv
  <2>1. Init => OwedInv
    BY DEF Init, OwedInv, Owed
  <2> QED BY <2>1, InitTypeInv, InitTaskInv
<1>2. TypeInv /\ TaskInv /\ OwedInv /\ [Next]_vars => (TypeInv /\ TaskInv /\ OwedInv)'
  BY StepTypes, StepTaskInv, StepOwed
<1>3. OwedInv => OutOfSyncIsOwed
  BY DEF OwedInv, Owed, OutOfSyncIsOwed
<1> QED BY <1>1, <1>2, <1>3, PTL DEF Spec
=============================================================================
