------------------------ MODULE MavenSidecar_proofs ------------------------
(***************************************************************************)
(* Proofs about MavenSidecar, for every set of resolvers and getters, any  *)
(* windows, bucket length and bounds.                                      *)
(***************************************************************************)
EXTENDS MavenSidecar, SequenceTheorems, TLAPS

USE BucketAssumption, SidecarAssumption

LEMMA CutoffType ==
  ASSUME TypeOK
  PROVE  /\ window \in Nat /\ now \in Nat /\ now > 0
         /\ Cutoff \in Nat \cup {Unfiltered}
         /\ Cutoff # Unfiltered => Cutoff \in Nat /\ Past(Cutoff)
<1>1. window \in Nat /\ now \in Nat /\ now > 0
  BY DEF TypeOK
<1> QED BY <1>1 DEF Cutoff, CutoffFrom, Unfiltered, Past

LEMMA FaultType ==
  ASSUME TypeOK, Fault
  PROVE  faults' \in Nat
<1>1. faults \in Nat
  BY DEF TypeOK
<1> QED BY <1>1 DEF Fault

LEMMA EmptyTypes ==
  /\ NoStamp \in Stamps /\ NoTimes \in Times
  /\ NoJob \in Jobs /\ NoPage \in Pages /\ NoGet \in Gets /\ NoReply \in Replies
<1>1. NoStamp \in Stamps
  BY DEF NoStamp, Stamps
<1>2. NoTimes \in Times
  BY <1>1 DEF NoTimes, Times
<1> QED BY <1>1, <1>2 DEF NoJob, NoPage, NoGet, NoReply, Jobs, Pages, Gets, Replies

LEMMA PublishedType ==
  ASSUME TypeOK, NEW v, Published(v)
  PROVE  /\ v \in Versions /\ v \in 1..Len(hist)
         /\ hist[v] \in [at : Nat, kind : AllKinds] /\ hist[v].at \in Nat
<1>1. hist \in Seq([at : Nat, kind : AllKinds]) /\ Len(hist) <= MaxRev /\ v \in 1..Len(hist)
  BY DEF TypeOK, Published
<1>2. Len(hist) \in Nat
  BY <1>1, LenProperties
<1>3. hist[v] \in [at : Nat, kind : AllKinds]
  BY <1>1, ElementOfSeq
<1> QED BY <1>1, <1>2, <1>3 DEF Versions

LEMMA StampType ==
  ASSUME TypeOK, NEW v
  PROVE  FirstSeen \in Stamps /\ Stamp(v) \in Stamps
<1>1. FirstSeen \in Stamps
  BY DEF TypeOK, FirstSeen, Stamps
<1>2. CASE Published(v) /\ hist[v].kind = "dated"
  BY <1>1, <1>2, PublishedType DEF Stamp, Stamps
<1>3. CASE ~(Published(v) /\ hist[v].kind = "dated")
  BY <1>1, <1>3 DEF Stamp
<1> QED BY <1>1, <1>2, <1>3
-----------------------------------------------------------------------------
(* Type correctness: how a step leaves a request and its answer.           *)

LEMMA JobGotoType ==
  ASSUME TypeOK, NEW c \in Resolvers, NEW r \in Jobs, JobGoto(c, r)
  PROVE  job' \in [Resolvers -> Jobs] /\ page' \in [Resolvers -> Pages]
  BY DEF TypeOK, JobGoto

LEMMA ShowType ==
  ASSUME TypeOK, NEW c \in Resolvers, NEW status \in {200, 404}, NEW rev \in Nat,
         NEW cut \in Nat, NEW lines \in SUBSET Versions, Show(c, status, rev, cut, lines)
  PROVE  job' \in [Resolvers -> Jobs] /\ page' \in [Resolvers -> Pages]
<1>1. [status |-> status, rev |-> rev, cut |-> cut, lines |-> lines] \in Pages
  BY DEF Pages
<1> QED BY <1>1, EmptyTypes DEF TypeOK, Show

LEMMA GetGotoType ==
  ASSUME TypeOK, NEW d \in Getters, NEW r \in Gets, GetGoto(d, r)
  PROVE  get' \in [Getters -> Gets] /\ reply' \in [Getters -> Replies]
  BY DEF TypeOK, GetGoto

LEMMA ReplyType ==
  ASSUME TypeOK, NEW d \in Getters, NEW status, status \in {200, 403, 404, 500, 502, 507},
         Reply(d, status)
  PROVE  get' \in [Getters -> Gets] /\ reply' \in [Getters -> Replies]
<1>1. get[d] \in Gets
  BY DEF TypeOK
<1>2. [status |-> status, ver |-> get[d].ver] \in Replies
  BY <1>1 DEF Gets, Replies
<1> QED BY <1>2, EmptyTypes DEF TypeOK, Reply

LEMMA VerdictType ==
  ASSUME TypeOK, NEW d \in Getters, ~GetAt(d, "idle"), NEW ts, Verdict(d, ts)
  PROVE  get' \in [Getters -> Gets] /\ reply' \in [Getters -> Replies]
<1>1. [NoGet EXCEPT !.pc = "file", !.ver = get[d].ver] \in Gets
  BY EmptyTypes DEF TypeOK, NoGet, Gets, GetAt
<1> QED BY <1>1, GetGotoType, ReplyType DEF Verdict
-----------------------------------------------------------------------------
(* Type correctness, one action at a time.                                 *)

LEMMA MetadataOkTyped ==
  ASSUME TypeOK, NEW c \in Resolvers, NEW rev \in 1..Len(hist), MetadataOk(c, rev)
  PROVE  TypeOK'
<1>1. rev \in Nat /\ rev \in 0..MaxRev /\ 1..rev \in SUBSET Versions
  <2>1. Len(hist) \in Nat /\ Len(hist) <= MaxRev
    BY LenProperties DEF TypeOK
  <2> QED BY <2>1 DEF Versions
<1>2. memo.lines \in SUBSET Versions
  BY DEF TypeOK
<1>3. job' \in [Resolvers -> Jobs] /\ page' \in [Resolvers -> Pages]
  <2>1. CASE Show(c, 200, rev, 0, 1..rev)
    BY <1>1, <2>1, ShowType
  <2>2. CASE Cutoff # Unfiltered /\ Show(c, 200, rev, Cutoff, memo.lines)
    BY <1>1, <1>2, <2>2, ShowType, CutoffType
  <2>3. CASE /\ Cutoff # Unfiltered
             /\ job' = [job EXCEPT ![c] =
                         [NoJob EXCEPT !.pc = "load", !.rev = rev, !.cut = Cutoff]]
             /\ page' = [page EXCEPT ![c] = NoPage]
    <3>1. [NoJob EXCEPT !.pc = "load", !.rev = rev, !.cut = Cutoff] \in Jobs
      BY <1>1, <2>3, EmptyTypes, CutoffType DEF NoJob, Jobs
    <3> QED BY <2>3, <3>1, EmptyTypes DEF TypeOK
  <2> QED BY <2>1, <2>2, <2>3 DEF MetadataOk
<1>4. UNCHANGED <<now, hist, faults, failed, window, sidecar, memo, files, get, reply>>
  BY DEF MetadataOk, envVars, getVars
<1> QED BY <1>3, <1>4 DEF TypeOK

(* A step that moves a metadata request on, and may save the sidecar.     *)
LEMMA JobStepTyped ==
  ASSUME TypeOK, NEW c \in Resolvers, NEW r \in Jobs, JobGoto(c, r),
         faults' \in Nat, failed' \in SUBSET Versions, sidecar' \in Times,
         UNCHANGED <<now, hist, window, memo, files, getVars>>
  PROVE  TypeOK'
<1>1. job' \in [Resolvers -> Jobs] /\ page' \in [Resolvers -> Pages]
  BY JobGotoType
<1>2. UNCHANGED <<now, hist, window, memo, files, get, reply>>
  BY DEF getVars
<1> QED BY <1>1, <1>2 DEF TypeOK

LEMMA JobFields ==
  ASSUME TypeOK, NEW c \in Resolvers
  PROVE  /\ job[c] \in Jobs /\ job[c].times \in Times /\ job[c].cut \in Nat
         /\ job[c].rev \in 0..MaxRev /\ job[c].rev \in Nat /\ job[c].pending \in SUBSET Versions
         /\ 1..job[c].rev \in SUBSET Versions
<1>1. job[c] \in Jobs
  BY DEF TypeOK
<1> QED BY <1>1 DEF Jobs, Versions

LEMMA LoadTyped ==
  ASSUME TypeOK, NEW c \in Resolvers, Load(c)
  PROVE  TypeOK'
<1> DEFINE pending == Pending(sidecar, job[c].rev, job[c].cut)
           r == [job[c] EXCEPT !.pc = "probe", !.times = sidecar,
                               !.pending = pending, !.changed = pending # {}]
<1>1. pending \in SUBSET Versions
  BY JobFields DEF Pending
<1>2. r \in Jobs
  <2>1. job[c] \in Jobs /\ sidecar \in Times
    BY DEF TypeOK
  <2> HIDE DEF pending
  <2> QED BY <1>1, <2>1 DEF Jobs
<1>3. JobGoto(c, r) /\ UNCHANGED <<envVars, sidecar, memo, files, getVars>>
  BY DEF Load
<1>4. faults' \in Nat /\ failed' \in SUBSET Versions /\ sidecar' \in Times
  BY <1>3 DEF TypeOK, envVars
<1> HIDE DEF r
<1> QED BY <1>2, <1>3, <1>4, JobStepTyped DEF envVars

LEMMA LearnType ==
  ASSUME TypeOK, NEW c \in Resolvers, NEW v \in Versions, NEW stamp \in Stamps
  PROVE  [job[c] EXCEPT !.pending = @ \ {v}, !.times[v] = stamp] \in Jobs
<1>1. job[c] \in Jobs /\ job[c].times \in Times /\ job[c].pending \in SUBSET Versions
  BY JobFields
<1>2. [job[c].times EXCEPT ![v] = stamp] \in Times
  BY <1>1 DEF Times
<1>3. job[c].pending \ {v} \in SUBSET Versions
  BY <1>1
<1> QED BY <1>1, <1>2, <1>3 DEF Jobs

LEMMA ProbeTyped ==
  ASSUME TypeOK, NEW c \in Resolvers, NEW v \in Versions, Probe(c, v)
  PROVE  TypeOK'
<1> DEFINE stamp == IF Absent(v) THEN FirstSeen ELSE Stamp(v)
           r == [job[c] EXCEPT !.pending = @ \ {v}, !.times[v] = stamp]
<1>1. stamp \in Stamps
  BY StampType
<1>2. JobGoto(c, r) /\ UNCHANGED <<envVars, sidecar, memo, files, getVars>>
  BY DEF Probe, Learn
<1>3. faults' \in Nat /\ failed' \in SUBSET Versions /\ sidecar' \in Times
  BY <1>2 DEF TypeOK, envVars
<1>4. r \in Jobs
  <2> HIDE DEF stamp
  <2> QED BY <1>1, LearnType
<1> HIDE DEF r
<1> QED BY <1>2, <1>3, <1>4, JobStepTyped DEF envVars

LEMMA ProbeFailsTyped ==
  ASSUME TypeOK, NEW c \in Resolvers, NEW v \in Versions, ProbeFails(c, v)
  PROVE  TypeOK'
<1> DEFINE r == [job[c] EXCEPT !.pending = @ \ {v}, !.times[v] = FirstSeen]
<1>1. /\ JobGoto(c, r) /\ failed' = failed \cup {v}
      /\ UNCHANGED <<now, hist, window, sidecar, memo, files, getVars>>
  BY DEF ProbeFails, Learn
<1>2. faults' \in Nat
  BY FaultType DEF ProbeFails
<1>3. failed' \in SUBSET Versions /\ sidecar' \in Times
  BY <1>1 DEF TypeOK
<1>4. r \in Jobs
  BY LearnType, StampType
<1> HIDE DEF r
<1> QED BY <1>1, <1>2, <1>3, <1>4, JobStepTyped

LEMMA SavedType ==
  ASSUME TypeOK, NEW c \in Resolvers
  PROVE  Saved(c) \in Times
<1>1. sidecar \in Times
  BY DEF TypeOK
<1> QED BY <1>1, JobFields DEF Saved

LEMMA DoneJobType ==
  ASSUME TypeOK, NEW c \in Resolvers
  PROVE  [job[c] EXCEPT !.pc = "done", !.changed = FALSE] \in Jobs
  BY JobFields DEF Jobs

LEMMA SaveAndFilterTyped ==
  ASSUME TypeOK, NEW c \in Resolvers, SaveAndFilter(c)
  PROVE  TypeOK'
<1> DEFINE r == [job[c] EXCEPT !.pc = "done", !.changed = FALSE]
<1>1. JobGoto(c, r) /\ sidecar' = Saved(c) /\ UNCHANGED <<envVars, memo, files, getVars>>
  BY DEF SaveAndFilter
<1>2. faults' \in Nat /\ failed' \in SUBSET Versions /\ sidecar' \in Times
  BY <1>1, SavedType DEF TypeOK, envVars
<1>3. r \in Jobs
  BY DoneJobType
<1> HIDE DEF r
<1> QED BY <1>1, <1>2, <1>3, JobStepTyped DEF envVars

LEMMA SaveFailsTyped ==
  ASSUME TypeOK, NEW c \in Resolvers, SaveFails(c)
  PROVE  TypeOK'
<1> DEFINE r == [job[c] EXCEPT !.pc = "done", !.changed = FALSE]
<1>1. JobGoto(c, r) /\ UNCHANGED <<now, hist, failed, window, sidecar, memo, files, getVars>>
  BY DEF SaveFails
<1>2. faults' \in Nat
  BY FaultType DEF SaveFails
<1>3. failed' \in SUBSET Versions /\ sidecar' \in Times
  BY <1>1 DEF TypeOK
<1>4. r \in Jobs
  BY DoneJobType
<1> HIDE DEF r
<1> QED BY <1>1, <1>2, <1>3, <1>4, JobStepTyped

LEMMA DisconnectTyped ==
  ASSUME TypeOK, NEW c \in Resolvers, Disconnect(c)
  PROVE  TypeOK'
<1>1. /\ JobGoto(c, NoJob) /\ sidecar' = IF Probed(c) THEN Saved(c) ELSE sidecar
      /\ UNCHANGED <<now, hist, failed, window, memo, files, getVars>>
  BY DEF Disconnect
<1>2. faults' \in Nat
  BY FaultType DEF Disconnect
<1>3. failed' \in SUBSET Versions /\ sidecar' \in Times
  BY <1>1, SavedType DEF TypeOK
<1> QED BY <1>1, <1>2, <1>3, EmptyTypes, JobStepTyped

LEMMA DoneTyped ==
  ASSUME TypeOK, NEW c \in Resolvers, Done(c)
  PROVE  TypeOK'
<1> DEFINE r == job[c]
           lines == Survivors(r.times, r.rev, r.cut)
<1>1. r.rev \in Nat /\ r.cut \in Nat /\ lines \in SUBSET Versions
  BY JobFields DEF Survivors
<1>2. \/ Show(c, 404, r.rev, r.cut, {}) /\ UNCHANGED memo
      \/ /\ Show(c, 200, r.rev, r.cut, lines)
         /\ memo' = [rev |-> r.rev, bkt |-> Bucket(r.cut), lines |-> lines]
  BY DEF Done
<1>3. UNCHANGED <<now, hist, faults, failed, window, sidecar, files, get, reply>>
  BY DEF Done, envVars, getVars
<1> HIDE DEF r, lines
<1>4. job' \in [Resolvers -> Jobs] /\ page' \in [Resolvers -> Pages]
  BY <1>1, <1>2, ShowType
<1>5. memo' \in [rev : Nat, bkt : Nat, lines : SUBSET Versions]
  <2>1. Bucket(r.cut) \in Nat
    BY <1>1 DEF Bucket
  <2> QED BY <1>1, <1>2, <2>1 DEF TypeOK
<1> QED BY <1>3, <1>4, <1>5 DEF TypeOK

(* A step of a download that ends in Verdict, Reply or GetGoto.            *)
LEMMA GetStepTyped ==
  ASSUME TypeOK, get' \in [Getters -> Gets], reply' \in [Getters -> Replies],
         faults' \in Nat, failed' \in SUBSET Versions,
         sidecar' \in Times, files' \in SUBSET Versions,
         UNCHANGED <<now, hist, window, memo, jobVars>>
  PROVE  TypeOK'
<1>1. UNCHANGED <<now, hist, window, memo, job, page>>
  BY DEF jobVars
<1> QED BY <1>1 DEF TypeOK

LEMMA GetFields ==
  ASSUME TypeOK, NEW d \in Getters
  PROVE  /\ get[d] \in Gets /\ get[d].times \in Times /\ get[d].cut \in Nat
         /\ get[d].ver \in Versions \cup {0}
         /\ faults \in Nat /\ failed \in SUBSET Versions
         /\ sidecar \in Times /\ files \in SUBSET Versions
<1>1. get[d] \in Gets
  BY DEF TypeOK
<1> QED BY <1>1 DEF Gets, TypeOK

LEMMA ServeArtifactTyped ==
  ASSUME TypeOK, NEW d \in Getters, NEW v \in Versions, ServeArtifact(d, v)
  PROVE  TypeOK'
<1> DEFINE r == [NoGet EXCEPT !.pc = IF Gated THEN "load" ELSE "file",
                              !.ver = v, !.cut = IF Gated THEN Cutoff ELSE 0]
<1>1. /\ get' = [get EXCEPT ![d] = r] /\ reply' = [reply EXCEPT ![d] = NoReply]
      /\ UNCHANGED <<envVars, sidecar, memo, files, jobVars>>
  BY DEF ServeArtifact
<1>2. r \in Gets
  <2>1. Gated => Cutoff \in Nat
    BY CutoffType DEF Gated
  <2> QED BY <2>1, EmptyTypes DEF NoGet, Gets
<1> HIDE DEF r
<1>3. get' \in [Getters -> Gets] /\ reply' \in [Getters -> Replies]
  BY <1>1, <1>2, EmptyTypes DEF TypeOK
<1> QED BY <1>1, <1>3, GetFields, GetStepTyped DEF envVars

LEMMA GateLoadTyped ==
  ASSUME TypeOK, NEW d \in Getters, GateLoad(d)
  PROVE  TypeOK'
<1> DEFINE r == [get[d] EXCEPT !.pc = "probe", !.times = sidecar]
<1>1. /\ Verdict(d, sidecar[get[d].ver].ts) \/ GetGoto(d, r)
      /\ UNCHANGED <<envVars, sidecar, memo, files, jobVars>>
  BY DEF GateLoad
<1>2. ~GetAt(d, "idle") /\ r \in Gets
  BY GetFields DEF GateLoad, GetAt, Gets
<1> HIDE DEF r
<1>3. get' \in [Getters -> Gets] /\ reply' \in [Getters -> Replies]
  BY <1>1, <1>2, VerdictType, GetGotoType
<1> QED BY <1>1, <1>3, GetFields, GetStepTyped DEF envVars

(* A download's record with the stamp of its version learnt.               *)
LEMMA StampedType ==
  ASSUME TypeOK, NEW d \in Getters, ~GetAt(d, "idle"), NEW stamp \in Stamps
  PROVE  [get[d] EXCEPT !.pc = "save", !.times[get[d].ver] = stamp] \in Gets
<1>1. get[d] \in Gets /\ get[d].times \in Times
  BY GetFields
<1>2. [get[d].times EXCEPT ![get[d].ver] = stamp] \in Times
  BY <1>1 DEF Times
<1> QED BY <1>1, <1>2 DEF Gets, GetAt

LEMMA GateProbeTyped ==
  ASSUME TypeOK, NEW d \in Getters, GateProbe(d)
  PROVE  TypeOK'
<1> DEFINE r == [get[d] EXCEPT !.pc = "save", !.times[get[d].ver] = Stamp(get[d].ver)]
<1>1. /\ Reply(d, 404) \/ GetGoto(d, r)
      /\ UNCHANGED <<envVars, sidecar, memo, files, jobVars>>
  BY DEF GateProbe
<1>2. r \in Gets
  BY StampType, StampedType DEF GateProbe, GetAt
<1> HIDE DEF r
<1>3. get' \in [Getters -> Gets] /\ reply' \in [Getters -> Replies]
  <2>1. CASE Reply(d, 404)
    <3>1. 404 \in {200, 403, 404, 500, 502, 507}
      OBVIOUS
    <3> QED BY <2>1, <3>1, ReplyType
  <2>2. CASE GetGoto(d, r)
    BY <2>2, <1>2, GetGotoType
  <2> QED BY <1>1, <2>1, <2>2
<1> QED BY <1>1, <1>3, GetFields, GetStepTyped DEF envVars

LEMMA GateProbeFailsTyped ==
  ASSUME TypeOK, NEW d \in Getters, GateProbeFails(d)
  PROVE  TypeOK'
<1> DEFINE r == [get[d] EXCEPT !.pc = "save", !.times[get[d].ver] = FirstSeen]
<1>1. /\ GetGoto(d, r) /\ failed' = failed \cup {get[d].ver}
      /\ UNCHANGED <<now, hist, window, sidecar, memo, files, jobVars>>
  BY DEF GateProbeFails
<1>2. r \in Gets
  BY StampType, StampedType DEF GateProbeFails, GetAt
<1> HIDE DEF r
<1>3. get' \in [Getters -> Gets] /\ reply' \in [Getters -> Replies]
  BY <1>1, <1>2, GetGotoType
<1>4. faults' \in Nat
  BY FaultType DEF GateProbeFails
<1>5. failed' \in SUBSET Versions
  BY <1>1, GetFields DEF GateProbeFails, GetAt, Gets
<1> QED BY <1>1, <1>3, <1>4, <1>5, GetFields, GetStepTyped

LEMMA GateSaveTyped ==
  ASSUME TypeOK, NEW d \in Getters, GateSave(d)
  PROVE  TypeOK'
<1>1. /\ ~GetAt(d, "idle") /\ sidecar' = get[d].times
      /\ Verdict(d, get[d].times[get[d].ver].ts)
      /\ UNCHANGED <<envVars, memo, files, jobVars>>
  BY DEF GateSave, GetAt
<1>2. get' \in [Getters -> Gets] /\ reply' \in [Getters -> Replies]
  BY <1>1, VerdictType
<1> QED BY <1>1, <1>2, GetFields, GetStepTyped DEF envVars

LEMMA GateSaveFailsTyped ==
  ASSUME TypeOK, NEW d \in Getters, GateSaveFails(d)
  PROVE  TypeOK'
<1>1. /\ ~GetAt(d, "idle") /\ Verdict(d, get[d].times[get[d].ver].ts)
      /\ UNCHANGED <<now, hist, failed, window, sidecar, memo, files, jobVars>>
  BY DEF GateSaveFails, GetAt
<1>2. get' \in [Getters -> Gets] /\ reply' \in [Getters -> Replies]
  BY <1>1, VerdictType
<1>3. faults' \in Nat
  BY FaultType DEF GateSaveFails
<1> QED BY <1>1, <1>2, <1>3, GetFields, GetStepTyped

LEMMA ReadFileTyped ==
  ASSUME TypeOK, NEW d \in Getters, ReadFile(d)
  PROVE  TypeOK'
<1> DEFINE r == [get[d] EXCEPT !.pc = "fetch"]
<1>1. /\ Reply(d, 200) \/ GetGoto(d, r)
      /\ UNCHANGED <<envVars, sidecar, memo, files, jobVars>>
  BY DEF ReadFile
<1>2. r \in Gets
  BY GetFields DEF ReadFile, GetAt, Gets
<1> HIDE DEF r
<1>3. CASE Reply(d, 200)
  <2>1. get' \in [Getters -> Gets] /\ reply' \in [Getters -> Replies]
    BY <1>3, ReplyType
  <2> QED BY <1>1, <2>1, GetFields, GetStepTyped DEF envVars
<1>4. CASE GetGoto(d, r)
  <2>1. get' \in [Getters -> Gets] /\ reply' \in [Getters -> Replies]
    BY <1>2, <1>4, GetGotoType
  <2> QED BY <1>1, <2>1, GetFields, GetStepTyped DEF envVars
<1> QED BY <1>1, <1>3, <1>4

LEMMA FetchArtifactTyped ==
  ASSUME TypeOK, NEW d \in Getters, FetchArtifact(d)
  PROVE  TypeOK'
<1> DEFINE r == [get[d] EXCEPT !.pc = "store"]
<1>1. /\ Reply(d, 404) \/ GetGoto(d, r)
      /\ UNCHANGED <<envVars, sidecar, memo, files, jobVars>>
  BY DEF FetchArtifact
<1>2. r \in Gets
  BY GetFields DEF FetchArtifact, GetAt, Gets
<1> HIDE DEF r
<1>3. CASE Reply(d, 404)
  <2>1. 404 \in {200, 403, 404, 500, 502, 507}
    OBVIOUS
  <2>2. get' \in [Getters -> Gets] /\ reply' \in [Getters -> Replies]
    BY <1>3, <2>1, ReplyType
  <2> QED BY <1>1, <2>2, GetFields, GetStepTyped DEF envVars
<1>4. CASE GetGoto(d, r)
  <2>1. get' \in [Getters -> Gets] /\ reply' \in [Getters -> Replies]
    BY <1>2, <1>4, GetGotoType
  <2> QED BY <1>1, <2>1, GetFields, GetStepTyped DEF envVars
<1> QED BY <1>1, <1>3, <1>4

LEMMA FetchFailsTyped ==
  ASSUME TypeOK, NEW d \in Getters, NEW status \in {500, 502, 507}, FetchFails(d, status)
  PROVE  TypeOK'
<1>1. /\ Reply(d, status)
      /\ UNCHANGED <<now, hist, failed, window, sidecar, memo, files, jobVars>>
  BY DEF FetchFails
<1>2. status \in {200, 403, 404, 500, 502, 507}
  OBVIOUS
<1>3. get' \in [Getters -> Gets] /\ reply' \in [Getters -> Replies]
  BY <1>1, <1>2, ReplyType
<1>4. faults' \in Nat
  BY FaultType DEF FetchFails
<1> QED BY <1>1, <1>3, <1>4, GetFields, GetStepTyped

LEMMA StoreArtifactTyped ==
  ASSUME TypeOK, NEW d \in Getters, StoreArtifact(d)
  PROVE  TypeOK'
<1>1. /\ Reply(d, 200) /\ files' = files \cup {get[d].ver}
      /\ UNCHANGED <<envVars, sidecar, memo, jobVars>>
  BY DEF StoreArtifact
<1>2. get' \in [Getters -> Gets] /\ reply' \in [Getters -> Replies]
  BY <1>1, ReplyType
<1>3. files' \in SUBSET Versions
  BY <1>1, GetFields DEF StoreArtifact, GetAt, Gets
<1> QED BY <1>1, <1>2, <1>3, GetFields, GetStepTyped DEF envVars

LEMMA StoreFailsTyped ==
  ASSUME TypeOK, NEW d \in Getters, StoreFails(d)
  PROVE  TypeOK'
<1>1. /\ Reply(d, 200)
      /\ UNCHANGED <<now, hist, failed, window, sidecar, memo, files, jobVars>>
  BY DEF StoreFails
<1>2. get' \in [Getters -> Gets] /\ reply' \in [Getters -> Replies]
  BY <1>1, ReplyType
<1>3. faults' \in Nat
  BY FaultType DEF StoreFails
<1> QED BY <1>1, <1>2, <1>3, GetFields, GetStepTyped

LEMMA HangUpTyped ==
  ASSUME TypeOK, NEW d \in Getters, HangUp(d)
  PROVE  TypeOK'
<1>1. /\ ~GetAt(d, "idle") /\ GetGoto(d, NoGet)
      /\ sidecar' = IF GetAt(d, "save") THEN get[d].times ELSE sidecar
      /\ files' = IF GetAt(d, "store") THEN files \cup {get[d].ver} ELSE files
      /\ UNCHANGED <<now, hist, failed, window, memo, jobVars>>
  BY DEF HangUp
<1>2. get' \in [Getters -> Gets] /\ reply' \in [Getters -> Replies]
  BY <1>1, EmptyTypes, GetGotoType
<1>3. faults' \in Nat
  BY FaultType DEF HangUp
<1>4. sidecar' \in Times /\ files' \in SUBSET Versions
  BY <1>1, GetFields DEF GetAt, Gets
<1> QED BY <1>1, <1>2, <1>3, <1>4, GetFields, GetStepTyped

LEMMA TickTyped ==
  ASSUME TypeOK, Tick
  PROVE  TypeOK'
<1>1. now' \in Nat \ {0}
  BY DEF TypeOK, Tick
<1>2. UNCHANGED <<hist, faults, failed, window, sidecar, memo, files, job, page, get, reply>>
  BY DEF Tick, jobVars, getVars
<1> QED BY <1>1, <1>2 DEF TypeOK

LEMMA PublishTyped ==
  ASSUME TypeOK, NEW kind \in Kinds, Publish(kind)
  PROVE  TypeOK'
<1> DEFINE e == [at |-> now, kind |-> kind]
           Entry == [at : Nat, kind : AllKinds]
<1>1. e \in Entry
  BY DEF TypeOK
<1>2. hist \in Seq(Entry) /\ Len(hist) < MaxRev /\ hist' = Append(hist, e)
  BY DEF TypeOK, Publish
<1>3. UNCHANGED <<now, faults, failed, window, sidecar, memo, files, job, page, get, reply>>
  BY DEF Publish, jobVars, getVars
<1> HIDE DEF e
<1>4. hist' \in Seq(Entry) /\ Len(hist') <= MaxRev
  <2> HIDE DEF Entry
  <2> QED BY <1>1, <1>2, AppendProperties, LenProperties
<1> QED BY <1>3, <1>4 DEF TypeOK

LEMMA RestartTyped ==
  ASSUME TypeOK, NEW w \in Windows, Restart(w)
  PROVE  TypeOK'
<1>1. /\ job' \in [Resolvers -> Jobs] /\ page' \in [Resolvers -> Pages]
      /\ get' \in [Getters -> Gets] /\ reply' \in [Getters -> Replies]
  BY EmptyTypes DEF Restart
<1>2. memo' \in [rev : Nat, bkt : Nat, lines : SUBSET Versions] /\ window' \in Windows
  BY DEF Restart, NoMemo
<1>3. faults' \in Nat
  BY FaultType DEF Restart
<1>4. UNCHANGED <<now, hist, failed, sidecar, files>>
  BY DEF Restart
<1> QED BY <1>1, <1>2, <1>3, <1>4 DEF TypeOK

LEMMA CleanupTyped ==
  ASSUME TypeOK, EvictMemo \/ PurgeAll \/ \E v \in Versions : PurgeArtifact(v)
  PROVE  TypeOK'
<1>1. UNCHANGED <<now, hist, failed, window, job, page, get, reply>>
  BY DEF EvictMemo, PurgeAll, PurgeArtifact, envVars, jobVars, getVars
<1>2. faults' \in Nat
  BY FaultType DEF EvictMemo, PurgeAll, PurgeArtifact, envVars, TypeOK
<1>3. sidecar' \in Times /\ files' \in SUBSET Versions
  BY EmptyTypes DEF EvictMemo, PurgeAll, PurgeArtifact, TypeOK
<1>4. memo' \in [rev : Nat, bkt : Nat, lines : SUBSET Versions]
  BY DEF EvictMemo, PurgeAll, PurgeArtifact, NoMemo, TypeOK
<1> QED BY <1>1, <1>2, <1>3, <1>4 DEF TypeOK

LEMMA InitTyped == Init => TypeOK
<1> SUFFICES ASSUME Init PROVE TypeOK
  OBVIOUS
<1>1. hist \in Seq([at : Nat, kind : AllKinds]) /\ Len(hist) <= MaxRev
  BY DEF Init
<1>2. memo \in [rev : Nat, bkt : Nat, lines : SUBSET Versions]
  BY DEF Init, NoMemo
<1>3. /\ job \in [Resolvers -> Jobs] /\ page \in [Resolvers -> Pages]
      /\ get \in [Getters -> Gets] /\ reply \in [Getters -> Replies]
  BY EmptyTypes DEF Init
<1> QED BY <1>1, <1>2, <1>3, EmptyTypes DEF Init, TypeOK

LEMMA StutterTyped == TypeOK /\ UNCHANGED vars => TypeOK'
<1> SUFFICES ASSUME TypeOK, UNCHANGED vars PROVE TypeOK'
  OBVIOUS
<1>1. UNCHANGED <<now, hist, faults, failed, window, sidecar, memo, files, job, page, get, reply>>
  BY DEF vars, envVars, jobVars, getVars
<1> QED BY <1>1 DEF TypeOK

LEMMA NextTyped == TypeOK /\ [Next]_vars => TypeOK'
<1> SUFFICES ASSUME TypeOK, Next PROVE TypeOK'
  BY StutterTyped
<1>1. ASSUME NEW c \in Resolvers, Resolve(c) PROVE TypeOK'
  BY <1>1, MetadataOkTyped, LoadTyped, ProbeTyped, ProbeFailsTyped, SaveAndFilterTyped,
     SaveFailsTyped, DoneTyped, DisconnectTyped DEF Resolve
<1>2. ASSUME NEW d \in Getters, Download(d) PROVE TypeOK'
  BY <1>2, ServeArtifactTyped, GateLoadTyped, GateProbeTyped, GateProbeFailsTyped,
     GateSaveTyped, GateSaveFailsTyped, ReadFileTyped, FetchArtifactTyped, FetchFailsTyped,
     StoreArtifactTyped, StoreFailsTyped, HangUpTyped DEF Download
<1>3. ASSUME NEW kind \in Kinds, Publish(kind) PROVE TypeOK'
  BY <1>3, PublishTyped
<1>4. ASSUME NEW w \in Windows, Restart(w) PROVE TypeOK'
  BY <1>4, RestartTyped
<1> QED BY <1>1, <1>2, <1>3, <1>4, TickTyped, CleanupTyped DEF Next

(* Every variable keeps to its type, for every constant the assumptions    *)
(* allow.                                                                  *)
THEOREM TypeCorrect == Spec => []TypeOK
<1> QED BY InitTyped, NextTyped, PTL DEF Spec
-----------------------------------------------------------------------------
(* The cooldown, when downloads ask only for published versions. SidecarInv *)
(* is read one request at a time, so that a step re-establishes it for the *)
(* request it moves and leaves the others alone.                           *)

JobOk(r) ==
  /\ r.rev <= Len(hist) /\ r.pending \subseteq 1..Len(hist)
  /\ r.pc # "idle" => Past(r.cut)
  /\ NotEarly(r.times)

PageOk(p) == window > 0 => \A v \in p.lines : Aged(v)

GetOk(g) ==
  /\ g.pc # "idle" => Published(g.ver)
  /\ g.pc = "save" => Contains(g.times, g.ver)
  /\ g.pc \in {"load", "probe", "save"} => Past(g.cut)
  /\ g.pc \in {"file", "fetch", "store"} /\ RestrictDownloads /\ window > 0 => Aged(g.ver)
  /\ NotEarly(g.times)

ReplyOk(p) == RestrictDownloads /\ window > 0 /\ p.status = 200 => Aged(p.ver)

LEMMA SidecarInvParts ==
  SidecarInv <=>
    /\ PublishedInPast /\ NotEarly(sidecar) /\ MemoAged
    /\ \A c \in Resolvers : JobOk(job[c]) /\ PageOk(page[c])
    /\ \A d \in Getters : GetOk(get[d]) /\ ReplyOk(reply[d])
  BY DEF SidecarInv, KnownVersions, CutsPast, StampsNotEarly, GatePassed, ListsOnlyAged,
         ServesOnlyAged, JobOk, PageOk, GetOk, ReplyOk, JobAt, GetAt

LEMMA SidecarInvNext ==
  ASSUME PublishedInPast', NotEarly(sidecar)', MemoAged',
         \A c \in Resolvers : JobOk(job[c])' /\ PageOk(page[c])',
         \A d \in Getters : GetOk(get[d])' /\ ReplyOk(reply[d])'
  PROVE  SidecarInv'
  BY DEF SidecarInv, KnownVersions, CutsPast, StampsNotEarly, GatePassed, ListsOnlyAged,
         ServesOnlyAged, JobOk, PageOk, GetOk, ReplyOk, JobAt, GetAt

(* A stamp at or below a cutoff in the past dates an aged version.         *)
LEMMA StampAged ==
  ASSUME TypeOK, PublishedInPast, NEW v, Published(v), NEW ts \in Nat, NEW cut \in Nat,
         hist[v].at <= ts, ts <= cut, Past(cut)
  PROVE  Aged(v)
<1>1. hist[v].at \in Nat /\ hist[v].at \in 1..now
  BY PublishedType DEF PublishedInPast, Published
<1>2. window \in Nat /\ now \in Nat
  BY CutoffType
<1>3. cut # 0
  BY <1>1
<1>4. cut + window <= now
  BY <1>3 DEF Past
<1>5. hist[v].at + window <= now
  BY <1>1, <1>2, <1>4
<1> QED BY <1>5 DEF Aged

(* What a probe made now learns is not earlier than the publication.       *)
LEMMA StampLate ==
  ASSUME TypeOK, PublishedInPast, NEW v, Published(v)
  PROVE  /\ hist[v].at <= FirstSeen.ts /\ FirstSeen # NoStamp
         /\ hist[v].at <= Stamp(v).ts /\ Stamp(v) # NoStamp
<1>1. hist[v].at \in Nat /\ hist[v].at <= now /\ now \in Nat
  BY PublishedType, CutoffType DEF PublishedInPast, Published
<1>2. hist[v].at <= FirstSeen.ts /\ FirstSeen # NoStamp
  BY <1>1 DEF FirstSeen, NoStamp
<1> QED BY <1>1, <1>2 DEF Stamp, NoStamp

LEMMA LearntNotEarly ==
  ASSUME TypeOK, PublishedInPast, NEW times \in Times, NotEarly(times),
         NEW v \in Versions, Published(v), NEW stamp \in Stamps, hist[v].at <= stamp.ts
  PROVE  NotEarly([times EXCEPT ![v] = stamp])
<1> DEFINE learnt == [times EXCEPT ![v] = stamp]
<1>1. \A u \in Versions : learnt[u] = IF u = v THEN stamp ELSE times[u]
  BY DEF Times
<1> HIDE DEF learnt
<1>2. NotEarly(learnt)
  BY <1>1 DEF NotEarly, Contains
<1> QED BY <1>2 DEF learnt

LEMMA EmptyOk ==
  ASSUME TypeOK
  PROVE  /\ NotEarly(NoTimes) /\ JobOk(NoJob) /\ PageOk(NoPage)
         /\ GetOk(NoGet) /\ ReplyOk(NoReply)
<1>1. NotEarly(NoTimes)
  BY DEF NotEarly, Contains, NoTimes
<1>2. 0 <= Len(hist)
  BY LenProperties DEF TypeOK
<1> QED BY <1>1, <1>2 DEF JobOk, NoJob, PageOk, NoPage, ReplyOk, NoReply, GetOk, NoGet

(* Steps that leave the clock, the history and the window alone.           *)
LEMMA JobStepInv ==
  ASSUME TypeOK, SidecarInv, NEW c \in Resolvers, NEW r, NEW p,
         job' = [job EXCEPT ![c] = r], page' = [page EXCEPT ![c] = p],
         JobOk(r), PageOk(p), NotEarly(sidecar'), MemoAged',
         UNCHANGED <<now, hist, window, getVars>>
  PROVE  SidecarInv'
<1>1. UNCHANGED <<now, hist, window, get, reply>>
  BY DEF getVars
<1>2. PublishedInPast' /\ NotEarly(sidecar)' /\ MemoAged'
  BY <1>1, SidecarInvParts DEF PublishedInPast, NotEarly, Published
<1>3. ASSUME NEW b \in Resolvers PROVE JobOk(job[b])' /\ PageOk(page[b])'
  <2>1. JobOk(job'[b]) /\ PageOk(page'[b])
    BY SidecarInvParts DEF TypeOK
  <2> QED BY <1>1, <2>1 DEF JobOk, PageOk, Past, NotEarly, Published, Aged
<1>4. ASSUME NEW d \in Getters PROVE GetOk(get[d])' /\ ReplyOk(reply[d])'
  <2>1. GetOk(get[d]) /\ ReplyOk(reply[d])
    BY SidecarInvParts
  <2> QED BY <1>1, <2>1 DEF GetOk, ReplyOk, Past, NotEarly, Published, Aged, Contains
<1> QED BY <1>2, <1>3, <1>4, SidecarInvNext

LEMMA GetStepInv ==
  ASSUME TypeOK, SidecarInv, NEW d \in Getters, NEW g, NEW p,
         get' = [get EXCEPT ![d] = g], reply' = [reply EXCEPT ![d] = p],
         GetOk(g), ReplyOk(p), NotEarly(sidecar'),
         UNCHANGED <<now, hist, window, memo, jobVars>>
  PROVE  SidecarInv'
<1>1. UNCHANGED <<now, hist, window, memo, job, page>>
  BY DEF jobVars
<1>2. PublishedInPast' /\ NotEarly(sidecar)' /\ MemoAged'
  BY <1>1, SidecarInvParts DEF PublishedInPast, NotEarly, Published, MemoAged, Aged
<1>3. ASSUME NEW c \in Resolvers PROVE JobOk(job[c])' /\ PageOk(page[c])'
  <2>1. JobOk(job[c]) /\ PageOk(page[c])
    BY SidecarInvParts
  <2> QED BY <1>1, <2>1 DEF JobOk, PageOk, Past, NotEarly, Published, Aged
<1>4. ASSUME NEW e \in Getters PROVE GetOk(get[e])' /\ ReplyOk(reply[e])'
  <2>1. GetOk(get'[e]) /\ ReplyOk(reply'[e])
    BY SidecarInvParts DEF TypeOK
  <2> QED BY <1>1, <2>1 DEF GetOk, ReplyOk, Past, NotEarly, Published, Aged, Contains
<1> QED BY <1>2, <1>3, <1>4, SidecarInvNext

(* JobGoto keeps the page.                                                 *)
LEMMA JobGotoInv ==
  ASSUME TypeOK, SidecarInv, NEW c \in Resolvers, NEW r, JobGoto(c, r), JobOk(r),
         NotEarly(sidecar'), UNCHANGED <<now, hist, window, memo, getVars>>
  PROVE  SidecarInv'
<1>1. /\ job' = [job EXCEPT ![c] = r] /\ page' = [page EXCEPT ![c] = page[c]]
  BY DEF JobGoto, TypeOK
<1>2. PageOk(page[c])
  BY SidecarInvParts
<1>3. MemoAged'
  BY SidecarInvParts DEF MemoAged, Aged, Published
<1> QED BY <1>1, <1>2, <1>3, JobStepInv

LEMMA JobParts ==
  ASSUME TypeOK, SidecarInv, NEW c \in Resolvers
  PROVE  /\ JobOk(job[c]) /\ NotEarly(job[c].times) /\ NotEarly(sidecar)
         /\ PublishedInPast /\ MemoAged
  BY SidecarInvParts DEF JobOk

LEMMA MetadataOkInv ==
  ASSUME TypeOK, SidecarInv, NEW c \in Resolvers, NEW rev \in 1..Len(hist), MetadataOk(c, rev)
  PROVE  SidecarInv'
<1> DEFINE Loading == [NoJob EXCEPT !.pc = "load", !.rev = rev, !.cut = Cutoff]
           Shown(cut, lines) == [status |-> 200, rev |-> rev, cut |-> cut, lines |-> lines]
<1>1. /\ UNCHANGED <<now, hist, window, sidecar, memo, getVars>>
      /\ NotEarly(sidecar) /\ MemoAged
  BY JobParts DEF MetadataOk, envVars
<1>2. NotEarly(sidecar') /\ MemoAged'
  BY <1>1 DEF MemoAged, Aged, Published
<1>3. JobOk(NoJob) /\ PageOk(NoPage)
  BY EmptyOk
<1>4. CASE Cutoff = Unfiltered /\ Show(c, 200, rev, 0, 1..rev)
  <2>1. window = 0
    BY <1>4, CutoffType DEF Cutoff, CutoffFrom, Unfiltered
  <2>2. PageOk(Shown(0, 1..rev))
    BY <2>1 DEF PageOk
  <2> QED BY <1>1, <1>2, <1>3, <1>4, <2>2, JobStepInv DEF Show
<1>5. CASE Show(c, 200, rev, Cutoff, memo.lines)
  <2>1. PageOk(Shown(Cutoff, memo.lines))
    BY <1>1 DEF PageOk, MemoAged
  <2> QED BY <1>1, <1>2, <1>3, <1>5, <2>1, JobStepInv DEF Show
<1>6. CASE /\ Cutoff # Unfiltered
           /\ job' = [job EXCEPT ![c] = Loading] /\ page' = [page EXCEPT ![c] = NoPage]
  <2>1. Past(Cutoff)
    BY <1>6, CutoffType
  <2>2. JobOk(Loading)
    <3>1. rev <= Len(hist)
      BY LenProperties DEF TypeOK
    <3> QED BY <1>3, <2>1, <3>1 DEF JobOk, NoJob
  <2> QED BY <1>1, <1>2, <1>3, <1>6, <2>2, JobStepInv
<1> QED BY <1>4, <1>5, <1>6 DEF MetadataOk

LEMMA LoadInv ==
  ASSUME TypeOK, SidecarInv, NEW c \in Resolvers, Load(c)
  PROVE  SidecarInv'
<1> DEFINE pending == Pending(sidecar, job[c].rev, job[c].cut)
           r == [job[c] EXCEPT !.pc = "probe", !.times = sidecar,
                               !.pending = pending, !.changed = pending # {}]
<1>1. /\ JobGoto(c, r) /\ job[c].pc = "load"
      /\ UNCHANGED <<now, hist, window, sidecar, memo, getVars>>
  BY DEF Load, JobAt, envVars
<1>2. JobOk(job[c]) /\ NotEarly(sidecar) /\ job[c] \in Jobs
  BY JobParts, JobFields
<1>3. pending \subseteq 1..Len(hist)
  BY <1>2, JobFields, LenProperties DEF Pending, JobOk, TypeOK
<1>4. /\ r.pc = "probe" /\ r.times = sidecar /\ r.pending = pending
      /\ r.rev = job[c].rev /\ r.cut = job[c].cut
  BY <1>2 DEF Jobs
<1>5. JobOk(r)
  BY <1>1, <1>2, <1>3, <1>4 DEF JobOk
<1> HIDE DEF r
<1> QED BY <1>1, <1>2, <1>5, JobGotoInv

LEMMA LearnOk ==
  ASSUME TypeOK, SidecarInv, NEW c \in Resolvers, NEW v \in job[c].pending,
         NEW stamp \in Stamps, hist[v].at <= stamp.ts
  PROVE  JobOk([job[c] EXCEPT !.pending = @ \ {v}, !.times[v] = stamp])
<1> DEFINE times == [job[c].times EXCEPT ![v] = stamp]
           r == [job[c] EXCEPT !.pending = @ \ {v}, !.times[v] = stamp]
<1>1. JobOk(job[c]) /\ job[c] \in Jobs /\ job[c].times \in Times /\ v \in Versions
  BY JobParts, JobFields
<1>2. Published(v)
  BY <1>1 DEF JobOk, Published
<1>3. NotEarly(times)
  BY <1>1, <1>2, JobParts, LearntNotEarly
<1>4. /\ r.pc = job[c].pc /\ r.times = times /\ r.pending = job[c].pending \ {v}
      /\ r.rev = job[c].rev /\ r.cut = job[c].cut
  BY <1>1 DEF Jobs
<1> HIDE DEF r
<1>5. JobOk(r)
  BY <1>1, <1>3, <1>4 DEF JobOk
<1> QED BY <1>5 DEF r

LEMMA PendingPublished ==
  ASSUME TypeOK, SidecarInv, NEW c \in Resolvers, NEW v \in job[c].pending
  PROVE  Published(v)
  BY JobParts DEF JobOk, Published

LEMMA ProbeInv ==
  ASSUME TypeOK, SidecarInv, NEW c \in Resolvers, NEW v \in Versions, Probe(c, v)
  PROVE  SidecarInv'
<1> DEFINE stamp == IF Absent(v) THEN FirstSeen ELSE Stamp(v)
           r == [job[c] EXCEPT !.pending = @ \ {v}, !.times[v] = stamp]
<1>1. /\ JobGoto(c, r) /\ v \in job[c].pending
      /\ UNCHANGED <<now, hist, window, sidecar, memo, getVars>>
  BY DEF Probe, Learn, envVars
<1>2. stamp \in Stamps /\ hist[v].at <= stamp.ts
  BY <1>1, StampType, StampLate, PendingPublished, JobParts
<1>3. JobOk(r)
  <2> HIDE DEF stamp
  <2> QED BY <1>1, <1>2, LearnOk
<1>4. NotEarly(sidecar')
  BY <1>1, JobParts
<1> HIDE DEF r
<1> QED BY <1>1, <1>3, <1>4, JobGotoInv

LEMMA ProbeFailsInv ==
  ASSUME TypeOK, SidecarInv, NEW c \in Resolvers, NEW v \in Versions, ProbeFails(c, v)
  PROVE  SidecarInv'
<1> DEFINE r == [job[c] EXCEPT !.pending = @ \ {v}, !.times[v] = FirstSeen]
<1>1. /\ JobGoto(c, r) /\ v \in job[c].pending
      /\ UNCHANGED <<now, hist, window, sidecar, memo, getVars>>
  BY DEF ProbeFails, Learn
<1>2. FirstSeen \in Stamps /\ hist[v].at <= FirstSeen.ts
  BY <1>1, StampType, StampLate, PendingPublished, JobParts
<1>3. JobOk(r)
  BY <1>1, <1>2, LearnOk
<1>4. NotEarly(sidecar')
  BY <1>1, JobParts
<1> HIDE DEF r
<1> QED BY <1>1, <1>3, <1>4, JobGotoInv

LEMMA SavedOk ==
  ASSUME TypeOK, SidecarInv, NEW c \in Resolvers, ~JobAt(c, "idle")
  PROVE  NotEarly(Saved(c)) /\ JobOk([job[c] EXCEPT !.pc = "done", !.changed = FALSE])
<1>1. NotEarly(Saved(c))
  BY JobParts DEF Saved
<1>2. JobOk(job[c]) /\ job[c] \in Jobs
  BY JobParts, JobFields
<1> QED BY <1>1, <1>2 DEF JobOk, JobAt, Jobs

(* Saving, or failing to: the file holds what it held or the request's map.*)
LEMMA SaveInv ==
  ASSUME TypeOK, SidecarInv, NEW c \in Resolvers, SaveAndFilter(c) \/ SaveFails(c)
  PROVE  SidecarInv'
<1> DEFINE r == [job[c] EXCEPT !.pc = "done", !.changed = FALSE]
<1>1. /\ JobGoto(c, r) /\ (sidecar' = Saved(c) \/ sidecar' = sidecar)
      /\ UNCHANGED <<now, hist, window, memo, getVars>> /\ ~JobAt(c, "idle")
  BY DEF SaveAndFilter, SaveFails, Probed, JobAt, envVars
<1>2. JobOk(r) /\ NotEarly(sidecar')
  BY <1>1, SavedOk, JobParts
<1> HIDE DEF r
<1> QED BY <1>1, <1>2, JobGotoInv

LEMMA DisconnectInv ==
  ASSUME TypeOK, SidecarInv, NEW c \in Resolvers, Disconnect(c)
  PROVE  SidecarInv'
<1>1. /\ JobGoto(c, NoJob) /\ (sidecar' = Saved(c) \/ sidecar' = sidecar)
      /\ UNCHANGED <<now, hist, window, memo, getVars>> /\ ~JobAt(c, "idle")
  BY DEF Disconnect
<1>2. JobOk(NoJob) /\ NotEarly(sidecar')
  BY <1>1, EmptyOk, SavedOk, JobParts
<1> QED BY <1>1, <1>2, JobGotoInv

LEMMA DoneInv ==
  ASSUME TypeOK, SidecarInv, NEW c \in Resolvers, Done(c)
  PROVE  SidecarInv'
<1> DEFINE r == job[c]
           lines == Survivors(r.times, r.rev, r.cut)
           Shown(status, shown) == [status |-> status, rev |-> r.rev, cut |-> r.cut, lines |-> shown]
<1>1. /\ JobOk(r) /\ Past(r.cut) /\ NotEarly(r.times) /\ PublishedInPast
      /\ NotEarly(sidecar) /\ MemoAged
  BY JobParts DEF JobOk, Done, JobAt
<1>2. \A v \in lines : Aged(v)
  <2> SUFFICES ASSUME NEW v \in lines PROVE Aged(v)
    OBVIOUS
  <2>1. v \in 1..r.rev /\ v \in Versions /\ Contains(r.times, v) /\ r.times[v].ts <= r.cut
    BY JobFields DEF Survivors
  <2>2. Published(v) /\ hist[v].at <= r.times[v].ts
    BY <1>1, <2>1 DEF NotEarly
  <2>3. r.times[v].ts \in Nat /\ r.cut \in Nat
    BY <2>1, JobFields DEF Times, Stamps
  <2> HIDE DEF r
  <2> QED BY <1>1, <2>1, <2>2, <2>3, StampAged
<1>3. JobOk(NoJob) /\ PageOk(Shown(404, {})) /\ PageOk(Shown(200, lines))
  BY <1>2, EmptyOk DEF PageOk
<1>4. UNCHANGED <<now, hist, window, sidecar, getVars>> /\ NotEarly(sidecar')
  BY <1>1 DEF Done, envVars
<1>5. CASE Show(c, 404, r.rev, r.cut, {}) /\ UNCHANGED memo
  <2>1. MemoAged'
    BY <1>1, <1>4, <1>5 DEF MemoAged, Aged, Published
  <2>2. job' = [job EXCEPT ![c] = NoJob] /\ page' = [page EXCEPT ![c] = Shown(404, {})]
    BY <1>5 DEF Show
  <2> HIDE DEF Shown
  <2> QED BY <1>3, <1>4, <2>1, <2>2, JobStepInv
<1>6. CASE /\ Show(c, 200, r.rev, r.cut, lines)
           /\ memo' = [rev |-> r.rev, bkt |-> Bucket(r.cut), lines |-> lines]
  <2>1. MemoAged'
    BY <1>2, <1>4, <1>6 DEF MemoAged, Aged, Published
  <2> QED BY <1>3, <1>4, <1>6, <2>1, JobStepInv DEF Show
<1> QED BY <1>5, <1>6 DEF Done
-----------------------------------------------------------------------------
(* The cooldown on downloads.                                              *)

LEMMA GetParts ==
  ASSUME TypeOK, SidecarInv, NEW d \in Getters
  PROVE  /\ GetOk(get[d]) /\ NotEarly(get[d].times) /\ NotEarly(sidecar)
         /\ ReplyOk(reply[d]) /\ PublishedInPast
  BY SidecarInvParts DEF GetOk

LEMMA GetGotoInv ==
  ASSUME TypeOK, SidecarInv, NEW d \in Getters, NEW g, GetGoto(d, g), GetOk(g),
         NotEarly(sidecar'), UNCHANGED <<now, hist, window, memo, jobVars>>
  PROVE  SidecarInv'
<1>1. /\ get' = [get EXCEPT ![d] = g] /\ reply' = [reply EXCEPT ![d] = reply[d]]
  BY DEF GetGoto, TypeOK
<1>2. ReplyOk(reply[d])
  BY GetParts
<1> QED BY <1>1, <1>2, GetStepInv

LEMMA ReplyInv ==
  ASSUME TypeOK, SidecarInv, NEW d \in Getters, NEW status, Reply(d, status),
         status = 200 => get[d].pc \in {"file", "fetch", "store"},
         NotEarly(sidecar'), UNCHANGED <<now, hist, window, memo, jobVars>>
  PROVE  SidecarInv'
<1> DEFINE p == [status |-> status, ver |-> get[d].ver]
<1>1. get' = [get EXCEPT ![d] = NoGet] /\ reply' = [reply EXCEPT ![d] = p]
  BY DEF Reply
<1>2. GetOk(NoGet)
  BY EmptyOk
<1>3. ReplyOk(p)
  BY GetParts DEF ReplyOk, GetOk
<1> QED BY <1>1, <1>2, <1>3, GetStepInv

(* The gate's verdict on a stamp no earlier than the publication.          *)
LEMMA VerdictInv ==
  ASSUME TypeOK, SidecarInv, NEW d \in Getters, get[d].pc \in {"load", "probe", "save"},
         NEW ts \in Nat, hist[get[d].ver].at <= ts, Verdict(d, ts),
         NotEarly(sidecar'), UNCHANGED <<now, hist, window, memo, jobVars>>
  PROVE  SidecarInv'
<1> DEFINE v == get[d].ver
           g == [NoGet EXCEPT !.pc = "file", !.ver = v]
<1>1. /\ Published(v) /\ Past(get[d].cut) /\ get[d].cut \in Nat /\ PublishedInPast
      /\ hist[v].at <= ts
  BY GetParts, GetFields DEF GetOk
<1>2. CASE ts <= get[d].cut
  <2>1. Aged(v)
    <3> HIDE DEF v
    <3> QED BY <1>1, <1>2, StampAged
  <2>2. GetOk(g)
    BY <1>1, <2>1, EmptyOk DEF GetOk, NoGet
  <2>3. GetGoto(d, g)
    BY <1>2 DEF Verdict
  <2> HIDE DEF g
  <2> QED BY <2>2, <2>3, GetGotoInv
<1>3. CASE ~(ts <= get[d].cut)
  <2>1. Reply(d, 403)
    BY <1>3 DEF Verdict
  <2> QED BY <2>1, ReplyInv
<1> QED BY <1>2, <1>3

LEMMA ServeArtifactInv ==
  ASSUME TypeOK, SidecarInv, ~AsksUnpublished,
         NEW d \in Getters, NEW v \in Versions, ServeArtifact(d, v)
  PROVE  SidecarInv'
<1> DEFINE g == [NoGet EXCEPT !.pc = IF Gated THEN "load" ELSE "file",
                              !.ver = v, !.cut = IF Gated THEN Cutoff ELSE 0]
<1>1. /\ get' = [get EXCEPT ![d] = g] /\ reply' = [reply EXCEPT ![d] = NoReply]
      /\ Published(v) /\ UNCHANGED <<now, hist, window, sidecar, memo, jobVars>>
  BY DEF ServeArtifact, envVars
<1>2. NotEarly(sidecar') /\ ReplyOk(NoReply) /\ NotEarly(NoTimes)
  BY <1>1, GetParts, EmptyOk
<1>3. CASE Gated
  <2>1. Past(Cutoff)
    BY <1>3, CutoffType DEF Gated
  <2>2. g = [NoGet EXCEPT !.pc = "load", !.ver = v, !.cut = Cutoff]
    BY <1>3
  <2>3. GetOk(g)
    BY <1>1, <1>2, <2>1, <2>2 DEF GetOk, NoGet
  <2> HIDE DEF g
  <2> QED BY <1>1, <1>2, <2>3, GetStepInv
<1>4. CASE ~Gated
  <2>1. RestrictDownloads => ~(window > 0)
    BY <1>4, CutoffType DEF Gated, Cutoff, CutoffFrom, Unfiltered
  <2>2. g = [NoGet EXCEPT !.pc = "file", !.ver = v, !.cut = 0]
    BY <1>4
  <2>3. GetOk(g)
    BY <1>1, <1>2, <2>1, <2>2 DEF GetOk, NoGet
  <2> HIDE DEF g
  <2> QED BY <1>1, <1>2, <2>3, GetStepInv
<1> QED BY <1>3, <1>4

LEMMA GateLoadInv ==
  ASSUME TypeOK, SidecarInv, NEW d \in Getters, GateLoad(d)
  PROVE  SidecarInv'
<1> DEFINE v == get[d].ver
           g == [get[d] EXCEPT !.pc = "probe", !.times = sidecar]
<1>1. /\ get[d].pc = "load" /\ UNCHANGED <<now, hist, window, sidecar, memo, jobVars>>
      /\ \/ Contains(sidecar, v) /\ Verdict(d, sidecar[v].ts)
         \/ GetGoto(d, g)
  BY DEF GateLoad, GetAt, envVars
<1>2. /\ GetOk(get[d]) /\ NotEarly(sidecar) /\ NotEarly(sidecar') /\ get[d] \in Gets
      /\ sidecar \in Times /\ v \in Versions
  BY <1>1, GetParts, GetFields DEF Gets
<1>3. CASE Contains(sidecar, v) /\ Verdict(d, sidecar[v].ts)
  <2>1. hist[v].at <= sidecar[v].ts /\ sidecar[v].ts \in Nat
    BY <1>2, <1>3 DEF NotEarly, Times, Stamps
  <2> QED BY <1>1, <1>2, <1>3, <2>1, VerdictInv
<1>4. CASE GetGoto(d, g)
  <2>1. g.pc = "probe" /\ g.times = sidecar /\ g.ver = v /\ g.cut = get[d].cut
    BY <1>2 DEF Gets
  <2>2. GetOk(g)
    BY <1>1, <1>2, <2>1 DEF GetOk
  <2> HIDE DEF g
  <2> QED BY <1>1, <1>2, <1>4, <2>2, GetGotoInv
<1> QED BY <1>1, <1>3, <1>4

LEMMA GateStampOk ==
  ASSUME TypeOK, SidecarInv, NEW d \in Getters, GetAt(d, "probe"),
         NEW stamp \in Stamps, stamp # NoStamp, hist[get[d].ver].at <= stamp.ts
  PROVE  GetOk([get[d] EXCEPT !.pc = "save", !.times[get[d].ver] = stamp])
<1> DEFINE v == get[d].ver
           times == [get[d].times EXCEPT ![v] = stamp]
           g == [get[d] EXCEPT !.pc = "save", !.times[v] = stamp]
<1>1. /\ GetOk(get[d]) /\ get[d] \in Gets /\ get[d].times \in Times /\ get[d].pc = "probe"
      /\ PublishedInPast /\ v \in Versions /\ Published(v)
  BY GetParts, GetFields DEF GetAt, Gets, GetOk
<1>2. NotEarly(times)
  BY <1>1, GetParts, LearntNotEarly
<1>3. Contains(times, v)
  BY <1>1 DEF Contains, Times
<1>4. g.pc = "save" /\ g.times = times /\ g.ver = v /\ g.cut = get[d].cut
  BY <1>1 DEF Gets
<1> HIDE DEF g, times
<1>5. GetOk(g)
  BY <1>1, <1>2, <1>3, <1>4 DEF GetOk
<1> QED BY <1>5 DEF g

LEMMA GatedVersion ==
  ASSUME TypeOK, SidecarInv, NEW d \in Getters, ~GetAt(d, "idle")
  PROVE  Published(get[d].ver) /\ NotEarly(sidecar) /\ PublishedInPast
  BY GetParts DEF GetOk, GetAt

LEMMA GateProbeInv ==
  ASSUME TypeOK, SidecarInv, NEW d \in Getters, GateProbe(d)
  PROVE  SidecarInv'
<1> DEFINE g == [get[d] EXCEPT !.pc = "save", !.times[get[d].ver] = Stamp(get[d].ver)]
<1>1. /\ GetAt(d, "probe") /\ (Reply(d, 404) \/ GetGoto(d, g))
      /\ UNCHANGED <<now, hist, window, sidecar, memo, jobVars>>
  BY DEF GateProbe, envVars
<1>2. Published(get[d].ver) /\ NotEarly(sidecar') /\ PublishedInPast
  BY <1>1, GatedVersion DEF GetAt
<1>3. CASE Reply(d, 404)
  BY <1>1, <1>2, <1>3, ReplyInv
<1>4. CASE GetGoto(d, g)
  <2>1. GetOk(g)
    BY <1>1, <1>2, GateStampOk, StampType, StampLate
  <2> HIDE DEF g
  <2> QED BY <1>1, <1>2, <1>4, <2>1, GetGotoInv
<1> QED BY <1>1, <1>3, <1>4

LEMMA GateProbeFailsInv ==
  ASSUME TypeOK, SidecarInv, NEW d \in Getters, GateProbeFails(d)
  PROVE  SidecarInv'
<1> DEFINE g == [get[d] EXCEPT !.pc = "save", !.times[get[d].ver] = FirstSeen]
<1>1. /\ GetAt(d, "probe") /\ GetGoto(d, g)
      /\ UNCHANGED <<now, hist, window, sidecar, memo, jobVars>>
  BY DEF GateProbeFails
<1>2. Published(get[d].ver) /\ NotEarly(sidecar') /\ PublishedInPast
  BY <1>1, GatedVersion DEF GetAt
<1>3. GetOk(g)
  BY <1>1, <1>2, GateStampOk, StampType, StampLate
<1> HIDE DEF g
<1> QED BY <1>1, <1>2, <1>3, GetGotoInv

(* Saving judges the stamp just learnt, whether or not it reaches the disk.*)
LEMMA GateSaveInv ==
  ASSUME TypeOK, SidecarInv, NEW d \in Getters, GateSave(d) \/ GateSaveFails(d)
  PROVE  SidecarInv'
<1> DEFINE ts == get[d].times[get[d].ver].ts
<1>1. /\ get[d].pc = "save" /\ Verdict(d, ts)
      /\ sidecar' = get[d].times \/ sidecar' = sidecar
      /\ UNCHANGED <<now, hist, window, memo, jobVars>>
  BY DEF GateSave, GateSaveFails, GetAt, envVars
<1>2. /\ GetOk(get[d]) /\ NotEarly(get[d].times) /\ NotEarly(sidecar')
      /\ get[d] \in Gets /\ get[d].times \in Times /\ get[d].ver \in Versions
  BY <1>1, GetParts, GetFields DEF Gets
<1>3. hist[get[d].ver].at <= ts /\ ts \in Nat
  BY <1>1, <1>2 DEF GetOk, NotEarly, Times, Stamps
<1> HIDE DEF ts
<1> QED BY <1>1, <1>2, <1>3, VerdictInv

(* Past the gate: from the cache or from upstream.                         *)
LEMMA FileInv ==
  ASSUME TypeOK, SidecarInv, NEW d \in Getters,
         \/ ReadFile(d) \/ FetchArtifact(d) \/ StoreArtifact(d) \/ StoreFails(d)
         \/ \E status \in {500, 502, 507} : FetchFails(d, status)
  PROVE  SidecarInv'
<1>1. /\ get[d].pc \in {"file", "fetch", "store"}
      /\ UNCHANGED <<now, hist, window, sidecar, memo, jobVars>>
  BY DEF ReadFile, FetchArtifact, StoreArtifact, StoreFails, FetchFails, GetAt, envVars
<1>2. NotEarly(sidecar') /\ GetOk(get[d]) /\ get[d] \in Gets
  BY <1>1, GetParts, GetFields
<1>3. CASE \E status : Reply(d, status)
  BY <1>1, <1>2, <1>3, ReplyInv
<1>4. CASE \E pc \in {"fetch", "store"} : GetGoto(d, [get[d] EXCEPT !.pc = pc])
  <2>1. PICK pc \in {"fetch", "store"} : GetGoto(d, [get[d] EXCEPT !.pc = pc])
    BY <1>4
  <2> DEFINE g == [get[d] EXCEPT !.pc = pc]
  <2>2. g.pc = pc /\ g.times = get[d].times /\ g.ver = get[d].ver
    BY <1>2 DEF Gets
  <2>3. GetOk(g)
    BY <1>1, <1>2, <2>2 DEF GetOk
  <2> HIDE DEF g
  <2> QED BY <1>1, <1>2, <2>1, <2>3, GetGotoInv DEF g
<1>5. \/ \E status : Reply(d, status)
      \/ GetGoto(d, [get[d] EXCEPT !.pc = "fetch"])
      \/ GetGoto(d, [get[d] EXCEPT !.pc = "store"])
  BY DEF ReadFile, FetchArtifact, StoreArtifact, StoreFails, FetchFails
<1> QED BY <1>3, <1>4, <1>5

LEMMA HangUpInv ==
  ASSUME TypeOK, SidecarInv, NEW d \in Getters, HangUp(d)
  PROVE  SidecarInv'
<1>1. /\ GetGoto(d, NoGet) /\ (sidecar' = get[d].times \/ sidecar' = sidecar)
      /\ UNCHANGED <<now, hist, window, memo, jobVars>>
  BY DEF HangUp
<1>2. NotEarly(sidecar') /\ GetOk(NoGet)
  BY <1>1, GetParts, EmptyOk
<1> QED BY <1>1, <1>2, GetGotoInv
-----------------------------------------------------------------------------
(* The world around the handlers: what has aged stays aged.                *)

LEMMA GrowthInv ==
  ASSUME TypeOK, SidecarInv, PublishedInPast', now' \in Nat, now <= now',
         Len(hist') \in Nat, Len(hist) <= Len(hist'),
         \A v \in 1..Len(hist) : hist'[v] = hist[v],
         UNCHANGED <<window, sidecar, memo, jobVars, getVars>>
  PROVE  SidecarInv'
<1>1. UNCHANGED <<window, sidecar, memo, job, page, get, reply>>
  BY DEF jobVars, getVars
<1>2. /\ now \in Nat /\ window \in Nat /\ Len(hist) \in Nat
      /\ \A v : Published(v) => hist[v].at \in Nat
  BY CutoffType, PublishedType, LenProperties DEF TypeOK
<1>3. ASSUME NEW v, Published(v) PROVE Published(v)' /\ hist'[v] = hist[v]
  BY <1>2, <1>3 DEF Published
<1>4. ASSUME NEW v, Aged(v) PROVE Aged(v)'
  <2>1. Published(v) /\ hist[v].at + window <= now /\ hist[v].at \in Nat
    BY <1>2, <1>4 DEF Aged
  <2>2. hist[v].at + window <= now'
    BY <1>2, <2>1
  <2> QED BY <1>1, <1>3, <2>1, <2>2 DEF Aged
<1>5. PublishedInPast' /\ NotEarly(sidecar)' /\ MemoAged'
  <2>1. NotEarly(sidecar)'
    BY <1>1, <1>3, SidecarInvParts DEF NotEarly, Contains
  <2>2. MemoAged'
    BY <1>1, <1>4, SidecarInvParts DEF MemoAged
  <2> QED BY <2>1, <2>2
<1>6. ASSUME NEW c \in Resolvers PROVE JobOk(job[c])' /\ PageOk(page[c])'
  <2>1. JobOk(job[c]) /\ PageOk(page[c]) /\ job[c].cut \in Nat /\ job[c].rev \in Nat
    BY SidecarInvParts, JobFields
  <2>2. NotEarly(job[c].times)'
    BY <1>1, <1>3, <2>1 DEF JobOk, NotEarly, Contains
  <2>3. job'[c].pc # "idle" => Past(job[c].cut)'
    BY <1>1, <1>2, <2>1 DEF JobOk, Past
  <2>4. /\ job'[c].rev <= Len(hist') /\ job'[c].pending \subseteq 1..Len(hist')
    BY <1>1, <1>2, <2>1 DEF JobOk
  <2>5. PageOk(page[c])'
    BY <1>1, <1>4, <2>1 DEF PageOk
  <2> QED BY <1>1, <2>2, <2>3, <2>4, <2>5 DEF JobOk
<1>7. ASSUME NEW d \in Getters PROVE GetOk(get[d])' /\ ReplyOk(reply[d])'
  <2>1. GetOk(get[d]) /\ ReplyOk(reply[d]) /\ get[d].cut \in Nat
    BY SidecarInvParts, GetFields
  <2>2. NotEarly(get[d].times)'
    BY <1>1, <1>3, <2>1 DEF GetOk, NotEarly, Contains
  <2>3. get'[d].pc \in {"load", "probe", "save"} => Past(get[d].cut)'
    BY <1>1, <1>2, <2>1 DEF GetOk, Past
  <2>4. /\ get'[d].pc # "idle" => Published(get[d].ver)'
        /\ get'[d].pc = "save" => Contains(get[d].times, get[d].ver)'
    BY <1>1, <1>3, <2>1 DEF GetOk, Contains, Published
  <2>5. get'[d].pc \in {"file", "fetch", "store"} /\ RestrictDownloads /\ window' > 0
          => Aged(get[d].ver)'
    BY <1>1, <1>4, <2>1 DEF GetOk, Aged, Published
  <2>6. ReplyOk(reply[d])'
    BY <1>1, <1>4, <2>1 DEF ReplyOk, Aged, Published
  <2> QED BY <1>1, <2>2, <2>3, <2>4, <2>5, <2>6 DEF GetOk
<1> QED BY <1>5, <1>6, <1>7, SidecarInvNext

LEMMA TickInv ==
  ASSUME TypeOK, SidecarInv, Tick
  PROVE  SidecarInv'
<1>1. /\ now' = now + 1 /\ UNCHANGED <<hist, window, sidecar, memo, jobVars, getVars>>
  BY DEF Tick
<1>2. now \in Nat /\ Len(hist) \in Nat
  BY CutoffType, LenProperties DEF TypeOK
<1>3. PublishedInPast'
  BY <1>1, <1>2, SidecarInvParts DEF PublishedInPast
<1> QED BY <1>1, <1>2, <1>3, GrowthInv

LEMMA PublishInv ==
  ASSUME TypeOK, SidecarInv, NEW kind \in Kinds, Publish(kind)
  PROVE  SidecarInv'
<1> DEFINE e == [at |-> now, kind |-> kind]
           Entry == [at : Nat, kind : AllKinds]
<1>1. /\ hist' = Append(hist, e)
      /\ UNCHANGED <<now, window, sidecar, memo, jobVars, getVars>>
  BY DEF Publish
<1>2. now \in Nat /\ now > 0 /\ e \in Entry /\ hist \in Seq(Entry)
  BY CutoffType DEF TypeOK
<1>3. /\ Len(hist) \in Nat /\ Len(hist') = Len(hist) + 1
      /\ hist'[Len(hist) + 1] = e /\ \A v \in 1..Len(hist) : hist'[v] = hist[v]
  <2> HIDE DEF e, Entry
  <2> QED BY <1>1, <1>2, AppendProperties, LenProperties
<1>4. PublishedInPast'
  <2>1. PublishedInPast /\ e.at \in 1..now
    BY <1>2, SidecarInvParts
  <2> HIDE DEF e
  <2> QED BY <1>1, <1>3, <2>1 DEF PublishedInPast
<1> QED BY <1>1, <1>2, <1>3, <1>4, GrowthInv

LEMMA RestartInv ==
  ASSUME TypeOK, SidecarInv, NEW w \in Windows, Restart(w)
  PROVE  SidecarInv'
<1>1. TypeOK' /\ UNCHANGED <<now, hist, sidecar>>
  BY RestartTyped DEF Restart
<1>2. PublishedInPast' /\ NotEarly(sidecar)' /\ MemoAged'
  BY <1>1, SidecarInvParts DEF Restart, PublishedInPast, NotEarly, Published, MemoAged, NoMemo
<1>3. ASSUME NEW c \in Resolvers PROVE JobOk(job[c])' /\ PageOk(page[c])'
  <2>1. job'[c] = NoJob /\ page'[c] = NoPage /\ 0 <= Len(hist')
    BY <1>1, LenProperties DEF Restart, TypeOK
  <2> QED BY <2>1 DEF JobOk, PageOk, NoJob, NoPage, NotEarly, Contains, NoTimes
<1>4. ASSUME NEW d \in Getters PROVE GetOk(get[d])' /\ ReplyOk(reply[d])'
  <2>1. get'[d] = NoGet /\ reply'[d] = NoReply
    BY DEF Restart
  <2> QED BY <2>1 DEF GetOk, ReplyOk, NoGet, NoReply, NotEarly, Contains, NoTimes
<1> QED BY <1>2, <1>3, <1>4, SidecarInvNext

LEMMA CleanupInv ==
  ASSUME TypeOK, SidecarInv,
         EvictMemo \/ PurgeAll \/ (\E v \in Versions : PurgeArtifact(v)) \/ UNCHANGED vars
  PROVE  SidecarInv'
<1>1. /\ UNCHANGED <<now, hist, window, job, page, get, reply>>
      /\ sidecar' = sidecar \/ sidecar' = NoTimes
      /\ memo' = memo \/ memo' = NoMemo
  BY DEF EvictMemo, PurgeAll, PurgeArtifact, vars, envVars, jobVars, getVars
<1>2. /\ PublishedInPast /\ NotEarly(sidecar) /\ NotEarly(NoTimes) /\ MemoAged
      /\ \A c \in Resolvers : JobOk(job[c]) /\ PageOk(page[c])
      /\ \A d \in Getters : GetOk(get[d]) /\ ReplyOk(reply[d])
  BY SidecarInvParts, EmptyOk
<1>3. PublishedInPast' /\ NotEarly(sidecar)' /\ MemoAged'
  BY <1>1, <1>2 DEF PublishedInPast, NotEarly, Published, Contains, MemoAged, Aged, NoMemo
<1>4. ASSUME NEW c \in Resolvers PROVE JobOk(job[c])' /\ PageOk(page[c])'
  BY <1>1, <1>2 DEF JobOk, PageOk, Past, NotEarly, Contains, Published, Aged
<1>5. ASSUME NEW d \in Getters PROVE GetOk(get[d])' /\ ReplyOk(reply[d])'
  BY <1>1, <1>2 DEF GetOk, ReplyOk, Past, NotEarly, Contains, Published, Aged
<1> QED BY <1>3, <1>4, <1>5, SidecarInvNext

LEMMA InitInv == Init => SidecarInv
<1> SUFFICES ASSUME Init PROVE SidecarInv
  OBVIOUS
<1>1. PublishedInPast /\ NotEarly(sidecar) /\ MemoAged
  BY InitTyped, EmptyOk DEF Init, PublishedInPast, MemoAged, NoMemo
<1>2. ASSUME NEW c \in Resolvers PROVE JobOk(job[c]) /\ PageOk(page[c])
  BY InitTyped, EmptyOk DEF Init
<1>3. ASSUME NEW d \in Getters PROVE GetOk(get[d]) /\ ReplyOk(reply[d])
  BY InitTyped, EmptyOk DEF Init
<1> QED BY <1>1, <1>2, <1>3, SidecarInvParts

LEMMA NextInv == ~AsksUnpublished /\ TypeOK /\ SidecarInv /\ [Next]_vars => SidecarInv'
<1> SUFFICES ASSUME ~AsksUnpublished, TypeOK, SidecarInv, [Next]_vars PROVE SidecarInv'
  OBVIOUS
<1>1. ASSUME NEW c \in Resolvers, Resolve(c) PROVE SidecarInv'
  BY <1>1, MetadataOkInv, LoadInv, ProbeInv, ProbeFailsInv, SaveInv, DoneInv, DisconnectInv
     DEF Resolve
<1>2. ASSUME NEW d \in Getters, Download(d) PROVE SidecarInv'
  BY <1>2, ServeArtifactInv, GateLoadInv, GateProbeInv, GateProbeFailsInv, GateSaveInv,
     FileInv, HangUpInv DEF Download
<1>3. ASSUME NEW kind \in Kinds, Publish(kind) PROVE SidecarInv'
  BY <1>3, PublishInv
<1>4. ASSUME NEW w \in Windows, Restart(w) PROVE SidecarInv'
  BY <1>4, RestartInv
<1> QED BY <1>1, <1>2, <1>3, <1>4, TickInv, CleanupInv DEF Next

(* The inductive invariant: what is cached, memoized or in a request's     *)
(* hands never lets a young version through.                               *)
THEOREM SidecarInvHolds == ASSUME ~AsksUnpublished PROVE Spec => []SidecarInv
<1> QED BY InitTyped, NextTyped, InitInv, NextInv, PTL DEF Spec

(* No version younger than the window is ever listed, for every number of  *)
(* concurrent requests, every window, bucket length, failure and restart.  *)
THEOREM ListsOnlyAgedHolds == ASSUME ~AsksUnpublished PROVE Spec => []ListsOnlyAged
<1>1. SidecarInv => ListsOnlyAged
  BY DEF SidecarInv
<1> QED BY <1>1, SidecarInvHolds, PTL

(* Nor handed out, under --restrict-downloads.                             *)
THEOREM ServesOnlyAgedHolds == ASSUME ~AsksUnpublished PROVE Spec => []ServesOnlyAged
<1>1. SidecarInv => ServesOnlyAged
  BY DEF SidecarInv
<1> QED BY <1>1, SidecarInvHolds, PTL

(* Because no stamp, wherever it is held, precedes the publication.        *)
THEOREM StampsNotEarlyHolds == ASSUME ~AsksUnpublished PROVE Spec => []StampsNotEarly
<1>1. SidecarInv => StampsNotEarly
  BY DEF SidecarInv
<1> QED BY <1>1, SidecarInvHolds, PTL
-----------------------------------------------------------------------------
(* Nothing old is hidden, whatever downloads ask for. HidesInv is about    *)
(* versions no probe of which has failed: whoever holds a stamp of one     *)
(* holds the exact date, and whatever was filtered shows the aged ones.    *)

Exact(times, h, f) ==
  \A v \in Versions \ f :
    Contains(times, v) => v \in 1..Len(h) /\ (h[v].kind = "dated" => times[v].ts = h[v].at)

Complete(rev, bkt, lines, h, f) ==
  /\ rev <= Len(h)
  /\ \A v \in (1..rev) \ f : h[v].kind = "dated" /\ h[v].at <= bkt * BucketLen => v \in lines

(* A request has a stamp of every version it listed but those under probe. *)
JobKnows(r, h, f) ==
  /\ r.rev <= Len(h) /\ r.pending \subseteq 1..r.rev
  /\ Exact(r.times, h, f)
  /\ r.pc \in {"probe", "done"} => \A v \in (1..r.rev) \ r.pending : Contains(r.times, v)
  /\ r.pc = "done" => r.pending = {}

PageComplete(p, h, f, win) ==
  p.status # 0 /\ win > 0 => Complete(p.rev, Bucket(p.cut), p.lines, h, f)

HidesInv ==
  /\ Exact(sidecar, hist, failed)
  /\ Complete(memo.rev, memo.bkt, memo.lines, hist, failed)
  /\ \A c \in Resolvers :
       JobKnows(job[c], hist, failed) /\ PageComplete(page[c], hist, failed, window)
  /\ \A d \in Getters : Exact(get[d].times, hist, failed)

(* Upstream publishes and probes fail; neither is ever taken back.         *)
Grown(h, f, h2, f2) ==
  /\ Len(h) \in Nat /\ Len(h2) \in Nat /\ Len(h) <= Len(h2)
  /\ \A i \in 1..Len(h) : h2[i] = h[i]
  /\ f \subseteq f2

LEMMA GrownExact ==
  ASSUME NEW h, NEW f, NEW h2, NEW f2, Grown(h, f, h2, f2), NEW times, Exact(times, h, f)
  PROVE  Exact(times, h2, f2)
<1>1. /\ Len(h) \in Nat /\ Len(h2) \in Nat /\ Len(h) <= Len(h2) /\ f \subseteq f2
      /\ \A i \in 1..Len(h) : h2[i] = h[i] /\ i \in 1..Len(h2)
  BY DEF Grown
<1> QED BY <1>1 DEF Exact

LEMMA GrownComplete ==
  ASSUME NEW h, NEW f, NEW h2, NEW f2, Grown(h, f, h2, f2), NEW rev \in Nat, NEW bkt, NEW lines,
         Complete(rev, bkt, lines, h, f)
  PROVE  Complete(rev, bkt, lines, h2, f2)
<1>1. /\ Len(h) \in Nat /\ Len(h2) \in Nat /\ Len(h) <= Len(h2) /\ f \subseteq f2
      /\ rev <= Len(h)
      /\ \A i \in 1..Len(h) : h2[i] = h[i]
  BY DEF Grown, Complete
<1>2. rev <= Len(h2) /\ \A v \in (1..rev) \ f2 : v \in (1..rev) \ f /\ h2[v] = h[v]
  BY <1>1
<1> QED BY <1>2 DEF Complete

LEMMA GrownJob ==
  ASSUME NEW h, NEW f, NEW h2, NEW f2, Grown(h, f, h2, f2), NEW r, r.rev \in Nat,
         JobKnows(r, h, f)
  PROVE  JobKnows(r, h2, f2)
<1>1. Exact(r.times, h2, f2)
  BY GrownExact DEF JobKnows
<1>2. r.rev <= Len(h2)
  BY DEF JobKnows, Grown
<1> QED BY <1>1, <1>2 DEF JobKnows

LEMMA GrownPage ==
  ASSUME NEW h, NEW f, NEW h2, NEW f2, Grown(h, f, h2, f2), NEW p \in Pages, NEW win,
         PageComplete(p, h, f, win)
  PROVE  PageComplete(p, h2, f2, win)
<1>1. p.rev \in Nat
  BY DEF Pages
<1> QED BY <1>1, GrownComplete DEF PageComplete

(* What a step leaves alone stays as HidesInv has it.                      *)
LEMMA Unmoved ==
  ASSUME TypeOK, HidesInv, Grown(hist, failed, hist', failed')
  PROVE  /\ Exact(sidecar, hist', failed')
         /\ Complete(memo.rev, memo.bkt, memo.lines, hist', failed')
         /\ \A c \in Resolvers : /\ JobKnows(job[c], hist', failed')
                                 /\ PageComplete(page[c], hist', failed', window)
         /\ \A d \in Getters : Exact(get[d].times, hist', failed')
<1>1. Exact(sidecar, hist', failed')
  BY GrownExact DEF HidesInv
<1>2. memo.rev \in Nat
  BY DEF TypeOK
<1>3. Complete(memo.rev, memo.bkt, memo.lines, hist', failed')
  BY <1>2, GrownComplete DEF HidesInv
<1>4. ASSUME NEW c \in Resolvers
      PROVE  /\ JobKnows(job[c], hist', failed')
             /\ PageComplete(page[c], hist', failed', window)
  <2>1. job[c].rev \in Nat /\ page[c] \in Pages
    BY JobFields DEF TypeOK
  <2>2. JobKnows(job[c], hist, failed) /\ PageComplete(page[c], hist, failed, window)
    BY DEF HidesInv
  <2> QED BY <2>1, <2>2, GrownJob, GrownPage
<1>5. ASSUME NEW d \in Getters PROVE Exact(get[d].times, hist', failed')
  BY GrownExact DEF HidesInv
<1> QED BY <1>1, <1>3, <1>4, <1>5

LEMMA SameGrown ==
  ASSUME TypeOK, UNCHANGED hist, failed \subseteq failed'
  PROVE  Grown(hist, failed, hist', failed')
<1>1. Len(hist) \in Nat
  BY LenProperties DEF TypeOK
<1> QED BY <1>1 DEF Grown

LEMMA BlankHides ==
  ASSUME TypeOK
  PROVE  /\ Exact(NoTimes, hist', failed') /\ Exact(NoTimes, hist, failed)
         /\ PageComplete(NoPage, hist', failed', window')
         /\ PageComplete(NoPage, hist, failed, window)
  BY DEF Exact, Contains, NoTimes, PageComplete, NoPage

(* A step that moves one metadata request, with what it leaves behind.     *)
LEMMA JobStepHides ==
  ASSUME TypeOK, HidesInv, Grown(hist, failed, hist', failed'),
         NEW c \in Resolvers, NEW r, NEW p,
         job' = [job EXCEPT ![c] = r], page' = [page EXCEPT ![c] = p],
         JobKnows(r, hist', failed'), PageComplete(p, hist', failed', window),
         Exact(sidecar', hist', failed'),
         Complete(memo'.rev, memo'.bkt, memo'.lines, hist', failed'),
         UNCHANGED <<window, getVars>>
  PROVE  HidesInv'
<1>1. ASSUME NEW b \in Resolvers
      PROVE  JobKnows(job'[b], hist', failed') /\ PageComplete(page'[b], hist', failed', window')
  BY Unmoved DEF TypeOK
<1>2. ASSUME NEW d \in Getters PROVE Exact(get'[d].times, hist', failed')
  BY Unmoved DEF getVars
<1> QED BY <1>1, <1>2 DEF HidesInv

LEMMA JobGotoHides ==
  ASSUME TypeOK, HidesInv, UNCHANGED hist, failed \subseteq failed',
         NEW c \in Resolvers, NEW r, JobGoto(c, r),
         JobKnows(r, hist', failed'), Exact(sidecar', hist', failed'),
         UNCHANGED <<window, memo, getVars>>
  PROVE  HidesInv'
<1>1. Grown(hist, failed, hist', failed')
  BY SameGrown
<1>2. job' = [job EXCEPT ![c] = r] /\ page' = [page EXCEPT ![c] = page[c]]
  BY DEF JobGoto, TypeOK
<1>3. /\ PageComplete(page[c], hist', failed', window)
      /\ Complete(memo'.rev, memo'.bkt, memo'.lines, hist', failed')
  BY <1>1, Unmoved
<1> QED BY <1>1, <1>2, <1>3, JobStepHides

(* And one that moves a download.                                          *)
LEMMA GetStepHides ==
  ASSUME TypeOK, HidesInv, UNCHANGED hist, failed \subseteq failed',
         NEW d \in Getters, NEW g, get' = [get EXCEPT ![d] = g],
         Exact(g.times, hist', failed'), Exact(sidecar', hist', failed'),
         UNCHANGED <<window, memo, jobVars>>
  PROVE  HidesInv'
<1>1. Grown(hist, failed, hist', failed')
  BY SameGrown
<1>2. UNCHANGED <<window, memo, job, page>>
  BY DEF jobVars
<1>3. ASSUME NEW e \in Getters PROVE Exact(get'[e].times, hist', failed')
  BY <1>1, Unmoved DEF TypeOK
<1>4. ASSUME NEW c \in Resolvers
      PROVE  JobKnows(job'[c], hist', failed') /\ PageComplete(page'[c], hist', failed', window')
  BY <1>1, <1>2, Unmoved
<1>5. Complete(memo'.rev, memo'.bkt, memo'.lines, hist', failed')
  BY <1>1, <1>2, Unmoved
<1> QED BY <1>3, <1>4, <1>5 DEF HidesInv

LEMMA BucketFloor ==
  ASSUME NEW cut \in Nat
  PROVE  Bucket(cut) * BucketLen <= cut /\ Bucket(cut) \in Nat
<1>1. BucketLen \in Nat /\ BucketLen > 0
  OBVIOUS
<1>2. Bucket(cut) = cut \div BucketLen
  BY DEF Bucket
<1>3. cut = BucketLen * (cut \div BucketLen) + (cut % BucketLen) /\ cut % BucketLen \in 0..(BucketLen - 1)
  BY <1>1
<1>4. cut \div BucketLen \in Nat
  BY <1>1
<1> QED BY <1>1, <1>2, <1>3, <1>4

LEMMA JobStands ==
  ASSUME TypeOK, HidesInv, NEW c \in Resolvers
  PROVE  /\ JobKnows(job[c], hist, failed) /\ Exact(sidecar, hist, failed)
         /\ Complete(memo.rev, memo.bkt, memo.lines, hist, failed)
         /\ Len(hist) \in Nat /\ JobKnows(NoJob, hist, failed)
<1>1. Len(hist) \in Nat
  BY LenProperties DEF TypeOK
<1>2. JobKnows(NoJob, hist, failed)
  BY <1>1, BlankHides DEF JobKnows, NoJob
<1> QED BY <1>1, <1>2 DEF HidesInv

LEMMA MetadataOkHides ==
  ASSUME TypeOK, HidesInv, NEW c \in Resolvers, NEW rev \in 1..Len(hist), MetadataOk(c, rev)
  PROVE  HidesInv'
<1> DEFINE Loading == [NoJob EXCEPT !.pc = "load", !.rev = rev, !.cut = Cutoff]
           Shown(cut, lines) == [status |-> 200, rev |-> rev, cut |-> cut, lines |-> lines]
<1>1. UNCHANGED <<hist, failed, window, sidecar, memo, getVars>>
  BY DEF MetadataOk, envVars
<1>2. Grown(hist, failed, hist', failed')
  BY <1>1, SameGrown
<1>3. /\ Exact(sidecar', hist', failed') /\ JobKnows(NoJob, hist', failed')
      /\ Complete(memo'.rev, memo'.bkt, memo'.lines, hist', failed')
  BY <1>1, JobStands
<1>4. CASE Cutoff = Unfiltered /\ Show(c, 200, rev, 0, 1..rev)
  <2>1. window = 0
    BY <1>4, CutoffType DEF Cutoff, CutoffFrom, Unfiltered
  <2>2. PageComplete(Shown(0, 1..rev), hist', failed', window)
    BY <2>1 DEF PageComplete
  <2> QED BY <1>1, <1>2, <1>3, <1>4, <2>2, JobStepHides DEF Show
<1>5. CASE MemoHas(rev) /\ Show(c, 200, rev, Cutoff, memo.lines)
  <2>1. Complete(rev, Bucket(Cutoff), memo.lines, hist', failed')
    BY <1>1, <1>5, JobStands DEF MemoHas
  <2>2. PageComplete(Shown(Cutoff, memo.lines), hist', failed', window)
    BY <2>1 DEF PageComplete
  <2> QED BY <1>1, <1>2, <1>3, <1>5, <2>2, JobStepHides DEF Show
<1>6. CASE job' = [job EXCEPT ![c] = Loading] /\ page' = [page EXCEPT ![c] = NoPage]
  <2>1. rev <= Len(hist) /\ rev \in Nat
    BY JobStands
  <2>2. JobKnows(Loading, hist', failed')
    BY <1>1, <2>1, BlankHides DEF JobKnows, NoJob
  <2>3. PageComplete(NoPage, hist', failed', window)
    BY <1>1, BlankHides
  <2> HIDE DEF Loading
  <2> QED BY <1>1, <1>2, <1>3, <1>6, <2>2, <2>3, JobStepHides
<1> QED BY <1>4, <1>5, <1>6 DEF MetadataOk

LEMMA LoadHides ==
  ASSUME TypeOK, HidesInv, NEW c \in Resolvers, Load(c)
  PROVE  HidesInv'
<1> DEFINE pending == Pending(sidecar, job[c].rev, job[c].cut)
           r == [job[c] EXCEPT !.pc = "probe", !.times = sidecar,
                               !.pending = pending, !.changed = pending # {}]
<1>1. /\ JobGoto(c, r) /\ UNCHANGED <<hist, failed, window, sidecar, memo, getVars>>
  BY DEF Load, envVars
<1>2. JobKnows(job[c], hist, failed) /\ Exact(sidecar, hist, failed) /\ job[c] \in Jobs
  BY JobStands, JobFields
<1>3. /\ r.pc = "probe" /\ r.times = sidecar /\ r.pending = pending /\ r.rev = job[c].rev
  BY <1>2 DEF Jobs
<1>4. /\ pending \subseteq 1..job[c].rev
      /\ \A v \in (1..job[c].rev) \ pending : Contains(sidecar, v)
  BY DEF Pending
<1> HIDE DEF r, pending
<1>5. JobKnows(r, hist', failed')
  BY <1>1, <1>2, <1>3, <1>4 DEF JobKnows
<1> QED BY <1>1, <1>2, <1>5, JobGotoHides

(* A probe comes back, of a version that from now on may count as failed.  *)
LEMMA LearnHides ==
  ASSUME TypeOK, HidesInv, NEW c \in Resolvers, NEW v \in job[c].pending,
         NEW stamp \in Stamps, stamp # NoStamp, NEW f,
         UNCHANGED hist, failed \subseteq f,
         v \in f \/ (hist[v].kind = "dated" => stamp.ts = hist[v].at)
  PROVE  JobKnows([job[c] EXCEPT !.pending = @ \ {v}, !.times[v] = stamp], hist, f)
<1> DEFINE times == [job[c].times EXCEPT ![v] = stamp]
           r == [job[c] EXCEPT !.pending = @ \ {v}, !.times[v] = stamp]
<1>1. /\ JobKnows(job[c], hist, failed) /\ job[c] \in Jobs /\ job[c].times \in Times
      /\ v \in Versions /\ v \in 1..job[c].rev /\ job[c].rev \in Nat /\ job[c].rev <= Len(hist)
      /\ Len(hist) \in Nat /\ 1..job[c].rev \subseteq Versions
  BY JobStands, JobFields DEF JobKnows
<1>2. /\ r.pc = job[c].pc /\ r.times = times /\ r.pending = job[c].pending \ {v}
      /\ r.rev = job[c].rev
  BY <1>1 DEF Jobs
<1>3. \A u \in Versions : times[u] = IF u = v THEN stamp ELSE job[c].times[u]
  BY <1>1 DEF Times
<1> HIDE DEF r, times
<1>4. v \in 1..Len(hist)
  BY <1>1
<1>5. Exact(times, hist, f)
  BY <1>1, <1>3, <1>4 DEF Exact, JobKnows, Contains
<1>6. \A u \in (1..r.rev) \ r.pending : u \in Versions /\ (u # v => u \notin job[c].pending)
  BY <1>1, <1>2
<1>7. r.pc \in {"probe", "done"} => \A u \in (1..r.rev) \ r.pending : Contains(r.times, u)
  BY <1>1, <1>2, <1>3, <1>6 DEF JobKnows, Contains
<1>8. JobKnows(r, hist, f)
  BY <1>1, <1>2, <1>5, <1>7 DEF JobKnows
<1> QED BY <1>8 DEF r

LEMMA FirstSeenSome ==
  ASSUME TypeOK, NEW v
  PROVE  FirstSeen # NoStamp /\ (Stamp(v) # NoStamp)
  BY DEF FirstSeen, NoStamp, Stamp

LEMMA ProbeHides ==
  ASSUME TypeOK, HidesInv, NEW c \in Resolvers, NEW v \in Versions, Probe(c, v)
  PROVE  HidesInv'
<1> DEFINE stamp == IF Absent(v) THEN FirstSeen ELSE Stamp(v)
           r == [job[c] EXCEPT !.pending = @ \ {v}, !.times[v] = stamp]
<1>1. /\ JobGoto(c, r) /\ v \in job[c].pending
      /\ UNCHANGED <<hist, failed, window, sidecar, memo, getVars>>
  BY DEF Probe, Learn, envVars
<1>2. stamp \in Stamps /\ stamp # NoStamp
  BY StampType, FirstSeenSome
<1>3. Published(v)
  <2>1. /\ job[c].pending \subseteq 1..job[c].rev /\ job[c].rev <= Len(hist)
        /\ job[c].rev \in Nat /\ Len(hist) \in Nat
    BY JobStands, JobFields DEF JobKnows
  <2> QED BY <1>1, <2>1 DEF Published
<1>4. hist[v].kind = "dated" => stamp.ts = hist[v].at
  BY <1>3 DEF Absent, Stamp
<1> HIDE DEF stamp
<1>5. JobKnows(r, hist', failed')
  BY <1>1, <1>2, <1>4, LearnHides
<1>6. Exact(sidecar', hist', failed')
  BY <1>1, JobStands
<1> HIDE DEF r
<1> QED BY <1>1, <1>5, <1>6, JobGotoHides

LEMMA ProbeFailsHides ==
  ASSUME TypeOK, HidesInv, NEW c \in Resolvers, NEW v \in Versions, ProbeFails(c, v)
  PROVE  HidesInv'
<1> DEFINE r == [job[c] EXCEPT !.pending = @ \ {v}, !.times[v] = FirstSeen]
<1>1. /\ JobGoto(c, r) /\ v \in job[c].pending /\ failed' = failed \cup {v}
      /\ UNCHANGED <<hist, window, sidecar, memo, getVars>>
  BY DEF ProbeFails, Learn
<1>2. FirstSeen \in Stamps /\ FirstSeen # NoStamp
  BY StampType, FirstSeenSome
<1>3. failed \subseteq failed' /\ v \in failed'
  BY <1>1
<1>4. JobKnows(r, hist', failed')
  BY <1>1, <1>2, <1>3, LearnHides
<1>5. Exact(sidecar', hist', failed')
  BY <1>1, <1>3, SameGrown, Unmoved
<1> HIDE DEF r
<1> QED BY <1>1, <1>3, <1>4, <1>5, JobGotoHides

LEMMA SaveHides ==
  ASSUME TypeOK, HidesInv, NEW c \in Resolvers, SaveAndFilter(c) \/ SaveFails(c)
  PROVE  HidesInv'
<1> DEFINE r == [job[c] EXCEPT !.pc = "done", !.changed = FALSE]
<1>1. /\ JobGoto(c, r) /\ (sidecar' = Saved(c) \/ sidecar' = sidecar)
      /\ UNCHANGED <<hist, failed, window, memo, getVars>>
      /\ job[c].pc = "probe" /\ job[c].pending = {}
  BY DEF SaveAndFilter, SaveFails, Probed, JobAt, envVars
<1>2. JobKnows(job[c], hist, failed) /\ job[c] \in Jobs /\ Exact(sidecar, hist, failed)
  BY JobStands, JobFields
<1>3. /\ r.pc = "done" /\ r.times = job[c].times /\ r.pending = job[c].pending
      /\ r.rev = job[c].rev
  BY <1>2 DEF Jobs
<1> HIDE DEF r
<1>4. JobKnows(r, hist', failed')
  BY <1>1, <1>2, <1>3 DEF JobKnows
<1>5. Exact(sidecar', hist', failed')
  BY <1>1, <1>2 DEF Saved, JobKnows
<1> QED BY <1>1, <1>4, <1>5, JobGotoHides

LEMMA DisconnectHides ==
  ASSUME TypeOK, HidesInv, NEW c \in Resolvers, Disconnect(c)
  PROVE  HidesInv'
<1>1. /\ JobGoto(c, NoJob) /\ (sidecar' = Saved(c) \/ sidecar' = sidecar)
      /\ UNCHANGED <<hist, failed, window, memo, getVars>>
  BY DEF Disconnect
<1>2. Exact(sidecar', hist', failed') /\ JobKnows(NoJob, hist', failed')
  BY <1>1, JobStands DEF Saved, JobKnows
<1> QED BY <1>1, <1>2, JobGotoHides

(* The filter: every stamp it goes by is exact, and none is missing.       *)
LEMMA DoneHides ==
  ASSUME TypeOK, HidesInv, NEW c \in Resolvers, Done(c)
  PROVE  HidesInv'
<1> DEFINE r == job[c]
           lines == Survivors(r.times, r.rev, r.cut)
           Shown(status, shown) == [status |-> status, rev |-> r.rev, cut |-> r.cut, lines |-> shown]
<1>1. /\ JobKnows(r, hist, failed) /\ r.pc = "done" /\ r.cut \in Nat /\ r.rev \in Nat
      /\ 1..r.rev \subseteq Versions /\ r.times \in Times
      /\ JobKnows(NoJob, hist, failed)
  BY JobStands, JobFields DEF Done, JobAt
<1>2. UNCHANGED <<hist, failed, window, sidecar, getVars>>
  BY DEF Done, envVars
<1>3. Grown(hist, failed, hist', failed') /\ Exact(sidecar', hist', failed')
  BY <1>2, SameGrown, Unmoved
<1>4. Complete(r.rev, Bucket(r.cut), lines, hist, failed)
  <2> SUFFICES ASSUME NEW v \in (1..r.rev) \ failed, hist[v].kind = "dated",
                      hist[v].at <= Bucket(r.cut) * BucketLen
               PROVE  v \in lines
    BY <1>1 DEF Complete, JobKnows
  <2>1. v \in Versions /\ Contains(r.times, v) /\ v \in 1..Len(hist)
    BY <1>1 DEF JobKnows, Exact
  <2>2. r.times[v].ts = hist[v].at /\ r.times[v].ts \in Nat
    BY <1>1, <2>1 DEF JobKnows, Exact, Times, Stamps
  <2>3. Bucket(r.cut) * BucketLen <= r.cut /\ Bucket(r.cut) \in Nat
    BY <1>1, BucketFloor
  <2>4. r.times[v].ts <= r.cut
    <3> DEFINE floor == Bucket(r.cut) * BucketLen
    <3>1. floor \in Nat
      BY <2>3
    <3>2. floor <= r.cut /\ r.times[v].ts <= floor
      BY <2>2, <2>3
    <3> HIDE DEF floor, r
    <3> QED BY <1>1, <2>2, <3>1, <3>2
  <2> QED BY <2>1, <2>4 DEF Survivors
<1>5. CASE lines = {} /\ Show(c, 404, r.rev, r.cut, {}) /\ UNCHANGED memo
  <2>1. PageComplete(Shown(404, {}), hist', failed', window)
    BY <1>2, <1>4, <1>5 DEF PageComplete
  <2>2. job' = [job EXCEPT ![c] = NoJob] /\ page' = [page EXCEPT ![c] = Shown(404, {})]
    BY <1>5 DEF Show
  <2>3. Complete(memo'.rev, memo'.bkt, memo'.lines, hist', failed')
    BY <1>2, <1>5, JobStands
  <2> HIDE DEF Shown, r
  <2> QED BY <1>1, <1>2, <1>3, <2>1, <2>2, <2>3, JobStepHides
<1>6. CASE /\ Show(c, 200, r.rev, r.cut, lines)
           /\ memo' = [rev |-> r.rev, bkt |-> Bucket(r.cut), lines |-> lines]
  <2>1. PageComplete(Shown(200, lines), hist', failed', window)
    BY <1>2, <1>4 DEF PageComplete
  <2>2. job' = [job EXCEPT ![c] = NoJob] /\ page' = [page EXCEPT ![c] = Shown(200, lines)]
    BY <1>6 DEF Show
  <2>3. Complete(memo'.rev, memo'.bkt, memo'.lines, hist', failed')
    BY <1>2, <1>4, <1>6
  <2> HIDE DEF Shown, r, lines
  <2> QED BY <1>1, <1>2, <1>3, <2>1, <2>2, <2>3, JobStepHides
<1> QED BY <1>5, <1>6 DEF Done

(* Downloads: only the gate's probe learns anything.                       *)
LEMMA GetForgets ==
  ASSUME TypeOK, HidesInv, UNCHANGED hist, failed \subseteq failed', NEW d \in Getters,
         \/ GetGoto(d, NoGet) \/ (\E v : GetGoto(d, [NoGet EXCEPT !.pc = "file", !.ver = v]))
         \/ \E status : Reply(d, status),
         Exact(sidecar', hist', failed'), UNCHANGED <<window, memo, jobVars>>
  PROVE  HidesInv'
<1>1. Exact(NoTimes, hist', failed')
  BY BlankHides
<1>2. CASE get' = [get EXCEPT ![d] = NoGet]
  BY <1>1, <1>2, GetStepHides DEF NoGet
<1>3. CASE \E v : GetGoto(d, [NoGet EXCEPT !.pc = "file", !.ver = v])
  <2>1. PICK v : GetGoto(d, [NoGet EXCEPT !.pc = "file", !.ver = v])
    BY <1>3
  <2> DEFINE g == [NoGet EXCEPT !.pc = "file", !.ver = v]
  <2>2. g.times = NoTimes
    BY DEF NoGet
  <2>3. get' = [get EXCEPT ![d] = g]
    BY <2>1 DEF GetGoto
  <2> HIDE DEF g
  <2> QED BY <1>1, <2>2, <2>3, GetStepHides
<1> QED BY <1>2, <1>3 DEF GetGoto, Reply

LEMMA GetMoves ==
  ASSUME TypeOK, HidesInv, UNCHANGED <<hist, failed>>, NEW d \in Getters,
         NEW pc, GetGoto(d, [get[d] EXCEPT !.pc = pc]),
         UNCHANGED <<window, sidecar, memo, jobVars>>
  PROVE  HidesInv'
<1> DEFINE g == [get[d] EXCEPT !.pc = pc]
<1>1. /\ Exact(get[d].times, hist', failed') /\ Exact(sidecar', hist', failed')
      /\ get[d] \in Gets
  BY GetFields DEF HidesInv
<1>2. g.times = get[d].times
  BY <1>1 DEF Gets
<1>3. get' = [get EXCEPT ![d] = g]
  BY DEF GetGoto
<1> HIDE DEF g
<1> QED BY <1>1, <1>2, <1>3, GetStepHides

LEMMA GetStands ==
  ASSUME TypeOK, HidesInv, NEW d \in Getters
  PROVE  Exact(get[d].times, hist, failed) /\ Exact(sidecar, hist, failed) /\ get[d] \in Gets
  BY GetFields DEF HidesInv

LEMMA ServeArtifactHides ==
  ASSUME TypeOK, HidesInv, NEW d \in Getters, NEW v \in Versions, ServeArtifact(d, v)
  PROVE  HidesInv'
<1> DEFINE g == [NoGet EXCEPT !.pc = IF Gated THEN "load" ELSE "file",
                              !.ver = v, !.cut = IF Gated THEN Cutoff ELSE 0]
<1>1. /\ get' = [get EXCEPT ![d] = g]
      /\ UNCHANGED <<hist, failed, window, sidecar, memo, jobVars>>
  BY DEF ServeArtifact, envVars
<1>2. g.times = NoTimes
  BY DEF NoGet
<1>3. Exact(NoTimes, hist', failed') /\ Exact(sidecar', hist', failed')
  BY <1>1, BlankHides, GetStands
<1> HIDE DEF g
<1> QED BY <1>1, <1>2, <1>3, GetStepHides

LEMMA GateLoadHides ==
  ASSUME TypeOK, HidesInv, NEW d \in Getters, GateLoad(d)
  PROVE  HidesInv'
<1> DEFINE g == [get[d] EXCEPT !.pc = "probe", !.times = sidecar]
           v == get[d].ver
<1>1. /\ UNCHANGED <<hist, failed, window, sidecar, memo, jobVars>>
      /\ Verdict(d, sidecar[v].ts) \/ GetGoto(d, g)
  BY DEF GateLoad, envVars
<1>2. Exact(sidecar', hist', failed') /\ get[d] \in Gets
  BY <1>1, GetStands
<1>3. CASE Verdict(d, sidecar[v].ts)
  BY <1>1, <1>2, <1>3, GetForgets DEF Verdict
<1>4. CASE GetGoto(d, g)
  <2>1. g.times = sidecar
    BY <1>2 DEF Gets
  <2>2. get' = [get EXCEPT ![d] = g]
    BY <1>4 DEF GetGoto
  <2> HIDE DEF g
  <2> QED BY <1>1, <1>2, <2>1, <2>2, GetStepHides
<1> QED BY <1>1, <1>3, <1>4

LEMMA GateLearnHides ==
  ASSUME TypeOK, HidesInv, NEW d \in Getters, GetAt(d, "probe"),
         NEW stamp, stamp # NoStamp, UNCHANGED hist, failed \subseteq failed',
         LET v == get[d].ver
         IN  \/ v \in failed'
             \/ v \in 1..Len(hist) /\ (hist[v].kind = "dated" => stamp.ts = hist[v].at),
         GetGoto(d, [get[d] EXCEPT !.pc = "save", !.times[get[d].ver] = stamp]),
         UNCHANGED <<window, sidecar, memo, jobVars>>
  PROVE  HidesInv'
<1> DEFINE v == get[d].ver
           times == [get[d].times EXCEPT ![v] = stamp]
           g == [get[d] EXCEPT !.pc = "save", !.times[v] = stamp]
<1>1. /\ Exact(get[d].times, hist, failed) /\ Exact(sidecar, hist, failed)
      /\ get[d] \in Gets /\ get[d].times \in Times
  BY GetStands, GetFields
<1>2. g.times = times
  BY <1>1 DEF Gets
<1>3. \A u \in Versions : times[u] = IF u = v THEN stamp ELSE get[d].times[u]
  BY <1>1 DEF Times
<1>4. get' = [get EXCEPT ![d] = g]
  BY DEF GetGoto
<1> HIDE DEF g, times
<1>5. Exact(times, hist', failed')
  BY <1>1, <1>3 DEF Exact, Contains
<1>6. Exact(sidecar', hist', failed')
  BY <1>1, SameGrown, Unmoved
<1> QED BY <1>2, <1>4, <1>5, <1>6, GetStepHides

LEMMA GateProbeHides ==
  ASSUME TypeOK, HidesInv, NEW d \in Getters, GateProbe(d)
  PROVE  HidesInv'
<1> DEFINE v == get[d].ver
           r == [get[d] EXCEPT !.pc = "save", !.times[get[d].ver] = Stamp(get[d].ver)]
<1>1. /\ GetAt(d, "probe") /\ UNCHANGED <<hist, failed, window, sidecar, memo, jobVars>>
      /\ Reply(d, 404) \/ (~Absent(v) /\ GetGoto(d, r))
  BY DEF GateProbe, envVars
<1>2. Exact(sidecar', hist', failed')
  BY <1>1, GetStands
<1>3. CASE Reply(d, 404)
  BY <1>1, <1>2, <1>3, GetForgets
<1>4. CASE ~Absent(v) /\ GetGoto(d, r)
  <2>1. Stamp(v) # NoStamp
    BY FirstSeenSome
  <2>2. v \in 1..Len(hist) /\ (hist[v].kind = "dated" => Stamp(v).ts = hist[v].at)
    BY <1>4 DEF Absent, Published, Stamp
  <2> QED BY <1>1, <1>4, <2>1, <2>2, GateLearnHides
<1> QED BY <1>1, <1>3, <1>4

LEMMA GateProbeFailsHides ==
  ASSUME TypeOK, HidesInv, NEW d \in Getters, GateProbeFails(d)
  PROVE  HidesInv'
<1>1. /\ GetAt(d, "probe") /\ failed' = failed \cup {get[d].ver}
      /\ GetGoto(d, [get[d] EXCEPT !.pc = "save", !.times[get[d].ver] = FirstSeen])
      /\ UNCHANGED <<hist, window, sidecar, memo, jobVars>>
  BY DEF GateProbeFails
<1>2. failed \subseteq failed' /\ get[d].ver \in failed'
  BY <1>1
<1> QED BY <1>1, <1>2, FirstSeenSome, GateLearnHides

LEMMA GateSaveHides ==
  ASSUME TypeOK, HidesInv, NEW d \in Getters, GateSave(d) \/ GateSaveFails(d)
  PROVE  HidesInv'
<1>1. /\ UNCHANGED <<hist, failed, window, memo, jobVars>>
      /\ sidecar' \in {get[d].times, sidecar}
      /\ Verdict(d, get[d].times[get[d].ver].ts)
  BY DEF GateSave, GateSaveFails, envVars
<1>2. Exact(sidecar', hist', failed')
  BY <1>1, GetStands
<1> QED BY <1>1, <1>2, GetForgets DEF Verdict

LEMMA FileHides ==
  ASSUME TypeOK, HidesInv, NEW d \in Getters,
         \/ ReadFile(d) \/ FetchArtifact(d) \/ StoreArtifact(d) \/ StoreFails(d)
         \/ \E status \in {500, 502, 507} : FetchFails(d, status)
  PROVE  HidesInv'
<1>1. /\ UNCHANGED <<hist, failed, window, sidecar, memo, jobVars>>
      /\ \/ \E status : Reply(d, status)
         \/ GetGoto(d, [get[d] EXCEPT !.pc = "fetch"])
         \/ GetGoto(d, [get[d] EXCEPT !.pc = "store"])
  BY DEF ReadFile, FetchArtifact, StoreArtifact, StoreFails, FetchFails, envVars
<1>2. CASE \E status : Reply(d, status)
  <2>1. Exact(sidecar', hist', failed')
    BY <1>1, GetStands
  <2> QED BY <1>1, <1>2, <2>1, GetForgets
<1> QED BY <1>1, <1>2, GetMoves

LEMMA HangUpHides ==
  ASSUME TypeOK, HidesInv, NEW d \in Getters, HangUp(d)
  PROVE  HidesInv'
<1>1. /\ UNCHANGED <<hist, failed, window, memo, jobVars>>
      /\ sidecar' \in {get[d].times, sidecar} /\ GetGoto(d, NoGet)
  BY DEF HangUp
<1>2. Exact(sidecar', hist', failed')
  BY <1>1, GetStands
<1> QED BY <1>1, <1>2, GetForgets

LEMMA WorldHides ==
  ASSUME TypeOK, HidesInv, Grown(hist, failed, hist', failed'),
         sidecar' \in {sidecar, NoTimes}, memo' \in {memo, NoMemo},
         UNCHANGED <<window, jobVars, getVars>>
  PROVE  HidesInv'
<1>1. UNCHANGED <<window, job, page, get>>
  BY DEF jobVars, getVars
<1>2. Exact(sidecar', hist', failed')
  BY Unmoved, BlankHides
<1>3. Complete(memo'.rev, memo'.bkt, memo'.lines, hist', failed')
  <2>1. Complete(NoMemo.rev, NoMemo.bkt, NoMemo.lines, hist', failed')
    BY DEF Complete, NoMemo, Grown
  <2> QED BY <2>1, Unmoved
<1>4. ASSUME NEW c \in Resolvers
      PROVE  JobKnows(job'[c], hist', failed') /\ PageComplete(page'[c], hist', failed', window')
  BY <1>1, Unmoved
<1>5. ASSUME NEW d \in Getters PROVE Exact(get'[d].times, hist', failed')
  BY <1>1, Unmoved
<1> QED BY <1>2, <1>3, <1>4, <1>5 DEF HidesInv

LEMMA PublishHides ==
  ASSUME TypeOK, HidesInv, NEW kind \in Kinds, Publish(kind)
  PROVE  HidesInv'
<1> DEFINE e == [at |-> now, kind |-> kind]
           Item == [at : Nat, kind : AllKinds]
<1>1. /\ hist' = Append(hist, e)
      /\ UNCHANGED <<failed, window, sidecar, memo, jobVars, getVars>>
  BY DEF Publish
<1>2. e \in Item /\ hist \in Seq(Item)
  BY CutoffType DEF TypeOK
<1>3. /\ Len(hist) \in Nat /\ Len(hist') = Len(hist) + 1
      /\ \A v \in 1..Len(hist) : hist'[v] = hist[v]
  <2> HIDE DEF e, Item
  <2> QED BY <1>1, <1>2, AppendProperties, LenProperties
<1>4. Grown(hist, failed, hist', failed')
  BY <1>1, <1>3 DEF Grown
<1> QED BY <1>1, <1>4, WorldHides

LEMMA RestartHides ==
  ASSUME TypeOK, HidesInv, NEW w \in Windows, Restart(w)
  PROVE  HidesInv'
<1>1. UNCHANGED <<hist, failed, sidecar>>
  BY DEF Restart
<1>2. Exact(sidecar', hist', failed') /\ Len(hist') \in Nat
  BY <1>1, JobStands, LenProperties DEF HidesInv, TypeOK
<1>3. Complete(memo'.rev, memo'.bkt, memo'.lines, hist', failed')
  BY <1>2 DEF Complete, Restart, NoMemo
<1>4. ASSUME NEW c \in Resolvers
      PROVE  JobKnows(job'[c], hist', failed') /\ PageComplete(page'[c], hist', failed', window')
  <2>1. job'[c] = NoJob /\ page'[c] = NoPage
    BY DEF Restart
  <2>2. JobKnows(NoJob, hist', failed')
    BY <1>2, BlankHides DEF JobKnows, NoJob
  <2> QED BY <2>1, <2>2, BlankHides
<1>5. ASSUME NEW d \in Getters PROVE Exact(get'[d].times, hist', failed')
  <2>1. get'[d].times = NoTimes
    BY DEF Restart, NoGet
  <2> QED BY <2>1, BlankHides
<1> QED BY <1>2, <1>3, <1>4, <1>5 DEF HidesInv

LEMMA CleanupHides ==
  ASSUME TypeOK, HidesInv,
         \/ Tick \/ EvictMemo \/ PurgeAll \/ (\E v \in Versions : PurgeArtifact(v))
         \/ UNCHANGED vars
  PROVE  HidesInv'
<1>1. /\ UNCHANGED <<hist, failed, window, jobVars, getVars>>
      /\ sidecar' \in {sidecar, NoTimes} /\ memo' \in {memo, NoMemo}
  BY DEF Tick, EvictMemo, PurgeAll, PurgeArtifact, vars, envVars
<1> QED BY <1>1, SameGrown, WorldHides

LEMMA InitHides == Init => HidesInv
<1> SUFFICES ASSUME Init PROVE HidesInv
  OBVIOUS
<1>1. Exact(sidecar, hist, failed) /\ Len(hist) = 0
  BY DEF Init, Exact, Contains, NoTimes
<1>2. Complete(memo.rev, memo.bkt, memo.lines, hist, failed)
  BY <1>1 DEF Init, Complete, NoMemo
<1>3. ASSUME NEW c \in Resolvers
      PROVE  JobKnows(job[c], hist, failed) /\ PageComplete(page[c], hist, failed, window)
  BY <1>1 DEF Init, JobKnows, NoJob, PageComplete, NoPage, Exact, Contains, NoTimes
<1>4. ASSUME NEW d \in Getters PROVE Exact(get[d].times, hist, failed)
  BY DEF Init, NoGet, Exact, Contains, NoTimes
<1> QED BY <1>1, <1>2, <1>3, <1>4 DEF HidesInv

LEMMA NextHides == TypeOK /\ HidesInv /\ [Next]_vars => HidesInv'
<1> SUFFICES ASSUME TypeOK, HidesInv, [Next]_vars PROVE HidesInv'
  OBVIOUS
<1>1. ASSUME NEW c \in Resolvers, Resolve(c) PROVE HidesInv'
  BY <1>1, MetadataOkHides, LoadHides, ProbeHides, ProbeFailsHides, SaveHides, DoneHides,
     DisconnectHides DEF Resolve
<1>2. ASSUME NEW d \in Getters, Download(d) PROVE HidesInv'
  BY <1>2, ServeArtifactHides, GateLoadHides, GateProbeHides, GateProbeFailsHides,
     GateSaveHides, FileHides, HangUpHides DEF Download
<1>3. ASSUME NEW kind \in Kinds, Publish(kind) PROVE HidesInv'
  BY <1>3, PublishHides
<1>4. ASSUME NEW w \in Windows, Restart(w) PROVE HidesInv'
  BY <1>4, RestartHides
<1> QED BY <1>1, <1>2, <1>3, <1>4, CleanupHides DEF Next

(* metadata_ok and filter_pipeline: a dated version no probe of which has  *)
(* failed is listed once it has aged, however saves overwrite each other,  *)
(* whatever was memoized, purged or restarted, and whatever is downloaded. *)
THEOREM HidesOnlyYoungHolds == Spec => []HidesOnlyYoung
<1>1. HidesInv => HidesOnlyYoung
  BY DEF HidesInv, PageComplete, Complete, HidesOnlyYoung
<1> QED BY <1>1, InitTyped, NextTyped, InitHides, NextHides, PTL DEF Spec
=============================================================================
