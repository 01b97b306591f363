--------------------------- MODULE Crates_proofs ---------------------------
(***************************************************************************)
(* Proofs about crates-proxy, for every set of clients and windows, every  *)
(* TTL and bucket length, and every bound: first CratesIndex, then         *)
(* CratesDownload, whose steps are those of the index and its own.         *)
(***************************************************************************)
EXTENDS CratesDownload, SequenceTheorems, TLAPS

USE BucketAssumption, IndexAssumption

(* The cutoff is absent or a time, and its bucket a natural number.        *)
LEMMA CutoffType ==
  ASSUME NEW t \in Nat, NEW w \in Nat
  PROVE  /\ CutoffFrom(t, w) \in Nat \cup {Unfiltered}
         /\ w = 0 <=> CutoffFrom(t, w) = Unfiltered
  BY DEF CutoffFrom, Unfiltered

LEMMA BucketType ==
  ASSUME NEW cut \in Nat
  PROVE  Bucket(cut) \in Nat
  BY DEF Bucket

LEMMA MarkerType ==
  ASSUME NEW t \in Nat, NEW w \in Nat
  PROVE  MarkerAt(CutoffFrom(t, w), w) \in Markers
<1>1. CASE CutoffFrom(t, w) = Unfiltered
  BY <1>1 DEF MarkerAt, NoMarker, Markers
<1>2. CASE CutoffFrom(t, w) \in Nat
  BY <1>2, BucketType DEF MarkerAt, NoMarker, Markers, Unfiltered
<1> QED BY <1>1, <1>2, CutoffType
-----------------------------------------------------------------------------
(* Type correctness: what each way of ending a step leaves behind.         *)

LEMMA NoRequestType == NoRequest \in Requests
  BY DEF NoRequest, Requests, Pcs, NoEntry, Entries, Troubles

LEMMA ServeMarkerType ==
  ASSUME TypeOK
  PROVE  ServeMarker \in Markers /\ window \in Nat /\ now \in Nat
  BY MarkerType DEF TypeOK, ServeMarker, Cutoff

LEMMA GotoType ==
  ASSUME TypeOK, NEW c \in Clients, NEW r \in Requests, Goto(c, r)
  PROVE  req' \in [Clients -> Requests]
  BY DEF TypeOK, Goto

LEMMA AnswerType ==
  ASSUME TypeOK, NEW c \in Clients, NEW status \in Statuses, Answer(c, status)
  PROVE  /\ req' \in [Clients -> Requests]
         /\ resp' \in [Clients -> Answers]
  BY NoRequestType DEF TypeOK, Answer, Requests, Answers

LEMMA ServedType ==
  ASSUME NEW e \in Entries, NEW m \in Markers, NEW rev \in Nat, NEW lines \in SUBSET Nat
  PROVE  Served(e, m, rev, lines) \in Copies
  BY DEF Served, Label, Copies, Entries, Markers, NoMarker

(* The variables a client sees, after a step of the ladder.                *)
ClientsTyped ==
  /\ req' \in [Clients -> Requests]
  /\ copy' \in [Clients -> Copies]
  /\ resp' \in [Clients -> Answers]

LEMMA GotoClientsTyped ==
  ASSUME TypeOK, NEW c \in Clients, NEW r \in Requests, Goto(c, r), UNCHANGED clientVars
  PROVE  ClientsTyped
  BY GotoType DEF ClientsTyped, clientVars, TypeOK

LEMMA RefuseClientsTyped ==
  ASSUME TypeOK, NEW c \in Clients, NEW status \in Statuses, Refuse(c, status)
  PROVE  ClientsTyped
<1>1. Answer(c, status) /\ UNCHANGED copy
  BY DEF Refuse
<1> QED BY <1>1, AnswerType DEF ClientsTyped, TypeOK

LEMMA OkClientsTyped ==
  ASSUME TypeOK, NEW c \in Clients, NEW e \in Entries, NEW m \in Markers,
         NEW rev \in Nat, NEW lines \in SUBSET Nat, Ok(c, e, m, rev, lines)
  PROVE  ClientsTyped
<1>1. Answer(c, 200) /\ copy' = [copy EXCEPT ![c] = Served(e, m, rev, lines)]
  BY DEF Ok
<1>2. 200 \in Statuses
  BY DEF Statuses
<1>3. copy' \in [Clients -> Copies]
  BY <1>1, ServedType DEF TypeOK
<1> QED BY <1>1, <1>2, <1>3, AnswerType DEF ClientsTyped

LEMMA NotModifiedClientsTyped ==
  ASSUME TypeOK, NEW c \in Clients, NEW e \in Entries, NotModified(c, e)
  PROVE  ClientsTyped
<1>1. Answer(c, 304) /\ 304 \in Statuses
  BY DEF NotModified, Statuses
<1>2. Served(e, ServeMarker, copy[c].rev, copy[c].lines) \in Copies
  BY ServedType, ServeMarkerType DEF TypeOK, Copies
<1>3. copy' \in [Clients -> Copies]
  BY <1>2 DEF NotModified, TypeOK
<1> QED BY <1>1, <1>3, AnswerType DEF ClientsTyped

LEMMA MemoHitClientsTyped ==
  ASSUME TypeOK, NEW c \in Clients, NEW e \in Entries, MemoHit(c, e)
  PROVE  ClientsTyped
<1>1. ServeMarker \in Markers
  BY ServeMarkerType
<1>2. memo.rev \in Nat /\ memo.lines \in SUBSET Nat
  BY DEF TypeOK
<1>3. Ok(c, e, ServeMarker, memo.rev, memo.lines)
  BY DEF MemoHit
<1> QED BY <1>1, <1>2, <1>3, OkClientsTyped
-----------------------------------------------------------------------------
(* Type correctness, one action at a time. The steps of a request leave    *)
(* the clock, upstream and the window alone; what is left to show is that  *)
(* the caches and the request's locals stay typed.                         *)

LEMMA HarvestType ==
  ASSUME TypeOK, hist # <<>>, NEW e \in Entries
  PROVE  Harvest(e) \in Entries /\ Current \in Nat
<1>1. Current \in Nat /\ Current \in 1..Len(hist)
  BY DEF TypeOK, Current
<1>2. hist[Current].at \in Nat /\ now \in Nat
  <2>1. hist \in Seq([at : Nat, dated : BOOLEAN]) /\ now \in Nat
    BY DEF TypeOK
  <2>2. hist[Current] \in [at : Nat, dated : BOOLEAN]
    BY <1>1, <2>1, ElementOfSeq
  <2> QED BY <2>1, <2>2
<1>3. e.etag \in Nat /\ e.mtime \in Nat
  BY DEF Entries
<1>4. Harvest(e).etag \in Nat /\ Harvest(e).mtime \in Nat /\ Harvest(e).atime \in Nat
  BY <1>1, <1>2, <1>3 DEF Harvest
<1>5. Harvest(e) = [etag |-> Harvest(e).etag, mtime |-> Harvest(e).mtime,
                    atime |-> Harvest(e).atime]
  BY DEF Harvest
<1> QED BY <1>1, <1>4, <1>5 DEF Entries

LEMMA FaultType ==
  ASSUME TypeOK, Fault
  PROVE  faults' \in Nat
<1>1. faults \in Nat
  BY DEF TypeOK
<1> QED BY <1>1 DEF Fault

LEMMA LookupTyped ==
  ASSUME TypeOK, NEW c \in Clients, Lookup(c)
  PROVE  TypeOK'
<1>1. meta \in Entries /\ req[c] \in Requests
  BY DEF TypeOK
<1>2. ClientsTyped
  <2>1. CASE Goto(c, [req[c] EXCEPT !.pc = "find"]) /\ UNCHANGED clientVars
    <3>1. [req[c] EXCEPT !.pc = "find"] \in Requests
      BY <1>1 DEF Requests, Pcs
    <3> QED BY <2>1, <3>1, GotoClientsTyped
  <2>2. CASE Goto(c, [req[c] EXCEPT !.pc = "fetch", !.entry = meta]) /\ UNCHANGED clientVars
    <3>1. [req[c] EXCEPT !.pc = "fetch", !.entry = meta] \in Requests
      BY <1>1 DEF Requests, Pcs
    <3> QED BY <2>2, <3>1, GotoClientsTyped
  <2>3. CASE Goto(c, [req[c] EXCEPT !.pc = "read", !.entry = meta]) /\ UNCHANGED clientVars
    <3>1. [req[c] EXCEPT !.pc = "read", !.entry = meta] \in Requests
      BY <1>1 DEF Requests, Pcs
    <3> QED BY <2>3, <3>1, GotoClientsTyped
  <2>4. CASE NotModified(c, meta)
    BY <1>1, <2>4, NotModifiedClientsTyped
  <2>5. CASE MemoHit(c, meta)
    BY <1>1, <2>5, MemoHitClientsTyped
  <2> QED BY <2>1, <2>2, <2>3, <2>4, <2>5 DEF Lookup
<1>3. UNCHANGED <<envVars, sharedVars>>
  BY DEF Lookup
<1> QED BY <1>2, <1>3 DEF TypeOK, ClientsTyped, envVars, sharedVars

LEMMA RenderTyped ==
  ASSUME TypeOK, NEW c \in Clients, Render(c) \/ FilterDone(c)
  PROVE  TypeOK'
<1>1. /\ req[c] \in Requests /\ req[c].entry \in Entries
      /\ req[c].data \in Nat /\ req[c].cut \in Nat
  BY DEF TypeOK, Requests
<1>2. Cutoff \in Nat \cup {Unfiltered} /\ window \in Nat /\ now \in Nat
  BY CutoffType DEF TypeOK, Cutoff
<1>3. CASE Render(c)
  <2>1. ClientsTyped
    <3>1. CASE Ok(c, req[c].entry, NoMarker, req[c].data, 1..req[c].data)
      <4>1. NoMarker \in Markers /\ 1..req[c].data \in SUBSET Nat
        BY <1>1 DEF NoMarker, Markers
      <4> QED BY <1>1, <3>1, <4>1, OkClientsTyped
    <3>2. CASE MemoHit(c, req[c].entry)
      BY <1>1, <3>2, MemoHitClientsTyped
    <3>3. CASE /\ Cutoff # Unfiltered /\ UNCHANGED clientVars
               /\ Goto(c, [req[c] EXCEPT !.pc = "filter", !.cut = Cutoff])
      <4>1. [req[c] EXCEPT !.pc = "filter", !.cut = Cutoff] \in Requests
        BY <1>1, <1>2, <3>3 DEF Requests, Pcs
      <4> QED BY <3>3, <4>1, GotoClientsTyped
    <3> QED BY <1>3, <3>1, <3>2, <3>3 DEF Render
  <2>2. UNCHANGED <<envVars, sharedVars>>
    BY <1>3 DEF Render
  <2> QED BY <2>1, <2>2 DEF TypeOK, ClientsTyped, envVars, sharedVars
<1>4. CASE FilterDone(c)
  <2> DEFINE body == FilterIndex(hist, req[c].data, req[c].cut)
  <2>1. body \in SUBSET Nat
    BY <1>1 DEF FilterIndex
  <2>2. CapturedMarker(c) \in Markers /\ Bucket(req[c].cut) \in Nat
    BY <1>1, <1>2, BucketType DEF CapturedMarker, MarkerAt, Markers, NoMarker
  <2>3. Ok(c, req[c].entry, CapturedMarker(c), req[c].data, body)
    BY <1>4 DEF FilterDone
  <2>4. ClientsTyped
    BY <1>1, <2>1, <2>2, <2>3, OkClientsTyped
  <2>5. Validator(req[c].entry) \in Nat \X Nat
    BY <1>1 DEF Validator, Entries
  <2>6. \/ memo' = memo
        \/ memo' = [val |-> Validator(req[c].entry), bkt |-> Bucket(req[c].cut),
                    rev |-> req[c].data, lines |-> body]
    BY <1>4 DEF FilterDone
  <2>7. memo' \in [val : Nat \X Nat, bkt : Nat, rev : Nat, lines : SUBSET Nat]
    BY <1>1, <2>1, <2>2, <2>5, <2>6 DEF TypeOK
  <2>8. UNCHANGED <<envVars, disk, meta>>
    BY <1>4 DEF FilterDone
  <2> QED BY <2>4, <2>7, <2>8 DEF TypeOK, ClientsTyped, envVars
<1> QED BY <1>3, <1>4
LEMMA FetchTyped ==
  ASSUME TypeOK, NEW c \in Clients,
         \/ Begin(c) \/ ReadFresh(c) \/ FindMtime(c) \/ Fetch(c) \/ FetchUnknown(c)
         \/ \E trouble \in Troubles : FetchFails(c, trouble)
  PROVE  TypeOK'
<1>1. /\ req[c] \in Requests /\ req[c].entry \in Entries /\ NoEntry \in Entries
      /\ disk.rev \in Nat /\ disk.mtime \in Nat /\ FileEntry \in Entries
  BY DEF TypeOK, Requests, Entries, NoEntry, FileEntry
<1>2. CASE Begin(c)
  <2> DEFINE mine == IF copy[c].etag # 0 THEN [NoEntry EXCEPT !.etag = copy[c].etag]
                                         ELSE [NoEntry EXCEPT !.mtime = copy[c].mtime]
             r == [NoRequest EXCEPT !.pc = "lookup", !.asked = now, !.mine = mine,
                                    !.ok = WindowOk(c)]
  <2>1. mine \in Entries
    BY <1>1 DEF TypeOK, Copies, Entries, NoEntry
  <2>2. WindowOk(c) \in BOOLEAN
    BY DEF WindowOk
  <2>3. r \in Requests
    BY <2>1, <2>2, NoRequestType DEF TypeOK, Requests, Pcs
  <2>4. Goto(c, r) /\ UNCHANGED <<envVars, sharedVars, copy>>
    BY <1>2 DEF Begin
  <2>5. resp' \in [Clients -> Answers]
    BY <1>2 DEF Begin, TypeOK, Answers, NoAnswer, Statuses
  <2> HIDE DEF r
  <2> QED BY <2>3, <2>4, <2>5, GotoType DEF TypeOK, envVars, sharedVars
<1>3. CASE ReadFresh(c)
  <2>1. [req[c] EXCEPT !.pc = "render", !.data = disk.rev] \in Requests
    BY <1>1 DEF Requests, Pcs
  <2>2. [req[c] EXCEPT !.pc = "find", !.entry = NoEntry] \in Requests
    BY <1>1 DEF Requests, Pcs
  <2>3. ClientsTyped
    BY <1>3, <2>1, <2>2, GotoClientsTyped DEF ReadFresh
  <2>4. UNCHANGED <<envVars, sharedVars>>
    BY <1>3 DEF ReadFresh
  <2> QED BY <2>3, <2>4 DEF TypeOK, ClientsTyped, envVars, sharedVars
<1>4. CASE FindMtime(c)
  <2>1. [req[c] EXCEPT !.pc = "fetch", !.entry = FileEntry] \in Requests
    BY <1>1 DEF Requests, Pcs
  <2>2. ClientsTyped /\ UNCHANGED <<envVars, sharedVars>>
    BY <1>4, <2>1, GotoClientsTyped DEF FindMtime
  <2> QED BY <2>2 DEF TypeOK, ClientsTyped, envVars, sharedVars
<1>5. CASE Fetch(c)
  <2>1. Harvest(req[c].entry) \in Entries /\ Current \in Nat
    BY <1>1, <1>5, HarvestType DEF Fetch
  <2>2. [req[c] EXCEPT !.pc = "store304", !.entry = Harvest(req[c].entry)] \in Requests
    BY <1>1, <2>1 DEF Requests, Pcs
  <2>3. [req[c] EXCEPT !.pc = "write", !.entry = Harvest(req[c].entry),
                       !.data = Current] \in Requests
    BY <1>1, <2>1 DEF Requests, Pcs
  <2>4. ClientsTyped
    BY <1>5, <2>2, <2>3, GotoClientsTyped DEF Fetch
  <2>5. UNCHANGED <<envVars, sharedVars>>
    BY <1>5 DEF Fetch
  <2> QED BY <2>4, <2>5 DEF TypeOK, ClientsTyped, envVars, sharedVars
<1>6. CASE FetchUnknown(c)
  <2>1. ClientsTyped /\ UNCHANGED <<envVars, sharedVars>>
    BY <1>6, RefuseClientsTyped DEF FetchUnknown, Statuses
  <2> QED BY <2>1 DEF TypeOK, ClientsTyped, envVars, sharedVars
<1>7. ASSUME NEW trouble \in Troubles, FetchFails(c, trouble)
      PROVE  TypeOK'
  <2>1. [req[c] EXCEPT !.pc = "readstale", !.entry = NoEntry,
                       !.trouble = trouble] \in Requests
    BY <1>1 DEF Requests, Pcs
  <2>2. ClientsTyped /\ UNCHANGED <<now, hist, window, sharedVars>>
    BY <1>7, <2>1, GotoClientsTyped DEF FetchFails
  <2>3. faults' \in Nat
    BY <1>7, FaultType DEF FetchFails
  <2> QED BY <2>2, <2>3 DEF TypeOK, ClientsTyped, sharedVars
<1> QED BY <1>2, <1>3, <1>4, <1>5, <1>6, <1>7
LEMMA StoreTyped ==
  ASSUME TypeOK, NEW c \in Clients,
         \/ WriteFile(c) \/ WriteFileFails(c) \/ StoreMeta200(c) \/ StoreMeta304(c)
         \/ ReadAfter304(c) \/ LostFile(c) \/ ReadStale(c) \/ FindStale(c)
  PROVE  TypeOK'
<1>1. /\ req[c] \in Requests /\ req[c].entry \in Entries /\ NoEntry \in Entries
      /\ disk.rev \in Nat /\ disk.mtime \in Nat /\ FileEntry \in Entries
      /\ req[c].data \in Nat /\ now \in Nat /\ FileTime(req[c].entry) \in Nat
  BY DEF TypeOK, Requests, Entries, NoEntry, FileEntry, FileTime
<1>2. CASE WriteFile(c) \/ WriteFileFails(c)
  <2>1. [req[c] EXCEPT !.pc = "store200"] \in Requests
    BY <1>1 DEF Requests, Pcs
  <2>2. ClientsTyped /\ UNCHANGED <<now, hist, window, meta, memo>>
    BY <1>2, <2>1, GotoClientsTyped DEF WriteFile, WriteFileFails, envVars
  <2>3. disk' \in [rev : Nat, mtime : Nat]
    <3>1. Written(c) \in [rev : Nat, mtime : Nat]
      BY <1>1 DEF Written
    <3>2. [rev |-> req[c].data, mtime |-> now] \in [rev : Nat, mtime : Nat]
      BY <1>1
    <3>3. disk \in [rev : Nat, mtime : Nat]
      BY DEF TypeOK
    <3> QED BY <1>2, <3>1, <3>2, <3>3 DEF WriteFile, WriteFileFails
  <2>4. faults' \in Nat
    <3>1. faults' = faults \/ Fault
      BY <1>2 DEF WriteFile, WriteFileFails, envVars
    <3> QED BY <3>1, FaultType DEF TypeOK
  <2> QED BY <2>2, <2>3, <2>4 DEF TypeOK, ClientsTyped
<1>3. CASE StoreMeta200(c)
  <2>1. ClientsTyped
    <3>1. [req[c] EXCEPT !.pc = "render"] \in Requests
      BY <1>1 DEF Requests, Pcs
    <3> QED BY <1>1, <1>3, <3>1, GotoClientsTyped, NotModifiedClientsTyped
            DEF StoreMeta200
  <2>2. meta' \in Entries /\ UNCHANGED <<envVars, disk, memo>>
    BY <1>1, <1>3 DEF StoreMeta200
  <2> QED BY <2>1, <2>2 DEF TypeOK, ClientsTyped, envVars
<1>4. CASE StoreMeta304(c)
  <2>1. ClientsTyped
    <3>1. [req[c] EXCEPT !.pc = "read304"] \in Requests
      BY <1>1 DEF Requests, Pcs
    <3> QED BY <1>1, <1>4, <3>1, GotoClientsTyped, NotModifiedClientsTyped,
            MemoHitClientsTyped DEF StoreMeta304
  <2>2. meta' \in Entries /\ UNCHANGED <<envVars, disk, memo>>
    BY <1>1, <1>4 DEF StoreMeta304
  <2> QED BY <2>1, <2>2 DEF TypeOK, ClientsTyped, envVars
<1>5. CASE ReadAfter304(c)
  <2>1. [req[c] EXCEPT !.pc = "render", !.data = disk.rev] \in Requests
    BY <1>1 DEF Requests, Pcs
  <2>2. [req[c] EXCEPT !.pc = "lost"] \in Requests
    BY <1>1 DEF Requests, Pcs
  <2>3. ClientsTyped
    BY <1>5, <2>1, <2>2, GotoClientsTyped DEF ReadAfter304
  <2>4. UNCHANGED <<envVars, sharedVars>>
    BY <1>5 DEF ReadAfter304
  <2> QED BY <2>3, <2>4 DEF TypeOK, ClientsTyped, envVars, sharedVars
<1>6. CASE LostFile(c)
  <2>1. ClientsTyped
    BY <1>6, RefuseClientsTyped DEF LostFile, Statuses
  <2>2. meta' \in Entries /\ UNCHANGED <<envVars, disk, memo>>
    BY <1>1, <1>6 DEF LostFile
  <2> QED BY <2>1, <2>2 DEF TypeOK, ClientsTyped, envVars
<1>7. CASE ReadStale(c)
  <2>1. [req[c] EXCEPT !.pc = "findstale", !.data = disk.rev] \in Requests
    BY <1>1 DEF Requests, Pcs
  <2>2. StatusOf(req[c].trouble) \in Statuses
    BY DEF StatusOf, Statuses
  <2>3. ClientsTyped
    BY <1>7, <2>1, <2>2, GotoClientsTyped, RefuseClientsTyped DEF ReadStale
  <2>4. UNCHANGED <<envVars, sharedVars>>
    BY <1>7 DEF ReadStale
  <2> QED BY <2>3, <2>4 DEF TypeOK, ClientsTyped, envVars, sharedVars
<1>8. CASE FindStale(c)
  <2>1. [req[c] EXCEPT !.pc = "render", !.entry = FileEntry] \in Requests
    BY <1>1 DEF Requests, Pcs
  <2>2. ClientsTyped /\ UNCHANGED <<envVars, sharedVars>>
    BY <1>8, <2>1, GotoClientsTyped DEF FindStale
  <2> QED BY <2>2 DEF TypeOK, ClientsTyped, envVars, sharedVars
<1> QED BY <1>2, <1>3, <1>4, <1>5, <1>6, <1>7, <1>8

LEMMA DisconnectTyped ==
  ASSUME TypeOK, NEW c \in Clients, Disconnect(c)
  PROVE  TypeOK'
<1>1. disk' \in [rev : Nat, mtime : Nat]
  <2>1. req[c] \in Requests /\ now \in Nat /\ disk \in [rev : Nat, mtime : Nat]
    BY DEF TypeOK
  <2>2. Written(c) \in [rev : Nat, mtime : Nat]
    BY <2>1 DEF Written, FileTime, Requests, Entries
  <2> QED BY <2>1, <2>2 DEF Disconnect
<1>2. ClientsTyped
  BY NoRequestType, GotoClientsTyped DEF Disconnect
<1>3. Fault /\ UNCHANGED <<now, hist, window, meta, memo>>
  BY DEF Disconnect
<1> QED BY <1>1, <1>2, <1>3, FaultType DEF TypeOK, ClientsTyped

LEMMA EnvironmentTyped ==
  ASSUME TypeOK, Environment
  PROVE  TypeOK'
<1>1. NoEntry \in Entries
  BY DEF NoEntry, Entries
<1>2. CASE Tick
  BY <1>2 DEF Tick, TypeOK, sharedVars, clientVars
<1>3. ASSUME NEW dated \in Dating, Publish(dated)
      PROVE  TypeOK'
  <2>1. [at |-> now, dated |-> dated] \in [at : Nat, dated : BOOLEAN]
    BY DEF TypeOK
  <2>2. hist' \in Seq([at : Nat, dated : BOOLEAN])
    BY <1>3, <2>1 DEF Publish, TypeOK
  <2>3. UNCHANGED <<now, faults, window, sharedVars, req, clientVars>>
    BY <1>3 DEF Publish
  <2> QED BY <2>2, <2>3 DEF TypeOK, sharedVars, clientVars
<1>4. ASSUME NEW w \in Windows, Restart(w)
      PROVE  TypeOK'
  <2>1. Fault /\ UNCHANGED <<now, hist, disk, copy>> /\ window' \in Windows
    BY <1>4 DEF Restart
  <2>2. req' \in [Clients -> Requests]
    BY <1>4, NoRequestType DEF Restart
  <2>3. resp' \in [Clients -> Answers]
    BY <1>4 DEF Restart, NoAnswer, Answers, Statuses
  <2>4. /\ meta' \in Entries
        /\ memo' \in [val : Nat \X Nat, bkt : Nat, rev : Nat, lines : SUBSET Nat]
    BY <1>1, <1>4 DEF Restart, NoMemo, NoValidator
  <2> QED BY <2>1, <2>2, <2>3, <2>4, FaultType DEF TypeOK
<1>5. CASE WipeFile \/ EvictMeta \/ EvictMemo
  <2>1. Fault /\ UNCHANGED <<now, hist, window, req, clientVars>>
    BY <1>5 DEF WipeFile, EvictMeta, EvictMemo
  <2>2. /\ disk' \in [rev : Nat, mtime : Nat]
        /\ meta' \in Entries
        /\ memo' \in [val : Nat \X Nat, bkt : Nat, rev : Nat, lines : SUBSET Nat]
    BY <1>1, <1>5 DEF WipeFile, EvictMeta, EvictMemo, NoFile, NoMemo, NoValidator, TypeOK
  <2> QED BY <2>1, <2>2, FaultType DEF TypeOK, clientVars
<1> QED BY <1>2, <1>3, <1>4, <1>5 DEF Environment

LEMMA InitTyped == Init => TypeOK
<1> SUFFICES ASSUME Init PROVE TypeOK
  OBVIOUS
<1>1. NoEntry \in Entries /\ NoCopy \in Copies /\ NoAnswer \in Answers
  BY DEF NoEntry, Entries, NoCopy, NoMarker, Copies, Markers, NoAnswer, Answers, Statuses
<1> QED BY <1>1, NoRequestType DEF Init, TypeOK, NoFile, NoMemo, NoValidator

LEMMA NextTyped == TypeOK /\ [Next]_vars => TypeOK'
<1> SUFFICES ASSUME TypeOK, [Next]_vars PROVE TypeOK'
  OBVIOUS
<1>1. ASSUME NEW c \in Clients, Begin(c) \/ Step(c) \/ StepFails(c)
      PROVE  TypeOK'
  BY <1>1, LookupTyped, RenderTyped, FetchTyped, StoreTyped, DisconnectTyped
  DEF Step, StepFails
<1>2. CASE Environment
  BY <1>2, EnvironmentTyped
<1>3. CASE UNCHANGED vars
  BY <1>3 DEF TypeOK, vars, envVars, sharedVars, clientVars
<1> QED BY <1>1, <1>2, <1>3 DEF Next

(* Every reachable state is typed.                                         *)
THEOREM TypeCorrect == Spec => []TypeOK
  BY InitTyped, NextTyped, PTL DEF Spec
-----------------------------------------------------------------------------
(* The cooldown. First, ageing is stable: time passes and versions are     *)
(* only ever added.                                                        *)

HistType == [at : Nat, dated : BOOLEAN]

LEMMA AgedStable ==
  ASSUME NEW lines, lines \subseteq 1..Len(hist), NEW w \in Nat, Aged(lines, w),
         TypeOK, now' \in Nat, now <= now',
         \A i \in 1..Len(hist) : hist'[i] = hist[i]
  PROVE  Aged(lines, w)'
<1> SUFFICES ASSUME w > 0, NEW i \in lines, hist'[i].dated
             PROVE  hist'[i].at + w <= now'
  BY DEF Aged
<1>1. i \in 1..Len(hist) /\ hist'[i] = hist[i]
  OBVIOUS
<1>2. hist[i].at + w <= now
  BY <1>1 DEF Aged
<1>3. hist[i] \in HistType
  BY <1>1, ElementOfSeq DEF TypeOK, HistType
<1>4. hist[i].at \in Nat /\ now \in Nat
  BY <1>3 DEF TypeOK, HistType
<1> QED BY <1>1, <1>2, <1>4

(* A step that only moves a request on keeps the invariant, if the locals  *)
(* carry a known revision and it does not enter the filter.                *)
LEMMA GotoKeeps ==
  ASSUME TypeOK, CooldownInv, NEW c \in Clients, NEW r \in Requests, Goto(c, r),
         r.data <= Len(hist), r.ok => req[c].ok, r.pc # "filter",
         UNCHANGED <<now, hist, window, memo, clientVars>>, disk'.rev <= Len(hist)
  PROVE  CooldownInv'
<1>1. req' = [req EXCEPT ![c] = r] /\ req \in [Clients -> Requests]
  BY DEF Goto, TypeOK
<1>2. \A k \in Clients : \/ req'[k] = req[k]
                         \/ k = c /\ req'[k] = r
  BY <1>1
<1>3. UNCHANGED <<now, hist, window, memo, copy, resp>>
  BY DEF clientVars
<1>4. PublishedInPast' /\ MemoAged' /\ MarkersTrue' /\ CooldownHolds'
  BY <1>3 DEF CooldownInv, PublishedInPast, MemoAged, MarkersTrue, CooldownHolds,
              Answered, Aged
<1>5. KnownRevisions'
  BY <1>2, <1>3 DEF CooldownInv, KnownRevisions
<1>6. WindowOkTrue'
  BY <1>2, <1>3 DEF CooldownInv, WindowOkTrue
<1>7. CutsPast'
  BY <1>2, <1>3 DEF CooldownInv, CutsPast
<1> QED BY <1>4, <1>5, <1>6, <1>7 DEF CooldownInv

(* A step that ends a request keeps it, if the copy it leaves the client   *)
(* with is aged: by its marker, and by the window if it was an answer.     *)
Leaves(c, status, k) ==
  Answer(c, status) /\ copy' = [copy EXCEPT ![c] = k]

MarkedAged(k) ==
  /\ k.lines \subseteq 1..Len(hist)
  /\ k.marker # NoMarker => k.marker.win > 0 /\ Aged(k.lines, k.marker.win)

MemoStaysAged ==
  memo'.lines \subseteq 1..Len(hist) /\ Aged(memo'.lines, window)

LEMMA AnswerKeeps ==
  ASSUME TypeOK, CooldownInv, UNCHANGED <<now, hist, window, disk>>, MemoStaysAged,
         NEW c \in Clients, NEW status \in Statuses, NEW k \in Copies,
         Leaves(c, status, k), MarkedAged(k),
         status \in {200, 304} => Aged(k.lines, window)
  PROVE  CooldownInv'
<1> USE DEF Leaves, MarkedAged, MemoStaysAged
<1>1. /\ req' = [req EXCEPT ![c] = NoRequest] /\ req \in [Clients -> Requests]
      /\ copy \in [Clients -> Copies] /\ resp \in [Clients -> Answers]
  BY DEF Answer, TypeOK
<1>2. \A d \in Clients : \/ d # c /\ req'[d] = req[d] /\ copy'[d] = copy[d]
                                 /\ resp'[d] = resp[d]
                         \/ d = c /\ req'[d] = NoRequest /\ copy'[d] = k
                                 /\ resp'[d].status = status
  BY <1>1 DEF Answer
<1>3. PublishedInPast'
  BY DEF CooldownInv, PublishedInPast
<1>4. KnownRevisions'
  <2>1. NoRequest.data <= Len(hist)
    BY LenProperties DEF NoRequest, TypeOK
  <2> QED BY <1>2, <2>1 DEF CooldownInv, KnownRevisions
<1>5. MemoAged'
  BY DEF MemoAged, Aged
<1>6. MarkersTrue'
  BY <1>2 DEF CooldownInv, MarkersTrue, Aged
<1>7. WindowOkTrue'
  BY <1>2 DEF CooldownInv, WindowOkTrue, NoRequest
<1>8. CutsPast'
  BY <1>2 DEF CooldownInv, CutsPast, NoRequest
<1>9. CooldownHolds'
  BY <1>2 DEF CooldownInv, CooldownHolds, Answered, Aged
<1> QED BY <1>3, <1>4, <1>5, <1>6, <1>7, <1>8, <1>9 DEF CooldownInv
-----------------------------------------------------------------------------
(* The three ways a request is answered.                                   *)

LEMMA CutoffFacts ==
  ASSUME TypeOK
  PROVE  /\ now \in Nat /\ now > 0 /\ window \in Nat /\ Len(hist) \in Nat
         /\ Cutoff \in Nat \cup {Unfiltered}
         /\ window = 0 <=> Cutoff = Unfiltered
         /\ Cutoff # Unfiltered => Cutoff = 0 \/ Cutoff + window <= now
         /\ ServeMarker # NoMarker => ServeMarker.win = window /\ window > 0
         /\ window > 0 => ServeMarker # NoMarker /\ ServeMarker.win = window
<1>1. now \in Nat /\ now > 0 /\ window \in Nat /\ Len(hist) \in Nat
  <2>1. now \in Nat \ {0} /\ window \in Windows /\ hist \in Seq(HistType)
    BY DEF TypeOK, HistType
  <2> QED BY <2>1, LenProperties
<1>2. Cutoff = IF window = 0 THEN Unfiltered ELSE IF now < window THEN 0 ELSE now - window
  BY DEF Cutoff, CutoffFrom
<1>3. window = 0 => ServeMarker = NoMarker
  BY <1>2 DEF ServeMarker, MarkerAt
<1>4. window > 0 => ServeMarker = [win |-> window, bkt |-> Bucket(Cutoff)]
  BY <1>1, <1>2 DEF ServeMarker, MarkerAt, Unfiltered
<1>5. window > 0 => ServeMarker # NoMarker /\ ServeMarker.win = window
  BY <1>1, <1>4 DEF NoMarker
<1>6. window > 0 \/ window = 0
  BY <1>1
<1> QED BY <1>1, <1>2, <1>3, <1>5, <1>6 DEF Unfiltered

(* The copy a filtered or verbatim body makes is aged by its own marker.   *)
LEMMA ServedAged ==
  ASSUME TypeOK, NEW e \in Entries, NEW m \in Markers, NEW rev \in Nat,
         NEW lines, Aged(lines, window),
         m # NoMarker => m.win = window /\ window > 0
  PROVE  /\ Served(e, m, rev, lines).lines = lines
         /\ Served(e, m, rev, lines).marker # NoMarker =>
              /\ Served(e, m, rev, lines).marker.win > 0
              /\ Aged(lines, Served(e, m, rev, lines).marker.win)
<1>1. Served(e, m, rev, lines).lines = lines
  BY DEF Served
<1>2. Served(e, m, rev, lines).marker \in {m, NoMarker}
  BY DEF Served, Label
<1> QED BY <1>1, <1>2

(* Leaving a client with the copy it has, when nothing says otherwise.     *)
LEMMA MemoUntouched ==
  ASSUME CooldownInv, UNCHANGED memo
  PROVE  MemoStaysAged
  BY DEF CooldownInv, KnownRevisions, MemoAged, MemoStaysAged

LEMMA HeldAged ==
  ASSUME TypeOK, CooldownInv, NEW c \in Clients
  PROVE  copy[c] \in Copies /\ MarkedAged(copy[c])
  BY DEF TypeOK, CooldownInv, KnownRevisions, MarkersTrue, MarkedAged

LEMMA RefuseKeeps ==
  ASSUME TypeOK, CooldownInv, NEW c \in Clients, NEW status \in Statuses,
         Refuse(c, status), status \notin {200, 304},
         UNCHANGED <<now, hist, window, disk>>, MemoStaysAged
  PROVE  CooldownInv'
<1>1. Leaves(c, status, copy[c])
  BY DEF Refuse, Leaves, TypeOK
<1> QED BY <1>1, AnswerKeeps, HeldAged

LEMMA OkKeeps ==
  ASSUME TypeOK, CooldownInv, NEW c \in Clients, NEW e \in Entries, NEW m \in Markers,
         NEW rev \in Nat, NEW lines \in SUBSET Nat, Ok(c, e, m, rev, lines),
         lines \subseteq 1..Len(hist), Aged(lines, window),
         m # NoMarker => m.win = window /\ window > 0,
         UNCHANGED <<now, hist, window, disk>>, MemoStaysAged
  PROVE  CooldownInv'
<1> DEFINE k == Served(e, m, rev, lines)
<1>1. k \in Copies
  BY ServedType
<1>2. MarkedAged(k) /\ Aged(k.lines, window)
  <2>1. k.lines = lines /\ (k.marker # NoMarker => k.marker.win > 0
                                                   /\ Aged(lines, k.marker.win))
    BY ServedAged
  <2> HIDE DEF k
  <2> QED BY <2>1 DEF MarkedAged
<1>3. Leaves(c, 200, k) /\ 200 \in Statuses
  BY DEF Ok, Leaves, Statuses
<1> HIDE DEF k
<1> QED BY <1>1, <1>2, <1>3, AnswerKeeps

LEMMA MemoHitKeeps ==
  ASSUME TypeOK, CooldownInv, NEW c \in Clients, NEW e \in Entries, MemoHit(c, e),
         UNCHANGED <<now, hist, window, disk, memo>>
  PROVE  CooldownInv'
<1>1. /\ memo.lines \subseteq 1..Len(hist) /\ Aged(memo.lines, window)
      /\ memo.rev \in Nat /\ memo.lines \in SUBSET Nat
  BY DEF CooldownInv, KnownRevisions, MemoAged, TypeOK
<1>2. ServeMarker \in Markers
  BY ServeMarkerType
<1>3. Ok(c, e, ServeMarker, memo.rev, memo.lines) /\ MemoStaysAged
  BY MemoUntouched DEF MemoHit
<1> QED BY <1>1, <1>2, <1>3, OkKeeps, CutoffFacts

(* A 304 confirms the client's copy only where its marker's window is the  *)
(* running one, so the copy is aged; relabelling keeps it so.              *)
LEMMA NotModifiedKeeps ==
  ASSUME TypeOK, CooldownInv, NEW c \in Clients, NEW e \in Entries,
         MayNotModify(c, e), NotModified(c, e),
         UNCHANGED <<now, hist, window, disk, memo>>
  PROVE  CooldownInv'
<1>1. Aged(copy[c].lines, window)
  <2>1. CASE window > 0
    BY <2>1 DEF MayNotModify, CooldownInv, WindowOkTrue, MarkersTrue
  <2>2. CASE ~(window > 0)
    BY <2>2 DEF Aged
  <2> QED BY <2>1, <2>2
<1>2. copy[c] \in Copies /\ MarkedAged(copy[c]) /\ MemoStaysAged /\ 304 \in Statuses
  BY HeldAged, MemoUntouched DEF Statuses
<1>3. CASE RelabelsOn304
  <2> DEFINE k == Served(e, ServeMarker, copy[c].rev, copy[c].lines)
  <2>1. copy[c].rev \in Nat /\ copy[c].lines \in SUBSET Nat /\ ServeMarker \in Markers
    BY <1>2, ServeMarkerType DEF Copies
  <2>2. k \in Copies
    BY <2>1, ServedType
  <2>3. MarkedAged(k) /\ Aged(k.lines, window)
    <3>1. ServeMarker # NoMarker => ServeMarker.win = window /\ window > 0
      BY CutoffFacts
    <3>2. k.lines = copy[c].lines
          /\ (k.marker # NoMarker => k.marker.win > 0
                                     /\ Aged(copy[c].lines, k.marker.win))
      BY <1>1, <2>1, <3>1, ServedAged
    <3> HIDE DEF k
    <3> QED BY <1>1, <1>2, <3>2 DEF MarkedAged
  <2>4. Leaves(c, 304, k)
    BY <1>3 DEF NotModified, Leaves
  <2> HIDE DEF k
  <2> QED BY <1>2, <2>2, <2>3, <2>4, AnswerKeeps
<1>4. CASE ~RelabelsOn304
  <2>1. Leaves(c, 304, copy[c])
    BY <1>4 DEF NotModified, TypeOK, Leaves
  <2> QED BY <1>1, <1>2, <2>1, AnswerKeeps
<1> QED BY <1>3, <1>4
-----------------------------------------------------------------------------
(* One lemma per group of handler steps.                                   *)

LEMMA RequestFacts ==
  ASSUME TypeOK, CooldownInv, NEW c \in Clients
  PROVE  /\ req[c] \in Requests /\ req[c].data <= Len(hist) /\ disk.rev <= Len(hist)
         /\ req[c].data \in Nat /\ disk.rev \in Nat /\ req[c].entry \in Entries
         /\ meta \in Entries /\ Len(hist) \in Nat
<1>1. req[c] \in Requests /\ disk \in [rev : Nat, mtime : Nat] /\ meta \in Entries
  BY DEF TypeOK
<1>2. req[c].data \in Nat /\ req[c].entry \in Entries /\ disk.rev \in Nat
  BY <1>1 DEF Requests
<1>3. req[c].data <= Len(hist) /\ disk.rev <= Len(hist)
  BY DEF CooldownInv, KnownRevisions
<1> QED BY <1>1, <1>2, <1>3, CutoffFacts

(* A request that arrives may only be told 304 under the running window.   *)
LEMMA BeginKeeps ==
  ASSUME TypeOK, CooldownInv, NEW c \in Clients, Begin(c)
  PROVE  CooldownInv'
<1>1. PICK mine \in Entries :
        req' = [req EXCEPT ![c] = [NoRequest EXCEPT !.pc = "lookup", !.asked = now,
                                     !.mine = mine, !.ok = WindowOk(c)]]
  <2>1. copy[c] \in Copies
    BY DEF TypeOK
  <2>2. [NoEntry EXCEPT !.etag = copy[c].etag] \in Entries
        /\ [NoEntry EXCEPT !.mtime = copy[c].mtime] \in Entries
    BY <2>1 DEF Copies, NoEntry, Entries
  <2> QED BY <2>2 DEF Begin, Goto
<1>2. /\ req \in [Clients -> Requests] /\ resp \in [Clients -> Answers]
      /\ resp' = [resp EXCEPT ![c] = NoAnswer]
      /\ UNCHANGED <<now, hist, window, disk, memo, copy>>
  BY DEF Begin, TypeOK, envVars, sharedVars
<1>3. \A d \in Clients :
        \/ d # c /\ req'[d] = req[d] /\ resp'[d] = resp[d]
        \/ d = c /\ req'[d].pc = "lookup" /\ req'[d].data = 0
                 /\ req'[d].ok = WindowOk(c) /\ resp'[d].status = 0
  BY <1>1, <1>2 DEF NoRequest, NoAnswer
<1>4. PublishedInPast' /\ MemoAged' /\ MarkersTrue'
  BY <1>2 DEF CooldownInv, PublishedInPast, MemoAged, MarkersTrue, Aged
<1>5. KnownRevisions'
  <2>1. 0 <= Len(hist)
    BY CutoffFacts
  <2> QED BY <1>2, <1>3, <2>1 DEF CooldownInv, KnownRevisions
<1>6. WindowOkTrue'
  <2>1. WindowOk(c) /\ window > 0 => copy[c].marker # NoMarker
                                     /\ copy[c].marker.win = window
    BY CutoffFacts DEF WindowOk
  <2> QED BY <1>2, <1>3, <2>1 DEF CooldownInv, WindowOkTrue
<1>7. CutsPast'
  BY <1>2, <1>3 DEF CooldownInv, CutsPast
<1>8. CooldownHolds'
  BY <1>2, <1>3 DEF CooldownInv, CooldownHolds, Answered, Aged
<1> QED BY <1>4, <1>5, <1>6, <1>7, <1>8 DEF CooldownInv

LEMMA LookupKeeps ==
  ASSUME TypeOK, CooldownInv, NEW c \in Clients, Lookup(c)
  PROVE  CooldownInv'
<1>1. UNCHANGED <<now, hist, window, disk, memo>> /\ disk'.rev <= Len(hist)
  BY RequestFacts DEF Lookup, envVars, sharedVars
<1>2. ASSUME NEW r \in Requests, Goto(c, r), UNCHANGED clientVars,
             r.data = req[c].data, r.ok = req[c].ok, r.pc # "filter"
      PROVE  CooldownInv'
  BY <1>1, <1>2, RequestFacts, GotoKeeps
<1>3. /\ [req[c] EXCEPT !.pc = "find"] \in Requests
      /\ [req[c] EXCEPT !.pc = "fetch", !.entry = meta] \in Requests
      /\ [req[c] EXCEPT !.pc = "read", !.entry = meta] \in Requests
  BY RequestFacts DEF Requests, Pcs
<1>4. CASE Goto(c, [req[c] EXCEPT !.pc = "find"]) /\ UNCHANGED clientVars
  BY <1>2, <1>3, <1>4, RequestFacts DEF Requests
<1>5. CASE Goto(c, [req[c] EXCEPT !.pc = "fetch", !.entry = meta]) /\ UNCHANGED clientVars
  BY <1>2, <1>3, <1>5, RequestFacts DEF Requests
<1>6. CASE Goto(c, [req[c] EXCEPT !.pc = "read", !.entry = meta]) /\ UNCHANGED clientVars
  BY <1>2, <1>3, <1>6, RequestFacts DEF Requests
<1>7. CASE MayNotModify(c, meta) /\ NotModified(c, meta)
  BY <1>1, <1>7, RequestFacts, NotModifiedKeeps
<1>8. CASE MemoHit(c, meta)
  BY <1>1, <1>8, RequestFacts, MemoHitKeeps
<1> QED BY <1>4, <1>5, <1>6, <1>7, <1>8 DEF Lookup

(* Steps that only pick up a file, an entry or a revision.                 *)
LEMMA PickUpKeeps ==
  ASSUME TypeOK, CooldownInv, NEW c \in Clients,
         ReadFresh(c) \/ FindMtime(c) \/ ReadAfter304(c) \/ FindStale(c)
  PROVE  CooldownInv'
<1>1. UNCHANGED <<now, hist, window, disk, memo, clientVars>> /\ disk'.rev <= Len(hist)
  BY RequestFacts DEF ReadFresh, FindMtime, ReadAfter304, FindStale, envVars, sharedVars
<1>2. ASSUME NEW r \in Requests, Goto(c, r),
             r.data \in {req[c].data, disk.rev}, r.ok = req[c].ok, r.pc # "filter"
      PROVE  CooldownInv'
  BY <1>1, <1>2, RequestFacts, GotoKeeps
<1>3. FileEntry \in Entries /\ NoEntry \in Entries /\ req[c] \in Requests /\ disk.rev \in Nat
  BY RequestFacts DEF FileEntry, NoEntry, Entries, TypeOK
<1>4. /\ [req[c] EXCEPT !.pc = "render", !.data = disk.rev] \in Requests
      /\ [req[c] EXCEPT !.pc = "find", !.entry = NoEntry] \in Requests
      /\ [req[c] EXCEPT !.pc = "lost"] \in Requests
      /\ [req[c] EXCEPT !.pc = "fetch", !.entry = FileEntry] \in Requests
      /\ [req[c] EXCEPT !.pc = "render", !.entry = FileEntry] \in Requests
  BY <1>3 DEF Requests, Pcs
<1>5. CASE Goto(c, [req[c] EXCEPT !.pc = "render", !.data = disk.rev])
  BY <1>2, <1>3, <1>4, <1>5 DEF Requests
<1>6. CASE Goto(c, [req[c] EXCEPT !.pc = "find", !.entry = NoEntry])
  BY <1>2, <1>3, <1>4, <1>6 DEF Requests
<1>7. CASE Goto(c, [req[c] EXCEPT !.pc = "lost"])
  BY <1>2, <1>3, <1>4, <1>7 DEF Requests
<1>8. CASE Goto(c, [req[c] EXCEPT !.pc = "fetch", !.entry = FileEntry])
  BY <1>2, <1>3, <1>4, <1>8 DEF Requests
<1>9. CASE Goto(c, [req[c] EXCEPT !.pc = "render", !.entry = FileEntry])
  BY <1>2, <1>3, <1>4, <1>9 DEF Requests
<1> QED BY <1>5, <1>6, <1>7, <1>8, <1>9
        DEF ReadFresh, FindMtime, ReadAfter304, FindStale

(* What upstream answers: its latest revision, or nothing new.             *)
LEMMA FetchKeeps ==
  ASSUME TypeOK, CooldownInv, NEW c \in Clients, Fetch(c) \/ FetchUnknown(c)
  PROVE  CooldownInv'
<1>1. UNCHANGED <<now, hist, window, disk, memo>> /\ disk'.rev <= Len(hist)
  BY RequestFacts DEF Fetch, FetchUnknown, envVars, sharedVars
<1>2. CASE Fetch(c)
  <2> DEFINE e == Harvest(req[c].entry)
             r304 == [req[c] EXCEPT !.pc = "store304", !.entry = e]
             r200 == [req[c] EXCEPT !.pc = "write", !.entry = e, !.data = Current]
  <2>1. e \in Entries /\ Current \in Nat /\ req[c] \in Requests
    BY <1>2, HarvestType, RequestFacts DEF Fetch, Current
  <2>2. UNCHANGED clientVars /\ (Goto(c, r304) \/ Goto(c, r200))
    BY <1>2 DEF Fetch
  <2> HIDE DEF e
  <2>3. r304 \in Requests /\ r304.data = req[c].data /\ r304.ok = req[c].ok
        /\ r304.pc = "store304"
    BY <2>1 DEF Requests, Pcs
  <2>4. r200 \in Requests /\ r200.data = Len(hist) /\ r200.ok = req[c].ok
        /\ r200.pc = "write"
    BY <2>1 DEF Requests, Pcs, Current
  <2> HIDE DEF r304, r200
  <2>5. CASE Goto(c, r304)
    BY <1>1, <2>2, <2>3, <2>5, RequestFacts, GotoKeeps
  <2>6. CASE Goto(c, r200)
    BY <1>1, <2>2, <2>4, <2>6, RequestFacts, GotoKeeps
  <2> QED BY <2>2, <2>5, <2>6
<1>3. CASE FetchUnknown(c)
  <2>1. Refuse(c, 404) /\ 404 \in Statuses /\ MemoStaysAged
    BY <1>1, <1>3, MemoUntouched DEF FetchUnknown, Statuses
  <2> QED BY <1>1, <2>1, RefuseKeeps
<1> QED BY <1>2, <1>3

LEMMA FetchFailsKeeps ==
  ASSUME TypeOK, CooldownInv, NEW c \in Clients,
         NEW trouble \in Troubles, FetchFails(c, trouble)
  PROVE  CooldownInv'
<1> DEFINE r == [req[c] EXCEPT !.pc = "readstale", !.entry = NoEntry, !.trouble = trouble]
<1>1. UNCHANGED <<now, hist, window, disk, memo, clientVars>> /\ disk'.rev <= Len(hist)
  BY RequestFacts DEF FetchFails, sharedVars
<1>2. r \in Requests /\ r.data = req[c].data /\ r.ok = req[c].ok /\ r.pc = "readstale"
  BY RequestFacts DEF Requests, Pcs, NoEntry, Entries
<1>3. Goto(c, r)
  BY DEF FetchFails
<1> HIDE DEF r
<1> QED BY <1>1, <1>2, <1>3, RequestFacts, GotoKeeps

LEMMA WriteKeeps ==
  ASSUME TypeOK, CooldownInv, NEW c \in Clients, WriteFile(c) \/ WriteFileFails(c)
  PROVE  CooldownInv'
<1> DEFINE r == [req[c] EXCEPT !.pc = "store200"]
<1>1. UNCHANGED <<now, hist, window, memo, clientVars>> /\ Goto(c, r)
  BY DEF WriteFile, WriteFileFails, envVars
<1>2. disk'.rev <= Len(hist)
  BY RequestFacts DEF WriteFile, WriteFileFails, Written
<1>3. r \in Requests /\ r.data = req[c].data /\ r.ok = req[c].ok /\ r.pc = "store200"
  BY RequestFacts DEF Requests, Pcs
<1> HIDE DEF r
<1> QED BY <1>1, <1>2, <1>3, RequestFacts, GotoKeeps

LEMMA DisconnectKeeps ==
  ASSUME TypeOK, CooldownInv, NEW c \in Clients, Disconnect(c)
  PROVE  CooldownInv'
<1>1. UNCHANGED <<now, hist, window, memo, clientVars>> /\ Goto(c, NoRequest)
  BY DEF Disconnect
<1>2. disk'.rev <= Len(hist)
  BY RequestFacts DEF Disconnect, Written
<1>3. NoRequest \in Requests /\ NoRequest.data <= Len(hist) /\ ~NoRequest.ok
      /\ NoRequest.pc # "filter"
  BY RequestFacts, NoRequestType DEF NoRequest
<1> QED BY <1>1, <1>2, <1>3, GotoKeeps

LEMMA StoreKeeps ==
  ASSUME TypeOK, CooldownInv, NEW c \in Clients, StoreMeta200(c) \/ StoreMeta304(c)
  PROVE  CooldownInv'
<1> DEFINE e == req[c].entry
           r200 == [req[c] EXCEPT !.pc = "render"]
           r304 == [req[c] EXCEPT !.pc = "read304"]
<1>1. UNCHANGED <<now, hist, window, disk, memo>> /\ disk'.rev <= Len(hist)
  BY RequestFacts DEF StoreMeta200, StoreMeta304, envVars
<1>2. r200 \in Requests /\ r200.data = req[c].data /\ r200.ok = req[c].ok
      /\ r200.pc = "render"
  BY RequestFacts DEF Requests, Pcs
<1>3. r304 \in Requests /\ r304.data = req[c].data /\ r304.ok = req[c].ok
      /\ r304.pc = "read304"
  BY RequestFacts DEF Requests, Pcs
<1>4. \/ MayNotModify(c, e) /\ NotModified(c, e)
      \/ MemoHit(c, e)
      \/ Goto(c, r200) /\ UNCHANGED clientVars
      \/ Goto(c, r304) /\ UNCHANGED clientVars
  BY DEF StoreMeta200, StoreMeta304
<1>5. e \in Entries
  BY RequestFacts
<1> HIDE DEF e, r200, r304
<1>6. CASE MayNotModify(c, e) /\ NotModified(c, e)
  BY <1>1, <1>5, <1>6, NotModifiedKeeps
<1>7. CASE MemoHit(c, e)
  BY <1>1, <1>5, <1>7, MemoHitKeeps
<1>8. CASE Goto(c, r200) /\ UNCHANGED clientVars
  BY <1>1, <1>2, <1>8, RequestFacts, GotoKeeps
<1>9. CASE Goto(c, r304) /\ UNCHANGED clientVars
  BY <1>1, <1>3, <1>9, RequestFacts, GotoKeeps
<1> QED BY <1>4, <1>6, <1>7, <1>8, <1>9

LEMMA StaleKeeps ==
  ASSUME TypeOK, CooldownInv, NEW c \in Clients, LostFile(c) \/ ReadStale(c)
  PROVE  CooldownInv'
<1> DEFINE r == [req[c] EXCEPT !.pc = "findstale", !.data = disk.rev]
<1>1. UNCHANGED <<now, hist, window, disk, memo>> /\ disk'.rev <= Len(hist)
  BY RequestFacts DEF LostFile, ReadStale, envVars, sharedVars
<1>2. r \in Requests /\ r.data = disk.rev /\ r.ok = req[c].ok /\ r.pc = "findstale"
  BY RequestFacts DEF Requests, Pcs
<1>3. MemoStaysAged
  BY <1>1, MemoUntouched
<1>4. \/ \E status \in {500, 502, 503} : Refuse(c, status)
      \/ Goto(c, r) /\ UNCHANGED clientVars
  BY DEF LostFile, ReadStale, StatusOf
<1> HIDE DEF r
<1>5. CASE \E status \in {500, 502, 503} : Refuse(c, status)
  <2>1. PICK status \in {500, 502, 503} : Refuse(c, status)
    BY <1>5
  <2>2. status \in Statuses /\ status \notin {200, 304}
    BY DEF Statuses
  <2> QED BY <1>1, <1>3, <2>1, <2>2, RefuseKeeps
<1>6. CASE Goto(c, r) /\ UNCHANGED clientVars
  BY <1>1, <1>2, <1>6, RequestFacts, GotoKeeps
<1> QED BY <1>4, <1>5, <1>6

(* A body served verbatim needs no filter: the window is 0.                *)
LEMMA RenderKeeps ==
  ASSUME TypeOK, CooldownInv, NEW c \in Clients, Render(c)
  PROVE  CooldownInv'
<1> DEFINE e == req[c].entry
           r == [req[c] EXCEPT !.pc = "filter", !.cut = Cutoff]
<1>1. UNCHANGED <<now, hist, window, disk, memo>> /\ e \in Entries /\ MemoStaysAged
  BY RequestFacts, MemoUntouched DEF Render, envVars, sharedVars
<1>2. CASE Cutoff = Unfiltered /\ Ok(c, e, NoMarker, req[c].data, 1..req[c].data)
  <2>1. window = 0 /\ req[c].data \in Nat /\ req[c].data <= Len(hist) /\ Len(hist) \in Nat
    BY <1>2, CutoffFacts, RequestFacts
  <2>2. /\ 1..req[c].data \in SUBSET Nat /\ 1..req[c].data \subseteq 1..Len(hist)
        /\ Aged(1..req[c].data, window) /\ NoMarker \in Markers
    BY <2>1 DEF Aged, NoMarker, Markers
  <2> HIDE DEF e
  <2> QED BY <1>1, <1>2, <2>1, <2>2, OkKeeps
<1>3. CASE MemoHit(c, e)
  BY <1>1, <1>3, MemoHitKeeps
<1>4. CASE Cutoff # Unfiltered /\ Goto(c, r) /\ UNCHANGED clientVars
  <2>1. window > 0 /\ (Cutoff = 0 \/ Cutoff + window <= now) /\ Cutoff \in Nat
    BY <1>4, CutoffFacts
  <2>2. r \in Requests /\ r.data = req[c].data /\ r.ok = req[c].ok /\ r.cut = Cutoff
        /\ req[c].data <= Len(hist) /\ disk.rev <= Len(hist)
    BY <2>1, RequestFacts DEF Requests, Pcs
  <2>3. req' = [req EXCEPT ![c] = r] /\ req \in [Clients -> Requests]
    BY <1>4 DEF Goto, TypeOK
  <2> HIDE DEF r
  <2>4. \A d \in Clients : req'[d] = req[d] \/ (d = c /\ req'[d] = r)
    BY <2>3
  <2>5. UNCHANGED <<now, hist, window, disk, memo, copy, resp>>
    BY <1>1, <1>4 DEF clientVars
  <2>6. PublishedInPast' /\ MemoAged' /\ MarkersTrue' /\ CooldownHolds'
    BY <2>5 DEF CooldownInv, PublishedInPast, MemoAged, MarkersTrue, CooldownHolds,
                Answered, Aged
  <2>7. KnownRevisions'
    BY <2>2, <2>4, <2>5 DEF CooldownInv, KnownRevisions
  <2>8. WindowOkTrue'
    BY <2>2, <2>4, <2>5 DEF CooldownInv, WindowOkTrue
  <2>9. CutsPast'
    BY <2>1, <2>2, <2>4, <2>5 DEF CooldownInv, CutsPast
  <2> QED BY <2>6, <2>7, <2>8, <2>9 DEF CooldownInv
<1> QED BY <1>2, <1>3, <1>4 DEF Render

(* The filter keeps no dated line younger than the cutoff it captured, and *)
(* the captured cutoff is at least a window in the past.                   *)
LEMMA FilterAged ==
  ASSUME TypeOK, CooldownInv, NEW c \in Clients, At(c, "filter")
  PROVE  LET body == FilterIndex(hist, req[c].data, req[c].cut)
         IN  body \subseteq 1..Len(hist) /\ Aged(body, window) /\ body \in SUBSET Nat
<1> DEFINE body == FilterIndex(hist, req[c].data, req[c].cut)
<1>1. req[c].data \in Nat /\ req[c].cut \in Nat /\ req[c].data <= Len(hist)
      /\ Len(hist) \in Nat
  BY RequestFacts DEF Requests
<1>2. body \subseteq 1..Len(hist) /\ body \in SUBSET Nat
  BY <1>1 DEF FilterIndex
<1>3. ASSUME NEW i \in body, hist[i].dated
      PROVE  hist[i].at + window <= now
  <2>1. i \in 1..Len(hist) /\ Passes(hist[i], req[c].cut)
    BY <1>2 DEF FilterIndex
  <2>2. hist[i].at <= req[c].cut
    BY <1>1, <1>3, <2>1 DEF Passes, Unfiltered
  <2>3. hist[i].at \in 1..now /\ now \in Nat /\ window \in Nat
    BY <2>1, CutoffFacts DEF CooldownInv, PublishedInPast
  <2>4. req[c].cut = 0 \/ req[c].cut + window <= now
    BY DEF CooldownInv, CutsPast, At
  <2> QED BY <1>1, <2>2, <2>3, <2>4
<1>4. Aged(body, window)
  BY <1>3 DEF Aged
<1> QED BY <1>2, <1>4

LEMMA FilterDoneKeeps ==
  ASSUME TypeOK, CooldownInv, NEW c \in Clients, FilterDone(c)
  PROVE  CooldownInv'
<1> DEFINE body == FilterIndex(hist, req[c].data, req[c].cut)
           m == CapturedMarker(c)
<1>1. body \subseteq 1..Len(hist) /\ Aged(body, window) /\ body \in SUBSET Nat
  BY FilterAged DEF FilterDone
<1>2. /\ memo'.lines \in {memo.lines, body}
      /\ Ok(c, req[c].entry, m, req[c].data, body)
      /\ UNCHANGED <<now, hist, window, disk>>
  BY DEF FilterDone, envVars
<1> HIDE DEF body
<1>3. MemoStaysAged
  BY <1>1, <1>2 DEF CooldownInv, KnownRevisions, MemoAged, MemoStaysAged
<1>4. m \in Markers /\ (m # NoMarker => m.win = window /\ window > 0)
  <2>1. req[c].cut \in Nat /\ window \in Nat /\ window > 0
    BY RequestFacts, CutoffFacts DEF Requests, CooldownInv, CutsPast, FilterDone, At
  <2>2. m = [win |-> window, bkt |-> Bucket(req[c].cut)] /\ Bucket(req[c].cut) \in Nat
    BY <2>1, BucketType DEF CapturedMarker, MarkerAt, Unfiltered
  <2> QED BY <2>1, <2>2 DEF Markers
<1> HIDE DEF m
<1> QED BY <1>1, <1>2, <1>3, <1>4, RequestFacts, OkKeeps
-----------------------------------------------------------------------------
(* The world: time only ages what is held, and forgetting is harmless.     *)

LEMMA TimeKeeps ==
  ASSUME TypeOK, CooldownInv, Tick \/ \E dated \in Dating : Publish(dated)
  PROVE  CooldownInv'
<1>1. /\ now \in Nat /\ now' \in Nat /\ now <= now'
      /\ UNCHANGED <<window, disk, memo, req, copy, resp>>
  <2>1. now \in Nat
    BY CutoffFacts
  <2>2. now' = now \/ now' = now + 1
    BY DEF Tick, Publish
  <2>3. UNCHANGED <<window, disk, memo, req, copy, resp>>
    BY DEF Tick, Publish, sharedVars, clientVars
  <2> QED BY <2>1, <2>2, <2>3
<1>2. /\ Len(hist) \in Nat /\ Len(hist') \in Nat /\ Len(hist) <= Len(hist')
      /\ \A i \in 1..Len(hist) : hist'[i] = hist[i]
      /\ \A i \in 1..Len(hist') : i \in 1..Len(hist) \/ hist'[i].at \in 1..now'
  <2>1. hist \in Seq(HistType) /\ Len(hist) \in Nat
    BY LenProperties DEF TypeOK, HistType
  <2>2. CASE Tick
    BY <2>1, <2>2 DEF Tick
  <2>3. CASE \E dated \in Dating : Publish(dated)
    <3>1. PICK dated \in Dating : Publish(dated)
      BY <2>3
    <3> DEFINE v == [at |-> now, dated |-> dated]
    <3>2. hist' = Append(hist, v) /\ v \in HistType /\ v.at = now
      BY <1>1, <3>1, IndexAssumption DEF Publish, HistType
    <3> HIDE DEF v
    <3>3. /\ Len(hist') = Len(hist) + 1
          /\ \A i \in 1..Len(hist) : hist'[i] = hist[i]
          /\ hist'[Len(hist) + 1] = v
      BY <2>1, <3>2, AppendProperties
    <3>4. v.at \in 1..now'
      BY <3>1, <3>2, CutoffFacts DEF Publish
    <3> QED BY <2>1, <3>3, <3>4
  <2> QED BY <2>2, <2>3
<1>3. ASSUME NEW lines, lines \subseteq 1..Len(hist), NEW w \in Nat, Aged(lines, w)
      PROVE  Aged(lines, w)'
  BY <1>1, <1>2, <1>3, AgedStable
<1>4. \A c \in Clients : copy[c].lines \subseteq 1..Len(hist)
  BY DEF CooldownInv, KnownRevisions
<1>5. PublishedInPast'
  <2> SUFFICES ASSUME NEW i \in 1..Len(hist)
               PROVE  hist'[i].at \in 1..now'
    BY <1>2 DEF PublishedInPast
  <2>1. hist[i].at \in 1..now /\ hist'[i] = hist[i]
    BY <1>2 DEF CooldownInv, PublishedInPast
  <2> QED BY <1>1, <2>1
<1>6. KnownRevisions'
  <2>1. disk.rev \in Nat /\ \A c \in Clients : req[c].data \in Nat
    BY RequestFacts DEF TypeOK, Requests
  <2>2. 1..Len(hist) \subseteq 1..Len(hist')
    BY <1>2
  <2>3. /\ disk.rev <= Len(hist')
        /\ \A c \in Clients : req[c].data <= Len(hist')
    BY <1>2, <2>1 DEF CooldownInv, KnownRevisions
  <2>4. /\ memo.lines \subseteq 1..Len(hist')
        /\ \A c \in Clients : copy[c].lines \subseteq 1..Len(hist')
    BY <2>2 DEF CooldownInv, KnownRevisions
  <2> QED BY <1>1, <2>3, <2>4 DEF KnownRevisions
<1>7. MemoAged'
  <2>1. Aged(memo.lines, window) /\ memo.lines \subseteq 1..Len(hist) /\ window \in Nat
    BY CutoffFacts DEF CooldownInv, MemoAged, KnownRevisions
  <2>2. Aged(memo.lines, window)'
    BY <1>1, <1>2, <2>1, AgedStable
  <2> QED BY <2>2 DEF MemoAged
<1>8. MarkersTrue'
  <2> SUFFICES ASSUME NEW c \in Clients, copy'[c].marker # NoMarker
               PROVE  copy'[c].marker.win > 0 /\ Aged(copy[c].lines, copy[c].marker.win)'
    BY DEF MarkersTrue
  <2>1. copy[c].marker.win > 0 /\ Aged(copy[c].lines, copy[c].marker.win)
        /\ copy[c].marker.win \in Nat
    BY <1>1 DEF CooldownInv, MarkersTrue, TypeOK, Copies, Markers
  <2>2. \A i \in copy[c].lines : hist'[i].dated =>
          hist'[i].at + copy[c].marker.win <= now'
    BY <1>3, <1>4, <2>1 DEF Aged
  <2> QED BY <1>1, <2>1, <2>2 DEF Aged
<1>9. WindowOkTrue'
  BY <1>1 DEF CooldownInv, WindowOkTrue
<1>10. CutsPast'
  <2>1. \A c \in Clients : req[c].cut \in Nat
    BY DEF TypeOK, Requests
  <2> QED BY <1>1, <2>1, CutoffFacts DEF CooldownInv, CutsPast
<1>11. CooldownHolds'
  <2> SUFFICES ASSUME NEW c \in Clients, Answered(c)
               PROVE  Aged(copy[c].lines, window)'
    BY <1>1 DEF CooldownHolds, Answered
  <2>1. Aged(copy[c].lines, window) /\ window \in Nat
    BY CutoffFacts DEF CooldownInv, CooldownHolds
  <2>2. window > 0 => \A i \in copy[c].lines : hist'[i].dated =>
          hist'[i].at + window <= now'
    BY <1>1, <1>3, <1>4, <2>1 DEF Aged
  <2> QED BY <1>1, <2>2 DEF Aged
<1> QED BY <1>5, <1>6, <1>7, <1>8, <1>9, <1>10, <1>11 DEF CooldownInv

(* Restarting forgets the answers and the memo; what a client holds stays  *)
(* true of the marker it holds it under.                                   *)
LEMMA ForgettingKeeps ==
  ASSUME TypeOK, CooldownInv,
         \/ \E w \in Windows : Restart(w)
         \/ WipeFile \/ EvictMeta \/ EvictMemo
  PROVE  CooldownInv'
<1>1. UNCHANGED <<now, hist, copy>> /\ 0 <= Len(hist)
  BY CutoffFacts DEF Restart, WipeFile, EvictMeta, EvictMemo, clientVars
<1>2. PublishedInPast' /\ MarkersTrue'
  BY <1>1 DEF CooldownInv, PublishedInPast, MarkersTrue, Aged
<1>3. CASE \E w \in Windows : Restart(w)
  <2>1. /\ disk' = disk /\ memo' = NoMemo
        /\ \A c \in Clients : req'[c] = NoRequest /\ resp'[c] = NoAnswer
    BY <1>3 DEF Restart
  <2>2. KnownRevisions'
    BY <1>1, <2>1 DEF CooldownInv, KnownRevisions, NoMemo, NoRequest
  <2>3. MemoAged' /\ WindowOkTrue' /\ CutsPast' /\ CooldownHolds'
    BY <2>1 DEF MemoAged, WindowOkTrue, CutsPast, CooldownHolds, Answered, Aged,
                NoMemo, NoRequest, NoAnswer
  <2> QED BY <1>2, <2>2, <2>3 DEF CooldownInv
<1>4. CASE WipeFile \/ EvictMeta \/ EvictMemo
  <2>1. /\ disk' \in {disk, NoFile} /\ memo' \in {memo, NoMemo}
        /\ UNCHANGED <<window, req, resp>>
    BY <1>4 DEF WipeFile, EvictMeta, EvictMemo, clientVars
  <2>2. KnownRevisions'
    BY <1>1, <2>1 DEF CooldownInv, KnownRevisions, NoMemo, NoFile
  <2>3. MemoAged' /\ WindowOkTrue' /\ CutsPast' /\ CooldownHolds'
    BY <1>1, <2>1 DEF CooldownInv, MemoAged, WindowOkTrue, CutsPast, CooldownHolds,
                      Answered, Aged, NoMemo
  <2> QED BY <1>2, <2>2, <2>3 DEF CooldownInv
<1> QED BY <1>3, <1>4
-----------------------------------------------------------------------------
LEMMA CooldownInit == Init => CooldownInv
<1> SUFFICES ASSUME Init PROVE CooldownInv
  OBVIOUS
<1>1. hist = <<>> /\ Len(hist) = 0
  BY DEF Init
<1>2. /\ disk = NoFile /\ memo = NoMemo
      /\ \A c \in Clients : req[c] = NoRequest /\ copy[c] = NoCopy /\ resp[c] = NoAnswer
  BY DEF Init
<1>3. PublishedInPast /\ KnownRevisions
  BY <1>1, <1>2 DEF PublishedInPast, KnownRevisions, NoFile, NoMemo, NoRequest, NoCopy
<1>4. MemoAged /\ MarkersTrue /\ WindowOkTrue /\ CutsPast /\ CooldownHolds
  BY <1>2 DEF MemoAged, MarkersTrue, WindowOkTrue, CutsPast, CooldownHolds, Answered,
              Aged, NoMemo, NoRequest, NoCopy, NoAnswer
<1> QED BY <1>3, <1>4 DEF CooldownInv

LEMMA CooldownNext == TypeOK /\ CooldownInv /\ [Next]_vars => CooldownInv'
<1> SUFFICES ASSUME TypeOK, CooldownInv, [Next]_vars PROVE CooldownInv'
  OBVIOUS
<1>1. ASSUME NEW c \in Clients, Begin(c) \/ Step(c)
      PROVE  CooldownInv'
  BY <1>1, BeginKeeps, LookupKeeps, PickUpKeeps, FetchKeeps, WriteKeeps, StoreKeeps,
     StaleKeeps, RenderKeeps, FilterDoneKeeps DEF Step
<1>2. ASSUME NEW c \in Clients, StepFails(c)
      PROVE  CooldownInv'
  BY <1>2, FetchFailsKeeps, WriteKeeps, DisconnectKeeps DEF StepFails
<1>3. CASE Environment
  BY <1>3, TimeKeeps, ForgettingKeeps DEF Environment
<1>4. CASE UNCHANGED vars
  BY <1>4 DEF vars, envVars, sharedVars, clientVars, CooldownInv, PublishedInPast,
              KnownRevisions, MemoAged, MarkersTrue, WindowOkTrue, CutsPast,
              CooldownHolds, Answered, Aged
<1> QED BY <1>1, <1>2, <1>3, <1>4 DEF Next

(* The cooldown holds in every reachable state: no answer of the running   *)
(* process leaves a client with a dated version younger than its window.   *)
THEOREM CooldownAlwaysHolds == Spec => []CooldownHolds
<1>1. CooldownInv => CooldownHolds
  BY DEF CooldownInv
<1> QED BY <1>1, TypeCorrect, CooldownInit, CooldownNext, PTL DEF Spec
-----------------------------------------------------------------------------
(* The refinement of AgeGate, for clients that keep the ETag of the 200    *)
(* they got: whatever a client is answered, a 304 included, is a view of a *)
(* published revision through a cutoff between the start of the bucket in  *)
(* which it asked and now.                                                 *)

(* A body of revision rev, filtered in bucket bkt of window win.           *)
Seen(lines, rev, win, bkt, h, t) ==
  /\ rev \in 1..Len(h)
  /\ \E cut \in Nat :
       Bucket(cut) = bkt /\ cut <= CutoffFrom(t, win) /\ lines = FilterIndex(h, rev, cut)

(* A copy that can be confirmed is what its marker says.                   *)
CopyTells(k, h, t) ==
  k.etag # 0 \/ k.mtime # 0 =>
    IF k.marker = NoMarker
      THEN k.rev \in 1..Len(h) /\ k.lines = 1..k.rev
      ELSE k.marker.win > 0 /\ Seen(k.lines, k.rev, k.marker.win, k.marker.bkt, h, t)

MemoTells(m, h, t, win) ==
  m.val # NoValidator => Seen(m.lines, m.rev, win, m.bkt, h, t)

DiskTells(d, h) == d # NoFile => d.rev \in 1..Len(h)

(* A request under way has not been answered; it sent the validators of    *)
(* copy k, and window_ok is about the moment at which it arrived.          *)
RequestTells(r, k, a, h, t, win) ==
  /\ r.pc = "idle" => r.asked = 0
  /\ r.pc # "idle" =>
       /\ a = NoAnswer /\ r.asked \in 1..t
       /\ r.mine.etag \in {0, k.etag} /\ r.mine.mtime \in {0, k.mtime}
       /\ r.ok => k.marker = MarkerAt(CutoffFrom(r.asked, win), win)
  /\ r.pc \in {"write", "store200", "findstale", "render", "filter"} => r.data \in 1..Len(h)
  /\ r.pc = "filter" =>
       win > 0 /\ CutoffFrom(r.asked, win) <= r.cut /\ r.cut <= CutoffFrom(t, win)

RefineInv ==
  /\ DiskTells(disk, hist) /\ MemoTells(memo, hist, now, window)
  /\ \A c \in Clients :
       /\ CopyTells(copy[c], hist, now)
       /\ RequestTells(req[c], copy[c], resp[c], hist, now, window)

LEMMA CutoffOrder ==
  ASSUME NEW t \in Nat, NEW t2 \in Nat, t <= t2, NEW w \in Nat
  PROVE  CutoffFrom(t, w) <= CutoffFrom(t2, w)
  BY DEF CutoffFrom, Unfiltered

LEMMA TimesOrder ==
  ASSUME NEW p \in Nat, NEW q \in Nat, p <= q
  PROVE  /\ p * BucketLen \in Nat /\ q * BucketLen \in Nat
         /\ p * BucketLen <= q * BucketLen
<1>1. BucketLen \in Nat
  OBVIOUS
<1>2. PICK d \in Nat : q = p + d
  <2>1. q - p \in Nat /\ q = p + (q - p)
    OBVIOUS
  <2> QED BY <2>1
<1>3. d * BucketLen \in Nat /\ p * BucketLen \in Nat
  BY <1>1
<1>4. q * BucketLen = p * BucketLen + d * BucketLen
  BY <1>1, <1>2
<1> QED BY <1>3, <1>4

LEMMA BucketFloor ==
  ASSUME NEW cut \in Nat
  PROVE  /\ Bucket(cut) \in Nat
         /\ Bucket(cut) * BucketLen <= cut /\ cut < (Bucket(cut) + 1) * BucketLen
<1>1. BucketLen \in Nat /\ BucketLen > 0
  OBVIOUS
<1>2. /\ cut = BucketLen * (cut \div BucketLen) + (cut % BucketLen)
      /\ cut % BucketLen \in 0..(BucketLen - 1)
      /\ cut \div BucketLen \in Nat
  BY <1>1
<1> QED BY <1>1, <1>2 DEF Bucket

(* The start of the bucket of a cutoff lies at or before every later one.  *)
LEMMA BucketOrder ==
  ASSUME NEW a \in Nat, NEW b \in Nat
  PROVE  /\ a <= b => Bucket(a) <= Bucket(b)
         /\ Bucket(a) <= Bucket(b) => Bucket(a) * BucketLen <= b
<1>1. /\ Bucket(a) \in Nat /\ Bucket(a) * BucketLen <= a
      /\ Bucket(b) \in Nat /\ Bucket(b) * BucketLen <= b /\ b < (Bucket(b) + 1) * BucketLen
  BY BucketFloor
<1>2. ASSUME Bucket(a) <= Bucket(b) PROVE Bucket(a) * BucketLen <= b
  <2>1. /\ Bucket(a) * BucketLen \in Nat /\ Bucket(b) * BucketLen \in Nat
        /\ Bucket(a) * BucketLen <= Bucket(b) * BucketLen
    BY <1>1, <1>2, TimesOrder
  <2> QED BY <1>1, <2>1
<1>3. ASSUME a <= b, ~(Bucket(a) <= Bucket(b)) PROVE FALSE
  <2>1. Bucket(b) + 1 <= Bucket(a) /\ Bucket(b) + 1 \in Nat
    BY <1>1, <1>3
  <2>2. /\ (Bucket(b) + 1) * BucketLen \in Nat /\ Bucket(a) * BucketLen \in Nat
        /\ (Bucket(b) + 1) * BucketLen <= Bucket(a) * BucketLen
    BY <1>1, <2>1, TimesOrder
  <2> QED BY <1>1, <1>3, <2>2
<1> QED BY <1>2, <1>3

(* What is known of a body stays known: versions are only ever added, and  *)
(* the cutoff only moves on.                                               *)
Later(h, t, g, u) ==
  /\ t \in Nat /\ u \in Nat /\ t <= u
  /\ Len(h) \in Nat /\ Len(g) \in Nat /\ Len(h) <= Len(g)
  /\ \A i \in 1..Len(h) : g[i] = h[i]

LEMMA SeenLater ==
  ASSUME NEW h, NEW t, NEW g, NEW u, Later(h, t, g, u), NEW win \in Nat,
         NEW lines, NEW rev, NEW bkt, Seen(lines, rev, win, bkt, h, t)
  PROVE  Seen(lines, rev, win, bkt, g, u)
<1>1. t \in Nat /\ u \in Nat /\ t <= u /\ CutoffFrom(t, win) <= CutoffFrom(u, win)
  BY CutoffOrder DEF Later
<1>2. CutoffFrom(t, win) \in Int /\ CutoffFrom(u, win) \in Int
  BY <1>1, CutoffType DEF Unfiltered
<1>3. rev \in 1..Len(h) /\ rev \in 1..Len(g)
  BY DEF Seen, Later
<1>4. PICK cut \in Nat : /\ Bucket(cut) = bkt /\ cut <= CutoffFrom(t, win)
                         /\ lines = FilterIndex(h, rev, cut)
  BY DEF Seen
<1>5. cut <= CutoffFrom(u, win)
  BY <1>1, <1>2, <1>4
<1>6. FilterIndex(g, rev, cut) = FilterIndex(h, rev, cut)
  <2>1. \A i \in 1..rev : g[i] = h[i]
    BY <1>3 DEF Later
  <2> QED BY <2>1 DEF FilterIndex
<1> QED BY <1>3, <1>4, <1>5, <1>6 DEF Seen

LEMMA CopyTellsLater ==
  ASSUME NEW h, NEW t, NEW g, NEW u, Later(h, t, g, u), NEW k \in Copies, CopyTells(k, h, t)
  PROVE  CopyTells(k, g, u)
<1>1. k.marker.win \in Nat
  BY DEF Copies, Markers
<1>2. k.rev \in 1..Len(h) => k.rev \in 1..Len(g)
  BY DEF Later
<1> QED BY <1>1, <1>2, SeenLater DEF CopyTells

LEMMA MemoTellsLater ==
  ASSUME NEW h, NEW t, NEW g, NEW u, Later(h, t, g, u), NEW m, NEW win \in Nat,
         MemoTells(m, h, t, win)
  PROVE  MemoTells(m, g, u, win)
  BY SeenLater DEF MemoTells

LEMMA RequestTellsLater ==
  ASSUME NEW h, NEW t, NEW g, NEW u, Later(h, t, g, u), NEW win \in Nat,
         NEW r \in Requests, NEW k, NEW a, RequestTells(r, k, a, h, t, win)
  PROVE  RequestTells(r, k, a, g, u, win)
<1>1. t \in Nat /\ u \in Nat /\ t <= u /\ CutoffFrom(t, win) <= CutoffFrom(u, win)
  BY CutoffOrder DEF Later
<1>2. CutoffFrom(t, win) \in Int /\ CutoffFrom(u, win) \in Int
  BY <1>1, CutoffType DEF Unfiltered
<1>3. r.cut \in Nat /\ r.asked \in Nat
  BY DEF Requests
<1>4. r.asked \in 1..t => r.asked \in 1..u
  BY <1>1
<1>5. r.data \in 1..Len(h) => r.data \in 1..Len(g)
  BY DEF Later
<1>6. r.cut <= CutoffFrom(t, win) => r.cut <= CutoffFrom(u, win)
  BY <1>1, <1>2, <1>3
<1> QED BY <1>4, <1>5, <1>6 DEF RequestTells
-----------------------------------------------------------------------------
(* The state the abstraction sees.                                         *)

Asking == [c \in Clients |-> req[c].asked + resp[c].asked]
Answering == [c \in Clients |-> Answered(c)]
Holding == [c \in Clients |-> copy[c].lines]

LEMMA GateVars == Gate!vars = <<now, hist, window, Asking, Answering, Holding>>
  BY DEF Gate!vars, Asking, Answering, Holding

LEMMA GateFilter ==
  ASSUME NEW h, NEW rev, NEW cut
  PROVE  Gate!FilterIndex(h, rev, cut) = FilterIndex(h, rev, cut)
  BY DEF Gate!FilterIndex, FilterIndex, Gate!Passes, Passes, Gate!Unfiltered, Unfiltered

LEMMA GateCutoffs ==
  ASSUME NEW c \in Clients
  PROVE  Gate!Cutoffs(c) =
           IF window = 0 THEN {Unfiltered}
           ELSE (Bucket(CutoffFrom(Asking[c], window)) * BucketLen)..CutoffFrom(now, window)
  BY DEF Gate!Cutoffs, Gate!Unfiltered, Unfiltered, Gate!Bucket, Bucket, Gate!CutoffFrom,
         CutoffFrom, Asking

(* A body seen through a cutoff of the bucket of the request, or of a      *)
(* later one, is an answer the gate may give.                              *)
LEMMA AnswerView ==
  ASSUME TypeOK, NEW c \in Clients, NEW a \in Nat, Asking[c] = a, a <= now,
         NEW rev \in 1..Len(hist), NEW lines, NEW cut \in Int,
         lines = FilterIndex(hist, rev, cut),
         IF window = 0 THEN cut = Unfiltered
         ELSE /\ cut \in Nat /\ cut <= CutoffFrom(now, window)
              /\ Bucket(CutoffFrom(a, window)) <= Bucket(cut)
  PROVE  lines \in Gate!Views(c)
<1>1. window \in Nat /\ now \in Nat
  BY CutoffFacts
<1>2. cut \in Gate!Cutoffs(c)
  <2>1. CASE window = 0
    BY <2>1, GateCutoffs
  <2>2. CASE window # 0
    <3>1. CutoffFrom(a, window) \in Nat /\ CutoffFrom(now, window) \in Nat
      BY <1>1, <2>2, CutoffType DEF Unfiltered
    <3> DEFINE b == CutoffFrom(a, window)
               n == CutoffFrom(now, window)
               f == Bucket(b) * BucketLen
    <3>2. cut \in Nat /\ Bucket(b) <= Bucket(cut) /\ cut <= n
      BY <2>2
    <3>3. f <= cut /\ f \in Nat
      <4>1. Bucket(b) \in Nat
        BY <3>1, BucketFloor
      <4>2. f \in Nat
        BY <4>1, TimesOrder
      <4> QED BY <3>1, <3>2, <4>2, BucketOrder
    <3>4. Gate!Cutoffs(c) = f..n
      BY <2>2, GateCutoffs
    <3>5. n \in Nat
      BY <3>1
    <3> HIDE DEF f, n, b
    <3> QED BY <3>2, <3>3, <3>4, <3>5
  <2> QED BY <2>1, <2>2
<1>3. lines = Gate!FilterIndex(hist, rev, cut)
  BY GateFilter
<1> QED BY <1>2, <1>3 DEF Gate!Views
-----------------------------------------------------------------------------
(* The four ways a step shows in the abstraction.                          *)

Told == UNCHANGED <<now, hist, window>> /\ DiskTells(disk', hist)
        /\ MemoTells(memo', hist, now, window)

LEMMA PendingFacts ==
  ASSUME TypeOK, RefineInv, NEW c \in Clients, req[c].pc # "idle"
  PROVE  /\ resp[c] = NoAnswer /\ Asking[c] = req[c].asked /\ Asking[c] \in 1..now
         /\ Asking[c] \in Nat /\ Asking[c] <= now /\ Asking[c] # 0 /\ ~Answered(c)
<1>1. resp[c] = NoAnswer /\ req[c].asked \in 1..now
  BY DEF RefineInv, RequestTells
<1>2. now \in Nat
  BY CutoffFacts
<1>3. Asking[c] = req[c].asked
  BY <1>1, <1>2 DEF Asking, NoAnswer
<1>4. ~Answered(c)
  BY <1>1 DEF Answered, NoAnswer
<1> QED BY <1>1, <1>2, <1>3, <1>4

(* A request moves on: nothing the client could see.                       *)
LEMMA GotoSilent ==
  ASSUME TypeOK, RefineInv, NEW c \in Clients, NEW r \in Requests, Goto(c, r), Told,
         UNCHANGED clientVars, r.asked = req[c].asked,
         RequestTells(r, copy[c], resp[c], hist, now, window)
  PROVE  RefineInv' /\ UNCHANGED Gate!vars
<1>1. req' = [req EXCEPT ![c] = r] /\ req \in [Clients -> Requests]
  BY DEF Goto, TypeOK
<1>2. UNCHANGED <<now, hist, window, copy, resp>>
  BY DEF Told, clientVars
<1>3. \A d \in Clients : req'[d] = req[d] \/ (d = c /\ req'[d] = r)
  BY <1>1
<1>4. RefineInv'
  BY <1>2, <1>3 DEF RefineInv, Told
<1>5. Asking' = Asking
  <2>1. \A d \in Clients : req'[d].asked = req[d].asked
    BY <1>3
  <2> QED BY <1>2, <2>1 DEF Asking
<1>6. Answering' = Answering /\ Holding' = Holding
  BY <1>2 DEF Answering, Answered, Holding
<1> QED BY <1>2, <1>4, <1>5, <1>6, GateVars DEF Gate!vars, Asking, Answering, Holding

LEMMA FlagMoves ==
  ASSUME NEW c \in Clients,
         \A d \in Clients \ {c} : Answered(d)' <=> Answered(d)
  PROVE  /\ Answered(c)' => Answering' = [Answering EXCEPT ![c] = TRUE]
         /\ ~Answered(c)' => Answering' = [Answering EXCEPT ![c] = FALSE]
<1>1. ASSUME NEW b \in BOOLEAN, Answered(c)' <=> b
      PROVE  Answering' = [Answering EXCEPT ![c] = b]
  <2>1. ASSUME NEW d \in Clients
        PROVE  Answered(d)' = IF d = c THEN b ELSE Answered(d)
    BY <1>1 DEF Answered
  <2> QED BY <2>1 DEF Answering
<1>2. ASSUME Answered(c)' PROVE Answering' = [Answering EXCEPT ![c] = TRUE]
  <2> DEFINE b == TRUE
  <2>1. b \in BOOLEAN /\ (Answered(c)' <=> b)
    BY <1>2
  <2> HIDE DEF b
  <2>2. Answering' = [Answering EXCEPT ![c] = b]
    BY <1>1, <2>1
  <2> QED BY <2>2 DEF b
<1>3. ASSUME ~Answered(c)' PROVE Answering' = [Answering EXCEPT ![c] = FALSE]
  <2> DEFINE b == FALSE
  <2>1. b \in BOOLEAN /\ (Answered(c)' <=> b)
    BY <1>3
  <2> HIDE DEF b
  <2>2. Answering' = [Answering EXCEPT ![c] = b]
    BY <1>1, <2>1
  <2> QED BY <2>2 DEF b
<1> QED BY <1>2, <1>3

LEMMA AnswerMoves ==
  ASSUME TypeOK, RefineInv, NEW c \in Clients, NEW status \in Statuses, NEW k,
         Leaves(c, status, k), Told, CopyTells(k, hist, now)
  PROVE  /\ RefineInv'
         /\ Asking' = Asking \/ req[c].pc = "idle"
         /\ Answered(c)' <=> status \in {200, 304}
         /\ \A d \in Clients \ {c} : Answered(d)' <=> Answered(d)
         /\ Holding' = [Holding EXCEPT ![c] = k.lines]
<1>1. /\ req' = [req EXCEPT ![c] = NoRequest] /\ req \in [Clients -> Requests]
      /\ copy' = [copy EXCEPT ![c] = k] /\ copy \in [Clients -> Copies]
      /\ resp' = [resp EXCEPT ![c] = [status |-> status, trouble |-> req[c].trouble,
                                      asked |-> req[c].asked]]
      /\ resp \in [Clients -> Answers]
  BY DEF Leaves, Answer, TypeOK
<1>2. \A d \in Clients : \/ d # c /\ req'[d] = req[d] /\ copy'[d] = copy[d]
                                  /\ resp'[d] = resp[d]
                         \/ d = c /\ req'[d] = NoRequest /\ copy'[d] = k
                                  /\ resp'[d].status = status
                                  /\ resp'[d].asked = req[c].asked
  BY <1>1
<1>3. RequestTells(NoRequest, k, resp'[c], hist, now, window)
  BY DEF RequestTells, NoRequest
<1>4. RefineInv'
  BY <1>2, <1>3 DEF RefineInv, Told
<1>5. /\ Answered(c)' <=> status \in {200, 304}
      /\ \A d \in Clients \ {c} : Answered(d)' <=> Answered(d)
  BY <1>2 DEF Answered
<1>6. Holding' = [Holding EXCEPT ![c] = k.lines]
  BY <1>2 DEF Holding
<1>7. ASSUME req[c].pc # "idle" PROVE Asking' = Asking
  <2>1. resp[c].asked = 0 /\ req[c].asked \in Nat
    BY <1>7, PendingFacts DEF NoAnswer, TypeOK, Requests
  <2>2. \A d \in Clients : req'[d].asked + resp'[d].asked = req[d].asked + resp[d].asked
    BY <1>2, <2>1 DEF NoRequest
  <2> QED BY <2>2 DEF Asking
<1> QED BY <1>4, <1>5, <1>6, <1>7

(* A refusal leaves the client as it was.                                  *)
LEMMA RefuseSilent ==
  ASSUME TypeOK, RefineInv, NEW c \in Clients, NEW status \in Statuses \ {200, 304},
         req[c].pc # "idle", Refuse(c, status), Told
  PROVE  RefineInv' /\ UNCHANGED Gate!vars
<1>1. copy[c] \in Copies /\ copy \in [Clients -> Copies]
  BY DEF TypeOK
<1>2. Leaves(c, status, copy[c])
  BY <1>1 DEF Leaves, Refuse
<1>3. CopyTells(copy[c], hist, now)
  BY DEF RefineInv
<1>4. /\ RefineInv' /\ Asking' = Asking
      /\ ~Answered(c)' /\ \A d \in Clients \ {c} : Answered(d)' <=> Answered(d)
      /\ Holding' = [Holding EXCEPT ![c] = copy[c].lines]
  BY <1>2, <1>3, AnswerMoves
<1>5. Answering' = Answering /\ Holding' = Holding
  <2>1. ASSUME NEW d \in Clients PROVE Answered(d)' = Answered(d)
    <3>1. Answered(d)' <=> Answered(d)
      BY <1>4, PendingFacts
    <3> QED BY <3>1 DEF Answered
  <2>2. Answering' = Answering
    BY <2>1 DEF Answering
  <2>3. Holding = [Holding EXCEPT ![c] = copy[c].lines]
    BY DEF Holding
  <2> QED BY <1>4, <2>2, <2>3
<1>6. UNCHANGED <<now, hist, window>>
  BY DEF Told
<1> QED BY <1>4, <1>5, <1>6 DEF Gate!vars, Asking, Answering, Holding

(* An answer leaves it with a view.                                        *)
LEMMA AnswerRefines ==
  ASSUME TypeOK, RefineInv, NEW c \in Clients, NEW status \in {200, 304},
         NEW k, req[c].pc # "idle", Leaves(c, status, k), Told,
         CopyTells(k, hist, now), k.lines \in Gate!Views(c)
  PROVE  RefineInv' /\ Gate!Next
<1>1. status \in Statuses
  BY DEF Statuses
<1>2. /\ RefineInv' /\ Asking' = Asking
      /\ Answered(c)' /\ \A d \in Clients \ {c} : Answered(d)' <=> Answered(d)
      /\ Holding' = [Holding EXCEPT ![c] = k.lines]
  BY <1>1, AnswerMoves
<1>3. Asking[c] # 0 /\ ~Answering[c]
  BY PendingFacts DEF Answering
<1>4. UNCHANGED <<now, hist, window>>
  BY DEF Told
<1>5. Holding'[c] = k.lines
  BY <1>2 DEF Holding
<1>6. Answering' = [Answering EXCEPT ![c] = TRUE]
  <2>1. Answered(c)'
    BY <1>2
  <2>2. \A d \in Clients \ {c} : Answered(d)' <=> Answered(d)
    BY <1>2
  <2> QED BY <2>1, <2>2, FlagMoves
<1>7. Gate!AnswerWith(c, Holding'[c])
  BY <1>2, <1>3, <1>4, <1>5, <1>6 DEF Gate!AnswerWith, Asking, Answering, Holding
<1> QED BY <1>2, <1>7 DEF Gate!Next, Holding
-----------------------------------------------------------------------------
(* The steps of a request.                                                 *)

Carrying == {"write", "store200", "findstale", "render", "filter"}

(* Moving on with the locals the request arrived with.                     *)
LEMMA MoveSilent ==
  ASSUME TypeOK, RefineInv, NEW c \in Clients, req[c].pc # "idle", NEW r \in Requests,
         Goto(c, r), UNCHANGED clientVars, Told,
         r.asked = req[c].asked, r.ok = req[c].ok, r.mine = req[c].mine,
         r.pc \notin {"idle", "filter"}, r.pc \in Carrying => r.data \in 1..Len(hist)
  PROVE  RefineInv' /\ UNCHANGED Gate!vars
<1>1. RequestTells(req[c], copy[c], resp[c], hist, now, window)
  BY DEF RefineInv
<1>2. RequestTells(r, copy[c], resp[c], hist, now, window)
  BY <1>1 DEF RequestTells, Carrying
<1> QED BY <1>2, GotoSilent

(* A served body: verbatim where nothing is filtered, or the body its      *)
(* marker names, filtered no earlier than the bucket of the request.       *)
ServesView(c, m, rev, lines) ==
  IF m = NoMarker THEN window = 0 /\ lines = 1..rev
  ELSE /\ m.win = window /\ window > 0
       /\ Seen(lines, rev, window, m.bkt, hist, now)
       /\ Bucket(CutoffFrom(req[c].asked, window)) <= m.bkt

(* What a client that has got such a body may be answered.                 *)
LEMMA ViewServed ==
  ASSUME TypeOK, RefineInv, NEW c \in Clients, req[c].pc # "idle",
         NEW m \in Markers, NEW rev \in 1..Len(hist), NEW lines,
         ServesView(c, m, rev, lines)
  PROVE  lines \in Gate!Views(c)
<1>1. Asking[c] = req[c].asked /\ req[c].asked \in Nat /\ req[c].asked <= now
  BY PendingFacts
<1>2. CASE m = NoMarker
  <2>1. window = 0 /\ lines = 1..rev /\ Unfiltered \in Int
    BY <1>2 DEF ServesView, Unfiltered
  <2>2. lines = FilterIndex(hist, rev, Unfiltered)
    BY <2>1 DEF FilterIndex, Passes
  <2> QED BY <1>1, <2>1, <2>2, AnswerView
<1>3. CASE m # NoMarker
  <2>1. /\ window > 0 /\ Bucket(CutoffFrom(req[c].asked, window)) <= m.bkt
        /\ Seen(lines, rev, window, m.bkt, hist, now)
    BY <1>3 DEF ServesView
  <2>2. PICK cut \in Nat : /\ Bucket(cut) = m.bkt /\ cut <= CutoffFrom(now, window)
                           /\ lines = FilterIndex(hist, rev, cut)
    BY <2>1 DEF Seen
  <2>3. window # 0 /\ cut \in Int
    BY <2>1, CutoffFacts
  <2> QED BY <1>1, <2>1, <2>2, <2>3, AnswerView
<1> QED BY <1>2, <1>3

LEMMA OkRefines ==
  ASSUME TypeOK, RefineInv, NEW c \in Clients, req[c].pc # "idle", NEW e \in Entries,
         NEW m \in Markers, NEW rev \in 1..Len(hist), NEW lines, Ok(c, e, m, rev, lines),
         Told, ServesView(c, m, rev, lines)
  PROVE  RefineInv' /\ Gate!Next
<1> DEFINE k == Served(e, m, rev, lines)
<1>1. Leaves(c, 200, k)
  BY DEF Leaves, Ok
<1>2. /\ k.rev = rev /\ k.lines = lines
      /\ m = NoMarker => k.marker = NoMarker
      /\ m # NoMarker => k.mtime = 0 /\ (k.etag # 0 => k.marker = m)
  BY DEF Served, Label
<1>3. CopyTells(k, hist, now)
  <2> HIDE DEF k
  <2> QED BY <1>2 DEF CopyTells, ServesView
<1>4. k.lines \in Gate!Views(c)
  BY <1>2, ViewServed
<1> HIDE DEF k
<1> QED BY <1>1, <1>3, <1>4, AnswerRefines

(* A memo hit: the memo holds the running window's body of this bucket.    *)
LEMMA MemoHitRefines ==
  ASSUME TypeOK, RefineInv, NEW c \in Clients, req[c].pc # "idle", NEW e \in Entries,
         MemoHas(e), MemoHit(c, e), Told
  PROVE  RefineInv' /\ Gate!Next
<1>1. /\ ServeMarker \in Markers /\ window \in Nat /\ window > 0 /\ now \in Nat
      /\ ServeMarker = [win |-> window, bkt |-> Bucket(Cutoff)]
      /\ ServeMarker # NoMarker
  <2>1. Cutoff # Unfiltered /\ window \in Nat /\ now \in Nat /\ window > 0
    BY CutoffFacts DEF MemoHas
  <2> QED BY <2>1, ServeMarkerType, CutoffFacts DEF ServeMarker, MarkerAt
<1>2. Seen(memo.lines, memo.rev, window, Bucket(Cutoff), hist, now)
  BY DEF RefineInv, MemoTells, MemoHas
<1>3. Bucket(CutoffFrom(req[c].asked, window)) <= Bucket(Cutoff)
  <2>1. req[c].asked \in Nat /\ req[c].asked <= now
    BY PendingFacts
  <2>2. /\ CutoffFrom(req[c].asked, window) <= Cutoff
        /\ CutoffFrom(req[c].asked, window) \in Nat /\ Cutoff \in Nat
    <3>1. CutoffFrom(req[c].asked, window) \in Nat /\ CutoffFrom(now, window) \in Nat
      BY <1>1, <2>1, CutoffType DEF Unfiltered
    <3>2. CutoffFrom(req[c].asked, window) <= CutoffFrom(now, window)
      BY <1>1, <2>1, CutoffOrder
    <3> QED BY <3>1, <3>2 DEF Cutoff
  <2> QED BY <2>2, BucketOrder
<1>4. ServesView(c, ServeMarker, memo.rev, memo.lines)
  BY <1>1, <1>2, <1>3 DEF ServesView
<1>5. memo.rev \in 1..Len(hist)
  BY <1>2 DEF Seen
<1> QED BY <1>1, <1>4, <1>5, OkRefines DEF MemoHit

(* A 304 confirms the copy the request came with: it has a validator, so   *)
(* it is what its marker says, and the marker is the request's.            *)
LEMMA NotModifiedRefines ==
  ASSUME ~RelabelsOn304, TypeOK, RefineInv, NEW c \in Clients, req[c].pc # "idle",
         NEW e \in Entries, MayNotModify(c, e), NotModified(c, e), Told
  PROVE  RefineInv' /\ Gate!Next
<1> DEFINE k == copy[c]
           m == MarkerAt(CutoffFrom(req[c].asked, window), window)
<1>1. /\ req[c].mine.etag \in {0, k.etag} /\ req[c].mine.mtime \in {0, k.mtime}
      /\ k.marker = m /\ CopyTells(k, hist, now)
  BY DEF RefineInv, RequestTells, MayNotModify
<1>2. k.etag # 0 \/ k.mtime # 0
  BY <1>1 DEF MayNotModify, IsEquivalent
<1>3. copy \in [Clients -> Copies] /\ k \in Copies /\ k.marker \in Markers
      /\ k.marker.bkt \in Nat /\ k.marker.win \in Nat
  BY DEF TypeOK, Copies, Markers
<1>4. Leaves(c, 304, k)
  BY <1>3 DEF Leaves, NotModified
<1>5. req[c].asked \in Nat /\ window \in Nat
  BY PendingFacts, CutoffFacts
<1> HIDE DEF k
<1>6. IF window = 0 THEN m = NoMarker
      ELSE m.win = window /\ m.bkt = Bucket(CutoffFrom(req[c].asked, window))
  BY <1>5, CutoffType DEF MarkerAt
<1> HIDE DEF m
<1>7. k.rev \in 1..Len(hist) /\ ServesView(c, k.marker, k.rev, k.lines)
  <2>1. CASE k.marker = NoMarker
    <3>1. window = 0
      BY <1>1, <1>5, <1>6, <2>1 DEF NoMarker
    <3>2. k.rev \in 1..Len(hist) /\ k.lines = 1..k.rev
      BY <1>1, <1>2, <2>1 DEF CopyTells
    <3> QED BY <2>1, <3>1, <3>2 DEF ServesView
  <2>2. CASE k.marker # NoMarker
    <3>1. /\ window # 0 /\ window > 0 /\ k.marker.win = window
          /\ k.marker.bkt = Bucket(CutoffFrom(req[c].asked, window))
      BY <1>1, <1>5, <1>6, <2>2
    <3>2. Seen(k.lines, k.rev, k.marker.win, k.marker.bkt, hist, now)
      BY <1>1, <1>2, <2>2 DEF CopyTells
    <3>3. k.rev \in 1..Len(hist)
      BY <3>2 DEF Seen
    <3>4. Bucket(CutoffFrom(req[c].asked, window)) <= k.marker.bkt
      BY <1>3, <3>1
    <3> QED BY <2>2, <3>1, <3>2, <3>3, <3>4 DEF ServesView
  <2> QED BY <2>1, <2>2
<1>8. k.lines \in Gate!Views(c)
  BY <1>3, <1>7, ViewServed
<1> QED BY <1>1, <1>4, <1>8, AnswerRefines
-----------------------------------------------------------------------------
(* The actions.                                                            *)

LEMMA ToldFacts ==
  ASSUME RefineInv, UNCHANGED <<now, hist, window>>, memo' = memo,
         disk' = disk \/ disk' = NoFile \/ disk'.rev \in 1..Len(hist)
  PROVE  Told
  BY DEF RefineInv, Told, DiskTells

LEMMA BeginRefines ==
  ASSUME TypeOK, RefineInv, NEW c \in Clients, Begin(c)
  PROVE  RefineInv' /\ Gate!Next
<1> DEFINE k == copy[c]
           mine == IF k.etag # 0 THEN [NoEntry EXCEPT !.etag = k.etag]
                                 ELSE [NoEntry EXCEPT !.mtime = k.mtime]
           r == [NoRequest EXCEPT !.pc = "lookup", !.asked = now, !.mine = mine,
                                  !.ok = WindowOk(c)]
<1>1. /\ UNCHANGED <<now, hist, window, disk, memo, copy>>
      /\ req' = [req EXCEPT ![c] = r] /\ req \in [Clients -> Requests]
      /\ resp' = [resp EXCEPT ![c] = NoAnswer] /\ resp \in [Clients -> Answers]
  BY DEF Begin, Goto, envVars, sharedVars, TypeOK
<1>2. mine.etag \in {0, k.etag} /\ mine.mtime \in {0, k.mtime}
  BY DEF NoEntry
<1> HIDE DEF mine
<1>3. /\ r.pc = "lookup" /\ r.asked = now /\ r.mine = mine
      /\ r.ok => k.marker = MarkerAt(CutoffFrom(now, window), window)
  BY DEF NoRequest, WindowOk, ServeMarker, Cutoff
<1> HIDE DEF r
<1>4. \A d \in Clients : \/ d # c /\ req'[d] = req[d] /\ resp'[d] = resp[d]
                         \/ d = c /\ req'[d] = r /\ resp'[d] = NoAnswer
  BY <1>1
<1>5. now \in 1..now /\ now \in Nat
  BY CutoffFacts
<1>6. RequestTells(r, k, NoAnswer, hist, now, window)
  BY <1>2, <1>3, <1>5 DEF RequestTells
<1>7. RefineInv'
  BY <1>1, <1>4, <1>6 DEF RefineInv
<1>8. Asking' = [Asking EXCEPT ![c] = now]
  <2>1. \A d \in Clients : req'[d].asked + resp'[d].asked =
          IF d = c THEN now ELSE req[d].asked + resp[d].asked
    BY <1>3, <1>4, <1>5 DEF NoAnswer
  <2> QED BY <2>1 DEF Asking
<1>9. Answering' = [Answering EXCEPT ![c] = FALSE]
  <2>1. ~Answered(c)'
    BY <1>4 DEF Answered, NoAnswer
  <2>2. \A d \in Clients \ {c} : Answered(d)' <=> Answered(d)
    BY <1>4 DEF Answered
  <2> QED BY <2>1, <2>2, FlagMoves
<1>10. Holding' = Holding
  BY <1>1 DEF Holding
<1>11. Gate!Ask(c)
  BY <1>1, <1>8, <1>9, <1>10 DEF Gate!Ask, Asking, Answering, Holding
<1> QED BY <1>7, <1>11 DEF Gate!Next

(* Wherever the ladder may answer or move on.                              *)
LEMMA LookupRefines ==
  ASSUME ~RelabelsOn304, TypeOK, RefineInv, NEW c \in Clients, Lookup(c)
  PROVE  RefineInv' /\ (Gate!Next \/ UNCHANGED Gate!vars)
<1>1. /\ req[c].pc # "idle" /\ req[c] \in Requests /\ meta \in Entries
      /\ UNCHANGED <<now, hist, window, disk, memo>>
  BY DEF Lookup, At, TypeOK, envVars, sharedVars
<1>2. Told
  BY <1>1, ToldFacts
<1>3. CASE Goto(c, [req[c] EXCEPT !.pc = "find"]) /\ UNCHANGED clientVars
  <2> DEFINE r == [req[c] EXCEPT !.pc = "find"]
  <2>1. /\ r \in Requests /\ r.pc = "find" /\ r.asked = req[c].asked
        /\ r.ok = req[c].ok /\ r.mine = req[c].mine
    BY <1>1 DEF Requests, Pcs
  <2> HIDE DEF r
  <2>2. Goto(c, r) /\ UNCHANGED clientVars
    BY <1>3 DEF r
  <2> QED BY <1>1, <1>2, <2>1, <2>2, MoveSilent DEF Carrying
<1>4. ASSUME NEW p \in {"fetch", "read"}, UNCHANGED clientVars,
             Goto(c, [req[c] EXCEPT !.pc = p, !.entry = meta])
      PROVE  RefineInv' /\ UNCHANGED Gate!vars
  <2> DEFINE r == [req[c] EXCEPT !.pc = p, !.entry = meta]
  <2>1. /\ r \in Requests /\ r.pc = p /\ r.asked = req[c].asked
        /\ r.ok = req[c].ok /\ r.mine = req[c].mine
    BY <1>1 DEF Requests, Pcs
  <2> HIDE DEF r
  <2>2. Goto(c, r)
    BY <1>4 DEF r
  <2> QED BY <1>1, <1>2, <1>4, <2>1, <2>2, MoveSilent DEF Carrying
<1>5. CASE MayNotModify(c, meta) /\ NotModified(c, meta)
  BY <1>1, <1>2, <1>5, NotModifiedRefines
<1>6. CASE MemoHas(meta) /\ MemoHit(c, meta)
  BY <1>1, <1>2, <1>6, MemoHitRefines
<1> QED BY <1>3, <1>4, <1>5, <1>6 DEF Lookup

LEMMA ReadsRefine ==
  ASSUME TypeOK, RefineInv, NEW c \in Clients,
         ReadFresh(c) \/ ReadAfter304(c) \/ FindMtime(c) \/ FindStale(c)
  PROVE  RefineInv' /\ UNCHANGED Gate!vars
<1>1. /\ req[c].pc \in {"read", "read304", "find", "findstale"} /\ req[c] \in Requests
      /\ FileEntry \in Entries /\ NoEntry \in Entries /\ disk.rev \in Nat
      /\ UNCHANGED <<now, hist, window, disk, memo>> /\ UNCHANGED clientVars
  BY DEF ReadFresh, ReadAfter304, FindMtime, FindStale, At, TypeOK, envVars, sharedVars,
         FileEntry, NoEntry, Entries
<1>2. Told
  BY <1>1, ToldFacts
<1>3. ASSUME disk # NoFile, Goto(c, [req[c] EXCEPT !.pc = "render", !.data = disk.rev])
      PROVE  RefineInv' /\ UNCHANGED Gate!vars
  <2> DEFINE r == [req[c] EXCEPT !.pc = "render", !.data = disk.rev]
  <2>1. /\ r \in Requests /\ r.pc = "render" /\ r.asked = req[c].asked
        /\ r.ok = req[c].ok /\ r.mine = req[c].mine /\ r.data = disk.rev
    BY <1>1 DEF Requests, Pcs
  <2> HIDE DEF r
  <2>2. Goto(c, r) /\ disk.rev \in 1..Len(hist)
    BY <1>3 DEF r, RefineInv, DiskTells
  <2> QED BY <1>1, <1>2, <2>1, <2>2, MoveSilent
<1>4. ASSUME Goto(c, [req[c] EXCEPT !.pc = "find", !.entry = NoEntry])
      PROVE  RefineInv' /\ UNCHANGED Gate!vars
  <2> DEFINE r == [req[c] EXCEPT !.pc = "find", !.entry = NoEntry]
  <2>1. /\ r \in Requests /\ r.pc = "find" /\ r.asked = req[c].asked
        /\ r.ok = req[c].ok /\ r.mine = req[c].mine
    BY <1>1 DEF Requests, Pcs
  <2> HIDE DEF r
  <2>2. Goto(c, r)
    BY <1>4 DEF r
  <2> QED BY <1>1, <1>2, <2>1, <2>2, MoveSilent DEF Carrying
<1>5. ASSUME Goto(c, [req[c] EXCEPT !.pc = "lost"])
      PROVE  RefineInv' /\ UNCHANGED Gate!vars
  <2> DEFINE r == [req[c] EXCEPT !.pc = "lost"]
  <2>1. /\ r \in Requests /\ r.pc = "lost" /\ r.asked = req[c].asked
        /\ r.ok = req[c].ok /\ r.mine = req[c].mine
    BY <1>1 DEF Requests, Pcs
  <2> HIDE DEF r
  <2>2. Goto(c, r)
    BY <1>5 DEF r
  <2> QED BY <1>1, <1>2, <2>1, <2>2, MoveSilent DEF Carrying
<1>6. ASSUME NEW p \in {"fetch", "render"},
             p = "render" => req[c].pc = "findstale",
             Goto(c, [req[c] EXCEPT !.pc = p, !.entry = FileEntry])
      PROVE  RefineInv' /\ UNCHANGED Gate!vars
  <2> DEFINE r == [req[c] EXCEPT !.pc = p, !.entry = FileEntry]
  <2>1. /\ r \in Requests /\ r.pc = p /\ r.asked = req[c].asked
        /\ r.ok = req[c].ok /\ r.mine = req[c].mine /\ r.data = req[c].data
    BY <1>1 DEF Requests, Pcs
  <2> HIDE DEF r
  <2>2. Goto(c, r)
    BY <1>6 DEF r
  <2>3. p \in Carrying => r.data \in 1..Len(hist)
    BY <1>6, <2>1 DEF Carrying, RefineInv, RequestTells
  <2> QED BY <1>1, <1>2, <2>1, <2>2, <2>3, MoveSilent
<1>7. CASE ReadFresh(c)
  BY <1>3, <1>4, <1>7 DEF ReadFresh
<1>8. CASE ReadAfter304(c)
  BY <1>3, <1>5, <1>8 DEF ReadAfter304
<1>9. CASE FindMtime(c)
  BY <1>6, <1>9 DEF FindMtime
<1>10. CASE FindStale(c)
  BY <1>6, <1>10 DEF FindStale, At
<1> QED BY <1>7, <1>8, <1>9, <1>10

LEMMA FetchRefines ==
  ASSUME TypeOK, RefineInv, NEW c \in Clients,
         Fetch(c) \/ FetchUnknown(c) \/ \E trouble \in Troubles : FetchFails(c, trouble)
  PROVE  RefineInv' /\ UNCHANGED Gate!vars
<1>1. /\ req[c].pc = "fetch" /\ req[c] \in Requests /\ req[c].entry \in Entries
      /\ NoEntry \in Entries
      /\ UNCHANGED <<now, hist, window, disk, memo>>
  BY DEF Fetch, FetchUnknown, FetchFails, At, TypeOK, Requests, envVars, sharedVars,
         NoEntry, Entries
<1>2. Told
  BY <1>1, ToldFacts
<1>3. CASE Fetch(c)
  <2> DEFINE e == Harvest(req[c].entry)
             r1 == [req[c] EXCEPT !.pc = "store304", !.entry = e]
             r2 == [req[c] EXCEPT !.pc = "write", !.entry = e, !.data = Current]
  <2>1. e \in Entries /\ Current \in Nat
    BY <1>1, <1>3, HarvestType DEF Fetch
  <2>2. Current \in 1..Len(hist)
    BY <1>3, EmptySeq, LenProperties DEF Fetch, TypeOK, Current
  <2>3. Goto(c, r1) \/ Goto(c, r2)
    BY <1>3 DEF Fetch
  <2> HIDE DEF e
  <2>4. /\ r1 \in Requests /\ r1.pc = "store304" /\ r1.asked = req[c].asked
        /\ r1.ok = req[c].ok /\ r1.mine = req[c].mine
    BY <1>1, <2>1 DEF Requests, Pcs
  <2>5. /\ r2 \in Requests /\ r2.pc = "write" /\ r2.asked = req[c].asked
        /\ r2.ok = req[c].ok /\ r2.mine = req[c].mine /\ r2.data = Current
    BY <1>1, <2>1 DEF Requests, Pcs
  <2> HIDE DEF r1, r2
  <2>6. UNCHANGED clientVars
    BY <1>3 DEF Fetch
  <2>7. CASE Goto(c, r1)
    BY <1>1, <1>2, <2>4, <2>6, <2>7, MoveSilent DEF Carrying
  <2>8. CASE Goto(c, r2)
    BY <1>1, <1>2, <2>2, <2>5, <2>6, <2>8, MoveSilent
  <2> QED BY <2>3, <2>7, <2>8
<1>4. CASE FetchUnknown(c)
  <2>1. Refuse(c, 404) /\ 404 \in Statuses \ {200, 304}
    BY <1>4 DEF FetchUnknown, Statuses
  <2> QED BY <1>1, <1>2, <2>1, RefuseSilent
<1>5. ASSUME NEW trouble \in Troubles, FetchFails(c, trouble)
      PROVE  RefineInv' /\ UNCHANGED Gate!vars
  <2> DEFINE r == [req[c] EXCEPT !.pc = "readstale", !.entry = NoEntry,
                                 !.trouble = trouble]
  <2>1. /\ r \in Requests /\ r.pc = "readstale" /\ r.asked = req[c].asked
        /\ r.ok = req[c].ok /\ r.mine = req[c].mine
    BY <1>1 DEF Requests, Pcs
  <2>2. Goto(c, r) /\ UNCHANGED clientVars
    BY <1>5 DEF FetchFails
  <2> HIDE DEF r
  <2> QED BY <1>1, <1>2, <2>1, <2>2, MoveSilent DEF Carrying
<1> QED BY <1>3, <1>4, <1>5

(* Writing the file, and storing the metadata, under a body of a known     *)
(* revision; the client may already be told that its copy is good.         *)
LEMMA StoresRefine ==
  ASSUME ~RelabelsOn304, TypeOK, RefineInv, NEW c \in Clients,
         \/ WriteFile(c) \/ WriteFileFails(c) \/ StoreMeta200(c) \/ StoreMeta304(c)
  PROVE  RefineInv' /\ (Gate!Next \/ UNCHANGED Gate!vars)
<1>1. /\ req[c].pc \in {"write", "store200", "store304"} /\ req[c] \in Requests
      /\ req[c].entry \in Entries
      /\ UNCHANGED <<now, hist, window, memo>>
      /\ req[c].pc \in Carrying => req[c].data \in 1..Len(hist)
  BY DEF WriteFile, WriteFileFails, StoreMeta200, StoreMeta304, At, TypeOK, Requests,
         envVars, RefineInv, RequestTells, Carrying
<1>2. ASSUME NEW p \in {"store200", "render", "read304"},
             p \in Carrying => req[c].pc \in Carrying, Told, UNCHANGED clientVars,
             Goto(c, [req[c] EXCEPT !.pc = p])
      PROVE  RefineInv' /\ UNCHANGED Gate!vars
  <2> DEFINE r == [req[c] EXCEPT !.pc = p]
  <2>1. /\ r \in Requests /\ r.pc = p /\ r.asked = req[c].asked /\ r.data = req[c].data
        /\ r.ok = req[c].ok /\ r.mine = req[c].mine
    BY <1>1 DEF Requests, Pcs
  <2> HIDE DEF r
  <2>2. Goto(c, r)
    BY <1>2 DEF r
  <2> QED BY <1>1, <1>2, <2>1, <2>2, MoveSilent
<1>3. CASE WriteFile(c) \/ WriteFileFails(c)
  <2>1. /\ req[c].pc = "write" /\ UNCHANGED clientVars
        /\ Goto(c, [req[c] EXCEPT !.pc = "store200"])
        /\ disk' = disk \/ disk'.rev = req[c].data
    BY <1>3 DEF WriteFile, WriteFileFails, At, Written
  <2>2. Told
    BY <1>1, <2>1, ToldFacts DEF Carrying
  <2> QED BY <1>2, <2>1, <2>2 DEF Carrying
<1>4. CASE StoreMeta200(c)
  <2>1. req[c].pc = "store200" /\ Told
    BY <1>1, <1>4, ToldFacts DEF StoreMeta200, At
  <2>2. CASE MayNotModify(c, req[c].entry) /\ NotModified(c, req[c].entry)
    BY <1>1, <2>1, <2>2, NotModifiedRefines
  <2>3. CASE Goto(c, [req[c] EXCEPT !.pc = "render"]) /\ UNCHANGED clientVars
    BY <1>2, <2>1, <2>3 DEF Carrying
  <2> QED BY <1>4, <2>2, <2>3 DEF StoreMeta200
<1>5. CASE StoreMeta304(c)
  <2>1. req[c].pc = "store304" /\ Told
    BY <1>1, <1>5, ToldFacts DEF StoreMeta304, At
  <2>2. CASE MayNotModify(c, req[c].entry) /\ NotModified(c, req[c].entry)
    BY <1>1, <2>1, <2>2, NotModifiedRefines
  <2>3. CASE MemoHas(req[c].entry) /\ MemoHit(c, req[c].entry)
    BY <1>1, <2>1, <2>3, MemoHitRefines
  <2>4. CASE Goto(c, [req[c] EXCEPT !.pc = "read304"]) /\ UNCHANGED clientVars
    BY <1>2, <2>1, <2>4 DEF Carrying
  <2> QED BY <1>5, <2>2, <2>3, <2>4 DEF StoreMeta304
<1> QED BY <1>3, <1>4, <1>5

LEMMA RefusalsRefine ==
  ASSUME TypeOK, RefineInv, NEW c \in Clients, LostFile(c) \/ ReadStale(c)
  PROVE  RefineInv' /\ UNCHANGED Gate!vars
<1>1. /\ req[c].pc # "idle" /\ req[c] \in Requests /\ disk.rev \in Nat
      /\ UNCHANGED <<now, hist, window, disk, memo>>
  BY DEF LostFile, ReadStale, At, TypeOK, envVars, sharedVars
<1>2. Told
  BY <1>1, ToldFacts
<1>3. ASSUME NEW status \in {500, 502, 503}, Refuse(c, status)
      PROVE  RefineInv' /\ UNCHANGED Gate!vars
  <2>1. status \in Statuses \ {200, 304}
    BY DEF Statuses
  <2> QED BY <1>1, <1>2, <1>3, <2>1, RefuseSilent
<1>4. CASE LostFile(c)
  BY <1>3, <1>4 DEF LostFile
<1>5. CASE ReadStale(c)
  <2>1. CASE Refuse(c, StatusOf(req[c].trouble))
    BY <1>3, <2>1 DEF StatusOf
  <2>2. CASE /\ disk # NoFile /\ UNCHANGED clientVars
             /\ Goto(c, [req[c] EXCEPT !.pc = "findstale", !.data = disk.rev])
    <3> DEFINE r == [req[c] EXCEPT !.pc = "findstale", !.data = disk.rev]
    <3>1. /\ r \in Requests /\ r.pc = "findstale" /\ r.asked = req[c].asked
          /\ r.ok = req[c].ok /\ r.mine = req[c].mine /\ r.data = disk.rev
      BY <1>1 DEF Requests, Pcs
    <3>2. Goto(c, r) /\ disk.rev \in 1..Len(hist)
      BY <2>2 DEF RefineInv, DiskTells
    <3> HIDE DEF r
    <3> QED BY <1>1, <1>2, <2>2, <3>1, <3>2, MoveSilent
  <2> QED BY <1>5, <2>1, <2>2 DEF ReadStale
<1> QED BY <1>4, <1>5

LEMMA RenderRefines ==
  ASSUME TypeOK, RefineInv, NEW c \in Clients, Render(c)
  PROVE  RefineInv' /\ (Gate!Next \/ UNCHANGED Gate!vars)
<1>1. /\ req[c].pc = "render" /\ req[c] \in Requests /\ req[c].entry \in Entries
      /\ UNCHANGED <<now, hist, window, disk, memo>>
      /\ req[c].data \in 1..Len(hist)
  BY DEF Render, At, TypeOK, Requests, envVars, sharedVars, RefineInv, RequestTells
<1>2. Told
  BY <1>1, ToldFacts
<1>3. CASE /\ Cutoff = Unfiltered
           /\ Ok(c, req[c].entry, NoMarker, req[c].data, 1..req[c].data)
  <2>1. window = 0 /\ NoMarker \in Markers
    BY <1>3, CutoffFacts DEF NoMarker, Markers
  <2>2. ServesView(c, NoMarker, req[c].data, 1..req[c].data)
    BY <2>1 DEF ServesView
  <2> QED BY <1>1, <1>2, <1>3, <2>1, <2>2, OkRefines
<1>4. CASE MemoHas(req[c].entry) /\ MemoHit(c, req[c].entry)
  BY <1>1, <1>2, <1>4, MemoHitRefines
<1>5. CASE /\ Cutoff # Unfiltered /\ UNCHANGED clientVars
           /\ Goto(c, [req[c] EXCEPT !.pc = "filter", !.cut = Cutoff])
  <2> DEFINE r == [req[c] EXCEPT !.pc = "filter", !.cut = Cutoff]
  <2>1. Cutoff \in Nat /\ window > 0 /\ window \in Nat /\ now \in Nat
    BY <1>5, CutoffFacts
  <2>2. /\ r \in Requests /\ r.pc = "filter" /\ r.asked = req[c].asked /\ r.cut = Cutoff
        /\ r.ok = req[c].ok /\ r.mine = req[c].mine /\ r.data = req[c].data
    BY <1>1, <2>1 DEF Requests, Pcs
  <2>3. Goto(c, r)
    BY <1>5
  <2> HIDE DEF r
  <2>4. /\ CutoffFrom(req[c].asked, window) <= Cutoff
        /\ Cutoff <= CutoffFrom(now, window)
    <3>1. req[c].asked \in Nat /\ req[c].asked <= now
      BY <1>1, PendingFacts
    <3>2. CutoffFrom(req[c].asked, window) <= CutoffFrom(now, window)
      BY <2>1, <3>1, CutoffOrder
    <3> QED BY <2>1, <3>2 DEF Cutoff
  <2>5. RequestTells(req[c], copy[c], resp[c], hist, now, window)
    BY DEF RefineInv
  <2>6. RequestTells(r, copy[c], resp[c], hist, now, window)
    BY <1>1, <2>1, <2>2, <2>4, <2>5 DEF RequestTells
  <2> QED BY <1>2, <1>5, <2>2, <2>3, <2>6, GotoSilent
<1> QED BY <1>3, <1>4, <1>5 DEF Render

(* The memo and the client get the body under the bucket of the cutoff it  *)
(* was filtered by.                                                        *)
LEMMA FilterDoneRefines ==
  ASSUME TypeOK, RefineInv, NEW c \in Clients, FilterDone(c)
  PROVE  RefineInv' /\ Gate!Next
<1> DEFINE r == req[c]
           body == FilterIndex(hist, r.data, r.cut)
           m == CapturedMarker(c)
<1>1. /\ r.pc = "filter" /\ r \in Requests /\ r.entry \in Entries /\ r.cut \in Nat
      /\ r.asked \in Nat /\ UNCHANGED <<now, hist, window, disk>>
  BY DEF FilterDone, At, TypeOK, Requests, envVars
<1>2. RequestTells(r, copy[c], resp[c], hist, now, window)
  BY DEF RefineInv
<1>3. /\ memo' = memo \/ (memo'.bkt = Bucket(r.cut) /\ memo'.rev = r.data
                            /\ memo'.lines = body)
      /\ Ok(c, r.entry, m, r.data, body)
  BY DEF FilterDone
<1> HIDE DEF r, body, m
<1>4. /\ r.data \in 1..Len(hist) /\ window > 0 /\ r.cut <= CutoffFrom(now, window)
      /\ CutoffFrom(r.asked, window) <= r.cut
  BY <1>1, <1>2 DEF RequestTells
<1>5. Seen(body, r.data, window, Bucket(r.cut), hist, now)
  BY <1>1, <1>4 DEF Seen, body
<1>6. Told
  <2>1. MemoTells(memo', hist, now, window)
    BY <1>3, <1>5 DEF MemoTells, RefineInv
  <2> QED BY <1>1, <2>1 DEF Told, RefineInv
<1>7. /\ m = [win |-> window, bkt |-> Bucket(r.cut)] /\ window \in Nat
      /\ Bucket(r.cut) \in Nat
  <2>1. window \in Nat
    BY CutoffFacts
  <2>2. r.cut # Unfiltered
    BY <1>1 DEF Unfiltered
  <2>3. Bucket(r.cut) \in Nat
    BY <1>1, BucketType
  <2> QED BY <2>1, <2>2, <2>3 DEF m, CapturedMarker, MarkerAt, r
<1>8. m \in Markers /\ m # NoMarker /\ m.win = window /\ m.bkt = Bucket(r.cut)
  BY <1>4, <1>7 DEF Markers, NoMarker
<1>9. Bucket(CutoffFrom(r.asked, window)) <= Bucket(r.cut)
  <2>1. CutoffFrom(r.asked, window) \in Nat
    <3>1. /\ CutoffFrom(r.asked, window) \in Nat \cup {Unfiltered}
          /\ window = 0 <=> CutoffFrom(r.asked, window) = Unfiltered
      BY <1>1, <1>7, CutoffType
    <3> QED BY <1>4, <3>1
  <2> QED BY <1>1, <1>4, <2>1, BucketOrder
<1>10. ServesView(c, m, r.data, body)
  BY <1>4, <1>5, <1>8, <1>9 DEF ServesView, r
<1>11. req[c].pc # "idle"
  BY <1>1 DEF r
<1> QED BY <1>1, <1>3, <1>4, <1>6, <1>8, <1>10, <1>11, OkRefines

LEMMA DisconnectRefines ==
  ASSUME TypeOK, RefineInv, NEW c \in Clients, Disconnect(c)
  PROVE  RefineInv' /\ Gate!Next
<1>1. /\ req[c].pc # "idle" /\ UNCHANGED <<now, hist, window, memo, copy, resp>>
      /\ req' = [req EXCEPT ![c] = NoRequest] /\ req \in [Clients -> Requests]
      /\ disk' = disk \/ (req[c].pc = "write" /\ disk'.rev = req[c].data)
  BY DEF Disconnect, At, Goto, TypeOK, clientVars, Written
<1>2. Told
  <2>1. req[c].pc = "write" => req[c].data \in 1..Len(hist)
    BY DEF RefineInv, RequestTells
  <2> QED BY <1>1, <2>1, ToldFacts
<1>3. \A d \in Clients : \/ d # c /\ req'[d] = req[d]
                         \/ d = c /\ req'[d] = NoRequest
  BY <1>1
<1>4. RequestTells(NoRequest, copy[c], resp[c], hist, now, window)
  BY DEF RequestTells, NoRequest
<1>5. RefineInv'
  BY <1>1, <1>2, <1>3, <1>4 DEF RefineInv, Told
<1>6. Asking' = [Asking EXCEPT ![c] = 0]
  <2>1. resp[c].asked = 0
    BY <1>1, PendingFacts DEF NoAnswer
  <2>2. \A d \in Clients : req'[d].asked + resp'[d].asked =
          IF d = c THEN 0 ELSE req[d].asked + resp[d].asked
    BY <1>1, <1>3, <2>1 DEF NoRequest
  <2> QED BY <2>2 DEF Asking
<1>7. Answering' = Answering /\ Holding' = Holding
  BY <1>1 DEF Answering, Answered, Holding
<1>8. Gate!GiveUp(c)
  BY <1>1, <1>6, <1>7 DEF Gate!GiveUp, Asking, Answering, Holding
<1> QED BY <1>5, <1>8 DEF Gate!Next

(* Time passes, upstream publishes: what is known stays known.             *)
LEMMA TimeRefines ==
  ASSUME TypeOK, RefineInv, Tick \/ \E dated \in Dating : Publish(dated)
  PROVE  RefineInv' /\ Gate!Next
<1>1. UNCHANGED <<window, disk, memo, req, copy, resp>>
  BY DEF Tick, Publish, sharedVars, clientVars
<1>2. now \in Nat /\ window \in Nat /\ hist \in Seq(HistType) /\ Len(hist) \in Nat
  BY CutoffFacts DEF TypeOK, HistType
<1>3. Later(hist, now, hist', now')
  <2>1. CASE Tick
    <3>1. now' = now + 1 /\ hist' = hist
      BY <2>1 DEF Tick
    <3> QED BY <1>2, <3>1 DEF Later
  <2>2. ASSUME NEW dated \in Dating, Publish(dated)
        PROVE  Later(hist, now, hist', now')
    <3> DEFINE v == [at |-> now, dated |-> dated]
    <3>1. now' = now /\ hist' = Append(hist, v) /\ v \in HistType
      BY <1>2, <2>2 DEF Publish, HistType
    <3> HIDE DEF v
    <3>2. /\ Len(hist') = Len(hist) + 1
          /\ \A i \in 1..Len(hist) : hist'[i] = hist[i]
      BY <1>2, <3>1, AppendProperties
    <3> QED BY <1>2, <3>1, <3>2 DEF Later
  <2> QED BY <2>1, <2>2
<1>4. RefineInv'
  <2>1. DiskTells(disk, hist')
    BY <1>3 DEF RefineInv, DiskTells, Later
  <2>2. MemoTells(memo, hist', now', window)
    BY <1>2, <1>3, MemoTellsLater DEF RefineInv
  <2>3. ASSUME NEW c \in Clients
        PROVE  /\ CopyTells(copy[c], hist', now')
               /\ RequestTells(req[c], copy[c], resp[c], hist', now', window)
    <3>1. copy[c] \in Copies /\ req[c] \in Requests
      BY DEF TypeOK
    <3>2. /\ CopyTells(copy[c], hist, now)
          /\ RequestTells(req[c], copy[c], resp[c], hist, now, window)
      BY DEF RefineInv
    <3> QED BY <1>2, <1>3, <3>1, <3>2, CopyTellsLater, RequestTellsLater
  <2> QED BY <1>1, <2>1, <2>2, <2>3 DEF RefineInv
<1>5. Asking' = Asking /\ Answering' = Answering /\ Holding' = Holding
  BY <1>1 DEF Asking, Answering, Answered, Holding
<1>6. CASE Tick
  BY <1>1, <1>4, <1>5, <1>6
     DEF Tick, Gate!Next, Gate!Tick, Asking, Answering, Holding
<1>7. ASSUME NEW dated \in Dating, Publish(dated)
      PROVE  Gate!Next
  <2>1. dated \in BOOLEAN
    BY IndexAssumption
  <2>2. Gate!Publish(dated)
    BY <1>1, <1>5, <1>7 DEF Publish, Gate!Publish, Asking, Answering, Holding
  <2> QED BY <2>1, <2>2 DEF Gate!Next
<1> QED BY <1>4, <1>6, <1>7

LEMMA RestartRefines ==
  ASSUME TypeOK, RefineInv, NEW w \in Windows, Restart(w)
  PROVE  RefineInv' /\ Gate!Next
<1>1. /\ window' = w /\ memo' = NoMemo /\ UNCHANGED <<now, hist, disk, copy>>
      /\ \A c \in Clients : req'[c] = NoRequest /\ resp'[c] = NoAnswer
  BY DEF Restart
<1>2. RefineInv'
  <2>1. MemoTells(NoMemo, hist, now, w)
    BY DEF MemoTells, NoMemo
  <2>2. \A k : RequestTells(NoRequest, k, NoAnswer, hist, now, w)
    BY DEF RequestTells, NoRequest
  <2> QED BY <1>1, <2>1, <2>2 DEF RefineInv
<1>3. Asking' = [c \in Clients |-> 0]
  <2>1. \A c \in Clients : req'[c].asked + resp'[c].asked = 0
    BY <1>1 DEF NoRequest, NoAnswer
  <2> QED BY <2>1 DEF Asking
<1>4. Answering' = [c \in Clients |-> FALSE]
  <2>1. ASSUME NEW c \in Clients PROVE Answered(c)' = FALSE
    BY <1>1 DEF Answered, NoAnswer
  <2> QED BY <2>1 DEF Answering
<1>5. Holding' = Holding
  BY <1>1 DEF Holding
<1>6. Gate!Restart(w)
  BY <1>1, <1>3, <1>4, <1>5 DEF Gate!Restart, Asking, Answering, Holding
<1> QED BY <1>2, <1>6 DEF Gate!Next

LEMMA ForgettingRefines ==
  ASSUME TypeOK, RefineInv, WipeFile \/ EvictMeta \/ EvictMemo
  PROVE  RefineInv' /\ UNCHANGED Gate!vars
<1>1. /\ UNCHANGED <<now, hist, window, req, copy, resp>>
      /\ disk' \in {disk, NoFile} /\ memo' \in {memo, NoMemo}
  BY DEF WipeFile, EvictMeta, EvictMemo, clientVars
<1>2. DiskTells(NoFile, hist) /\ MemoTells(NoMemo, hist, now, window)
  BY DEF DiskTells, MemoTells, NoMemo
<1>3. RefineInv'
  BY <1>1, <1>2 DEF RefineInv
<1>4. UNCHANGED Gate!vars
  BY <1>1 DEF Gate!vars, Answered
<1> QED BY <1>3, <1>4

LEMMA RefineInit == Init => RefineInv /\ Gate!Init
<1> SUFFICES ASSUME Init PROVE RefineInv /\ Gate!Init
  OBVIOUS
<1>1. /\ disk = NoFile /\ memo = NoMemo /\ now = 1 /\ hist = <<>> /\ window \in Windows
      /\ \A c \in Clients : req[c] = NoRequest /\ copy[c] = NoCopy /\ resp[c] = NoAnswer
  BY DEF Init
<1>2. RefineInv
  BY <1>1 DEF RefineInv, DiskTells, MemoTells, NoMemo, CopyTells, NoCopy, RequestTells,
              NoRequest
<1>3. Asking = [c \in Clients |-> 0]
  <2>1. \A c \in Clients : req[c].asked + resp[c].asked = 0
    BY <1>1 DEF NoRequest, NoAnswer
  <2> QED BY <2>1 DEF Asking
<1>4. Answering = [c \in Clients |-> FALSE]
  <2>1. ASSUME NEW c \in Clients PROVE Answered(c) = FALSE
    BY <1>1 DEF Answered, NoAnswer
  <2> QED BY <2>1 DEF Answering
<1>5. Holding = [c \in Clients |-> {}]
  <2>1. \A c \in Clients : copy[c].lines = {}
    BY <1>1 DEF NoCopy
  <2> QED BY <2>1 DEF Holding
<1>6. Gate!Init
  BY <1>1, <1>3, <1>4, <1>5 DEF Gate!Init, Asking, Answering, Holding
<1> QED BY <1>2, <1>6

LEMMA RefineNext ==
  ASSUME ~RelabelsOn304
  PROVE  TypeOK /\ RefineInv /\ [Next]_vars => RefineInv' /\ [Gate!Next]_(Gate!vars)
<1> SUFFICES ASSUME TypeOK, RefineInv, [Next]_vars
             PROVE  RefineInv' /\ [Gate!Next]_(Gate!vars)
  OBVIOUS
<1>1. ASSUME NEW c \in Clients, Begin(c) \/ Step(c)
      PROVE  RefineInv' /\ (Gate!Next \/ UNCHANGED Gate!vars)
  BY <1>1, BeginRefines, LookupRefines, ReadsRefine, FetchRefines, StoresRefine,
     RefusalsRefine, RenderRefines, FilterDoneRefines DEF Step
<1>2. ASSUME NEW c \in Clients, StepFails(c)
      PROVE  RefineInv' /\ (Gate!Next \/ UNCHANGED Gate!vars)
  BY <1>2, StoresRefine, DisconnectRefines, FetchRefines DEF StepFails
<1>3. CASE Environment
  BY <1>3, TimeRefines, RestartRefines, ForgettingRefines DEF Environment
<1>4. CASE UNCHANGED vars
  <2>1. UNCHANGED <<now, hist, window, disk, memo, req, copy, resp>>
    BY <1>4 DEF vars, envVars, sharedVars, clientVars
  <2> QED BY <2>1 DEF RefineInv, Gate!vars, Answered
<1> QED BY <1>1, <1>2, <1>3, <1>4 DEF Next

(* The handler implements the age gate: whatever its caches, its 304s, its *)
(* failures and its restarts do, each client gets the answers AgeGate      *)
(* allows, and no others. A client that adopts the ETag of a 304 is out:   *)
(* with RelabelsOn304 the code does not keep the promise.                  *)
THEOREM RefinesAgeGateHolds ==
  ASSUME ~RelabelsOn304
  PROVE  Spec => RefinesAgeGate
<1>1. TypeOK /\ RefineInv /\ [Next]_vars => RefineInv' /\ [Gate!Next]_(Gate!vars)
  BY RefineNext
<1>2. Spec => [](TypeOK /\ RefineInv)
  BY <1>1, TypeCorrect, RefineInit, PTL DEF Spec
<1>3. Spec => [][Gate!Next]_(Gate!vars)
  BY <1>1, <1>2, PTL DEF Spec
<1> QED BY <1>3, RefineInit, PTL DEF Spec, RefinesAgeGate, Gate!Spec
-----------------------------------------------------------------------------
(* The downloads.                                                          *)

USE DownloadAssumption

LEMMA NoDownloadType == NoDownload \in Downloads /\ NoReply \in Replies
  BY DEF NoDownload, NoReply, Downloads, Replies, DlPcs, NoEntry, Entries

LEMMA DownloadFields ==
  ASSUME DownloadTypeOK, NEW d \in Downloaders
  PROVE  /\ dl \in [Downloaders -> Downloads] /\ reply \in [Downloaders -> Replies]
         /\ dl[d] \in Downloads /\ dl[d].data \in Nat /\ dl[d].entry \in Entries
         /\ dl[d].cut \in Nat \cup {Unfiltered} /\ dl[d].ver \in Versions \cup {0}
         /\ TypeOK /\ crates \in SUBSET Versions
<1>1. dl \in [Downloaders -> Downloads] /\ reply \in [Downloaders -> Replies]
  BY DEF DownloadTypeOK
<1>2. dl[d] \in Downloads
  BY <1>1
<1> QED BY <1>1, <1>2 DEF Downloads, DownloadTypeOK

(* How a step leaves the downloads typed.                                  *)
DownloadersTyped == dl' \in [Downloaders -> Downloads] /\ reply' \in [Downloaders -> Replies]

LEMMA DlGotoTyped ==
  ASSUME DownloadTypeOK, NEW d \in Downloaders, NEW r \in Downloads, DlGoto(d, r)
  PROVE  DownloadersTyped
  BY DownloadFields DEF DlGoto, DownloadersTyped

LEMMA ReplyTyped ==
  ASSUME DownloadTypeOK, NEW d \in Downloaders, NEW status,
         status \in {200, 403, 404, 500, 502, 507}, Reply(d, status)
  PROVE  DownloadersTyped
<1>1. [status |-> status, ver |-> dl[d].ver] \in Replies
  BY DownloadFields DEF Replies
<1> QED BY <1>1, NoDownloadType, DownloadFields DEF Reply, DownloadersTyped

LEMMA MoveType ==
  ASSUME DownloadTypeOK, NEW d \in Downloaders, ~DlAt(d, "idle"), NEW pc \in DlPcs
  PROVE  [dl[d] EXCEPT !.pc = pc] \in Downloads
  BY DownloadFields DEF Downloads, DlAt

LEMMA VerdictTyped ==
  ASSUME DownloadTypeOK, NEW d \in Downloaders, ~DlAt(d, "idle"), NEW rev, Verdict(d, rev)
  PROVE  DownloadersTyped
<1>1. [dl[d] EXCEPT !.pc = "crate"] \in Downloads
  BY MoveType DEF DlPcs
<1>2. CASE DlGoto(d, [dl[d] EXCEPT !.pc = "crate"])
  BY <1>1, <1>2, DlGotoTyped
<1>3. CASE Reply(d, 403)
  BY <1>3, ReplyTyped
<1> QED BY <1>2, <1>3 DEF Verdict

LEMMA JoinTyped ==
  ASSUME TypeOK', DownloadersTyped, crates' \in SUBSET Versions
  PROVE  DownloadTypeOK'
  BY DEF DownloadTypeOK, DownloadersTyped

(* What a download does to the index handler's state: nothing, or a body   *)
(* or entry put into the shared caches.                                    *)
LEMMA IndexTyped ==
  ASSUME TypeOK, faults' \in Nat, disk' \in [rev : Nat, mtime : Nat], meta' \in Entries,
         UNCHANGED <<now, hist, window, memo, req, clientVars>>
  PROVE  TypeOK'
<1>1. UNCHANGED <<now, hist, window, memo, req, copy, resp>>
  BY DEF clientVars
<1> QED BY <1>1 DEF TypeOK

LEMMA IndexKept ==
  ASSUME TypeOK, UNCHANGED vars
  PROVE  TypeOK'
<1>1. UNCHANGED <<now, hist, faults, window, disk, meta, memo, req, copy, resp>>
  BY DEF vars, envVars, sharedVars, clientVars
<1> QED BY <1>1 DEF TypeOK

LEMMA DownloadTyped ==
  ASSUME DownloadTypeOK, NEW d \in Downloaders, NEW v \in Versions, Download(d, v)
  PROVE  DownloadTypeOK'
<1> DEFINE r == [NoDownload EXCEPT !.pc = IF Gated THEN "gate" ELSE "crate",
                                   !.ver = v, !.cut = IF Gated THEN Cutoff ELSE Unfiltered]
<1>1. /\ dl' = [dl EXCEPT ![d] = r] /\ reply' = [reply EXCEPT ![d] = NoReply]
      /\ UNCHANGED <<vars, crates>>
  BY DEF Download
<1>2. r \in Downloads
  <2>1. Cutoff \in Nat \cup {Unfiltered}
    <3>1. now \in Nat /\ window \in Nat
      BY DownloadFields, ServeMarkerType
    <3> QED BY <3>1, CutoffType DEF Cutoff
  <2> QED BY <2>1, NoDownloadType DEF NoDownload, Downloads, DlPcs
<1> HIDE DEF r
<1>3. DownloadersTyped
  BY <1>1, <1>2, NoDownloadType, DownloadFields DEF DownloadersTyped
<1> QED BY <1>1, <1>3, IndexKept, JoinTyped, DownloadFields

(* The steps that leave the index handler's state alone.                   *)
LEMMA QuietTyped ==
  ASSUME DownloadTypeOK, NEW d \in Downloaders,
         \/ GateRead(d) \/ GateFetch(d) \/ ReadCrate(d) \/ DownloadCrate(d) \/ StoreCrate(d)
  PROVE  DownloadTypeOK'
<1> DEFINE Fetched == [dl[d] EXCEPT !.pc = "gatewrite", !.data = Current,
                                    !.entry = Harvest(NoEntry)]
<1>1. UNCHANGED vars /\ ~DlAt(d, "idle")
  BY DEF GateRead, GateFetch, ReadCrate, DownloadCrate, StoreCrate, DlAt
<1>2. \/ Verdict(d, disk.rev)
      \/ Reply(d, 200) \/ Reply(d, 403) \/ Reply(d, 404)
      \/ DlGoto(d, [dl[d] EXCEPT !.pc = "gatefetch"])
      \/ DlGoto(d, [dl[d] EXCEPT !.pc = "download"])
      \/ DlGoto(d, [dl[d] EXCEPT !.pc = "store"])
      \/ hist # <<>> /\ DlGoto(d, Fetched)
  BY DEF GateRead, GateFetch, ReadCrate, DownloadCrate, StoreCrate
<1>3. crates' \in SUBSET Versions
  BY <1>1, DownloadFields DEF GateRead, GateFetch, ReadCrate, DownloadCrate, StoreCrate,
     DlAt, Downloads
<1>4. ASSUME hist # <<>>, DlGoto(d, Fetched) PROVE DownloadersTyped
  <2>1. Harvest(NoEntry) \in Entries /\ Current \in Nat /\ dl[d] \in Downloads
    <3>1. NoEntry \in Entries
      BY DEF NoEntry, Entries
    <3> QED BY <1>4, <3>1, HarvestType, DownloadFields
  <2>2. Fetched \in Downloads
    BY <1>1, <2>1 DEF Downloads, DlPcs, DlAt
  <2> HIDE DEF Fetched
  <2> QED BY <1>4, <2>2, DlGotoTyped
<1> HIDE DEF Fetched
<1>5. ASSUME NEW pc \in DlPcs, DlGoto(d, [dl[d] EXCEPT !.pc = pc]) PROVE DownloadersTyped
  BY <1>1, <1>5, MoveType, DlGotoTyped
<1>6. DownloadersTyped
  <2>1. {"gatefetch", "download", "store"} \subseteq DlPcs
    BY DEF DlPcs
  <2>2. CASE Verdict(d, disk.rev)
    BY <1>1, <2>2, VerdictTyped
  <2>3. CASE Reply(d, 200) \/ Reply(d, 403) \/ Reply(d, 404)
    BY <2>3, ReplyTyped
  <2> QED BY <1>2, <1>4, <1>5, <2>1, <2>2, <2>3
<1> QED BY <1>1, <1>3, <1>6, IndexKept, JoinTyped, DownloadFields

(* The body a gate fetch puts in the file, and its entry.                  *)
LEMMA GateFileType ==
  ASSUME DownloadTypeOK, NEW d \in Downloaders
  PROVE  /\ [rev |-> dl[d].data, mtime |-> FileTime(dl[d].entry)] \in [rev : Nat, mtime : Nat]
         /\ [rev |-> dl[d].data, mtime |-> now] \in [rev : Nat, mtime : Nat]
         /\ disk \in [rev : Nat, mtime : Nat] /\ meta \in Entries /\ faults \in Nat
<1>1. now \in Nat /\ dl[d].data \in Nat /\ dl[d].entry.mtime \in Nat
  BY DownloadFields, CutoffFacts DEF Entries
<1>2. FileTime(dl[d].entry) \in Nat
  BY <1>1 DEF FileTime
<1> QED BY <1>1, <1>2, DownloadFields DEF TypeOK

LEMMA GateWriteTyped ==
  ASSUME DownloadTypeOK, NEW d \in Downloaders, GateWrite(d) \/ GateWriteFails(d)
  PROVE  DownloadTypeOK'
<1>1. /\ DlGoto(d, [dl[d] EXCEPT !.pc = "gatestore"]) /\ ~DlAt(d, "idle")
      /\ UNCHANGED <<now, hist, window, meta, memo, req, clientVars, crates>>
  BY DEF GateWrite, GateWriteFails, DlAt, envVars
<1>2. [dl[d] EXCEPT !.pc = "gatestore"] \in Downloads
  BY <1>1, MoveType DEF DlPcs
<1>3. faults' \in Nat
  BY DownloadFields, FaultType, GateFileType DEF GateWrite, GateWriteFails, envVars
<1>4. disk' \in [rev : Nat, mtime : Nat]
  BY GateFileType DEF GateWrite, GateWriteFails
<1>5. TypeOK'
  BY <1>1, <1>3, <1>4, DownloadFields, GateFileType, IndexTyped
<1> QED BY <1>1, <1>2, <1>5, DlGotoTyped, JoinTyped, DownloadFields

LEMMA GateStoreTyped ==
  ASSUME DownloadTypeOK, NEW d \in Downloaders, GateStore(d)
  PROVE  DownloadTypeOK'
<1>1. /\ Verdict(d, dl[d].data) /\ ~DlAt(d, "idle") /\ meta' = dl[d].entry
      /\ UNCHANGED <<now, hist, faults, window, disk, memo, req, clientVars, crates>>
  BY DEF GateStore, DlAt, envVars
<1>2. TypeOK'
  BY <1>1, DownloadFields, GateFileType, IndexTyped
<1> QED BY <1>1, <1>2, VerdictTyped, JoinTyped, DownloadFields

(* A download that fails, or whose client hangs up.                        *)
LEMMA FailuresTyped ==
  ASSUME DownloadTypeOK, NEW d \in Downloaders,
         \/ GateFetchFails(d) \/ StoreCrateFails(d) \/ HangUp(d)
         \/ \E status \in {500, 502, 507} : DownloadFails(d, status)
  PROVE  DownloadTypeOK'
<1>1. Fault /\ UNCHANGED <<now, hist, window, meta, memo, req, clientVars>>
  BY DEF GateFetchFails, StoreCrateFails, HangUp, DownloadFails, sharedVars
<1>2. disk' \in [rev : Nat, mtime : Nat]
  BY GateFileType DEF GateFetchFails, StoreCrateFails, HangUp, DownloadFails, sharedVars
<1>3. crates' \in SUBSET Versions
  BY DownloadFields DEF GateFetchFails, StoreCrateFails, HangUp, DownloadFails, DlAt, Downloads
<1>4. TypeOK'
  BY <1>1, <1>2, DownloadFields, FaultType, GateFileType, IndexTyped
<1>5. \/ Reply(d, 403) \/ Reply(d, 200) \/ Reply(d, 500) \/ Reply(d, 502) \/ Reply(d, 507)
      \/ DlGoto(d, NoDownload)
  BY DEF GateFetchFails, StoreCrateFails, HangUp, DownloadFails
<1>6. DownloadersTyped
  BY <1>5, ReplyTyped, DlGotoTyped, NoDownloadType
<1> QED BY <1>3, <1>4, <1>6, JoinTyped

LEMMA PurgeTyped ==
  ASSUME DownloadTypeOK, \E vs \in SUBSET crates : Purge(vs)
  PROVE  DownloadTypeOK'
<1>1. UNCHANGED <<vars, dl, reply>> /\ crates' \in SUBSET Versions
  BY DEF Purge, DownloadTypeOK
<1>2. TypeOK'
  BY <1>1, IndexKept DEF DownloadTypeOK
<1> QED BY <1>1, <1>2 DEF DownloadTypeOK

LEMMA RestartAllTyped ==
  ASSUME DownloadTypeOK, NEW w \in Windows, RestartAll(w)
  PROVE  DownloadTypeOK'
<1>1. TypeOK'
  BY EnvironmentTyped DEF RestartAll, Environment, DownloadTypeOK
<1> QED BY <1>1, NoDownloadType DEF RestartAll, DownloadTypeOK

LEMMA DownloadInitTyped == DownloadInit => DownloadTypeOK
  BY InitTyped, NoDownloadType DEF DownloadInit, DownloadTypeOK

LEMMA IndexNextIsNext == IndexNext => Next
  BY DEF IndexNext, Next, Environment

LEMMA DownloadNextTyped == DownloadTypeOK /\ [DownloadNext]_allVars => DownloadTypeOK'
<1> SUFFICES ASSUME DownloadTypeOK, [DownloadNext]_allVars PROVE DownloadTypeOK'
  OBVIOUS
<1>1. CASE (IndexNext \/ UNCHANGED vars) /\ UNCHANGED downloadVars
  <2>1. TypeOK'
    BY <1>1, IndexNextIsNext, NextTyped DEF DownloadTypeOK
  <2>2. UNCHANGED <<crates, dl, reply>>
    BY <1>1 DEF downloadVars
  <2> QED BY <2>1, <2>2 DEF DownloadTypeOK
<1>2. ASSUME NEW w \in Windows, RestartAll(w) PROVE DownloadTypeOK'
  BY <1>2, RestartAllTyped
<1>3. ASSUME NEW d \in Downloaders, NEW v \in Versions, Download(d, v) PROVE DownloadTypeOK'
  BY <1>3, DownloadTyped
<1>4. ASSUME NEW d \in Downloaders, DownloadStep(d) \/ DownloadStepFails(d)
      PROVE  DownloadTypeOK'
  BY <1>4, QuietTyped, GateWriteTyped, GateStoreTyped, FailuresTyped
     DEF DownloadStep, DownloadStepFails
<1> QED BY <1>1, <1>2, <1>3, <1>4, PurgeTyped DEF DownloadNext, allVars

(* The caches, the index requests and the downloads keep to their types.   *)
THEOREM DownloadTypeCorrect == DownloadSpec => []DownloadTypeOK
<1> QED BY DownloadInitTyped, DownloadNextTyped, PTL DEF DownloadSpec
-----------------------------------------------------------------------------
(* The gate. GateInv is read one download at a time.                       *)

GateOk(r) ==
  /\ r.pc \in {"gate", "gatefetch", "gatewrite", "gatestore"} =>
       window > 0 /\ (r.cut = 0 \/ r.cut + window <= now)
  /\ r.data <= Len(hist)
  /\ r.pc \in {"crate", "download", "store"} /\ RestrictDownloads /\ window > 0 =>
       Cleared(r.ver)

ReplyOk(p) == RestrictDownloads /\ window > 0 /\ p.status = 200 => Cleared(p.ver)

LEMMA GateInvParts ==
  GateInv <=> \A d \in Downloaders : GateOk(dl[d]) /\ ReplyOk(reply[d])
  BY DEF GateInv, GateHolds, AtGate, PastGate, GateOk, ReplyOk

LEMMA GateInvNext ==
  ASSUME \A d \in Downloaders : GateOk(dl[d])' /\ ReplyOk(reply[d])'
  PROVE  GateInv'
  BY DEF GateInv, GateHolds, AtGate, PastGate, GateOk, ReplyOk

LEMMA EmptyOk ==
  ASSUME TypeOK
  PROVE  GateOk(NoDownload) /\ ReplyOk(NoReply)
  BY CutoffFacts DEF GateOk, ReplyOk, NoDownload, NoReply

(* A step of one download.                                                 *)
LEMMA GateStepInv ==
  ASSUME DownloadTypeOK, GateInv, NEW d \in Downloaders, NEW r, NEW p,
         dl' = [dl EXCEPT ![d] = r], reply' = [reply EXCEPT ![d] = p],
         GateOk(r), ReplyOk(p), UNCHANGED <<now, hist, window>>
  PROVE  GateInv'
<1>1. ASSUME NEW e \in Downloaders PROVE GateOk(dl[e])' /\ ReplyOk(reply[e])'
  <2>1. GateOk(dl'[e]) /\ ReplyOk(reply'[e])
    BY GateInvParts DEF DownloadTypeOK
  <2> QED BY <2>1 DEF GateOk, ReplyOk, Cleared
<1> QED BY <1>1, GateInvNext

LEMMA DlGotoInv ==
  ASSUME DownloadTypeOK, GateInv, NEW d \in Downloaders, NEW r, DlGoto(d, r), GateOk(r),
         UNCHANGED <<now, hist, window>>
  PROVE  GateInv'
<1>1. dl' = [dl EXCEPT ![d] = r] /\ reply' = [reply EXCEPT ![d] = reply[d]]
  BY DEF DlGoto, DownloadTypeOK
<1>2. ReplyOk(reply[d])
  BY GateInvParts
<1> QED BY <1>1, <1>2, GateStepInv

LEMMA ReplyInv ==
  ASSUME DownloadTypeOK, GateInv, NEW d \in Downloaders, NEW status, Reply(d, status),
         status = 200 => PastGate(d), UNCHANGED <<now, hist, window>>
  PROVE  GateInv'
<1> DEFINE p == [status |-> status, ver |-> dl[d].ver]
<1>1. dl' = [dl EXCEPT ![d] = NoDownload] /\ reply' = [reply EXCEPT ![d] = p]
  BY DEF Reply
<1>2. GateOk(NoDownload)
  BY EmptyOk DEF DownloadTypeOK
<1>3. ReplyOk(p)
  BY GateInvParts DEF ReplyOk, GateOk, PastGate
<1> QED BY <1>1, <1>2, <1>3, GateStepInv

(* A version whose date in a known revision is at or below a cutoff in the *)
(* past has been published for a window.                                   *)
LEMMA OldEnoughCleared ==
  ASSUME DownloadTypeOK, CooldownInv, GateInv, NEW d \in Downloaders, AtGate(d),
         NEW rev \in Nat, rev <= Len(hist), OldEnough(d, rev)
  PROVE  Cleared(dl[d].ver)
<1> DEFINE v == dl[d].ver
<1>1. /\ v \in 1..rev /\ hist[v].dated /\ hist[v].at <= dl[d].cut
      /\ now \in Nat /\ window \in Nat /\ Len(hist) \in Nat
  BY CutoffFacts DEF OldEnough, DownloadTypeOK
<1>2. v \in 1..Len(hist) /\ hist[v].at \in 1..now
  BY <1>1 DEF CooldownInv, PublishedInPast
<1>3. dl[d].cut = 0 \/ dl[d].cut + window <= now
  BY DEF GateInv
<1>4. dl[d].cut \in Nat
  BY <1>1, <1>2, DownloadFields DEF Unfiltered
<1>5. hist[v].at + window <= now
  BY <1>1, <1>2, <1>3, <1>4
<1> QED BY <1>1, <1>2, <1>5 DEF Cleared

LEMMA VerdictInv ==
  ASSUME DownloadTypeOK, CooldownInv, GateInv, NEW d \in Downloaders, AtGate(d),
         NEW rev \in Nat, rev <= Len(hist), Verdict(d, rev), UNCHANGED <<now, hist, window>>
  PROVE  GateInv'
<1> DEFINE r == [dl[d] EXCEPT !.pc = "crate"]
<1>1. CASE OldEnough(d, rev)
  <2>1. DlGoto(d, r) /\ Cleared(dl[d].ver) /\ GateOk(dl[d])
    BY <1>1, OldEnoughCleared, GateInvParts DEF Verdict
  <2>2. r.pc = "crate" /\ r.ver = dl[d].ver /\ r.data = dl[d].data
    BY DownloadFields DEF Downloads
  <2>3. GateOk(r)
    BY <2>1, <2>2 DEF GateOk
  <2> HIDE DEF r
  <2> QED BY <2>1, <2>3, DlGotoInv
<1>2. CASE ~OldEnough(d, rev)
  <2>1. Reply(d, 403)
    BY <1>2 DEF Verdict
  <2> QED BY <2>1, ReplyInv
<1> QED BY <1>1, <1>2

LEMMA DownloadKeeps ==
  ASSUME DownloadTypeOK, GateInv, NEW d \in Downloaders, NEW v \in Versions, Download(d, v)
  PROVE  GateInv'
<1> DEFINE r == [NoDownload EXCEPT !.pc = IF Gated THEN "gate" ELSE "crate",
                                   !.ver = v, !.cut = IF Gated THEN Cutoff ELSE Unfiltered]
<1>1. /\ dl' = [dl EXCEPT ![d] = r] /\ reply' = [reply EXCEPT ![d] = NoReply]
      /\ UNCHANGED <<now, hist, window>>
  BY DEF Download, vars, envVars
<1>2. ReplyOk(NoReply) /\ 0 <= Len(hist) /\ window \in Nat
  BY EmptyOk, CutoffFacts DEF DownloadTypeOK
<1>3. Gated => window > 0 /\ (Cutoff = 0 \/ Cutoff + window <= now)
  BY CutoffFacts DEF Gated, DownloadTypeOK
<1>4. ~Gated /\ RestrictDownloads => ~(window > 0)
  BY CutoffFacts DEF Gated, DownloadTypeOK
<1>5. CASE Gated
  <2>1. r = [NoDownload EXCEPT !.pc = "gate", !.ver = v, !.cut = Cutoff]
    BY <1>5
  <2>2. GateOk(r)
    BY <1>2, <1>3, <1>5, <2>1 DEF GateOk, NoDownload
  <2> HIDE DEF r
  <2> QED BY <1>1, <1>2, <2>2, GateStepInv
<1>6. CASE ~Gated
  <2>1. r = [NoDownload EXCEPT !.pc = "crate", !.ver = v, !.cut = Unfiltered]
    BY <1>6
  <2>2. GateOk(r)
    BY <1>2, <1>4, <1>6, <2>1 DEF GateOk, NoDownload
  <2> HIDE DEF r
  <2> QED BY <1>1, <1>2, <2>2, GateStepInv
<1> QED BY <1>5, <1>6

LEMMA DownloadFacts ==
  ASSUME DownloadTypeOK, CooldownInv, GateInv, NEW d \in Downloaders
  PROVE  /\ GateOk(dl[d]) /\ dl[d] \in Downloads /\ dl[d].data \in Nat
         /\ dl[d].data <= Len(hist) /\ disk.rev \in Nat /\ disk.rev <= Len(hist)
         /\ Len(hist) \in Nat
<1>1. TypeOK /\ disk \in [rev : Nat, mtime : Nat]
  BY DEF DownloadTypeOK, TypeOK
<1> QED BY <1>1, GateInvParts, DownloadFields, CutoffFacts
        DEF GateOk, CooldownInv, KnownRevisions

(* A step from one place before, at or past the gate to another there.     *)
LEMMA MoveKeeps ==
  ASSUME DownloadTypeOK, CooldownInv, GateInv, NEW d \in Downloaders, NEW pc,
         \/ AtGate(d) /\ pc \in {"gatefetch", "gatestore"}
         \/ PastGate(d) /\ pc \in {"download", "store"},
         DlGoto(d, [dl[d] EXCEPT !.pc = pc]), UNCHANGED <<now, hist, window>>
  PROVE  GateInv'
<1> DEFINE r == [dl[d] EXCEPT !.pc = pc]
<1>1. r.pc = pc /\ r.ver = dl[d].ver /\ r.data = dl[d].data /\ r.cut = dl[d].cut
  BY DownloadFacts DEF Downloads
<1>2. GateOk(r)
  BY <1>1, DownloadFacts DEF GateOk, AtGate, PastGate
<1>3. DlGoto(d, r)
  OBVIOUS
<1> HIDE DEF r
<1> QED BY <1>2, <1>3, DlGotoInv

LEMMA GateKeeps ==
  ASSUME DownloadTypeOK, CooldownInv, GateInv, NEW d \in Downloaders,
         GateRead(d) \/ GateFetch(d) \/ GateWrite(d) \/ GateWriteFails(d) \/ GateStore(d)
  PROVE  GateInv'
<1> DEFINE r == [dl[d] EXCEPT !.pc = "gatewrite", !.data = Current,
                              !.entry = Harvest(NoEntry)]
<1>1. AtGate(d) /\ UNCHANGED <<now, hist, window>>
  BY DEF GateRead, GateFetch, GateWrite, GateWriteFails, GateStore, DlAt, AtGate,
         vars, envVars
<1>2. \/ Verdict(d, disk.rev) \/ Verdict(d, dl[d].data)
      \/ Reply(d, 403) \/ DlGoto(d, r)
      \/ DlGoto(d, [dl[d] EXCEPT !.pc = "gatefetch"])
      \/ DlGoto(d, [dl[d] EXCEPT !.pc = "gatestore"])
  BY DEF GateRead, GateFetch, GateWrite, GateWriteFails, GateStore
<1>3. CASE Verdict(d, disk.rev) \/ Verdict(d, dl[d].data)
  BY <1>1, <1>3, DownloadFacts, VerdictInv
<1>4. CASE Reply(d, 403)
  BY <1>1, <1>4, ReplyInv
<1>5. CASE DlGoto(d, r)
  <2>1. /\ r.pc = "gatewrite" /\ r.data = Current /\ r.cut = dl[d].cut
    BY DownloadFacts DEF Downloads
  <2>2. GateOk(r)
    BY <1>1, <2>1, DownloadFacts DEF GateOk, AtGate, Current
  <2> HIDE DEF r
  <2> QED BY <1>1, <1>5, <2>2, DlGotoInv
<1>6. CASE \/ DlGoto(d, [dl[d] EXCEPT !.pc = "gatefetch"])
           \/ DlGoto(d, [dl[d] EXCEPT !.pc = "gatestore"])
  BY <1>1, <1>6, MoveKeeps
<1> HIDE DEF r
<1> QED BY <1>2, <1>3, <1>4, <1>5, <1>6

LEMMA CrateKeeps ==
  ASSUME DownloadTypeOK, CooldownInv, GateInv, NEW d \in Downloaders,
         ReadCrate(d) \/ DownloadCrate(d) \/ StoreCrate(d)
  PROVE  GateInv'
<1>1. PastGate(d) /\ UNCHANGED <<now, hist, window>>
  BY DEF ReadCrate, DownloadCrate, StoreCrate, DlAt, PastGate, vars, envVars
<1>2. \/ Reply(d, 200) \/ Reply(d, 404)
      \/ DlGoto(d, [dl[d] EXCEPT !.pc = "download"])
      \/ DlGoto(d, [dl[d] EXCEPT !.pc = "store"])
  BY DEF ReadCrate, DownloadCrate, StoreCrate
<1> QED BY <1>1, <1>2, ReplyInv, MoveKeeps

LEMMA FailuresKeep ==
  ASSUME DownloadTypeOK, CooldownInv, GateInv, NEW d \in Downloaders,
         \/ GateFetchFails(d) \/ StoreCrateFails(d) \/ HangUp(d)
         \/ \E status \in {500, 502, 507} : DownloadFails(d, status)
  PROVE  GateInv'
<1>1. UNCHANGED <<now, hist, window>>
  BY DEF GateFetchFails, StoreCrateFails, HangUp, DownloadFails
<1>2. \/ \E status \in {403, 500, 502, 507} : Reply(d, status)
      \/ PastGate(d) /\ Reply(d, 200)
      \/ DlGoto(d, NoDownload)
  BY DEF GateFetchFails, StoreCrateFails, HangUp, DownloadFails, DlAt, PastGate
<1>3. GateOk(NoDownload)
  BY EmptyOk DEF DownloadTypeOK
<1> QED BY <1>1, <1>2, <1>3, ReplyInv, DlGotoInv

LEMMA RestartAllKeeps ==
  ASSUME DownloadTypeOK, NEW w \in Windows, RestartAll(w)
  PROVE  GateInv'
<1>1. TypeOK'
  BY EnvironmentTyped DEF RestartAll, Environment, DownloadTypeOK
<1>2. 0 <= Len(hist')
  BY <1>1, LenProperties DEF TypeOK
<1>3. ASSUME NEW d \in Downloaders PROVE GateOk(dl[d])' /\ ReplyOk(reply[d])'
  <2>1. dl'[d] = NoDownload /\ reply'[d] = NoReply
    BY DEF RestartAll
  <2> QED BY <1>2, <2>1 DEF GateOk, ReplyOk, NoDownload, NoReply
<1> QED BY <1>3, GateInvNext
-----------------------------------------------------------------------------
(* The index handler beside it: time and publications only clear versions. *)

LEMMA IndexGrows ==
  ASSUME TypeOK, IndexNext \/ UNCHANGED vars
  PROVE  /\ window' = window /\ now \in Nat /\ now' \in Nat /\ now <= now'
         /\ Len(hist) \in Nat /\ Len(hist') \in Nat /\ Len(hist) <= Len(hist')
         /\ \A i \in 1..Len(hist) : hist'[i] = hist[i]
<1>1. now \in Nat /\ Len(hist) \in Nat
  BY CutoffFacts
<1>2. CASE UNCHANGED vars
  BY <1>1, <1>2 DEF vars, envVars
<1>3. ASSUME NEW c \in Clients, Begin(c) \/ Step(c) \/ StepFails(c)
      PROVE  UNCHANGED <<now, hist, window>>
  BY <1>3 DEF Begin, Step, StepFails, Lookup, ReadFresh, FindMtime, Fetch, FetchUnknown,
     WriteFile, StoreMeta200, StoreMeta304, ReadAfter304, LostFile, ReadStale, FindStale,
     Render, FilterDone, WriteFileFails, Disconnect, FetchFails, envVars
<1>4. CASE Tick
  BY <1>1, <1>4 DEF Tick
<1>5. ASSUME NEW dated \in Dating, Publish(dated)
      PROVE  /\ window' = window /\ now' = now /\ Len(hist') = Len(hist) + 1
             /\ \A i \in 1..Len(hist) : hist'[i] = hist[i]
  <2> DEFINE v == [at |-> now, dated |-> dated]
  <2>1. hist' = Append(hist, v) /\ UNCHANGED <<now, window>>
    BY <1>5 DEF Publish
  <2>2. hist \in Seq(HistType) /\ v \in HistType
    BY <1>1, IndexAssumption DEF TypeOK, HistType
  <2> HIDE DEF v
  <2> QED BY <2>1, <2>2, AppendProperties
<1>6. CASE WipeFile \/ EvictMeta \/ EvictMemo
  BY <1>1, <1>6 DEF WipeFile, EvictMeta, EvictMemo
<1> QED BY <1>1, <1>2, <1>3, <1>4, <1>5, <1>6 DEF IndexNext

LEMMA IndexKeepsGate ==
  ASSUME DownloadTypeOK, GateInv, IndexNext \/ UNCHANGED vars, UNCHANGED downloadVars
  PROVE  GateInv'
<1>1. UNCHANGED <<dl, reply>> /\ TypeOK /\ window \in Nat
  BY CutoffFacts DEF downloadVars, DownloadTypeOK
<1>2. /\ window' = window /\ now \in Nat /\ now' \in Nat /\ now <= now'
      /\ Len(hist) \in Nat /\ Len(hist') \in Nat /\ Len(hist) <= Len(hist')
      /\ \A i \in 1..Len(hist) : hist'[i] = hist[i]
  BY <1>1, IndexGrows
<1>3. ASSUME NEW v, Cleared(v) PROVE Cleared(v)'
  <2>1. v \in 1..Len(hist) /\ hist[v].dated /\ hist[v].at + window <= now
    BY <1>3 DEF Cleared
  <2>2. hist[v].at \in Nat
    <3>1. hist \in Seq(HistType)
      BY <1>1 DEF TypeOK, HistType
    <3>2. hist[v] \in HistType
      BY <2>1, <3>1, ElementOfSeq
    <3> QED BY <3>2 DEF HistType
  <2>3. hist[v].at + window <= now'
    BY <1>1, <1>2, <2>1, <2>2
  <2> QED BY <1>2, <2>1, <2>3 DEF Cleared
<1>4. ASSUME NEW d \in Downloaders PROVE GateOk(dl[d])' /\ ReplyOk(reply[d])'
  <2>1. /\ GateOk(dl[d]) /\ ReplyOk(reply[d]) /\ dl[d].data \in Nat
        /\ dl[d].cut \in Nat \cup {Unfiltered}
    BY GateInvParts, DownloadFields
  <2>2. /\ Cleared(dl[d].ver) => Cleared(dl[d].ver)'
        /\ Cleared(reply[d].ver) => Cleared(reply[d].ver)'
    BY <1>1, <1>3 DEF Cleared
  <2>3. ReplyOk(reply[d])'
    BY <1>1, <1>2, <2>1, <2>2 DEF ReplyOk
  <2>4. dl[d].cut + window <= now => dl[d].cut + window <= now'
    BY <1>1, <1>2, <2>1 DEF Unfiltered
  <2>5. GateOk(dl[d])'
    BY <1>1, <1>2, <2>1, <2>2, <2>4 DEF GateOk
  <2> QED BY <2>3, <2>5
<1> QED BY <1>4, GateInvNext

(* And downloads leave the cooldown of the index alone: all they touch of  *)
(* it are the file, which they replace by a published revision, and its    *)
(* entry.                                                                  *)
LEMMA DownloadsKeepCooldown ==
  ASSUME DownloadTypeOK, CooldownInv, GateInv,
         \/ \E d \in Downloaders : \/ \E v \in Versions : Download(d, v)
                                   \/ DownloadStep(d) \/ DownloadStepFails(d)
         \/ \E vs \in SUBSET crates : Purge(vs)
  PROVE  CooldownInv'
<1>1. UNCHANGED <<now, hist, window, memo, req, copy, resp>>
  BY DEF Download, DownloadStep, DownloadStepFails, GateRead, GateFetch, GateWrite, GateStore,
     ReadCrate, DownloadCrate, StoreCrate, GateFetchFails, GateWriteFails, StoreCrateFails,
     HangUp, DownloadFails, Purge, vars, envVars, sharedVars, clientVars
<1>2. disk'.rev <= Len(hist)
  <2>1. \A d \in Downloaders : dl[d].data <= Len(hist) /\ disk.rev <= Len(hist)
    BY DownloadFacts
  <2>2. disk.rev <= Len(hist)
    BY DEF CooldownInv, KnownRevisions
  <2>3. disk' = disk \/ \E d \in Downloaders : \E t : disk' = [rev |-> dl[d].data, mtime |-> t]
    BY DEF Download, DownloadStep, DownloadStepFails, GateRead, GateFetch, GateWrite,
       GateStore, ReadCrate, DownloadCrate, StoreCrate, GateFetchFails, GateWriteFails,
       StoreCrateFails, HangUp, DownloadFails, Purge, vars, sharedVars
  <2> QED BY <2>1, <2>2, <2>3
<1>3. PublishedInPast' /\ MemoAged' /\ MarkersTrue' /\ WindowOkTrue' /\ CutsPast' /\ CooldownHolds'
  BY <1>1 DEF CooldownInv, PublishedInPast, MemoAged, MarkersTrue, WindowOkTrue, CutsPast,
     CooldownHolds, Answered, Aged
<1>4. KnownRevisions'
  BY <1>1, <1>2 DEF CooldownInv, KnownRevisions
<1> QED BY <1>3, <1>4 DEF CooldownInv
-----------------------------------------------------------------------------
LEMMA GateInit == DownloadInit => CooldownInv /\ GateInv
<1> SUFFICES ASSUME DownloadInit PROVE CooldownInv /\ GateInv
  OBVIOUS
<1>1. DownloadTypeOK /\ CooldownInv
  BY DownloadInitTyped, CooldownInit DEF DownloadInit
<1>2. \A d \in Downloaders : GateOk(dl[d]) /\ ReplyOk(reply[d])
  BY <1>1, EmptyOk DEF DownloadInit, DownloadTypeOK
<1> QED BY <1>1, <1>2, GateInvParts

LEMMA GateNext ==
  DownloadTypeOK /\ CooldownInv /\ GateInv /\ [DownloadNext]_allVars
    => CooldownInv' /\ GateInv'
<1> SUFFICES ASSUME DownloadTypeOK, CooldownInv, GateInv, [DownloadNext]_allVars
             PROVE  CooldownInv' /\ GateInv'
  OBVIOUS
<1>1. CASE (IndexNext \/ UNCHANGED vars) /\ UNCHANGED downloadVars
  BY <1>1, IndexNextIsNext, CooldownNext, IndexKeepsGate DEF DownloadTypeOK
<1>2. ASSUME NEW w \in Windows, RestartAll(w) PROVE CooldownInv' /\ GateInv'
  BY <1>2, ForgettingKeeps, RestartAllKeeps DEF RestartAll, DownloadTypeOK
<1>3. ASSUME NEW d \in Downloaders,
             (\E v \in Versions : Download(d, v)) \/ DownloadStep(d) \/ DownloadStepFails(d)
      PROVE  CooldownInv' /\ GateInv'
  <2>1. GateInv'
    BY <1>3, DownloadKeeps, GateKeeps, CrateKeeps, FailuresKeep
       DEF DownloadStep, DownloadStepFails
  <2> QED BY <1>3, <2>1, DownloadsKeepCooldown
<1>4. CASE \E vs \in SUBSET crates : Purge(vs)
  <2>1. UNCHANGED vars /\ UNCHANGED <<dl, reply>>
    BY <1>4 DEF Purge
  <2>2. GateInv'
    BY <2>1 DEF vars, envVars, GateInv, GateHolds, AtGate, PastGate, Cleared
  <2> QED BY <1>4, <2>2, DownloadsKeepCooldown
<1> QED BY <1>1, <1>2, <1>3, <1>4 DEF DownloadNext, allVars

(* --restrict-downloads: no version younger than the running window, or of *)
(* unknown age, is handed out by the running process.                      *)
THEOREM GateAlwaysHolds == DownloadSpec => []GateHolds
<1>1. GateInv => GateHolds
  BY DEF GateInv
<1> QED BY <1>1, DownloadTypeCorrect, GateInit, GateNext, PTL DEF DownloadSpec

(* And the index keeps its cooldown while the gate fills its caches.       *)
THEOREM CooldownBesideGate == DownloadSpec => []CooldownHolds
<1>1. CooldownInv => CooldownHolds
  BY DEF CooldownInv
<1> QED BY <1>1, DownloadTypeCorrect, GateInit, GateNext, PTL DEF DownloadSpec
=============================================================================
