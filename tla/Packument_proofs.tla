-------------------------- MODULE Packument_proofs --------------------------
(***************************************************************************)
(* Theorems about npm-proxy, for any clients, windows, TTL, bucket length, *)
(* publications and bounds. PackInv, inductive, says of every body -- in   *)
(* the memo, in a client's copy -- through which window it was filtered,   *)
(* and of every request under way what it may still hand out.              *)
(***************************************************************************)
EXTENDS Packument, SequenceTheorems, WellFoundedInduction, TLAPS

Versions == [at : Nat, dated : BOOLEAN, servable : BOOLEAN, tagged : BOOLEAN]
Files == [rev : Nat, mtime : Nat]
Memos == [val : Nat \X Nat, bkt : Nat, body : Bodies]
Requests == [pc : Pcs, kind : AskKinds, ver : Nat, ok : BOOLEAN, etag : Nat,
             entry : Entries, data : Nat, cut : Cutoffs]
Copies == [etag : Nat, marker : Markers, body : Bodies]
Answers == [kind : AskKinds, ver : Nat, status : Statuses]

(* The clock, the process' window, and upstream: no version is from later  *)
(* than now.                                                               *)
WorldOk(h, f, win, t) ==
  /\ t \in Nat \ {0} /\ f \in Nat /\ win \in Windows
  /\ h \in Seq(Versions)
  /\ \A v \in 1..Len(h) : h[v].at \in 1..t

(* Time passes and versions are published; none is taken back or altered.  *)
Later(h, t, h2, t2) ==
  /\ t2 \in Nat /\ t <= t2
  /\ Len(h) <= Len(h2)
  /\ \A v \in 1..Len(h) : h2[v] = h[v]

Old(v, h, win, t) == win > 0 /\ h[v].dated => h[v].at + win <= t

Shown(v, h, win, t) == v \in 1..Len(h) /\ h[v].servable /\ Old(v, h, win, t)

Cleared(v, h, win, t) == v \in 1..Len(h) /\ h[v].dated /\ Old(v, h, win, t)

(* A body filtered through the window win: what it lists and what its      *)
(* `latest` names.                                                         *)
BodyOk(b, h, win, t) ==
  /\ b \in Bodies
  /\ \A v \in b.versions : Shown(v, h, win, t)
  /\ b.latest # 0 => b.latest \in b.versions

(* A cutoff captured earlier in this process still is a window old.        *)
CutOk(cut, win, t) ==
  /\ cut \in Cutoffs
  /\ win > 0 => cut \in Nat /\ (cut = 0 \/ cut + win <= t)

CachesOk(d, e, m, tar, h, win, t) ==
  /\ d \in Files /\ d.rev <= Len(h)
  /\ e \in Entries
  /\ m \in Memos /\ BodyOk(m.body, h, win, t)
  /\ tar \subseteq Nat

LadderPcs == {"lookup", "find", "read", "fetch", "write", "store200", "store304",
              "read304", "lost", "readstale", "findstale", "filter", "filtering"}
GatePcs == {"gate", "gatefetch", "gatewrite", "gatestore"}
TarballPcs == {"tarball", "download", "storetarball"}

(* What a request under way, of a client with copy k, owes to its history. *)
RequestOk(r, k, h, win, t) ==
  /\ r \in Requests /\ r.data <= Len(h)
  /\ r.ok => k.marker.win = win
  /\ r.kind = "doc" => ~r.ok
  /\ r.pc \in LadderPcs => r.kind \in {"packument", "doc"}
  /\ r.pc \in GatePcs \cup TarballPcs => r.kind = "tarball"
  /\ r.pc \in GatePcs \cup {"filtering"} => CutOk(r.cut, win, t)
  /\ r.pc \in TarballPcs /\ RestrictDownloads /\ win > 0 => Cleared(r.ver, h, win, t)

CopyOk(k, h, t) == k \in Copies /\ BodyOk(k.body, h, k.marker.win, t)

AnswerOk(a, k, h, win, t) ==
  /\ a \in Answers
  /\ a.kind = "packument" /\ a.status \in {200, 304} =>
       \A v \in k.body.versions : Old(v, h, win, t)
  /\ a.kind = "doc" /\ a.status = 200 => Shown(a.ver, h, win, t)
  /\ a.kind = "tarball" /\ a.status = 200 /\ RestrictDownloads /\ win > 0 =>
       Cleared(a.ver, h, win, t)

ClientOk(r, k, a, h, win, t) ==
  RequestOk(r, k, h, win, t) /\ CopyOk(k, h, t) /\ AnswerOk(a, k, h, win, t)

ClientsOk(rs, ks, as, h, win, t) ==
  /\ rs \in [Clients -> Requests]
  /\ ks \in [Clients -> Copies]
  /\ as \in [Clients -> Answers]
  /\ \A c \in Clients : ClientOk(rs[c], ks[c], as[c], h, win, t)

PackInv ==
  /\ WorldOk(hist, faults, window, now)
  /\ CachesOk(disk, meta, memo, tarballs, hist, window, now)
  /\ ClientsOk(req, copy, resp, hist, window, now)
-----------------------------------------------------------------------------
(* The world, and time passing.                                            *)

LEMMA WorldFacts ==
  ASSUME NEW h, NEW f, NEW win, NEW t, WorldOk(h, f, win, t)
  PROVE  /\ t \in Nat /\ t > 0 /\ f \in Nat /\ win \in Nat /\ win \in Windows
         /\ Len(h) \in Nat
         /\ \A v \in 1..Len(h) : h[v] \in Versions /\ h[v].at \in Nat
                                 /\ h[v].at > 0 /\ h[v].at <= t
<1>1. t \in Nat /\ t > 0 /\ f \in Nat /\ win \in Nat /\ win \in Windows
  BY PackumentAssumption DEF WorldOk
<1>2. h \in Seq(Versions)
  BY DEF WorldOk
<1>3. Len(h) \in Nat /\ \A v \in 1..Len(h) : h[v] \in Versions
  BY <1>2, LenProperties, ElementOfSeq
<1>4. \A v \in 1..Len(h) : h[v].at \in 1..t
  BY DEF WorldOk
<1> QED BY <1>1, <1>3, <1>4

LEMMA LaterOld ==
  ASSUME NEW h, NEW f, NEW win0, NEW t, WorldOk(h, f, win0, t),
         NEW h2, NEW t2, Later(h, t, h2, t2), NEW win \in Nat,
         NEW v \in 1..Len(h), Old(v, h, win, t)
  PROVE  Old(v, h2, win, t2)
<1>1. h[v].at \in Nat /\ t \in Nat
  BY WorldFacts
<1>2. h2[v] = h[v] /\ t2 \in Nat /\ t <= t2
  BY DEF Later
<1>3. h[v].at + win <= t => h[v].at + win <= t2
  BY <1>1, <1>2
<1> QED BY <1>2, <1>3 DEF Old

LEMMA LaterShown ==
  ASSUME NEW h, NEW f, NEW win0, NEW t, WorldOk(h, f, win0, t),
         NEW h2, NEW t2, Later(h, t, h2, t2), Len(h2) \in Nat, NEW win \in Nat, NEW v
  PROVE  /\ Shown(v, h, win, t) => Shown(v, h2, win, t2)
         /\ Cleared(v, h, win, t) => Cleared(v, h2, win, t2)
<1>1. Len(h) \in Nat /\ Len(h) <= Len(h2)
  BY WorldFacts DEF Later
<1>2. v \in 1..Len(h) => v \in 1..Len(h2) /\ h2[v] = h[v]
  BY <1>1 DEF Later
<1>3. v \in 1..Len(h) /\ Old(v, h, win, t) => Old(v, h2, win, t2)
  BY LaterOld
<1> QED BY <1>2, <1>3 DEF Shown, Cleared

LEMMA LaterBody ==
  ASSUME NEW h, NEW f, NEW win0, NEW t, WorldOk(h, f, win0, t),
         NEW h2, NEW t2, Later(h, t, h2, t2), Len(h2) \in Nat, NEW win \in Nat,
         NEW b, BodyOk(b, h, win, t)
  PROVE  BodyOk(b, h2, win, t2)
<1>1. \A v \in b.versions : Shown(v, h, win, t) => Shown(v, h2, win, t2)
  BY LaterShown
<1> QED BY <1>1 DEF BodyOk

LEMMA LaterClient ==
  ASSUME NEW h, NEW f, NEW win, NEW t, WorldOk(h, f, win, t),
         NEW h2, NEW t2, Later(h, t, h2, t2), Len(h2) \in Nat,
         NEW r, NEW k, NEW a, ClientOk(r, k, a, h, win, t)
  PROVE  ClientOk(r, k, a, h2, win, t2)
<1>1. /\ win \in Nat /\ Len(h) \in Nat /\ Len(h) <= Len(h2)
      /\ t \in Nat /\ t2 \in Nat /\ t <= t2
  BY WorldFacts DEF Later
<1>2. RequestOk(r, k, h, win, t) /\ CopyOk(k, h, t) /\ AnswerOk(a, k, h, win, t)
  BY DEF ClientOk
<1>3. k.marker.win \in Nat
  BY <1>2 DEF CopyOk, Copies, Markers
<1>4. CopyOk(k, h2, t2)
  BY <1>2, <1>3, LaterBody DEF CopyOk
<1>5. RequestOk(r, k, h2, win, t2)
  <2>1. Cleared(r.ver, h, win, t) => Cleared(r.ver, h2, win, t2)
    BY <1>1, LaterShown
  <2>2. r \in Requests /\ r.data \in Nat /\ r.data <= Len(h) /\ r.cut \in Cutoffs
    BY <1>2 DEF RequestOk, Requests
  <2>3. r.data <= Len(h2)
    BY <1>1, <2>2
  <2>4. CutOk(r.cut, win, t) => CutOk(r.cut, win, t2)
    BY <1>1, <2>2 DEF CutOk
  <2> QED BY <1>2, <2>1, <2>2, <2>3, <2>4 DEF RequestOk
<1>6. AnswerOk(a, k, h2, win, t2)
  <2>1. /\ Cleared(a.ver, h, win, t) => Cleared(a.ver, h2, win, t2)
        /\ Shown(a.ver, h, win, t) => Shown(a.ver, h2, win, t2)
    BY <1>1, LaterShown
  <2>2. ASSUME NEW v \in k.body.versions, Old(v, h, win, t)
        PROVE  Old(v, h2, win, t2)
    <3>1. v \in 1..Len(h)
      BY <1>2 DEF CopyOk, BodyOk, Shown
    <3> QED BY <1>1, <2>2, <3>1, LaterOld
  <2> QED BY <1>2, <2>1, <2>2 DEF AnswerOk
<1> QED BY <1>4, <1>5, <1>6 DEF ClientOk
-----------------------------------------------------------------------------
(* The cutoff, the marker, and the filter.                                 *)

LEMMA BucketType ==
  ASSUME NEW cut \in Cutoffs
  PROVE  MemoBucket(cut) \in Nat /\ (cut # Unfiltered => Bucket(cut) \in Nat)
BY BucketAssumption DEF MemoBucket, Bucket, Cutoffs, Unfiltered

LEMMA CutoffFacts ==
  ASSUME WorldOk(hist, faults, window, now)
  PROVE  CutOk(Cutoff, window, now) /\ (window = 0 <=> Cutoff = Unfiltered)
<1>1. now \in Nat /\ window \in Nat
  BY WorldFacts
<1> QED BY <1>1 DEF CutOk, Cutoff, CutoffFrom, Cutoffs, Unfiltered

LEMMA MarkerFacts ==
  ASSUME WorldOk(hist, faults, window, now)
  PROVE  /\ ServeMarker \in Markers /\ ServeMarker.win = window
         /\ NoMarker \in Markers /\ NoMarker.win = 0
<1>1. Cutoff \in Cutoffs /\ (window = 0 <=> Cutoff = Unfiltered) /\ window \in Nat
  BY CutoffFacts, WorldFacts DEF CutOk
<1>2. Cutoff # Unfiltered => Bucket(Cutoff) \in Nat
  BY <1>1, BucketType
<1> QED BY <1>1, <1>2 DEF ServeMarker, MarkerAt, NoMarker, Markers

(* A nonempty set of positions has a greatest one.                         *)
LEMMA GreatestFacts ==
  ASSUME NEW n \in Nat, NEW S, S \subseteq 1..n
  PROVE  Greatest(S) \in Nat /\ (Greatest(S) # 0 => Greatest(S) \in S)
<1>1. CASE S = {}
  BY <1>1 DEF Greatest
<1>2. CASE S # {}
  <2> DEFINE R == {ss \in Nat \X Nat : ss[1] < ss[2]}
             T == {n - v : v \in S}
  <2>1. IsWellFoundedOn(R, Nat)
    BY NatLessThanWellFounded DEF OpToRel
  <2>2. T \subseteq Nat /\ T # {}
    <3>1. \A v \in S : v \in 1..n /\ n - v \in Nat
      OBVIOUS
    <3> QED BY <1>2, <3>1
  <2>3. PICK m \in T : \A y \in T : <<y, m>> \notin R
    <3> HIDE DEF R, T
    <3> QED BY <2>1, <2>2, WFMin
  <2>4. PICK x \in S : m = n - x
    BY <2>3
  <2>5. ASSUME NEW y \in S PROVE x >= y
    <3>1. n - y \in T /\ n - y \in Nat /\ m \in Nat
      BY <2>2, <2>3
    <3>2. ~(n - y < m)
      BY <2>3, <3>1
    <3> QED BY <2>4, <3>2
  <2>6. Max(S) \in S
    BY <2>4, <2>5 DEF Max
  <2>7. Max(S) \in 1..n /\ Greatest(S) = Max(S)
    BY <1>2, <2>6 DEF Greatest
  <2> HIDE DEF R, T
  <2> QED BY <2>6, <2>7
<1> QED BY <1>1, <1>2

(* What filter_packument leaves is servable and old enough, and `latest`,  *)
(* repaired or kept, is among it.                                          *)
LEMMA FilterOk ==
  ASSUME WorldOk(hist, faults, window, now),
         NEW rev \in Nat, rev <= Len(hist), NEW cut, CutOk(cut, window, now)
  PROVE  BodyOk(FilterPackument(rev, cut), hist, window, now)
<1> DEFINE removed   == UnservableVersions(rev) \cup TooNewVersions(rev, cut)
           survivors == 1..rev \ removed
           latest    == RepairedTags(rev, removed, survivors)
<1>1. FilterPackument(rev, cut) = [rev |-> rev, versions |-> survivors, latest |-> latest]
  BY DEF FilterPackument
<1>2. Len(hist) \in Nat /\ window \in Nat /\ now \in Nat
      /\ \A v \in 1..rev : v \in 1..Len(hist) /\ hist[v].at \in Nat /\ hist[v].at > 0
                           /\ hist[v].at <= now
  BY WorldFacts
<1>3. ASSUME NEW v \in survivors PROVE Shown(v, hist, window, now)
  <2>1. v \in 1..rev /\ hist[v].servable /\ v \notin TooNewVersions(rev, cut)
    BY DEF UnservableVersions
  <2>2. ASSUME window > 0, hist[v].dated PROVE hist[v].at + window <= now
    <3>1. cut \in Nat /\ cut # Unfiltered /\ (cut = 0 \/ cut + window <= now)
      BY <2>2 DEF CutOk, Unfiltered
    <3>2. ~(hist[v].at > cut)
      BY <2>1, <2>2, <3>1 DEF TooNewVersions
    <3> QED BY <1>2, <2>1, <3>1, <3>2
  <2> QED BY <1>2, <2>1, <2>2 DEF Shown, Old
<1>4. latest \in Nat /\ (latest # 0 => latest \in survivors)
  <2>1. UpstreamLatest(rev) \in Nat /\ (UpstreamLatest(rev) # 0 => UpstreamLatest(rev) \in 1..rev)
    <3>1. {v \in 1..rev : hist[v].tagged} \subseteq 1..rev
      OBVIOUS
    <3> QED BY <3>1, GreatestFacts DEF UpstreamLatest
  <2>2. NewestSurvivor(survivors) \in Nat
        /\ (NewestSurvivor(survivors) # 0 => NewestSurvivor(survivors) \in survivors)
    <3>1. {v \in survivors : hist[v].dated} \subseteq 1..rev
      OBVIOUS
    <3> QED BY <3>1, GreatestFacts DEF NewestSurvivor
  <2>3. removed = {} => survivors = 1..rev
    OBVIOUS
  <2> HIDE DEF removed, survivors
  <2> QED BY <2>1, <2>2, <2>3 DEF RepairedTags
<1>5. survivors \in SUBSET Nat
  OBVIOUS
<1> DEFINE body == FilterPackument(rev, cut)
<1>6. /\ body = [rev |-> rev, versions |-> survivors, latest |-> latest]
      /\ body.versions = survivors /\ body.latest = latest
  BY <1>1
<1> HIDE DEF removed, survivors, latest, body
<1>7. body \in Bodies
  BY <1>4, <1>5, <1>6 DEF Bodies
<1>8. BodyOk(body, hist, window, now)
  BY <1>3, <1>4, <1>6, <1>7 DEF BodyOk
<1> QED BY <1>8 DEF body
-----------------------------------------------------------------------------
(* What each way of ending a step does to the clients.                     *)

LEMMA ClientFacts ==
  ASSUME PackInv, NEW c \in Clients
  PROVE  /\ RequestOk(req[c], copy[c], hist, window, now) /\ req[c] \in Requests
         /\ CopyOk(copy[c], hist, now) /\ copy[c] \in Copies
         /\ AnswerOk(resp[c], copy[c], hist, window, now)
BY DEF PackInv, ClientsOk, ClientOk

LEMMA NoRequestOk ==
  ASSUME WorldOk(hist, faults, window, now), NEW k, NEW w
  PROVE  NoRequest \in Requests /\ RequestOk(NoRequest, k, hist, w, now)
<1>1. NoRequest \in Requests
  BY DEF NoRequest, Requests, Pcs, AskKinds, NoEntry, Entries, Cutoffs
<1>2. Len(hist) \in Nat /\ 0 <= Len(hist)
  BY WorldFacts
<1> QED BY <1>1, <1>2 DEF RequestOk, NoRequest, LadderPcs, GatePcs, TarballPcs

LEMMA NoAnswerOk ==
  ASSUME NEW k, NEW w
  PROVE  AnswerOk(NoAnswer, k, hist, w, now)
BY DEF AnswerOk, NoAnswer, Answers, AskKinds, Statuses

(* One client moved on; the others are as they were.                       *)
LEMMA OneClient ==
  ASSUME PackInv, NEW c \in Clients, NEW r, NEW k, NEW a,
         ClientOk(r, k, a, hist, window, now),
         req' = [req EXCEPT ![c] = r], copy' = [copy EXCEPT ![c] = k],
         resp' = [resp EXCEPT ![c] = a]
  PROVE  ClientsOk(req', copy', resp', hist, window, now)
<1>1. /\ req \in [Clients -> Requests] /\ copy \in [Clients -> Copies]
      /\ resp \in [Clients -> Answers]
      /\ \A d \in Clients : ClientOk(req[d], copy[d], resp[d], hist, window, now)
  BY DEF PackInv, ClientsOk
<1>2. r \in Requests /\ k \in Copies /\ a \in Answers
  BY DEF ClientOk, RequestOk, CopyOk, AnswerOk
<1>3. /\ req' \in [Clients -> Requests] /\ copy' \in [Clients -> Copies]
      /\ resp' \in [Clients -> Answers]
  BY <1>1, <1>2
<1>4. /\ req'[c] = r /\ copy'[c] = k /\ resp'[c] = a
      /\ \A d \in Clients \ {c} : req'[d] = req[d] /\ copy'[d] = copy[d] /\ resp'[d] = resp[d]
  BY <1>1
<1>5. ASSUME NEW d \in Clients
      PROVE  ClientOk(req'[d], copy'[d], resp'[d], hist, window, now)
  BY <1>1, <1>4
<1> QED BY <1>3, <1>5 DEF ClientsOk

LEMMA SameCopies ==
  ASSUME PackInv, NEW c \in Clients
  PROVE  copy = [copy EXCEPT ![c] = copy[c]] /\ resp = [resp EXCEPT ![c] = resp[c]]
BY DEF PackInv, ClientsOk

LEMMA Moved ==
  ASSUME PackInv, NEW c \in Clients, NEW r,
         RequestOk(r, copy[c], hist, window, now), Goto(c, r)
  PROVE  ClientsOk(req', copy', resp', hist, window, now)
<1>1. ClientOk(r, copy[c], resp[c], hist, window, now)
  BY ClientFacts DEF ClientOk
<1>2. /\ req' = [req EXCEPT ![c] = r] /\ copy' = [copy EXCEPT ![c] = copy[c]]
      /\ resp' = [resp EXCEPT ![c] = resp[c]]
  BY SameCopies DEF Goto
<1> QED BY <1>1, <1>2, OneClient

LEMMA Ended ==
  ASSUME PackInv, NEW c \in Clients, NEW k, NEW status, NEW ver, CopyOk(k, hist, now),
         AnswerOk([kind |-> req[c].kind, ver |-> ver, status |-> status],
                  k, hist, window, now),
         Answer(c, status, ver), copy' = [copy EXCEPT ![c] = k]
  PROVE  ClientsOk(req', copy', resp', hist, window, now)
<1> DEFINE a == [kind |-> req[c].kind, ver |-> ver, status |-> status]
<1>1. RequestOk(NoRequest, k, hist, window, now)
  BY NoRequestOk DEF PackInv
<1>2. ClientOk(NoRequest, k, a, hist, window, now)
  BY <1>1 DEF ClientOk
<1>3. req' = [req EXCEPT ![c] = NoRequest] /\ resp' = [resp EXCEPT ![c] = a]
  BY DEF Answer
<1> HIDE DEF a
<1> QED BY <1>2, <1>3, OneClient

LEMMA Refused ==
  ASSUME PackInv, NEW c \in Clients, NEW status \in Statuses \ {200, 304}, Refuse(c, status)
  PROVE  ClientsOk(req', copy', resp', hist, window, now)
<1> DEFINE a == [kind |-> req[c].kind, ver |-> 0, status |-> status]
<1>1. CopyOk(copy[c], hist, now) /\ req[c].kind \in AskKinds
  BY ClientFacts DEF Requests
<1>2. a \in Answers /\ a.status = status
  BY <1>1 DEF Answers
<1>3. AnswerOk(a, copy[c], hist, window, now)
  <2> HIDE DEF a
  <2> QED BY <1>2 DEF AnswerOk
<1>4. Answer(c, status, 0) /\ copy' = [copy EXCEPT ![c] = copy[c]]
  BY SameCopies DEF Refuse
<1> QED BY <1>1, <1>3, <1>4, Ended

(* A body within the window is one within no window.                       *)
LEMMA WindowlessBody ==
  ASSUME NEW b, NEW h, NEW win, NEW t, BodyOk(b, h, win, t)
  PROVE  BodyOk(b, h, 0, t)
BY DEF BodyOk, Shown, Old

LEMMA Served ==
  ASSUME PackInv, NEW c \in Clients, req[c].kind \in {"packument", "doc"},
         NEW e \in Entries, NEW body, BodyOk(body, hist, window, now),
         ServedBody(c, e, body)
  PROVE  ClientsOk(req', copy', resp', hist, window, now)
<1>1. CASE req[c].kind = "packument"
  <2> DEFINE mark == IF e.etag # 0 THEN ServeMarker ELSE NoMarker
             k    == [etag |-> e.etag, body |-> body, marker |-> mark]
             a    == [kind |-> req[c].kind, ver |-> 0, status |-> 200]
  <2>1. Answer(c, 200, 0) /\ copy' = [copy EXCEPT ![c] = k]
    BY <1>1 DEF ServedBody
  <2>2. mark \in Markers /\ mark.win \in {window, 0}
    BY MarkerFacts DEF PackInv
  <2>3. e.etag \in Nat /\ body \in Bodies
    BY DEF Entries, BodyOk
  <2>4. k.body = body /\ k.marker = mark /\ k.etag = e.etag
    OBVIOUS
  <2>5. k \in Copies
    <3> HIDE DEF mark
    <3> QED BY <2>2, <2>3 DEF Copies
  <2>6. BodyOk(body, hist, mark.win, now)
    <3> HIDE DEF mark
    <3> QED BY <2>2, WindowlessBody
  <2>7. CopyOk(k, hist, now)
    <3> HIDE DEF k, mark
    <3> QED BY <2>4, <2>5, <2>6 DEF CopyOk
  <2>8. a \in Answers /\ a.kind = "packument" /\ a.status = 200
    BY <1>1 DEF Answers, AskKinds, Statuses
  <2>9. AnswerOk(a, k, hist, window, now)
    <3>1. \A v \in k.body.versions : Old(v, hist, window, now)
      BY <2>4 DEF BodyOk, Shown
    <3> HIDE DEF a, k, mark
    <3> QED BY <2>8, <3>1 DEF AnswerOk
  <2> HIDE DEF k, mark
  <2> QED BY <2>1, <2>7, <2>9, Ended DEF a
<1>2. CASE req[c].kind = "doc"
  <2> DEFINE v      == ExtractVersionDoc(body, req[c].ver)
             status == IF v # 0 THEN 200 ELSE 404
             a      == [kind |-> req[c].kind, ver |-> v, status |-> status]
  <2>1. Answer(c, status, v) /\ UNCHANGED copy
    BY <1>2 DEF ServedBody
  <2>2. v \in Nat /\ (v # 0 => Shown(v, hist, window, now))
    BY DEF BodyOk, Bodies, ExtractVersionDoc
  <2>3. a \in Answers /\ a.kind = "doc" /\ a.ver = v /\ a.status = status
        /\ status \in {200, 404} /\ (status = 200 => v # 0)
    <3> HIDE DEF v
    <3> QED BY <1>2, <2>2 DEF Answers, AskKinds, Statuses
  <2>4. AnswerOk(a, copy[c], hist, window, now)
    <3> HIDE DEF a, v, status
    <3> QED BY <2>2, <2>3 DEF AnswerOk
  <2>5. copy' = [copy EXCEPT ![c] = copy[c]] /\ CopyOk(copy[c], hist, now)
    BY <2>1, SameCopies, ClientFacts
  <2> HIDE DEF v, status
  <2> QED BY <2>1, <2>4, <2>5, Ended DEF a
<1> QED BY <1>1, <1>2

(* A request that may be answered 304 saw the marker of this window on the *)
(* copy its client still holds.                                            *)
LEMMA NotModified ==
  ASSUME PackInv, NEW c \in Clients, req[c].kind \in {"packument", "doc"},
         req[c].ok, ServedNotModified(c)
  PROVE  ClientsOk(req', copy', resp', hist, window, now)
<1> DEFINE status == IF req[c].kind = "packument" THEN 304 ELSE 500
           a      == [kind |-> req[c].kind, ver |-> 0, status |-> status]
<1>1. Answer(c, status, 0) /\ copy' = [copy EXCEPT ![c] = copy[c]]
  BY SameCopies DEF ServedNotModified
<1>2. CopyOk(copy[c], hist, now) /\ copy[c].marker.win = window
  BY ClientFacts DEF RequestOk
<1>3. \A v \in copy[c].body.versions : Old(v, hist, window, now)
  BY <1>2 DEF CopyOk, BodyOk, Shown
<1>4. a \in Answers /\ a.status \in {304, 500} /\ a.kind \in {"packument", "doc"}
  BY DEF Answers, AskKinds, Statuses
<1>5. AnswerOk(a, copy[c], hist, window, now)
  <2> HIDE DEF a, status
  <2> QED BY <1>3, <1>4 DEF AnswerOk
<1> HIDE DEF status
<1> QED BY <1>1, <1>2, <1>5, Ended DEF a

LEMMA MemoServed ==
  ASSUME PackInv, NEW c \in Clients, req[c].kind \in {"packument", "doc"},
         NEW e \in Entries, ServeMemo(c, e)
  PROVE  ClientsOk(req', copy', resp', hist, window, now)
<1>1. BodyOk(memo.body, hist, window, now)
  BY DEF PackInv, CachesOk
<1> QED BY <1>1, Served DEF ServeMemo

(* On the ladder only the position, the entry and the revision read change. *)
LEMMA LadderMoves ==
  ASSUME PackInv, NEW c \in Clients, req[c].pc \in LadderPcs, NEW r \in Requests,
         r.pc \in LadderPcs \ {"filtering"}, r.kind = req[c].kind,
         r.ok = req[c].ok, r.data <= Len(hist), Goto(c, r)
  PROVE  ClientsOk(req', copy', resp', hist, window, now)
<1>1. RequestOk(req[c], copy[c], hist, window, now)
  BY ClientFacts
<1>2. r.pc \notin GatePcs \cup {"filtering"} \cup TarballPcs
  BY DEF LadderPcs, GatePcs, TarballPcs
<1>3. RequestOk(r, copy[c], hist, window, now)
  BY <1>1, <1>2 DEF RequestOk
<1> QED BY <1>3, Moved

(* At the gate, these too, but never the cutoff.                           *)
LEMMA GateMoves ==
  ASSUME PackInv, NEW c \in Clients, req[c].pc \in GatePcs, NEW r \in Requests,
         r.pc \in GatePcs, r.kind = req[c].kind,
         r.ok = req[c].ok, r.cut = req[c].cut, r.data <= Len(hist), Goto(c, r)
  PROVE  ClientsOk(req', copy', resp', hist, window, now)
<1>1. RequestOk(req[c], copy[c], hist, window, now)
  BY ClientFacts
<1>2. r.pc \notin LadderPcs \cup TarballPcs
  BY DEF LadderPcs, GatePcs, TarballPcs
<1>3. RequestOk(r, copy[c], hist, window, now)
  BY <1>1, <1>2 DEF RequestOk
<1> QED BY <1>3, Moved

LEMMA LadderFacts ==
  ASSUME PackInv, NEW c \in Clients, req[c].pc \in LadderPcs
  PROVE  /\ req[c] \in Requests /\ req[c].kind \in {"packument", "doc"}
         /\ req[c].entry \in Entries /\ req[c].cut \in Cutoffs
         /\ req[c].data \in Nat /\ req[c].data <= Len(hist)
BY ClientFacts DEF RequestOk, Requests

LEMMA CacheFacts ==
  ASSUME PackInv
  PROVE  /\ CachesOk(disk, meta, memo, tarballs, hist, window, now)
         /\ disk.rev \in Nat /\ disk.rev <= Len(hist) /\ disk.mtime \in Nat
         /\ meta \in Entries /\ FileEntry \in Entries
         /\ NoEntry \in Entries /\ Len(hist) \in Nat /\ now \in Nat /\ window \in Nat
<1>1. disk.rev \in Nat /\ disk.rev <= Len(hist) /\ disk.mtime \in Nat /\ meta \in Entries
  BY DEF PackInv, CachesOk, Files
<1>2. NoEntry \in Entries /\ FileEntry \in Entries
  BY <1>1 DEF NoEntry, Entries, FileEntry
<1> QED BY <1>1, <1>2, WorldFacts DEF PackInv

(* A step that leaves clock, upstream and window alone.                    *)
LEMMA StepKeeps ==
  ASSUME PackInv, UNCHANGED <<now, hist, window>>, faults' \in Nat,
         CachesOk(disk', meta', memo', tarballs', hist, window, now),
         ClientsOk(req', copy', resp', hist, window, now)
  PROVE  PackInv'
<1>1. WorldOk(hist, faults', window, now)
  BY DEF PackInv, WorldOk
<1> QED BY <1>1 DEF PackInv

LEMMA QuietStep ==
  ASSUME PackInv, UNCHANGED <<envVars, cacheVars>>,
         ClientsOk(req', copy', resp', hist, window, now)
  PROVE  PackInv'
<1>1. UNCHANGED <<now, hist, window, faults>> /\ UNCHANGED <<disk, meta, memo, tarballs>>
  BY DEF envVars, cacheVars
<1>2. faults' \in Nat
  BY <1>1, WorldFacts DEF PackInv
<1>3. CachesOk(disk', meta', memo', tarballs', hist, window, now)
  BY <1>1, CacheFacts
<1> QED BY <1>1, <1>2, <1>3, StepKeeps
-----------------------------------------------------------------------------
(* The ladder of packuments and version documents, an action at a time.    *)

LEMMA BeginPackumentKeeps ==
  ASSUME PackInv, NEW c \in Clients, BeginPackument(c)
  PROVE  PackInv'
<1> DEFINE r == [NoRequest EXCEPT !.pc = "lookup", !.kind = "packument",
                                  !.etag = copy[c].etag, !.ok = copy[c].marker = ServeMarker]
<1>1. copy[c].etag \in Nat /\ CopyOk(copy[c], hist, now)
  BY ClientFacts DEF Copies
<1>2. NoRequest \in Requests /\ NoRequest.data = 0
  BY NoRequestOk DEF PackInv, NoRequest
<1>3. /\ r \in Requests /\ r.data = 0 /\ r.pc = "lookup" /\ r.kind = "packument"
      /\ r.ok => copy[c].marker = ServeMarker
  BY <1>1, <1>2 DEF Requests, Pcs, AskKinds
<1>4. ServeMarker.win = window
  BY MarkerFacts DEF PackInv
<1>5. RequestOk(r, copy[c], hist, window, now)
  <2> HIDE DEF r
  <2> QED BY <1>3, <1>4, CacheFacts DEF RequestOk, LadderPcs, GatePcs, TarballPcs
<1>6. ClientOk(r, copy[c], NoAnswer, hist, window, now)
  BY <1>1, <1>5, NoAnswerOk DEF ClientOk
<1>7. /\ req' = [req EXCEPT ![c] = r] /\ copy' = [copy EXCEPT ![c] = copy[c]]
      /\ resp' = [resp EXCEPT ![c] = NoAnswer]
  BY SameCopies DEF BeginPackument
<1>8. UNCHANGED <<envVars, cacheVars>>
  BY DEF BeginPackument
<1> HIDE DEF r
<1> QED BY <1>6, <1>7, <1>8, OneClient, QuietStep

LEMMA BeginVersionDocKeeps ==
  ASSUME PackInv, NEW c \in Clients, NEW ver \in Nat, BeginVersionDoc(c, ver)
  PROVE  PackInv'
<1> DEFINE r == [NoRequest EXCEPT !.pc = "lookup", !.kind = "doc", !.ver = ver]
<1>1. CopyOk(copy[c], hist, now)
  BY ClientFacts
<1>2. NoRequest \in Requests /\ NoRequest.data = 0 /\ ~NoRequest.ok
  BY NoRequestOk DEF PackInv, NoRequest
<1>3. r \in Requests /\ r.data = 0 /\ r.pc = "lookup" /\ r.kind = "doc" /\ ~r.ok
  BY <1>2 DEF Requests, Pcs, AskKinds
<1>4. RequestOk(r, copy[c], hist, window, now)
  <2> HIDE DEF r
  <2> QED BY <1>3, CacheFacts DEF RequestOk, LadderPcs, GatePcs, TarballPcs
<1>5. ClientOk(r, copy[c], NoAnswer, hist, window, now)
  BY <1>1, <1>4, NoAnswerOk DEF ClientOk
<1>6. /\ req' = [req EXCEPT ![c] = r] /\ copy' = [copy EXCEPT ![c] = copy[c]]
      /\ resp' = [resp EXCEPT ![c] = NoAnswer]
  BY SameCopies DEF BeginVersionDoc
<1>7. UNCHANGED <<envVars, cacheVars>>
  BY DEF BeginVersionDoc
<1> HIDE DEF r
<1> QED BY <1>5, <1>6, <1>7, OneClient, QuietStep

(* A request moved along the ladder, to pc with entry e and data n.        *)
LEMMA LadderGoto ==
  ASSUME PackInv, NEW c \in Clients, req[c].pc \in LadderPcs,
         NEW pc \in LadderPcs \ {"filtering"}
  PROVE  /\ Goto(c, [req[c] EXCEPT !.pc = pc]) =>
              ClientsOk(req', copy', resp', hist, window, now)
         /\ \A e \in Entries : Goto(c, [req[c] EXCEPT !.pc = pc, !.entry = e]) =>
              ClientsOk(req', copy', resp', hist, window, now)
         /\ \A n \in Nat : n <= Len(hist) /\ Goto(c, [req[c] EXCEPT !.pc = pc, !.data = n]) =>
              ClientsOk(req', copy', resp', hist, window, now)
         /\ \A e \in Entries, n \in Nat :
              n <= Len(hist) /\ Goto(c, [req[c] EXCEPT !.pc = pc, !.entry = e, !.data = n]) =>
                ClientsOk(req', copy', resp', hist, window, now)
<1>1. req[c] \in Requests /\ req[c].data \in Nat /\ req[c].data <= Len(hist) /\ pc \in Pcs
  BY LadderFacts DEF LadderPcs, Pcs
<1>2. ASSUME NEW r \in Requests, r.pc = pc, r.kind = req[c].kind, r.ok = req[c].ok,
             r.data <= Len(hist), Goto(c, r)
      PROVE  ClientsOk(req', copy', resp', hist, window, now)
  BY <1>2, LadderMoves
<1>3. ASSUME Goto(c, [req[c] EXCEPT !.pc = pc])
      PROVE  ClientsOk(req', copy', resp', hist, window, now)
  <2> DEFINE r == [req[c] EXCEPT !.pc = pc]
  <2>1. /\ r \in Requests /\ r.pc = pc /\ r.kind = req[c].kind /\ r.ok = req[c].ok
        /\ r.data = req[c].data
    BY <1>1 DEF Requests
  <2>2. Goto(c, r)
    BY <1>3
  <2> HIDE DEF r
  <2> QED BY <1>1, <1>2, <2>1, <2>2
<1>4. ASSUME NEW e \in Entries, Goto(c, [req[c] EXCEPT !.pc = pc, !.entry = e])
      PROVE  ClientsOk(req', copy', resp', hist, window, now)
  <2> DEFINE r == [req[c] EXCEPT !.pc = pc, !.entry = e]
  <2>1. /\ r \in Requests /\ r.pc = pc /\ r.kind = req[c].kind /\ r.ok = req[c].ok
        /\ r.data = req[c].data
    BY <1>1 DEF Requests
  <2>2. Goto(c, r)
    BY <1>4
  <2> HIDE DEF r
  <2> QED BY <1>1, <1>2, <2>1, <2>2
<1>5. ASSUME NEW n \in Nat, n <= Len(hist), Goto(c, [req[c] EXCEPT !.pc = pc, !.data = n])
      PROVE  ClientsOk(req', copy', resp', hist, window, now)
  <2> DEFINE r == [req[c] EXCEPT !.pc = pc, !.data = n]
  <2>1. /\ r \in Requests /\ r.pc = pc /\ r.kind = req[c].kind /\ r.ok = req[c].ok
        /\ r.data = n
    BY <1>1 DEF Requests
  <2>2. Goto(c, r)
    BY <1>5
  <2> HIDE DEF r
  <2> QED BY <1>5, <1>2, <2>1, <2>2
<1>6. ASSUME NEW e \in Entries, NEW n \in Nat, n <= Len(hist),
             Goto(c, [req[c] EXCEPT !.pc = pc, !.entry = e, !.data = n])
      PROVE  ClientsOk(req', copy', resp', hist, window, now)
  <2> DEFINE r == [req[c] EXCEPT !.pc = pc, !.entry = e, !.data = n]
  <2>1. /\ r \in Requests /\ r.pc = pc /\ r.kind = req[c].kind /\ r.ok = req[c].ok
        /\ r.data = n
    BY <1>1 DEF Requests
  <2>2. Goto(c, r)
    BY <1>6
  <2> HIDE DEF r
  <2> QED BY <1>6, <1>2, <2>1, <2>2
<1> QED BY <1>3, <1>4, <1>5, <1>6

LEMMA LookupKeeps ==
  ASSUME PackInv, NEW c \in Clients, Lookup(c)
  PROVE  PackInv'
<1>1. req[c].pc \in LadderPcs /\ UNCHANGED <<envVars, cacheVars>>
  BY DEF Lookup, At, LadderPcs
<1>2. meta \in Entries /\ req[c].kind \in {"packument", "doc"}
  BY <1>1, CacheFacts, LadderFacts
<1>3. {"find", "fetch", "read"} \subseteq LadderPcs \ {"filtering"}
  BY DEF LadderPcs
<1> SUFFICES ClientsOk(req', copy', resp', hist, window, now)
  BY <1>1, QuietStep
<1>4. CASE Goto(c, [req[c] EXCEPT !.pc = "find"])
  BY <1>1, <1>3, <1>4, LadderGoto
<1>5. CASE Goto(c, [req[c] EXCEPT !.pc = "fetch", !.entry = meta])
  BY <1>1, <1>2, <1>3, <1>5, LadderGoto
<1>6. CASE MayNotModify(c, meta) /\ ServedNotModified(c)
  <2>1. req[c].ok
    BY <1>6 DEF MayNotModify
  <2> QED BY <1>1, <1>2, <1>6, <2>1, NotModified
<1>7. CASE ServeMemo(c, meta)
  BY <1>1, <1>2, <1>7, MemoServed
<1>8. CASE Goto(c, [req[c] EXCEPT !.pc = "read", !.entry = meta])
  BY <1>1, <1>2, <1>3, <1>8, LadderGoto
<1> QED BY <1>4, <1>5, <1>6, <1>7, <1>8 DEF Lookup

(* Reading the cached file, or its mtime.                                  *)
LEMMA ReadKeeps ==
  ASSUME PackInv, NEW c \in Clients,
         ReadFresh(c) \/ FindMtime(c) \/ ReadAfter304(c) \/ ReadStale(c) \/ FindStale(c)
  PROVE  PackInv'
<1>1. req[c].pc \in LadderPcs /\ UNCHANGED <<envVars, cacheVars>>
  BY DEF ReadFresh, FindMtime, ReadAfter304, ReadStale, FindStale, At, LadderPcs
<1>2. /\ disk.rev \in Nat /\ disk.rev <= Len(hist)
      /\ NoEntry \in Entries /\ FileEntry \in Entries
  BY CacheFacts
<1>3. {"find", "fetch", "filter", "findstale", "lost"} \subseteq LadderPcs \ {"filtering"}
  BY DEF LadderPcs
<1> SUFFICES ClientsOk(req', copy', resp', hist, window, now)
  BY <1>1, QuietStep
<1>4. CASE ReadFresh(c)
  <2>1. \/ Goto(c, [req[c] EXCEPT !.pc = "filter", !.data = disk.rev])
        \/ Goto(c, [req[c] EXCEPT !.pc = "find", !.entry = NoEntry])
    BY <1>4 DEF ReadFresh
  <2> QED BY <1>1, <1>2, <1>3, <2>1, LadderGoto
<1>5. CASE FindMtime(c)
  <2>1. Goto(c, [req[c] EXCEPT !.pc = "fetch", !.entry = FileEntry])
    BY <1>5 DEF FindMtime
  <2> QED BY <1>1, <1>2, <1>3, <2>1, LadderGoto
<1>6. CASE ReadAfter304(c)
  <2>1. \/ Goto(c, [req[c] EXCEPT !.pc = "filter", !.data = disk.rev])
        \/ Goto(c, [req[c] EXCEPT !.pc = "lost"])
    BY <1>6 DEF ReadAfter304
  <2> QED BY <1>1, <1>2, <1>3, <2>1, LadderGoto
<1>7. CASE ReadStale(c)
  <2>1. \/ Goto(c, [req[c] EXCEPT !.pc = "findstale", !.data = disk.rev])
        \/ Refuse(c, 502)
    BY <1>7 DEF ReadStale
  <2>2. 502 \in Statuses \ {200, 304}
    BY DEF Statuses
  <2>3. CASE Goto(c, [req[c] EXCEPT !.pc = "findstale", !.data = disk.rev])
    BY <1>1, <1>2, <1>3, <2>3, LadderGoto
  <2> QED BY <2>1, <2>2, <2>3, Refused
<1>8. CASE FindStale(c)
  <2>1. Goto(c, [req[c] EXCEPT !.pc = "filter", !.entry = FileEntry])
    BY <1>8 DEF FindStale
  <2> QED BY <1>1, <1>2, <1>3, <2>1, LadderGoto
<1> QED BY <1>4, <1>5, <1>6, <1>7, <1>8

LEMMA HarvestFacts ==
  ASSUME PackInv, hist # <<>>
  PROVE  Harvest \in Entries /\ Current \in Nat /\ Current <= Len(hist)
<1>1. hist \in Seq(Versions)
  BY DEF PackInv, WorldOk
<1>2. Len(hist) \in Nat \ {0}
  BY <1>1, EmptySeq
<1>3. Current \in 1..Len(hist) /\ Current \in Nat
  BY <1>2 DEF Current
<1>4. hist[Current].at \in Nat /\ now \in Nat
  BY <1>3, WorldFacts DEF PackInv
<1> QED BY <1>2, <1>3, <1>4 DEF Harvest, Entries, Current

LEMMA FaultType ==
  ASSUME PackInv, Fault
  PROVE  faults' \in Nat
<1>1. faults \in Nat
  BY WorldFacts DEF PackInv
<1> QED BY <1>1 DEF Fault

(* A failure that leaves the caches alone.                                 *)
LEMMA QuietFault ==
  ASSUME PackInv, Fault, UNCHANGED <<now, hist, window, cacheVars>>,
         ClientsOk(req', copy', resp', hist, window, now)
  PROVE  PackInv'
<1>1. UNCHANGED <<now, hist, window>> /\ UNCHANGED <<disk, meta, memo, tarballs>>
  BY DEF cacheVars
<1>2. CachesOk(disk', meta', memo', tarballs', hist, window, now)
  BY <1>1, CacheFacts
<1> QED BY <1>1, <1>2, FaultType, StepKeeps

(* New contents of the file, the entry and the tarballs.                   *)
LEMMA StoredOk ==
  ASSUME PackInv, NEW d \in Files, d.rev <= Len(hist), NEW e \in Entries,
         NEW tar \in SUBSET Nat
  PROVE  CachesOk(d, e, memo, tar, hist, window, now)
BY DEF PackInv, CachesOk

LEMMA CachedOk ==
  ASSUME PackInv
  PROVE  /\ disk \in Files /\ disk.rev <= Len(hist)
         /\ meta \in Entries /\ tarballs \in SUBSET Nat
         /\ NoFile \in Files /\ NoFile.rev <= Len(hist)
<1>1. NoFile \in Files /\ NoFile.rev = 0 /\ Len(hist) \in Nat
  BY CacheFacts DEF NoFile, Files
<1> QED BY <1>1 DEF PackInv, CachesOk

LEMMA WrittenOk ==
  ASSUME PackInv, NEW c \in Clients
  PROVE  /\ Written(c) \in Files /\ Written(c).rev <= Len(hist)
         /\ [rev |-> req[c].data, mtime |-> now] \in Files
         /\ req[c].data <= Len(hist) /\ req[c].entry \in Entries
<1>1. req[c] \in Requests /\ req[c].data <= Len(hist) /\ now \in Nat
  BY ClientFacts, CacheFacts DEF RequestOk
<1>2. req[c].data \in Nat /\ req[c].entry \in Entries /\ req[c].entry.mtime \in Nat
  BY <1>1 DEF Requests, Entries
<1> QED BY <1>1, <1>2 DEF Written, Files

LEMMA FetchKeeps ==
  ASSUME PackInv, NEW c \in Clients, Fetch(c) \/ FetchUnknown(c) \/ FetchFails(c)
  PROVE  PackInv'
<1>1. req[c].pc \in LadderPcs
  BY DEF Fetch, FetchUnknown, FetchFails, At, LadderPcs
<1>2. {"store304", "write", "readstale"} \subseteq LadderPcs \ {"filtering"}
  BY DEF LadderPcs
<1>3. CASE Fetch(c)
  <2>1. hist # <<>> /\ UNCHANGED <<envVars, cacheVars>>
    BY <1>3 DEF Fetch
  <2>2. Harvest \in Entries /\ Current \in Nat /\ Current <= Len(hist)
    BY <2>1, HarvestFacts
  <2> SUFFICES ClientsOk(req', copy', resp', hist, window, now)
    BY <2>1, QuietStep
  <2>3. CASE Goto(c, [req[c] EXCEPT !.pc = "store304", !.entry = Harvest])
    BY <1>1, <1>2, <2>2, <2>3, LadderGoto
  <2>4. CASE Goto(c, [req[c] EXCEPT !.pc = "write", !.entry = Harvest, !.data = Current])
    BY <1>1, <1>2, <2>2, <2>4, LadderGoto
  <2> QED BY <1>3, <2>3, <2>4 DEF Fetch
<1>4. CASE FetchUnknown(c)
  <2>1. Refuse(c, 404) /\ 404 \in Statuses \ {200, 304} /\ UNCHANGED <<envVars, cacheVars>>
    BY <1>4 DEF FetchUnknown, Statuses
  <2> QED BY <2>1, Refused, QuietStep
<1>5. CASE FetchFails(c)
  <2>1. /\ Fault /\ UNCHANGED <<now, hist, window, cacheVars>>
        /\ Goto(c, [req[c] EXCEPT !.pc = "readstale", !.entry = NoEntry])
    BY <1>5 DEF FetchFails
  <2>2. ClientsOk(req', copy', resp', hist, window, now)
    BY <1>1, <1>2, <2>1, CacheFacts, LadderGoto
  <2> QED BY <2>1, <2>2, QuietFault
<1> QED BY <1>3, <1>4, <1>5

LEMMA WritePackumentKeeps ==
  ASSUME PackInv, NEW c \in Clients, WritePackument(c)
  PROVE  PackInv'
<1>1. req[c].pc \in LadderPcs /\ "store200" \in LadderPcs \ {"filtering"}
  BY DEF WritePackument, At, LadderPcs
<1>2. /\ disk' = Written(c) /\ Goto(c, [req[c] EXCEPT !.pc = "store200"])
      /\ UNCHANGED <<now, hist, window, faults>> /\ UNCHANGED <<meta, memo, tarballs>>
  BY DEF WritePackument, envVars
<1>3. CachesOk(disk', meta', memo', tarballs', hist, window, now)
  BY <1>2, StoredOk, CachedOk, WrittenOk
<1>4. ClientsOk(req', copy', resp', hist, window, now)
  BY <1>1, <1>2, LadderGoto
<1>5. faults' \in Nat
  BY <1>2, WorldFacts DEF PackInv
<1> QED BY <1>2, <1>3, <1>4, <1>5, StepKeeps

LEMMA StoreMetaKeeps ==
  ASSUME PackInv, NEW c \in Clients, StoreMeta200(c) \/ StoreMeta304(c)
  PROVE  PackInv'
<1>1. req[c].pc \in LadderPcs /\ {"filter", "read304"} \subseteq LadderPcs \ {"filtering"}
  BY DEF StoreMeta200, StoreMeta304, At, LadderPcs
<1>2. req[c].entry \in Entries /\ req[c].kind \in {"packument", "doc"}
  BY <1>1, LadderFacts
<1>3. /\ meta' = req[c].entry
      /\ UNCHANGED <<now, hist, window, faults>> /\ UNCHANGED <<disk, memo, tarballs>>
  BY DEF StoreMeta200, StoreMeta304, envVars
<1>4. CachesOk(disk', meta', memo', tarballs', hist, window, now)
  BY <1>2, <1>3, StoredOk, CachedOk
<1>5. ClientsOk(req', copy', resp', hist, window, now)
  <2>1. CASE MayNotModify(c, req[c].entry) /\ ServedNotModified(c)
    <3>1. req[c].ok
      BY <2>1 DEF MayNotModify
    <3> QED BY <1>2, <2>1, <3>1, NotModified
  <2>2. CASE ServeMemo(c, req[c].entry)
    BY <1>2, <2>2, MemoServed
  <2>3. CASE Goto(c, [req[c] EXCEPT !.pc = "filter"])
    BY <1>1, <2>3, LadderGoto
  <2>4. CASE Goto(c, [req[c] EXCEPT !.pc = "read304"])
    BY <1>1, <2>4, LadderGoto
  <2> QED BY <2>1, <2>2, <2>3, <2>4 DEF StoreMeta200, StoreMeta304
<1>6. faults' \in Nat
  BY <1>3, WorldFacts DEF PackInv
<1> QED BY <1>3, <1>4, <1>5, <1>6, StepKeeps

LEMMA LostFileKeeps ==
  ASSUME PackInv, NEW c \in Clients, LostFile(c)
  PROVE  PackInv'
<1>1. /\ meta' = NoEntry /\ Refuse(c, 503) /\ 503 \in Statuses \ {200, 304}
      /\ UNCHANGED <<now, hist, window, faults>> /\ UNCHANGED <<disk, memo, tarballs>>
  BY DEF LostFile, envVars, Statuses
<1>2. CachesOk(disk', meta', memo', tarballs', hist, window, now)
  BY <1>1, StoredOk, CachedOk, CacheFacts
<1>3. ClientsOk(req', copy', resp', hist, window, now)
  BY <1>1, Refused
<1>4. faults' \in Nat
  BY <1>1, WorldFacts DEF PackInv
<1> QED BY <1>1, <1>2, <1>3, <1>4, StepKeeps

(* The cutoff is captured here, ...                                        *)
LEMMA FilterKeeps ==
  ASSUME PackInv, NEW c \in Clients, Filter(c)
  PROVE  PackInv'
<1>1. req[c].pc \in LadderPcs /\ UNCHANGED <<envVars, cacheVars>>
  BY DEF Filter, At, LadderPcs
<1>2. req[c].entry \in Entries /\ req[c].kind \in {"packument", "doc"}
  BY <1>1, LadderFacts
<1>3. CASE ServeMemo(c, req[c].entry)
  BY <1>1, <1>2, <1>3, MemoServed, QuietStep
<1>4. CASE Goto(c, [req[c] EXCEPT !.pc = "filtering", !.cut = Cutoff])
  <2> DEFINE r == [req[c] EXCEPT !.pc = "filtering", !.cut = Cutoff]
  <2>1. req[c] \in Requests /\ RequestOk(req[c], copy[c], hist, window, now)
    BY ClientFacts
  <2>2. CutOk(Cutoff, window, now) /\ Cutoff \in Cutoffs
    BY CutoffFacts DEF PackInv, CutOk
  <2>3. /\ r \in Requests /\ r.pc = "filtering" /\ r.cut = Cutoff /\ r.kind = req[c].kind
        /\ r.ok = req[c].ok /\ r.data = req[c].data
    BY <2>1, <2>2 DEF Requests, Pcs
  <2>4. Goto(c, r)
    BY <1>4
  <2> HIDE DEF r
  <2>5. RequestOk(r, copy[c], hist, window, now)
    BY <1>2, <2>1, <2>2, <2>3 DEF RequestOk, LadderPcs, GatePcs, TarballPcs
  <2> QED BY <1>1, <2>4, <2>5, Moved, QuietStep
<1> QED BY <1>3, <1>4 DEF Filter

(* ... and used, on the revision read before, when the task is done.       *)
LEMMA FilterDoneKeeps ==
  ASSUME PackInv, NEW c \in Clients, FilterDone(c)
  PROVE  PackInv'
<1> DEFINE body == FilterPackument(req[c].data, req[c].cut)
<1>1. /\ req[c].pc \in LadderPcs /\ req[c].pc = "filtering"
      /\ UNCHANGED <<now, hist, window, faults>> /\ UNCHANGED <<disk, meta, tarballs>>
  BY DEF FilterDone, At, LadderPcs, envVars
<1>2. /\ req[c].entry \in Entries /\ req[c].kind \in {"packument", "doc"}
      /\ req[c].data \in Nat /\ req[c].data <= Len(hist) /\ req[c].cut \in Cutoffs
  BY <1>1, LadderFacts
<1>3. CutOk(req[c].cut, window, now)
  BY <1>1, ClientFacts DEF RequestOk
<1>4. BodyOk(body, hist, window, now)
  BY <1>2, <1>3, FilterOk DEF PackInv
<1>5. faults' \in Nat
  BY <1>1, WorldFacts DEF PackInv
<1>6. CASE Refuse(c, 404) /\ UNCHANGED memo
  <2>1. 404 \in Statuses \ {200, 304}
    BY DEF Statuses
  <2>2. CachesOk(disk', meta', memo', tarballs', hist, window, now)
    BY <1>1, <1>6, CacheFacts
  <2>3. ClientsOk(req', copy', resp', hist, window, now)
    BY <1>6, <2>1, Refused
  <2> QED BY <1>1, <1>5, <2>2, <2>3, StepKeeps
<1>7. CASE /\ ServedBody(c, req[c].entry, body)
           /\ memo' = IF Validator(req[c].entry) = NoValidator THEN memo
                      ELSE [val |-> Validator(req[c].entry),
                            bkt |-> MemoBucket(req[c].cut), body |-> body]
  <2>1. ClientsOk(req', copy', resp', hist, window, now)
    <3> HIDE DEF body
    <3> QED BY <1>2, <1>4, <1>7, Served
  <2>2. Validator(req[c].entry) \in Nat \X Nat /\ MemoBucket(req[c].cut) \in Nat
    BY <1>2, BucketType DEF Validator, Entries
  <2>3. memo \in Memos /\ BodyOk(memo.body, hist, window, now)
    BY DEF PackInv, CachesOk
  <2>4. memo' \in Memos /\ BodyOk(memo'.body, hist, window, now)
    <3>1. body \in Bodies
      BY <1>4 DEF BodyOk
    <3> HIDE DEF body
    <3> QED BY <1>4, <1>7, <2>2, <2>3, <3>1 DEF Memos
  <2>5. CachesOk(disk', meta', memo', tarballs', hist, window, now)
    BY <1>1, <2>4 DEF PackInv, CachesOk
  <2> QED BY <1>1, <1>5, <2>1, <2>5, StepKeeps
<1> QED BY <1>6, <1>7 DEF FilterDone

LEMMA FilterFailsKeeps ==
  ASSUME PackInv, NEW c \in Clients, NEW status \in {500, 502}, FilterFails(c, status)
  PROVE  PackInv'
<1>1. /\ Refuse(c, status) /\ status \in Statuses \ {200, 304}
      /\ Fault /\ UNCHANGED <<now, hist, window, cacheVars>>
  BY DEF FilterFails, Statuses
<1> QED BY <1>1, Refused, QuietFault
-----------------------------------------------------------------------------
(* The gate and the tarballs.                                              *)

LEMMA BeginTarballKeeps ==
  ASSUME PackInv, NEW c \in Clients, NEW ver \in Nat, BeginTarball(c, ver)
  PROVE  PackInv'
<1> DEFINE pc  == IF Gated THEN "gate" ELSE "tarball"
           cut == IF Gated THEN Cutoff ELSE Unfiltered
           r   == [NoRequest EXCEPT !.pc = pc, !.kind = "tarball", !.ver = ver, !.cut = cut]
<1>1. NoRequest \in Requests /\ NoRequest.data = 0 /\ ~NoRequest.ok
  BY NoRequestOk DEF PackInv, NoRequest
<1>2. CutOk(Cutoff, window, now) /\ (window = 0 <=> Cutoff = Unfiltered)
  BY CutoffFacts DEF PackInv
<1>3. pc \in Pcs /\ cut \in Cutoffs
  BY <1>2 DEF Pcs, Cutoffs, CutOk
<1>4. /\ r \in Requests /\ r.data = 0 /\ r.pc = pc /\ r.kind = "tarball" /\ ~r.ok
      /\ r.cut = cut
  <2> HIDE DEF pc, cut
  <2> QED BY <1>1, <1>3 DEF Requests, AskKinds
<1>5. \/ pc = "gate" /\ cut = Cutoff
      \/ pc = "tarball" /\ ~(RestrictDownloads /\ window > 0)
  <2>1. window \in Nat
    BY CacheFacts
  <2>2. CASE Gated
    BY <2>2
  <2>3. CASE ~Gated
    BY <1>2, <2>1, <2>3 DEF Gated
  <2> QED BY <2>2, <2>3
<1>6. 0 <= Len(hist)
  BY CacheFacts
<1>7. RequestOk(r, copy[c], hist, window, now)
  <2> HIDE DEF r, pc, cut
  <2>1. CASE pc = "gate" /\ cut = Cutoff
    BY <1>2, <1>4, <1>6, <2>1 DEF RequestOk, LadderPcs, GatePcs, TarballPcs
  <2>2. CASE pc = "tarball" /\ ~(RestrictDownloads /\ window > 0)
    BY <1>4, <1>6, <2>2 DEF RequestOk, LadderPcs, GatePcs, TarballPcs
  <2> QED BY <1>5, <2>1, <2>2
<1>8. ClientOk(r, copy[c], NoAnswer, hist, window, now)
  BY <1>7, ClientFacts, NoAnswerOk DEF ClientOk
<1>9. /\ req' = [req EXCEPT ![c] = r] /\ copy' = [copy EXCEPT ![c] = copy[c]]
      /\ resp' = [resp EXCEPT ![c] = NoAnswer]
  BY SameCopies DEF BeginTarball
<1>10. UNCHANGED <<envVars, cacheVars>>
  BY DEF BeginTarball
<1> HIDE DEF r
<1> QED BY <1>8, <1>9, <1>10, OneClient, QuietStep

LEMMA GateFacts ==
  ASSUME PackInv, NEW c \in Clients, req[c].pc \in GatePcs
  PROVE  /\ req[c] \in Requests /\ req[c].kind = "tarball" /\ req[c].ver \in Nat
         /\ CutOk(req[c].cut, window, now)
         /\ req[c].entry \in Entries /\ req[c].data \in Nat /\ req[c].data <= Len(hist)
BY ClientFacts DEF RequestOk, Requests

(* The gate opens only for a version as old as its cutoff.                 *)
LEMMA VerdictOk ==
  ASSUME PackInv, NEW c \in Clients, req[c].pc \in GatePcs,
         NEW rev \in Nat, rev <= Len(hist), Verdict(c, rev)
  PROVE  ClientsOk(req', copy', resp', hist, window, now)
<1>1. CASE TarballOldEnough(c, rev) /\ Goto(c, [req[c] EXCEPT !.pc = "tarball"])
  <2> DEFINE r == [req[c] EXCEPT !.pc = "tarball"]
  <2>1. /\ req[c] \in Requests /\ CutOk(req[c].cut, window, now)
        /\ req[c].kind = "tarball" /\ req[c].ver \in Nat
    BY GateFacts
  <2>2. /\ r \in Requests /\ r.pc = "tarball" /\ r.kind = "tarball" /\ r.ver = req[c].ver
        /\ r.ok = req[c].ok /\ r.data = req[c].data
    BY <2>1 DEF Requests, Pcs
  <2>3. /\ req[c].ver \in 1..rev /\ hist[req[c].ver].dated
        /\ hist[req[c].ver].at <= req[c].cut
    BY <1>1 DEF TarballOldEnough
  <2>4. /\ req[c].ver \in 1..Len(hist) /\ Len(hist) \in Nat
        /\ window \in Nat /\ now \in Nat
    BY <2>3, CacheFacts
  <2>5. hist[req[c].ver].at \in Nat /\ hist[req[c].ver].at > 0
    BY <2>4, WorldFacts DEF PackInv
  <2>6. ASSUME window > 0 PROVE hist[req[c].ver].at + window <= now
    <3>1. req[c].cut \in Nat /\ (req[c].cut = 0 \/ req[c].cut + window <= now)
      BY <2>1, <2>6 DEF CutOk
    <3> QED BY <2>3, <2>4, <2>5, <3>1
  <2>7. Cleared(r.ver, hist, window, now)
    BY <2>2, <2>3, <2>4, <2>6 DEF Cleared, Old
  <2>8. Goto(c, r)
    BY <1>1
  <2>9. RequestOk(req[c], copy[c], hist, window, now)
    BY ClientFacts
  <2>10. RequestOk(r, copy[c], hist, window, now)
    <3> HIDE DEF r
    <3> QED BY <2>2, <2>7, <2>9 DEF RequestOk, LadderPcs, GatePcs
  <2> HIDE DEF r
  <2> QED BY <2>8, <2>10, Moved
<1>2. CASE Refuse(c, 403)
  <2>1. 403 \in Statuses \ {200, 304}
    BY DEF Statuses
  <2> QED BY <1>2, <2>1, Refused
<1> QED BY <1>1, <1>2 DEF Verdict

LEMMA GateReadKeeps ==
  ASSUME PackInv, NEW c \in Clients, GateRead(c)
  PROVE  PackInv'
<1>1. req[c].pc \in GatePcs /\ UNCHANGED <<envVars, cacheVars>>
  BY DEF GateRead, At, GatePcs
<1> SUFFICES ClientsOk(req', copy', resp', hist, window, now)
  BY <1>1, QuietStep
<1>2. CASE Verdict(c, disk.rev)
  BY <1>1, <1>2, CacheFacts, VerdictOk
<1>3. CASE Goto(c, [req[c] EXCEPT !.pc = "gatefetch"])
  <2> DEFINE r == [req[c] EXCEPT !.pc = "gatefetch"]
  <2>1. req[c] \in Requests /\ req[c].data <= Len(hist)
    BY <1>1, GateFacts
  <2>2. /\ r \in Requests /\ r.pc \in GatePcs /\ r.kind = req[c].kind
        /\ r.ok = req[c].ok /\ r.cut = req[c].cut /\ r.data = req[c].data
    BY <2>1 DEF Requests, Pcs, GatePcs
  <2>3. Goto(c, r)
    BY <1>3
  <2> HIDE DEF r
  <2> QED BY <1>1, <2>1, <2>2, <2>3, GateMoves
<1> QED BY <1>2, <1>3 DEF GateRead

LEMMA GateFetchKeeps ==
  ASSUME PackInv, NEW c \in Clients, GateFetch(c) \/ GateFetchFails(c)
  PROVE  PackInv'
<1>1. req[c].pc \in GatePcs /\ 403 \in Statuses \ {200, 304}
  BY DEF GateFetch, GateFetchFails, At, GatePcs, Statuses
<1>2. CASE GateFetch(c)
  <2> SUFFICES ClientsOk(req', copy', resp', hist, window, now)
    BY <1>2, QuietStep DEF GateFetch
  <2>1. CASE Refuse(c, 403)
    BY <1>1, <2>1, Refused
  <2>2. CASE /\ hist # <<>>
             /\ Goto(c, [req[c] EXCEPT !.pc = "gatewrite", !.entry = Harvest,
                                       !.data = Current])
    <3> DEFINE r == [req[c] EXCEPT !.pc = "gatewrite", !.entry = Harvest, !.data = Current]
    <3>1. Harvest \in Entries /\ Current \in Nat /\ Current <= Len(hist)
      BY <2>2, HarvestFacts
    <3>2. req[c] \in Requests
      BY ClientFacts
    <3>3. /\ r \in Requests /\ r.pc \in GatePcs /\ r.kind = req[c].kind
          /\ r.ok = req[c].ok /\ r.cut = req[c].cut /\ r.data = Current
      BY <3>1, <3>2 DEF Requests, Pcs, GatePcs
    <3>4. Goto(c, r)
      BY <2>2
    <3> HIDE DEF r
    <3> QED BY <1>1, <3>1, <3>3, <3>4, GateMoves
  <2> QED BY <1>2, <2>1, <2>2 DEF GateFetch
<1>3. CASE GateFetchFails(c)
  <2>1. Refuse(c, 403) /\ Fault /\ UNCHANGED <<now, hist, window, cacheVars>>
    BY <1>3 DEF GateFetchFails
  <2> QED BY <1>1, <2>1, Refused, QuietFault
<1> QED BY <1>2, <1>3

(* Past the write, done or failed, to the gate's entry.                    *)
LEMMA GateWritten ==
  ASSUME PackInv, NEW c \in Clients, req[c].pc \in GatePcs,
         Goto(c, [req[c] EXCEPT !.pc = "gatestore"])
  PROVE  ClientsOk(req', copy', resp', hist, window, now)
<1> DEFINE r == [req[c] EXCEPT !.pc = "gatestore"]
<1>1. req[c] \in Requests /\ req[c].data <= Len(hist)
  BY GateFacts
<1>2. /\ r \in Requests /\ r.pc \in GatePcs /\ r.kind = req[c].kind
      /\ r.ok = req[c].ok /\ r.cut = req[c].cut /\ r.data = req[c].data
  BY <1>1 DEF Requests, Pcs, GatePcs
<1>3. Goto(c, r)
  OBVIOUS
<1> HIDE DEF r
<1> QED BY <1>1, <1>2, <1>3, GateMoves

LEMMA GateWriteKeeps ==
  ASSUME PackInv, NEW c \in Clients, GateWrite(c)
  PROVE  PackInv'
<1>1. /\ req[c].pc \in GatePcs /\ disk' = Written(c)
      /\ Goto(c, [req[c] EXCEPT !.pc = "gatestore"])
      /\ UNCHANGED <<now, hist, window, faults>> /\ UNCHANGED <<meta, memo, tarballs>>
  BY DEF GateWrite, envVars, At, GatePcs
<1>2. CachesOk(disk', meta', memo', tarballs', hist, window, now)
  BY <1>1, StoredOk, CachedOk, WrittenOk
<1>3. ClientsOk(req', copy', resp', hist, window, now)
  BY <1>1, GateWritten
<1>4. faults' \in Nat
  BY <1>1, WorldFacts DEF PackInv
<1> QED BY <1>1, <1>2, <1>3, <1>4, StepKeeps

LEMMA GateStoreKeeps ==
  ASSUME PackInv, NEW c \in Clients, GateStore(c)
  PROVE  PackInv'
<1>1. /\ req[c].pc \in GatePcs /\ meta' = req[c].entry /\ Verdict(c, req[c].data)
      /\ UNCHANGED <<now, hist, window, faults>> /\ UNCHANGED <<disk, memo, tarballs>>
  BY DEF GateStore, envVars, At, GatePcs
<1>2. req[c].entry \in Entries /\ req[c].data \in Nat /\ req[c].data <= Len(hist)
  BY <1>1, GateFacts
<1>3. CachesOk(disk', meta', memo', tarballs', hist, window, now)
  BY <1>1, <1>2, StoredOk, CachedOk
<1>4. ClientsOk(req', copy', resp', hist, window, now)
  BY <1>1, <1>2, VerdictOk
<1>5. faults' \in Nat
  BY <1>1, WorldFacts DEF PackInv
<1> QED BY <1>1, <1>3, <1>4, <1>5, StepKeeps

LEMMA WriteFailsKeeps ==
  ASSUME PackInv, NEW c \in Clients, WriteFails(c)
  PROVE  PackInv'
<1>1. /\ req[c].pc \in {"write", "gatewrite"} /\ Fault
      /\ disk' \in {disk, [rev |-> req[c].data, mtime |-> now]}
      /\ UNCHANGED <<now, hist, window>> /\ UNCHANGED <<meta, memo, tarballs>>
  BY DEF WriteFails
<1>2. disk' \in Files /\ disk'.rev <= Len(hist)
  BY <1>1, CachedOk, WrittenOk
<1>3. CachesOk(disk', meta', memo', tarballs', hist, window, now)
  BY <1>1, <1>2, StoredOk, CachedOk
<1>4. ClientsOk(req', copy', resp', hist, window, now)
  <2>1. CASE req[c].pc = "write"
    <3>1. Goto(c, [req[c] EXCEPT !.pc = "store200"])
      BY <2>1 DEF WriteFails, At
    <3>2. req[c].pc \in LadderPcs /\ "store200" \in LadderPcs \ {"filtering"}
      BY <2>1 DEF LadderPcs
    <3> QED BY <3>1, <3>2, LadderGoto
  <2>2. CASE req[c].pc = "gatewrite"
    <3>1. Goto(c, [req[c] EXCEPT !.pc = "gatestore"])
      BY <2>2 DEF WriteFails, At
    <3>2. req[c].pc \in GatePcs
      BY <2>2 DEF GatePcs
    <3> QED BY <3>1, <3>2, GateWritten
  <2> QED BY <1>1, <2>1, <2>2
<1> QED BY <1>1, <1>3, <1>4, FaultType, StepKeeps

LEMMA TarballFacts ==
  ASSUME PackInv, NEW c \in Clients, req[c].pc \in TarballPcs
  PROVE  /\ req[c] \in Requests /\ req[c].kind = "tarball" /\ req[c].ver \in Nat
         /\ RestrictDownloads /\ window > 0 => Cleared(req[c].ver, hist, window, now)
BY ClientFacts DEF RequestOk, Requests

(* What is handed out passed the gate, if there is one.                    *)
LEMMA HandedOut ==
  ASSUME PackInv, NEW c \in Clients, req[c].pc \in TarballPcs,
         Answer(c, 200, req[c].ver), UNCHANGED copy
  PROVE  ClientsOk(req', copy', resp', hist, window, now)
<1> DEFINE a == [kind |-> req[c].kind, ver |-> req[c].ver, status |-> 200]
<1>1. /\ req[c].kind = "tarball" /\ req[c].ver \in Nat
      /\ RestrictDownloads /\ window > 0 => Cleared(req[c].ver, hist, window, now)
  BY TarballFacts
<1>2. a \in Answers /\ a.kind = "tarball" /\ a.ver = req[c].ver
  BY <1>1 DEF Answers, AskKinds, Statuses
<1>3. AnswerOk(a, copy[c], hist, window, now)
  <2> HIDE DEF a
  <2> QED BY <1>1, <1>2 DEF AnswerOk
<1>4. copy' = [copy EXCEPT ![c] = copy[c]] /\ CopyOk(copy[c], hist, now)
  BY SameCopies, ClientFacts
<1> QED BY <1>3, <1>4, Ended

LEMMA TarballMoves ==
  ASSUME PackInv, NEW c \in Clients, req[c].pc \in TarballPcs, NEW pc \in TarballPcs,
         Goto(c, [req[c] EXCEPT !.pc = pc])
  PROVE  ClientsOk(req', copy', resp', hist, window, now)
<1> DEFINE r == [req[c] EXCEPT !.pc = pc]
<1>1. req[c] \in Requests /\ RequestOk(req[c], copy[c], hist, window, now)
  BY ClientFacts
<1>2. pc \in Pcs /\ pc \notin LadderPcs \cup GatePcs \cup {"filtering"}
  BY DEF TarballPcs, LadderPcs, GatePcs, Pcs
<1>3. /\ r \in Requests /\ r.pc = pc /\ r.kind = req[c].kind /\ r.ok = req[c].ok
      /\ r.data = req[c].data /\ r.ver = req[c].ver
  BY <1>1, <1>2 DEF Requests
<1>4. Goto(c, r)
  OBVIOUS
<1> HIDE DEF r
<1>5. RequestOk(r, copy[c], hist, window, now)
  BY <1>1, <1>2, <1>3 DEF RequestOk
<1> QED BY <1>4, <1>5, Moved

LEMMA TarballKeeps ==
  ASSUME PackInv, NEW c \in Clients, ReadTarball(c) \/ DownloadTarball(c)
  PROVE  PackInv'
<1>1. /\ req[c].pc \in TarballPcs /\ {"download", "storetarball"} \subseteq TarballPcs
      /\ 404 \in Statuses \ {200, 304} /\ UNCHANGED <<envVars, cacheVars>>
  BY DEF ReadTarball, DownloadTarball, At, TarballPcs, Statuses
<1> SUFFICES ClientsOk(req', copy', resp', hist, window, now)
  BY <1>1, QuietStep
<1>2. CASE Answer(c, 200, req[c].ver) /\ UNCHANGED copy
  BY <1>1, <1>2, HandedOut
<1>3. CASE Goto(c, [req[c] EXCEPT !.pc = "download"])
  BY <1>1, <1>3, TarballMoves
<1>4. CASE Goto(c, [req[c] EXCEPT !.pc = "storetarball"])
  BY <1>1, <1>4, TarballMoves
<1>5. CASE Refuse(c, 404)
  BY <1>1, <1>5, Refused
<1> QED BY <1>2, <1>3, <1>4, <1>5 DEF ReadTarball, DownloadTarball

LEMMA StoreTarballKeeps ==
  ASSUME PackInv, NEW c \in Clients, StoreTarball(c) \/ StoreTarballFails(c)
  PROVE  PackInv'
<1>1. req[c].pc \in TarballPcs /\ Answer(c, 200, req[c].ver) /\ UNCHANGED copy
  BY DEF StoreTarball, StoreTarballFails, At, TarballPcs
<1>2. ClientsOk(req', copy', resp', hist, window, now)
  BY <1>1, HandedOut
<1>3. CASE StoreTarball(c)
  <2>1. /\ tarballs' = tarballs \cup {req[c].ver}
        /\ UNCHANGED <<now, hist, window, faults>> /\ UNCHANGED <<disk, meta, memo>>
    BY <1>3 DEF StoreTarball, envVars
  <2>2. tarballs' \in SUBSET Nat
    BY <1>1, <2>1, TarballFacts, CachedOk
  <2>3. CachesOk(disk', meta', memo', tarballs', hist, window, now)
    BY <2>1, <2>2, StoredOk, CachedOk
  <2>4. faults' \in Nat
    BY <2>1, WorldFacts DEF PackInv
  <2> QED BY <1>2, <2>1, <2>3, <2>4, StepKeeps
<1>4. CASE StoreTarballFails(c)
  BY <1>2, <1>4, QuietFault DEF StoreTarballFails
<1> QED BY <1>3, <1>4

LEMMA DownloadFailsKeeps ==
  ASSUME PackInv, NEW c \in Clients, NEW status \in {502, 507}, DownloadFails(c, status)
  PROVE  PackInv'
<1>1. /\ Refuse(c, status) /\ status \in Statuses \ {200, 304}
      /\ Fault /\ UNCHANGED <<now, hist, window, cacheVars>>
  BY DEF DownloadFails, Statuses
<1> QED BY <1>1, Refused, QuietFault
-----------------------------------------------------------------------------
(* The world around the handlers.                                          *)

LEMMA WorldMoves ==
  ASSUME PackInv, WorldOk(hist', faults', window, now'), Later(hist, now, hist', now'),
         UNCHANGED <<window, cacheVars, req, copy, resp>>
  PROVE  PackInv'
<1>1. /\ UNCHANGED window /\ UNCHANGED <<disk, meta, memo, tarballs>>
      /\ UNCHANGED <<req, copy, resp>>
  BY DEF cacheVars
<1>2. /\ Len(hist') \in Nat /\ Len(hist) \in Nat /\ Len(hist) <= Len(hist')
      /\ window \in Nat
  BY WorldFacts, CacheFacts DEF Later
<1>3. WorldOk(hist, faults, window, now)
  BY DEF PackInv
<1>4. CachesOk(disk, meta, memo, tarballs, hist', window, now')
  <2>1. /\ disk \in Files /\ disk.rev \in Nat /\ disk.rev <= Len(hist)
        /\ meta \in Entries /\ memo \in Memos /\ tarballs \subseteq Nat
        /\ BodyOk(memo.body, hist, window, now)
    BY CacheFacts DEF CachesOk
  <2>2. disk.rev <= Len(hist')
    BY <1>2, <2>1
  <2>3. BodyOk(memo.body, hist', window, now')
    BY <1>2, <1>3, <2>1, LaterBody
  <2> QED BY <2>1, <2>2, <2>3 DEF CachesOk
<1>5. ClientsOk(req, copy, resp, hist', window, now')
  <2>1. ClientsOk(req, copy, resp, hist, window, now)
    BY DEF PackInv
  <2>2. ASSUME NEW c \in Clients
        PROVE  ClientOk(req[c], copy[c], resp[c], hist', window, now')
    <3>1. ClientOk(req[c], copy[c], resp[c], hist, window, now)
      BY <2>1 DEF ClientsOk
    <3> QED BY <1>2, <1>3, <3>1, LaterClient
  <2> QED BY <2>1, <2>2 DEF ClientsOk
<1> QED BY <1>1, <1>4, <1>5 DEF PackInv

LEMMA TickKeeps ==
  ASSUME PackInv, Tick
  PROVE  PackInv'
<1>1. /\ now' = now + 1 /\ hist' = hist /\ faults' = faults
      /\ UNCHANGED <<window, cacheVars, req, copy, resp>>
  BY DEF Tick
<1>2. /\ now \in Nat /\ now > 0 /\ Len(hist) \in Nat /\ hist \in Seq(Versions)
      /\ faults \in Nat /\ window \in Windows
      /\ \A v \in 1..Len(hist) : hist[v].at \in 1..now
  BY WorldFacts DEF PackInv, WorldOk
<1>3. now' \in Nat \ {0} /\ now <= now' /\ \A v \in 1..Len(hist) : hist[v].at \in 1..now'
  BY <1>1, <1>2
<1>4. WorldOk(hist', faults', window, now')
  BY <1>1, <1>2, <1>3 DEF WorldOk
<1>5. Later(hist, now, hist', now')
  BY <1>1, <1>2, <1>3 DEF Later
<1> QED BY <1>1, <1>4, <1>5, WorldMoves

LEMMA PublishKeeps ==
  ASSUME PackInv, NEW p \in Publications, Publish(p)
  PROVE  PackInv'
<1> DEFINE v == [at |-> now, dated |-> p.dated, servable |-> p.servable,
                 tagged |-> p.tagged]
<1>1. /\ hist' = Append(hist, v) /\ now' = now /\ faults' = faults
      /\ UNCHANGED <<window, cacheVars, req, copy, resp>>
  BY DEF Publish
<1>2. /\ now \in Nat /\ now > 0 /\ Len(hist) \in Nat /\ hist \in Seq(Versions)
      /\ faults \in Nat /\ window \in Windows
      /\ \A i \in 1..Len(hist) : hist[i].at \in 1..now
  BY WorldFacts DEF PackInv, WorldOk
<1>3. p \in [dated : BOOLEAN, servable : BOOLEAN, tagged : BOOLEAN]
  BY PackumentAssumption
<1>4. v \in Versions /\ v.at = now
  BY <1>2, <1>3 DEF Versions
<1> HIDE DEF v
<1>5. /\ hist' \in Seq(Versions) /\ Len(hist') = Len(hist) + 1
      /\ \A i \in 1..Len(hist) : hist'[i] = hist[i]
      /\ hist'[Len(hist) + 1] = v
  BY <1>1, <1>2, <1>4, AppendProperties
<1>6. ASSUME NEW i \in 1..Len(hist') PROVE hist'[i].at \in 1..now
  <2>1. i \in 1..Len(hist) \/ i = Len(hist) + 1
    BY <1>2, <1>5
  <2>2. now \in 1..now
    BY <1>2
  <2> QED BY <1>2, <1>4, <1>5, <2>1, <2>2
<1>7. WorldOk(hist', faults', window, now')
  BY <1>1, <1>2, <1>5, <1>6 DEF WorldOk
<1>8. Later(hist, now, hist', now')
  BY <1>1, <1>2, <1>5 DEF Later
<1> QED BY <1>1, <1>7, <1>8, WorldMoves

LEMMA NoMemoOk ==
  ASSUME NEW h, NEW win, NEW t
  PROVE  NoMemo \in Memos /\ BodyOk(NoMemo.body, h, win, t)
<1>1. NoBody \in Bodies /\ NoBody.versions = {} /\ NoBody.latest = 0
  BY DEF NoBody, Bodies
<1>2. NoMemo \in Memos /\ NoMemo.body = NoBody
  BY <1>1 DEF NoMemo, Memos, NoValidator
<1> QED BY <1>1, <1>2 DEF BodyOk

(* A new process owes nothing to the old one's requests; the copies were   *)
(* filtered as their markers say, whatever the new window is.              *)
LEMMA RestartKeeps ==
  ASSUME PackInv, NEW w \in Windows, Restart(w)
  PROVE  PackInv'
<1>1. /\ window' = w /\ meta' = NoEntry /\ memo' = NoMemo
      /\ req' = [c \in Clients |-> NoRequest] /\ resp' = [c \in Clients |-> NoAnswer]
      /\ UNCHANGED <<now, hist>> /\ UNCHANGED <<disk, tarballs, copy>> /\ Fault
  BY DEF Restart
<1>2. faults' \in Nat
  BY <1>1, FaultType
<1>3. WorldOk(hist, faults, window, now) /\ WorldOk(hist, faults', w, now)
  BY <1>2 DEF PackInv, WorldOk
<1>4. CachesOk(disk, NoEntry, NoMemo, tarballs, hist, w, now)
  BY CacheFacts, NoMemoOk DEF CachesOk
<1>5. ClientsOk(req', copy, resp', hist, w, now)
  <2>1. /\ NoRequest \in Requests
        /\ \A c \in Clients : RequestOk(NoRequest, copy[c], hist, w, now)
    BY <1>3, NoRequestOk
  <2>2. \A c \in Clients : AnswerOk(NoAnswer, copy[c], hist, w, now)
    BY NoAnswerOk
  <2>3. NoAnswer \in Answers
    BY DEF NoAnswer, Answers, AskKinds, Statuses
  <2>4. copy \in [Clients -> Copies] /\ \A c \in Clients : CopyOk(copy[c], hist, now)
    BY ClientFacts DEF PackInv, ClientsOk
  <2>5. req' \in [Clients -> Requests] /\ resp' \in [Clients -> Answers]
    BY <1>1, <2>1, <2>3
  <2>6. \A c \in Clients : req'[c] = NoRequest /\ resp'[c] = NoAnswer
    BY <1>1
  <2> QED BY <2>1, <2>2, <2>4, <2>5, <2>6 DEF ClientsOk, ClientOk
<1> QED BY <1>1, <1>3, <1>4, <1>5 DEF PackInv

LEMMA DisconnectKeeps ==
  ASSUME PackInv, NEW c \in Clients, Disconnect(c)
  PROVE  PackInv'
<1>1. /\ Goto(c, NoRequest) /\ Fault
      /\ disk' \in {Written(c), disk} /\ tarballs' \in {tarballs \cup {req[c].ver}, tarballs}
      /\ UNCHANGED <<now, hist, window>> /\ UNCHANGED <<meta, memo>>
  BY DEF Disconnect
<1>2. req[c].ver \in Nat
  BY ClientFacts DEF Requests
<1>3. disk' \in Files /\ disk'.rev <= Len(hist) /\ tarballs' \in SUBSET Nat
  BY <1>1, <1>2, CachedOk, WrittenOk
<1>4. CachesOk(disk', meta', memo', tarballs', hist, window, now)
  BY <1>1, <1>3, StoredOk, CachedOk
<1>5. RequestOk(NoRequest, copy[c], hist, window, now)
  BY NoRequestOk DEF PackInv
<1>6. ClientsOk(req', copy', resp', hist, window, now)
  BY <1>1, <1>5, Moved
<1> QED BY <1>1, <1>4, <1>6, FaultType, StepKeeps

LEMMA OperatorKeeps ==
  ASSUME PackInv, WipeCache \/ \E vers : Purge(vers)
  PROVE  PackInv'
<1>1. /\ disk' \in {disk, NoFile} /\ tarballs' \subseteq tarballs /\ Fault
      /\ UNCHANGED <<now, hist, window>> /\ UNCHANGED <<meta, memo>>
      /\ UNCHANGED <<req, copy, resp>>
  BY DEF WipeCache, Purge
<1>2. disk' \in Files /\ disk'.rev <= Len(hist) /\ tarballs' \in SUBSET Nat
  BY <1>1, CachedOk
<1>3. CachesOk(disk', meta', memo', tarballs', hist, window, now)
  BY <1>1, <1>2, StoredOk, CachedOk
<1>4. ClientsOk(req', copy', resp', hist, window, now)
  BY <1>1 DEF PackInv
<1> QED BY <1>1, <1>3, <1>4, FaultType, StepKeeps
-----------------------------------------------------------------------------
LEMMA PackInit == Init => PackInv
<1> SUFFICES ASSUME Init PROVE PackInv
  OBVIOUS
<1>1. /\ now = 1 /\ hist = <<>> /\ faults = 0 /\ window \in Windows
      /\ disk = NoFile /\ meta = NoEntry /\ memo = NoMemo /\ tarballs = {}
      /\ req = [c \in Clients |-> NoRequest]
      /\ copy = [c \in Clients |-> NoCopy]
      /\ resp = [c \in Clients |-> NoAnswer]
  BY DEF Init
<1>2. hist \in Seq(Versions) /\ Len(hist) = 0
  BY <1>1, EmptySeq
<1>3. WorldOk(hist, faults, window, now)
  BY <1>1, <1>2 DEF WorldOk
<1>4. NoFile \in Files /\ NoFile.rev = 0 /\ NoEntry \in Entries
  BY DEF NoFile, Files, NoEntry, Entries
<1>5. CachesOk(disk, meta, memo, tarballs, hist, window, now)
  BY <1>1, <1>2, <1>4, NoMemoOk DEF CachesOk
<1>6. NoBody \in Bodies /\ NoBody.versions = {} /\ NoBody.latest = 0
  BY DEF NoBody, Bodies
<1>7. NoCopy \in Copies /\ NoCopy.body = NoBody
  BY <1>6 DEF NoCopy, Copies, NoMarker, Markers
<1>8. CopyOk(NoCopy, hist, now)
  BY <1>6, <1>7 DEF CopyOk, BodyOk
<1>9. NoRequest \in Requests /\ RequestOk(NoRequest, NoCopy, hist, window, now)
  BY <1>3, NoRequestOk
<1>10. NoAnswer \in Answers /\ AnswerOk(NoAnswer, NoCopy, hist, window, now)
  <2>1. AnswerOk(NoAnswer, NoCopy, hist, window, now)
    BY NoAnswerOk
  <2> QED BY <2>1 DEF AnswerOk
<1>11. /\ req \in [Clients -> Requests] /\ copy \in [Clients -> Copies]
       /\ resp \in [Clients -> Answers]
       /\ \A c \in Clients : req[c] = NoRequest /\ copy[c] = NoCopy /\ resp[c] = NoAnswer
  BY <1>1, <1>7, <1>9, <1>10
<1>12. ClientsOk(req, copy, resp, hist, window, now)
  BY <1>8, <1>9, <1>10, <1>11 DEF ClientsOk, ClientOk
<1> QED BY <1>3, <1>5, <1>12 DEF PackInv

LEMMA StutterKeeps ==
  ASSUME PackInv, UNCHANGED vars
  PROVE  PackInv'
<1>1. UNCHANGED <<envVars, cacheVars>> /\ UNCHANGED <<req, copy, resp>>
  BY DEF vars
<1>2. ClientsOk(req', copy', resp', hist, window, now)
  BY <1>1 DEF PackInv
<1> QED BY <1>1, <1>2, QuietStep

LEMMA PackNext == PackInv /\ [Next]_vars => PackInv'
<1> SUFFICES ASSUME PackInv, [Next]_vars PROVE PackInv'
  OBVIOUS
<1>1. ASSUME NEW c \in Resolvers, Resolve(c) PROVE PackInv'
  <2>1. c \in Clients /\ \A ver \in 0..MaxRev : ver \in Nat
    BY PackumentAssumption DEF Clients
  <2> QED BY <1>1, <2>1, BeginPackumentKeeps, BeginVersionDocKeeps DEF Resolve
<1>2. ASSUME NEW c \in Getters, Get(c) PROVE PackInv'
  <2>1. c \in Clients /\ \A ver \in 1..MaxRev : ver \in Nat
    BY PackumentAssumption DEF Clients
  <2> QED BY <1>2, <2>1, BeginTarballKeeps DEF Get
<1>3. ASSUME NEW c \in Clients, Step(c) PROVE PackInv'
  <2>1. CASE Lookup(c)
    BY <2>1, LookupKeeps
  <2>2. CASE ReadFresh(c) \/ FindMtime(c) \/ ReadAfter304(c) \/ ReadStale(c) \/ FindStale(c)
    BY <2>2, ReadKeeps
  <2>3. CASE Fetch(c) \/ FetchUnknown(c)
    BY <2>3, FetchKeeps
  <2>4. CASE WritePackument(c)
    BY <2>4, WritePackumentKeeps
  <2>5. CASE StoreMeta200(c) \/ StoreMeta304(c)
    BY <2>5, StoreMetaKeeps
  <2>6. CASE LostFile(c)
    BY <2>6, LostFileKeeps
  <2>7. CASE Filter(c)
    BY <2>7, FilterKeeps
  <2>8. CASE FilterDone(c)
    BY <2>8, FilterDoneKeeps
  <2>9. CASE GateRead(c)
    BY <2>9, GateReadKeeps
  <2>10. CASE GateFetch(c)
    BY <2>10, GateFetchKeeps
  <2>11. CASE GateWrite(c)
    BY <2>11, GateWriteKeeps
  <2>12. CASE GateStore(c)
    BY <2>12, GateStoreKeeps
  <2>13. CASE ReadTarball(c) \/ DownloadTarball(c)
    BY <2>13, TarballKeeps
  <2>14. CASE StoreTarball(c)
    BY <2>14, StoreTarballKeeps
  <2> QED BY <1>3, <2>1, <2>2, <2>3, <2>4, <2>5, <2>6, <2>7, <2>8, <2>9, <2>10, <2>11,
             <2>12, <2>13, <2>14 DEF Step
<1>4. ASSUME NEW c \in Clients, StepFails(c) PROVE PackInv'
  <2>1. CASE FetchFails(c)
    BY <2>1, FetchKeeps
  <2>2. CASE WriteFails(c)
    BY <2>2, WriteFailsKeeps
  <2>3. CASE GateFetchFails(c)
    BY <2>3, GateFetchKeeps
  <2>4. CASE StoreTarballFails(c)
    BY <2>4, StoreTarballKeeps
  <2>5. CASE Disconnect(c)
    BY <2>5, DisconnectKeeps
  <2>6. CASE \E status \in {500, 502} : FilterFails(c, status)
    BY <2>6, FilterFailsKeeps
  <2>7. CASE \E status \in {502, 507} : DownloadFails(c, status)
    BY <2>7, DownloadFailsKeeps
  <2> QED BY <1>4, <2>1, <2>2, <2>3, <2>4, <2>5, <2>6, <2>7 DEF StepFails
<1>5. ASSUME Environment PROVE PackInv'
  <2>1. CASE Tick
    BY <2>1, TickKeeps
  <2>2. CASE \E p \in Publications : Publish(p)
    BY <2>2, PublishKeeps
  <2>3. CASE \E w \in Windows : Restart(w)
    BY <2>3, RestartKeeps
  <2>4. CASE WipeCache \/ \E vers : Purge(vers)
    BY <2>4, OperatorKeeps
  <2> QED BY <1>5, <2>1, <2>2, <2>3, <2>4 DEF Environment
<1> QED BY <1>1, <1>2, <1>3, <1>4, <1>5, StutterKeeps DEF Next

(* PackInv holds from the start and no step breaks it.                     *)
THEOREM PackInvariant == Spec => []PackInv
BY PackInit, PackNext, PTL DEF Spec

(* Types, whatever upstream publishes and however long the process runs;   *)
(* and no request for a version document is ever one that a 304 may answer *)
(* (handle_version_doc calls its last arm unreachable).                    *)
THEOREM PackumentTypeCorrect == Spec => []TypeOK
<1>1. ASSUME PackInv PROVE TypeOK
  <2>1. /\ now \in Nat \ {0} /\ faults \in Nat /\ window \in Windows
        /\ hist \in Seq(Versions)
    BY <1>1 DEF PackInv, WorldOk
  <2>2. disk \in Files /\ meta \in Entries /\ memo \in Memos /\ tarballs \subseteq Nat
    BY <1>1 DEF PackInv, CachesOk
  <2>3. /\ req \in [Clients -> Requests] /\ copy \in [Clients -> Copies]
        /\ resp \in [Clients -> Answers]
    BY <1>1 DEF PackInv, ClientsOk
  <2>4. \A c \in Clients : req[c].kind = "doc" => ~req[c].ok
    BY <1>1, ClientFacts DEF RequestOk
  <2> QED BY <2>1, <2>2, <2>3, <2>4, Zenon DEF TypeOK, Versions, Files, Memos, Requests, Copies, Answers
<1> QED BY <1>1, PackInvariant, PTL

(* Neither the memo nor a 304 nor a filter task that took its time leaves  *)
(* a client of this process with a version younger than the window         *)
(* (serve_packument, filtered_served).                                     *)
THEOREM CooldownHoldsAlways == Spec => []CooldownHolds
<1>1. ASSUME PackInv, NEW c \in Clients, HasPackument(c)
      PROVE  Aged(copy[c].body, window)
  <2>1. AnswerOk(resp[c], copy[c], hist, window, now)
    BY <1>1, ClientFacts
  <2>2. \A v \in copy[c].body.versions : Old(v, hist, window, now)
    BY <1>1, <2>1 DEF AnswerOk, HasPackument, Answered
  <2> QED BY <2>2 DEF Aged, OldEnough, Old
<1>2. PackInv => CooldownHolds
  BY <1>1 DEF CooldownHolds
<1> QED BY <1>2, PackInvariant, PTL

(* handle_version_doc: what is carved out of a body is out of a filtered   *)
(* one.                                                                    *)
THEOREM DocsStayHiddenAlways == Spec => []DocsStayHidden
<1>1. ASSUME PackInv, NEW c \in Clients, Answered(c, "doc", {200})
      PROVE  Shown(resp[c].ver, hist, window, now)
  BY <1>1, ClientFacts DEF AnswerOk, Answered
<1>2. PackInv => DocsStayHidden
  BY <1>1 DEF DocsStayHidden, Shown, Old, OldEnough
<1> QED BY <1>2, PackInvariant, PTL

(* The repaired `latest` names a version beside it, in every body kept.    *)
THEOREM LatestIsServedAlways == Spec => []LatestIsServed
<1>1. ASSUME PackInv, NEW body \in {memo.body} \cup {copy[c].body : c \in Clients},
             body.latest # 0
      PROVE  body.latest \in body.versions
  <2>1. CASE body = memo.body
    BY <1>1, <2>1 DEF PackInv, CachesOk, BodyOk
  <2>2. ASSUME NEW c \in Clients, body = copy[c].body
        PROVE  body.latest \in body.versions
    BY <1>1, <2>2, ClientFacts DEF CopyOk, BodyOk
  <2> QED BY <1>1, <2>1, <2>2
<1>2. PackInv => LatestIsServed
  BY <1>1 DEF LatestIsServed
<1> QED BY <1>2, PackInvariant, PTL

(* handle_tarball: what was decided at the gate is still true when the     *)
(* tarball is handed out, from the cache or from upstream.                 *)
THEOREM GateHoldsAlways == Spec => []GateHolds
<1>1. ASSUME PackInv, NEW c \in Clients, Answered(c, "tarball", {200}),
             RestrictDownloads, window > 0
      PROVE  Cleared(resp[c].ver, hist, window, now)
  BY <1>1, ClientFacts DEF AnswerOk, Answered
<1>2. PackInv => GateHolds
  BY <1>1 DEF GateHolds, Cleared, Old, OldEnough
<1> QED BY <1>2, PackInvariant, PTL
=============================================================================
