-------------------------- MODULE SimplePage_proofs --------------------------
(***************************************************************************)
(* Theorems about pypi-proxy, for any clients, windows, TTL, bucket        *)
(* length, file names, uploads and bounds. SimpleInv, inductive, says of   *)
(* every index kept through which window it was filtered and for which     *)
(* format, and of every request under way what it may still hand out.      *)
(***************************************************************************)
EXTENDS SimplePage, SequenceTheorems, WellFoundedInduction, TLAPS

Items == [at : Nat, dated : BOOLEAN, allowed : BOOLEAN, ver : Nat, dialect : Dialects]
IndexFiles == [rev : Nat, mtime : Nat]
Memos == [val : Nat \X Nat, bkt : Nat, body : Bodies]
Cutoffs == Nat \cup {Unfiltered}
Requests == [pc : Pcs, kind : AskKinds, fmt : AskFormats, path : Nat,
             ok : BOOLEAN, etag : Nat, entry : Entries, data : Nat,
             cut : Cutoffs, found : Nat]
Copies == [etag : Nat, marker : Markers, body : Bodies]
Answers == [kind : AskKinds, fmt : AskFormats, path : Nat, bytes : Nat, status : Statuses]

(* The clock, the process' window, and upstream: no file is from later     *)
(* than now, and none belongs to the version no file belongs to.           *)
WorldOk(h, f, win, t) ==
  /\ t \in Nat \ {0} /\ f \in Nat /\ win \in Windows
  /\ h \in Seq(Items) /\ Len(h) <= MaxRev
  /\ \A i \in 1..Len(h) : h[i].at \in 1..t /\ h[i].ver # Unbacked

(* Time passes and files are uploaded; none is taken back or altered.      *)
Later(h, t, h2, t2) ==
  /\ t2 \in Nat /\ t <= t2
  /\ Len(h) <= Len(h2)
  /\ \A i \in 1..Len(h) : h2[i] = h[i]

Old(i, h, win, t) == win > 0 => h[i].dated /\ h[i].at + win <= t

Cleared(i, h, win, t) == i \in 1..Len(h) /\ Old(i, h, win, t)

(* A version of an index: of a file shown beside it, or of no file at all. *)
Backed(v, b, h) ==
  (\E i \in b.files : h[i].ver = v) \/ (\A i \in 1..b.rev : h[i].ver # v)

(* An index filtered through the window win.                               *)
Filtered(b, h, win, t) ==
  /\ \A i \in b.files : Old(i, h, win, t)
  /\ win > 0 => \A v \in b.versions : Backed(v, b, h)
  /\ win > 0 /\ b.fmt = "json" => \A i \in b.files : h[i].ver \in b.versions

(* Made from an upstream that lists versions, with or without a window, a  *)
(* JSON index lists those of every file it shows.                          *)
Lively(b, h) ==
  b.fmt = "json" /\ b.rev # 0 /\ h[b.rev].dialect = "json" =>
    Unbacked \in b.versions /\ \A i \in b.files : h[i].ver \in b.versions

BodyOk(b, h, win, t) ==
  /\ b \in Bodies /\ b.rev <= Len(h) /\ b.files \subseteq 1..b.rev
  /\ Filtered(b, h, win, t) /\ Lively(b, h)

(* A cutoff captured earlier in this process still is a window old.        *)
CutOk(cut, win, t) ==
  /\ cut \in Cutoffs
  /\ win > 0 => cut \in Nat /\ (cut = 0 \/ cut + win <= t)

(* What the memo keeps for a format is in that format.                     *)
MemoOk(m, h, win, t) ==
  /\ m \in [Formats -> Memos]
  /\ \A fmt \in Formats :
       /\ BodyOk(m[fmt].body, h, win, t)
       /\ m[fmt].val # NoValidator => m[fmt].body.fmt = fmt

(* What is cached under a path whose name is its own is the file of it.    *)
FilesOk(fs) ==
  /\ fs \in [Paths -> Nat]
  /\ \A p \in Paths : OnlyOne(p) => fs[p] \in {0, p}

CachesOk(d, e, m, fs, h, win, t) ==
  /\ d \in IndexFiles /\ d.rev <= Len(h)
  /\ e \in Entries
  /\ MemoOk(m, h, win, t)
  /\ FilesOk(fs)

LadderPcs == {"lookup", "find", "read", "fetch", "write", "store200", "store304",
              "read304", "lost", "readstale", "findstale", "filter", "filtering"}
LookPcs == {"look", "lookfetch", "lookwrite", "lookstore"}
PassedPcs == {"cached", "download", "storefile"}

(* A request for a file: the cutoff of its gate, and the entry it found;   *)
(* past the gate, the first file of that name is one it lets through.      *)
FileAskOk(r, h, win, t) ==
  /\ r.kind = "file" /\ r.path \in Paths
  /\ RestrictDownloads => CutOk(r.cut, win, t)
  /\ OnlyOne(r.path) => r.found \in {0, r.path}
  /\ r.pc \in PassedPcs /\ RestrictDownloads /\ win > 0 =>
       Cleared(FirstNamed(r.path), h, win, t)
  /\ r.pc = "storefile" /\ OnlyOne(r.path) => r.found = r.path

(* What a request under way, of a client with copy k, owes to its history. *)
RequestOk(r, k, h, win, t) ==
  /\ r \in Requests /\ r.data <= Len(h)
  /\ r.ok => k.marker.win = win /\ k.body.fmt = r.fmt
  /\ r.pc \in LadderPcs => r.kind = "index" /\ r.fmt \in Formats
  /\ r.pc = "filtering" => CutOk(r.cut, win, t)
  /\ r.pc \in LookPcs \cup PassedPcs => FileAskOk(r, h, win, t)

CopyOk(k, h, t) == k \in Copies /\ BodyOk(k.body, h, k.marker.win, t)

AnswerOk(a, k, h, win, t) ==
  /\ a \in Answers
  /\ a.kind = "index" /\ a.status \in {200, 304} =>
       Filtered(k.body, h, win, t) /\ k.body.fmt \in {a.fmt, "other"}
  /\ a.kind = "file" /\ a.status = 200 =>
       /\ a.path \in Paths
       /\ OnlyOne(a.path) => a.bytes = a.path
       /\ RestrictDownloads /\ win > 0 => Cleared(FirstNamed(a.path), h, win, t)

ClientOk(r, k, a, h, win, t) ==
  RequestOk(r, k, h, win, t) /\ CopyOk(k, h, t) /\ AnswerOk(a, k, h, win, t)

ClientsOk(rs, ks, as, h, win, t) ==
  /\ rs \in [Clients -> Requests]
  /\ ks \in [Clients -> Copies]
  /\ as \in [Clients -> Answers]
  /\ \A c \in Clients : ClientOk(rs[c], ks[c], as[c], h, win, t)

SimpleInv ==
  /\ WorldOk(hist, faults, window, now)
  /\ CachesOk(disk, meta, memo, files, hist, window, now)
  /\ ClientsOk(req, copy, resp, hist, window, now)
-----------------------------------------------------------------------------
(* The world, and time passing.                                            *)

LEMMA WorldFacts ==
  ASSUME NEW h, NEW f, NEW win, NEW t, WorldOk(h, f, win, t)
  PROVE  /\ t \in Nat /\ t > 0 /\ f \in Nat /\ win \in Nat /\ win \in Windows
         /\ Len(h) \in Nat /\ Len(h) <= MaxRev /\ MaxRev \in Nat
         /\ \A i \in 1..Len(h) : h[i] \in Items /\ h[i].at \in Nat
                                 /\ h[i].at > 0 /\ h[i].at <= t
                                 /\ h[i].ver \in Nat /\ h[i].ver # Unbacked
<1>1. t \in Nat /\ t > 0 /\ f \in Nat /\ win \in Nat /\ win \in Windows
  BY SimpleAssumption DEF WorldOk
<1>2. h \in Seq(Items) /\ Len(h) <= MaxRev
  BY DEF WorldOk
<1>3. Len(h) \in Nat /\ \A i \in 1..Len(h) : h[i] \in Items
  BY <1>2, LenProperties, ElementOfSeq
<1>4. \A i \in 1..Len(h) : h[i].at \in 1..t /\ h[i].ver # Unbacked
  BY DEF WorldOk
<1>5. \A i \in 1..Len(h) : h[i].ver \in Nat
  BY <1>3 DEF Items
<1>6. MaxRev \in Nat
  BY SimpleAssumption, LenProperties DEF MaxRev
<1> QED BY <1>1, <1>2, <1>3, <1>4, <1>5, <1>6

LEMMA LaterOld ==
  ASSUME NEW h, NEW f, NEW win0, NEW t, WorldOk(h, f, win0, t),
         NEW h2, NEW t2, Later(h, t, h2, t2), NEW win \in Nat,
         NEW i \in 1..Len(h), Old(i, h, win, t)
  PROVE  Old(i, h2, win, t2)
<1>1. h[i].at \in Nat /\ t \in Nat
  BY WorldFacts
<1>2. h2[i] = h[i] /\ t2 \in Nat /\ t <= t2
  BY DEF Later
<1>3. h[i].at + win <= t => h[i].at + win <= t2
  BY <1>1, <1>2
<1> QED BY <1>2, <1>3 DEF Old

LEMMA LaterCleared ==
  ASSUME NEW h, NEW f, NEW win0, NEW t, WorldOk(h, f, win0, t),
         NEW h2, NEW t2, Later(h, t, h2, t2), Len(h2) \in Nat, NEW win \in Nat, NEW i,
         Cleared(i, h, win, t)
  PROVE  Cleared(i, h2, win, t2)
<1>1. Len(h) \in Nat /\ Len(h) <= Len(h2) /\ i \in 1..Len(h)
  BY WorldFacts DEF Later, Cleared
<1>2. Old(i, h2, win, t2)
  BY <1>1, LaterOld DEF Cleared
<1>3. i \in 1..Len(h2)
  BY <1>1
<1> QED BY <1>2, <1>3 DEF Cleared

LEMMA LaterBody ==
  ASSUME NEW h, NEW f, NEW win0, NEW t, WorldOk(h, f, win0, t),
         NEW h2, NEW t2, Later(h, t, h2, t2), Len(h2) \in Nat, NEW win \in Nat,
         NEW b, BodyOk(b, h, win, t)
  PROVE  BodyOk(b, h2, win, t2)
<1>1. /\ b \in Bodies /\ b.rev \in Nat /\ b.rev <= Len(h) /\ b.files \subseteq 1..b.rev
      /\ Filtered(b, h, win, t) /\ Lively(b, h)
  BY DEF BodyOk, Bodies
<1>2. Len(h) \in Nat /\ Len(h) <= Len(h2)
  BY WorldFacts DEF Later
<1>3. \A i \in 1..b.rev : i \in 1..Len(h) /\ h2[i] = h[i]
  BY <1>1, <1>2 DEF Later
<1>4. \A v : Backed(v, b, h) => Backed(v, b, h2)
  BY <1>1, <1>3 DEF Backed
<1>5. \A i \in b.files : Old(i, h, win, t) => Old(i, h2, win, t2)
  BY <1>1, <1>3, LaterOld
<1>6. Filtered(b, h2, win, t2)
  BY <1>1, <1>3, <1>4, <1>5 DEF Filtered
<1>7. Lively(b, h2)
  <2>1. b.rev # 0 => h2[b.rev] = h[b.rev]
    BY <1>1, <1>3
  <2> QED BY <1>1, <1>3, <2>1 DEF Lively
<1>8. b.rev <= Len(h2)
  BY <1>1, <1>2
<1> QED BY <1>1, <1>6, <1>7, <1>8 DEF BodyOk

LEMMA LaterClient ==
  ASSUME NEW h, NEW f, NEW win, NEW t, WorldOk(h, f, win, t),
         NEW h2, NEW t2, Later(h, t, h2, t2), Len(h2) \in Nat,
         NEW r, NEW k, NEW a, ClientOk(r, k, a, h, win, t)
  PROVE  ClientOk(r, k, a, h2, win, t2)
<1>1. /\ win \in Nat /\ Len(h) \in Nat /\ Len(h) <= Len(h2)
      /\ t \in Nat /\ t2 \in Nat /\ t <= t2
  BY WorldFacts DEF Later
<1>2. RequestOk(r, k, h, win, t) /\ CopyOk(k, h, t) /\ AnswerOk(a, k, h, win, t)
  BY DEF ClientOk
<1>3. k.marker.win \in Nat
  BY <1>2 DEF CopyOk, Copies, Markers
<1>4. CopyOk(k, h2, t2)
  BY <1>2, <1>3, LaterBody DEF CopyOk
<1>5. \A i : Cleared(i, h, win, t) => Cleared(i, h2, win, t2)
  BY <1>1, LaterCleared
<1>6. RequestOk(r, k, h2, win, t2)
  <2>1. r \in Requests /\ r.data \in Nat /\ r.data <= Len(h) /\ r.cut \in Cutoffs
    BY <1>2 DEF RequestOk, Requests
  <2>2. r.data <= Len(h2)
    BY <1>1, <2>1
  <2>3. CutOk(r.cut, win, t) => CutOk(r.cut, win, t2)
    BY <1>1, <2>1 DEF CutOk
  <2>4. FileAskOk(r, h, win, t) => FileAskOk(r, h2, win, t2)
    BY <1>5, <2>3 DEF FileAskOk
  <2> QED BY <1>2, <2>1, <2>2, <2>3, <2>4 DEF RequestOk
<1>7. AnswerOk(a, k, h2, win, t2)
  <2>1. Filtered(k.body, h, win, t) => Filtered(k.body, h2, win, t2)
    <3>1. /\ k.body \in Bodies /\ k.body.rev \in Nat /\ k.body.rev <= Len(h)
          /\ k.body.files \subseteq 1..k.body.rev
      BY <1>2 DEF CopyOk, BodyOk, Bodies
    <3>2. \A i \in 1..k.body.rev : i \in 1..Len(h) /\ h2[i] = h[i]
      BY <1>1, <3>1 DEF Later
    <3>3. \A v : Backed(v, k.body, h) => Backed(v, k.body, h2)
      BY <3>1, <3>2 DEF Backed
    <3>4. \A i \in k.body.files : Old(i, h, win, t) => Old(i, h2, win, t2)
      BY <1>1, <3>1, <3>2, LaterOld
    <3> QED BY <3>1, <3>2, <3>3, <3>4 DEF Filtered
  <2> QED BY <1>2, <1>5, <2>1 DEF AnswerOk
<1> QED BY <1>4, <1>6, <1>7 DEF ClientOk
-----------------------------------------------------------------------------
(* The cutoff, the marker, the index documents and the lookup.             *)

LEMMA BucketType ==
  ASSUME NEW cut \in Cutoffs
  PROVE  MemoBucket(cut) \in Nat /\ (cut # Unfiltered => Bucket(cut) \in Nat)
BY BucketAssumption DEF MemoBucket, Bucket, Cutoffs, Unfiltered

LEMMA CutoffFacts ==
  ASSUME WorldOk(hist, faults, window, now)
  PROVE  CutOk(Cutoff, window, now) /\ (window = 0 <=> Cutoff = Unfiltered)
<1>1. now \in Nat /\ window \in Nat
  BY WorldFacts
<1> QED BY <1>1 DEF CutOk, Cutoff, CutoffFrom, Cutoffs, Unfiltered

LEMMA MarkerFacts ==
  ASSUME WorldOk(hist, faults, window, now)
  PROVE  /\ ServeMarker \in Markers /\ ServeMarker.win = window
         /\ NoMarker \in Markers /\ NoMarker.win = 0
<1>1. Cutoff \in Cutoffs /\ (window = 0 <=> Cutoff = Unfiltered) /\ window \in Nat
  BY CutoffFacts, WorldFacts DEF CutOk
<1>2. Cutoff # Unfiltered => Bucket(Cutoff) \in Nat
  BY <1>1, BucketType
<1> QED BY <1>1, <1>2 DEF ServeMarker, MarkerAt, NoMarker, Markers

(* A nonempty set of positions has a first one.                            *)
LEMMA FirstFacts ==
  ASSUME NEW S, S \subseteq Nat, S # {}
  PROVE  LET first == CHOOSE f \in S : \A g \in S : f <= g
         IN  first \in S /\ \A g \in S : first <= g
<1> DEFINE R == {ss \in Nat \X Nat : ss[1] < ss[2]}
<1>1. IsWellFoundedOn(R, Nat)
  BY NatLessThanWellFounded DEF OpToRel
<1>2. PICK x \in S : \A y \in S : <<y, x>> \notin R
  <2> HIDE DEF R
  <2> QED BY <1>1, WFMin
<1>3. ASSUME NEW y \in S PROVE x <= y
  <2>1. y \in Nat /\ x \in Nat /\ <<y, x>> \notin R
    BY <1>2
  <2>2. ~(y < x)
    BY <2>1
  <2> QED BY <2>1, <2>2
<1> HIDE DEF R
<1> QED BY <1>3

(* The first file of a name, which is the only one where there is but one. *)
LEMMA FirstNamedFacts ==
  ASSUME NEW path \in Paths
  PROVE  /\ FirstNamed(path) \in Paths /\ FirstNamed(path) \in Nat
         /\ NameOf[FirstNamed(path)] = NameOf[path]
         /\ \A g \in Paths : NameOf[g] = NameOf[path] => FirstNamed(path) <= g
         /\ OnlyOne(path) => FirstNamed(path) = path
<1> DEFINE same == {f \in Paths : NameOf[f] = NameOf[path]}
<1>1. same \subseteq Nat /\ path \in same
  BY SimpleAssumption, LenProperties DEF Paths, MaxRev
<1>2. FirstNamed(path) = CHOOSE f \in same : \A g \in same : f <= g
  BY DEF FirstNamed
<1> HIDE DEF same
<1>3. FirstNamed(path) \in same /\ \A g \in same : FirstNamed(path) <= g
  BY <1>1, <1>2, FirstFacts
<1> USE DEF same
<1>4. /\ FirstNamed(path) \in Paths /\ FirstNamed(path) \in Nat
      /\ NameOf[FirstNamed(path)] = NameOf[path]
      /\ \A g \in Paths : NameOf[g] = NameOf[path] => FirstNamed(path) <= g
  BY <1>1, <1>3
<1> QED BY <1>4 DEF OnlyOne

(* lookup_file finds the first file of that name, if it is there yet.      *)
LEMMA EntryFacts ==
  ASSUME WorldOk(hist, faults, window, now),
         NEW rev \in Nat, rev <= Len(hist), NEW path \in Paths
  PROVE  /\ Entry(rev, path) \in 0..Len(hist) /\ Entry(rev, path) \in Nat
         /\ Entry(rev, path) # 0 => Entry(rev, path) = FirstNamed(path)
<1> DEFINE named == {f \in 1..rev : NameOf[f] = NameOf[path]}
           e     == CHOOSE f \in named : \A g \in named : f <= g
           first == FirstNamed(path)
<1>1. Entry(rev, path) = IF named = {} THEN 0 ELSE e
  BY DEF Entry
<1>2. Len(hist) \in Nat /\ Len(hist) <= MaxRev /\ MaxRev \in Nat
  BY WorldFacts
<1>3. named \subseteq Nat
  OBVIOUS
<1>4. named # {} => e \in named /\ \A g \in named : e <= g
  <2> HIDE DEF named
  <2> QED BY <1>3, FirstFacts
<1>5. \A f \in named : f \in 0..Len(hist) /\ f \in Paths /\ NameOf[f] = NameOf[path]
  BY <1>2 DEF Paths
<1>6. /\ first \in Nat /\ first \in Paths /\ NameOf[first] = NameOf[path]
      /\ \A g \in Paths : NameOf[g] = NameOf[path] => first <= g
  BY FirstNamedFacts
<1> HIDE DEF first
<1>7. \A f \in named : first <= f /\ first \in named
  <2> SUFFICES ASSUME NEW f \in named PROVE first <= f /\ first \in named
    OBVIOUS
  <2>1. first <= f /\ first > 0 /\ f \in Nat /\ f <= rev
    BY <1>5, <1>6 DEF Paths
  <2> QED BY <1>6, <2>1
<1> HIDE DEF named, e
<1>8. CASE named = {}
  BY <1>1, <1>2, <1>8
<1>9. CASE named # {}
  <2>1. Entry(rev, path) = e /\ e \in named /\ e \in Nat
    BY <1>1, <1>3, <1>4, <1>9
  <2>2. first <= e /\ e <= first
    BY <1>4, <1>7, <1>9, <2>1
  <2>3. e = first
    BY <1>6, <2>1, <2>2
  <2> QED BY <1>5, <2>1, <2>3 DEF first
<1> QED BY <1>8, <1>9

LEMMA OldFilesFacts ==
  ASSUME WorldOk(hist, faults, window, now),
         NEW rev \in Nat, rev <= Len(hist), NEW cut, cut # Unfiltered, CutOk(cut, window, now),
         NEW f \in OldFiles(rev, cut)
  PROVE  f \in 1..rev /\ Old(f, hist, window, now)
<1>1. f \in 1..rev /\ hist[f].dated /\ hist[f].at <= cut
  BY DEF OldFiles
<1>2. /\ Len(hist) \in Nat /\ window \in Nat /\ now \in Nat
      /\ f \in 1..Len(hist) /\ hist[f].at \in Nat /\ hist[f].at > 0
  BY <1>1, WorldFacts
<1>3. ASSUME window > 0 PROVE hist[f].at + window <= now
  <2>1. cut \in Nat /\ (cut = 0 \/ cut + window <= now)
    BY <1>3 DEF CutOk
  <2> QED BY <1>1, <1>2, <2>1
<1> QED BY <1>1, <1>3 DEF Old

(* What the filter and the renderer make of a revision, and of the empty   *)
(* index, in either format.                                                *)
LEMMA ProducedOk ==
  ASSUME WorldOk(hist, faults, window, now),
         NEW rev \in Nat, rev <= Len(hist), NEW cut, CutOk(cut, window, now),
         NEW fmt \in Formats
  PROVE  BodyOk(Produced(rev, cut, fmt), hist, window, now) /\ Produced(rev, cut, fmt).fmt = fmt
<1> DEFINE fs == IF cut = Unfiltered THEN 1..rev ELSE OldFiles(rev, cut)
           vs == IF fmt = "html" THEN {}
                 ELSE IF cut = Unfiltered THEN Listed(rev)
                 ELSE ServedVersions(rev, fs)
           b  == Produced(rev, cut, fmt)
<1>1. /\ b = [fmt |-> fmt, rev |-> rev, files |-> fs, versions |-> vs]
      /\ b.fmt = fmt /\ b.rev = rev /\ b.files = fs /\ b.versions = vs
  BY DEF Produced
<1>2. cut = Unfiltered => window = 0
  <2>1. window \in Nat /\ (window > 0 \/ window = 0)
    BY WorldFacts
  <2> QED BY <2>1 DEF CutOk, Unfiltered
<1>3. fs \subseteq 1..rev /\ \A f \in fs : Old(f, hist, window, now)
  <2>1. CASE cut = Unfiltered
    BY <1>2, <2>1 DEF Old
  <2>2. CASE cut # Unfiltered
    BY <2>2, OldFilesFacts
  <2> QED BY <2>1, <2>2
<1>4. /\ \A f \in 1..rev : f \in 1..Len(hist) /\ hist[f].ver \in Nat /\ hist[f].ver # Unbacked
      /\ Unbacked \in Nat
  BY WorldFacts DEF Unbacked
<1>5. Listed(rev) \subseteq Nat
  BY <1>4 DEF Listed, VersionsOf
<1> HIDE DEF fs, b
<1>6. VersionsOf(fs) \subseteq Nat /\ ServedVersions(rev, fs) \subseteq Nat
  BY <1>3, <1>4, <1>5 DEF ServedVersions, VersionsOf
<1>7. vs \in SUBSET Nat
  BY <1>5, <1>6
<1>8. b \in Bodies
  <2>1. fs \in SUBSET Nat /\ fmt \in Dialects \cup {"none"}
    BY <1>3 DEF Dialects
  <2> HIDE DEF vs
  <2> QED BY <1>1, <1>7, <2>1 DEF Bodies
<1>9. ASSUME window > 0, NEW v \in b.versions PROVE Backed(v, b, hist)
  <2>1. fmt # "html" /\ v \in ServedVersions(rev, fs)
    BY <1>1, <1>2, <1>9
  <2>2. v \in VersionsOf(fs) \/ v \notin VersionsOf(1..rev)
    BY <2>1 DEF ServedVersions
  <2> QED BY <1>1, <2>2 DEF VersionsOf, Backed
<1>10. ASSUME window > 0, fmt = "json", NEW i \in fs PROVE hist[i].ver \in vs
  <2>1. vs = ServedVersions(rev, fs)
    BY <1>2, <1>10
  <2>2. hist[i].ver \in VersionsOf(fs) /\ hist[i].ver \in VersionsOf(1..rev)
    BY <1>3, <1>10 DEF VersionsOf
  <2>3. Listed(rev) # {} => Listed(rev) = VersionsOf(1..rev) \cup {Unbacked}
    BY DEF Listed
  <2> HIDE DEF vs
  <2> QED BY <2>1, <2>2, <2>3 DEF ServedVersions
<1>11. Filtered(b, hist, window, now)
  BY <1>1, <1>3, <1>9, <1>10 DEF Filtered
<1>12. Lively(b, hist)
  <2> SUFFICES ASSUME fmt = "json", rev # 0, hist[rev].dialect = "json"
               PROVE  Unbacked \in vs /\ \A i \in fs : hist[i].ver \in vs
    BY <1>1 DEF Lively
  <2>1. Listed(rev) = VersionsOf(1..rev) \cup {Unbacked}
    BY DEF Listed, Dialect
  <2>2. \A i \in fs : hist[i].ver \in VersionsOf(fs) /\ hist[i].ver \in VersionsOf(1..rev)
    BY <1>3 DEF VersionsOf
  <2>3. Unbacked \notin VersionsOf(1..rev)
    BY <1>4 DEF VersionsOf
  <2>4. CASE cut = Unfiltered
    BY <2>1, <2>2, <2>4
  <2>5. CASE cut # Unfiltered
    <3>1. vs = {v \in Listed(rev) : v \in VersionsOf(fs) \/ v \notin VersionsOf(1..rev)}
      BY <2>1, <2>5 DEF ServedVersions
    <3> HIDE DEF vs
    <3> QED BY <2>1, <2>2, <2>3, <3>1
  <2> QED BY <2>4, <2>5
<1> HIDE DEF vs
<1>13. BodyOk(b, hist, window, now)
  BY <1>1, <1>3, <1>8, <1>11, <1>12 DEF BodyOk
<1> QED BY <1>1, <1>13 DEF b
-----------------------------------------------------------------------------
(* What each way of ending a step does to the clients.                     *)

LEMMA ClientFacts ==
  ASSUME SimpleInv, NEW c \in Clients
  PROVE  /\ RequestOk(req[c], copy[c], hist, window, now) /\ req[c] \in Requests
         /\ CopyOk(copy[c], hist, now) /\ copy[c] \in Copies
         /\ AnswerOk(resp[c], copy[c], hist, window, now)
BY DEF SimpleInv, ClientsOk, ClientOk

LEMMA NoRequestOk ==
  ASSUME WorldOk(hist, faults, window, now), NEW k, NEW w
  PROVE  NoRequest \in Requests /\ RequestOk(NoRequest, k, hist, w, now)
<1>1. NoRequest \in Requests
  BY DEF NoRequest, Requests, Pcs, AskKinds, AskFormats, NoEntry, Entries, Cutoffs
<1>2. Len(hist) \in Nat /\ 0 <= Len(hist)
  BY WorldFacts
<1> QED BY <1>1, <1>2 DEF RequestOk, NoRequest, LadderPcs, LookPcs, PassedPcs

LEMMA NoAnswerOk ==
  ASSUME NEW k, NEW w
  PROVE  NoAnswer \in Answers /\ AnswerOk(NoAnswer, k, hist, w, now)
<1>1. NoAnswer \in Answers
  BY DEF NoAnswer, Answers, AskKinds, AskFormats, Statuses
<1> QED BY <1>1 DEF AnswerOk, NoAnswer

(* One client moved on; the others are as they were.                       *)
LEMMA OneClient ==
  ASSUME SimpleInv, NEW c \in Clients, NEW r, NEW k, NEW a,
         ClientOk(r, k, a, hist, window, now),
         req' = [req EXCEPT ![c] = r], copy' = [copy EXCEPT ![c] = k],
         resp' = [resp EXCEPT ![c] = a]
  PROVE  ClientsOk(req', copy', resp', hist, window, now)
<1>1. /\ req \in [Clients -> Requests] /\ copy \in [Clients -> Copies]
      /\ resp \in [Clients -> Answers]
      /\ \A d \in Clients : ClientOk(req[d], copy[d], resp[d], hist, window, now)
  BY DEF SimpleInv, ClientsOk
<1>2. r \in Requests /\ k \in Copies /\ a \in Answers
  BY DEF ClientOk, RequestOk, CopyOk, AnswerOk
<1>3. /\ req' \in [Clients -> Requests] /\ copy' \in [Clients -> Copies]
      /\ resp' \in [Clients -> Answers]
  BY <1>1, <1>2
<1>4. /\ req'[c] = r /\ copy'[c] = k /\ resp'[c] = a
      /\ \A d \in Clients \ {c} : req'[d] = req[d] /\ copy'[d] = copy[d] /\ resp'[d] = resp[d]
  BY <1>1
<1>5. ASSUME NEW d \in Clients
      PROVE  ClientOk(req'[d], copy'[d], resp'[d], hist, window, now)
  BY <1>1, <1>4
<1> QED BY <1>3, <1>5 DEF ClientsOk

LEMMA SameCopies ==
  ASSUME SimpleInv, NEW c \in Clients
  PROVE  copy = [copy EXCEPT ![c] = copy[c]] /\ resp = [resp EXCEPT ![c] = resp[c]]
BY DEF SimpleInv, ClientsOk

LEMMA Moved ==
  ASSUME SimpleInv, NEW c \in Clients, NEW r,
         RequestOk(r, copy[c], hist, window, now), Goto(c, r)
  PROVE  ClientsOk(req', copy', resp', hist, window, now)
<1>1. ClientOk(r, copy[c], resp[c], hist, window, now)
  BY ClientFacts DEF ClientOk
<1>2. /\ req' = [req EXCEPT ![c] = r] /\ copy' = [copy EXCEPT ![c] = copy[c]]
      /\ resp' = [resp EXCEPT ![c] = resp[c]]
  BY SameCopies DEF Goto
<1> QED BY <1>1, <1>2, OneClient

Told(c, status, bytes) ==
  [kind |-> req[c].kind, fmt |-> req[c].fmt, path |-> req[c].path, bytes |-> bytes,
   status |-> status]

LEMMA ToldFacts ==
  ASSUME SimpleInv, NEW c \in Clients, NEW status \in Statuses, NEW bytes \in Nat
  PROVE  /\ Told(c, status, bytes) \in Answers
         /\ Told(c, status, bytes).kind = req[c].kind
         /\ Told(c, status, bytes).fmt = req[c].fmt
         /\ Told(c, status, bytes).path = req[c].path
         /\ Told(c, status, bytes).bytes = bytes
         /\ Told(c, status, bytes).status = status
<1>1. req[c].kind \in AskKinds /\ req[c].fmt \in AskFormats /\ req[c].path \in Nat
  BY ClientFacts DEF Requests
<1> QED BY <1>1 DEF Told, Answers

LEMMA Ended ==
  ASSUME SimpleInv, NEW c \in Clients, NEW k, NEW status, NEW bytes, CopyOk(k, hist, now),
         AnswerOk(Told(c, status, bytes), k, hist, window, now),
         Answer(c, status, bytes), copy' = [copy EXCEPT ![c] = k]
  PROVE  ClientsOk(req', copy', resp', hist, window, now)
<1>1. RequestOk(NoRequest, k, hist, window, now)
  BY NoRequestOk DEF SimpleInv
<1>2. ClientOk(NoRequest, k, Told(c, status, bytes), hist, window, now)
  BY <1>1 DEF ClientOk
<1>3. req' = [req EXCEPT ![c] = NoRequest]
      /\ resp' = [resp EXCEPT ![c] = Told(c, status, bytes)]
  BY DEF Answer, Told
<1> QED BY <1>2, <1>3, OneClient

LEMMA Refused ==
  ASSUME SimpleInv, NEW c \in Clients, NEW status \in Statuses \ {200, 304}, Refuse(c, status)
  PROVE  ClientsOk(req', copy', resp', hist, window, now)
<1>1. CopyOk(copy[c], hist, now) /\ status \in Statuses
  BY ClientFacts
<1>2. Told(c, status, 0) \in Answers /\ Told(c, status, 0).status = status
  BY <1>1, ToldFacts
<1>3. AnswerOk(Told(c, status, 0), copy[c], hist, window, now)
  BY <1>2 DEF AnswerOk
<1>4. Answer(c, status, 0) /\ copy' = [copy EXCEPT ![c] = copy[c]]
  BY SameCopies DEF Refuse
<1> QED BY <1>1, <1>3, <1>4, Ended

(* A body within the window is one within no window.                       *)
LEMMA WindowlessBody ==
  ASSUME NEW b, NEW h, NEW win, NEW t, BodyOk(b, h, win, t)
  PROVE  BodyOk(b, h, 0, t)
BY DEF BodyOk, Filtered, Old

LEMMA Served ==
  ASSUME SimpleInv, NEW c \in Clients, req[c].kind = "index",
         NEW e \in Entries, NEW body, BodyOk(body, hist, window, now),
         body.fmt \in {req[c].fmt, "other"}, Show(c, e, body)
  PROVE  ClientsOk(req', copy', resp', hist, window, now)
<1> DEFINE mark == IF e.etag # 0 THEN ServeMarker ELSE NoMarker
           k    == [etag |-> e.etag, marker |-> mark, body |-> body]
           a    == Told(c, 200, 0)
<1>1. Answer(c, 200, 0) /\ copy' = [copy EXCEPT ![c] = k]
  BY DEF Show
<1>2. mark \in Markers /\ mark.win \in {window, 0}
  BY MarkerFacts DEF SimpleInv
<1>3. e.etag \in Nat /\ body \in Bodies
  BY DEF Entries, BodyOk
<1> HIDE DEF mark
<1>4. k.body = body /\ k.marker = mark /\ k \in Copies
  BY <1>2, <1>3 DEF Copies
<1>5. BodyOk(body, hist, mark.win, now)
  BY <1>2, WindowlessBody
<1> HIDE DEF k
<1>6. CopyOk(k, hist, now)
  BY <1>4, <1>5 DEF CopyOk
<1>7. a \in Answers /\ a.kind = "index" /\ a.fmt = req[c].fmt
  <2>1. 200 \in Statuses /\ 0 \in Nat
    BY DEF Statuses
  <2> QED BY <2>1, ToldFacts
<1> HIDE DEF a
<1>8. AnswerOk(a, k, hist, window, now)
  BY <1>4, <1>7 DEF AnswerOk, BodyOk
<1> QED BY <1>1, <1>6, <1>8, Ended DEF a

(* A request that may be answered 304 saw, on the copy its client still    *)
(* holds, the marker of this window and the format it asks for.            *)
LEMMA NotModifiedOk ==
  ASSUME SimpleInv, NEW c \in Clients, req[c].kind = "index", req[c].ok, NotModified(c)
  PROVE  ClientsOk(req', copy', resp', hist, window, now)
<1> DEFINE a == Told(c, 304, 0)
<1>1. Answer(c, 304, 0) /\ copy' = [copy EXCEPT ![c] = copy[c]]
  BY SameCopies DEF NotModified
<1>2. /\ CopyOk(copy[c], hist, now) /\ copy[c].marker.win = window
      /\ copy[c].body.fmt = req[c].fmt
  BY ClientFacts DEF RequestOk
<1>3. Filtered(copy[c].body, hist, window, now)
  BY <1>2 DEF CopyOk, BodyOk
<1>4. a \in Answers /\ a.kind = "index" /\ a.fmt = req[c].fmt
  <2>1. 304 \in Statuses /\ 0 \in Nat
    BY DEF Statuses
  <2> QED BY <2>1, ToldFacts
<1> HIDE DEF a
<1>5. AnswerOk(a, copy[c], hist, window, now)
  BY <1>2, <1>3, <1>4 DEF AnswerOk
<1> QED BY <1>1, <1>2, <1>5, Ended DEF a

(* What the memo holds under a validator is in the format it is kept for.  *)
LEMMA MemoShown ==
  ASSUME SimpleInv, NEW c \in Clients, req[c].kind = "index", req[c].fmt \in Formats,
         NEW e \in Entries, MemoHas(c, e), ShowMemo(c, e)
  PROVE  ClientsOk(req', copy', resp', hist, window, now)
<1> DEFINE m == memo[req[c].fmt]
<1>1. BodyOk(m.body, hist, window, now) /\ (m.val # NoValidator => m.body.fmt = req[c].fmt)
  BY DEF SimpleInv, CachesOk, MemoOk
<1>2. m.val # NoValidator
  BY DEF MemoHas
<1>3. Show(c, e, m.body)
  BY DEF ShowMemo
<1> HIDE DEF m
<1> QED BY <1>1, <1>2, <1>3, Served

(* On the ladder only the position, the entry and the revision read change. *)
LEMMA LadderMoves ==
  ASSUME SimpleInv, NEW c \in Clients, req[c].pc \in LadderPcs, NEW r \in Requests,
         r.pc \in LadderPcs \ {"filtering"}, r.kind = req[c].kind, r.fmt = req[c].fmt,
         r.ok = req[c].ok, r.data <= Len(hist), Goto(c, r)
  PROVE  ClientsOk(req', copy', resp', hist, window, now)
<1>1. RequestOk(req[c], copy[c], hist, window, now)
  BY ClientFacts
<1>2. r.pc \notin LookPcs \cup {"filtering"} \cup PassedPcs
  BY DEF LadderPcs, LookPcs, PassedPcs
<1>3. RequestOk(r, copy[c], hist, window, now)
  BY <1>1, <1>2 DEF RequestOk
<1> QED BY <1>3, Moved

LEMMA LadderFacts ==
  ASSUME SimpleInv, NEW c \in Clients, req[c].pc \in LadderPcs
  PROVE  /\ req[c] \in Requests /\ req[c].kind = "index" /\ req[c].fmt \in Formats
         /\ req[c].entry \in Entries /\ req[c].cut \in Cutoffs
         /\ req[c].data \in Nat /\ req[c].data <= Len(hist)
BY ClientFacts DEF RequestOk, Requests

LEMMA CacheFacts ==
  ASSUME SimpleInv
  PROVE  /\ CachesOk(disk, meta, memo, files, hist, window, now)
         /\ disk.rev \in Nat /\ disk.rev <= Len(hist) /\ disk.mtime \in Nat
         /\ meta \in Entries /\ FileEntry \in Entries /\ FilesOk(files)
         /\ NoEntry \in Entries /\ Len(hist) \in Nat /\ now \in Nat /\ window \in Nat
<1>1. /\ disk.rev \in Nat /\ disk.rev <= Len(hist) /\ disk.mtime \in Nat /\ meta \in Entries
      /\ FilesOk(files)
  BY DEF SimpleInv, CachesOk, IndexFiles
<1>2. NoEntry \in Entries /\ FileEntry \in Entries
  BY <1>1 DEF NoEntry, Entries, FileEntry
<1> QED BY <1>1, <1>2, WorldFacts DEF SimpleInv

(* A step that leaves clock, upstream and window alone.                    *)
LEMMA StepKeeps ==
  ASSUME SimpleInv, UNCHANGED <<now, hist, window>>, faults' \in Nat,
         CachesOk(disk', meta', memo', files', hist, window, now),
         ClientsOk(req', copy', resp', hist, window, now)
  PROVE  SimpleInv'
<1>1. WorldOk(hist, faults', window, now)
  BY DEF SimpleInv, WorldOk
<1> QED BY <1>1 DEF SimpleInv

LEMMA QuietStep ==
  ASSUME SimpleInv, UNCHANGED <<envVars, cacheVars>>,
         ClientsOk(req', copy', resp', hist, window, now)
  PROVE  SimpleInv'
<1>1. UNCHANGED <<now, hist, window, faults>> /\ UNCHANGED <<disk, meta, memo, files>>
  BY DEF envVars, cacheVars
<1>2. faults' \in Nat
  BY <1>1, WorldFacts DEF SimpleInv
<1>3. CachesOk(disk', meta', memo', files', hist, window, now)
  BY <1>1, CacheFacts
<1> QED BY <1>1, <1>2, <1>3, StepKeeps

LEMMA FaultType ==
  ASSUME SimpleInv, Fault
  PROVE  faults' \in Nat
<1>1. faults \in Nat
  BY WorldFacts DEF SimpleInv
<1> QED BY <1>1 DEF Fault

(* A failure that leaves the caches alone.                                 *)
LEMMA QuietFault ==
  ASSUME SimpleInv, Fault, UNCHANGED <<now, hist, window, cacheVars>>,
         ClientsOk(req', copy', resp', hist, window, now)
  PROVE  SimpleInv'
<1>1. UNCHANGED <<now, hist, window>> /\ UNCHANGED <<disk, meta, memo, files>>
  BY DEF cacheVars
<1>2. CachesOk(disk', meta', memo', files', hist, window, now)
  BY <1>1, CacheFacts
<1> QED BY <1>1, <1>2, FaultType, StepKeeps

(* New contents of the index file, the entry and the cached files.         *)
LEMMA StoredOk ==
  ASSUME SimpleInv, NEW d \in IndexFiles, d.rev <= Len(hist), NEW e \in Entries,
         NEW fs, FilesOk(fs)
  PROVE  CachesOk(d, e, memo, fs, hist, window, now)
BY DEF SimpleInv, CachesOk

LEMMA CachedOk ==
  ASSUME SimpleInv
  PROVE  /\ disk \in IndexFiles /\ disk.rev <= Len(hist)
         /\ meta \in Entries /\ FilesOk(files)
         /\ NoFile \in IndexFiles /\ NoFile.rev <= Len(hist)
<1>1. NoFile \in IndexFiles /\ NoFile.rev = 0 /\ Len(hist) \in Nat
  BY CacheFacts DEF NoFile, IndexFiles
<1> QED BY <1>1 DEF SimpleInv, CachesOk

LEMMA WrittenOk ==
  ASSUME SimpleInv, NEW c \in Clients
  PROVE  /\ Written(c) \in IndexFiles /\ Written(c).rev <= Len(hist)
         /\ [rev |-> req[c].data, mtime |-> now] \in IndexFiles
         /\ req[c].data <= Len(hist) /\ req[c].entry \in Entries
<1>1. req[c] \in Requests /\ req[c].data <= Len(hist) /\ now \in Nat
  BY ClientFacts, CacheFacts DEF RequestOk
<1>2. req[c].data \in Nat /\ req[c].entry \in Entries /\ req[c].entry.mtime \in Nat
  BY <1>1 DEF Requests, Entries
<1> QED BY <1>1, <1>2 DEF Written, IndexFiles

LEMMA HarvestFacts ==
  ASSUME SimpleInv, hist # <<>>
  PROVE  Harvest \in Entries /\ Current \in Nat /\ Current <= Len(hist)
<1>1. hist \in Seq(Items)
  BY DEF SimpleInv, WorldOk
<1>2. Len(hist) \in Nat \ {0}
  BY <1>1, EmptySeq
<1>3. Current \in 1..Len(hist) /\ Current \in Nat
  BY <1>2 DEF Current
<1>4. hist[Current].at \in Nat /\ now \in Nat
  BY <1>3, WorldFacts DEF SimpleInv
<1> QED BY <1>2, <1>3, <1>4 DEF Harvest, Entries, Current
-----------------------------------------------------------------------------
(* The ladder of the project's index, an action at a time.                 *)

LEMMA BeginProjectKeeps ==
  ASSUME SimpleInv, NEW c \in Clients, NEW fmt \in Formats, BeginProject(c, fmt)
  PROVE  SimpleInv'
<1> DEFINE ok == WindowOk(c, fmt)
           r  == [NoRequest EXCEPT !.pc = "lookup", !.kind = "index", !.fmt = fmt,
                                   !.etag = copy[c].etag, !.ok = ok]
<1>1. copy[c].etag \in Nat /\ CopyOk(copy[c], hist, now)
  BY ClientFacts DEF Copies
<1>2. NoRequest \in Requests /\ NoRequest.data = 0
  BY NoRequestOk DEF SimpleInv, NoRequest
<1>3. ok \in BOOLEAN /\ (ok => copy[c].marker = ServeMarker /\ copy[c].body.fmt = fmt)
  BY DEF WindowOk
<1> HIDE DEF ok
<1>4. /\ r \in Requests /\ r.data = 0 /\ r.pc = "lookup" /\ r.kind = "index"
      /\ r.fmt = fmt /\ r.ok = ok
  BY <1>1, <1>2, <1>3 DEF Requests, Pcs, AskKinds, AskFormats
<1>5. ServeMarker.win = window
  BY MarkerFacts DEF SimpleInv
<1>6. /\ req' = [req EXCEPT ![c] = r] /\ copy' = [copy EXCEPT ![c] = copy[c]]
      /\ resp' = [resp EXCEPT ![c] = NoAnswer]
  BY SameCopies DEF BeginProject, ok
<1> HIDE DEF r
<1>7. RequestOk(r, copy[c], hist, window, now)
  BY <1>3, <1>4, <1>5, CacheFacts DEF RequestOk, LadderPcs, LookPcs, PassedPcs
<1>8. ClientOk(r, copy[c], NoAnswer, hist, window, now)
  BY <1>1, <1>7, NoAnswerOk DEF ClientOk
<1>9. UNCHANGED <<envVars, cacheVars>>
  BY DEF BeginProject
<1> QED BY <1>6, <1>8, <1>9, OneClient, QuietStep

(* A request moved along the ladder, to pc with entry e and data n.        *)
LEMMA LadderGoto ==
  ASSUME SimpleInv, NEW c \in Clients, req[c].pc \in LadderPcs,
         NEW pc \in LadderPcs \ {"filtering"}
  PROVE  /\ Goto(c, [req[c] EXCEPT !.pc = pc]) =>
              ClientsOk(req', copy', resp', hist, window, now)
         /\ \A e \in Entries : Goto(c, [req[c] EXCEPT !.pc = pc, !.entry = e]) =>
              ClientsOk(req', copy', resp', hist, window, now)
         /\ \A n \in Nat : n <= Len(hist) /\ Goto(c, [req[c] EXCEPT !.pc = pc, !.data = n]) =>
              ClientsOk(req', copy', resp', hist, window, now)
         /\ \A e \in Entries, n \in Nat :
              n <= Len(hist) /\ Goto(c, [req[c] EXCEPT !.pc = pc, !.entry = e, !.data = n]) =>
                ClientsOk(req', copy', resp', hist, window, now)
<1>1. req[c] \in Requests /\ req[c].data \in Nat /\ req[c].data <= Len(hist) /\ pc \in Pcs
  BY LadderFacts DEF LadderPcs, Pcs
<1>2. ASSUME NEW r \in Requests, r.pc = pc, r.kind = req[c].kind, r.fmt = req[c].fmt,
             r.ok = req[c].ok, r.data <= Len(hist), Goto(c, r)
      PROVE  ClientsOk(req', copy', resp', hist, window, now)
  BY <1>2, LadderMoves
<1>3. ASSUME Goto(c, [req[c] EXCEPT !.pc = pc])
      PROVE  ClientsOk(req', copy', resp', hist, window, now)
  <2> DEFINE r == [req[c] EXCEPT !.pc = pc]
  <2>1. /\ r \in Requests /\ r.pc = pc /\ r.kind = req[c].kind /\ r.fmt = req[c].fmt
        /\ r.ok = req[c].ok /\ r.data = req[c].data
    BY <1>1 DEF Requests
  <2>2. Goto(c, r)
    BY <1>3
  <2> HIDE DEF r
  <2> QED BY <1>1, <1>2, <2>1, <2>2
<1>4. ASSUME NEW e \in Entries, Goto(c, [req[c] EXCEPT !.pc = pc, !.entry = e])
      PROVE  ClientsOk(req', copy', resp', hist, window, now)
  <2> DEFINE r == [req[c] EXCEPT !.pc = pc, !.entry = e]
  <2>1. /\ r \in Requests /\ r.pc = pc /\ r.kind = req[c].kind /\ r.fmt = req[c].fmt
        /\ r.ok = req[c].ok /\ r.data = req[c].data
    BY <1>1 DEF Requests
  <2>2. Goto(c, r)
    BY <1>4
  <2> HIDE DEF r
  <2> QED BY <1>1, <1>2, <2>1, <2>2
<1>5. ASSUME NEW n \in Nat, n <= Len(hist), Goto(c, [req[c] EXCEPT !.pc = pc, !.data = n])
      PROVE  ClientsOk(req', copy', resp', hist, window, now)
  <2> DEFINE r == [req[c] EXCEPT !.pc = pc, !.data = n]
  <2>1. /\ r \in Requests /\ r.pc = pc /\ r.kind = req[c].kind /\ r.fmt = req[c].fmt
        /\ r.ok = req[c].ok /\ r.data = n
    BY <1>1 DEF Requests
  <2>2. Goto(c, r)
    BY <1>5
  <2> HIDE DEF r
  <2> QED BY <1>5, <1>2, <2>1, <2>2
<1>6. ASSUME NEW e \in Entries, NEW n \in Nat, n <= Len(hist),
             Goto(c, [req[c] EXCEPT !.pc = pc, !.entry = e, !.data = n])
      PROVE  ClientsOk(req', copy', resp', hist, window, now)
  <2> DEFINE r == [req[c] EXCEPT !.pc = pc, !.entry = e, !.data = n]
  <2>1. /\ r \in Requests /\ r.pc = pc /\ r.kind = req[c].kind /\ r.fmt = req[c].fmt
        /\ r.ok = req[c].ok /\ r.data = n
    BY <1>1 DEF Requests
  <2>2. Goto(c, r)
    BY <1>6
  <2> HIDE DEF r
  <2> QED BY <1>6, <1>2, <2>1, <2>2
<1> QED BY <1>3, <1>4, <1>5, <1>6

LEMMA LookupKeeps ==
  ASSUME SimpleInv, NEW c \in Clients, Lookup(c)
  PROVE  SimpleInv'
<1>1. req[c].pc \in LadderPcs /\ UNCHANGED <<envVars, cacheVars>>
  BY DEF Lookup, At, LadderPcs
<1>2. meta \in Entries /\ req[c].kind = "index" /\ req[c].fmt \in Formats
  BY <1>1, CacheFacts, LadderFacts
<1>3. {"find", "fetch", "read"} \subseteq LadderPcs \ {"filtering"}
  BY DEF LadderPcs
<1> SUFFICES ClientsOk(req', copy', resp', hist, window, now)
  BY <1>1, QuietStep
<1>4. CASE Goto(c, [req[c] EXCEPT !.pc = "find"])
  BY <1>1, <1>3, <1>4, LadderGoto
<1>5. CASE Goto(c, [req[c] EXCEPT !.pc = "fetch", !.entry = meta])
  BY <1>1, <1>2, <1>3, <1>5, LadderGoto
<1>6. CASE MayNotModify(c, meta) /\ NotModified(c)
  <2>1. req[c].ok
    BY <1>6 DEF MayNotModify
  <2> QED BY <1>2, <1>6, <2>1, NotModifiedOk
<1>7. CASE MemoHas(c, meta) /\ ShowMemo(c, meta)
  BY <1>2, <1>7, MemoShown
<1>8. CASE Goto(c, [req[c] EXCEPT !.pc = "read", !.entry = meta])
  BY <1>1, <1>2, <1>3, <1>8, LadderGoto
<1> QED BY <1>4, <1>5, <1>6, <1>7, <1>8 DEF Lookup

(* Reading the cached index, or its mtime.                                 *)
LEMMA ReadKeeps ==
  ASSUME SimpleInv, NEW c \in Clients,
         ReadFresh(c) \/ FindMtime(c) \/ ReadAfter304(c) \/ ReadStale(c) \/ FindStale(c)
  PROVE  SimpleInv'
<1>1. req[c].pc \in LadderPcs /\ UNCHANGED <<envVars, cacheVars>>
  BY DEF ReadFresh, FindMtime, ReadAfter304, ReadStale, FindStale, At, LadderPcs
<1>2. /\ disk.rev \in Nat /\ disk.rev <= Len(hist)
      /\ NoEntry \in Entries /\ FileEntry \in Entries
  BY CacheFacts
<1>3. {"find", "fetch", "filter", "findstale", "lost"} \subseteq LadderPcs \ {"filtering"}
  BY DEF LadderPcs
<1> SUFFICES ClientsOk(req', copy', resp', hist, window, now)
  BY <1>1, QuietStep
<1>4. CASE ReadFresh(c)
  <2>1. \/ Goto(c, [req[c] EXCEPT !.pc = "filter", !.data = disk.rev])
        \/ Goto(c, [req[c] EXCEPT !.pc = "find", !.entry = NoEntry])
    BY <1>4 DEF ReadFresh
  <2> QED BY <1>1, <1>2, <1>3, <2>1, LadderGoto
<1>5. CASE FindMtime(c)
  <2>1. Goto(c, [req[c] EXCEPT !.pc = "fetch", !.entry = FileEntry])
    BY <1>5 DEF FindMtime
  <2> QED BY <1>1, <1>2, <1>3, <2>1, LadderGoto
<1>6. CASE ReadAfter304(c)
  <2>1. \/ Goto(c, [req[c] EXCEPT !.pc = "filter", !.data = disk.rev])
        \/ Goto(c, [req[c] EXCEPT !.pc = "lost"])
    BY <1>6 DEF ReadAfter304
  <2> QED BY <1>1, <1>2, <1>3, <2>1, LadderGoto
<1>7. CASE ReadStale(c)
  <2>1. \/ Goto(c, [req[c] EXCEPT !.pc = "findstale", !.data = disk.rev])
        \/ Refuse(c, 502)
    BY <1>7 DEF ReadStale
  <2>2. 502 \in Statuses \ {200, 304}
    BY DEF Statuses
  <2>3. CASE Goto(c, [req[c] EXCEPT !.pc = "findstale", !.data = disk.rev])
    BY <1>1, <1>2, <1>3, <2>3, LadderGoto
  <2> QED BY <2>1, <2>2, <2>3, Refused
<1>8. CASE FindStale(c)
  <2>1. Goto(c, [req[c] EXCEPT !.pc = "filter", !.entry = FileEntry])
    BY <1>8 DEF FindStale
  <2> QED BY <1>1, <1>2, <1>3, <2>1, LadderGoto
<1> QED BY <1>4, <1>5, <1>6, <1>7, <1>8

(* A page of another type is passed through, but only without a window.    *)
LEMMA PassedThrough ==
  ASSUME SimpleInv, hist # <<>>, Cutoff = Unfiltered, NEW c \in Clients,
         req[c].pc \in LadderPcs,
         Show(c, NoEntry, [NoBody EXCEPT !.fmt = "other", !.rev = Current,
                                         !.files = 1..Current])
  PROVE  ClientsOk(req', copy', resp', hist, window, now)
<1> DEFINE b == [NoBody EXCEPT !.fmt = "other", !.rev = Current, !.files = 1..Current]
<1>1. Current \in Nat /\ Current <= Len(hist)
  BY HarvestFacts
<1>2. window = 0
  BY CutoffFacts DEF SimpleInv
<1>3. /\ b.fmt = "other" /\ b.rev = Current /\ b.files = 1..Current /\ b.versions = {}
      /\ b \in Bodies
  <2> DEFINE fs == 1..Current
  <2>1. fs \in SUBSET Nat /\ {} \in SUBSET Nat /\ "other" \in Dialects \cup {"none"}
    BY <1>1 DEF Dialects
  <2>2. NoBody \in Bodies /\ NoBody.versions = {}
    BY <2>1 DEF NoBody, Bodies
  <2>3. ASSUME NEW n \in Nat, NEW S \in SUBSET Nat
        PROVE  LET r == [NoBody EXCEPT !.fmt = "other", !.rev = n, !.files = S]
               IN  /\ r.fmt = "other" /\ r.rev = n /\ r.files = S /\ r.versions = {}
                   /\ r \in Bodies
    BY <2>1, <2>2 DEF Bodies
  <2> HIDE DEF fs
  <2> QED BY <1>1, <2>1, <2>3 DEF fs
<1>4. Show(c, NoEntry, b)
  OBVIOUS
<1> HIDE DEF b
<1>5. Filtered(b, hist, window, now) /\ Lively(b, hist)
  BY <1>2, <1>3 DEF Filtered, Old, Lively
<1>6. BodyOk(b, hist, window, now)
  BY <1>1, <1>3, <1>5 DEF BodyOk
<1> QED BY <1>3, <1>4, <1>6, LadderFacts, CacheFacts, Served

LEMMA FetchKeeps ==
  ASSUME SimpleInv, NEW c \in Clients, Fetch(c) \/ FetchUnknown(c) \/ FetchFails(c)
  PROVE  SimpleInv'
<1>1. req[c].pc \in LadderPcs
  BY DEF Fetch, FetchUnknown, FetchFails, At, LadderPcs
<1>2. {"store304", "write", "filter", "readstale"} \subseteq LadderPcs \ {"filtering"}
  BY DEF LadderPcs
<1>3. CASE Fetch(c)
  <2>1. hist # <<>> /\ UNCHANGED <<envVars, cacheVars>>
    BY <1>3 DEF Fetch
  <2>2. Harvest \in Entries /\ Current \in Nat /\ Current <= Len(hist)
    BY <2>1, HarvestFacts
  <2> SUFFICES ClientsOk(req', copy', resp', hist, window, now)
    BY <2>1, QuietStep
  <2>3. CASE Goto(c, [req[c] EXCEPT !.pc = "store304", !.entry = Harvest])
    BY <1>1, <1>2, <2>2, <2>3, LadderGoto
  <2>4. CASE Goto(c, [Fetched(c, "filter") EXCEPT !.data = 0])
    <3>1. req[c] \in Requests /\ 0 <= Len(hist) /\ 0 \in Nat
      BY ClientFacts, CacheFacts
    <3>2. [Fetched(c, "filter") EXCEPT !.data = 0]
            = [req[c] EXCEPT !.pc = "filter", !.entry = Harvest, !.data = 0]
      BY <3>1 DEF Fetched, Requests
    <3>3. Goto(c, [req[c] EXCEPT !.pc = "filter", !.entry = Harvest, !.data = 0])
      BY <2>4, <3>2
    <3> QED BY <1>1, <1>2, <2>2, <3>1, <3>3, LadderGoto
  <2>5. CASE Goto(c, Fetched(c, "write"))
    <3>1. Goto(c, [req[c] EXCEPT !.pc = "write", !.entry = Harvest, !.data = Current])
      BY <2>5 DEF Fetched
    <3> QED BY <1>1, <1>2, <2>2, <3>1, LadderGoto
  <2>6. CASE Refuse(c, 502)
    <3>1. 502 \in Statuses \ {200, 304}
      BY DEF Statuses
    <3> QED BY <2>6, <3>1, Refused
  <2>7. CASE /\ Cutoff = Unfiltered
             /\ Show(c, NoEntry, [NoBody EXCEPT !.fmt = "other", !.rev = Current,
                                                !.files = 1..Current])
    BY <1>1, <2>1, <2>7, PassedThrough
  <2> QED BY <1>3, <2>3, <2>4, <2>5, <2>6, <2>7 DEF Fetch
<1>4. CASE FetchUnknown(c)
  <2>1. Refuse(c, 404) /\ 404 \in Statuses \ {200, 304} /\ UNCHANGED <<envVars, cacheVars>>
    BY <1>4 DEF FetchUnknown, Statuses
  <2> QED BY <2>1, Refused, QuietStep
<1>5. CASE FetchFails(c)
  <2>1. /\ Fault /\ UNCHANGED <<now, hist, window, cacheVars>>
        /\ Goto(c, [req[c] EXCEPT !.pc = "readstale", !.entry = NoEntry])
    BY <1>5 DEF FetchFails
  <2>2. ClientsOk(req', copy', resp', hist, window, now)
    BY <1>1, <1>2, <2>1, CacheFacts, LadderGoto
  <2> QED BY <2>1, <2>2, QuietFault
<1> QED BY <1>3, <1>4, <1>5

LEMMA WriteIndexKeeps ==
  ASSUME SimpleInv, NEW c \in Clients, WriteIndex(c)
  PROVE  SimpleInv'
<1>1. req[c].pc \in LadderPcs /\ "store200" \in LadderPcs \ {"filtering"}
  BY DEF WriteIndex, At, LadderPcs
<1>2. /\ disk' = Written(c) /\ Goto(c, [req[c] EXCEPT !.pc = "store200"])
      /\ UNCHANGED <<now, hist, window, faults>> /\ UNCHANGED <<meta, memo, files>>
  BY DEF WriteIndex, envVars
<1>3. CachesOk(disk', meta', memo', files', hist, window, now)
  BY <1>2, StoredOk, CachedOk, WrittenOk
<1>4. ClientsOk(req', copy', resp', hist, window, now)
  BY <1>1, <1>2, LadderGoto
<1>5. faults' \in Nat
  BY <1>2, WorldFacts DEF SimpleInv
<1> QED BY <1>2, <1>3, <1>4, <1>5, StepKeeps

LEMMA StoreMetaKeeps ==
  ASSUME SimpleInv, NEW c \in Clients, StoreMeta200(c) \/ StoreMeta304(c)
  PROVE  SimpleInv'
<1>1. req[c].pc \in LadderPcs /\ {"filter", "read304"} \subseteq LadderPcs \ {"filtering"}
  BY DEF StoreMeta200, StoreMeta304, At, LadderPcs
<1>2. req[c].entry \in Entries /\ req[c].kind = "index" /\ req[c].fmt \in Formats
  BY <1>1, LadderFacts
<1>3. /\ meta' = req[c].entry
      /\ UNCHANGED <<now, hist, window, faults>> /\ UNCHANGED <<disk, memo, files>>
  BY DEF StoreMeta200, StoreMeta304, envVars
<1>4. CachesOk(disk', meta', memo', files', hist, window, now)
  BY <1>2, <1>3, StoredOk, CachedOk
<1>5. ClientsOk(req', copy', resp', hist, window, now)
  <2>1. CASE MayNotModify(c, req[c].entry) /\ NotModified(c)
    <3>1. req[c].ok
      BY <2>1 DEF MayNotModify
    <3> QED BY <1>2, <2>1, <3>1, NotModifiedOk
  <2>2. CASE MemoHas(c, req[c].entry) /\ ShowMemo(c, req[c].entry)
    BY <1>2, <2>2, MemoShown
  <2>3. CASE Goto(c, [req[c] EXCEPT !.pc = "filter"])
    BY <1>1, <2>3, LadderGoto
  <2>4. CASE Goto(c, [req[c] EXCEPT !.pc = "read304"])
    BY <1>1, <2>4, LadderGoto
  <2> QED BY <2>1, <2>2, <2>3, <2>4 DEF StoreMeta200, StoreMeta304
<1>6. faults' \in Nat
  BY <1>3, WorldFacts DEF SimpleInv
<1> QED BY <1>3, <1>4, <1>5, <1>6, StepKeeps

LEMMA LostFileKeeps ==
  ASSUME SimpleInv, NEW c \in Clients, LostFile(c)
  PROVE  SimpleInv'
<1>1. /\ meta' = NoEntry /\ Refuse(c, 503) /\ 503 \in Statuses \ {200, 304}
      /\ UNCHANGED <<now, hist, window, faults>> /\ UNCHANGED <<disk, memo, files>>
  BY DEF LostFile, envVars, Statuses
<1>2. CachesOk(disk', meta', memo', files', hist, window, now)
  BY <1>1, StoredOk, CachedOk, CacheFacts
<1>3. ClientsOk(req', copy', resp', hist, window, now)
  BY <1>1, Refused
<1>4. faults' \in Nat
  BY <1>1, WorldFacts DEF SimpleInv
<1> QED BY <1>1, <1>2, <1>3, <1>4, StepKeeps

(* The cutoff is captured here, ...                                        *)
LEMMA FilterKeeps ==
  ASSUME SimpleInv, NEW c \in Clients, Filter(c)
  PROVE  SimpleInv'
<1>1. req[c].pc \in LadderPcs /\ UNCHANGED <<envVars, cacheVars>>
  BY DEF Filter, At, LadderPcs
<1>2. req[c].entry \in Entries /\ req[c].kind = "index" /\ req[c].fmt \in Formats
  BY <1>1, LadderFacts
<1>3. CASE MemoHas(c, req[c].entry) /\ ShowMemo(c, req[c].entry)
  BY <1>1, <1>2, <1>3, MemoShown, QuietStep
<1>4. CASE Goto(c, [req[c] EXCEPT !.pc = "filtering", !.cut = Cutoff])
  <2> DEFINE r == [req[c] EXCEPT !.pc = "filtering", !.cut = Cutoff]
  <2>1. req[c] \in Requests /\ RequestOk(req[c], copy[c], hist, window, now)
    BY ClientFacts
  <2>2. CutOk(Cutoff, window, now) /\ Cutoff \in Cutoffs
    BY CutoffFacts DEF SimpleInv, CutOk
  <2>3. /\ r \in Requests /\ r.pc = "filtering" /\ r.cut = Cutoff /\ r.kind = req[c].kind
        /\ r.fmt = req[c].fmt /\ r.ok = req[c].ok /\ r.data = req[c].data
    BY <2>1, <2>2 DEF Requests, Pcs
  <2>4. Goto(c, r)
    BY <1>4
  <2> HIDE DEF r
  <2>5. RequestOk(r, copy[c], hist, window, now)
    BY <1>2, <2>1, <2>2, <2>3 DEF RequestOk, LadderPcs, LookPcs, PassedPcs
  <2> QED BY <1>1, <2>4, <2>5, Moved, QuietStep
<1> QED BY <1>3, <1>4 DEF Filter

(* ... and used, on the revision read before, when the task is done; what  *)
(* is memoized is kept for the format it was rendered in.                  *)
LEMMA FilterDoneKeeps ==
  ASSUME SimpleInv, NEW c \in Clients, FilterDone(c)
  PROVE  SimpleInv'
<1> DEFINE fmt  == req[c].fmt
           body == Produced(req[c].data, req[c].cut, fmt)
           kept == [val |-> Validator(req[c].entry), bkt |-> MemoBucket(req[c].cut),
                    body |-> body]
<1>1. /\ req[c].pc \in LadderPcs /\ req[c].pc = "filtering"
      /\ UNCHANGED <<now, hist, window, faults>> /\ UNCHANGED <<disk, meta, files>>
      /\ Show(c, req[c].entry, body)
      /\ memo' = IF kept.val = NoValidator THEN memo
                 ELSE [f \in Formats |-> IF f \in MemoKeys(fmt) THEN kept ELSE memo[f]]
  BY DEF FilterDone, At, LadderPcs, envVars
<1>2. /\ req[c].entry \in Entries /\ req[c].kind = "index" /\ fmt \in Formats
      /\ req[c].data \in Nat /\ req[c].data <= Len(hist) /\ req[c].cut \in Cutoffs
  BY <1>1, LadderFacts
<1>3. CutOk(req[c].cut, window, now)
  BY <1>1, ClientFacts DEF RequestOk
<1>4. BodyOk(body, hist, window, now) /\ body.fmt = fmt
  BY <1>2, <1>3, ProducedOk DEF SimpleInv
<1>5. faults' \in Nat
  BY <1>1, WorldFacts DEF SimpleInv
<1>6. Validator(req[c].entry) \in Nat \X Nat /\ MemoBucket(req[c].cut) \in Nat
  BY <1>2, BucketType DEF Validator, Entries
<1>7. ClientsOk(req', copy', resp', hist, window, now)
  <2> HIDE DEF body, kept
  <2> QED BY <1>1, <1>2, <1>4, Served
<1>8. kept \in Memos /\ kept.body = body
  <2>1. body \in Bodies
    BY <1>4 DEF BodyOk
  <2> HIDE DEF body, fmt
  <2> QED BY <1>6, <2>1 DEF Memos
<1> HIDE DEF kept, body
<1>9. MemoOk(memo, hist, window, now)
  BY DEF SimpleInv, CachesOk
<1>10. MemoOk(memo', hist, window, now)
  <2>1. CASE memo' = memo
    BY <1>9, <2>1
  <2>2. CASE memo' = [f \in Formats |-> IF f \in MemoKeys(fmt) THEN kept ELSE memo[f]]
    <3>1. memo' \in [Formats -> Memos]
      BY <1>8, <1>9, <2>2 DEF MemoOk
    <3>2. ASSUME NEW f \in Formats
          PROVE  /\ BodyOk(memo'[f].body, hist, window, now)
                 /\ memo'[f].val # NoValidator => memo'[f].body.fmt = f
      <4>1. CASE f = fmt
        <5>1. memo'[f] = kept
          BY <2>2, <4>1 DEF MemoKeys
        <5> QED BY <1>4, <1>8, <4>1, <5>1
      <4>2. CASE f # fmt
        <5>1. memo'[f] = memo[f]
          BY <2>2, <4>2 DEF MemoKeys
        <5> QED BY <1>9, <5>1 DEF MemoOk
      <4> QED BY <4>1, <4>2
    <3> QED BY <3>1, <3>2 DEF MemoOk
  <2> QED BY <1>1, <2>1, <2>2
<1>11. CachesOk(disk', meta', memo', files', hist, window, now)
  BY <1>1, <1>10 DEF SimpleInv, CachesOk
<1> QED BY <1>1, <1>5, <1>7, <1>11, StepKeeps

LEMMA FilterFailsKeeps ==
  ASSUME SimpleInv, NEW c \in Clients, NEW status \in {500, 502}, FilterFails(c, status)
  PROVE  SimpleInv'
<1>1. /\ Refuse(c, status) /\ status \in Statuses \ {200, 304}
      /\ Fault /\ UNCHANGED <<now, hist, window, cacheVars>>
  BY DEF FilterFails, Statuses
<1> QED BY <1>1, Refused, QuietFault
-----------------------------------------------------------------------------
(* The gate and the files.                                                 *)

LEMMA FilePathType ==
  ASSUME NEW path \in Paths
  PROVE  path \in Nat
<1>1. MaxRev \in Nat
  BY SimpleAssumption, LenProperties DEF MaxRev
<1> QED BY <1>1 DEF Paths

LEMMA BeginFileKeeps ==
  ASSUME SimpleInv, NEW c \in Clients, NEW path \in Paths, BeginFile(c, path)
  PROVE  SimpleInv'
<1> DEFINE pc  == IF Gated THEN "look" ELSE "cached"
           cut == IF Gated THEN Cutoff ELSE Unfiltered
           r   == [NoRequest EXCEPT !.pc = pc, !.kind = "file", !.path = path, !.cut = cut]
<1>1. NoRequest \in Requests /\ NoRequest.data = 0 /\ ~NoRequest.ok /\ NoRequest.found = 0
  BY NoRequestOk DEF SimpleInv, NoRequest
<1>2. CutOk(Cutoff, window, now) /\ (window = 0 <=> Cutoff = Unfiltered) /\ window \in Nat
  BY CutoffFacts, CacheFacts DEF SimpleInv
<1>3. pc \in Pcs /\ cut \in Cutoffs /\ path \in Nat
  BY <1>2, FilePathType DEF Pcs, Cutoffs, CutOk
<1>4. \/ pc = "look" /\ cut = Cutoff
      \/ pc = "cached" /\ cut = Unfiltered /\ ~(RestrictDownloads /\ window > 0)
  <2>1. CASE Gated
    BY <2>1
  <2>2. CASE ~Gated
    BY <1>2, <2>2 DEF Gated
  <2> QED BY <2>1, <2>2
<1>5. /\ req' = [req EXCEPT ![c] = r] /\ copy' = [copy EXCEPT ![c] = copy[c]]
      /\ resp' = [resp EXCEPT ![c] = NoAnswer]
  BY SameCopies DEF BeginFile
<1> HIDE DEF pc, cut
<1>6. /\ r \in Requests /\ r.data = 0 /\ r.pc = pc /\ r.kind = "file" /\ ~r.ok
      /\ r.cut = cut /\ r.path = path /\ r.found = 0
  BY <1>1, <1>3 DEF Requests, AskKinds
<1> HIDE DEF r
<1>7. RestrictDownloads => CutOk(r.cut, window, now)
  BY <1>2, <1>3, <1>4, <1>6 DEF CutOk
<1>8. FileAskOk(r, hist, window, now)
  BY <1>4, <1>6, <1>7 DEF FileAskOk, PassedPcs
<1>9. RequestOk(r, copy[c], hist, window, now)
  BY <1>4, <1>6, <1>8, CacheFacts DEF RequestOk, LadderPcs
<1>10. ClientOk(r, copy[c], NoAnswer, hist, window, now)
  BY <1>9, ClientFacts, NoAnswerOk DEF ClientOk
<1>11. UNCHANGED <<envVars, cacheVars>>
  BY DEF BeginFile
<1> QED BY <1>5, <1>10, <1>11, OneClient, QuietStep

FilePcs == LookPcs \cup PassedPcs

LEMMA FileFacts ==
  ASSUME SimpleInv, NEW c \in Clients, req[c].pc \in FilePcs
  PROVE  /\ req[c] \in Requests /\ FileAskOk(req[c], hist, window, now)
         /\ req[c].kind = "file" /\ req[c].path \in Paths /\ req[c].path \in Nat
         /\ req[c].found \in Nat /\ req[c].entry \in Entries
         /\ req[c].data \in Nat /\ req[c].data <= Len(hist)
<1>1. req[c] \in Requests /\ RequestOk(req[c], copy[c], hist, window, now)
  BY ClientFacts
<1>2. FileAskOk(req[c], hist, window, now) /\ req[c].data <= Len(hist)
  BY <1>1 DEF RequestOk, FilePcs
<1> QED BY <1>1, <1>2 DEF FileAskOk, Requests

(* A request for a file moved on as r, which still owes what it owed.      *)
LEMMA FileMoves ==
  ASSUME SimpleInv, NEW c \in Clients, req[c].pc \in FilePcs, NEW r \in Requests,
         r.pc \in FilePcs, r.fmt = req[c].fmt, r.ok = req[c].ok, r.data <= Len(hist),
         FileAskOk(r, hist, window, now), Goto(c, r)
  PROVE  ClientsOk(req', copy', resp', hist, window, now)
<1>1. RequestOk(req[c], copy[c], hist, window, now)
  BY ClientFacts
<1>2. r.pc \notin LadderPcs /\ r.pc # "filtering"
  BY DEF LadderPcs, FilePcs, LookPcs, PassedPcs
<1>3. RequestOk(r, copy[c], hist, window, now)
  BY <1>1, <1>2 DEF RequestOk
<1> QED BY <1>3, Moved

(* Of the entry found nothing is changed by moving the request to pc, with *)
(* entry e and data n.                                                     *)
LEMMA FileGoto ==
  ASSUME SimpleInv, NEW c \in Clients, req[c].pc \in FilePcs,
         NEW pc \in FilePcs \ {"storefile"}, pc \in PassedPcs => req[c].pc \in PassedPcs
  PROVE  /\ Goto(c, [req[c] EXCEPT !.pc = pc]) =>
              ClientsOk(req', copy', resp', hist, window, now)
         /\ \A e \in Entries, n \in Nat :
              n <= Len(hist) /\ Goto(c, [req[c] EXCEPT !.pc = pc, !.entry = e, !.data = n]) =>
                ClientsOk(req', copy', resp', hist, window, now)
<1>1. /\ req[c] \in Requests /\ FileAskOk(req[c], hist, window, now)
      /\ req[c].data <= Len(hist) /\ pc \in Pcs
  BY FileFacts DEF FilePcs, LookPcs, PassedPcs, Pcs
<1>2. ASSUME NEW r \in Requests, r.pc = pc, r.kind = req[c].kind, r.fmt = req[c].fmt,
             r.path = req[c].path, r.ok = req[c].ok, r.cut = req[c].cut,
             r.found = req[c].found, r.data <= Len(hist), Goto(c, r)
      PROVE  ClientsOk(req', copy', resp', hist, window, now)
  <2>1. FileAskOk(r, hist, window, now)
    BY <1>1, <1>2 DEF FileAskOk
  <2> QED BY <1>2, <2>1, FileMoves
<1>3. ASSUME Goto(c, [req[c] EXCEPT !.pc = pc])
      PROVE  ClientsOk(req', copy', resp', hist, window, now)
  <2> DEFINE r == [req[c] EXCEPT !.pc = pc]
  <2>1. /\ r \in Requests /\ r.pc = pc /\ r.kind = req[c].kind /\ r.fmt = req[c].fmt
        /\ r.path = req[c].path /\ r.ok = req[c].ok /\ r.cut = req[c].cut
        /\ r.found = req[c].found /\ r.data = req[c].data
    BY <1>1 DEF Requests
  <2>2. Goto(c, r)
    BY <1>3
  <2> HIDE DEF r
  <2> QED BY <1>1, <1>2, <2>1, <2>2
<1>4. ASSUME NEW e \in Entries, NEW n \in Nat, n <= Len(hist),
             Goto(c, [req[c] EXCEPT !.pc = pc, !.entry = e, !.data = n])
      PROVE  ClientsOk(req', copy', resp', hist, window, now)
  <2> DEFINE r == [req[c] EXCEPT !.pc = pc, !.entry = e, !.data = n]
  <2>1. /\ r \in Requests /\ r.pc = pc /\ r.kind = req[c].kind /\ r.fmt = req[c].fmt
        /\ r.path = req[c].path /\ r.ok = req[c].ok /\ r.cut = req[c].cut
        /\ r.found = req[c].found /\ r.data = n
    BY <1>1 DEF Requests
  <2>2. Goto(c, r)
    BY <1>4
  <2> HIDE DEF r
  <2> QED BY <1>2, <1>4, <2>1, <2>2
<1> QED BY <1>3, <1>4

(* An entry that the gate's cutoff lets through is a window old.           *)
LEMMA EntryCleared ==
  ASSUME SimpleInv, NEW cut, CutOk(cut, window, now), NEW entry \in 0..Len(hist),
         EntryOldEnough(entry, cut)
  PROVE  Cleared(entry, hist, window, now)
<1>1. entry # 0 /\ hist[entry].dated /\ hist[entry].at <= cut
  BY DEF EntryOldEnough
<1>2. Len(hist) \in Nat /\ window \in Nat /\ now \in Nat
  BY CacheFacts
<1>3. entry \in 1..Len(hist)
  BY <1>1, <1>2
<1>4. hist[entry].at \in Nat /\ hist[entry].at > 0
  BY <1>3, WorldFacts DEF SimpleInv
<1>5. ASSUME window > 0 PROVE hist[entry].at + window <= now
  <2>1. cut \in Nat /\ (cut = 0 \/ cut + window <= now)
    BY <1>5 DEF CutOk
  <2> QED BY <1>1, <1>2, <1>4, <2>1
<1> QED BY <1>1, <1>3, <1>5 DEF Cleared, Old

(* Past the lookup, with the first entry of the name asked for.            *)
LEMMA ResolvedOk ==
  ASSUME SimpleInv, NEW c \in Clients, req[c].pc \in LookPcs,
         NEW entry \in 0..Len(hist), entry \in Nat,
         entry # 0 => entry = FirstNamed(req[c].path),
         Resolved(c, entry)
  PROVE  ClientsOk(req', copy', resp', hist, window, now)
<1>1. req[c].pc \in FilePcs
  BY DEF FilePcs
<1>2. /\ req[c] \in Requests /\ FileAskOk(req[c], hist, window, now)
      /\ req[c].data <= Len(hist)
      /\ RestrictDownloads => CutOk(req[c].cut, window, now)
      /\ OnlyOne(req[c].path) => entry \in {0, req[c].path}
  BY <1>1, FileFacts, FirstNamedFacts DEF FileAskOk
<1>3. ASSUME NEW pc \in {"download", "cached"},
             RestrictDownloads /\ window > 0 =>
               Cleared(FirstNamed(req[c].path), hist, window, now),
             Goto(c, [req[c] EXCEPT !.pc = pc, !.found = entry])
      PROVE  ClientsOk(req', copy', resp', hist, window, now)
  <2> DEFINE r == [req[c] EXCEPT !.pc = pc, !.found = entry]
  <2>1. /\ r \in Requests /\ r.pc = pc /\ r.kind = req[c].kind /\ r.fmt = req[c].fmt
        /\ r.path = req[c].path /\ r.ok = req[c].ok /\ r.cut = req[c].cut
        /\ r.found = entry /\ r.data = req[c].data
    BY <1>2 DEF Requests, Pcs
  <2>2. Goto(c, r)
    BY <1>3
  <2>3. pc \in FilePcs /\ pc # "storefile"
    BY DEF FilePcs, PassedPcs
  <2> HIDE DEF r
  <2>4. FileAskOk(r, hist, window, now)
    BY <1>2, <1>3, <2>1, <2>3 DEF FileAskOk
  <2> QED BY <1>1, <1>2, <2>1, <2>2, <2>3, <2>4, FileMoves
<1>4. CASE req[c].cut = Unfiltered /\ Goto(c, [req[c] EXCEPT !.pc = "download", !.found = entry])
  <2>1. ~(RestrictDownloads /\ window > 0)
    BY <1>2, <1>4 DEF CutOk, Unfiltered
  <2> QED BY <1>3, <1>4, <2>1
<1>5. CASE /\ EntryOldEnough(entry, req[c].cut)
           /\ Goto(c, [req[c] EXCEPT !.pc = "cached", !.found = entry])
  <2>1. RestrictDownloads => Cleared(entry, hist, window, now)
    BY <1>2, <1>5, EntryCleared
  <2>2. entry = FirstNamed(req[c].path)
    BY <1>5 DEF EntryOldEnough
  <2> QED BY <1>3, <1>5, <2>1, <2>2
<1>6. CASE Refuse(c, 403)
  <2>1. 403 \in Statuses \ {200, 304}
    BY DEF Statuses
  <2> QED BY <1>6, <2>1, Refused
<1> QED BY <1>4, <1>5, <1>6 DEF Resolved

LEMMA NoneFound ==
  ASSUME SimpleInv, NEW c \in Clients, req[c].pc \in LookPcs, Resolved(c, 0)
  PROVE  ClientsOk(req', copy', resp', hist, window, now)
<1>1. 0 \in 0..Len(hist) /\ 0 \in Nat
  BY CacheFacts
<1> QED BY <1>1, ResolvedOk

LEMMA EntryFound ==
  ASSUME SimpleInv, NEW c \in Clients, req[c].pc \in LookPcs,
         NEW rev \in Nat, rev <= Len(hist), Resolved(c, Entry(rev, req[c].path))
  PROVE  ClientsOk(req', copy', resp', hist, window, now)
<1>1. req[c].path \in Paths
  BY FileFacts DEF FilePcs
<1>2. /\ Entry(rev, req[c].path) \in 0..Len(hist) /\ Entry(rev, req[c].path) \in Nat
      /\ Entry(rev, req[c].path) # 0 => Entry(rev, req[c].path) = FirstNamed(req[c].path)
  BY <1>1, EntryFacts DEF SimpleInv
<1> QED BY <1>2, ResolvedOk

LEMMA LookReadKeeps ==
  ASSUME SimpleInv, NEW c \in Clients, LookRead(c)
  PROVE  SimpleInv'
<1>1. /\ req[c].pc \in LookPcs /\ req[c].pc \in FilePcs
      /\ "lookfetch" \in FilePcs \ {"storefile"} /\ "lookfetch" \notin PassedPcs
      /\ UNCHANGED <<envVars, cacheVars>>
  BY DEF LookRead, At, LookPcs, FilePcs, PassedPcs
<1> SUFFICES ClientsOk(req', copy', resp', hist, window, now)
  BY <1>1, QuietStep
<1>2. CASE Resolved(c, Entry(disk.rev, req[c].path))
  BY <1>1, <1>2, CacheFacts, EntryFound
<1>3. CASE Goto(c, [req[c] EXCEPT !.pc = "lookfetch"])
  BY <1>1, <1>3, FileGoto
<1> QED BY <1>2, <1>3 DEF LookRead

LEMMA LookFetchKeeps ==
  ASSUME SimpleInv, NEW c \in Clients, LookFetch(c) \/ LookFetchFails(c)
  PROVE  SimpleInv'
<1>1. /\ req[c].pc \in LookPcs /\ req[c].pc \in FilePcs
      /\ "lookwrite" \in FilePcs \ {"storefile"} /\ "lookwrite" \notin PassedPcs
  BY DEF LookFetch, LookFetchFails, At, LookPcs, FilePcs, PassedPcs
<1>2. CASE LookFetch(c)
  <2> SUFFICES ClientsOk(req', copy', resp', hist, window, now)
    BY <1>2, QuietStep DEF LookFetch
  <2>1. CASE Resolved(c, 0)
    BY <1>1, <2>1, NoneFound
  <2>2. CASE hist # <<>> /\ Goto(c, Fetched(c, "lookwrite"))
    <3>1. Harvest \in Entries /\ Current \in Nat /\ Current <= Len(hist)
      BY <2>2, HarvestFacts
    <3>2. Goto(c, [req[c] EXCEPT !.pc = "lookwrite", !.entry = Harvest, !.data = Current])
      BY <2>2 DEF Fetched
    <3> QED BY <1>1, <3>1, <3>2, FileGoto
  <2> QED BY <1>2, <2>1, <2>2 DEF LookFetch
<1>3. CASE LookFetchFails(c)
  <2>1. Resolved(c, 0) /\ Fault /\ UNCHANGED <<now, hist, window, cacheVars>>
    BY <1>3 DEF LookFetchFails
  <2> QED BY <1>1, <2>1, NoneFound, QuietFault
<1> QED BY <1>2, <1>3

(* Past the write, done or failed, to the lookup's entry.                  *)
LEMMA LookWritten ==
  ASSUME SimpleInv, NEW c \in Clients, req[c].pc \in LookPcs,
         Goto(c, [req[c] EXCEPT !.pc = "lookstore"])
  PROVE  ClientsOk(req', copy', resp', hist, window, now)
<1>1. /\ req[c].pc \in FilePcs
      /\ "lookstore" \in FilePcs \ {"storefile"} /\ "lookstore" \notin PassedPcs
  BY DEF LookPcs, FilePcs, PassedPcs
<1> QED BY <1>1, FileGoto

LEMMA LookWriteKeeps ==
  ASSUME SimpleInv, NEW c \in Clients, LookWrite(c)
  PROVE  SimpleInv'
<1>1. /\ req[c].pc \in LookPcs /\ disk' = Written(c)
      /\ Goto(c, [req[c] EXCEPT !.pc = "lookstore"])
      /\ UNCHANGED <<now, hist, window, faults>> /\ UNCHANGED <<meta, memo, files>>
  BY DEF LookWrite, envVars, At, LookPcs
<1>2. CachesOk(disk', meta', memo', files', hist, window, now)
  BY <1>1, StoredOk, CachedOk, WrittenOk
<1>3. ClientsOk(req', copy', resp', hist, window, now)
  BY <1>1, LookWritten
<1>4. faults' \in Nat
  BY <1>1, WorldFacts DEF SimpleInv
<1> QED BY <1>1, <1>2, <1>3, <1>4, StepKeeps

LEMMA LookStoreKeeps ==
  ASSUME SimpleInv, NEW c \in Clients, LookStore(c)
  PROVE  SimpleInv'
<1>1. /\ req[c].pc \in LookPcs /\ req[c].pc \in FilePcs /\ meta' = req[c].entry
      /\ Resolved(c, Entry(req[c].data, req[c].path))
      /\ UNCHANGED <<now, hist, window, faults>> /\ UNCHANGED <<disk, memo, files>>
  BY DEF LookStore, envVars, At, LookPcs, FilePcs
<1>2. req[c].entry \in Entries /\ req[c].data \in Nat /\ req[c].data <= Len(hist)
  BY <1>1, FileFacts
<1>3. CachesOk(disk', meta', memo', files', hist, window, now)
  BY <1>1, <1>2, StoredOk, CachedOk
<1>4. ClientsOk(req', copy', resp', hist, window, now)
  BY <1>1, <1>2, EntryFound
<1>5. faults' \in Nat
  BY <1>1, WorldFacts DEF SimpleInv
<1> QED BY <1>1, <1>3, <1>4, <1>5, StepKeeps

LEMMA WriteFailsKeeps ==
  ASSUME SimpleInv, NEW c \in Clients, WriteFails(c)
  PROVE  SimpleInv'
<1>1. /\ req[c].pc \in {"write", "lookwrite"} /\ Fault
      /\ disk' \in {disk, [rev |-> req[c].data, mtime |-> now]}
      /\ UNCHANGED <<now, hist, window>> /\ UNCHANGED <<meta, memo, files>>
  BY DEF WriteFails
<1>2. disk' \in IndexFiles /\ disk'.rev <= Len(hist)
  BY <1>1, CachedOk, WrittenOk
<1>3. CachesOk(disk', meta', memo', files', hist, window, now)
  BY <1>1, <1>2, StoredOk, CachedOk
<1>4. ClientsOk(req', copy', resp', hist, window, now)
  <2>1. CASE req[c].pc = "write"
    <3>1. Goto(c, [req[c] EXCEPT !.pc = "store200"])
      BY <2>1 DEF WriteFails, At
    <3>2. req[c].pc \in LadderPcs /\ "store200" \in LadderPcs \ {"filtering"}
      BY <2>1 DEF LadderPcs
    <3> QED BY <3>1, <3>2, LadderGoto
  <2>2. CASE req[c].pc = "lookwrite"
    <3>1. Goto(c, [req[c] EXCEPT !.pc = "lookstore"])
      BY <2>2 DEF WriteFails, At
    <3>2. req[c].pc \in LookPcs
      BY <2>2 DEF LookPcs
    <3> QED BY <3>1, <3>2, LookWritten
  <2> QED BY <1>1, <2>1, <2>2
<1> QED BY <1>1, <1>3, <1>4, FaultType, StepKeeps

(* What is handed out passed the gate by its name, and is what the path is *)
(* for where that name is its own.                                         *)
LEMMA HandedOut ==
  ASSUME SimpleInv, NEW c \in Clients, req[c].pc \in PassedPcs,
         NEW bytes \in Nat, OnlyOne(req[c].path) => bytes = req[c].path,
         Answer(c, 200, bytes), UNCHANGED copy
  PROVE  ClientsOk(req', copy', resp', hist, window, now)
<1> DEFINE a == Told(c, 200, bytes)
<1>1. req[c].pc \in FilePcs
  BY DEF FilePcs
<1>2. /\ FileAskOk(req[c], hist, window, now) /\ req[c].kind = "file"
      /\ req[c].path \in Paths
  BY <1>1, FileFacts
<1>3. /\ a \in Answers /\ a.kind = "file" /\ a.path = req[c].path /\ a.bytes = bytes
  <2>1. 200 \in Statuses
    BY DEF Statuses
  <2> QED BY <1>2, <2>1, ToldFacts
<1>4. RestrictDownloads /\ window > 0 =>
        Cleared(FirstNamed(req[c].path), hist, window, now)
  BY <1>2 DEF FileAskOk
<1>5. Answer(c, 200, bytes) /\ copy' = [copy EXCEPT ![c] = copy[c]] /\ CopyOk(copy[c], hist, now)
  BY SameCopies, ClientFacts
<1> HIDE DEF a
<1>6. AnswerOk(a, copy[c], hist, window, now)
  BY <1>2, <1>3, <1>4 DEF AnswerOk
<1> QED BY <1>5, <1>6, Ended DEF a

LEMMA ReadFileKeeps ==
  ASSUME SimpleInv, NEW c \in Clients, ReadFile(c)
  PROVE  SimpleInv'
<1>1. /\ req[c].pc \in PassedPcs /\ req[c].pc \in FilePcs
      /\ {"look", "download"} \subseteq FilePcs \ {"storefile"}
      /\ UNCHANGED <<envVars, cacheVars>>
  BY DEF ReadFile, At, LookPcs, FilePcs, PassedPcs
<1> SUFFICES ClientsOk(req', copy', resp', hist, window, now)
  BY <1>1, QuietStep
<1>2. req[c].path \in Paths /\ FilesOk(files)
  BY <1>1, FileFacts, CacheFacts
<1>3. CASE /\ files[req[c].path] # 0
           /\ Answer(c, 200, files[req[c].path]) /\ UNCHANGED copy
  <2>1. /\ files[req[c].path] \in Nat
        /\ OnlyOne(req[c].path) => files[req[c].path] = req[c].path
    BY <1>2, <1>3 DEF FilesOk
  <2> QED BY <1>1, <1>3, <2>1, HandedOut
<1>4. CASE Goto(c, [req[c] EXCEPT !.pc = "look"])
  BY <1>1, <1>4, FileGoto
<1>5. CASE Goto(c, [req[c] EXCEPT !.pc = "download"])
  BY <1>1, <1>5, FileGoto
<1> QED BY <1>3, <1>4, <1>5 DEF ReadFile

(* Wherever the entry of a name that is its path's own sends the download, *)
(* it is to the file asked for.                                            *)
LEMMA DownloadKeeps ==
  ASSUME SimpleInv, NEW c \in Clients, Download(c)
  PROVE  SimpleInv'
<1>1. /\ req[c].pc = "download" /\ req[c].pc \in PassedPcs /\ req[c].pc \in FilePcs
      /\ "storefile" \in FilePcs
      /\ 404 \in Statuses \ {200, 304} /\ UNCHANGED <<envVars, cacheVars>>
  BY DEF Download, At, FilePcs, PassedPcs, Statuses
<1> SUFFICES ClientsOk(req', copy', resp', hist, window, now)
  BY <1>1, QuietStep
<1>2. CASE Refuse(c, 404)
  BY <1>1, <1>2, Refused
<1>3. CASE Goto(c, [req[c] EXCEPT !.pc = "storefile", !.found = Source(c)])
  <2> DEFINE r == [req[c] EXCEPT !.pc = "storefile", !.found = Source(c)]
  <2>1. /\ req[c] \in Requests /\ FileAskOk(req[c], hist, window, now)
        /\ req[c].data <= Len(hist) /\ req[c].path \in Nat /\ req[c].found \in Nat
    BY <1>1, FileFacts
  <2>2. Source(c) \in Nat
    BY <2>1 DEF Source
  <2>3. OnlyOne(req[c].path) => Source(c) = req[c].path
    BY <2>1 DEF Source, FileAskOk
  <2>4. /\ r \in Requests /\ r.pc = "storefile" /\ r.kind = req[c].kind
        /\ r.fmt = req[c].fmt /\ r.path = req[c].path /\ r.ok = req[c].ok
        /\ r.cut = req[c].cut /\ r.found = Source(c) /\ r.data = req[c].data
    BY <2>1, <2>2 DEF Requests, Pcs
  <2>5. Goto(c, r)
    BY <1>3
  <2> HIDE DEF r
  <2>6. RestrictDownloads /\ window > 0 => Cleared(FirstNamed(r.path), hist, window, now)
    BY <1>1, <2>1, <2>4 DEF FileAskOk
  <2>7. FileAskOk(r, hist, window, now)
    BY <2>1, <2>3, <2>4, <2>6 DEF FileAskOk
  <2> QED BY <1>1, <2>1, <2>4, <2>5, <2>7, FileMoves
<1> QED BY <1>2, <1>3 DEF Download

LEMMA DownloadFailsKeeps ==
  ASSUME SimpleInv, NEW c \in Clients, NEW status \in {502, 507}, DownloadFails(c, status)
  PROVE  SimpleInv'
<1>1. /\ Refuse(c, status) /\ status \in Statuses \ {200, 304}
      /\ Fault /\ UNCHANGED <<now, hist, window, cacheVars>>
  BY DEF DownloadFails, Statuses
<1> QED BY <1>1, Refused, QuietFault

(* A download under way is stored under the path that was asked for, and   *)
(* is of it where its name is its own.                                     *)
LEMMA StoredFileOk ==
  ASSUME SimpleInv, NEW c \in Clients, req[c].pc = "storefile"
  PROVE  /\ FilesOk(Stored(c)) /\ req[c].found \in Nat
         /\ OnlyOne(req[c].path) => req[c].found = req[c].path
<1>1. req[c].pc \in FilePcs
  BY DEF FilePcs, PassedPcs
<1>2. /\ req[c].path \in Paths /\ req[c].found \in Nat
      /\ OnlyOne(req[c].path) => req[c].found = req[c].path
  BY <1>1, FileFacts DEF FileAskOk
<1>3. FilesOk(files)
  BY CacheFacts
<1>4. Stored(c) \in [Paths -> Nat]
  BY <1>2, <1>3 DEF Stored, FilesOk
<1>5. ASSUME NEW p \in Paths, OnlyOne(p) PROVE Stored(c)[p] \in {0, p}
  BY <1>2, <1>3, <1>5 DEF Stored, FilesOk
<1> QED BY <1>2, <1>4, <1>5 DEF FilesOk

LEMMA StoreFileKeeps ==
  ASSUME SimpleInv, NEW c \in Clients, StoreFile(c) \/ StoreFileFails(c)
  PROVE  SimpleInv'
<1>1. /\ req[c].pc = "storefile" /\ req[c].pc \in PassedPcs
      /\ Answer(c, 200, req[c].found) /\ UNCHANGED copy
  BY DEF StoreFile, StoreFileFails, At, PassedPcs
<1>2. ClientsOk(req', copy', resp', hist, window, now)
  BY <1>1, StoredFileOk, HandedOut
<1>3. CASE StoreFile(c)
  <2>1. /\ files' = Stored(c)
        /\ UNCHANGED <<now, hist, window, faults>> /\ UNCHANGED <<disk, meta, memo>>
    BY <1>3 DEF StoreFile, envVars
  <2>2. CachesOk(disk', meta', memo', files', hist, window, now)
    BY <1>1, <2>1, StoredOk, CachedOk, StoredFileOk
  <2>3. faults' \in Nat
    BY <2>1, WorldFacts DEF SimpleInv
  <2> QED BY <1>2, <2>1, <2>2, <2>3, StepKeeps
<1>4. CASE StoreFileFails(c)
  BY <1>2, <1>4, QuietFault DEF StoreFileFails
<1> QED BY <1>3, <1>4
-----------------------------------------------------------------------------
(* The world around the handlers.                                          *)

LEMMA WorldMoves ==
  ASSUME SimpleInv, WorldOk(hist', faults', window, now'), Later(hist, now, hist', now'),
         UNCHANGED <<window, cacheVars, req, copy, resp>>
  PROVE  SimpleInv'
<1>1. /\ UNCHANGED window /\ UNCHANGED <<disk, meta, memo, files>>
      /\ UNCHANGED <<req, copy, resp>>
  BY DEF cacheVars
<1>2. /\ Len(hist') \in Nat /\ Len(hist) \in Nat /\ Len(hist) <= Len(hist')
      /\ window \in Nat
  BY WorldFacts, CacheFacts DEF Later
<1>3. WorldOk(hist, faults, window, now)
  BY DEF SimpleInv
<1>4. CachesOk(disk, meta, memo, files, hist', window, now')
  <2>1. /\ disk \in IndexFiles /\ disk.rev \in Nat /\ disk.rev <= Len(hist)
        /\ meta \in Entries /\ MemoOk(memo, hist, window, now) /\ FilesOk(files)
    BY CacheFacts DEF CachesOk
  <2>2. disk.rev <= Len(hist')
    BY <1>2, <2>1
  <2>3. ASSUME NEW fmt \in Formats
        PROVE  BodyOk(memo[fmt].body, hist', window, now')
    <3>1. BodyOk(memo[fmt].body, hist, window, now)
      BY <2>1 DEF MemoOk
    <3> QED BY <1>2, <1>3, <3>1, LaterBody
  <2>4. MemoOk(memo, hist', window, now')
    BY <2>1, <2>3 DEF MemoOk
  <2> QED BY <2>1, <2>2, <2>4 DEF CachesOk
<1>5. ClientsOk(req, copy, resp, hist', window, now')
  <2>1. ClientsOk(req, copy, resp, hist, window, now)
    BY DEF SimpleInv
  <2>2. ASSUME NEW c \in Clients
        PROVE  ClientOk(req[c], copy[c], resp[c], hist', window, now')
    <3>1. ClientOk(req[c], copy[c], resp[c], hist, window, now)
      BY <2>1 DEF ClientsOk
    <3> QED BY <1>2, <1>3, <3>1, LaterClient
  <2> QED BY <2>1, <2>2 DEF ClientsOk
<1> QED BY <1>1, <1>4, <1>5 DEF SimpleInv

LEMMA TickKeeps ==
  ASSUME SimpleInv, Tick
  PROVE  SimpleInv'
<1>1. /\ now' = now + 1 /\ hist' = hist /\ faults' = faults
      /\ UNCHANGED <<window, cacheVars, req, copy, resp>>
  BY DEF Tick
<1>2. /\ now \in Nat /\ now > 0 /\ Len(hist) \in Nat /\ hist \in Seq(Items)
      /\ Len(hist) <= MaxRev /\ faults \in Nat /\ window \in Windows
      /\ \A i \in 1..Len(hist) : hist[i].at \in 1..now /\ hist[i].ver # Unbacked
  BY WorldFacts DEF SimpleInv, WorldOk
<1>3. /\ now' \in Nat \ {0} /\ now <= now'
      /\ \A i \in 1..Len(hist) : hist[i].at \in 1..now' /\ hist[i].ver # Unbacked
  BY <1>1, <1>2
<1>4. WorldOk(hist', faults', window, now')
  BY <1>1, <1>2, <1>3 DEF WorldOk
<1>5. Later(hist, now, hist', now')
  BY <1>1, <1>2, <1>3 DEF Later
<1> QED BY <1>1, <1>4, <1>5, WorldMoves

LEMMA UploadKeeps ==
  ASSUME SimpleInv, NEW u \in Uploads, Upload(u)
  PROVE  SimpleInv'
<1> DEFINE v == [at |-> now, dated |-> u.dated, allowed |-> u.allowed,
                 ver |-> u.ver, dialect |-> u.dialect]
<1>1. /\ hist' = Append(hist, v) /\ now' = now /\ faults' = faults /\ Len(hist) < MaxRev
      /\ UNCHANGED <<window, cacheVars, req, copy, resp>>
  BY DEF Upload
<1>2. /\ now \in Nat /\ now > 0 /\ Len(hist) \in Nat /\ hist \in Seq(Items)
      /\ MaxRev \in Nat /\ faults \in Nat /\ window \in Windows
      /\ \A i \in 1..Len(hist) : hist[i].at \in 1..now /\ hist[i].ver # Unbacked
  BY WorldFacts DEF SimpleInv, WorldOk
<1>3. u \in [dated : BOOLEAN, allowed : BOOLEAN, ver : Nat \ {0}, dialect : Dialects]
  BY SimpleAssumption
<1>4. v \in Items /\ v.at = now /\ v.ver # Unbacked
  BY <1>2, <1>3 DEF Items, Unbacked
<1> HIDE DEF v
<1>5. /\ hist' \in Seq(Items) /\ Len(hist') = Len(hist) + 1
      /\ \A i \in 1..Len(hist) : hist'[i] = hist[i]
      /\ hist'[Len(hist) + 1] = v
  BY <1>1, <1>2, <1>4, AppendProperties
<1>6. ASSUME NEW i \in 1..Len(hist')
      PROVE  hist'[i].at \in 1..now /\ hist'[i].ver # Unbacked
  <2>1. i \in 1..Len(hist) \/ i = Len(hist) + 1
    BY <1>2, <1>5
  <2>2. now \in 1..now
    BY <1>2
  <2> QED BY <1>2, <1>4, <1>5, <2>1, <2>2
<1>7. Len(hist') <= MaxRev /\ Len(hist) <= Len(hist') /\ now \in Nat \ {0} /\ now <= now
  BY <1>1, <1>2, <1>5
<1>8. WorldOk(hist', faults', window, now')
  BY <1>1, <1>2, <1>5, <1>6, <1>7 DEF WorldOk
<1>9. Later(hist, now, hist', now')
  BY <1>1, <1>5, <1>7 DEF Later
<1> QED BY <1>1, <1>8, <1>9, WorldMoves

(* The index of nothing, and the memo a process starts with.               *)
LEMMA NoMemoOk ==
  ASSUME WorldOk(hist, faults, window, now), NEW win
  PROVE  /\ BodyOk(NoBody, hist, win, now)
         /\ MemoOk([fmt \in Formats |-> NoMemo], hist, win, now)
<1>1. NoBody \in Bodies /\ NoBody.versions = {} /\ NoBody.files = {} /\ NoBody.rev = 0
  BY DEF NoBody, Bodies, Dialects
<1>2. 0 <= Len(hist)
  BY WorldFacts
<1>3. BodyOk(NoBody, hist, win, now)
  BY <1>1, <1>2 DEF BodyOk, Filtered, Lively
<1>4. NoMemo \in Memos /\ NoMemo.body = NoBody /\ NoMemo.val = NoValidator
  BY <1>1 DEF NoMemo, Memos, NoValidator
<1> QED BY <1>3, <1>4 DEF MemoOk

(* A new process owes nothing to the old one's requests; the copies were   *)
(* filtered as their markers say, whatever the new window is.              *)
LEMMA RestartKeeps ==
  ASSUME SimpleInv, NEW w \in Windows, Restart(w)
  PROVE  SimpleInv'
<1>1. /\ window' = w /\ meta' = NoEntry /\ memo' = [fmt \in Formats |-> NoMemo]
      /\ req' = [c \in Clients |-> NoRequest] /\ resp' = [c \in Clients |-> NoAnswer]
      /\ UNCHANGED <<now, hist>> /\ UNCHANGED <<disk, files, copy>> /\ Fault
  BY DEF Restart
<1>2. faults' \in Nat
  BY <1>1, FaultType
<1>3. WorldOk(hist, faults, window, now) /\ WorldOk(hist, faults', w, now)
  BY <1>2 DEF SimpleInv, WorldOk
<1>4. CachesOk(disk, NoEntry, memo', files, hist, w, now)
  <2>1. MemoOk(memo', hist, w, now)
    BY <1>1, <1>3, NoMemoOk
  <2> QED BY <2>1, CacheFacts DEF CachesOk
<1>5. ClientsOk(req', copy, resp', hist, w, now)
  <2>1. /\ NoRequest \in Requests
        /\ \A c \in Clients : RequestOk(NoRequest, copy[c], hist, w, now)
    BY <1>3, NoRequestOk
  <2>2. NoAnswer \in Answers /\ \A c \in Clients : AnswerOk(NoAnswer, copy[c], hist, w, now)
    BY NoAnswerOk
  <2>3. copy \in [Clients -> Copies] /\ \A c \in Clients : CopyOk(copy[c], hist, now)
    BY ClientFacts DEF SimpleInv, ClientsOk
  <2>4. req' \in [Clients -> Requests] /\ resp' \in [Clients -> Answers]
    BY <1>1, <2>1, <2>2
  <2>5. \A c \in Clients : req'[c] = NoRequest /\ resp'[c] = NoAnswer
    BY <1>1
  <2> QED BY <2>1, <2>2, <2>3, <2>4, <2>5 DEF ClientsOk, ClientOk
<1> QED BY <1>1, <1>3, <1>4, <1>5 DEF SimpleInv

LEMMA DisconnectKeeps ==
  ASSUME SimpleInv, NEW c \in Clients, Disconnect(c)
  PROVE  SimpleInv'
<1>1. /\ Goto(c, NoRequest) /\ Fault
      /\ disk' \in {Written(c), disk}
      /\ files' = IF At(c, "storefile") THEN Stored(c) ELSE files
      /\ UNCHANGED <<now, hist, window>> /\ UNCHANGED <<meta, memo>>
  BY DEF Disconnect
<1>2. disk' \in IndexFiles /\ disk'.rev <= Len(hist)
  BY <1>1, CachedOk, WrittenOk
<1>3. FilesOk(files')
  BY <1>1, CachedOk, StoredFileOk DEF At
<1>4. CachesOk(disk', meta', memo', files', hist, window, now)
  BY <1>1, <1>2, <1>3, StoredOk, CachedOk
<1>5. RequestOk(NoRequest, copy[c], hist, window, now)
  BY NoRequestOk DEF SimpleInv
<1>6. ClientsOk(req', copy', resp', hist, window, now)
  BY <1>1, <1>5, Moved
<1> QED BY <1>1, <1>4, <1>6, FaultType, StepKeeps

LEMMA NoFilesOk == FilesOk([p \in Paths |-> 0])
BY DEF FilesOk

LEMMA OperatorKeeps ==
  ASSUME SimpleInv, WipeCache \/ \E vers : Purge(vers)
  PROVE  SimpleInv'
<1>1. /\ disk' \in {disk, NoFile} /\ Fault
      /\ UNCHANGED <<now, hist, window>> /\ UNCHANGED <<meta, memo>>
      /\ UNCHANGED <<req, copy, resp>>
  BY DEF WipeCache, Purge
<1>2. FilesOk(files')
  <2>1. CASE WipeCache
    BY <2>1, NoFilesOk DEF WipeCache
  <2>2. ASSUME NEW vers, Purge(vers) PROVE FilesOk(files')
    <3> DEFINE gone == {p \in Paths : Entry(Current, p) # 0
                                         /\ hist[Entry(Current, p)].ver \in vers}
    <3>1. files' = [p \in Paths |-> IF p \in gone THEN 0 ELSE files[p]]
      BY <2>2 DEF Purge
    <3> HIDE DEF gone
    <3>2. FilesOk(files)
      BY CacheFacts
    <3>3. files' \in [Paths -> Nat]
      BY <3>1, <3>2 DEF FilesOk
    <3>4. \A p \in Paths : files'[p] \in {0, files[p]}
      BY <3>1
    <3> QED BY <3>2, <3>3, <3>4 DEF FilesOk
  <2> QED BY <2>1, <2>2
<1>3. disk' \in IndexFiles /\ disk'.rev <= Len(hist)
  BY <1>1, CachedOk
<1>4. CachesOk(disk', meta', memo', files', hist, window, now)
  BY <1>1, <1>2, <1>3, StoredOk, CachedOk
<1>5. ClientsOk(req', copy', resp', hist, window, now)
  BY <1>1 DEF SimpleInv
<1> QED BY <1>1, <1>4, <1>5, FaultType, StepKeeps
-----------------------------------------------------------------------------
LEMMA SimpleInit == Init => SimpleInv
<1> SUFFICES ASSUME Init PROVE SimpleInv
  OBVIOUS
<1>1. /\ now = 1 /\ hist = <<>> /\ faults = 0 /\ window \in Windows
      /\ disk = NoFile /\ meta = NoEntry /\ memo = [fmt \in Formats |-> NoMemo]
      /\ files = [p \in Paths |-> 0]
      /\ req = [c \in Clients |-> NoRequest]
      /\ copy = [c \in Clients |-> NoCopy]
      /\ resp = [c \in Clients |-> NoAnswer]
  BY DEF Init
<1>2. hist \in Seq(Items) /\ Len(hist) = 0 /\ MaxRev \in Nat
  BY <1>1, EmptySeq, SimpleAssumption, LenProperties DEF MaxRev
<1>3. WorldOk(hist, faults, window, now)
  BY <1>1, <1>2 DEF WorldOk
<1>4. NoFile \in IndexFiles /\ NoFile.rev = 0 /\ NoEntry \in Entries
  BY DEF NoFile, IndexFiles, NoEntry, Entries
<1>5. CachesOk(disk, meta, memo, files, hist, window, now)
  BY <1>1, <1>2, <1>3, <1>4, NoMemoOk, NoFilesOk DEF CachesOk
<1>6. NoBody \in Bodies
  BY DEF NoBody, Bodies, Dialects
<1>7. NoCopy \in Copies /\ NoCopy.body = NoBody
  BY <1>6 DEF NoCopy, Copies, NoMarker, Markers
<1>8. CopyOk(NoCopy, hist, now)
  BY <1>3, <1>7, NoMemoOk DEF CopyOk
<1>9. NoRequest \in Requests /\ RequestOk(NoRequest, NoCopy, hist, window, now)
  BY <1>3, NoRequestOk
<1>10. NoAnswer \in Answers /\ AnswerOk(NoAnswer, NoCopy, hist, window, now)
  BY NoAnswerOk
<1>11. /\ req \in [Clients -> Requests] /\ copy \in [Clients -> Copies]
       /\ resp \in [Clients -> Answers]
       /\ \A c \in Clients : req[c] = NoRequest /\ copy[c] = NoCopy /\ resp[c] = NoAnswer
  BY <1>1, <1>7, <1>9, <1>10
<1>12. ClientsOk(req, copy, resp, hist, window, now)
  BY <1>8, <1>9, <1>10, <1>11 DEF ClientsOk, ClientOk
<1> QED BY <1>3, <1>5, <1>12 DEF SimpleInv

LEMMA StutterKeeps ==
  ASSUME SimpleInv, UNCHANGED vars
  PROVE  SimpleInv'
<1>1. UNCHANGED <<envVars, cacheVars>> /\ UNCHANGED <<req, copy, resp>>
  BY DEF vars
<1>2. ClientsOk(req', copy', resp', hist, window, now)
  BY <1>1 DEF SimpleInv
<1> QED BY <1>1, <1>2, QuietStep

LEMMA SimpleNext == SimpleInv /\ [Next]_vars => SimpleInv'
<1> SUFFICES ASSUME SimpleInv, [Next]_vars PROVE SimpleInv'
  OBVIOUS
<1>1. ASSUME NEW c \in Resolvers, NEW fmt \in Formats, BeginProject(c, fmt)
      PROVE  SimpleInv'
  BY <1>1, BeginProjectKeeps DEF Clients
<1>2. ASSUME NEW c \in Getters, NEW path \in Paths, BeginFile(c, path)
      PROVE  SimpleInv'
  BY <1>2, BeginFileKeeps DEF Clients
<1>3. ASSUME NEW c \in Clients, Step(c) PROVE SimpleInv'
  <2>1. CASE Lookup(c)
    BY <2>1, LookupKeeps
  <2>2. CASE ReadFresh(c) \/ FindMtime(c) \/ ReadAfter304(c) \/ ReadStale(c) \/ FindStale(c)
    BY <2>2, ReadKeeps
  <2>3. CASE Fetch(c) \/ FetchUnknown(c)
    BY <2>3, FetchKeeps
  <2>4. CASE WriteIndex(c)
    BY <2>4, WriteIndexKeeps
  <2>5. CASE StoreMeta200(c) \/ StoreMeta304(c)
    BY <2>5, StoreMetaKeeps
  <2>6. CASE LostFile(c)
    BY <2>6, LostFileKeeps
  <2>7. CASE Filter(c)
    BY <2>7, FilterKeeps
  <2>8. CASE FilterDone(c)
    BY <2>8, FilterDoneKeeps
  <2>9. CASE LookRead(c)
    BY <2>9, LookReadKeeps
  <2>10. CASE LookFetch(c)
    BY <2>10, LookFetchKeeps
  <2>11. CASE LookWrite(c)
    BY <2>11, LookWriteKeeps
  <2>12. CASE LookStore(c)
    BY <2>12, LookStoreKeeps
  <2>13. CASE ReadFile(c)
    BY <2>13, ReadFileKeeps
  <2>14. CASE Download(c)
    BY <2>14, DownloadKeeps
  <2>15. CASE StoreFile(c)
    BY <2>15, StoreFileKeeps
  <2> QED BY <1>3, <2>1, <2>2, <2>3, <2>4, <2>5, <2>6, <2>7, <2>8, <2>9, <2>10, <2>11,
             <2>12, <2>13, <2>14, <2>15 DEF Step
<1>4. ASSUME NEW c \in Clients, StepFails(c) PROVE SimpleInv'
  <2>1. CASE FetchFails(c)
    BY <2>1, FetchKeeps
  <2>2. CASE WriteFails(c)
    BY <2>2, WriteFailsKeeps
  <2>3. CASE LookFetchFails(c)
    BY <2>3, LookFetchKeeps
  <2>4. CASE StoreFileFails(c)
    BY <2>4, StoreFileKeeps
  <2>5. CASE Disconnect(c)
    BY <2>5, DisconnectKeeps
  <2>6. CASE \E status \in {500, 502} : FilterFails(c, status)
    BY <2>6, FilterFailsKeeps
  <2>7. CASE \E status \in {502, 507} : DownloadFails(c, status)
    BY <2>7, DownloadFailsKeeps
  <2> QED BY <1>4, <2>1, <2>2, <2>3, <2>4, <2>5, <2>6, <2>7 DEF StepFails
<1>5. ASSUME Environment PROVE SimpleInv'
  <2>1. CASE Tick
    BY <2>1, TickKeeps
  <2>2. CASE \E u \in Uploads : Upload(u)
    BY <2>2, UploadKeeps
  <2>3. CASE \E w \in Windows : Restart(w)
    BY <2>3, RestartKeeps
  <2>4. CASE WipeCache \/ \E vers : Purge(vers)
    BY <2>4, OperatorKeeps
  <2> QED BY <1>5, <2>1, <2>2, <2>3, <2>4 DEF Environment
<1> QED BY <1>1, <1>2, <1>3, <1>4, <1>5, StutterKeeps DEF Next

(* SimpleInv holds from the start and no step breaks it.                   *)
THEOREM SimpleInvariant == Spec => []SimpleInv
BY SimpleInit, SimpleNext, PTL DEF Spec

(* Types, whatever upstream uploads, in whichever dialect it speaks, and   *)
(* however long the process runs.                                          *)
THEOREM SimpleTypeCorrect == Spec => []TypeOK
<1>1. ASSUME SimpleInv PROVE TypeOK
  <2>1. /\ now \in Nat \ {0} /\ faults \in Nat /\ window \in Windows
        /\ hist \in Seq(Items)
    BY <1>1 DEF SimpleInv, WorldOk
  <2>2. /\ disk \in IndexFiles /\ meta \in Entries
        /\ memo \in [Formats -> Memos] /\ files \in [Paths -> Nat]
    BY <1>1 DEF SimpleInv, CachesOk, MemoOk, FilesOk
  <2>3. /\ req \in [Clients -> Requests] /\ copy \in [Clients -> Copies]
        /\ resp \in [Clients -> Answers]
    BY <1>1 DEF SimpleInv, ClientsOk
  <2> QED BY <2>1, <2>2, <2>3, Zenon
      DEF TypeOK, Items, IndexFiles, Memos, Requests, Copies, Answers, Cutoffs
<1> QED BY <1>1, SimpleInvariant, PTL

(* serve_project: neither the memo of a format nor a 304 nor a filter task *)
(* that took its time leaves a client of this process with a file younger  *)
(* than the window, nor with a version all whose files were hidden.        *)
THEOREM CooldownHoldsAlways == Spec => []CooldownHolds
<1>1. ASSUME SimpleInv, NEW c \in Clients, Answered(c, "index", {200, 304})
      PROVE  /\ \A f \in copy[c].body.files : Aged(f, window)
             /\ window > 0 =>
                  \A v \in copy[c].body.versions :
                    v \in VersionsOf(copy[c].body.files) \/ v \notin VersionsOf(1..copy[c].body.rev)
  <2>1. Filtered(copy[c].body, hist, window, now)
    BY <1>1, ClientFacts DEF AnswerOk, Answered
  <2>2. \A f \in copy[c].body.files : Aged(f, window)
    BY <2>1 DEF Filtered, Old, Aged
  <2>3. ASSUME window > 0, NEW v \in copy[c].body.versions
        PROVE  v \in VersionsOf(copy[c].body.files) \/ v \notin VersionsOf(1..copy[c].body.rev)
    <3>1. Backed(v, copy[c].body, hist)
      BY <2>1, <2>3 DEF Filtered
    <3> QED BY <3>1 DEF Backed, VersionsOf
  <2> QED BY <2>2, <2>3
<1>2. SimpleInv => CooldownHolds
  BY <1>1 DEF CooldownHolds
<1> QED BY <1>2, SimpleInvariant, PTL

(* filter_simple_json: through any window and any number of restarts, a    *)
(* JSON index lists every version that a shown file belongs to, where      *)
(* upstream lists versions or the process that answered has a cooldown.    *)
THEOREM KeepsLiveVersionsAlways == Spec => []KeepsLiveVersions
<1>1. ASSUME SimpleInv, NEW c \in Clients, copy[c].body.fmt = "json",
             Listed(copy[c].body.rev) # {}
      PROVE  {Unbacked} \cup VersionsOf(copy[c].body.files) \subseteq copy[c].body.versions
  <2>1. Lively(copy[c].body, hist)
    BY <1>1, ClientFacts DEF CopyOk, BodyOk
  <2>2. copy[c].body.rev # 0 /\ hist[copy[c].body.rev].dialect = "json"
    BY <1>1 DEF Listed, Dialect
  <2> QED BY <1>1, <2>1, <2>2 DEF Lively, VersionsOf
<1>2. ASSUME SimpleInv, NEW c \in Clients, copy[c].body.fmt = "json", window > 0,
             Answered(c, "index", {200, 304})
      PROVE  VersionsOf(copy[c].body.files) \subseteq copy[c].body.versions
  <2>1. Filtered(copy[c].body, hist, window, now)
    BY <1>2, ClientFacts DEF AnswerOk, Answered
  <2> QED BY <1>2, <2>1 DEF Filtered, VersionsOf
<1>3. SimpleInv => KeepsLiveVersions
  BY <1>1, <1>2 DEF KeepsLiveVersions
<1> QED BY <1>3, SimpleInvariant, PTL

(* project_response: a client is answered in the representation it asked   *)
(* for, and a 304 never confirms a copy of the other one.                  *)
THEOREM RepresentationFitsAlways == Spec => []RepresentationFits
<1>1. ASSUME SimpleInv, NEW c \in Clients, Answered(c, "index", {200, 304})
      PROVE  copy[c].body.fmt \in {resp[c].fmt, "other"}
  BY <1>1, ClientFacts DEF AnswerOk, Answered
<1>2. SimpleInv => RepresentationFits
  BY <1>1 DEF RepresentationFits
<1> QED BY <1>2, SimpleInvariant, PTL

(* handle_file: past the gate, which was decided on an entry found by name *)
(* and one read of the index, the first file of that name still is a       *)
(* window old when bytes are handed out, which are found by path, from the *)
(* cache or from where the entry says; a name that only one file has makes *)
(* the bytes be of that file.                                              *)
THEOREM GateHoldsAlways == Spec => []GateHolds
<1>1. ASSUME SimpleInv, NEW c \in Clients, Answered(c, "file", {200}), RestrictDownloads,
             window > 0
      PROVE  /\ FirstNamed(resp[c].path) <= Current /\ Aged(FirstNamed(resp[c].path), window)
             /\ OnlyOne(resp[c].path) => Aged(resp[c].bytes, window)
  <2>1. /\ resp[c].path \in Paths /\ Cleared(FirstNamed(resp[c].path), hist, window, now)
        /\ OnlyOne(resp[c].path) => resp[c].bytes = resp[c].path
    BY <1>1, ClientFacts DEF AnswerOk, Answered
  <2>2. FirstNamed(resp[c].path) <= Current /\ Aged(FirstNamed(resp[c].path), window)
    BY <2>1 DEF Cleared, Old, Aged, Current
  <2>3. OnlyOne(resp[c].path) => FirstNamed(resp[c].path) = resp[c].path
    BY <2>1, FirstNamedFacts
  <2> QED BY <2>1, <2>2, <2>3
<1>2. SimpleInv => GateHolds
  BY <1>1 DEF GateHolds
<1> QED BY <1>2, SimpleInvariant, PTL
=============================================================================
