--------------------------- MODULE Mounts_proofs ---------------------------
(***************************************************************************)
(* Proofs about Mounts, for every set of command lines and environments,   *)
(* any names, tokens, settings and defaults.                               *)
(***************************************************************************)
EXTENDS Mounts, SequenceTheorems, WellFoundedInduction, TLAPS

-----------------------------------------------------------------------------
(* Paths.                                                                  *)

(* Where ParsePath cuts: after the last segment that is not empty.         *)
CutsAt(raw, n) ==
  (n = 0 \/ raw[n] # Blank) /\ \A i \in (n + 1)..Len(raw) : raw[i] = Blank

LEMMA CutExists ==
  ASSUME NEW raw, Len(raw) \in Nat
  PROVE  \E n \in 0..Len(raw) : CutsAt(raw, n)
<1> DEFINE S == {n \in 0..Len(raw) : \A i \in (n + 1)..Len(raw) : raw[i] = Blank}
<1>1. Len(raw) \in S
  OBVIOUS
<1>2. S \subseteq Nat
  OBVIOUS
<1>3. PICK n \in S : \A m \in S : ~(<<m, n>> \in OpToRel(<, Nat))
  BY <1>1, <1>2, NatLessThanWellFounded, WFMin
<1>4. \A m \in S : ~(m < n)
  BY <1>2, <1>3 DEF OpToRel
<1>5. ASSUME n # 0, raw[n] = Blank PROVE FALSE
  <2>1. n \in 0..Len(raw) /\ n - 1 \in 0..Len(raw)
    BY <1>5
  <2>2. \A i \in n..Len(raw) : raw[i] = Blank
    BY <1>5, <2>1
  <2>3. n - 1 \in S
    BY <2>1, <2>2
  <2>4. n - 1 < n
    BY <2>1
  <2> HIDE DEF S
  <2> QED BY <1>4, <2>3, <2>4
<1> QED BY <1>3, <1>5 DEF CutsAt

LEMMA ParsePathFacts ==
  ASSUME NEW raw \in Seq(STRING)
  PROVE  LET n == Len(ParsePath(raw)) IN
         /\ ParsePath(raw) \in Seq(STRING) /\ n \in 0..Len(raw) /\ CutsAt(raw, n)
         /\ \A i \in 1..n : ParsePath(raw)[i] = raw[i]
<1>1. Len(raw) \in Nat
  BY LenProperties
<1> DEFINE n == CHOOSE n \in 0..Len(raw) : CutsAt(raw, n)
<1>2. n \in 0..Len(raw) /\ CutsAt(raw, n)
  BY <1>1, CutExists
<1>3. ParsePath(raw) = SubSeq(raw, 1, n)
  BY DEF ParsePath, CutsAt
<1> HIDE DEF n
<1>4. /\ SubSeq(raw, 1, n) \in Seq(STRING) /\ Len(SubSeq(raw, 1, n)) = n
      /\ \A i \in 1..n : SubSeq(raw, 1, n)[i] = raw[i]
  <2>1. \A i \in 1..n : i \in 1..Len(raw)
    BY <1>1, <1>2
  <2>2. \A i \in 1..n : raw[i] \in STRING
    BY <2>1, ElementOfSeq
  <2>3. n \in Nat /\ (n < 1 \/ n >= 1)
    BY <1>1, <1>2
  <2>4. Len(SubSeq(raw, 1, n)) = n
    BY <1>1, <1>2, <2>3, SubSeqProperties
  <2> QED BY <1>1, <1>2, <2>1, <2>2, <2>3, <2>4, SubSeqProperties
<1> QED BY <1>2, <1>3, <1>4

(* A path that does not end in an empty segment is parsed as it is.        *)
LEMMA ParsedIsPlain ==
  ASSUME NEW path \in Seq(STRING), path = <<>> \/ path[Len(path)] # Blank
  PROVE  ParsePath(path) = path
<1> DEFINE p == ParsePath(path)
           n == Len(p)
<1>1. /\ p \in Seq(STRING) /\ n \in 0..Len(path) /\ CutsAt(path, n)
      /\ \A i \in 1..n : p[i] = path[i]
  BY ParsePathFacts
<1>2. Len(path) \in Nat /\ (path = <<>> => Len(path) = 0)
  BY LenProperties
<1> HIDE DEF p
<1>3. n = Len(path)
  <2>1. ASSUME n < Len(path) PROVE FALSE
    <3>1. Len(path) \in (n + 1)..Len(path) /\ path # <<>>
      BY <1>1, <1>2, <2>1
    <3>2. path[Len(path)] = Blank
      BY <1>1, <3>1 DEF CutsAt
    <3> QED BY <3>1, <3>2
  <2> QED BY <1>1, <1>2, <2>1
<1>4. p = path
  BY <1>1, <1>3, SeqEqual
<1> QED BY <1>4 DEF p

LEMMA ParseOnce ==
  ASSUME NEW raw \in Seq(STRING)
  PROVE  ParsePath(ParsePath(raw)) = ParsePath(raw)
<1> DEFINE p == ParsePath(raw)
<1>1. /\ p \in Seq(STRING) /\ Len(p) \in 0..Len(raw) /\ CutsAt(raw, Len(p))
      /\ \A i \in 1..Len(p) : p[i] = raw[i]
  BY ParsePathFacts
<1> HIDE DEF p
<1>2. ASSUME p # <<>> PROVE p[Len(p)] # Blank
  <2>1. Len(p) \in Nat \ {0}
    BY <1>1, <1>2, EmptySeq
  <2> QED BY <1>1, <2>1 DEF CutsAt
<1>3. ParsePath(p) = p
  BY <1>1, <1>2, ParsedIsPlain
<1> QED BY <1>3 DEF p

(* A path a mount may have.                                                *)
PathParsed(path) == path \in Seq(STRING) /\ PathOk(path) /\ path = ParsePath(path)

LEMMA ParsedPath ==
  ASSUME NEW raw \in Seq(STRING), PathOk(raw)
  PROVE  PathParsed(ParsePath(raw))
  BY ParsePathFacts, ParseOnce DEF PathParsed, PathOk

LEMMA NamePath ==
  ASSUME NEW name \in Names
  PROVE  PathParsed(<<name>>)
<1>1. name \in STRING /\ name # Blank /\ name \notin BadSegments
  <2>1. name \in STRING
    BY NamesAssumption
  <2>2. name \notin Names \/ name \notin {Blank} \cup BadSegments
    BY NamesAssumption
  <2> QED BY <2>1, <2>2
<1>2. <<name>> \in Seq(STRING) /\ Len(<<name>>) = 1 /\ <<name>>[1] = name
  <2>1. Len(<<name>>) = 1 /\ <<name>>[1] = name
    OBVIOUS
  <2>2. <<name>> = Append(<<>>, name)
    OBVIOUS
  <2>3. <<>> \in Seq(STRING)
    BY EmptySeq
  <2>4. Append(<<>>, name) \in Seq(STRING)
    BY <1>1, <2>3, AppendProperties
  <2> QED BY <2>1, <2>2, <2>4
<1>3. ParsePath(<<name>>) = <<name>>
  BY <1>1, <1>2, ParsedIsPlain
<1>4. Range(<<name>>) = {name}
  BY <1>2 DEF Range
<1> QED BY <1>1, <1>2, <1>3, <1>4 DEF PathParsed, PathOk

-----------------------------------------------------------------------------
(* Mounts.                                                                 *)

IsMount(r) ==
  r = [kind |-> r.kind, name |-> r.name, path |-> r.path, upstream |-> r.upstream,
       secondary |-> r.secondary, settings |-> r.settings, proxyUrl |-> r.proxyUrl,
       fileHosts |-> r.fileHosts, auth |-> r.auth]

LEMMA AnyMount ==
  ASSUME NEW k, NEW n, NEW p, NEW u, NEW s, NEW t, NEW l, NEW h, NEW a
  PROVE  IsMount([kind |-> k, name |-> n, path |-> p, upstream |-> u, secondary |-> s,
                  settings |-> t, proxyUrl |-> l, fileHosts |-> h, auth |-> a])
  BY DEF IsMount

LEMMA WithAuth ==
  ASSUME NEW r, IsMount(r), NEW a
  PROVE  LET s == [r EXCEPT !.auth = a] IN
         /\ IsMount(s) /\ s.auth = a /\ s.kind = r.kind /\ s.name = r.name /\ s.path = r.path
         /\ s.secondary = r.secondary /\ s.settings = r.settings /\ s.proxyUrl = r.proxyUrl
  BY DEF IsMount

(* A mount of a kind whose turn has come.                                  *)
MountOk(r, left) ==
  /\ IsMount(r)
  /\ r.kind \in Kinds \ Range(left) /\ r.name \in Names /\ PathParsed(r.path)
  /\ \A f \in Fields : r.settings[f] # None
  /\ r.secondary # None <=> r.kind \in {"crates", "pypi"}

LEMMA NothingGiven == \A key : Given(<<>>, key) = None
  BY DEF Given

LEMMA BuiltInGiven ==
  ASSUME NEW k \in Kinds, NEW f \in Fields, NEW spec
  PROVE  Setting(k, spec, f) # None
  BY NoneAssumption DEF Setting, Either

LEMMA SecondaryGiven ==
  ASSUME NEW k \in Kinds
  PROVE  SecondaryKey(k) # None <=> k \in {"crates", "pypi"}
<1>1. "index" # None /\ "files" # None
  BY NoneAssumption
<1> QED BY <1>1 DEF Kinds, SecondaryKey

LEMMA InstanceOk ==
  ASSUME NEW k \in Kinds, NEW name \in Names, NEW path, PathParsed(path),
         NEW upstream, NEW spec, cli \in CommandLines, NEW left, k \notin Range(left)
  PROVE  MountOk(Instance(k, name, path, upstream, spec), left)
<1> DEFINE r == Instance(k, name, path, upstream, spec)
<1>1. IsMount(r)
  <2> DEFINE second == IF SecondaryKey(k) = None THEN None
                       ELSE Either(Given(spec, SecondaryKey(k)), Upstreams(k).secondary)
             settings == [f \in Fields |-> Setting(k, spec, f)]
             link == ProxyUrl(k, name, path, spec)
             hosts == FileHosts(k, spec)
  <2>1. r = [kind |-> k, name |-> name, path |-> path, upstream |-> upstream,
             secondary |-> second, settings |-> settings, proxyUrl |-> link,
             fileHosts |-> hosts, auth |-> NoHeaders]
    BY DEF Instance
  <2> HIDE DEF r, second, settings, link, hosts
  <2> QED BY <2>1, AnyMount
<1>2. r.kind = k /\ r.name = name /\ r.path = path
  BY DEF Instance
<1>3. ASSUME NEW f \in Fields PROVE r.settings[f] # None
  BY BuiltInGiven DEF Instance
<1>4. r.secondary # None <=> k \in {"crates", "pypi"}
  <2>1. CASE k \in {"crates", "pypi"}
    <3>1. cli.secondary[k] # None
      BY <2>1, TypedAssumption
    <3>2. SecondaryKey(k) # None
      BY <2>1, SecondaryGiven
    <3> QED BY <2>1, <3>1, <3>2 DEF Instance, Upstreams, Either
  <2>2. CASE k \notin {"crates", "pypi"}
    BY <2>2, SecondaryGiven DEF Instance
  <2> QED BY <2>1, <2>2
<1> HIDE DEF r
<1> QED BY <1>1, <1>2, <1>3, <1>4 DEF MountOk, r

(* Mounts in a sequence.                                                   *)
MountsOk(s, left) == s \in Seq(Range(s)) /\ \A r \in Range(s) : MountOk(r, left)

LEMMA FunctionSeq ==
  ASSUME NEW S, NEW n \in Nat, NEW f \in [1..n -> S]
  PROVE  f \in Seq(S)
  BY SeqDef

LEMMA InItsRange ==
  ASSUME NEW S, NEW s \in Seq(S)
  PROVE  s \in Seq(Range(s)) /\ Range(s) \subseteq S
<1>1. Len(s) \in Nat /\ s \in [1..Len(s) -> S] /\ DOMAIN s = 1..Len(s)
  BY LenProperties
<1>2. s \in [1..Len(s) -> Range(s)] /\ Range(s) \subseteq S
  BY <1>1 DEF Range
<1> QED BY <1>1, <1>2, FunctionSeq

LEMMA MountList ==
  ASSUME NEW S, NEW left, \A r \in S : MountOk(r, left), NEW s \in Seq(S)
  PROVE  MountsOk(s, left)
  BY InItsRange DEF MountsOk

LEMMA MountAt ==
  ASSUME NEW s, NEW left, MountsOk(s, left)
  PROVE  /\ Len(s) \in Nat /\ DOMAIN s = 1..Len(s)
         /\ \A i \in DOMAIN s : MountOk(s[i], left)
<1>1. s \in Seq(Range(s))
  BY DEF MountsOk
<1>2. Len(s) \in Nat /\ DOMAIN s = 1..Len(s)
  BY <1>1, LenProperties
<1>3. \A i \in DOMAIN s : s[i] \in Range(s)
  BY DEF Range
<1> QED BY <1>2, <1>3 DEF MountsOk

LEMMA MountConcat ==
  ASSUME NEW s, NEW t, NEW left, MountsOk(s, left), MountsOk(t, left)
  PROVE  MountsOk(s \o t, left)
<1> DEFINE S == Range(s) \cup Range(t)
<1>1. s \in Seq(S) /\ t \in Seq(S)
  BY SeqMonotonic DEF MountsOk
<1>2. \A r \in S : MountOk(r, left)
  BY DEF MountsOk
<1> HIDE DEF S
<1>3. s \o t \in Seq(S)
  BY <1>1, ConcatProperties
<1> QED BY <1>2, <1>3, MountList

LEMMA NoMount ==
  ASSUME NEW left
  PROVE  MountsOk(<<>>, left)
<1>1. <<>> \in Seq({}) /\ \A r \in {} : MountOk(r, left)
  BY EmptySeq
<1> QED BY <1>1, MountList

LEMMA OneMount ==
  ASSUME NEW r, NEW left, MountOk(r, left)
  PROVE  MountsOk(<<r>>, left)
<1>1. <<r>> \in Seq({r})
  <2>1. <<>> \in Seq({r})
    BY EmptySeq
  <2>2. <<r>> = Append(<<>>, r)
    OBVIOUS
  <2> QED BY <2>1, <2>2, AppendProperties
<1> QED BY <1>1, MountList

(* The mounts of a kind.                                                   *)
LEMMA KindsAreNames ==
  Kinds \subseteq Names /\ "gradle-plugins" \in Names /\ "google-maven" \in Names
  BY NamesAssumption

LEMMA TypedPath ==
  ASSUME cli \in CommandLines, NEW k \in Kinds
  PROVE  /\ cli.path[k] \in Seq(STRING) /\ cli.specs[k] \in Seq(Range(cli.specs[k]))
         /\ \A spec \in Range(cli.specs[k]) :
              Given(spec, "path") = None \/ Given(spec, "path") \in Seq(STRING)
  BY TypedAssumption

LEMMA UnlessReplacedOk ==
  ASSUME cli \in CommandLines, NEW k \in Kinds, NEW name \in Names, NEW upstream,
         NEW left, k \notin Range(left)
  PROVE  MountsOk(UnlessReplaced(k, name, upstream), left)
<1>1. MountOk(Instance(k, name, <<name>>, upstream, <<>>), left)
  BY NamePath, InstanceOk
<1> QED BY <1>1, NoMount, OneMount DEF UnlessReplaced

LEMMA OwnMountsOk ==
  ASSUME cli \in CommandLines, NEW k \in Kinds, PathOk(cli.path[k]),
         NEW left, k \notin Range(left)
  PROVE  MountsOk(OwnMounts(k), left)
<1> DEFINE path == ParsePath(cli.path[k])
           own == <<Instance(k, k, path, Upstreams(k).primary, <<>>)>>
<1>1. PathParsed(path)
  BY TypedPath, ParsedPath
<1> HIDE DEF path
<1>2. MountsOk(own, left)
  <2>1. MountOk(Instance(k, k, path, Upstreams(k).primary, <<>>), left)
    BY <1>1, KindsAreNames, InstanceOk
  <2> QED BY <2>1, OneMount
<1>3. MountsOk(DefaultMounts(k), left)
  BY KindsAreNames, UnlessReplacedOk, MountConcat, NoMount DEF DefaultMounts
<1> HIDE DEF own
<1>4. MountsOk(own \o <<>>, left) /\ MountsOk(own \o DefaultMounts(k), left)
  BY <1>2, <1>3, NoMount, MountConcat
<1>5. \/ OwnMounts(k) = <<>>
      \/ OwnMounts(k) = own \o <<>>
      \/ OwnMounts(k) = own \o DefaultMounts(k)
  BY DEF OwnMounts, own, path
<1> QED BY <1>4, <1>5, NoMount

LEMMA SpecPathParsed ==
  ASSUME cli \in CommandLines, NEW k \in Kinds, NEW spec \in Range(cli.specs[k]), SpecOk(k, spec)
  PROVE  Given(spec, "name") \in Names /\ PathParsed(SpecPath(spec))
<1>1. Given(spec, "name") \in Names /\ (Given(spec, "path") # None => PathOk(Given(spec, "path")))
  BY DEF SpecOk
<1>2. Given(spec, "path") = None \/ Given(spec, "path") \in Seq(STRING)
  BY TypedPath
<1> QED BY <1>1, <1>2, NamePath, ParsedPath DEF SpecPath

LEMMA ExtraMountsOk ==
  ASSUME cli \in CommandLines, NEW k \in Kinds,
         \A i \in DOMAIN cli.specs[k] : SpecOk(k, cli.specs[k][i]),
         NEW left, k \notin Range(left)
  PROVE  MountsOk(ExtraMounts(k), left)
<1> DEFINE specs == cli.specs[k]
           S == {SpecMount(k, spec) : spec \in Range(specs)}
<1>1. Len(specs) \in Nat /\ DOMAIN specs = 1..Len(specs)
  BY TypedPath, LenProperties
<1>2. ASSUME NEW spec \in Range(specs) PROVE MountOk(SpecMount(k, spec), left)
  <2>1. SpecOk(k, spec)
    BY DEF Range
  <2>2. Given(spec, "name") \in Names /\ PathParsed(SpecPath(spec))
    BY <2>1, SpecPathParsed
  <2> QED BY <2>2, InstanceOk DEF SpecMount
<1>3. ExtraMounts(k) \in [1..Len(specs) -> S]
  <2>1. \A i \in DOMAIN specs : SpecMount(k, specs[i]) \in S
    BY DEF Range
  <2> HIDE DEF S, specs
  <2>2. ExtraMounts(k) = [i \in DOMAIN specs |-> SpecMount(k, specs[i])]
    BY DEF specs, ExtraMounts
  <2> QED BY <1>1, <2>1, <2>2
<1>4. \A r \in S : MountOk(r, left)
  BY <1>2
<1> HIDE DEF S, specs
<1> QED BY <1>1, <1>3, <1>4, FunctionSeq, MountList

-----------------------------------------------------------------------------
(* The kinds still to come.                                                *)

ToCome ==
  {<<"crates", "npm", "pypi", "maven">>, <<"npm", "pypi", "maven">>, <<"pypi", "maven">>,
   <<"maven">>, <<>>}

LEMMA HeadsAndTails ==
  ASSUME NEW a, NEW b, NEW c, NEW d
  PROVE  /\ Head(<<a, b, c, d>>) = a /\ Tail(<<a, b, c, d>>) = <<b, c, d>>
         /\ Head(<<a, b, c>>) = a /\ Tail(<<a, b, c>>) = <<b, c>>
         /\ Head(<<a, b>>) = a /\ Tail(<<a, b>>) = <<b>>
         /\ Head(<<a>>) = a /\ Tail(<<a>>) = <<>>
  OBVIOUS

LEMMA Ranges ==
  /\ \A a, b, c, d : Range(<<a, b, c, d>>) = {a, b, c, d}
  /\ \A a, b, c : Range(<<a, b, c>>) = {a, b, c}
  /\ \A a, b : Range(<<a, b>>) = {a, b}
  /\ \A a : Range(<<a>>) = {a}
  /\ Range(<<>>) = {}
<1>1. \A a, b, c, d : Range(<<a, b, c, d>>) = {a, b, c, d}
  BY DEF Range
<1>2. \A a, b, c : Range(<<a, b, c>>) = {a, b, c}
  BY DEF Range
<1>3. \A a, b : Range(<<a, b>>) = {a, b}
  BY DEF Range
<1>4. (\A a : Range(<<a>>) = {a}) /\ Range(<<>>) = {}
  BY DEF Range
<1> QED BY <1>1, <1>2, <1>3, <1>4

LEMMA KindsToCome ==
  ASSUME NEW left \in ToCome, left # <<>>
  PROVE  /\ Tail(left) \in ToCome /\ Head(left) \in Kinds /\ Head(left) \notin Range(Tail(left))
         /\ Range(Tail(left)) \subseteq Range(left)
<1>1. CASE left = <<"crates", "npm", "pypi", "maven">>
  <2>1. Head(left) = "crates" /\ Tail(left) = <<"npm", "pypi", "maven">>
    BY <1>1, HeadsAndTails
  <2>2. Range(left) = {"crates", "npm", "pypi", "maven"} /\ Range(<<"npm", "pypi", "maven">>) = {"npm", "pypi", "maven"}
    BY <1>1, Ranges
  <2> QED BY <2>1, <2>2 DEF ToCome, Kinds
<1>2. CASE left = <<"npm", "pypi", "maven">>
  <2>1. Head(left) = "npm" /\ Tail(left) = <<"pypi", "maven">>
    BY <1>2, HeadsAndTails
  <2>2. Range(left) = {"npm", "pypi", "maven"} /\ Range(<<"pypi", "maven">>) = {"pypi", "maven"}
    BY <1>2, Ranges
  <2> QED BY <2>1, <2>2 DEF ToCome, Kinds
<1>3. CASE left = <<"pypi", "maven">>
  <2>1. Head(left) = "pypi" /\ Tail(left) = <<"maven">>
    BY <1>3, HeadsAndTails
  <2>2. Range(left) = {"pypi", "maven"} /\ Range(<<"maven">>) = {"maven"}
    BY <1>3, Ranges
  <2> QED BY <2>1, <2>2 DEF ToCome, Kinds
<1>4. CASE left = <<"maven">>
  <2>1. Head(left) = "maven" /\ Tail(left) = <<>>
    BY <1>4, HeadsAndTails
  <2>2. Range(left) = {"maven"} /\ Range(<<>>) = {}
    BY <1>4, Ranges
  <2> QED BY <2>1, <2>2 DEF ToCome, Kinds
<1> QED BY <1>1, <1>2, <1>3, <1>4 DEF ToCome

(* Any of the five is what is left of ALL.                                 *)
LEMMA SuffixOfALL ==
  ASSUME NEW left \in ToCome
  PROVE  IsSuffix(left, ALL)
<1>1. Reverse(ALL) = <<"maven", "pypi", "npm", "crates">>
  BY DEF Reverse, ALL
<1>2. CASE left = ALL
  BY <1>1, <1>2 DEF IsSuffix, IsPrefix, ALL
<1>3. CASE left = <<"npm", "pypi", "maven">>
  <2>1. Reverse(left) = <<"maven", "pypi", "npm">>
    BY <1>3 DEF Reverse
  <2> QED BY <1>1, <2>1 DEF IsSuffix, IsPrefix
<1>4. CASE left = <<"pypi", "maven">>
  <2>1. Reverse(left) = <<"maven", "pypi">>
    BY <1>4 DEF Reverse
  <2> QED BY <1>1, <2>1 DEF IsSuffix, IsPrefix
<1>5. CASE left = <<"maven">>
  <2>1. Reverse(left) = <<"maven">>
    BY <1>5 DEF Reverse
  <2> QED BY <1>1, <2>1 DEF IsSuffix, IsPrefix
<1>6. CASE left = <<>>
  <2>1. Reverse(left) = <<>>
    BY <1>6 DEF Reverse
  <2> QED BY <1>1, <2>1 DEF IsSuffix, IsPrefix
<1> QED BY <1>2, <1>3, <1>4, <1>5, <1>6 DEF ToCome, ALL

-----------------------------------------------------------------------------
(* Type correctness.                                                       *)

Phases == {"flags", "mounts", "auth", "layout", "build", "serving", "refused"}

StartInv ==
  /\ cli \in CommandLines /\ env \in Environments
  /\ phase \in Phases /\ todo \in ToCome
  /\ phase = "mounts" => \A k \in Kinds : PathOk(cli.path[k])
  /\ MountsOk(instances, todo)
  /\ clients = IF Serving THEN [i \in DOMAIN instances |-> instances[i].auth] ELSE <<>>

LEMMA StartInit == Init => StartInv
<1> SUFFICES ASSUME Init PROVE StartInv
  OBVIOUS
<1>1. cli \in CommandLines /\ env \in Environments /\ phase = "flags"
      /\ instances = <<>> /\ clients = <<>>
  BY DEF Init
<1>2. todo \in ToCome
  BY DEF Init, ALL, ToCome
<1> QED BY <1>1, <1>2, NoMount DEF StartInv, Phases, Serving

(* The two steps that make mounts.                                         *)
LEMMA MountKindOk ==
  ASSUME StartInv, MountKind, phase' = "mounts"
  PROVE  LET k == Head(todo) IN
         /\ k \in Kinds /\ todo' \in ToCome /\ UNCHANGED <<cli, env, clients>>
         /\ \A i \in DOMAIN cli.specs[k] : SpecOk(k, cli.specs[k][i])
         /\ instances' = instances \o OwnMounts(k) \o ExtraMounts(k)
         /\ MountsOk(instances, todo') /\ MountsOk(OwnMounts(k), todo')
         /\ MountsOk(ExtraMounts(k), todo') /\ MountsOk(instances', todo')
<1> DEFINE k == Head(todo)
<1>1. /\ phase = "mounts" /\ todo # <<>>
      /\ \A i \in DOMAIN cli.specs[k] : SpecOk(k, cli.specs[k][i])
      /\ instances' = instances \o OwnMounts(k) \o ExtraMounts(k)
      /\ todo' = Tail(todo) /\ UNCHANGED <<cli, env, clients>>
  BY DEF MountKind, Refuse, Then
<1>2. /\ k \in Kinds /\ todo' \in ToCome /\ k \notin Range(todo')
      /\ Range(todo') \subseteq Range(todo)
  BY <1>1, KindsToCome DEF StartInv
<1> HIDE DEF k
<1>3. cli \in CommandLines /\ PathOk(cli.path[k]) /\ MountsOk(instances, todo)
  BY <1>1, <1>2 DEF StartInv
<1>4. MountsOk(instances, todo')
  BY <1>2, <1>3 DEF MountsOk, MountOk
<1>5. MountsOk(OwnMounts(k), todo') /\ MountsOk(ExtraMounts(k), todo')
  BY <1>1, <1>2, <1>3, OwnMountsOk, ExtraMountsOk
<1>6. MountsOk(instances', todo')
  BY <1>1, <1>4, <1>5, MountConcat
<1> QED BY <1>1, <1>2, <1>4, <1>5, <1>6 DEF k

LEMMA AttachAuthOk ==
  ASSUME StartInv, AttachAuth, phase' = "layout"
  PROVE  /\ UNCHANGED <<cli, env, todo, clients>> /\ MountsOk(instances', todo')
         /\ AuthNamesServed /\ EnvNamesServed /\ \A i \in DOMAIN instances : AuthOk(i)
         /\ DOMAIN instances' = DOMAIN instances
         /\ \A i \in DOMAIN instances :
              /\ instances'[i].auth = Auth(i)
              /\ instances'[i].name = instances[i].name /\ instances'[i].path = instances[i].path
              /\ instances'[i].proxyUrl = instances[i].proxyUrl
<1>1. /\ AuthNamesServed /\ EnvNamesServed /\ \A i \in DOMAIN instances : AuthOk(i)
      /\ instances' = [i \in DOMAIN instances |-> [instances[i] EXCEPT !.auth = Auth(i)]]
      /\ UNCHANGED <<cli, env, todo, clients>>
  BY DEF AttachAuth, Refuse, Then
<1>2. /\ Len(instances) \in Nat /\ DOMAIN instances = 1..Len(instances)
      /\ \A i \in DOMAIN instances : MountOk(instances[i], todo)
  BY MountAt DEF StartInv
<1>3. DOMAIN instances' = DOMAIN instances
  BY <1>1
<1>4. ASSUME NEW i \in DOMAIN instances
      PROVE  /\ MountOk(instances'[i], todo) /\ instances'[i].auth = Auth(i)
             /\ instances'[i].name = instances[i].name /\ instances'[i].path = instances[i].path
             /\ instances'[i].proxyUrl = instances[i].proxyUrl
  <2>1. instances'[i] = [instances[i] EXCEPT !.auth = Auth(i)]
    BY <1>1
  <2>2. MountOk(instances[i], todo) /\ IsMount(instances[i])
    BY <1>2 DEF MountOk
  <2>3. LET s == instances'[i] r == instances[i] IN
        /\ IsMount(s) /\ s.auth = Auth(i) /\ s.kind = r.kind /\ s.name = r.name /\ s.path = r.path
        /\ s.secondary = r.secondary /\ s.settings = r.settings /\ s.proxyUrl = r.proxyUrl
    BY <2>1, <2>2, WithAuth
  <2> QED BY <2>2, <2>3 DEF MountOk
<1>5. MountsOk(instances', todo')
  <2> DEFINE S == {instances'[i] : i \in DOMAIN instances}
  <2>1. \A r \in S : MountOk(r, todo)
    BY <1>4
  <2>2. instances' \in [1..Len(instances) -> S]
    BY <1>1, <1>2
  <2> HIDE DEF S
  <2> QED BY <1>1, <1>2, <2>1, <2>2, FunctionSeq, MountList
<1> QED BY <1>1, <1>3, <1>4, <1>5

LEMMA StartStep ==
  ASSUME StartInv, [Next]_vars
  PROVE  StartInv'
<1> USE DEF StartInv, Phases, Serving
<1>1. CASE ParseFlags
  BY <1>1 DEF ParseFlags, Refuse, Then
<1>2. CASE MountKind
  <2>1. CASE phase' = "mounts"
    BY <1>2, <2>1, MountKindOk DEF MountKind
  <2>2. CASE phase' # "mounts"
    BY <1>2, <2>2 DEF MountKind, Refuse, Then
  <2> QED BY <2>1, <2>2
<1>3. CASE CheckNames
  BY <1>3 DEF CheckNames, Refuse, Then
<1>4. CASE AttachAuth
  <2>1. CASE phase' = "layout"
    BY <1>4, <2>1, AttachAuthOk DEF AttachAuth
  <2>2. CASE phase' # "layout"
    BY <1>4, <2>2 DEF AttachAuth, Refuse, Then
  <2> QED BY <2>1, <2>2
<1>5. CASE CheckLayout
  BY <1>5 DEF CheckLayout, Refuse, Then
<1>6. CASE Build
  <2>1. ASSUME NEW i \in DOMAIN instances PROVE ClientOf(i) = instances[i].auth
    BY DEF ClientOf
  <2>2. /\ clients' = [i \in DOMAIN instances |-> instances[i].auth]
        /\ phase' = "serving" /\ UNCHANGED <<cli, env, todo, instances>>
    BY <1>6, <2>1 DEF Build, Then
  <2> QED BY <2>2
<1>7. CASE UNCHANGED vars
  BY <1>7 DEF vars
<1> QED BY <1>1, <1>2, <1>3, <1>4, <1>5, <1>6, <1>7 DEF Next

LEMMA StartTyped == StartInv => TypeOK
<1> SUFFICES ASSUME StartInv PROVE TypeOK
  OBVIOUS
<1>1. phase \in Phases /\ IsSuffix(todo, ALL)
  BY SuffixOfALL DEF StartInv
<1>2. \A i \in DOMAIN instances : MountOk(instances[i], todo)
  BY MountAt DEF StartInv
<1>3. DOMAIN clients = IF Serving THEN DOMAIN instances ELSE {}
  BY DEF StartInv
<1>4. ASSUME NEW i \in DOMAIN instances
      PROVE  /\ instances[i].kind \in Kinds \ Range(todo) /\ instances[i].name \in Names
             /\ PathOk(instances[i].path) /\ instances[i].path = ParsePath(instances[i].path)
             /\ \A f \in Fields : instances[i].settings[f] # None
             /\ instances[i].secondary # None <=> instances[i].kind \in {"crates", "pypi"}
  BY <1>2 DEF MountOk, PathParsed
<1> QED BY <1>1, <1>3, <1>4 DEF TypeOK, Phases

LEMMA StartAlways == Spec => []StartInv
<1>1. StartInv /\ [Next]_vars => StartInv'
  BY StartStep
<1> QED BY <1>1, StartInit, PTL DEF Spec

(* However far a start comes, every mount is of a kind whose turn has      *)
(* come, has a name, a parsed path of good segments, every setting, and a  *)
(* second upstream exactly where its kind has one; clients exist once it   *)
(* serves: RegistryInstance and Cli::instances (cli/instances.rs).         *)
THEOREM MountsTypeCorrect == Spec => []TypeOK
  BY StartAlways, StartTyped, PTL

-----------------------------------------------------------------------------
(* Credentials.                                                            *)

AuthInv ==
  /\ phase \in {"auth", "layout", "build", "serving"} => DirectoriesApart
  /\ phase \in {"layout", "build", "serving"} =>
       /\ AuthNamesServed /\ EnvNamesServed
       /\ \A i \in DOMAIN instances : AuthOk(i) /\ instances[i].auth = Auth(i)

(* What is checked of the mounts' auth reads their names and no more.      *)
LEMMA AuthByName ==
  ASSUME UNCHANGED <<cli, env>>, DOMAIN instances' = DOMAIN instances,
         \A i \in DOMAIN instances : instances'[i].name = instances[i].name
  PROVE  /\ AuthNamesServed' = AuthNamesServed
         /\ \A i \in DOMAIN instances : TokenOf(i)' = TokenOf(i)
         /\ EnvNamesServed' = EnvNamesServed
         /\ \A i \in DOMAIN instances : AuthOk(i)' = AuthOk(i) /\ Auth(i)' = Auth(i)
         /\ DirectoriesApart' = DirectoriesApart
<1>1. {instances[i].name : i \in DOMAIN instances}'
        = {instances[i].name : i \in DOMAIN instances}
  OBVIOUS
<1>2. AuthNamesServed' = AuthNamesServed
  BY <1>1 DEF AuthNamesServed
<1>3. \A i \in DOMAIN instances : TokenOf(i)' = TokenOf(i)
  BY DEF TokenOf
<1>4. \A t : EnvSet(t)' = EnvSet(t)
  BY DEF EnvSet
<1>5. EnvNamesServed' = EnvNamesServed
  BY <1>3, <1>4 DEF EnvNamesServed
<1>6. ASSUME NEW i \in DOMAIN instances
      PROVE  AuthOk(i)' = AuthOk(i) /\ Auth(i)' = Auth(i)
  <2>1. TokenOf(i)' = TokenOf(i) /\ instances'[i].name = instances[i].name
    BY <1>3
  <2>2. \A n : FlagBasic(n)' = FlagBasic(n) /\ FlagHeaders(n)' = FlagHeaders(n)
    BY DEF FlagBasic, FlagHeaders
  <2>3. Credentials(i)' = Credentials(i)
    BY <2>1, <2>2 DEF Credentials
  <2>4. \A h : StatedHeader(i, h)' = StatedHeader(i, h)
    BY <2>1, <2>2 DEF StatedHeader
  <2> QED BY <2>1, <2>2, <2>3, <2>4 DEF AuthOk, Auth
<1>7. DirectoriesApart' = DirectoriesApart
  BY DEF DirectoriesApart
<1> QED BY <1>2, <1>3, <1>5, <1>6, <1>7

LEMMA AuthStep ==
  ASSUME StartInv, AuthInv, [Next]_vars
  PROVE  AuthInv'
<1>1. CASE ParseFlags
  BY <1>1 DEF ParseFlags, Refuse, Then, AuthInv
<1>2. CASE MountKind
  BY <1>2 DEF MountKind, Refuse, Then, AuthInv
<1>3. CASE CheckNames
  <2>1. \/ phase' = "refused"
        \/ phase' = "auth" /\ DirectoriesApart /\ instances' = instances
    BY <1>3 DEF CheckNames, Refuse, Then, DirectoriesApart
  <2> QED BY <2>1 DEF AuthInv, DirectoriesApart
<1>4. CASE AttachAuth
  <2>1. CASE phase' = "layout"
    <3>1. /\ phase = "auth" /\ UNCHANGED <<cli, env>> /\ DOMAIN instances' = DOMAIN instances
          /\ AuthNamesServed /\ EnvNamesServed /\ \A i \in DOMAIN instances : AuthOk(i)
          /\ \A i \in DOMAIN instances :
               instances'[i].auth = Auth(i) /\ instances'[i].name = instances[i].name
      BY <1>4, <2>1, AttachAuthOk DEF AttachAuth
    <3>2. /\ AuthNamesServed' /\ EnvNamesServed' /\ DirectoriesApart'
          /\ \A i \in DOMAIN instances' : AuthOk(i)' /\ instances'[i].auth = Auth(i)'
      BY <3>1, AuthByName DEF AuthInv
    <3> QED BY <2>1, <3>2 DEF AuthInv
  <2>2. CASE phase' # "layout"
    BY <1>4, <2>2 DEF AttachAuth, Refuse, Then, AuthInv
  <2> QED BY <2>1, <2>2
<1>5. CASE CheckLayout \/ Build \/ UNCHANGED vars
  <2>1. /\ UNCHANGED <<cli, env, instances>>
        /\ \/ phase' = phase \/ phase' = "refused"
           \/ phase \in {"layout", "build"} /\ phase' \in {"build", "serving"}
    BY <1>5 DEF CheckLayout, Build, Refuse, Then, vars
  <2>2. /\ AuthNamesServed' = AuthNamesServed /\ EnvNamesServed' = EnvNamesServed
        /\ \A i \in DOMAIN instances : AuthOk(i)' = AuthOk(i) /\ Auth(i)' = Auth(i)
        /\ DirectoriesApart' = DirectoriesApart
    BY <2>1, AuthByName
  <2> QED BY <2>1, <2>2 DEF AuthInv
<1> QED BY <1>1, <1>2, <1>3, <1>4, <1>5 DEF Next

(* What a mount sends for a header: a flag for it, or its variable.        *)
LEMMA AuthIsItsOwn ==
  ASSUME NEW i \in DOMAIN instances, NEW h \in Headers, Auth(i)[h] # None
  PROVE  Auth(i)[h] \in {<<"flag", instances[i].name>>, <<"env", TokenOf(i)>>}
  BY DEF Auth, Credentials, StatedHeader

LEMMA StatedIsSomething ==
  ASSUME NEW i \in DOMAIN instances, instances[i].name \in Names
  PROVE  <<"flag", instances[i].name>> # None /\ <<"env", TokenOf(i)>> # None
  BY NoneAssumption DEF TokenOf

LEMMA SendsItsOwn ==
  ASSUME Serving, StartInv, AuthInv
  PROVE  SendsOnlyItsOwn
<1> SUFFICES ASSUME NEW i \in DOMAIN instances, NEW h \in Headers, clients[i][h] # None,
                    NEW j \in DOMAIN instances,
                    clients[i][h] \in {<<"flag", instances[j].name>>, <<"env", TokenOf(j)>>}
             PROVE  j = i
  BY DEF SendsOnlyItsOwn, StartInv
<1>1. clients[i] = Auth(i) /\ EnvNamesServed /\ DirectoriesApart
  BY DEF StartInv, AuthInv, Serving
<1>2. clients[i][h] \in {<<"flag", instances[i].name>>, <<"env", TokenOf(i)>>}
  BY <1>1, AuthIsItsOwn
<1>3. \/ <<"flag", instances[i].name>> = <<"flag", instances[j].name>>
      \/ <<"env", TokenOf(i)>> = <<"env", TokenOf(j)>>
  BY <1>2
<1>4. instances[i].name = instances[j].name \/ TokenOf(i) = TokenOf(j)
  BY <1>3
<1> QED BY <1>1, <1>4 DEF EnvNamesServed, DirectoriesApart

LEMMA SendsFlags ==
  ASSUME Serving, StartInv, AuthInv
  PROVE  FlagsAreSent
<1>1. /\ AuthNamesServed /\ \A i \in DOMAIN instances : AuthOk(i) /\ clients[i] = Auth(i)
  BY DEF StartInv, AuthInv, Serving
<1>2. \A i \in DOMAIN instances : <<"flag", instances[i].name>> # None
  BY MountAt, StatedIsSomething DEF StartInv, MountOk
<1>3. ASSUME NEW n \in Range(cli.basic)
      PROVE  \E i \in DOMAIN instances :
               instances[i].name = n /\ clients[i]["Authorization"] = <<"flag", n>>
  <2>1. PICK i \in DOMAIN instances : instances[i].name = n
    BY <1>1, <1>3 DEF AuthNamesServed
  <2>2. FlagBasic(n)
    BY <1>3 DEF FlagBasic, Range
  <2>3. Credentials(i) = <<"flag", n>> /\ <<"flag", n>> # None
    BY <1>2, <2>1, <2>2 DEF Credentials
  <2>4. Auth(i)["Authorization"] = <<"flag", n>>
    BY <2>3 DEF Auth, Headers
  <2> QED BY <1>1, <2>1, <2>4
<1>4. ASSUME NEW n \in Names, NEW h \in FlagHeaders(n)
      PROVE  \E i \in DOMAIN instances :
               instances[i].name = n /\ clients[i][h] = <<"flag", n>>
  <2>1. PICK l \in DOMAIN cli.headers : cli.headers[l] = <<n, h>>
    BY <1>4 DEF FlagHeaders
  <2>2. cli.headers[l][1] = n
    BY <2>1
  <2>3. PICK i \in DOMAIN instances : instances[i].name = n
    BY <1>1, <2>2 DEF AuthNamesServed
  <2>4. StatedHeader(i, h) = <<"flag", n>> /\ <<"flag", n>> # None
    BY <1>2, <1>4, <2>3 DEF StatedHeader
  <2>5. ~(h = "Authorization" /\ Credentials(i) # None)
    BY <1>1, <2>4 DEF AuthOk
  <2>6. h \in Headers
    BY <1>4 DEF FlagHeaders
  <2>7. Auth(i)[h] = <<"flag", n>>
    BY <2>4, <2>5, <2>6 DEF Auth
  <2> QED BY <1>1, <2>3, <2>7
<1> QED BY <1>3, <1>4 DEF FlagsAreSent

LEMMA SendsVariables ==
  ASSUME Serving, StartInv, AuthInv
  PROVE  VariablesAreSent
<1>1. /\ EnvNamesServed /\ \A i \in DOMAIN instances : AuthOk(i) /\ clients[i] = Auth(i)
  BY DEF StartInv, AuthInv, Serving
<1>2. \A i \in DOMAIN instances :
        <<"flag", instances[i].name>> # None /\ <<"env", TokenOf(i)>> # None
  BY MountAt, StatedIsSomething DEF StartInv, MountOk
<1>3. ASSUME NEW t \in Tokens, EnvSet(t)
      PROVE  \E i \in DOMAIN instances :
        /\ TokenOf(i) = t
        /\ \A h \in env.headers[t] :
             clients[i][h] \in {<<"env", t>>, <<"flag", instances[i].name>>}
        /\ env.password[t] => clients[i]["Authorization"] # None
  <2>1. PICK i \in DOMAIN instances : TokenOf(i) = t
    BY <1>1, <1>3 DEF EnvNamesServed
  <2>2. ASSUME NEW h \in env.headers[t]
        PROVE  clients[i][h] \in {<<"env", t>>, <<"flag", instances[i].name>>}
    <3>1. h \in Headers
      BY <2>2, TypedAssumption DEF StartInv
    <3>2. /\ StatedHeader(i, h) \in {<<"env", t>>, <<"flag", instances[i].name>>}
          /\ StatedHeader(i, h) # None
      BY <1>2, <2>1, <2>2 DEF StatedHeader
    <3>3. ~(h = "Authorization" /\ Credentials(i) # None)
      BY <1>1, <3>2 DEF AuthOk
    <3> QED BY <1>1, <3>1, <3>2, <3>3 DEF Auth
  <2>3. ASSUME env.password[t] PROVE clients[i]["Authorization"] # None
    <3>1. Credentials(i) # None
      BY <1>2, <2>1, <2>3 DEF Credentials
    <3>2. Auth(i)["Authorization"] = Credentials(i)
      BY <3>1 DEF Auth, Headers
    <3> QED BY <1>1, <3>1, <3>2
  <2> QED BY <2>1, <2>2, <2>3
<1> QED BY <1>3 DEF VariablesAreSent

LEMMA AuthAlways == Spec => [](StartInv /\ AuthInv)
<1>1. Init => StartInv /\ AuthInv
  BY StartInit DEF Init, AuthInv
<1>2. StartInv /\ AuthInv /\ [Next]_vars => (StartInv /\ AuthInv)'
  BY StartStep, AuthStep
<1> QED BY <1>1, <1>2, PTL DEF Spec

(* "Credentials never cross mounts" (README.md:214): once it serves, what  *)
(* a mount sends was stated for it and is read by no other mount, and what *)
(* a flag or a variable states is sent by the mount it names, or a flag is *)
(* sent in the variable's place. attach_auth, check_auth_env and           *)
(* auth::resolve, for any command line and environment.                    *)
THEOREM CredentialsReachTheirMountHolds == Spec => []CredentialsReachTheirMount
<1>1. StartInv /\ AuthInv => CredentialsReachTheirMount
  BY SendsItsOwn, SendsFlags, SendsVariables DEF CredentialsReachTheirMount
<1> QED BY <1>1, AuthAlways, PTL

-----------------------------------------------------------------------------
(* Links and layout.                                                       *)

LinksBack(s) == \A r \in Range(s) : PathOf(r.proxyUrl) = r.path

LayoutInv ==
  /\ LinksBack(instances)
  /\ phase \in {"build", "serving"} => LayoutOk

LEMMA ConcatLinks ==
  ASSUME NEW s, NEW t, NEW left, MountsOk(s, left), MountsOk(t, left),
         LinksBack(s), LinksBack(t)
  PROVE  LinksBack(s \o t)
<1> DEFINE S == Range(s) \cup Range(t)
<1>1. s \in Seq(S) /\ t \in Seq(S)
  BY SeqMonotonic DEF MountsOk
<1>2. \A r \in S : PathOf(r.proxyUrl) = r.path
  BY DEF LinksBack
<1> HIDE DEF S
<1>3. s \o t \in Seq(S)
  BY <1>1, ConcatProperties
<1>4. Range(s \o t) \subseteq S
  BY <1>3, InItsRange
<1> QED BY <1>2, <1>4 DEF LinksBack

LEMMA DefaultLink == \A path : PathOf(DefaultProxyUrl(path)) = path
  BY DEF DefaultProxyUrl, PathOf

LEMMA InstanceLink ==
  ASSUME NEW k, NEW name, NEW path, NEW upstream, NEW spec
  PROVE  LET r == Instance(k, name, path, upstream, spec) IN
         r.path = path /\ r.proxyUrl = ProxyUrl(k, name, path, spec)
  BY DEF Instance

LEMMA OneLink ==
  ASSUME NEW r, PathOf(r.proxyUrl) = r.path
  PROVE  LinksBack(<<r>>)
<1>1. Range(<<r>>) = {r}
  BY Ranges
<1> QED BY <1>1 DEF LinksBack

LEMMA NoLink == LinksBack(<<>>)
  BY Ranges DEF LinksBack

LEMMA UnlessReplacedLinks ==
  ASSUME NEW k, NEW name, NEW upstream, name # k
  PROVE  LinksBack(UnlessReplaced(k, name, upstream))
<1> DEFINE r == Instance(k, name, <<name>>, upstream, <<>>)
<1>1. ProxyUrl(k, name, <<name>>, <<>>) = DefaultProxyUrl(<<name>>)
  BY DEF ProxyUrl, StatedProxyUrl, Either
<1>2. PathOf(r.proxyUrl) = r.path
  BY <1>1, InstanceLink, DefaultLink
<1> HIDE DEF r
<1>3. LinksBack(<<r>>)
  BY <1>2, OneLink
<1> QED BY <1>3, NoLink DEF UnlessReplaced, r

LEMMA OwnLinks ==
  ASSUME LinksTold, cli \in CommandLines, NEW k \in Kinds, PathOk(cli.path[k]),
         NEW left, k \notin Range(left)
  PROVE  LinksBack(OwnMounts(k))
<1> DEFINE path == ParsePath(cli.path[k])
           r == Instance(k, k, path, Upstreams(k).primary, <<>>)
           own == <<r>>
<1>1. PathParsed(path)
  BY TypedPath, ParsedPath
<1>2. cli.proxyUrl[k] # None => PathOf(cli.proxyUrl[k]) = path
  BY DEF LinksTold
<1> HIDE DEF path
<1>3. PathOf(ProxyUrl(k, k, path, <<>>)) = path
  BY <1>2, DefaultLink DEF ProxyUrl, StatedProxyUrl, Either
<1>4. PathOf(r.proxyUrl) = r.path
  BY <1>3, InstanceLink
<1>5. MountOk(r, left)
  BY <1>1, KindsAreNames, InstanceOk
<1> HIDE DEF r
<1>6. MountsOk(own, left) /\ LinksBack(own)
  BY <1>4, <1>5, OneMount, OneLink
<1>7. MountsOk(DefaultMounts(k), left) /\ LinksBack(DefaultMounts(k))
  <2>1. CASE k # "maven"
    BY <2>1, NoMount, NoLink DEF DefaultMounts
  <2>2. CASE k = "maven"
    <3> DEFINE g == UnlessReplaced(k, "gradle-plugins", "plugins.gradle.org")
               a == UnlessReplaced(k, "google-maven", "dl.google.com")
    <3>1. MountsOk(g, left) /\ MountsOk(a, left)
      BY KindsAreNames, UnlessReplacedOk
    <3>2. LinksBack(g) /\ LinksBack(a)
      <4>1. k # "gradle-plugins" /\ k # "google-maven"
        BY <2>2
      <4> QED BY <4>1, UnlessReplacedLinks
    <3>3. DefaultMounts(k) = g \o a
      BY <2>2 DEF DefaultMounts
    <3> HIDE DEF g, a
    <3> QED BY <3>1, <3>2, <3>3, MountConcat, ConcatLinks
  <2> QED BY <2>1, <2>2
<1> HIDE DEF own
<1>8. LinksBack(own \o <<>>) /\ LinksBack(own \o DefaultMounts(k))
  BY <1>6, <1>7, NoMount, NoLink, ConcatLinks
<1>9. \/ OwnMounts(k) = <<>>
      \/ OwnMounts(k) = own \o <<>>
      \/ OwnMounts(k) = own \o DefaultMounts(k)
  BY DEF OwnMounts, own, r, path
<1> QED BY <1>8, <1>9, NoLink

LEMMA ExtraLinks ==
  ASSUME LinksTold, cli \in CommandLines, NEW k \in Kinds,
         \A i \in DOMAIN cli.specs[k] : SpecOk(k, cli.specs[k][i])
  PROVE  LinksBack(ExtraMounts(k))
<1> SUFFICES ASSUME NEW i \in DOMAIN cli.specs[k]
             PROVE  LET r == SpecMount(k, cli.specs[k][i]) IN PathOf(r.proxyUrl) = r.path
  BY DEF ExtraMounts, LinksBack, Range
<1> DEFINE spec == cli.specs[k][i]
           name == Given(spec, "name")
           told == Given(spec, "proxy-url")
<1>1. spec \in Range(cli.specs[k]) /\ SpecOk(k, spec)
  BY DEF Range
<1>2. told # None => PathOf(told) = SpecPath(spec)
  BY <1>1 DEF LinksTold
<1> HIDE DEF spec
<1>3. spec # <<>>
  <2>1. Given(spec, "name") \in Names /\ None \notin Names
    BY <1>1, NoneAssumption DEF SpecOk
  <2> QED BY <2>1, NothingGiven
<1>4. ProxyUrl(k, name, SpecPath(spec), spec)
        = IF told # None THEN told ELSE DefaultProxyUrl(SpecPath(spec))
  BY <1>3 DEF ProxyUrl, StatedProxyUrl, Either
<1> HIDE DEF told
<1>5. PathOf(ProxyUrl(k, name, SpecPath(spec), spec)) = SpecPath(spec)
  BY <1>2, <1>4, DefaultLink
<1>6. LET r == SpecMount(k, spec) IN
      r.path = SpecPath(spec) /\ r.proxyUrl = ProxyUrl(k, name, SpecPath(spec), spec)
  BY InstanceLink DEF SpecMount
<1> QED BY <1>5, <1>6 DEF spec

LEMMA LayoutStep ==
  ASSUME LinksTold, StartInv, LayoutInv, [Next]_vars
  PROVE  LayoutInv'
<1>1. CASE ParseFlags
  BY <1>1 DEF ParseFlags, Refuse, Then, LayoutInv, LinksBack
<1>2. CASE MountKind
  <2>1. CASE phase' = "mounts"
    <3> DEFINE k == Head(todo)
    <3>1. /\ k \in Kinds /\ todo # <<>> /\ phase = "mounts" /\ todo' = Tail(todo)
          /\ instances' = instances \o OwnMounts(k) \o ExtraMounts(k)
          /\ MountsOk(instances, todo') /\ MountsOk(OwnMounts(k), todo')
          /\ MountsOk(ExtraMounts(k), todo')
      BY <1>2, <2>1, MountKindOk DEF MountKind, Refuse, Then
    <3>2. k \notin Range(todo') /\ cli \in CommandLines /\ PathOk(cli.path[k])
      BY <3>1, KindsToCome DEF StartInv
    <3>3. \A i \in DOMAIN cli.specs[k] : SpecOk(k, cli.specs[k][i])
      BY <1>2, <2>1, MountKindOk
    <3> HIDE DEF k
    <3>4. LinksBack(OwnMounts(k)) /\ LinksBack(ExtraMounts(k)) /\ LinksBack(instances)
      BY <3>1, <3>2, <3>3, OwnLinks, ExtraLinks DEF LayoutInv
    <3>5. MountsOk(instances \o OwnMounts(k), todo') /\ LinksBack(instances \o OwnMounts(k))
      BY <3>1, <3>4, MountConcat, ConcatLinks
    <3>6. LinksBack(instances')
      BY <3>1, <3>4, <3>5, ConcatLinks
    <3> QED BY <2>1, <3>6 DEF LayoutInv, LinksBack
  <2>2. CASE phase' # "mounts"
    BY <1>2, <2>2 DEF MountKind, Refuse, Then, LayoutInv, LinksBack
  <2> QED BY <2>1, <2>2
<1>3. CASE CheckNames
  BY <1>3 DEF CheckNames, Refuse, Then, LayoutInv, LinksBack
<1>4. CASE AttachAuth
  <2>1. CASE phase' = "layout"
    <3>1. /\ DOMAIN instances' = DOMAIN instances
          /\ \A i \in DOMAIN instances :
               instances'[i].path = instances[i].path
               /\ instances'[i].proxyUrl = instances[i].proxyUrl
      BY <1>4, <2>1, AttachAuthOk
    <3>2. LinksBack(instances')
      BY <3>1 DEF LayoutInv, LinksBack, Range
    <3> QED BY <2>1, <3>2 DEF LayoutInv, LinksBack
  <2>2. CASE phase' # "layout"
    BY <1>4, <2>2 DEF AttachAuth, Refuse, Then, LayoutInv, LinksBack
  <2> QED BY <2>1, <2>2
<1>5. CASE CheckLayout
  BY <1>5 DEF CheckLayout, Refuse, Then, LayoutInv, LinksBack, LayoutOk
<1>6. CASE Build \/ UNCHANGED vars
  <2>1. /\ instances' = instances
        /\ phase' = phase \/ phase = "build"
    BY <1>6 DEF Build, Then, vars
  <2> QED BY <2>1 DEF LayoutInv, LinksBack, LayoutOk
<1> QED BY <1>1, <1>2, <1>3, <1>4, <1>5, <1>6 DEF Next

-----------------------------------------------------------------------------
(* The router.                                                             *)

LEMMA PrefixAt ==
  ASSUME NEW S, NEW s \in Seq(S), NEW t \in Seq(S)
  PROVE  IsPrefix(s, t) <=> Len(s) <= Len(t) /\ \A i \in 1..Len(s) : s[i] = t[i]
<1>1. Len(s) \in Nat /\ Len(t) \in Nat
  BY LenProperties
<1>2. SubSeq(s, 1, Len(s)) = s
  BY SubSeqFull
<1>3. ASSUME Len(s) <= Len(t)
      PROVE  SubSeq(s, 1, Len(s)) = SubSeq(t, 1, Len(s))
               <=> \A i \in 1..Len(s) : s[i] = t[i]
  <2> DEFINE u == SubSeq(t, 1, Len(s))
  <2>1. \A i \in 1..Len(s) : t[i] \in S
    <3>1. \A i \in 1..Len(s) : i \in 1..Len(t)
      BY <1>1, <1>3
    <3> QED BY <3>1, ElementOfSeq
  <2>2. /\ u \in Seq(S) /\ Len(u) = IF 1 <= Len(s) THEN Len(s) - 1 + 1 ELSE 0
        /\ \A i \in 1..(Len(s) - 1 + 1) : u[i] = t[1 + i - 1]
    BY <1>1, <2>1, SubSeqProperties
  <2> HIDE DEF u
  <2>3. Len(u) = Len(s) /\ \A i \in 1..Len(s) : u[i] = t[i]
    BY <1>1, <2>2
  <2>4. s = u <=> \A i \in 1..Len(s) : s[i] = u[i]
    BY <2>2, <2>3, SeqEqual
  <2> QED BY <1>2, <2>3, <2>4 DEF u
<1> QED BY <1>3 DEF IsPrefix

(* Two prefixes of one path are the same, or one is inside the other.      *)
LEMMA PrefixesClash ==
  ASSUME NEW S, NEW s \in Seq(S), NEW t \in Seq(S), NEW path \in Seq(S),
         s # <<>>, t # <<>>, IsPrefix(s, path), IsPrefix(t, path)
  PROVE  Clash(s, t)
<1>1. Len(s) \in Nat /\ Len(t) \in Nat /\ Len(path) \in Nat
  BY LenProperties
<1>2. /\ \A i \in 1..Len(s) : s[i] = path[i]
      /\ \A i \in 1..Len(t) : t[i] = path[i]
  BY PrefixAt
<1>3. CASE Len(s) <= Len(t)
  <2>1. \A i \in 1..Len(s) : s[i] = t[i]
    BY <1>1, <1>2, <1>3
  <2>2. IsPrefix(s, t)
    BY <1>3, <2>1, PrefixAt
  <2> QED BY <2>2 DEF Clash, Nests, IsStrictPrefix
<1>4. CASE Len(t) <= Len(s)
  <2>1. \A i \in 1..Len(t) : t[i] = s[i]
    BY <1>1, <1>2, <1>4
  <2>2. IsPrefix(t, s)
    BY <1>4, <2>1, PrefixAt
  <2> QED BY <2>2 DEF Clash, Nests, IsStrictPrefix
<1> QED BY <1>1, <1>3, <1>4

LEMMA ClashBothWays == \A s, t : Clash(s, t) <=> Clash(t, s)
  BY DEF Clash

(* What mount::check leaves of the layout.                                 *)
LEMMA LaidOut ==
  ASSUME StartInv, LayoutOk
  PROVE  /\ \A i \in DOMAIN instances : instances[i].path \in Seq(STRING)
         /\ \A i, j \in DOMAIN instances :
              i # j => ~Clash(instances[i].path, instances[j].path)
         /\ \A i, j \in DOMAIN instances : instances[i].path = <<>> => j = i
         /\ \A i \in DOMAIN instances :
              instances[i].path # <<>> => instances[i].path[1] \notin RESERVED
<1>1. /\ Len(instances) \in Nat /\ DOMAIN instances = 1..Len(instances)
      /\ \A i \in DOMAIN instances : instances[i].path \in Seq(STRING)
  BY MountAt DEF StartInv, MountOk, PathParsed
<1>2. \A i \in DOMAIN instances : \A j \in 1..(i - 1) :
        ~Clash(instances[j].path, instances[i].path)
  BY DEF LayoutOk
<1>3. ASSUME NEW i \in DOMAIN instances, NEW j \in DOMAIN instances, i # j
      PROVE  ~Clash(instances[i].path, instances[j].path)
  <2>1. i \in 1..(j - 1) \/ j \in 1..(i - 1)
    BY <1>1, <1>3
  <2> QED BY <1>2, <2>1, ClashBothWays
<1>4. ASSUME NEW i \in DOMAIN instances, NEW j \in DOMAIN instances, instances[i].path = <<>>
      PROVE  j = i
  <2>1. Len(instances) = 1
    BY <1>4 DEF LayoutOk
  <2> QED BY <1>1, <2>1
<1>5. \A i \in DOMAIN instances :
        instances[i].path # <<>> => instances[i].path[1] \notin RESERVED
  BY DEF LayoutOk, ReservedConflict
<1> QED BY <1>1, <1>3, <1>4, <1>5

LEMMA LongPath ==
  ASSUME NEW S, NEW path \in Seq(S), Len(path) > 1, NEW a
  PROVE  path # <<>> /\ path # <<a>>
<1>1. Len(<<>>) = 0 /\ Len(<<a>>) = 1
  OBVIOUS
<1>2. Len(path) # 0 /\ Len(path) # 1
  <2>1. Len(path) \in Nat
    BY LenProperties
  <2>2. \A n \in Nat : n > 1 => n # 0 /\ n # 1
    OBVIOUS
  <2> QED BY <2>1, <2>2, Zenon
<1> QED BY <1>1, <1>2

(* A path under a mount's own, of more segments: only it answers.          *)
LEMMA OneOwner ==
  ASSUME StartInv, LayoutOk, NEW i \in DOMAIN instances,
         NEW S, STRING \subseteq S, NEW path \in Seq(S),
         instances[i].path # <<>>, IsPrefix(instances[i].path, path), Len(path) > 1
  PROVE  Owners(path) = {i}
<1> DEFINE p == instances[i].path
<1>1. p \in Seq(S) /\ Len(p) \in Nat \ {0} /\ Len(path) \in Nat
  <2>1. p \in Seq(S)
    BY LaidOut, SeqMonotonic
  <2> QED BY <2>1, EmptySeq, LenProperties
<1>2. path[1] = p[1] /\ path[1] \notin RESERVED
  <2>1. path[1] = p[1]
    BY <1>1, PrefixAt
  <2> QED BY <2>1, LaidOut
<1>3. \A j \in DOMAIN instances : instances[j].path # <<>>
  BY LaidOut
<1>4. RootRoutes(path) = {} /\ Fallback = {}
  BY <1>3 DEF RootRoutes, Fallback
<1>5. ~TopRoutes(path)
  <2>1. path # <<>> /\ path # <<"healthz">> /\ path # <<"metrics">>
    BY <1>1, LongPath
  <2> QED BY <1>2, <2>1 DEF TopRoutes, RESERVED
<1>6. Nested(path) = {i}
  <2>1. i \in Nested(path)
    BY DEF Nested
  <2>2. ASSUME NEW j \in Nested(path) PROVE j = i
    <3>1. /\ j \in DOMAIN instances /\ instances[j].path # <<>>
          /\ instances[j].path \in Seq(S) /\ IsPrefix(instances[j].path, path)
      BY LaidOut, SeqMonotonic DEF Nested
    <3>2. Clash(instances[j].path, p)
      BY <1>1, <3>1, PrefixesClash
    <3> QED BY <3>1, <3>2, LaidOut
  <2> QED BY <2>1, <2>2
<1> QED BY <1>4, <1>5, <1>6 DEF Owners

LEMMA PairSeq ==
  ASSUME NEW S, NEW a \in S, NEW b \in S
  PROVE  <<a>> \in Seq(S) /\ <<a, b>> \in Seq(S) /\ Len(<<a, b>>) = 2
<1>1. <<>> \in Seq(S)
  BY EmptySeq
<1>2. <<a>> = Append(<<>>, a) /\ <<a, b>> = Append(<<a>>, b) /\ Len(<<a, b>>) = 2
  OBVIOUS
<1>3. <<a>> \in Seq(S)
  BY <1>1, <1>2, AppendProperties
<1> QED BY <1>2, <1>3, AppendProperties

LEMMA LinkPath ==
  ASSUME NEW S, NEW path \in Seq(S), NEW a \in S, NEW b \in S
  PROVE  LET link == path \o <<a, b>> IN
         /\ link \in Seq(S) /\ Len(link) > 1 /\ IsPrefix(path, link)
         /\ path = <<>> => link = <<a, b>>
<1> DEFINE link == path \o <<a, b>>
<1>1. <<a, b>> \in Seq(S) /\ Len(<<a, b>>) = 2
  BY PairSeq
<1>2. Len(path) \in Nat
  BY LenProperties
<1>3. /\ link \in Seq(S) /\ Len(link) = Len(path) + Len(<<a, b>>)
      /\ \A i \in 1..(Len(path) + Len(<<a, b>>)) :
           link[i] = IF i <= Len(path) THEN path[i] ELSE <<a, b>>[i - Len(path)]
  BY <1>1, ConcatProperties
<1>4. path = <<>> => link = <<a, b>>
  BY <1>1, ConcatEmptySeq
<1> HIDE DEF link
<1>5. \A i \in 1..Len(path) : path[i] = link[i]
  BY <1>1, <1>2, <1>3
<1>6. Len(path) <= Len(link) /\ Len(link) > 1
  BY <1>1, <1>2, <1>3
<1>7. IsPrefix(path, link)
  BY <1>3, <1>5, <1>6, PrefixAt
<1> QED BY <1>3, <1>4, <1>6, <1>7 DEF link

(* A lone mount at "/" answers what no route of the server's does.         *)
LEMMA LoneOwner ==
  ASSUME StartInv, LayoutOk, NEW i \in DOMAIN instances, instances[i].path = <<>>
  PROVE  Owners(<<"some", "file">>) = {i}
<1> DEFINE path == <<"some", "file">>
<1>1. DOMAIN instances = {i}
  BY LaidOut
<1>2. Len(path) = 2 /\ path[1] = "some"
  OBVIOUS
<1>3. path # <<>> /\ path # <<"healthz">> /\ path # <<"metrics">>
  <2>1. path \in Seq({"some", "file"})
    BY PairSeq
  <2>2. Len(path) > 1
    BY <1>2
  <2> HIDE DEF path
  <2> QED BY <2>1, <2>2, LongPath
<1> HIDE DEF path
<1>4. ~CratesRoute(path)
  BY <1>2 DEF CratesRoute
<1>5. RootRoutes(path) = {} /\ Nested(path) = {} /\ Fallback = {i}
  BY <1>1, <1>4 DEF RootRoutes, Nested, Fallback
<1>6. ~TopRoutes(path)
  BY <1>2, <1>3 DEF TopRoutes
<1> QED BY <1>5, <1>6 DEF Owners, path

LEMMA LinksOwned ==
  ASSUME StartInv, LayoutInv, Serving
  PROVE  LinksComeBack
<1> SUFFICES ASSUME NEW i \in DOMAIN instances
             PROVE  Owners(PathOf(instances[i].proxyUrl) \o <<"some", "file">>) = {i}
  BY DEF LinksComeBack
<1> DEFINE p == instances[i].path
           link == p \o <<"some", "file">>
           S == STRING \cup {"some", "file"}
<1>1. LayoutOk /\ PathOf(instances[i].proxyUrl) = p
  BY DEF LayoutInv, LinksBack, Range, Serving
<1>2. p \in Seq(S) /\ STRING \subseteq S /\ "some" \in S /\ "file" \in S
  <2>1. STRING \subseteq S /\ "some" \in S /\ "file" \in S
    OBVIOUS
  <2>2. p \in Seq(STRING)
    BY <1>1, LaidOut
  <2> HIDE DEF S, p
  <2> QED BY <2>1, <2>2, SeqMonotonic
<1> HIDE DEF S
<1>3. /\ link \in Seq(S) /\ Len(link) > 1 /\ IsPrefix(p, link)
      /\ p = <<>> => link = <<"some", "file">>
  BY <1>2, LinkPath
<1> HIDE DEF link
<1>4. Owners(link) = {i}
  <2>1. CASE p = <<>>
    BY <1>1, <1>3, <2>1, LoneOwner
  <2>2. CASE p # <<>>
    BY <1>1, <1>2, <1>3, <2>2, OneOwner
  <2> QED BY <2>1, <2>2
<1> QED BY <1>1, <1>4 DEF link

LEMMA ReservedFree ==
  ASSUME StartInv, LayoutInv, Serving
  PROVE  ReservedAreFree
<1> SUFFICES ASSUME NEW r \in RESERVED, NEW x, NEW path \in {<<r>>, <<r, x>>}
             PROVE  Owners(path) \subseteq {0} \cup Fallback
  BY DEF ReservedAreFree
<1> DEFINE S == STRING \cup {r, x}
<1>0. path \in Seq(S) /\ path[1] = r /\ STRING \subseteq S
  <2>1. r \in S /\ x \in S /\ STRING \subseteq S
    OBVIOUS
  <2>2. <<r>>[1] = r /\ <<r, x>>[1] = r
    OBVIOUS
  <2> HIDE DEF S
  <2> QED BY <2>1, <2>2, PairSeq
<1> HIDE DEF S
<1>1. LayoutOk
  BY DEF LayoutInv, Serving
<1>2. Nested(path) = {}
  <2>1. SUFFICES ASSUME NEW j \in Nested(path) PROVE FALSE
    OBVIOUS
  <2> DEFINE p == instances[j].path
  <2>2. /\ j \in DOMAIN instances /\ p # <<>> /\ p \in Seq(S) /\ IsPrefix(p, path)
    BY <1>0, <1>1, LaidOut, SeqMonotonic DEF Nested
  <2>3. Len(p) \in Nat \ {0} /\ p[1] \notin RESERVED
    BY <1>1, <2>2, LaidOut, EmptySeq
  <2> HIDE DEF p
  <2>4. p[1] = path[1]
    BY <1>0, <2>2, <2>3, PrefixAt
  <2> QED BY <1>0, <2>3, <2>4
<1>3. RootRoutes(path) \subseteq Fallback
  BY DEF RootRoutes, Fallback
<1> QED BY <1>2, <1>3 DEF Owners

LEMMA LayoutAlways ==
  ASSUME LinksTold
  PROVE  Spec => [](StartInv /\ AuthInv /\ LayoutInv)
<1>1. Init => StartInv /\ AuthInv /\ LayoutInv
  <2>1. Init => AuthInv
    BY DEF Init, AuthInv
  <2>2. Init => LayoutInv
    BY NoLink DEF Init, LayoutInv
  <2> QED BY <2>1, <2>2, StartInit
<1>2. StartInv /\ AuthInv /\ LayoutInv /\ [Next]_vars => (StartInv /\ AuthInv /\ LayoutInv)'
  BY StartStep, AuthStep, LayoutStep
<1> QED BY <1>1, <1>2, PTL DEF Spec

(* "which has no unambiguous routing -- refuse it rather than pick a       *)
(* winner" (mount/path.rs:81): once it serves, however the mounts were     *)
(* made and ordered, a link a mount writes has that mount as its one       *)
(* owner, what lies under a reserved prefix is answered by no mount but    *)
(* one at "/", and no two mounts share a directory. The operator's own     *)
(* proxy URLs are taken to carry the path of the mount they are for.       *)
THEOREM RoutesApartHolds ==
  ASSUME LinksTold
  PROVE  Spec => []RoutesApart
<1>1. StartInv /\ AuthInv /\ LayoutInv => RoutesApart
  BY LinksOwned, ReservedFree DEF RoutesApart, AuthInv, Serving
<1> QED BY <1>1, LayoutAlways, PTL
=============================================================================
