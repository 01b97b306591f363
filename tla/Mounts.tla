------------------------------- MODULE Mounts -------------------------------
(***************************************************************************)
(* Starting chilled-proxy: from the command line and the environment to    *)
(* the mounts it serves, each with its path, settings, links, upstream     *)
(* credentials and HTTP client -- or to a refusal. Then the router over    *)
(* them. A path is its sequence of segments; "/" is <<>>, and an empty     *)
(* segment is what a doubled or trailing slash leaves.                     *)
(***************************************************************************)
EXTENDS Naturals, SequencesExt

CONSTANTS
  CommandLines, Environments,  \* what the operator may type and export
  Names,       \* mount names
  EnvToken,    \* the CHILLED_<NAME>_ token a name folds into
  Fields,      \* the settings resolved for a mount
  BuiltIn,     \* a kind's own default of a field
  BadSegments, \* ".", ".." and segments of other characters
  None         \* not given

Kinds == {"crates", "npm", "pypi", "maven"}
ALL == <<"crates", "npm", "pypi", "maven">>
Headers == {"Authorization", "X-Team"}
Tokens == {EnvToken[n] : n \in Names}
Blank == ""   \* what a doubled or trailing slash leaves, and an empty value

ASSUME NamesAssumption ==
  /\ Kinds \cup {"gradle-plugins", "google-maven"} \subseteq Names
  /\ Names \subseteq STRING /\ Names \cap ({Blank} \cup BadSegments) = {}   \* parse_name

ASSUME NoneAssumption ==
  /\ None \notin Names \cup {"index", "files"}
  /\ \A n \in Names : None \notin {<<"flag", n>>, <<"env", EnvToken[n]>>}
  /\ \A k \in Kinds : \A f \in Fields : BuiltIn[k][f] # None

VARIABLES
  cli, env,   \* what this process was started with
  phase,      \* how far the start has come
  todo,       \* the kinds whose mounts are still to be made
  instances,  \* the mounts, in order
  clients     \* the HTTP client of each mount: the headers it sends

vars == <<cli, env, phase, todo, instances, clients>>

NoHeaders == [h \in Headers |-> None]
Serving == phase = "serving"
-----------------------------------------------------------------------------
(* Paths.                                                                  *)

RESERVED == {"healthz", "metrics", "ui", "api"}

(* mount::parse drops trailing slashes and refuses odd segments.           *)
ParsePath(raw) ==
  SubSeq(raw, 1, CHOOSE n \in 0..Len(raw) :
    (n = 0 \/ raw[n] # Blank) /\ \A i \in (n + 1)..Len(raw) : raw[i] = Blank)

PathOk(raw) == Range(ParsePath(raw)) \cap ({Blank} \cup BadSegments) = {}

ReservedConflict(path) == path # <<>> /\ path[1] \in RESERVED

Nests(outer, inner) == outer # <<>> /\ IsStrictPrefix(outer, inner)

ClashBelow(prior, path) == prior = path \/ Nests(prior, path)  \* mutation: one way only

(* The same path, or one inside the other, whichever was given first.      *)
Clash(prior, path) == prior = path \/ Nests(prior, path) \/ Nests(path, prior)

(* mount::check.                                                           *)
LayoutOk ==
  /\ (\E i \in DOMAIN instances : instances[i].path = <<>>) => Len(instances) = 1
  /\ \A i \in DOMAIN instances :
       /\ ~ReservedConflict(instances[i].path)
       /\ \A j \in 1..(i - 1) : ~Clash(instances[j].path, instances[i].path)
-----------------------------------------------------------------------------
(* Mount specs: sequences of key-value pairs.                              *)

SecondaryKey(k) == [crates |-> "index", npm |-> None, pypi |-> "files", maven |-> None][k]

AcceptedKeys(k) ==
  {"name", "path", "upstream", "proxy-url"} \cup (Fields \ {"overrides"})
  \cup ({SecondaryKey(k)} \ {None}) \cup (IF k = "pypi" THEN {"file-hosts"} ELSE {})

Given(spec, key) ==
  IF \E i \in DOMAIN spec : spec[i][1] = key
    THEN spec[CHOOSE i \in DOMAIN spec : spec[i][1] = key][2] ELSE None

Either(a, b) == IF a # None THEN a ELSE b

(* What clap's types make of what is typed, and an environment's of what   *)
(* is exported: paths are text, two kinds have a second upstream.          *)
ASSUME TypedAssumption ==
  /\ \A c \in CommandLines : \A k \in Kinds :
       /\ c.path[k] \in Seq(STRING)
       /\ k \in {"crates", "pypi"} => c.secondary[k] # None
       /\ c.specs[k] \in Seq(Range(c.specs[k]))
       /\ \A spec \in Range(c.specs[k]) :
            Given(spec, "path") = None \/ Given(spec, "path") \in Seq(STRING)
  /\ \A e \in Environments : \A t \in Tokens : e.headers[t] \subseteq Headers

Unnamed(k, spec) ==   \* mutation: the name is not required
  /\ \A i \in DOMAIN spec : spec[i][1] \in AcceptedKeys(k)
  /\ Given(spec, "path") # None => PathOk(Given(spec, "path"))

(* Each key once, with a value, and one of the kind's; a name.             *)
SpecOk(k, spec) ==
  /\ \A i \in DOMAIN spec :
       /\ spec[i][1] \in AcceptedKeys(k) /\ spec[i][2] # Blank
       /\ \A j \in 1..(i - 1) : spec[j][1] # spec[i][1]
  /\ Given(spec, "name") \in Names
  /\ Given(spec, "path") # None => PathOk(Given(spec, "path"))

(* A mirror is not paired with the public index or file host.              *)
StatesBoth(k, spec) ==
  SecondaryKey(k) # None /\ Given(spec, "upstream") # None => Given(spec, SecondaryKey(k)) # None

(* The mount's value, else the registry's, else the general, else the kind's own. *)
Flagged(k, f) == Either(cli.registry[k][f], cli.general[f])
Setting(k, spec, f) == Either(Given(spec, f), Either(Flagged(k, f), BuiltIn[k][f]))

(* default_upstreams: where a kind's mounts fetch unless they say.         *)
Upstreams(k) == [primary |-> cli.upstream[k], secondary |-> cli.secondary[k]]

(* Where links rewritten for a mount lead: to the reverse proxy, else to   *)
(* the address listened on, with a routable host. A link is its host and   *)
(* its path.                                                               *)
DefaultProxyUrl(path) ==
  <<Either(cli.reverse, IF cli.listen = "0.0.0.0" THEN "127.0.0.1" ELSE cli.listen), path>>

PathOf(link) == link[2]

(* A spec's mount states its own or derives it; the registry's flag is for *)
(* the registry's own mount, not for a spec that takes its name. A mount   *)
(* no spec made has the spec <<>>.                                         *)
StatedProxyUrl(k, name, spec) ==
  IF spec # <<>> THEN Given(spec, "proxy-url")
  ELSE IF name = k THEN cli.proxyUrl[k] ELSE None

ProxyUrl(k, name, path, spec) == Either(StatedProxyUrl(k, name, spec), DefaultProxyUrl(path))

FileHosts(k, spec) ==
  IF k = "pypi" THEN Either(Given(spec, "file-hosts"), cli.fileHosts) ELSE None

Instance(k, name, path, upstream, spec) ==
  [kind |-> k, name |-> name, path |-> path, upstream |-> upstream,
   secondary |-> IF SecondaryKey(k) = None THEN None
                 ELSE Either(Given(spec, SecondaryKey(k)), Upstreams(k).secondary),
   settings |-> [f \in Fields |-> Setting(k, spec, f)],
   proxyUrl |-> ProxyUrl(k, name, path, spec),
   fileHosts |-> FileHosts(k, spec),
   auth |-> NoHeaders]

SpecNames(k) == {Given(cli.specs[k][i], "name") : i \in DOMAIN cli.specs[k]}

UnlessReplaced(k, name, upstream) ==
  IF name \in SpecNames(k) THEN <<>> ELSE <<Instance(k, name, <<name>>, upstream, <<>>)>>

DefaultMounts(k) ==
  IF k # "maven" THEN <<>>
  ELSE UnlessReplaced(k, "gradle-plugins", "plugins.gradle.org")
       \o UnlessReplaced(k, "google-maven", "dl.google.com")

(* A kind's own mount, then the built-in ones no spec replaces.            *)
OwnMounts(k) ==
  IF k \in cli.disabled THEN <<>>
  ELSE LET path == ParsePath(cli.path[k]) IN
    <<Instance(k, k, path, Upstreams(k).primary, <<>>)>>
    \o (IF cli.noDefaultMounts \/ path = <<>> THEN <<>> ELSE DefaultMounts(k))

(* The mount a spec asks for, under its name unless it says where.         *)
SpecPath(spec) ==
  IF Given(spec, "path") = None THEN <<Given(spec, "name")>> ELSE ParsePath(Given(spec, "path"))

SpecMount(k, spec) ==
  Instance(k, Given(spec, "name"), SpecPath(spec),
           Either(Given(spec, "upstream"), Upstreams(k).primary), spec)

ExtraMounts(k) == [i \in DOMAIN cli.specs[k] |-> SpecMount(k, cli.specs[k][i])]
-----------------------------------------------------------------------------
(* Upstream auth. A value is known by where it was stated.                 *)

FlagHeaders(name) == {h \in Headers : \E i \in DOMAIN cli.headers : cli.headers[i] = <<name, h>>}
FlagBasic(name) == \E i \in DOMAIN cli.basic : cli.basic[i] = name

(* Empty variables read as unset.                                          *)
EnvSet(t) == env.headers[t] # {} \/ env.user[t] # None \/ env.password[t]

AuthNamesServed ==
  LET served == {instances[i].name : i \in DOMAIN instances} IN
  /\ IsInjective(cli.basic)
  /\ Range(cli.basic) \subseteq served
  /\ {cli.headers[i][1] : i \in DOMAIN cli.headers} \subseteq served

TokenOf(i) == EnvToken[instances[i].name]

(* mutation: two names that fold into one token are let through            *)
TokensFold == \A t \in Tokens : EnvSet(t) => \E i \in DOMAIN instances : TokenOf(i) = t

(* check_auth_env: no token read by two mounts, no variable read by none.  *)
EnvNamesServed ==
  /\ \A i, j \in DOMAIN instances : TokenOf(i) = TokenOf(j) => i = j
  /\ \A t \in Tokens : EnvSet(t) => \E i \in DOMAIN instances : TokenOf(i) = t

(* auth::resolve: flags win over variables; half a pair, a user with a     *)
(* colon, and a pair beside an explicit Authorization are refused.         *)
StatedHeader(i, h) ==
  IF h \in FlagHeaders(instances[i].name) THEN <<"flag", instances[i].name>>
  ELSE IF h \in env.headers[TokenOf(i)] THEN <<"env", TokenOf(i)>> ELSE None

Credentials(i) ==
  IF FlagBasic(instances[i].name) THEN <<"flag", instances[i].name>>
  ELSE IF env.password[TokenOf(i)] THEN <<"env", TokenOf(i)>> ELSE None

AuthOk(i) ==
  /\ FlagBasic(instances[i].name) \/ (env.user[TokenOf(i)] # None <=> env.password[TokenOf(i)])
  /\ Credentials(i) # None =>
       /\ StatedHeader(i, "Authorization") = None
       /\ FlagBasic(instances[i].name) \/ env.user[TokenOf(i)] # "with:colon"

Auth(i) ==
  [h \in Headers |->
     IF h = "Authorization" /\ Credentials(i) # None THEN Credentials(i) ELSE StatedHeader(i, h)]
-----------------------------------------------------------------------------
(* The start, step by step.                                                *)

Init ==
  /\ cli \in CommandLines /\ env \in Environments
  /\ phase = "flags"
  /\ todo = ALL /\ instances = <<>> /\ clients = <<>>

Then(next) == phase' = next /\ UNCHANGED <<cli, env>>
Refuse == Then("refused") /\ UNCHANGED <<todo, instances, clients>>

(* clap parses the path flags.                                             *)
ParseFlags ==
  /\ phase = "flags"
  /\ IF \A k \in Kinds : PathOk(cli.path[k])
       THEN Then("mounts") /\ UNCHANGED <<todo, instances, clients>>
       ELSE Refuse

(* The mounts of the next kind.                                            *)
MountKind ==
  /\ phase = "mounts" /\ todo # <<>>
  /\ LET k == Head(todo) specs == cli.specs[k] IN
     IF \A i \in DOMAIN specs : SpecOk(k, specs[i]) /\ StatesBoth(k, specs[i])
       THEN /\ instances' = instances \o OwnMounts(k) \o ExtraMounts(k)
            /\ todo' = Tail(todo)
            /\ Then("mounts") /\ UNCHANGED clients
       ELSE Refuse

(* A name keys the cache directory: it must be unique among all kinds.     *)
CheckNames ==
  /\ phase = "mounts" /\ todo = <<>>
  /\ IF \A i, j \in DOMAIN instances : instances[i].name = instances[j].name => i = j
       THEN Then("auth") /\ UNCHANGED <<todo, instances, clients>>
       ELSE Refuse

AttachAuth ==
  /\ phase = "auth"
  /\ IF AuthNamesServed /\ EnvNamesServed /\ \A i \in DOMAIN instances : AuthOk(i)
       THEN /\ instances' = [i \in DOMAIN instances |-> [instances[i] EXCEPT !.auth = Auth(i)]]
            /\ Then("layout") /\ UNCHANGED <<todo, clients>>
       ELSE Refuse

CheckLayout ==
  /\ phase = "layout"
  /\ IF LayoutOk THEN Then("build") /\ UNCHANGED <<todo, instances, clients>> ELSE Refuse

(* Mounts without auth share a client; each other mount has its own.       *)
ClientOf(i) == IF instances[i].auth = NoHeaders THEN NoHeaders ELSE instances[i].auth

Build ==
  /\ phase = "build"
  /\ clients' = [i \in DOMAIN instances |-> ClientOf(i)]
  /\ Then("serving") /\ UNCHANGED <<todo, instances>>

Next ==
  ParseFlags \/ MountKind \/ CheckNames \/ AttachAuth \/ CheckLayout \/ Build

Spec == Init /\ [][Next]_vars
-----------------------------------------------------------------------------
(* The router: who answers a path. 0 is the server itself.                 *)

(* A crates mount has routes of its own; the others only a fallback.       *)
CratesRoute(path) ==
  \/ Len(path) > 1 /\ path[1] = "index"
  \/ Len(path) > 3 /\ SubSeq(path, 1, 3) = <<"api", "v1", "crates">>

RootRoutes(path) ==
  {i \in DOMAIN instances :
     instances[i].path = <<>> /\ instances[i].kind = "crates" /\ CratesRoute(path)}

Nested(path) ==
  {i \in DOMAIN instances : instances[i].path # <<>> /\ IsPrefix(instances[i].path, path)}

TopRoutes(path) ==
  \/ path \in {<<>>, <<"healthz">>}
  \/ cli.metrics /\ path = <<"metrics">>
  \/ cli.ui /\ path # <<>> /\ path[1] \in {"ui", "api"} /\ RootRoutes(path) = {}

Fallback == {i \in DOMAIN instances : instances[i].path = <<>>}

Owners(path) ==
  LET routed == Nested(path) \cup RootRoutes(path) \cup (IF TopRoutes(path) THEN {0} ELSE {}) IN
  IF routed # {} THEN routed ELSE Fallback
-----------------------------------------------------------------------------
(* Properties                                                              *)

TypeOK ==
  /\ phase \in {"flags", "mounts", "auth", "layout", "build", "serving", "refused"}
  /\ IsSuffix(todo, ALL)
  /\ \A i \in DOMAIN instances :
       /\ instances[i].kind \in Kinds \ Range(todo) /\ instances[i].name \in Names
       /\ PathOk(instances[i].path) /\ instances[i].path = ParsePath(instances[i].path)
       /\ \A f \in Fields : instances[i].settings[f] # None
       /\ instances[i].secondary # None <=> instances[i].kind \in {"crates", "pypi"}
  /\ DOMAIN clients = IF Serving THEN DOMAIN instances ELSE {}

(* What the operator states of a mount's proxy URL has the mount's path:   *)
(* the code takes it as it is.                                             *)
LinksTold ==
  \A c \in CommandLines : \A k \in Kinds :
    /\ c.proxyUrl[k] # None => PathOf(c.proxyUrl[k]) = ParsePath(c.path[k])
    /\ \A spec \in Range(c.specs[k]) :
         Given(spec, "proxy-url") # None => PathOf(Given(spec, "proxy-url")) = SpecPath(spec)

(* "which has no unambiguous routing -- refuse it rather than pick a       *)
(* winner" (mount/path.rs:81): whatever the order the mounts come in, a    *)
(* path has one owner; a link a mount writes into its metadata leads back  *)
(* to that mount; and what lies under a reserved prefix is answered by no  *)
(* mount but one at "/". Two mounts never share a cache directory.         *)
LinksComeBack ==
  \A i \in DOMAIN instances :
    Owners(PathOf(instances[i].proxyUrl) \o <<"some", "file">>) = {i}

ReservedAreFree ==
  \A r \in RESERVED : \A path \in {<<r>>} \cup {<<r, i>> : i \in Names \cup {"x"}} :
    Owners(path) \subseteq {0} \cup Fallback

DirectoriesApart ==
  \A i, j \in DOMAIN instances : instances[i].name = instances[j].name => i = j

RoutesApart == Serving => LinksComeBack /\ ReservedAreFree /\ DirectoriesApart

(* "Credentials never cross mounts" (README.md:214), and "Auth aimed at a  *)
(* mount that is not served would leave the real one unauthenticated"      *)
(* (instances.rs:311): what a mount's client sends was stated for that     *)
(* mount and could be read by no other; what was stated is sent by the     *)
(* mount it names, unless a flag replaces the variable.                    *)
SendsOnlyItsOwn ==
  \A i \in DOMAIN clients : \A h \in Headers : clients[i][h] # None =>
    \A j \in DOMAIN instances :
      clients[i][h] \in {<<"flag", instances[j].name>>, <<"env", TokenOf(j)>>} => j = i

FlagsAreSent ==
  /\ \A n \in Range(cli.basic) : \E i \in DOMAIN instances :
       instances[i].name = n /\ clients[i]["Authorization"] = <<"flag", n>>
  /\ \A n \in Names : \A h \in FlagHeaders(n) : \E i \in DOMAIN instances :
       instances[i].name = n /\ clients[i][h] = <<"flag", n>>

VariablesAreSent ==
  \A t \in Tokens : EnvSet(t) => \E i \in DOMAIN instances :
    /\ TokenOf(i) = t
    /\ \A h \in env.headers[t] : clients[i][h] \in {<<"env", t>>, <<"flag", instances[i].name>>}
    /\ env.password[t] => clients[i]["Authorization"] # None

CredentialsReachTheirMount == Serving => SendsOnlyItsOwn /\ FlagsAreSent /\ VariablesAreSent
=============================================================================
