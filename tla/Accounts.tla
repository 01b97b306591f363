------------------------------ MODULE Accounts ------------------------------
(***************************************************************************)
(* The UI's accounts: the users and sessions tables, the set of identity-  *)
(* provider users the process has already provisioned, and the requests    *)
(* that sign people in and out and change accounts, in both modes the      *)
(* process can be started in.                                              *)
(*                                                                         *)
(* A request is a chain of steps, one for each statement it has the        *)
(* database run: every statement is atomic, nothing holds two together     *)
(* except the transaction of the first-user signup, and other requests and *)
(* restarts interleave between them.                                       *)
(***************************************************************************)
EXTENDS Naturals, FiniteSets

CONSTANTS
  Clients,            \* browsers; each has at most one request under way
  Names, Passwords,
  NoName, NoPw,       \* no name asked for; no password set or asked for
  AdminName, AdminPw, \* what --ui-admin-username and -password say
  CommandLines,       \* the --ui-* flags the operator may start with
  MaxId, MaxToken, MaxFaults    \* bounds of accounts, sessions and faults

ASSUME AccountsAssumption ==
  /\ NoName \notin Names /\ NoPw \notin Passwords
  /\ AdminName \in Names /\ AdminPw \in Passwords
  /\ CommandLines \subseteq [auth : {"builtin", "oidc"}, header : BOOLEAN, signup : BOOLEAN,
                             adminName : BOOLEAN, adminPw : BOOLEAN]
  /\ MaxId \in Nat \ {0} /\ MaxToken \in Nat /\ MaxFaults \in Nat

VARIABLES
  config,       \* the running process' UiConfig
  users,        \* the users table, by id
  lastId,       \* the last id AUTOINCREMENT handed out
  sessions,     \* the unexpired rows of the sessions table
  minted,       \* tokens minted so far
  provisioned,  \* UiStateInner.provisioned
  jar,          \* the session cookie of a browser; 0: none
  req,          \* a browser's request under way: the handler's locals
  faults

tables == <<users, lastId, sessions, minted>>
vars == <<config, tables, provisioned, jar, req, faults>>

Ids == 1..MaxId
NoRow == [name |-> NoName, source |-> "none", pw |-> NoPw]

(* ident: the Identity the middleware attached; id: the account acted on;  *)
(* name, pw: what the request says; proof: the password it was verified by;*)
(* newName, newPw: the changes it asks for.                                *)
NoRequest ==
  [pc |-> "idle", ident |-> 0, id |-> 0, name |-> NoName, pw |-> NoPw,
   newName |-> NoName, newPw |-> NoPw]

NoOp == UNCHANGED <<config, tables, provisioned, jar, faults>>
At(c, pc) == req[c].pc = pc
Goto(c, r) == req' = [req EXCEPT ![c] = r]
Done(c) == Goto(c, NoRequest)
Fault == faults < MaxFaults /\ faults' = faults + 1

Exists(id) == users[id] # NoRow
NameTaken(name) == \E id \in Ids : users[id].name = name
IdOf(name) == CHOOSE id \in Ids : users[id].name = name
-----------------------------------------------------------------------------
(* Starting: resolve_ui, the migration, the bootstrap admin.               *)

ValidUi(cli) ==
  /\ cli.auth = "oidc" => cli.header /\ ~cli.signup /\ ~cli.adminName /\ ~cli.adminPw
  /\ cli.auth = "builtin" => ~cli.header
  /\ cli.adminName = cli.adminPw

ResolveUi(cli) == [mode |-> cli.auth, signup |-> cli.signup, admin |-> cli.adminName]
Configs == {ResolveUi(cli) : cli \in {l \in CommandLines : ValidUi(l)}}

(* INSERT INTO users: a new row under the next id, never a used one.       *)
LeastFreeId == CHOOSE id \in Ids : ~Exists(id) /\ \A j \in 1..(id - 1) : Exists(j) \* mutation

NextId == lastId + 1

MayInsert(name) == lastId < MaxId /\ ~NameTaken(name)

Insert(row) ==
  /\ users' = [users EXCEPT ![NextId] = row]
  /\ lastId' = lastId + 1

AdminRow == [name |-> AdminName, source |-> "builtin", pw |-> AdminPw]

BootstrapOverwrites(cfg) ==   \* mutation: the flags win over the table
  IF ~cfg.admin THEN UNCHANGED <<users, lastId>>
  ELSE IF NameTaken(AdminName)
    THEN users' = [users EXCEPT ![IdOf(AdminName)] = AdminRow] /\ UNCHANGED lastId
    ELSE MayInsert(AdminName) /\ Insert(AdminRow)

BootstrapAdmin(cfg) ==
  IF cfg.admin /\ ~NameTaken(AdminName)
    THEN MayInsert(AdminName) /\ Insert(AdminRow)
    ELSE UNCHANGED <<users, lastId>>

(* The process stops at any step and starts again, perhaps reconfigured:   *)
(* only the database and the browsers' cookies survive.                    *)
Restart(cfg) ==
  /\ Fault
  /\ config' = cfg
  /\ provisioned' = {}
  /\ req' = [c \in Clients |-> NoRequest]
  /\ BootstrapAdmin(cfg)
  /\ UNCHANGED <<sessions, minted, jar>>
-----------------------------------------------------------------------------
(* Who is asking: the identity middleware.                                 *)

(* What an identified caller may ask for that changes something. In oidc   *)
(* mode creating and changing accounts is answered 409.                    *)
ToDelete(ident, id) == [NoRequest EXCEPT !.pc = "target", !.ident = ident, !.id = id]
ToCreate(ident, n, p) ==
  [NoRequest EXCEPT !.pc = "create", !.ident = ident, !.name = n, !.pw = p]
ToUpdate(ident, n, p) ==
  [NoRequest EXCEPT !.pc = "profile", !.ident = ident, !.id = ident, !.newName = n, !.newPw = p]

Wishes(ident) ==
  {ToDelete(ident, id) : id \in Ids \ {ident}}
  \cup (IF config.mode = "oidc" THEN {} ELSE
    {ToCreate(ident, n, p) : n \in Names, p \in Passwords}
    \cup {ToUpdate(ident, n, p) : n \in Names \cup {NoName}, p \in Passwords \cup {NoPw}})

(* resolve_session: the owner of the cookie's session, if both exist.      *)
ResolveSession(c) ==
  /\ At(c, "idle") /\ config.mode = "builtin"
  /\ \E s \in sessions :
       /\ s.token = jar[c] /\ Exists(s.user)
       /\ \E r \in Wishes(s.user) : Goto(c, r)
  /\ NoOp

(* resolve_oidc: a name seen before goes straight to its row.              *)
ResolveOidc(c, name) ==
  /\ At(c, "idle") /\ config.mode = "oidc"
  /\ Goto(c, [NoRequest EXCEPT !.pc = IF name \in provisioned THEN "find" ELSE "seen",
                               !.name = name])
  /\ NoOp

(* provision_oidc_user's lookup; a row of that name, whatever its source,  *)
(* will do.                                                                *)
SeenBefore(c) ==
  /\ At(c, "seen")
  /\ \/ /\ NameTaken(req[c].name)
        /\ provisioned' = provisioned \cup {req[c].name}
        /\ Goto(c, [req[c] EXCEPT !.pc = "find"])
     \/ /\ ~NameTaken(req[c].name)
        /\ provisioned' = provisioned
        /\ Goto(c, [req[c] EXCEPT !.pc = "provision"])
  /\ UNCHANGED <<config, tables, jar, faults>>

(* Its insert; losing the race for the name is as good.                    *)
Provision(c) ==
  LET row == [name |-> req[c].name, source |-> "oidc", pw |-> NoPw] IN
  /\ At(c, "provision")
  /\ \/ NameTaken(req[c].name) /\ UNCHANGED <<users, lastId>>
     \/ MayInsert(req[c].name) /\ Insert(row)
  /\ provisioned' = provisioned \cup {req[c].name}
  /\ Goto(c, [req[c] EXCEPT !.pc = "find"])
  /\ UNCHANGED <<config, sessions, minted, jar, faults>>

(* Any other failure of the insert is only logged as well.                 *)
ProvisionFails(c) ==
  /\ At(c, "provision") /\ Fault
  /\ provisioned' = provisioned \cup {req[c].name}
  /\ Goto(c, [req[c] EXCEPT !.pc = "find"])
  /\ UNCHANGED <<config, tables, jar>>

FindOidc(c) ==
  /\ At(c, "find")
  /\ \/ ~NameTaken(req[c].name) /\ Done(c)
     \/ /\ NameTaken(req[c].name)
        /\ \E r \in Wishes(IdOf(req[c].name)) : Goto(c, r)
  /\ NoOp
-----------------------------------------------------------------------------
(* Signing in and out.                                                     *)

Login(c, name, pw) ==
  /\ At(c, "idle") /\ config.mode = "builtin"
  /\ NameTaken(name) /\ users[IdOf(name)].pw = pw
  /\ Goto(c, [NoRequest EXCEPT !.pc = "mint", !.id = IdOf(name), !.pw = pw])
  /\ NoOp

(* The count and the insert are one transaction.                           *)
AnyoneFirstUser(c, name, pw) ==   \* mutation: only the name must be new
  /\ At(c, "idle") /\ config.mode = "builtin" /\ config.signup
  /\ MayInsert(name)
  /\ Insert([name |-> name, source |-> "builtin", pw |-> pw])
  /\ Goto(c, [NoRequest EXCEPT !.pc = "mint", !.id = NextId, !.pw = pw])
  /\ UNCHANGED <<config, sessions, minted, provisioned, jar, faults>>

FirstUser(c, name, pw) ==
  /\ At(c, "idle") /\ config.mode = "builtin" /\ config.signup
  /\ \A id \in Ids : ~Exists(id)
  /\ MayInsert(name)
  /\ Insert([name |-> name, source |-> "builtin", pw |-> pw])
  /\ Goto(c, [NoRequest EXCEPT !.pc = "mint", !.id = NextId, !.pw = pw])
  /\ UNCHANGED <<config, sessions, minted, provisioned, jar, faults>>

(* create_session: the foreign key refuses a row for an account that has   *)
(* been deleted meanwhile.                                                 *)
MintsForAnyId(c) ==           \* mutation: foreign keys off
  /\ minted < MaxToken
  /\ minted' = minted + 1
  /\ sessions' = sessions \cup {[token |-> minted', user |-> req[c].id, proof |-> req[c].pw]}
  /\ jar' = [jar EXCEPT ![c] = minted']

CreateSession(c) ==
  IF Exists(req[c].id)
    THEN /\ minted < MaxToken
         /\ minted' = minted + 1
         /\ sessions' = sessions \cup
              {[token |-> minted + 1, user |-> req[c].id, proof |-> req[c].pw]}
         /\ jar' = [jar EXCEPT ![c] = minted + 1]
    ELSE UNCHANGED <<minted, sessions, jar>>

Mint(c) ==
  /\ At(c, "mint")
  /\ CreateSession(c)
  /\ Done(c)
  /\ UNCHANGED <<config, users, lastId, provisioned, faults>>

Logout(c) ==
  /\ At(c, "idle") /\ jar[c] # 0
  /\ sessions' = {s \in sessions : s.token # jar[c]}
  /\ jar' = [jar EXCEPT ![c] = 0]
  /\ UNCHANGED <<config, users, lastId, minted, provisioned, req, faults>>

(* The session reaches expires_at: no lookup counts it any more, and the   *)
(* retention sweep deletes the row.                                        *)
Expire(s) ==
  /\ sessions' = sessions \ {s}
  /\ UNCHANGED <<config, users, lastId, minted, provisioned, jar, req, faults>>
-----------------------------------------------------------------------------
(* Changing accounts.                                                      *)

CreateUser(c) ==
  LET r == req[c] IN
  /\ At(c, "create")
  /\ \/ NameTaken(r.name) /\ UNCHANGED <<users, lastId>>
     \/ MayInsert(r.name) /\ Insert([name |-> r.name, source |-> "builtin", pw |-> r.pw])
  /\ Done(c)
  /\ UNCHANGED <<config, sessions, minted, provisioned, jar, faults>>

(* handle_delete: look at the target first, never yourself.                *)
AnyTarget(id) == Exists(id)             \* mutation: no 409 for oidc rows

Deletable(id) == Exists(id) /\ users[id].source # "oidc"

CheckTarget(c) ==
  /\ At(c, "target")
  /\ IF Deletable(req[c].id) THEN Goto(c, [req[c] EXCEPT !.pc = "delete"]) ELSE Done(c)
  /\ NoOp

(* ON DELETE CASCADE takes the account's sessions along.                   *)
DeleteUser(c) ==
  /\ At(c, "delete")
  /\ users' = [users EXCEPT ![req[c].id] = NoRow]
  /\ sessions' = {s \in sessions : s.user # req[c].id}
  /\ Done(c)
  /\ UNCHANGED <<config, lastId, minted, provisioned, jar, faults>>

(* handle_update_me: the row, and the current password against it; whoever *)
(* does not know it is answered 401.                                       *)
VerifyCurrent(c) ==
  /\ At(c, "profile")
  /\ \/ /\ Exists(req[c].id) /\ users[req[c].id].pw # NoPw
        /\ Goto(c, [req[c] EXCEPT !.pc = "update"])
     \/ Done(c)
  /\ NoOp

(* The update names only the columns the request changes.                  *)
WholeRow(r, row) ==           \* mutation: a missing new name is written too
  [row EXCEPT !.name = r.newName, !.pw = IF r.newPw = NoPw THEN @ ELSE r.newPw]

Changed(r, row) ==
  [row EXCEPT !.name = IF r.newName = NoName THEN @ ELSE r.newName,
              !.pw = IF r.newPw = NoPw THEN @ ELSE r.newPw]

Update(c) ==
  LET r == req[c]
      free == \A id \in Ids \ {r.id} : r.newName = NoName \/ users[id].name # r.newName
  IN
  /\ At(c, "update")
  /\ IF Exists(r.id) /\ free
       THEN /\ users' = [users EXCEPT ![r.id] = Changed(r, users[r.id])]
            /\ Goto(c, IF r.newPw = NoPw THEN NoRequest ELSE [r EXCEPT !.pc = "purge"])
       ELSE UNCHANGED users /\ Done(c)
  /\ UNCHANGED <<config, lastId, sessions, minted, provisioned, jar, faults>>

(* A new password signs out every session but the request's own.           *)
Purge(c) ==
  /\ At(c, "purge")
  /\ sessions' = {s \in sessions : s.user = req[c].id => s.token = jar[c]}
  /\ Done(c)
  /\ UNCHANGED <<config, users, lastId, minted, provisioned, jar, faults>>

(* The client hangs up and the handler is dropped where it waits; or a     *)
(* statement fails, which ends it too (a failed purge is ignored).         *)
Disconnect(c) ==
  /\ ~At(c, "idle") /\ Fault
  /\ Done(c)
  /\ UNCHANGED <<config, tables, provisioned, jar>>
-----------------------------------------------------------------------------
Init ==
  /\ config \in Configs
  /\ users = [id \in Ids |-> IF config.admin /\ id = 1 THEN AdminRow ELSE NoRow]
  /\ lastId = IF config.admin THEN 1 ELSE 0
  /\ sessions = {} /\ minted = 0 /\ provisioned = {}
  /\ jar = [c \in Clients |-> 0]
  /\ req = [c \in Clients |-> NoRequest]
  /\ faults = 0

Identify(c) ==
  \/ ResolveSession(c)
  \/ \E name \in Names : ResolveOidc(c, name)
  \/ SeenBefore(c) \/ Provision(c) \/ ProvisionFails(c) \/ FindOidc(c)

SignInOrOut(c) ==
  \/ \E name \in Names, pw \in Passwords : Login(c, name, pw) \/ FirstUser(c, name, pw)
  \/ Mint(c) \/ Logout(c)

ChangeAccount(c) ==
  \/ CreateUser(c) \/ CheckTarget(c) \/ DeleteUser(c)
  \/ VerifyCurrent(c) \/ Update(c) \/ Purge(c)

Next ==
  \/ \E c \in Clients : Identify(c) \/ SignInOrOut(c) \/ ChangeAccount(c) \/ Disconnect(c)
  \/ \E s \in sessions : Expire(s)
  \/ \E cfg \in Configs : Restart(cfg)

Spec == Init /\ [][Next]_vars
-----------------------------------------------------------------------------
(* Properties.                                                             *)

Rows == [name : Names, source : {"builtin", "oidc"}, pw : Passwords \cup {NoPw}]
Pcs == {"idle", "seen", "provision", "find", "mint", "create", "target", "delete",
        "profile", "update", "purge"}
Requests ==
  [pc : Pcs, ident : 0..MaxId, id : 0..MaxId, name : Names \cup {NoName},
   pw : Passwords \cup {NoPw}, newName : Names \cup {NoName}, newPw : Passwords \cup {NoPw}]

(* Every variable ranges over the values the schema and the code's types   *)
(* allow; in particular every row has a name.                              *)
TypeOK ==
  /\ config \in [mode : {"builtin", "oidc"}, signup : BOOLEAN, admin : BOOLEAN]
  /\ users \in [Ids -> Rows \cup {NoRow}]
  /\ lastId \in 0..MaxId
  /\ sessions \subseteq [token : 1..MaxToken, user : Ids, proof : Passwords]
  /\ minted \in 0..MaxToken
  /\ provisioned \subseteq Names
  /\ jar \in [Clients -> 0..MaxToken]
  /\ req \in [Clients -> Requests]
  /\ faults \in 0..MaxFaults

(* However a deletion interleaves with the sign-ins, password changes and  *)
(* requests of the account's owner, no session outlives its account.       *)
SessionsHaveOwner == \A s \in sessions : Exists(s.user)

(* Neither a session nor a request that was let in before an account was   *)
(* deleted ever comes to act for, or on, an account created later.         *)
NobodyInherits ==
  [][\A id \in Ids : ~Exists(id) /\ users'[id] # NoRow =>
       /\ \A s \in sessions : s.user # id
       /\ \A c \in Clients : At(c, "delete") \/ At(c, "update") => req[c].id # id]_vars

(* identity.rs and manage.rs:83: an account the identity provider owns, once *)
(* there, stays as it is -- through every mode the process is restarted in,*)
(* and whoever shares the UI.                                              *)
ProviderAccountsStay ==
  [][\A id \in Ids : users[id].source = "oidc" => users'[id] = users[id]]_vars

(* bootstrap.rs:10 and profile.rs:35: an account that exists is changed by *)
(* its owner only, only in what was asked for, and never by a restart.     *)
OnlyOwnersChange ==
  [][\A id \in Ids : Exists(id) /\ users'[id] \notin {users[id], NoRow} =>
       \E c \in Clients :
         /\ At(c, "update") /\ req[c].ident = id
         /\ users'[id].name \in {users[id].name, req[c].newName}
         /\ users'[id].pw \in {users[id].pw, req[c].newPw}]_vars

(* setup.rs:54: a stranger's signup only ever makes the first account, and *)
(* the provider's mode makes none with a password: an account with a       *)
(* password comes from a member, from the flags, or is the only one.       *)
MembersAdmitMembers ==
  [][\A id \in Ids : ~Exists(id) /\ users'[id].pw # NoPw =>
       \/ \E c \in Clients : At(c, "create") /\ req[c].ident # 0
       \/ config'.admin /\ config'.mode = "builtin" /\ users'[id].name = AdminName
       \/ config.mode = "builtin" /\ \A j \in Ids \ {id} : ~Exists(j)]_vars

(* users_logs.rs:168 (tests): deletes are refused, so the provisioning     *)
(* cache can never brick a live user: a name it holds keeps its row.       *)
CacheNeverBricks ==
  [][\A name \in provisioned' :
       NameTaken(name) => \E id \in Ids : users'[id].name = name]_vars

(* profile.rs:98: a password change signs out every other session of the   *)
(* user: between changes, at most one session is older than the password.  *)
OtherSessionsSignedOut ==
  \A id \in Ids :
    (\A c \in Clients : req[c].id = id => ~At(c, "purge")) =>
      Cardinality({s \in sessions : s.user = id /\ s.proof # users[id].pw}) <= 1
=============================================================================
