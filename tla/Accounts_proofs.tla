-------------------------- MODULE Accounts_proofs --------------------------
(***************************************************************************)
(* Theorems about the UI's accounts, for any browsers, names, passwords,   *)
(* command lines and bounds. AccountsInv, inductive, says what the rows,   *)
(* and each request under way, owe to the ids handed out so far.           *)
(***************************************************************************)
EXTENDS Accounts, TLAPS

(* The tables: rows lie at ids handed out, provider rows have no password. *)
TablesOk(us, last) ==
  /\ us \in [Ids -> Rows \cup {NoRow}]
  /\ last \in 0..MaxId
  /\ \A id \in Ids : us[id] # NoRow => id <= last
  /\ \A id \in Ids : us[id].source = "oidc" => us[id].pw = NoPw

(* A request is about an id handed out, asks for what may be written, and  *)
(* one about to delete or update is not about a provider's row.            *)
RequestOk(r, us, last) ==
  /\ r \in Requests
  /\ r.pc \in {"seen", "provision", "find", "create"} => r.name \in Names
  /\ r.pc \in {"mint", "create"} => r.pw \in Passwords
  /\ r.pc \in {"target", "mint", "delete", "profile", "update", "purge"} => r.id \in Ids
  /\ r.pc \in {"mint", "delete", "profile", "update", "purge"} => r.id <= last
  /\ r.pc \in {"delete", "update"} => us[r.id].source # "oidc"
  /\ r.pc \in {"profile", "update"} => r.ident = r.id
  /\ r.pc = "create" => r.ident # 0

SessionsOk(us, ss) ==
  /\ ss \subseteq [token : 1..MaxToken, user : Ids, proof : Passwords]
  /\ \A s \in ss : us[s.user] # NoRow

AccountsInv ==
  /\ TypeOK
  /\ TablesOk(users, lastId)
  /\ SessionsOk(users, sessions)
  /\ \A c \in Clients : RequestOk(req[c], users, lastId)

(* What no step does to the tables: take back an id, or turn the row of an *)
(* id already handed out into a provider's.                                *)
Keeps(us, last, us2, last2) ==
  /\ last <= last2
  /\ \A id \in Ids : id <= last /\ us[id].source # "oidc" => us2[id].source # "oidc"
-----------------------------------------------------------------------------
LEMMA RowFacts ==
  /\ NoRow \notin Rows
  /\ \A row \in Rows : row.source # "none" /\ row.name \in Names
  /\ NoRow.source = "none" /\ NoRow.name = NoName /\ NoRow.pw = NoPw
BY DEF Rows, NoRow

LEMMA NoRequestOk ==
  ASSUME NEW us, NEW last
  PROVE  RequestOk(NoRequest, us, last)
<1>1. 0 \in 0..MaxId
  BY AccountsAssumption
<1> QED BY <1>1 DEF RequestOk, NoRequest, Requests, Pcs

LEMMA NoRequestIs ==
  /\ NoRequest \in Requests
  /\ NoRequest.ident = 0 /\ NoRequest.id = 0
BY AccountsAssumption DEF NoRequest, Requests, Pcs

(* The row of a name that is taken.                                        *)
LEMMA TakenFacts ==
  ASSUME NEW name \in Names, TablesOk(users, lastId), NameTaken(name)
  PROVE  /\ IdOf(name) \in Ids /\ users[IdOf(name)].name = name
         /\ users[IdOf(name)] # NoRow /\ IdOf(name) <= lastId
<1>1. IdOf(name) \in Ids /\ users[IdOf(name)].name = name
  BY DEF NameTaken, IdOf
<1>2. users[IdOf(name)] # NoRow
  BY <1>1, AccountsAssumption DEF NoRow
<1> QED BY <1>1, <1>2 DEF TablesOk

LEMMA InsertFacts ==
  ASSUME TablesOk(users, lastId), SessionsOk(users, sessions),
         NEW row \in Rows, row.source = "oidc" => row.pw = NoPw,
         lastId < MaxId, Insert(row)
  PROVE  /\ TablesOk(users', lastId') /\ SessionsOk(users', sessions)
         /\ Keeps(users, lastId, users', lastId')
         /\ lastId + 1 \in Ids /\ lastId' = lastId + 1
         /\ users[lastId + 1] = NoRow /\ users'[lastId + 1] = row
         /\ \A id \in Ids \ {lastId + 1} : users'[id] = users[id]
<1>1. lastId + 1 \in Ids /\ lastId' = lastId + 1 /\ lastId' \in 0..MaxId /\ lastId \in Nat
  BY AccountsAssumption DEF Insert, TablesOk, Ids
<1>2. users' = [users EXCEPT ![lastId + 1] = row]
  BY DEF Insert, NextId
<1>3. users[lastId + 1] = NoRow
  BY <1>1 DEF TablesOk, Ids
<1>4. users' \in [Ids -> Rows \cup {NoRow}]
  BY <1>1, <1>2 DEF TablesOk
<1>5. users'[lastId + 1] = row /\ \A id \in Ids \ {lastId + 1} : users'[id] = users[id]
  BY <1>1, <1>2 DEF TablesOk
<1>6. \A id \in Ids : id \in Nat
  BY DEF Ids
<1>7. TablesOk(users', lastId')
  <2>1. \A id \in Ids : users'[id] # NoRow => id <= lastId'
    BY <1>1, <1>5, <1>6 DEF TablesOk
  <2>2. \A id \in Ids : users'[id].source = "oidc" => users'[id].pw = NoPw
    BY <1>5 DEF TablesOk
  <2> QED BY <1>1, <1>4, <2>1, <2>2 DEF TablesOk
<1>8. SessionsOk(users', sessions)
  BY <1>3, <1>5 DEF SessionsOk
<1>9. Keeps(users, lastId, users', lastId')
  <2>1. \A id \in Ids : id <= lastId => users'[id] = users[id]
    BY <1>1, <1>5, <1>6
  <2> QED BY <2>1, <1>1 DEF Keeps
<1> QED BY <1>1, <1>3, <1>5, <1>7, <1>8, <1>9

(* A request that does not move stays as good as it was.                   *)
LEMMA RequestStays ==
  ASSUME NEW r, NEW us, NEW last \in Nat, NEW us2, NEW last2 \in Nat,
         RequestOk(r, us, last), Keeps(us, last, us2, last2)
  PROVE  RequestOk(r, us2, last2)
<1>1. \A id \in Ids : id <= last => id <= last2
  BY DEF Keeps, Ids
<1> QED BY <1>1 DEF RequestOk, Keeps

(* The invariant after a step of one client.                               *)
LEMMA ClientStep ==
  ASSUME AccountsInv, NEW c \in Clients, NEW r,
         TablesOk(users', lastId'), SessionsOk(users', sessions'),
         Keeps(users, lastId, users', lastId'),
         Goto(c, r), RequestOk(r, users', lastId'),
         config' = config, minted' \in 0..MaxToken, provisioned' \subseteq Names,
         jar' \in [Clients -> 0..MaxToken], faults' \in 0..MaxFaults
  PROVE  AccountsInv'
<1>1. lastId \in Nat /\ lastId' \in Nat
  BY DEF AccountsInv, TablesOk
<1>2. req' = [req EXCEPT ![c] = r]
  BY DEF Goto
<1>3. DOMAIN req = Clients
  BY DEF AccountsInv, TypeOK
<1>4. ASSUME NEW d \in Clients PROVE RequestOk(req'[d], users', lastId')
  <2>1. CASE d = c
    BY <2>1, <1>2, <1>3
  <2>2. CASE d # c
    <3>1. req'[d] = req[d] /\ RequestOk(req[d], users, lastId)
      BY <2>2, <1>2, <1>3 DEF AccountsInv
    <3> QED BY <3>1, <1>1, RequestStays
  <2> QED BY <2>1, <2>2
<1>5. req' \in [Clients -> Requests]
  <2>1. r \in Requests
    BY DEF RequestOk
  <2> QED BY <2>1, <1>2 DEF AccountsInv, TypeOK
<1>6. TypeOK'
  BY <1>5 DEF AccountsInv, TypeOK, TablesOk, SessionsOk
<1> QED BY <1>4, <1>6 DEF AccountsInv

LEMMA KeepsSame == ASSUME AccountsInv PROVE Keeps(users, lastId, users, lastId)
BY DEF Keeps, AccountsInv, TablesOk
-----------------------------------------------------------------------------
(* One lemma for each action.                                              *)

(* A step that moves a request and leaves the tables alone.                *)
LEMMA MovesOnly ==
  ASSUME AccountsInv, NEW c \in Clients, NEW r,
         Goto(c, r), RequestOk(r, users, lastId),
         UNCHANGED <<config, users, lastId>>,
         SessionsOk(users, sessions'), minted' \in 0..MaxToken,
         provisioned' \subseteq Names,
         jar' \in [Clients -> 0..MaxToken], faults' \in 0..MaxFaults
  PROVE  AccountsInv'
<1>1. TablesOk(users', lastId') /\ SessionsOk(users', sessions')
  BY DEF AccountsInv
<1>2. Keeps(users, lastId, users', lastId')
  BY KeepsSame
<1>3. RequestOk(r, users', lastId')
  OBVIOUS
<1> QED BY <1>1, <1>2, <1>3, ClientStep

LEMMA NoOpMoves ==
  ASSUME AccountsInv, NEW c \in Clients, NEW r,
         Goto(c, r), RequestOk(r, users, lastId), NoOp
  PROVE  AccountsInv'
<1>1. UNCHANGED <<config, users, lastId, sessions, minted, provisioned, jar, faults>>
  BY DEF NoOp, tables
<1> QED BY <1>1, MovesOnly DEF AccountsInv, TypeOK

LEMMA DoneMoves ==
  ASSUME NEW c \in Clients, Done(c)
  PROVE  Goto(c, NoRequest) /\ RequestOk(NoRequest, users, lastId)
BY NoRequestOk DEF Done

LEMMA WishesOk ==
  ASSUME AccountsInv, NEW ident \in Ids, Exists(ident), NEW r \in Wishes(ident)
  PROVE  RequestOk(r, users, lastId)
<1>0. Ids \subseteq 0..MaxId /\ 0 \in 0..MaxId /\ 0 \notin Ids
  BY AccountsAssumption DEF Ids
<1>1. ident <= lastId
  BY DEF Exists, AccountsInv, TablesOk
<1>2. ASSUME NEW id \in Ids PROVE RequestOk(ToDelete(ident, id), users, lastId)
  <2> DEFINE t == ToDelete(ident, id)
  <2>1. t \in Requests /\ t.pc = "target" /\ t.ident = ident /\ t.id = id
    BY <1>0, NoRequestIs DEF ToDelete, Requests, Pcs
  <2> HIDE DEF t
  <2>2. RequestOk(t, users, lastId)
    BY <2>1 DEF RequestOk
  <2> QED BY <2>2 DEF t
<1>3. ASSUME NEW n \in Names, NEW p \in Passwords
      PROVE  RequestOk(ToCreate(ident, n, p), users, lastId)
  <2> DEFINE t == ToCreate(ident, n, p)
  <2>1. t \in Requests /\ t.pc = "create" /\ t.ident = ident /\ t.name = n /\ t.pw = p
    BY <1>0, NoRequestIs DEF ToCreate, Requests, Pcs
  <2> HIDE DEF t
  <2>2. RequestOk(t, users, lastId)
    BY <2>1, <1>0 DEF RequestOk
  <2> QED BY <2>2 DEF t
<1>4. ASSUME NEW n \in Names \cup {NoName}, NEW p \in Passwords \cup {NoPw}
      PROVE  RequestOk(ToUpdate(ident, n, p), users, lastId)
  <2> DEFINE t == ToUpdate(ident, n, p)
  <2>1. t \in Requests /\ t.pc = "profile" /\ t.ident = ident /\ t.id = ident
    BY <1>0, NoRequestIs DEF ToUpdate, Requests, Pcs
  <2> HIDE DEF t
  <2>2. RequestOk(t, users, lastId)
    BY <2>1, <1>1 DEF RequestOk
  <2> QED BY <2>2 DEF t
<1>5. \/ \E id \in Ids : r = ToDelete(ident, id)
      \/ \E n \in Names, p \in Passwords : r = ToCreate(ident, n, p)
      \/ \E n \in Names \cup {NoName}, p \in Passwords \cup {NoPw} : r = ToUpdate(ident, n, p)
  BY DEF Wishes
<1> QED BY <1>2, <1>3, <1>4, <1>5

LEMMA ResolveSessionStep ==
  ASSUME AccountsInv, NEW c \in Clients, ResolveSession(c)
  PROVE  AccountsInv'
<1>1. PICK s \in sessions : Exists(s.user) /\ \E r \in Wishes(s.user) : Goto(c, r)
  BY DEF ResolveSession
<1>2. s.user \in Ids
  BY DEF AccountsInv, SessionsOk
<1>3. PICK r \in Wishes(s.user) : Goto(c, r)
  BY <1>1
<1>4. RequestOk(r, users, lastId)
  BY <1>1, <1>2, WishesOk
<1> QED BY <1>3, <1>4, NoOpMoves DEF ResolveSession

LEMMA ResolveOidcStep ==
  ASSUME AccountsInv, NEW c \in Clients, NEW name \in Names, ResolveOidc(c, name)
  PROVE  AccountsInv'
<1> DEFINE r == [NoRequest EXCEPT !.pc = IF name \in provisioned THEN "find" ELSE "seen",
                                  !.name = name]
<1>1. RequestOk(r, users, lastId)
  <2>1. r \in Requests /\ r.pc \in {"find", "seen"} /\ r.name = name
    BY NoRequestIs DEF Requests, Pcs
  <2> HIDE DEF r
  <2> QED BY <2>1 DEF RequestOk
<1>2. Goto(c, r) /\ NoOp
  BY DEF ResolveOidc
<1> HIDE DEF r
<1> QED BY <1>1, <1>2, NoOpMoves

(* A request that goes on to another step.                                 *)
LEMMA MovedOn ==
  ASSUME NEW r, NEW us, NEW last, NEW pc \in Pcs, RequestOk(r, us, last),
         pc \in {"seen", "provision", "find", "create"} => r.name \in Names,
         pc \in {"mint", "create"} => r.pw \in Passwords,
         pc \in {"target", "mint", "delete", "profile", "update", "purge"} => r.id \in Ids,
         pc \in {"mint", "delete", "profile", "update", "purge"} => r.id <= last,
         pc \in {"delete", "update"} => us[r.id].source # "oidc",
         pc \in {"profile", "update"} => r.ident = r.id,
         pc = "create" => r.ident # 0
  PROVE  RequestOk([r EXCEPT !.pc = pc], us, last)
<1> DEFINE s == [r EXCEPT !.pc = pc]
<1>1. r \in Requests
  BY DEF RequestOk
<1>2. /\ s \in Requests /\ s.pc = pc /\ s.name = r.name /\ s.pw = r.pw
      /\ s.id = r.id /\ s.ident = r.ident
  BY <1>1 DEF Requests
<1> HIDE DEF s
<1>3. RequestOk(s, us, last)
  BY <1>2 DEF RequestOk
<1> QED BY <1>3 DEF s

LEMMA FindsOk ==
  ASSUME AccountsInv, NEW c \in Clients, At(c, "seen") \/ At(c, "provision"),
         NEW pc \in {"find", "provision"}
  PROVE  /\ RequestOk([req[c] EXCEPT !.pc = pc], users, lastId)
         /\ req[c].name \in Names
<1>1. RequestOk(req[c], users, lastId)
  BY DEF AccountsInv
<1>2. req[c].name \in Names
  BY <1>1 DEF RequestOk, At
<1> QED BY <1>1, <1>2, MovedOn DEF Pcs

LEMMA SeenBeforeStep ==
  ASSUME AccountsInv, NEW c \in Clients, SeenBefore(c)
  PROVE  AccountsInv'
<1>1. PICK pc \in {"find", "provision"} : Goto(c, [req[c] EXCEPT !.pc = pc])
  BY DEF SeenBefore
<1>2. At(c, "seen")
  BY DEF SeenBefore
<1>3. RequestOk([req[c] EXCEPT !.pc = pc], users, lastId) /\ req[c].name \in Names
  BY <1>2, FindsOk
<1>4. provisioned' \subseteq Names
  BY <1>3 DEF SeenBefore, AccountsInv, TypeOK
<1>5. UNCHANGED <<config, users, lastId, sessions, minted, jar, faults>>
  BY DEF SeenBefore, tables
<1> QED BY <1>1, <1>3, <1>4, <1>5, MovesOnly DEF AccountsInv, TypeOK

LEMMA ProvisionStep ==
  ASSUME AccountsInv, NEW c \in Clients, Provision(c)
  PROVE  AccountsInv'
<1> DEFINE row == [name |-> req[c].name, source |-> "oidc", pw |-> NoPw]
           r == [req[c] EXCEPT !.pc = "find"]
<1>1. At(c, "provision") /\ Goto(c, r) /\ provisioned' = provisioned \cup {req[c].name}
  BY DEF Provision
<1>2. RequestOk(r, users, lastId) /\ req[c].name \in Names
  BY <1>1, FindsOk
<1>3. row \in Rows
  BY <1>2 DEF Rows
<1>4. provisioned' \subseteq Names
  BY <1>1, <1>2 DEF AccountsInv, TypeOK
<1>5. UNCHANGED <<config, sessions, minted, jar, faults>>
  BY DEF Provision
<1>6. CASE UNCHANGED <<users, lastId>>
  <2> HIDE DEF r
  <2> QED BY <1>1, <1>2, <1>4, <1>5, <1>6, MovesOnly DEF AccountsInv, TypeOK
<1>7. CASE MayInsert(req[c].name) /\ Insert(row)
  <2>1. /\ TablesOk(users', lastId') /\ SessionsOk(users', sessions)
        /\ Keeps(users, lastId, users', lastId')
    <3> HIDE DEF row
    <3>1. row.source = "oidc" => row.pw = NoPw
      BY DEF row
    <3> QED BY <1>3, <1>7, <3>1, InsertFacts DEF AccountsInv, MayInsert
  <2>2. lastId \in Nat /\ lastId' \in Nat
    BY <2>1 DEF AccountsInv, TablesOk
  <2> HIDE DEF r
  <2>3. RequestOk(r, users', lastId')
    BY <1>2, <2>1, <2>2, RequestStays
  <2> QED BY <1>1, <1>4, <1>5, <2>1, <2>3, ClientStep DEF AccountsInv, TypeOK
<1> QED BY <1>6, <1>7 DEF Provision

LEMMA FaultOk == ASSUME AccountsInv, Fault PROVE faults' \in 0..MaxFaults
BY AccountsAssumption DEF Fault, AccountsInv, TypeOK

LEMMA ProvisionFailsStep ==
  ASSUME AccountsInv, NEW c \in Clients, ProvisionFails(c)
  PROVE  AccountsInv'
<1> DEFINE r == [req[c] EXCEPT !.pc = "find"]
<1>1. At(c, "provision") /\ Goto(c, r) /\ provisioned' = provisioned \cup {req[c].name}
  BY DEF ProvisionFails
<1>2. RequestOk(r, users, lastId) /\ req[c].name \in Names
  BY <1>1, FindsOk
<1>3. provisioned' \subseteq Names
  BY <1>1, <1>2 DEF AccountsInv, TypeOK
<1>4. UNCHANGED <<config, users, lastId, sessions, minted, jar>>
  BY DEF ProvisionFails, tables
<1>5. faults' \in 0..MaxFaults
  BY FaultOk DEF ProvisionFails
<1> HIDE DEF r
<1> QED BY <1>1, <1>2, <1>3, <1>4, <1>5, MovesOnly DEF AccountsInv, TypeOK

LEMMA FindOidcStep ==
  ASSUME AccountsInv, NEW c \in Clients, FindOidc(c)
  PROVE  AccountsInv'
<1>0. NoOp
  BY DEF FindOidc
<1>1. CASE Done(c)
  BY <1>0, <1>1, DoneMoves, NoOpMoves
<1>2. CASE NameTaken(req[c].name) /\ \E r \in Wishes(IdOf(req[c].name)) : Goto(c, r)
  <2>1. req[c].name \in Names
    BY DEF FindOidc, At, AccountsInv, RequestOk
  <2>2. IdOf(req[c].name) \in Ids /\ Exists(IdOf(req[c].name))
    BY <1>2, <2>1, TakenFacts DEF AccountsInv, Exists
  <2>3. PICK r \in Wishes(IdOf(req[c].name)) : Goto(c, r)
    BY <1>2
  <2> QED BY <1>0, <2>2, <2>3, WishesOk, NoOpMoves
<1> QED BY <1>1, <1>2 DEF FindOidc
-----------------------------------------------------------------------------
LEMMA MintOk ==
  ASSUME NEW us, NEW last \in Nat, NEW id \in Ids, id <= last, NEW pw \in Passwords
  PROVE  RequestOk([NoRequest EXCEPT !.pc = "mint", !.id = id, !.pw = pw], us, last)
<1> DEFINE r == [NoRequest EXCEPT !.pc = "mint", !.id = id, !.pw = pw]
<1>1. id \in 0..MaxId
  BY AccountsAssumption DEF Ids
<1>2. r \in Requests /\ r.pc = "mint" /\ r.id = id /\ r.pw = pw
  BY <1>1, NoRequestIs DEF Requests, Pcs
<1> HIDE DEF r
<1>3. RequestOk(r, us, last)
  BY <1>2 DEF RequestOk
<1> QED BY <1>3 DEF r

LEMMA LoginStep ==
  ASSUME AccountsInv, NEW c \in Clients, NEW name \in Names, NEW pw \in Passwords,
         Login(c, name, pw)
  PROVE  AccountsInv'
<1>1. IdOf(name) \in Ids /\ IdOf(name) <= lastId /\ lastId \in Nat
  BY TakenFacts DEF Login, AccountsInv, TablesOk
<1>2. RequestOk([NoRequest EXCEPT !.pc = "mint", !.id = IdOf(name), !.pw = pw], users, lastId)
  BY <1>1, MintOk
<1> QED BY <1>2, NoOpMoves DEF Login

LEMMA FirstUserStep ==
  ASSUME AccountsInv, NEW c \in Clients, NEW name \in Names, NEW pw \in Passwords,
         FirstUser(c, name, pw)
  PROVE  AccountsInv'
<1> DEFINE row == [name |-> name, source |-> "builtin", pw |-> pw]
           r == [NoRequest EXCEPT !.pc = "mint", !.id = NextId, !.pw = pw]
<1>1. row \in Rows /\ (row.source = "oidc" => row.pw = NoPw)
  BY DEF Rows
<1>2. lastId < MaxId /\ Insert(row) /\ Goto(c, r)
  BY DEF FirstUser, MayInsert
<1> HIDE DEF row
<1>3. /\ TablesOk(users', lastId') /\ SessionsOk(users', sessions)
      /\ Keeps(users, lastId, users', lastId')
      /\ NextId \in Ids /\ lastId' = NextId
  BY <1>1, <1>2, InsertFacts DEF AccountsInv, NextId
<1>4. lastId' \in Nat /\ NextId <= lastId'
  BY <1>3 DEF TablesOk
<1>5. RequestOk(r, users', lastId')
  BY <1>3, <1>4, MintOk
<1>6. UNCHANGED <<config, sessions, minted, provisioned, jar, faults>>
  BY DEF FirstUser
<1> HIDE DEF r
<1> QED BY <1>2, <1>3, <1>5, <1>6, ClientStep DEF AccountsInv, TypeOK

LEMMA MintStep ==
  ASSUME AccountsInv, NEW c \in Clients, Mint(c)
  PROVE  AccountsInv'
<1>1. req[c].id \in Ids /\ req[c].pw \in Passwords
  BY DEF Mint, At, AccountsInv, RequestOk
<1>2. UNCHANGED <<config, users, lastId, provisioned, faults>> /\ Done(c)
  BY DEF Mint
<1>3. SessionsOk(users, sessions') /\ minted' \in 0..MaxToken /\ jar' \in [Clients -> 0..MaxToken]
  <2>0. minted \in Nat /\ minted \in 0..MaxToken /\ MaxToken \in Nat
        /\ jar \in [Clients -> 0..MaxToken] /\ SessionsOk(users, sessions)
    BY AccountsAssumption DEF AccountsInv, TypeOK
  <2>1. CASE Exists(req[c].id)
    <3>1. minted < MaxToken /\ minted' = minted + 1
          /\ jar' = [jar EXCEPT ![c] = minted + 1]
          /\ sessions' = sessions \cup
               {[token |-> minted + 1, user |-> req[c].id, proof |-> req[c].pw]}
      BY <2>1 DEF Mint, CreateSession
    <3>2. minted + 1 \in 1..MaxToken /\ minted + 1 \in 0..MaxToken
      BY <2>0, <3>1
    <3>3. SessionsOk(users, sessions')
      BY <1>1, <2>0, <2>1, <3>1, <3>2 DEF SessionsOk, Exists
    <3> QED BY <2>0, <3>1, <3>2, <3>3
  <2>2. CASE ~Exists(req[c].id)
    BY <2>0, <2>2 DEF Mint, CreateSession
  <2> QED BY <2>1, <2>2
<1> QED BY <1>2, <1>3, DoneMoves, MovesOnly DEF AccountsInv, TypeOK

(* Steps that leave the requests alone, and only take sessions away.       *)
LEMMA SessionsOnly ==
  ASSUME AccountsInv, UNCHANGED <<config, users, lastId, minted, provisioned, req, faults>>,
         sessions' \subseteq sessions, jar' \in [Clients -> 0..MaxToken]
  PROVE  AccountsInv'
<1>1. SessionsOk(users, sessions')
  BY DEF AccountsInv, SessionsOk
<1>2. TypeOK'
  BY <1>1 DEF AccountsInv, TypeOK, SessionsOk
<1> QED BY <1>1, <1>2 DEF AccountsInv

LEMMA LogoutStep ==
  ASSUME AccountsInv, NEW c \in Clients, Logout(c)
  PROVE  AccountsInv'
<1>1. jar' \in [Clients -> 0..MaxToken]
  BY AccountsAssumption DEF Logout, AccountsInv, TypeOK
<1>2. sessions' \subseteq sessions
  BY DEF Logout
<1>3. UNCHANGED <<config, users, lastId, minted, provisioned, req, faults>>
  BY DEF Logout
<1> QED BY <1>1, <1>2, <1>3, SessionsOnly

LEMMA ExpireStep ==
  ASSUME AccountsInv, NEW s \in sessions, Expire(s)
  PROVE  AccountsInv'
<1>1. jar' \in [Clients -> 0..MaxToken] /\ sessions' \subseteq sessions
  BY DEF Expire, AccountsInv, TypeOK
<1>2. UNCHANGED <<config, users, lastId, minted, provisioned, req, faults>>
  BY DEF Expire
<1> QED BY <1>1, <1>2, SessionsOnly
-----------------------------------------------------------------------------
LEMMA CreateUserStep ==
  ASSUME AccountsInv, NEW c \in Clients, CreateUser(c)
  PROVE  AccountsInv'
<1> DEFINE row == [name |-> req[c].name, source |-> "builtin", pw |-> req[c].pw]
<1>1. req[c].name \in Names /\ req[c].pw \in Passwords
  BY DEF CreateUser, At, AccountsInv, RequestOk
<1>2. row \in Rows /\ (row.source = "oidc" => row.pw = NoPw)
  BY <1>1 DEF Rows
<1>3. UNCHANGED <<config, sessions, minted, provisioned, jar, faults>> /\ Done(c)
  BY DEF CreateUser
<1>4. CASE UNCHANGED <<users, lastId>>
  BY <1>3, <1>4, DoneMoves, MovesOnly DEF AccountsInv, TypeOK
<1>5. CASE MayInsert(req[c].name) /\ Insert(row)
  <2> HIDE DEF row
  <2>1. /\ TablesOk(users', lastId') /\ SessionsOk(users', sessions)
        /\ Keeps(users, lastId, users', lastId')
    BY <1>2, <1>5, InsertFacts DEF AccountsInv, MayInsert
  <2>2. Goto(c, NoRequest) /\ RequestOk(NoRequest, users', lastId')
    BY <1>3, NoRequestOk DEF Done
  <2> QED BY <1>3, <2>1, <2>2, ClientStep DEF AccountsInv, TypeOK
<1> QED BY <1>4, <1>5 DEF CreateUser

LEMMA CheckTargetStep ==
  ASSUME AccountsInv, NEW c \in Clients, CheckTarget(c)
  PROVE  AccountsInv'
<1>0. NoOp /\ At(c, "target")
  BY DEF CheckTarget
<1>1. CASE Done(c)
  BY <1>0, <1>1, DoneMoves, NoOpMoves
<1>2. CASE Deletable(req[c].id) /\ Goto(c, [req[c] EXCEPT !.pc = "delete"])
  <2>1. RequestOk(req[c], users, lastId) /\ req[c].id \in Ids
    BY <1>0 DEF At, AccountsInv, RequestOk
  <2>2. req[c].id <= lastId /\ users[req[c].id].source # "oidc"
    BY <1>2, <2>1 DEF Deletable, Exists, AccountsInv, TablesOk
  <2>3. RequestOk([req[c] EXCEPT !.pc = "delete"], users, lastId)
    BY <2>1, <2>2, MovedOn DEF Pcs
  <2> QED BY <1>0, <1>2, <2>3, NoOpMoves
<1> QED BY <1>1, <1>2 DEF CheckTarget

LEMMA DeleteUserStep ==
  ASSUME AccountsInv, NEW c \in Clients, DeleteUser(c)
  PROVE  AccountsInv'
<1>1. req[c].id \in Ids
  BY DEF DeleteUser, At, AccountsInv, RequestOk
<1>2. users' = [users EXCEPT ![req[c].id] = NoRow]
      /\ sessions' = {s \in sessions : s.user # req[c].id}
      /\ UNCHANGED <<config, lastId, minted, provisioned, jar, faults>> /\ Done(c)
  BY DEF DeleteUser
<1>3. users' \in [Ids -> Rows \cup {NoRow}]
      /\ \A id \in Ids : users'[id] = IF id = req[c].id THEN NoRow ELSE users[id]
  BY <1>1, <1>2 DEF AccountsInv, TablesOk
<1>4. TablesOk(users', lastId')
  BY <1>2, <1>3, RowFacts DEF AccountsInv, TablesOk
<1>5. SessionsOk(users', sessions')
  BY <1>2, <1>3 DEF AccountsInv, SessionsOk
<1>6. Keeps(users, lastId, users', lastId')
  BY <1>2, <1>3, RowFacts DEF Keeps, AccountsInv, TablesOk
<1>7. Goto(c, NoRequest) /\ RequestOk(NoRequest, users', lastId')
  BY <1>2, NoRequestOk DEF Done
<1> QED BY <1>2, <1>4, <1>5, <1>6, <1>7, ClientStep DEF AccountsInv, TypeOK

LEMMA VerifyCurrentStep ==
  ASSUME AccountsInv, NEW c \in Clients, VerifyCurrent(c)
  PROVE  AccountsInv'
<1>0. NoOp /\ At(c, "profile")
  BY DEF VerifyCurrent
<1>1. CASE Done(c)
  BY <1>0, <1>1, DoneMoves, NoOpMoves
<1>2. CASE /\ users[req[c].id].pw # NoPw
           /\ Goto(c, [req[c] EXCEPT !.pc = "update"])
  <2>1. /\ RequestOk(req[c], users, lastId)
        /\ req[c].id \in Ids /\ req[c].id <= lastId /\ req[c].ident = req[c].id
    BY <1>0 DEF At, AccountsInv, RequestOk
  <2>2. users[req[c].id].source # "oidc"
    BY <1>2, <2>1 DEF AccountsInv, TablesOk
  <2>3. RequestOk([req[c] EXCEPT !.pc = "update"], users, lastId)
    BY <2>1, <2>2, MovedOn DEF Pcs
  <2> QED BY <1>0, <1>2, <2>3, NoOpMoves
<1> QED BY <1>1, <1>2 DEF VerifyCurrent

(* What an update writes is a row of the same source.                      *)
LEMMA ChangedFacts ==
  ASSUME NEW r \in Requests, NEW row \in Rows
  PROVE  /\ Changed(r, row) \in Rows /\ Changed(r, row).source = row.source
         /\ Changed(r, row).name \in {row.name, r.newName}
         /\ Changed(r, row).pw \in {row.pw, r.newPw}
<1>1. r.newName \in Names \cup {NoName} /\ r.newPw \in Passwords \cup {NoPw}
  BY DEF Requests
<1> QED BY <1>1 DEF Changed, Rows

(* The rows after an update that found its account and a free name.        *)
LEMMA UpdateFacts ==
  ASSUME AccountsInv, NEW c \in Clients, Update(c), users' # users
  PROVE  /\ At(c, "update") /\ RequestOk(req[c], users, lastId)
         /\ req[c].id \in Ids /\ req[c].id <= lastId /\ req[c].ident = req[c].id
         /\ users[req[c].id] \in Rows /\ users[req[c].id].source # "oidc"
         /\ users' \in [Ids -> Rows \cup {NoRow}]
         /\ users'[req[c].id] = Changed(req[c], users[req[c].id])
         /\ \A id \in Ids \ {req[c].id} : users'[id] = users[id]
<1>1. At(c, "update")
  BY DEF Update
<1>2. /\ RequestOk(req[c], users, lastId)
      /\ req[c].id \in Ids /\ req[c].id <= lastId /\ req[c].ident = req[c].id
      /\ users[req[c].id].source # "oidc" /\ req[c] \in Requests
  BY <1>1 DEF At, AccountsInv, RequestOk
<1>3. /\ Exists(req[c].id)
      /\ users' = [users EXCEPT ![req[c].id] = Changed(req[c], users[req[c].id])]
  BY DEF Update
<1>4. users \in [Ids -> Rows \cup {NoRow}] /\ users[req[c].id] \in Rows
  BY <1>2, <1>3 DEF AccountsInv, TablesOk, Exists
<1>5. Changed(req[c], users[req[c].id]) \in Rows
  BY <1>2, <1>4, ChangedFacts
<1> QED BY <1>1, <1>2, <1>3, <1>4, <1>5

LEMMA UpdateStep ==
  ASSUME AccountsInv, NEW c \in Clients, Update(c)
  PROVE  AccountsInv'
<1>1. UNCHANGED <<config, lastId, sessions, minted, provisioned, jar, faults>>
  BY DEF Update
<1>2. CASE UNCHANGED users /\ Done(c)
  BY <1>1, <1>2, DoneMoves, MovesOnly DEF AccountsInv, TypeOK
<1>3. CASE UNCHANGED users /\ Goto(c, [req[c] EXCEPT !.pc = "purge"])
  <2>1. At(c, "update") /\ RequestOk(req[c], users, lastId)
    BY DEF Update, AccountsInv
  <2>2. RequestOk([req[c] EXCEPT !.pc = "purge"], users, lastId)
    <3>1. req[c].id \in Ids /\ req[c].id <= lastId
      BY <2>1 DEF At, RequestOk
    <3> QED BY <2>1, <3>1, MovedOn DEF Pcs
  <2> QED BY <1>1, <1>3, <2>2, MovesOnly DEF AccountsInv, TypeOK
<1>4. CASE users' # users
  <2>1. /\ At(c, "update") /\ RequestOk(req[c], users, lastId)
        /\ req[c].id \in Ids /\ req[c].id <= lastId
        /\ users[req[c].id] \in Rows /\ users[req[c].id].source # "oidc"
        /\ users' \in [Ids -> Rows \cup {NoRow}]
        /\ users'[req[c].id] = Changed(req[c], users[req[c].id])
        /\ \A id \in Ids \ {req[c].id} : users'[id] = users[id]
    BY <1>4, UpdateFacts
  <2>2. users'[req[c].id].source # "oidc" /\ users'[req[c].id] \in Rows
    BY <2>1, ChangedFacts DEF RequestOk
  <2>3. lastId \in Nat /\ lastId' = lastId
    BY <1>1 DEF AccountsInv, TablesOk
  <2>4. TablesOk(users', lastId')
    BY <2>1, <2>2, <2>3 DEF AccountsInv, TablesOk
  <2>5. SessionsOk(users', sessions')
    BY <1>1, <2>1, <2>2, RowFacts DEF AccountsInv, SessionsOk
  <2>6. Keeps(users, lastId, users', lastId')
    BY <2>1, <2>2, <2>3 DEF Keeps
  <2>7. \/ Goto(c, NoRequest)
        \/ Goto(c, [req[c] EXCEPT !.pc = "purge"])
    BY DEF Update, Done
  <2>8. RequestOk([req[c] EXCEPT !.pc = "purge"], users', lastId')
    <3>1. RequestOk([req[c] EXCEPT !.pc = "purge"], users, lastId)
      BY <2>1, MovedOn DEF Pcs
    <3> QED BY <3>1, <2>3, <2>6, RequestStays
  <2>9. RequestOk(NoRequest, users', lastId')
    BY NoRequestOk
  <2> QED BY <1>1, <2>4, <2>5, <2>6, <2>7, <2>8, <2>9, ClientStep DEF AccountsInv, TypeOK
<1>5. UNCHANGED users => Done(c) \/ Goto(c, [req[c] EXCEPT !.pc = "purge"])
  BY DEF Update, Done
<1> QED BY <1>2, <1>3, <1>4, <1>5

LEMMA PurgeStep ==
  ASSUME AccountsInv, NEW c \in Clients, Purge(c)
  PROVE  AccountsInv'
<1>1. UNCHANGED <<config, users, lastId, minted, provisioned, jar, faults>> /\ Done(c)
  BY DEF Purge
<1>2. SessionsOk(users, sessions')
  BY DEF Purge, AccountsInv, SessionsOk
<1> QED BY <1>1, <1>2, DoneMoves, MovesOnly DEF AccountsInv, TypeOK

LEMMA DisconnectStep ==
  ASSUME AccountsInv, NEW c \in Clients, Disconnect(c)
  PROVE  AccountsInv'
<1>1. UNCHANGED <<config, users, lastId, sessions, minted, provisioned, jar>> /\ Done(c)
  BY DEF Disconnect, tables
<1>2. faults' \in 0..MaxFaults
  BY FaultOk DEF Disconnect
<1> QED BY <1>1, <1>2, DoneMoves, MovesOnly DEF AccountsInv, TypeOK
-----------------------------------------------------------------------------
LEMMA ConfigFacts ==
  ASSUME NEW cfg \in Configs
  PROVE  /\ cfg \in [mode : {"builtin", "oidc"}, signup : BOOLEAN, admin : BOOLEAN]
         /\ cfg.admin => cfg.mode = "builtin"
<1>1. PICK cli \in CommandLines : ValidUi(cli) /\ cfg = ResolveUi(cli)
  BY DEF Configs
<1>2. /\ cli.auth \in {"builtin", "oidc"} /\ cli.signup \in BOOLEAN
      /\ cli.adminName \in BOOLEAN
  BY AccountsAssumption
<1> QED BY <1>1, <1>2 DEF ResolveUi, ValidUi

LEMMA AdminRowFacts ==
  AdminRow \in Rows /\ AdminRow.source = "builtin" /\ AdminRow.name = AdminName
BY AccountsAssumption DEF AdminRow, Rows

LEMMA RestartStep ==
  ASSUME AccountsInv, NEW cfg \in Configs, Restart(cfg)
  PROVE  AccountsInv'
<1>1. /\ config' = cfg /\ provisioned' = {} /\ req' = [c \in Clients |-> NoRequest]
      /\ UNCHANGED <<sessions, minted, jar>> /\ faults' \in 0..MaxFaults
  BY FaultOk DEF Restart
<1>2. TablesOk(users', lastId') /\ SessionsOk(users', sessions)
  <2>1. CASE UNCHANGED <<users, lastId>>
    BY <2>1 DEF AccountsInv
  <2>2. CASE MayInsert(AdminName) /\ Insert(AdminRow)
    BY <2>2, AdminRowFacts, InsertFacts DEF AccountsInv, MayInsert
  <2> QED BY <2>1, <2>2 DEF Restart, BootstrapAdmin
<1>3. \A c \in Clients : RequestOk(req'[c], users', lastId')
  BY <1>1, NoRequestOk
<1>4. req' \in [Clients -> Requests]
  BY <1>1, NoRequestIs
<1>5. TypeOK'
  <2>1. users' \in [Ids -> Rows \cup {NoRow}] /\ lastId' \in 0..MaxId
    BY <1>2 DEF TablesOk
  <2> QED BY <1>1, <1>4, <2>1, ConfigFacts DEF AccountsInv, TypeOK
<1> QED BY <1>1, <1>2, <1>3, <1>5 DEF AccountsInv

LEMMA InitInv ==
  ASSUME Init
  PROVE  AccountsInv
<1> USE AccountsAssumption
<1>1. /\ config \in Configs /\ lastId = (IF config.admin THEN 1 ELSE 0)
      /\ sessions = {} /\ minted = 0 /\ provisioned = {} /\ faults = 0
      /\ jar = [c \in Clients |-> 0] /\ req = [c \in Clients |-> NoRequest]
      /\ users = [id \in Ids |-> IF config.admin /\ id = 1 THEN AdminRow ELSE NoRow]
  BY DEF Init
<1>2. \A id \in Ids : users[id] = (IF config.admin /\ id = 1 THEN AdminRow ELSE NoRow)
  BY <1>1
<1>3. users \in [Ids -> Rows \cup {NoRow}]
  BY <1>1, AdminRowFacts
<1>4. lastId \in 0..MaxId
  BY <1>1
<1>5. \A id \in Ids : users[id] # NoRow => id <= lastId
  BY <1>1, <1>2
<1>6. \A id \in Ids : users[id].source = "oidc" => users[id].pw = NoPw
  BY <1>2, AdminRowFacts, RowFacts
<1>7. TablesOk(users, lastId) /\ SessionsOk(users, sessions)
  BY <1>1, <1>3, <1>4, <1>5, <1>6 DEF TablesOk, SessionsOk
<1>8. \A c \in Clients : RequestOk(req[c], users, lastId) /\ req[c] \in Requests
  BY <1>1, NoRequestOk, NoRequestIs
<1>9. TypeOK
  BY <1>1, <1>3, <1>4, <1>8, ConfigFacts DEF TypeOK
<1> QED BY <1>7, <1>8, <1>9 DEF AccountsInv

LEMMA NextInv ==
  ASSUME AccountsInv, [Next]_vars
  PROVE  AccountsInv'
<1>1. CASE UNCHANGED vars
  <2>1. UNCHANGED <<config, users, lastId, sessions, minted, provisioned, jar, req, faults>>
    BY <1>1 DEF vars, tables
  <2> QED BY <2>1 DEF AccountsInv, TypeOK, TablesOk, SessionsOk, RequestOk, Exists
<1>2. ASSUME NEW c \in Clients, Identify(c) PROVE AccountsInv'
  BY <1>2, ResolveSessionStep, ResolveOidcStep, SeenBeforeStep, ProvisionStep,
     ProvisionFailsStep, FindOidcStep DEF Identify
<1>3. ASSUME NEW c \in Clients, SignInOrOut(c) PROVE AccountsInv'
  BY <1>3, LoginStep, FirstUserStep, MintStep, LogoutStep DEF SignInOrOut
<1>4. ASSUME NEW c \in Clients, ChangeAccount(c) PROVE AccountsInv'
  BY <1>4, CreateUserStep, CheckTargetStep, DeleteUserStep, VerifyCurrentStep,
     UpdateStep, PurgeStep DEF ChangeAccount
<1> QED BY <1>1, <1>2, <1>3, <1>4, DisconnectStep, ExpireStep, RestartStep DEF Next

THEOREM AccountsInvariant == Spec => []AccountsInv
BY InitInv, NextInv, PTL DEF Spec

(* The values every variable ranges over.                                  *)
THEOREM AccountsTypeCorrect == Spec => []TypeOK
<1>1. AccountsInv => TypeOK
  BY DEF AccountsInv
<1> QED BY <1>1, AccountsInvariant, PTL

(* No session outlives its account: the cascade takes those that are there,*)
(* the foreign key refuses those a sign-in under way would still make.     *)
THEOREM SessionsHaveOwnerHolds == Spec => []SessionsHaveOwner
<1>1. AccountsInv => SessionsHaveOwner
  BY DEF AccountsInv, SessionsOk, SessionsHaveOwner, Exists
<1> QED BY <1>1, AccountsInvariant, PTL
-----------------------------------------------------------------------------
(* The three ways a step changes the row of an id.                         *)
Inserted(id) ==
  /\ id = lastId + 1 /\ users[id] = NoRow
  /\ \/ \E c \in Clients : At(c, "create") /\ req[c].ident # 0
     \/ users'[id].pw = NoPw
     \/ config.mode = "builtin" /\ \A j \in Ids : ~Exists(j)
     \/ config' \in Configs /\ config'.admin /\ users'[id].name = AdminName

Deleted(id) == users[id].source # "oidc" /\ users'[id] = NoRow

Updated(id) ==
  \E c \in Clients :
    /\ At(c, "update") /\ req[c].ident = id /\ req[c] \in Requests
    /\ users[id] \in Rows /\ users[id].source # "oidc"
    /\ users'[id] = Changed(req[c], users[id])

LEMMA InsertsRow ==
  ASSUME AccountsInv, NEW row \in Rows, row.source = "oidc" => row.pw = NoPw,
         NEW name, MayInsert(name), Insert(row), NEW id \in Ids, users'[id] # users[id]
  PROVE  id = lastId + 1 /\ users[id] = NoRow /\ users'[id] = row
<1>1. lastId < MaxId /\ TablesOk(users, lastId) /\ SessionsOk(users, sessions)
  BY DEF MayInsert, AccountsInv
<1> QED BY <1>1, InsertFacts

LEMMA ProvisionRows ==
  ASSUME AccountsInv, NEW c \in Clients, Provision(c), NEW id \in Ids, users'[id] # users[id]
  PROVE  Inserted(id)
<1> DEFINE row == [name |-> req[c].name, source |-> "oidc", pw |-> NoPw]
<1>1. At(c, "provision") /\ MayInsert(req[c].name) /\ Insert(row)
  BY DEF Provision
<1>2. row \in Rows /\ row.pw = NoPw
  BY <1>1, FindsOk DEF Rows
<1> HIDE DEF row
<1> QED BY <1>1, <1>2, InsertsRow DEF Inserted

LEMMA FirstUserRows ==
  ASSUME AccountsInv, NEW c \in Clients, NEW name \in Names, NEW pw \in Passwords,
         FirstUser(c, name, pw), NEW id \in Ids, users'[id] # users[id]
  PROVE  Inserted(id)
<1> DEFINE row == [name |-> name, source |-> "builtin", pw |-> pw]
<1>1. /\ config.mode = "builtin" /\ \A j \in Ids : ~Exists(j)
      /\ MayInsert(name) /\ Insert(row)
  BY DEF FirstUser
<1>2. row \in Rows /\ (row.source = "oidc" => row.pw = NoPw)
  BY DEF Rows
<1> HIDE DEF row
<1> QED BY <1>1, <1>2, InsertsRow DEF Inserted

LEMMA CreateUserRows ==
  ASSUME AccountsInv, NEW c \in Clients, CreateUser(c), NEW id \in Ids, users'[id] # users[id]
  PROVE  Inserted(id)
<1> DEFINE row == [name |-> req[c].name, source |-> "builtin", pw |-> req[c].pw]
<1>1. At(c, "create") /\ MayInsert(req[c].name) /\ Insert(row)
  BY DEF CreateUser
<1>2. req[c].name \in Names /\ req[c].pw \in Passwords /\ req[c].ident # 0
  BY <1>1 DEF At, AccountsInv, RequestOk
<1>3. row \in Rows /\ (row.source = "oidc" => row.pw = NoPw)
  BY <1>2 DEF Rows
<1> HIDE DEF row
<1> QED BY <1>1, <1>2, <1>3, InsertsRow DEF Inserted

LEMMA RestartRows ==
  ASSUME AccountsInv, NEW cfg \in Configs, Restart(cfg), NEW id \in Ids, users'[id] # users[id]
  PROVE  Inserted(id)
<1>1. config' = cfg /\ cfg.admin /\ MayInsert(AdminName) /\ Insert(AdminRow)
  BY DEF Restart, BootstrapAdmin
<1>2. id = lastId + 1 /\ users[id] = NoRow /\ users'[id] = AdminRow
  BY <1>1, AdminRowFacts, InsertsRow
<1> QED BY <1>1, <1>2, AdminRowFacts DEF Inserted

LEMMA DeleteUserRows ==
  ASSUME AccountsInv, NEW c \in Clients, DeleteUser(c), NEW id \in Ids, users'[id] # users[id]
  PROVE  Deleted(id)
<1>1. /\ users' = [users EXCEPT ![req[c].id] = NoRow]
      /\ At(c, "delete") /\ DOMAIN users = Ids
  BY DEF DeleteUser, AccountsInv, TablesOk
<1>2. id = req[c].id /\ users'[id] = NoRow
  BY <1>1
<1>3. users[req[c].id].source # "oidc"
  BY <1>1 DEF At, AccountsInv, RequestOk
<1> QED BY <1>2, <1>3 DEF Deleted

LEMMA UpdateRows ==
  ASSUME AccountsInv, NEW c \in Clients, Update(c), NEW id \in Ids, users'[id] # users[id]
  PROVE  Updated(id)
<1>1. /\ At(c, "update") /\ RequestOk(req[c], users, lastId)
      /\ req[c].ident = req[c].id
      /\ users[req[c].id] \in Rows /\ users[req[c].id].source # "oidc"
      /\ users'[req[c].id] = Changed(req[c], users[req[c].id])
      /\ \A j \in Ids \ {req[c].id} : users'[j] = users[j]
  <2>1. users' # users
    OBVIOUS
  <2> QED BY <2>1, UpdateFacts
<1>2. id = req[c].id /\ req[c] \in Requests
  BY <1>1 DEF RequestOk
<1> QED BY <1>1, <1>2 DEF Updated

(* No other step touches the users table.                                  *)
LEMMA RowSteps ==
  ASSUME AccountsInv, [Next]_vars, NEW id \in Ids, users'[id] # users[id]
  PROVE  Inserted(id) \/ Deleted(id) \/ Updated(id)
<1>0. users' # users
  OBVIOUS
<1>1. CASE UNCHANGED vars
  BY <1>0, <1>1 DEF vars, tables
<1>2. ASSUME NEW c \in Clients, Identify(c) PROVE Inserted(id)
  <2>1. Provision(c)
    BY <1>0, <1>2 DEF Identify, ResolveSession, ResolveOidc, SeenBefore, ProvisionFails,
                      FindOidc, NoOp, tables
  <2> QED BY <2>1, ProvisionRows
<1>3. ASSUME NEW c \in Clients, SignInOrOut(c) PROVE Inserted(id)
  <2>1. \E name \in Names, pw \in Passwords : FirstUser(c, name, pw)
    BY <1>0, <1>3 DEF SignInOrOut, Login, Mint, Logout, NoOp, tables
  <2> QED BY <2>1, FirstUserRows
<1>4. ASSUME NEW c \in Clients, ChangeAccount(c)
      PROVE  Inserted(id) \/ Deleted(id) \/ Updated(id)
  <2>1. CreateUser(c) \/ DeleteUser(c) \/ Update(c)
    BY <1>0, <1>4 DEF ChangeAccount, CheckTarget, VerifyCurrent, Purge, NoOp, tables
  <2> QED BY <2>1, CreateUserRows, DeleteUserRows, UpdateRows
<1>5. ASSUME NEW cfg \in Configs, Restart(cfg) PROVE Inserted(id)
  BY <1>5, RestartRows
<1>6. ASSUME NEW c \in Clients, Disconnect(c) PROVE FALSE
  BY <1>0, <1>6 DEF Disconnect, tables
<1>7. ASSUME NEW s \in sessions, Expire(s) PROVE FALSE
  BY <1>0, <1>7 DEF Expire
<1> QED BY <1>1, <1>2, <1>3, <1>4, <1>5, <1>6, <1>7 DEF Next

(* Ids are never used again, and a deletion leaves no session behind, nor  *)
(* does a request let in earlier reach further than the ids of its time.   *)
THEOREM NobodyInheritsHolds == Spec => NobodyInherits
<1>1. ASSUME AccountsInv, [Next]_vars, NEW id \in Ids, ~Exists(id), users'[id] # NoRow
      PROVE  /\ \A s \in sessions : s.user # id
             /\ \A c \in Clients : At(c, "delete") \/ At(c, "update") => req[c].id # id
  <2>1. id = lastId + 1 /\ lastId \in Nat
    <3>1. Inserted(id) \/ Deleted(id) \/ Updated(id)
      BY <1>1, RowSteps DEF Exists
    <3> QED BY <1>1, <3>1, RowFacts DEF Inserted, Deleted, Updated, Exists, AccountsInv, TablesOk
  <2>2. \A s \in sessions : s.user # id
    BY <1>1 DEF AccountsInv, SessionsOk, Exists
  <2>3. \A c \in Clients : At(c, "delete") \/ At(c, "update") => req[c].id # id
    <3>1. \A c \in Clients : At(c, "delete") \/ At(c, "update") =>
             req[c].id \in Ids /\ req[c].id <= lastId
      BY <1>1 DEF AccountsInv, RequestOk, At
    <3> QED BY <2>1, <3>1
  <2> QED BY <2>2, <2>3
<1>2. AccountsInv /\ [Next]_vars =>
        [\A id \in Ids : ~Exists(id) /\ users'[id] # NoRow =>
           /\ \A s \in sessions : s.user # id
           /\ \A c \in Clients : At(c, "delete") \/ At(c, "update") => req[c].id # id]_vars
  BY <1>1
<1> QED BY <1>2, AccountsInvariant, PTL DEF Spec, NobodyInherits

(* Only a delete or an update changes a row that is there, and both are    *)
(* turned away from a provider's row by a check that stays true.           *)
THEOREM ProviderAccountsStayHolds == Spec => ProviderAccountsStay
<1>1. ASSUME AccountsInv, [Next]_vars, NEW id \in Ids, users[id].source = "oidc"
      PROVE  users'[id] = users[id]
  <2>1. ~Inserted(id) /\ ~Deleted(id) /\ ~Updated(id)
    BY <1>1, RowFacts DEF Inserted, Deleted, Updated
  <2> QED BY <1>1, <2>1, RowSteps
<1>2. AccountsInv /\ [Next]_vars =>
        [\A id \in Ids : users[id].source = "oidc" => users'[id] = users[id]]_vars
  BY <1>1
<1> QED BY <1>2, AccountsInvariant, PTL DEF Spec, ProviderAccountsStay

(* A row that stays but differs was updated, by its owner's request.       *)
THEOREM OnlyOwnersChangeHolds == Spec => OnlyOwnersChange
<1> DEFINE Owner(id) == \E c \in Clients :
             /\ At(c, "update") /\ req[c].ident = id
             /\ users'[id].name \in {users[id].name, req[c].newName}
             /\ users'[id].pw \in {users[id].pw, req[c].newPw}
<1>1. ASSUME AccountsInv, [Next]_vars, NEW id \in Ids, Exists(id),
             users'[id] \notin {users[id], NoRow}
      PROVE  Owner(id)
  <2>1. Updated(id)
    <3>1. Inserted(id) \/ Deleted(id) \/ Updated(id)
      BY <1>1, RowSteps
    <3> QED BY <1>1, <3>1 DEF Inserted, Deleted, Exists
  <2>2. PICK c \in Clients :
          /\ At(c, "update") /\ req[c].ident = id /\ req[c] \in Requests
          /\ users[id] \in Rows /\ users'[id] = Changed(req[c], users[id])
    BY <2>1 DEF Updated
  <2> QED BY <2>2, ChangedFacts
<1>2. AccountsInv /\ [Next]_vars =>
        [\A id \in Ids : Exists(id) /\ users'[id] \notin {users[id], NoRow} =>
           Owner(id)]_vars
  BY <1>1
<1> QED BY <1>2, AccountsInvariant, PTL DEF Spec, OnlyOwnersChange

(* An account with a password comes from a member, the flags or the first  *)
(* signup: what the provider is asked about never has one.                 *)
THEOREM MembersAdmitMembersHolds == Spec => MembersAdmitMembers
<1> DEFINE Admitted(id) ==
             \/ \E c \in Clients : At(c, "create") /\ req[c].ident # 0
             \/ config'.admin /\ config'.mode = "builtin" /\ users'[id].name = AdminName
             \/ config.mode = "builtin" /\ \A j \in Ids \ {id} : ~Exists(j)
<1>1. ASSUME AccountsInv, [Next]_vars, NEW id \in Ids, ~Exists(id), users'[id].pw # NoPw
      PROVE  Admitted(id)
  <2>1. Inserted(id)
    <3>1. users[id] = NoRow /\ users'[id] # NoRow
      BY <1>1, RowFacts DEF Exists
    <3>2. Inserted(id) \/ Deleted(id) \/ Updated(id)
      BY <1>1, <3>1, RowSteps
    <3> QED BY <3>1, <3>2, RowFacts DEF Deleted, Updated
  <2>2. config' \in Configs /\ config'.admin => config'.mode = "builtin"
    BY ConfigFacts
  <2> QED BY <1>1, <2>1, <2>2 DEF Inserted
<1>2. AccountsInv /\ [Next]_vars =>
        [\A id \in Ids : ~Exists(id) /\ users'[id].pw # NoPw => Admitted(id)]_vars
  BY <1>1
<1> QED BY <1>2, AccountsInvariant, PTL DEF Spec, MembersAdmitMembers
=============================================================================
