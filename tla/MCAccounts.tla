----------------------------- MODULE MCAccounts -----------------------------
(* Small instances of Accounts.                                            *)
EXTENDS Accounts, TLC

Plain == [auth |-> "builtin", header |-> FALSE, signup |-> FALSE,
          adminName |-> FALSE, adminPw |-> FALSE]
Provider == [Plain EXCEPT !.auth = "oidc", !.header = TRUE]
WithAdmin(cli) == [cli EXCEPT !.adminName = TRUE, !.adminPw = TRUE]
WithSignup(cli) == [cli EXCEPT !.signup = TRUE]

(* What an operator may type; half of it is refused at startup.            *)
Typed ==
  {WithSignup(Plain), WithAdmin(Plain), Provider, WithSignup(Provider), WithAdmin(Provider),
   [Plain EXCEPT !.header = TRUE], [Plain EXCEPT !.adminPw = TRUE]}
Starts == {Provider, WithSignup(Plain)}
AdminOnly == {WithAdmin(Plain)}

Symmetry == Permutations(Clients)
=============================================================================
