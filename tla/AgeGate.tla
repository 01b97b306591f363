------------------------------ MODULE AgeGate ------------------------------
(***************************************************************************)
(* What the proxy promises a client about one package, with no cache in    *)
(* sight: each answer leaves the client with one published revision, seen  *)
(* through a cutoff that lies between the start of the bucket in which the *)
(* request arrived and the moment of the answer. Nothing younger than the  *)
(* window shows, and nothing older stays hidden for more than a bucket.    *)
(***************************************************************************)
EXTENDS Cooldown

CONSTANTS Clients, Windows

VARIABLES
  now, hist, window,    \* clock, published versions, configured cooldown
  asked,                \* when a client last asked; 0: nothing asked since
                        \* the process started
  answered,             \* the client's last request has been answered
  held                  \* the version lines a client holds

vars == <<now, hist, window, asked, answered, held>>

Cutoffs(c) ==
  IF window = 0 THEN {Unfiltered}
  ELSE (Bucket(CutoffFrom(asked[c], window)) * BucketLen)..CutoffFrom(now, window)

Views(c) == {FilterIndex(hist, rev, cut) : rev \in 1..Len(hist), cut \in Cutoffs(c)}

Init ==
  /\ now = 1 /\ hist = <<>> /\ window \in Windows
  /\ asked = [c \in Clients |-> 0]
  /\ answered = [c \in Clients |-> FALSE]
  /\ held = [c \in Clients |-> {}]

Ask(c) ==
  /\ asked' = [asked EXCEPT ![c] = now]
  /\ answered' = [answered EXCEPT ![c] = FALSE]
  /\ UNCHANGED <<now, hist, window, held>>

(* Also a 304: then the copy the client already holds is such a view.      *)
AnswerWith(c, lines) ==
  /\ asked[c] # 0 /\ ~answered[c]
  /\ lines \in Views(c)
  /\ held' = [held EXCEPT ![c] = lines]
  /\ answered' = [answered EXCEPT ![c] = TRUE]
  /\ UNCHANGED <<now, hist, window, asked>>

GiveUp(c) ==
  /\ asked' = [asked EXCEPT ![c] = 0]
  /\ UNCHANGED <<now, hist, window, answered, held>>

Tick == now' = now + 1 /\ UNCHANGED <<hist, window, asked, answered, held>>

Publish(dated) ==
  /\ hist' = Append(hist, [at |-> now, dated |-> dated])
  /\ UNCHANGED <<now, window, asked, answered, held>>

(* A restart drops every request and may change the window, but takes back *)
(* nothing a client already holds.                                         *)
Restart(w) ==
  /\ window' = w
  /\ asked' = [c \in Clients |-> 0]
  /\ answered' = [c \in Clients |-> FALSE]
  /\ UNCHANGED <<now, hist, held>>

Next ==
  \/ \E c \in Clients : Ask(c) \/ AnswerWith(c, held'[c]) \/ GiveUp(c)
  \/ Tick
  \/ \E dated \in BOOLEAN : Publish(dated)
  \/ \E w \in Windows : Restart(w)

Spec == Init /\ [][Next]_vars
=============================================================================
