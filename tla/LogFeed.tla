------------------------------ MODULE LogFeed -------------------------------
(***************************************************************************)
(* What GET /api/logs promises a reader, whatever carries it: from some    *)
(* line of the log on, a cursor only moves forward, a line the reader      *)
(* wants is either delivered or counted in a gap event, and no line is     *)
(* delivered twice.                                                        *)
(***************************************************************************)
EXTENDS Integers, Sequences

CONSTANTS Readers, LineKinds

VARIABLES
  log,          \* the kind (level and target) of every line, in order
  wants,        \* the kinds a reader asked for
  begun,        \* the readers whose answer has begun
  cursor,       \* how far through the log a reader has come
  events        \* what a reader was sent

vars == <<log, wants, begun, cursor, events>>

LogEvent(s) == [event |-> "log", data |-> s]
GapEvent(n) == [event |-> "gap", data |-> n]

(* The lines up to n that a reader has yet to come to and wants.           *)
Unmet(r, n) == {s \in cursor[r] + 1 .. n : log[s] \in wants[r]}

Init ==
  /\ log = <<>> /\ begun = {}
  /\ wants = [r \in Readers |-> {}]
  /\ cursor = [r \in Readers |-> 0]
  /\ events = [r \in Readers |-> <<>>]

Write ==
  /\ \E k \in LineKinds : log' = Append(log, k)
  /\ UNCHANGED <<wants, begun, cursor, events>>

Begin(r) ==
  /\ r \notin begun
  /\ begun' = begun \union {r}
  /\ \E w \in SUBSET LineKinds : wants' = [wants EXCEPT ![r] = w]
  /\ \E n \in 0..Len(log) : cursor' = [cursor EXCEPT ![r] = n]
  /\ UNCHANGED <<log, events>>

(* The reader comes to line n, all it wanted before n being behind it.     *)
Deliver(r, n) ==
  /\ Unmet(r, n) = {n}
  /\ events' = [events EXCEPT ![r] = Append(@, LogEvent(n))]

PassOver(r, n) ==
  /\ Unmet(r, n) = {}
  /\ UNCHANGED events

(* The lines up to n are lost to the reader, and it is told of no fewer,   *)
(* though some it may not have wanted.                                     *)
Lose(r, n) ==
  \E lost \in 1..Len(log) :
    /\ n - cursor[r] <= lost
    /\ events' = [events EXCEPT ![r] = Append(@, GapEvent(lost))]

Advance(r) ==
  /\ r \in begun
  /\ \E n \in cursor[r] .. Len(log) :
       /\ cursor' = [cursor EXCEPT ![r] = n]
       /\ Deliver(r, n) \/ PassOver(r, n) \/ Lose(r, n)
  /\ UNCHANGED <<log, wants, begun>>

Next == Write \/ \E r \in Readers : Begin(r) \/ Advance(r)

Spec == Init /\ [][Next]_vars
=============================================================================
