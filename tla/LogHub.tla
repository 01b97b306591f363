------------------------------- MODULE LogHub -------------------------------
(***************************************************************************)
(* The server's log feed (logbuf/hub.rs) and its one consumer, the answer  *)
(* to GET /api/logs (routes/logs.rs): a bounded backlog, then whatever the *)
(* broadcast channel still holds. The lines of both are Arcs to the same   *)
(* LogLine, so a line is its seq, and `log` says what the line is.         *)
(***************************************************************************)
EXTENDS Integers, Sequences, FiniteSets

CONSTANTS
  Loggers,      \* threads that log
  Clients,      \* requests for /api/logs
  LineKinds,    \* levels and targets a record that env_logger passes can have
  Filters,      \* the kinds a request's level and target parameters select
  BacklogSizes, \* backlog parameters a request may carry
  BufferCap,    \* BUFFER_CAP
  ChannelCap,   \* CHANNEL_CAP
  Nobody,       \* no thread: the buffer's lock is free
  MaxLines      \* bound: lines the process logs

ASSUME LogHubAssumption ==
  /\ Filters \subseteq SUBSET LineKinds
  /\ BacklogSizes \subseteq Nat
  /\ BufferCap \in Nat \ {0} /\ ChannelCap \in Nat \ {0} /\ MaxLines \in Nat
  /\ Nobody \notin Loggers

VARIABLES
  log,          \* the kind of the line with each seq, the first being 1
  holder,       \* who holds the lock on buf
  buf,          \* LogHub.buf: the seqs of the backlog
  chan,         \* the seqs sent on LogHub.tx
  pc,           \* per request: idle, subscribed, streaming, ended, gone
  params,       \* per request: its query
  rx,           \* per request: the position in chan its receiver reads next
  backlog,      \* per request: what is left of its backlog
  last_seq,     \* per request: the last seq of its backlog, 0 if it had none
  sent          \* per request: the events it was sent

hubVars == <<log, holder, buf, chan>>
reqVars == <<pc, params, rx, backlog, last_seq, sent>>
vars == <<hubVars, reqVars>>

LogEvent(s) == [event |-> "log", data |-> s]

LastLagGapEvent(n) == [event |-> "gap", data |-> n - 1]     \* mutation

GapEvent(n) == [event |-> "gap", data |-> n]

Emit(c, e) == sent' = [sent EXCEPT ![c] = Append(@, e)]

NoParams == [filter |-> {}, backlog |-> 0, follow |-> FALSE]

Init ==
  /\ log = <<>> /\ holder = Nobody /\ buf = <<>> /\ chan = <<>>
  /\ pc = [c \in Clients |-> "idle"]
  /\ params = [c \in Clients |-> NoParams]
  /\ rx = [c \in Clients |-> 1]
  /\ backlog = [c \in Clients |-> <<>>]
  /\ last_seq = [c \in Clients |-> 0]
  /\ sent = [c \in Clients |-> <<>>]

-----------------------------------------------------------------------------
(* LogHub::push, called by TeeLogger::log: two steps under buf's lock,     *)
(* between which requests may subscribe but not take a snapshot.           *)

Room(b) == IF Len(b) >= BufferCap THEN Tail(b) ELSE b

Record(p) ==
  /\ holder = Nobody /\ Len(log) < MaxLines
  /\ holder' = p
  /\ \E k \in LineKinds : log' = Append(log, k)
  /\ buf' = Append(Room(buf), Len(log) + 1)
  /\ UNCHANGED <<chan, reqVars>>

Broadcast(p) ==
  /\ holder = p
  /\ holder' = Nobody
  /\ chan' = Append(chan, buf[Len(buf)])
  /\ UNCHANGED <<log, buf, reqVars>>

-----------------------------------------------------------------------------
(* handle_logs: subscribe, then snapshot.                                  *)

Subscribe(c) ==
  /\ pc[c] = "idle"
  /\ pc' = [pc EXCEPT ![c] = "subscribed"]
  /\ \E f \in Filters, b \in BacklogSizes, follow \in BOOLEAN :
       params' = [params EXCEPT ![c] =
                    [filter |-> f, backlog |-> b, follow |-> follow]]
  /\ rx' = [rx EXCEPT ![c] = Len(chan) + 1]
  /\ UNCHANGED <<hubVars, backlog, last_seq, sent>>

Newest(b, n) == IF Len(b) > n THEN SubSeq(b, Len(b) - n + 1, Len(b)) ELSE b

LastOf(b) == IF b = <<>> THEN 0 ELSE b[Len(b)]

Snapshot(c) ==
  LET kept == Newest(buf, params[c].backlog) IN
  /\ pc[c] = "subscribed" /\ holder = Nobody
  /\ pc' = [pc EXCEPT ![c] = "streaming"]
  /\ backlog' = [backlog EXCEPT ![c] = kept]
  /\ last_seq' = [last_seq EXCEPT ![c] = LastOf(kept)]
  /\ UNCHANGED <<hubVars, params, rx, sent>>

-----------------------------------------------------------------------------
(* The stream of events axum writes as fast as the client reads them.      *)

Matches(c, s) == log[s] \in params[c].filter

Replay(c) ==
  LET s == Head(backlog[c]) IN
  /\ pc[c] = "streaming" /\ backlog[c] # <<>>
  /\ backlog' = [backlog EXCEPT ![c] = Tail(@)]
  /\ IF Matches(c, s) THEN Emit(c, LogEvent(s)) ELSE UNCHANGED sent
  /\ UNCHANGED <<hubVars, pc, params, rx, last_seq>>

(* What the channel has overwritten since the receiver last read.          *)
Missed(c) == Len(chan) - ChannelCap - (rx[c] - 1)

Live(c) ==
  /\ pc[c] = "streaming" /\ backlog[c] = <<>>
  /\ params[c].follow /\ rx[c] <= Len(chan)

SilentLagged(c) ==   \* mutation: Err(_) => None
  /\ Live(c) /\ Missed(c) > 0
  /\ rx' = [rx EXCEPT ![c] = @ + Missed(c)]
  /\ UNCHANGED <<hubVars, pc, params, backlog, last_seq, sent>>

EndingLagged(c) ==   \* mutation: a lag ends the stream
  /\ Live(c) /\ Missed(c) > 0
  /\ Emit(c, GapEvent(Missed(c)))
  /\ pc' = [pc EXCEPT ![c] = "ended"]
  /\ UNCHANGED <<hubVars, params, rx, backlog, last_seq>>

Lagged(c) ==
  /\ Live(c) /\ Missed(c) > 0
  /\ rx' = [rx EXCEPT ![c] = @ + Missed(c)]
  /\ Emit(c, GapEvent(Missed(c)))
  /\ UNCHANGED <<hubVars, pc, params, backlog, last_seq>>

UndedupedFresh(c, s) == Matches(c, s)     \* mutation

Fresh(c, s) == s > last_seq[c] /\ Matches(c, s)

Receive(c) ==
  LET s == chan[rx[c]] IN
  /\ Live(c) /\ Missed(c) <= 0
  /\ rx' = [rx EXCEPT ![c] = @ + 1]
  /\ IF Fresh(c, s) THEN Emit(c, LogEvent(s)) ELSE UNCHANGED sent
  /\ UNCHANGED <<hubVars, pc, params, backlog, last_seq>>

(* Without follow the answer ends with its backlog.                        *)
EndOfBacklog(c) ==
  /\ pc[c] = "streaming" /\ backlog[c] = <<>> /\ ~params[c].follow
  /\ pc' = [pc EXCEPT ![c] = "ended"]
  /\ UNCHANGED <<hubVars, params, rx, backlog, last_seq, sent>>

HangUp(c) ==
  /\ pc[c] = "streaming"
  /\ pc' = [pc EXCEPT ![c] = "gone"]
  /\ UNCHANGED <<hubVars, params, rx, backlog, last_seq, sent>>

Read(c) == Snapshot(c) \/ Replay(c) \/ Lagged(c) \/ Receive(c) \/ EndOfBacklog(c)

Next ==
  \/ \E p \in Loggers : Record(p) \/ Broadcast(p)
  \/ \E c \in Clients : Subscribe(c) \/ Read(c) \/ HangUp(c)

Spec == Init /\ [][Next]_vars

(* push does not block once it holds the lock, and axum polls the stream   *)
(* while the client reads; nobody has to log, ask, or stay.                *)
Fairness ==
  /\ \A p \in Loggers : WF_vars(Broadcast(p))
  /\ \A c \in Clients : WF_vars(Read(c))

FairSpec == Spec /\ Fairness

-----------------------------------------------------------------------------
(* Properties                                                              *)

Positive == Nat \ {0}
Events == [event : {"log", "gap"}, data : Positive]
Params == [filter : Filters \union {{}}, backlog : Nat, follow : BOOLEAN]
Pcs == {"idle", "subscribed", "streaming", "ended", "gone"}

(* The types of the feed's and the requests' state (LogHub, handle_logs). *)
LogHubTypeOK ==
  /\ log \in Seq(LineKinds) /\ holder \in Loggers \union {Nobody}
  /\ buf \in Seq(Positive) /\ chan \in Seq(Positive)
  /\ pc \in [Clients -> Pcs] /\ params \in [Clients -> Params]
  /\ rx \in [Clients -> Positive] /\ backlog \in [Clients -> Seq(Positive)]
  /\ last_seq \in [Clients -> Nat] /\ sent \in [Clients -> Seq(Events)]

(* How far through the log an answer has come: to just before the next     *)
(* backlog line, and then to the line its receiver read last, unless the   *)
(* backlog already went further.                                           *)
Cursor(c) ==
  IF pc[c] \in {"idle", "subscribed"} THEN 0
  ELSE IF backlog[c] # <<>> THEN Head(backlog[c]) - 1
  ELSE IF last_seq[c] > rx[c] - 1 THEN last_seq[c] ELSE rx[c] - 1

Begun == {c \in Clients : pc[c] \notin {"idle", "subscribed"}}

Wants == [c \in Clients |-> IF c \in Begun THEN params[c].filter ELSE {}]

Cursors == [c \in Clients |-> Cursor(c)]

Feed == INSTANCE LogFeed WITH
  Readers <- Clients, wants <- Wants, begun <- Begun, cursor <- Cursors,
  events <- sent

(* The answer to /api/logs keeps the feed's promise: where the backlog and *)
(* the live feed meet (subscribe before snapshot, then drop by seq), and   *)
(* however slowly the client reads, a wanted line is delivered once or is  *)
(* covered by a gap event.                                                 *)
KeepsFeedPromise == Feed!Spec

Delivered(c) == {i \in 1..Len(sent[c]) : sent[c][i].event = "log"}

(* A client never gets a line twice, nor one out of order: hub.rs orders   *)
(* seq, buffer and send by one lock because "the SSE backlog/live dedup    *)
(* relies on it".                                                          *)
DeliveredInOrder ==
  \A c \in Clients : \A i, j \in Delivered(c) :
    i < j => sent[c][i].data < sent[c][j].data

(* A client that follows and stays is eventually brought past every line   *)
(* logged, even when it lagged: a gap does not end the stream.             *)
FollowersCatchUp ==
  \A c \in Clients : \A n \in 1..MaxLines :
    (pc[c] = "streaming" /\ params[c].follow /\ Len(log) >= n)
      ~> (Cursor(c) >= n \/ pc[c] = "gone")

=============================================================================
