---------------------------- MODULE LogHub_proofs ----------------------------
(***************************************************************************)
(* The feed of LogHub, for every number of loggers, clients and lines and  *)
(* every capacity: clients get their lines in order and at most once, and  *)
(* the answer implements LogFeed.                                          *)
(***************************************************************************)
EXTENDS LogHub, SequenceTheorems, TLAPS

(* b holds consecutive lines, the last being n.                            *)
EndsAt(b, n) ==
  /\ Len(b) <= n
  /\ \A i \in 1..Len(b) : b[i] = n - Len(b) + i

(* Under the lock, seq, buffer and channel agree: the channel is the log   *)
(* but for the line its holder is about to send, the buffer its newest     *)
(* part.                                                                   *)
HubInv ==
  /\ EndsAt(buf, Len(log))
  /\ buf = <<>> => log = <<>>
  /\ EndsAt(chan, Len(chan))
  /\ holder = Nobody => Len(chan) = Len(log)
  /\ holder # Nobody => Len(chan) + 1 = Len(log)

(* A backlog is a run of lines up to last_seq, which the receiver, having  *)
(* subscribed before, continues without a hole.                            *)
ReqInv(c) ==
  /\ pc[c] = "subscribed" \/ pc[c] = "idle" => backlog[c] = <<>> /\ last_seq[c] = 0
  /\ rx[c] <= Len(chan) + 1
  /\ last_seq[c] <= Len(chan)
  /\ EndsAt(backlog[c], last_seq[c])
  /\ backlog[c] # <<>> => rx[c] - 1 <= last_seq[c]

(* Everything delivered lies behind the cursor, in order.                  *)
SentInv(c) ==
  /\ c \notin Begun => sent[c] = <<>>
  /\ \A i \in Delivered(c) : sent[c][i].data <= Cursor(c)
  /\ \A i, j \in Delivered(c) : i < j => sent[c][i].data < sent[c][j].data

FeedInv == LogHubTypeOK /\ HubInv /\ \A c \in Clients : ReqInv(c) /\ SentInv(c)

-----------------------------------------------------------------------------
(* Runs of consecutive lines                                               *)

LEMMA RunAppend ==
  ASSUME NEW b \in Seq(Positive), NEW n \in Nat, EndsAt(b, n)
  PROVE  EndsAt(Append(b, n + 1), n + 1)
  BY DEF EndsAt, Positive

LEMMA RunTail ==
  ASSUME NEW b \in Seq(Positive), NEW n \in Nat, EndsAt(b, n), b # <<>>
  PROVE  /\ Tail(b) \in Seq(Positive) /\ EndsAt(Tail(b), n)
         /\ Len(Tail(b)) = Len(b) - 1
         /\ Head(b) = n - Len(b) + 1 /\ Head(b) \in 1..n
<1>1. Tail(b) \in Seq(Positive) /\ Len(Tail(b)) = Len(b) - 1 /\ Head(b) \in Positive
       /\ \A i \in 1..Len(Tail(b)) : Tail(b)[i] = b[i + 1]
  BY HeadTailProperties
<1>2. Len(b) \in Nat \ {0} /\ Head(b) = b[1]
  BY EmptySeq
<1>3. Head(b) = n - Len(b) + 1 /\ Head(b) \in 1..n
  BY <1>2 DEF EndsAt
<1>4. EndsAt(Tail(b), n)
  BY <1>1, <1>2 DEF EndsAt
<1> QED BY <1>1, <1>3, <1>4

LEMMA RunNewest ==
  ASSUME NEW b \in Seq(Positive), NEW n \in Nat, EndsAt(b, n), NEW k \in Nat
  PROVE  /\ Newest(b, k) \in Seq(Positive)
         /\ EndsAt(Newest(b, k), n)
<1>1. CASE Len(b) > k
  <2> DEFINE m == Len(b) - k + 1
  <2>1. m \in 1..Len(b) + 1 /\ Len(b) \in Nat
    BY <1>1
  <2>2. \A i \in m..Len(b) : b[i] \in Positive
    BY <2>1, ElementOfSeq
  <2>3. /\ SubSeq(b, m, Len(b)) \in Seq(Positive)
        /\ Len(SubSeq(b, m, Len(b))) = IF m <= Len(b) THEN Len(b) - m + 1 ELSE 0
        /\ \A i \in 1 .. Len(b) - m + 1 : SubSeq(b, m, Len(b))[i] = b[m + i - 1]
    <3> HIDE DEF m
    <3> QED BY <2>1, <2>2, SubSeqProperties
  <2>4. Newest(b, k) = SubSeq(b, m, Len(b))
    BY <1>1 DEF Newest
  <2>5. Len(Newest(b, k)) = k
    BY <2>1, <2>3, <2>4
  <2>6. \A i \in 1..k : Newest(b, k)[i] = n - k + i
    BY <2>1, <2>3, <2>4, <1>1 DEF EndsAt
  <2>7. EndsAt(Newest(b, k), n)
    BY <2>1, <2>5, <2>6, <1>1 DEF EndsAt
  <2> QED BY <2>3, <2>4, <2>7
<1>2. CASE ~(Len(b) > k)
  BY <1>2 DEF Newest
<1> QED BY <1>1, <1>2

(* The last line of a run.                                                 *)
LEMMA RunLast ==
  ASSUME NEW b \in Seq(Positive), NEW n \in Nat, EndsAt(b, n)
  PROVE  LastOf(b) \in Nat /\ (b = <<>> => LastOf(b) = 0) /\ (b # <<>> => LastOf(b) = n)
<1>1. b # <<>> => Len(b) \in Nat \ {0}
  BY EmptySeq
<1> QED BY <1>1 DEF EndsAt, LastOf

-----------------------------------------------------------------------------
(* Types                                                                   *)

(* The parts of LogHubTypeOK, for the provers.                             *)
LEMMA TypeFacts ==
  ASSUME LogHubTypeOK
  PROVE  /\ log \in Seq(LineKinds) /\ holder \in Loggers \union {Nobody}
         /\ buf \in Seq(Positive) /\ chan \in Seq(Positive)
         /\ pc \in [Clients -> Pcs] /\ params \in [Clients -> Params]
         /\ rx \in [Clients -> Positive] /\ backlog \in [Clients -> Seq(Positive)]
         /\ last_seq \in [Clients -> Nat] /\ sent \in [Clients -> Seq(Events)]
         /\ Len(log) \in Nat /\ Len(buf) \in Nat /\ Len(chan) \in Nat
  BY DEF LogHubTypeOK

LEMMA InitFeedInv == Init => FeedInv
<1> SUFFICES ASSUME Init PROVE FeedInv
  OBVIOUS
<1>1. LogHubTypeOK
  BY EmptySeq DEF Init, LogHubTypeOK, Positive, Params, NoParams, Pcs
<1>2. HubInv
  BY EmptySeq DEF Init, HubInv, EndsAt
<1>3. ASSUME NEW c \in Clients PROVE ReqInv(c) /\ SentInv(c)
  BY EmptySeq DEF Init, ReqInv, SentInv, EndsAt, Delivered, Begun
<1> QED BY <1>1, <1>2, <1>3 DEF FeedInv

-----------------------------------------------------------------------------
(* The hub's steps                                                         *)

LEMMA RecordStep ==
  ASSUME FeedInv, NEW p \in Loggers, Record(p)
  PROVE  LogHubTypeOK' /\ HubInv'
<1> DEFINE n == Len(log)
<1>0. LogHubTypeOK /\ HubInv
  BY DEF FeedInv
<1> USE <1>0, TypeFacts
<1>1. log' \in Seq(LineKinds) /\ Len(log') = n + 1
  BY DEF Record
<1>2. Room(buf) \in Seq(Positive) /\ EndsAt(Room(buf), n)
  <2>1. CASE Len(buf) >= BufferCap
    <3>1. buf # <<>>
      BY <2>1, LogHubAssumption
    <3>2. EndsAt(buf, n) /\ n \in Nat
      BY DEF HubInv
    <3> QED BY <2>1, <3>1, <3>2, RunTail DEF Room
  <2>2. CASE ~(Len(buf) >= BufferCap)
    BY <2>2 DEF Room, HubInv
  <2> QED BY <2>1, <2>2
<1>3. buf' = Append(Room(buf), n + 1) /\ n + 1 \in Positive /\ n \in Nat
  BY DEF Record, Positive
<1>4. buf' \in Seq(Positive) /\ buf' # <<>> /\ EndsAt(buf', n + 1)
  <2> HIDE DEF n
  <2>1. EndsAt(buf', n + 1)
    BY <1>2, <1>3, RunAppend
  <2>2. buf' \in Seq(Positive) /\ Len(buf') = Len(Room(buf)) + 1 /\ Len(Room(buf)) \in Nat
    BY ONLY <1>2, <1>3
  <2>3. buf' # <<>>
    BY ONLY <2>2, EmptySeq
  <2> QED BY ONLY <2>1, <2>2, <2>3
<1>5. LogHubTypeOK'
  BY <1>1, <1>4 DEF Record, LogHubTypeOK, reqVars
<1>6. HubInv'
  BY <1>1, <1>4, LogHubAssumption DEF Record, HubInv
<1> QED BY <1>5, <1>6

LEMMA BroadcastStep ==
  ASSUME FeedInv, NEW p \in Loggers, Broadcast(p)
  PROVE  /\ LogHubTypeOK' /\ HubInv'
         /\ Len(chan') = Len(chan) + 1
<1>0. LogHubTypeOK /\ HubInv
  BY DEF FeedInv
<1> USE <1>0, TypeFacts
<1>1. Len(chan) + 1 = Len(log)
  BY LogHubAssumption DEF Broadcast, HubInv
<1>2. buf # <<>>
  BY <1>1 DEF HubInv
<1>3. buf[Len(buf)] = Len(chan) + 1
  BY <1>1, <1>2 DEF HubInv, EndsAt
<1>4. chan' = Append(chan, Len(chan) + 1) /\ Len(chan) + 1 \in Positive
  BY <1>3 DEF Broadcast, Positive
<1>5. /\ chan' \in Seq(Positive) /\ Len(chan') = Len(chan) + 1
      /\ EndsAt(chan', Len(chan) + 1)
  <2>1. EndsAt(chan', Len(chan) + 1)
    BY <1>4, RunAppend DEF HubInv
  <2> QED BY <1>4, <2>1
<1>6. LogHubTypeOK'
  BY <1>5 DEF Broadcast, LogHubTypeOK, reqVars
<1>7. HubInv'
  BY <1>1, <1>2, <1>5 DEF Broadcast, HubInv
<1> QED BY <1>5, <1>6, <1>7

(* What the hub does leaves every request as it is.                        *)
LEMMA HubStepKeepsRequests ==
  ASSUME FeedInv, NEW p \in Loggers, Record(p) \/ Broadcast(p), NEW c \in Clients
  PROVE  ReqInv(c)' /\ SentInv(c)'
<1>1. ReqInv(c) /\ SentInv(c) /\ LogHubTypeOK
  BY DEF FeedInv
<1>2. UNCHANGED reqVars
  BY DEF Record, Broadcast
<1>3. Len(chan') \in Nat /\ Len(chan) <= Len(chan')
  <2>1. CASE Record(p)
    BY <2>1, <1>1, TypeFacts DEF Record
  <2>2. CASE Broadcast(p)
    BY <2>2, <1>1, TypeFacts, BroadcastStep
  <2> QED BY <2>1, <2>2
<1>4. ReqInv(c)'
  BY <1>1, <1>2, <1>3, TypeFacts DEF ReqInv, reqVars, EndsAt, Positive
<1>5. SentInv(c)'
  BY <1>1, <1>2 DEF SentInv, reqVars, Begun, Delivered, Cursor
<1> QED BY <1>4, <1>5

-----------------------------------------------------------------------------
(* A request's steps                                                       *)

ClientStep(c) == Subscribe(c) \/ Read(c) \/ HangUp(c)

LEMMA ClientStepKeepsOthers ==
  ASSUME FeedInv, NEW c \in Clients, ClientStep(c)
  PROVE  /\ UNCHANGED hubVars /\ HubInv'
         /\ \A d \in Clients \ {c} :
              ReqInv(d)' /\ SentInv(d)' /\ Cursor(d)' = Cursor(d)
<1>1. UNCHANGED hubVars
  BY DEF ClientStep, Subscribe, Read, Snapshot, Replay, Lagged, Receive, EndOfBacklog,
     HangUp
<1>2. HubInv'
  BY <1>1 DEF FeedInv, HubInv, hubVars, EndsAt
<1>3. ASSUME NEW d \in Clients \ {c}
      PROVE  ReqInv(d)' /\ SentInv(d)' /\ Cursor(d)' = Cursor(d)
  <2>1. ReqInv(d) /\ SentInv(d) /\ LogHubTypeOK
    BY DEF FeedInv
  <2>2. /\ pc'[d] = pc[d] /\ rx'[d] = rx[d] /\ backlog'[d] = backlog[d]
        /\ last_seq'[d] = last_seq[d] /\ sent'[d] = sent[d]
    BY <2>1, TypeFacts DEF ClientStep, Subscribe, Read, Snapshot, Replay, Lagged,
       Receive, EndOfBacklog, HangUp, Emit
  <2>3. chan' = chan
    BY <1>1 DEF hubVars
  <2> QED BY <2>1, <2>2, <2>3 DEF ReqInv, SentInv, Begun, Delivered, Cursor
<1> QED BY <1>1, <1>2, <1>3

LEMMA SubscribeStep ==
  ASSUME FeedInv, NEW c \in Clients, Subscribe(c)
  PROVE  LogHubTypeOK' /\ ReqInv(c)' /\ SentInv(c)' /\ c \notin Begun'
<1>0. LogHubTypeOK /\ ReqInv(c) /\ SentInv(c)
  BY DEF FeedInv
<1> USE <1>0, TypeFacts
<1>1. LogHubTypeOK'
  <2>1. params' \in [Clients -> Params]
    BY LogHubAssumption DEF Subscribe, Params
  <2> QED BY <2>1 DEF Subscribe, LogHubTypeOK, hubVars, Pcs, Positive
<1>2. /\ pc'[c] = "subscribed" /\ rx'[c] = Len(chan) + 1 /\ chan' = chan
      /\ backlog'[c] = <<>> /\ last_seq'[c] = 0 /\ sent'[c] = <<>>
  BY DEF Subscribe, ReqInv, SentInv, Begun, hubVars
<1>3. ReqInv(c)'
  BY <1>2, EmptySeq DEF ReqInv, EndsAt
<1>4. SentInv(c)' /\ c \notin Begun'
  BY <1>2, EmptySeq DEF SentInv, Begun, Delivered
<1> QED BY <1>1, <1>3, <1>4

(* The snapshot reaches at least as far as the receiver starts.            *)
LEMMA SnapshotStep ==
  ASSUME FeedInv, NEW c \in Clients, Snapshot(c)
  PROVE  /\ LogHubTypeOK' /\ ReqInv(c)' /\ SentInv(c)'
         /\ c \notin Begun /\ Begun' = Begun \union {c}
         /\ Cursor(c)' \in 0..Len(log) /\ sent' = sent
<1> DEFINE kept == Newest(buf, params[c].backlog)
<1>0. LogHubTypeOK /\ HubInv /\ ReqInv(c) /\ SentInv(c)
  BY DEF FeedInv
<1>1. /\ kept \in Seq(Positive) /\ EndsAt(kept, Len(log))
      /\ LastOf(kept) \in Nat /\ (kept = <<>> => LastOf(kept) = 0)
      /\ (kept # <<>> => LastOf(kept) = Len(log))
  <2>1. params[c].backlog \in Nat
    BY <1>0, TypeFacts DEF Params
  <2>2. kept \in Seq(Positive) /\ EndsAt(kept, Len(log))
    BY <1>0, <2>1, TypeFacts, RunNewest DEF HubInv
  <2> QED
    <3> HIDE DEF kept
    <3> QED BY <1>0, <2>2, TypeFacts, RunLast
<1>2. /\ pc[c] = "subscribed" /\ pc'[c] = "streaming" /\ chan' = chan
      /\ backlog'[c] = kept /\ last_seq'[c] = LastOf(kept) /\ rx' = rx
      /\ sent'[c] = <<>> /\ sent' = sent
  BY <1>0, TypeFacts DEF Snapshot, SentInv, Begun, hubVars
<1> HIDE DEF kept
<1>3. LogHubTypeOK'
  <2>1. /\ pc' \in [Clients -> Pcs] /\ backlog' \in [Clients -> Seq(Positive)]
        /\ last_seq' \in [Clients -> Nat]
    BY <1>0, <1>1, TypeFacts DEF Snapshot, Pcs, kept
  <2> QED BY <1>0, <2>1 DEF Snapshot, LogHubTypeOK, hubVars
<1>4. /\ Len(chan) = Len(log) /\ rx[c] \in Positive /\ rx[c] - 1 <= Len(log)
      /\ Len(log) \in Nat
  BY <1>0, TypeFacts DEF Snapshot, HubInv, ReqInv, Positive
<1>5. ReqInv(c)'
  <2>1. EndsAt(kept, LastOf(kept))
    <3>1. CASE kept = <<>>
      BY <1>1, <3>1, EmptySeq DEF EndsAt
    <3>2. CASE kept # <<>>
      BY <1>1, <3>2
    <3> QED BY <3>1, <3>2
  <2>2. /\ LastOf(kept) <= Len(chan) /\ rx[c] <= Len(chan) + 1
        /\ kept # <<>> => rx[c] - 1 <= LastOf(kept)
    BY ONLY <1>1, <1>4 DEF Positive
  <2> QED BY ONLY <1>2, <2>1, <2>2 DEF ReqInv
<1>6. SentInv(c)'
  BY <1>2, EmptySeq DEF SentInv, Delivered
<1>7. c \notin Begun /\ Begun' = Begun \union {c}
  BY <1>0, <1>2, TypeFacts DEF Begun, Snapshot
<1>8. Cursor(c)' \in 0..Len(log)
  <2>1. CASE kept = <<>>
    BY <2>1, <1>1, <1>2, <1>4 DEF Cursor, Positive
  <2>2. CASE kept # <<>>
    <3>1. Head(kept) \in 1..Len(log)
      BY <2>2, <1>1, <1>4, RunTail
    <3>2. Cursor(c)' = Head(kept) - 1
      BY <2>2, <1>2 DEF Cursor
    <3> QED BY <1>4, <3>1, <3>2
  <2> QED BY <2>1, <2>2
<1> QED BY <1>2, <1>3, <1>5, <1>6, <1>7, <1>8

(* What holds of an answer under way.                                      *)
LEMMA StreamingFacts ==
  ASSUME FeedInv, NEW c \in Clients, pc[c] = "streaming"
  PROVE  /\ LogHubTypeOK /\ ReqInv(c) /\ SentInv(c)
         /\ c \in Begun /\ Cursor(c) \in 0..Len(chan) /\ Len(chan) <= Len(log)
         /\ Len(chan) \in Nat /\ rx[c] \in Nat \ {0} /\ last_seq[c] \in Nat
         /\ sent[c] \in Seq(Events)
<1>1. LogHubTypeOK /\ ReqInv(c) /\ SentInv(c) /\ HubInv
  BY DEF FeedInv
<1>2. /\ c \in Begun /\ Len(chan) <= Len(log) /\ Len(chan) \in Nat
      /\ rx[c] \in Nat \ {0} /\ last_seq[c] \in Nat /\ sent[c] \in Seq(Events)
      /\ backlog[c] \in Seq(Positive)
  BY <1>1, TypeFacts DEF HubInv, Begun, Positive
<1>3. Cursor(c) \in 0..Len(chan)
  <2>1. CASE backlog[c] = <<>>
    BY <1>1, <1>2, <2>1 DEF ReqInv, Cursor
  <2>2. CASE backlog[c] # <<>>
    <3>1. Head(backlog[c]) \in 1..last_seq[c]
      BY <1>1, <1>2, <2>2, RunTail DEF ReqInv
    <3>2. Cursor(c) = Head(backlog[c]) - 1
      BY <2>2 DEF Cursor
    <3> QED BY <1>1, <1>2, <3>1, <3>2 DEF ReqInv
  <2> QED BY <2>1, <2>2
<1> QED BY <1>1, <1>2, <1>3
LEMMA EventData ==
  ASSUME NEW q \in Seq(Events), NEW i \in 1..Len(q)
  PROVE  q[i].data \in Nat
<1>1. q[i] \in Events
  BY ElementOfSeq
<1> QED BY <1>1 DEF Events, Positive

(* An event past the cursor keeps what was delivered in order.             *)
LEMMA AppendKeepsOrder ==
  ASSUME NEW c \in Clients, SentInv(c), sent[c] \in Seq(Events), NEW e \in Events,
         sent'[c] = Append(sent[c], e), c \in Begun',
         Cursor(c) \in Nat, Cursor(c)' \in Nat, Cursor(c) <= Cursor(c)',
         e.event = "log" => Cursor(c) < e.data /\ e.data <= Cursor(c)'
  PROVE  SentInv(c)'
<1> DEFINE k == Len(sent[c])
<1>1. /\ k \in Nat /\ Len(sent'[c]) = k + 1 /\ sent'[c][k + 1] = e
      /\ \A i \in 1..k : sent'[c][i] = sent[c][i]
  OBVIOUS
<1>2. \A i \in 1..k : sent[c][i].data \in Nat
  BY EventData
<1> HIDE DEF k
<1>3. \A i \in Delivered(c)' : i \in Delivered(c) \/ (i = k + 1 /\ e.event = "log")
  BY <1>1 DEF Delivered, k
<1>4. \A i \in Delivered(c) : i \in 1..k
  BY DEF Delivered, k
<1>5. \A i \in Delivered(c)' : sent'[c][i].data <= Cursor(c)'
  BY <1>1, <1>2, <1>3, <1>4 DEF SentInv
<1>6. \A i, j \in Delivered(c)' : i < j => sent'[c][i].data < sent'[c][j].data
  <2> SUFFICES ASSUME NEW i \in Delivered(c)', NEW j \in Delivered(c)', i < j
               PROVE  sent'[c][i].data < sent'[c][j].data
    OBVIOUS
  <2>1. CASE j \in Delivered(c)
    <3>1. i \in Delivered(c)
      BY <2>1, <1>1, <1>3, <1>4
    <3> QED BY <2>1, <3>1, <1>1, <1>4 DEF SentInv
  <2>2. CASE j = k + 1 /\ e.event = "log"
    <3>0. i # k + 1
      BY ONLY <2>2, <1>1, i < j
    <3>1. i \in Delivered(c)
      BY <3>0, <1>3
    <3>2. sent'[c][i] = sent[c][i] /\ sent'[c][j] = e /\ sent[c][i].data \in Nat
      BY <2>2, <3>1, <1>1, <1>2, <1>4
    <3>3. sent[c][i].data <= Cursor(c) /\ Cursor(c) < e.data
      BY <2>2, <3>1 DEF SentInv
    <3>4. e.data \in Nat
      BY DEF Events, Positive
    <3> QED BY <3>2, <3>3, <3>4
  <2> QED BY <1>3, <2>1, <2>2
<1> QED BY <1>5, <1>6 DEF SentInv

(* An answer comes to one more line, or stays: the line is delivered if    *)
(* and only if the client wants it.                                        *)
OneLine(c) ==
  LET n == Cursor(c)' IN
  \/ /\ n = Cursor(c) + 1 /\ Matches(c, n)
     /\ sent' = [sent EXCEPT ![c] = Append(@, LogEvent(n))]
  \/ /\ n = Cursor(c) + 1 /\ ~Matches(c, n)
     /\ sent' = sent
  \/ n = Cursor(c) /\ sent' = sent

LEMMA OneLineKeepsOrder ==
  ASSUME FeedInv, NEW c \in Clients, pc[c] = "streaming", c \in Begun',
         Cursor(c)' \in Nat, OneLine(c)
  PROVE  SentInv(c)' /\ sent' \in [Clients -> Seq(Events)]
<1>1. /\ LogHubTypeOK /\ SentInv(c) /\ Cursor(c) \in Nat /\ sent[c] \in Seq(Events)
  BY StreamingFacts
<1>2. CASE /\ Cursor(c)' = Cursor(c) + 1
           /\ sent' = [sent EXCEPT ![c] = Append(@, LogEvent(Cursor(c)'))]
  <2> DEFINE e == LogEvent(Cursor(c)')
  <2>1. e \in Events /\ e.event = "log" /\ e.data = Cursor(c)'
    BY <1>1, <1>2 DEF LogEvent, Events, Positive
  <2>2. sent'[c] = Append(sent[c], e)
    BY <1>1, <1>2, TypeFacts
  <2>3. sent' \in [Clients -> Seq(Events)]
    BY <1>1, <1>2, <2>1, TypeFacts
  <2>4. Cursor(c) < Cursor(c)' /\ Cursor(c) <= Cursor(c)'
    BY <1>1, <1>2
  <2> HIDE DEF e
  <2> QED BY <1>1, <2>1, <2>2, <2>3, <2>4, AppendKeepsOrder
<1>3. CASE sent' = sent /\ Cursor(c) <= Cursor(c)'
  <2>1. \A i \in Delivered(c) : sent[c][i].data \in Nat
    BY <1>1, EventData DEF Delivered
  <2>2. Delivered(c)' = Delivered(c)
    BY <1>3 DEF Delivered
  <2> QED BY <1>1, <1>3, <2>1, <2>2, TypeFacts DEF SentInv
<1> QED BY <1>1, <1>2, <1>3 DEF OneLine

LEMMA ReplayStep ==
  ASSUME FeedInv, NEW c \in Clients, Replay(c)
  PROVE  /\ LogHubTypeOK' /\ ReqInv(c)' /\ SentInv(c)' /\ Begun' = Begun
         /\ Cursor(c)' \in 0..Len(log) /\ OneLine(c)
<1>0. pc[c] = "streaming" /\ backlog[c] # <<>>
  BY DEF Replay
<1>1. /\ LogHubTypeOK /\ ReqInv(c) /\ SentInv(c) /\ Len(chan) <= Len(log)
      /\ Len(chan) \in Nat /\ rx[c] \in Nat \ {0} /\ last_seq[c] \in Nat
      /\ backlog[c] \in Seq(Positive) /\ EndsAt(backlog[c], last_seq[c])
      /\ last_seq[c] <= Len(chan) /\ rx[c] - 1 <= last_seq[c]
  BY <1>0, StreamingFacts, TypeFacts DEF ReqInv
<1> DEFINE s == Head(backlog[c])
           rest == Tail(backlog[c])
           n == Len(backlog[c])
<1>2. /\ rest \in Seq(Positive) /\ EndsAt(rest, last_seq[c])
      /\ s = last_seq[c] - n + 1 /\ s \in 1..last_seq[c]
      /\ Len(rest) = n - 1 /\ n \in Nat
  BY <1>0, <1>1, RunTail
<1>3. /\ pc' = pc /\ rx' = rx /\ last_seq' = last_seq /\ chan' = chan /\ log' = log
      /\ params' = params /\ holder' = holder /\ buf' = buf
      /\ backlog' = [backlog EXCEPT ![c] = rest]
      /\ backlog'[c] = rest
      /\ IF Matches(c, s) THEN sent' = [sent EXCEPT ![c] = Append(@, LogEvent(s))]
                          ELSE sent' = sent
  BY <1>1, TypeFacts DEF Replay, Emit, hubVars
<1> HIDE DEF s, rest, n
<1>4. Cursor(c) = s - 1
  BY <1>0 DEF Cursor, s
<1>5. Cursor(c)' = s
  <2>1. CASE rest = <<>>
    <3>1. Len(rest) = 0
      BY <2>1
    <3>2. s = last_seq[c] /\ rx[c] - 1 <= s /\ s \in Nat
      BY ONLY <1>1, <1>2, <3>1
    <3>3. Cursor(c)' = IF last_seq[c] > rx[c] - 1 THEN last_seq[c] ELSE rx[c] - 1
      BY <1>0, <1>3, <2>1 DEF Cursor
    <3> QED BY ONLY <1>1, <3>2, <3>3
  <2>2. CASE rest # <<>>
    <3>1. Head(rest) = last_seq[c] - Len(rest) + 1
      BY <1>1, <1>2, <2>2, RunTail
    <3>2. Cursor(c)' = Head(rest) - 1
      BY <1>0, <1>3, <2>2 DEF Cursor
    <3>3. Head(rest) = s + 1
      BY ONLY <1>1, <1>2, <3>1
    <3> QED BY <1>2, <3>2, <3>3
  <2> QED BY <2>1, <2>2
<1>6. OneLine(c) /\ Begun' = Begun /\ Cursor(c)' \in 0..Len(log)
  BY <1>1, <1>2, <1>3, <1>4, <1>5 DEF OneLine, Begun
<1>7. c \in Begun' /\ Cursor(c)' \in Nat
  BY <1>0, <1>3, <1>6 DEF Begun
<1>8. SentInv(c)' /\ sent' \in [Clients -> Seq(Events)]
  BY <1>0, <1>6, <1>7, OneLineKeepsOrder
<1>9. LogHubTypeOK'
  BY <1>1, <1>2, <1>3, <1>8 DEF LogHubTypeOK
<1>10. ReqInv(c)'
  BY <1>0, <1>1, <1>2, <1>3 DEF ReqInv
<1> QED BY <1>6, <1>8, <1>9, <1>10

LEMMA ReceiveStep ==
  ASSUME FeedInv, NEW c \in Clients, Receive(c)
  PROVE  /\ LogHubTypeOK' /\ ReqInv(c)' /\ SentInv(c)' /\ Begun' = Begun
         /\ Cursor(c)' \in 0..Len(log) /\ OneLine(c)
<1>0. /\ pc[c] = "streaming" /\ backlog[c] = <<>> /\ rx[c] <= Len(chan)
  BY DEF Receive, Live
<1>1. /\ LogHubTypeOK /\ ReqInv(c) /\ SentInv(c) /\ Len(chan) <= Len(log)
      /\ Len(chan) \in Nat /\ rx[c] \in Nat \ {0} /\ last_seq[c] \in Nat
      /\ last_seq[c] <= Len(chan) /\ Len(log) \in Nat
  BY <1>0, StreamingFacts, TypeFacts DEF ReqInv
<1> DEFINE s == chan[rx[c]]
<1>2. s = rx[c]
  BY <1>0, <1>1 DEF FeedInv, HubInv, EndsAt
<1>3. /\ pc' = pc /\ backlog' = backlog /\ last_seq' = last_seq /\ chan' = chan
      /\ log' = log /\ params' = params /\ holder' = holder /\ buf' = buf
      /\ rx' = [rx EXCEPT ![c] = rx[c] + 1] /\ rx'[c] = rx[c] + 1
      /\ IF Fresh(c, s) THEN sent' = [sent EXCEPT ![c] = Append(@, LogEvent(s))]
                        ELSE sent' = sent
  BY <1>1, TypeFacts DEF Receive, Emit, hubVars
<1> HIDE DEF s
<1>4. /\ Cursor(c) = IF last_seq[c] > rx[c] - 1 THEN last_seq[c] ELSE rx[c] - 1
      /\ Cursor(c)' = IF last_seq[c] > rx[c] THEN last_seq[c] ELSE rx[c]
  BY <1>0, <1>1, <1>3 DEF Cursor
<1>5. OneLine(c) /\ Begun' = Begun /\ Cursor(c)' \in 0..Len(log)
  <2>1. Cursor(c)' \in 0..Len(log)
    BY <1>0, <1>1, <1>4
  <2>2. ASSUME s > last_seq[c] PROVE OneLine(c)
    <3>1. Cursor(c)' = s /\ Cursor(c)' = Cursor(c) + 1
      BY <1>1, <1>2, <1>4, <2>2
    <3>2. Fresh(c, s) <=> Matches(c, s)
      BY <2>2 DEF Fresh
    <3> QED BY <1>3, <3>1, <3>2 DEF OneLine
  <2>3. ASSUME ~(s > last_seq[c]) PROVE OneLine(c)
    <3>1. Cursor(c)' = Cursor(c)
      BY <1>1, <1>2, <1>4, <2>3
    <3>2. ~Fresh(c, s)
      BY <2>3 DEF Fresh
    <3> QED BY <1>3, <3>1, <3>2 DEF OneLine
  <2> QED BY <1>3, <2>1, <2>2, <2>3 DEF Begun
<1>6. c \in Begun' /\ Cursor(c)' \in Nat
  BY <1>0, <1>3, <1>5 DEF Begun
<1>7. SentInv(c)' /\ sent' \in [Clients -> Seq(Events)]
  BY <1>0, <1>5, <1>6, OneLineKeepsOrder
<1>8. LogHubTypeOK'
  <2>1. rx' \in [Clients -> Positive]
    BY <1>1, <1>3, TypeFacts DEF Positive
  <2> QED BY <1>1, <1>3, <1>7, <2>1 DEF LogHubTypeOK
<1>9. ReqInv(c)'
  BY <1>0, <1>1, <1>3 DEF ReqInv
<1> QED BY <1>5, <1>7, <1>8, <1>9

LEMMA LaggedStep ==
  ASSUME FeedInv, NEW c \in Clients, Lagged(c)
  PROVE  /\ LogHubTypeOK' /\ ReqInv(c)' /\ SentInv(c)' /\ Begun' = Begun
         /\ Cursor(c)' \in Cursor(c)..Len(log) /\ Missed(c) \in 1..Len(log)
         /\ Cursor(c)' - Cursor(c) <= Missed(c)
         /\ sent' = [sent EXCEPT ![c] = Append(@, GapEvent(Missed(c)))]
<1>0. pc[c] = "streaming" /\ backlog[c] = <<>> /\ Missed(c) > 0
  BY DEF Lagged, Live
<1>1. /\ LogHubTypeOK /\ ReqInv(c) /\ SentInv(c) /\ Len(chan) <= Len(log)
      /\ Len(chan) \in Nat /\ rx[c] \in Nat \ {0} /\ last_seq[c] \in Nat
      /\ last_seq[c] <= Len(chan) /\ Len(log) \in Nat /\ sent[c] \in Seq(Events)
      /\ Cursor(c) \in Nat
  BY <1>0, StreamingFacts, TypeFacts DEF ReqInv
<1> DEFINE m == Missed(c)
<1>2. /\ m \in 1..Len(chan) /\ rx[c] + m <= Len(chan) + 1
  <2>1. /\ m = Len(chan) - ChannelCap - (rx[c] - 1) /\ m > 0
        /\ ChannelCap \in Nat \ {0}
    BY <1>0, LogHubAssumption DEF Missed
  <2>2. /\ Len(chan) \in Nat /\ rx[c] \in Nat \ {0}
    BY <1>1
  <2> HIDE DEF m
  <2> QED BY ONLY <2>1, <2>2
<1>3. /\ pc' = pc /\ backlog' = backlog /\ last_seq' = last_seq /\ chan' = chan
      /\ log' = log /\ params' = params /\ holder' = holder /\ buf' = buf
      /\ rx' = [rx EXCEPT ![c] = rx[c] + m] /\ rx'[c] = rx[c] + m
      /\ sent' = [sent EXCEPT ![c] = Append(@, GapEvent(m))]
      /\ sent'[c] = Append(sent[c], GapEvent(m))
  BY <1>1, TypeFacts DEF Lagged, Emit, hubVars
<1> HIDE DEF m
<1>4. /\ Cursor(c) = IF last_seq[c] > rx[c] - 1 THEN last_seq[c] ELSE rx[c] - 1
      /\ Cursor(c)' = IF last_seq[c] > (rx[c] + m) - 1 THEN last_seq[c]
                                                      ELSE (rx[c] + m) - 1
  <2>1. pc[c] \notin {"idle", "subscribed"}
    BY <1>0
  <2> QED BY <1>0, <1>3, <2>1 DEF Cursor
<1>5. Cursor(c)' \in Cursor(c)..Len(log) /\ Cursor(c)' - Cursor(c) <= m
  <2>1. m \in Nat \ {0} /\ (rx[c] + m) - 1 <= Len(log)
    BY ONLY <1>1, <1>2
  <2> QED BY ONLY <1>1, <1>4, <2>1
<1>6. Begun' = Begun /\ c \in Begun'
  BY <1>0, <1>3 DEF Begun
<1>7. /\ GapEvent(m) \in Events /\ GapEvent(m).event # "log"
      /\ Cursor(c)' \in Nat /\ Cursor(c) <= Cursor(c)'
  BY <1>1, <1>2, <1>5 DEF GapEvent, Events, Positive
<1>8. SentInv(c)'
  BY <1>1, <1>3, <1>6, <1>7, AppendKeepsOrder
<1>9. LogHubTypeOK'
  <2>1. rx' \in [Clients -> Positive] /\ sent' \in [Clients -> Seq(Events)]
    BY <1>1, <1>2, <1>3, <1>7, TypeFacts DEF Positive
  <2> QED BY <1>1, <1>3, <2>1 DEF LogHubTypeOK
<1>10. ReqInv(c)'
  BY <1>0, <1>1, <1>2, <1>3 DEF ReqInv
<1> QED BY <1>1, <1>2, <1>3, <1>5, <1>6, <1>8, <1>9, <1>10 DEF m

(* Ending or leaving moves nothing.                                        *)
LEMMA FinishStep ==
  ASSUME FeedInv, NEW c \in Clients, EndOfBacklog(c) \/ HangUp(c)
  PROVE  /\ LogHubTypeOK' /\ ReqInv(c)' /\ SentInv(c)' /\ Begun' = Begun
         /\ Cursor(c)' = Cursor(c) /\ sent' = sent /\ params' = params
<1>0. pc[c] = "streaming"
  BY DEF EndOfBacklog, HangUp
<1>1. LogHubTypeOK /\ ReqInv(c) /\ SentInv(c)
  BY DEF FeedInv
<1>2. /\ \/ pc' = [pc EXCEPT ![c] = "ended"] \/ pc' = [pc EXCEPT ![c] = "gone"]
      /\ UNCHANGED <<log, holder, buf, chan, params, rx, backlog, last_seq, sent>>
  BY DEF EndOfBacklog, HangUp, hubVars
<1>3. pc' \in [Clients -> Pcs] /\ pc'[c] \in {"ended", "gone"}
  BY <1>1, <1>2, TypeFacts DEF Pcs
<1>4. Begun' = Begun
  BY <1>0, <1>1, <1>2, TypeFacts DEF Begun
<1>5. Cursor(c)' = Cursor(c)
  BY <1>0, <1>2, <1>3 DEF Cursor
<1>6. ReqInv(c)' /\ SentInv(c)'
  BY <1>1, <1>2, <1>3, <1>4, <1>5 DEF ReqInv, SentInv, Delivered
<1> QED BY <1>1, <1>2, <1>3, <1>4, <1>5, <1>6 DEF LogHubTypeOK

-----------------------------------------------------------------------------
(* The theorems                                                            *)

(* FeedInv is inductive: init and every step keep it.                      *)
LEMMA NextFeedInv == FeedInv /\ [Next]_vars => FeedInv'
<1> SUFFICES ASSUME FeedInv, [Next]_vars PROVE FeedInv'
  OBVIOUS
<1>1. ASSUME NEW p \in Loggers, Record(p) \/ Broadcast(p) PROVE FeedInv'
  <2>1. LogHubTypeOK' /\ HubInv'
    BY <1>1, RecordStep, BroadcastStep
  <2> QED BY <1>1, <2>1, HubStepKeepsRequests DEF FeedInv
<1>2. ASSUME NEW c \in Clients, ClientStep(c) PROVE FeedInv'
  <2>1. LogHubTypeOK' /\ ReqInv(c)' /\ SentInv(c)'
    BY <1>2, SubscribeStep, SnapshotStep, ReplayStep, ReceiveStep, LaggedStep,
       FinishStep DEF ClientStep, Read
  <2> QED BY <1>2, <2>1, ClientStepKeepsOthers DEF FeedInv
<1>3. CASE UNCHANGED vars
  BY <1>3 DEF vars, hubVars, reqVars, FeedInv, LogHubTypeOK, HubInv, ReqInv, SentInv,
     EndsAt, Begun, Delivered, Cursor
<1> QED BY <1>1, <1>2, <1>3 DEF Next, ClientStep

THEOREM FeedInvHolds == Spec => []FeedInv
<1> QED BY InitFeedInv, NextFeedInv, PTL DEF Spec

(* The hub's and the requests' state keeps its types.                      *)
THEOREM LogHubTypeCorrect == Spec => []LogHubTypeOK
<1>1. FeedInv => LogHubTypeOK
  BY DEF FeedInv
<1> QED BY <1>1, FeedInvHolds, PTL

(* Clients get their lines at most once and in order.                      *)
THEOREM DeliveredInOrderHolds == Spec => []DeliveredInOrder
<1>1. FeedInv => DeliveredInOrder
  BY DEF FeedInv, SentInv, DeliveredInOrder
<1> QED BY <1>1, FeedInvHolds, PTL

-----------------------------------------------------------------------------
(* LogHub implements LogFeed                                               *)

LEMMA InitImplements == Init => Feed!Init
<1> SUFFICES ASSUME Init PROVE Feed!Init
  OBVIOUS
<1>1. Begun = {}
  BY DEF Init, Begun
<1>2. Wants = [c \in Clients |-> {}] /\ Cursors = [c \in Clients |-> 0]
  BY <1>1 DEF Init, Wants, Cursors, Cursor
<1> QED BY <1>1, <1>2 DEF Init, Feed!Init

(* What a step of one answer under way does to the mapped state.           *)
LEMMA AnswerMoves ==
  ASSUME FeedInv, NEW c \in Clients, ClientStep(c), Begun' = Begun, params' = params
  PROVE  /\ log' = log /\ Wants' = Wants
         /\ Cursors' = [Cursors EXCEPT ![c] = Cursor(c)']
<1>1. log' = log
  BY ClientStepKeepsOthers DEF hubVars
<1>2. \A d \in Clients \ {c} : Cursor(d)' = Cursor(d)
  BY ClientStepKeepsOthers
<1>3. Wants' = Wants
  BY DEF Wants
<1>4. Cursors' = [Cursors EXCEPT ![c] = Cursor(c)']
  BY <1>2 DEF Cursors
<1> QED BY <1>1, <1>3, <1>4

(* One line on: it is delivered or passed over.                            *)
LEMMA OneLineImplements ==
  ASSUME FeedInv, NEW c \in Clients, ClientStep(c), pc[c] = "streaming",
         Begun' = Begun, params' = params, Cursor(c)' \in 0..Len(log), OneLine(c)
  PROVE  Feed!Advance(c)
<1> DEFINE n == Cursor(c)'
<1>1. c \in Begun /\ Cursor(c) \in Nat /\ n \in Nat /\ Len(log) \in Nat
  BY StreamingFacts, TypeFacts
<1>2. log' = log /\ Wants' = Wants /\ Cursors' = [Cursors EXCEPT ![c] = n]
  BY AnswerMoves
<1>3. Cursors[c] = Cursor(c) /\ Wants[c] = params[c].filter
  BY <1>1 DEF Cursors, Wants
<1>4. Feed!Unmet(c, n) = {s \in Cursor(c) + 1 .. n : Matches(c, s)}
  BY <1>3 DEF Feed!Unmet, Matches
<1>5. n \in Cursors[c]..Len(log) /\ (Feed!Deliver(c, n) \/ Feed!PassOver(c, n))
  <2>1. CASE /\ n = Cursor(c) + 1 /\ Matches(c, n)
             /\ sent' = [sent EXCEPT ![c] = Append(@, LogEvent(n))]
    <3>1. Feed!Unmet(c, n) = {n}
      BY <1>1, <1>4, <2>1
    <3>2. n \in Cursors[c]..Len(log)
      BY <1>1, <1>3, <2>1
    <3> QED BY <2>1, <3>1, <3>2 DEF Feed!Deliver, LogEvent, Feed!LogEvent
  <2>2. CASE n = Cursor(c) + 1 /\ ~Matches(c, n) /\ sent' = sent
    <3>1. Feed!Unmet(c, n) = {}
      BY <1>1, <1>4, <2>2
    <3>2. n \in Cursors[c]..Len(log)
      BY <1>1, <1>3, <2>2
    <3> QED BY <2>2, <3>1, <3>2 DEF Feed!PassOver
  <2>3. CASE n = Cursor(c) /\ sent' = sent
    <3>1. Feed!Unmet(c, n) = {}
      BY <1>1, <1>4, <2>3
    <3>2. n \in Cursors[c]..Len(log)
      BY <1>1, <1>3, <2>3
    <3> QED BY <2>3, <3>1, <3>2 DEF Feed!PassOver
  <2> QED BY <2>1, <2>2, <2>3 DEF OneLine
<1> HIDE DEF n
<1> QED BY <1>1, <1>2, <1>5 DEF Feed!Advance

(* A gap owns up to every line it skips.                                   *)
LEMMA LaggedImplements ==
  ASSUME FeedInv, NEW c \in Clients, Lagged(c)
  PROVE  Feed!Advance(c)
<1> DEFINE n == Cursor(c)'
           m == Missed(c)
<1>0. pc[c] = "streaming" /\ ClientStep(c) /\ params' = params
  BY DEF Lagged, Live, ClientStep, Read
<1>1. /\ c \in Begun /\ n \in Cursor(c)..Len(log) /\ m \in 1..Len(log)
      /\ n - Cursor(c) <= m
      /\ Begun' = Begun /\ sent' = [sent EXCEPT ![c] = Append(@, GapEvent(m))]
  BY <1>0, StreamingFacts, LaggedStep
<1>2. log' = log /\ Wants' = Wants /\ Cursors' = [Cursors EXCEPT ![c] = n]
  BY <1>0, <1>1, AnswerMoves
<1>3. Cursors[c] = Cursor(c)
  BY DEF Cursors
<1> HIDE DEF n, m
<1>4. Feed!Lose(c, n)
  BY <1>1, <1>3 DEF Feed!Lose, GapEvent, Feed!GapEvent
<1> QED BY <1>1, <1>2, <1>3, <1>4 DEF Feed!Advance

LEMMA SnapshotImplements ==
  ASSUME FeedInv, NEW c \in Clients, Snapshot(c)
  PROVE  Feed!Begin(c)
<1>1. /\ c \notin Begun /\ Begun' = Begun \union {c} /\ sent' = sent
      /\ Cursor(c)' \in 0..Len(log)
  BY SnapshotStep
<1>2. /\ log' = log /\ params' = params
      /\ \A d \in Clients \ {c} : Cursor(d)' = Cursor(d)
  BY ClientStepKeepsOthers DEF ClientStep, Read, Snapshot, hubVars
<1>3. params[c].filter \in SUBSET LineKinds
  BY TypeFacts, LogHubAssumption DEF FeedInv, Params
<1>4. Wants' = [Wants EXCEPT ![c] = params[c].filter]
  BY <1>1, <1>2 DEF Wants
<1>5. Cursors' = [Cursors EXCEPT ![c] = Cursor(c)']
  BY <1>2 DEF Cursors
<1> QED BY <1>1, <1>2, <1>3, <1>4, <1>5 DEF Feed!Begin

LEMMA NextImplements ==
  FeedInv /\ [Next]_vars => [Feed!Next]_(Feed!vars)
<1> SUFFICES ASSUME FeedInv, [Next]_vars PROVE [Feed!Next]_(Feed!vars)
  OBVIOUS
<1>1. ASSUME NEW p \in Loggers, Record(p) PROVE Feed!Next
  <2>1. UNCHANGED reqVars
    BY <1>1 DEF Record
  <2>2. Begun' = Begun /\ Wants' = Wants /\ Cursors' = Cursors /\ sent' = sent
    BY <2>1 DEF reqVars, Begun, Wants, Cursors, Cursor
  <2>3. \E k \in LineKinds : log' = Append(log, k)
    BY <1>1 DEF Record
  <2> QED BY <2>2, <2>3 DEF Feed!Next, Feed!Write
<1>2. ASSUME NEW p \in Loggers, Broadcast(p) PROVE UNCHANGED Feed!vars
  <2>1. UNCHANGED reqVars /\ log' = log
    BY <1>2 DEF Broadcast
  <2> QED BY <2>1 DEF reqVars, Begun, Wants, Cursors, Cursor, Feed!vars
<1>3. ASSUME NEW c \in Clients, Subscribe(c) PROVE UNCHANGED Feed!vars
  <2>1. c \notin Begun /\ c \notin Begun'
    BY <1>3, SubscribeStep DEF Begun, Subscribe
  <2>2. /\ log' = log /\ sent' = sent
        /\ \A d \in Clients \ {c} : Cursor(d)' = Cursor(d)
    BY <1>3, ClientStepKeepsOthers DEF ClientStep, Subscribe, hubVars
  <2>3. /\ pc \in [Clients -> Pcs] /\ params \in [Clients -> Params]
        /\ \A d \in Clients \ {c} : pc'[d] = pc[d] /\ params'[d] = params[d]
    BY <1>3, TypeFacts DEF FeedInv, Subscribe
  <2>4. Begun' = Begun
    BY <2>1, <2>3 DEF Begun
  <2>5. Wants' = Wants
    BY <2>1, <2>3, <2>4 DEF Wants
  <2>6. Cursors' = Cursors
    BY <2>1, <2>2 DEF Cursors, Cursor, Begun
  <2> QED BY <2>2, <2>4, <2>5, <2>6 DEF Feed!vars
<1>4. ASSUME NEW c \in Clients, Snapshot(c) PROVE Feed!Next
  BY <1>4, SnapshotImplements DEF Feed!Next
<1>5. ASSUME NEW c \in Clients, Replay(c) \/ Receive(c) PROVE Feed!Next
  <2>1. pc[c] = "streaming" /\ params' = params /\ ClientStep(c)
    BY <1>5 DEF Replay, Receive, Live, ClientStep, Read
  <2>2. Begun' = Begun /\ Cursor(c)' \in 0..Len(log) /\ OneLine(c)
    BY <1>5, ReplayStep, ReceiveStep
  <2> QED BY <2>1, <2>2, OneLineImplements DEF Feed!Next
<1>6. ASSUME NEW c \in Clients, Lagged(c) PROVE Feed!Next
  BY <1>6, LaggedImplements DEF Feed!Next
<1>7. ASSUME NEW c \in Clients, EndOfBacklog(c) \/ HangUp(c) PROVE UNCHANGED Feed!vars
  <2>1. ClientStep(c)
    BY <1>7 DEF ClientStep, Read
  <2>2. /\ Begun' = Begun /\ Cursor(c)' = Cursor(c) /\ sent' = sent
        /\ params' = params
    BY <1>7, FinishStep
  <2>3. log' = log /\ Wants' = Wants /\ Cursors' = [Cursors EXCEPT ![c] = Cursor(c)']
    BY <2>1, <2>2, AnswerMoves
  <2>4. Cursors' = Cursors
    BY <2>2, <2>3 DEF Cursors
  <2> QED BY <2>2, <2>3, <2>4 DEF Feed!vars
<1>8. CASE UNCHANGED vars
  BY <1>8 DEF vars, hubVars, reqVars, Begun, Wants, Cursors, Cursor, Feed!vars
<1> QED BY <1>1, <1>2, <1>3, <1>4, <1>5, <1>6, <1>7, <1>8 DEF Next, Read

(* The answer to /api/logs implements the feed LogFeed describes.          *)
THEOREM ImplementsLogFeed == Spec => KeepsFeedPromise
<1>1. Spec => [][Feed!Next]_(Feed!vars)
  BY FeedInvHolds, NextImplements, PTL DEF Spec
<1> QED BY <1>1, InitImplements, PTL DEF Spec, KeepsFeedPromise, Feed!Spec
=============================================================================
