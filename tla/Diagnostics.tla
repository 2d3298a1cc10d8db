----------------------------- MODULE Diagnostics -----------------------------
(***************************************************************************)
(* Diagnostic records of two computers: the hub that retains them by age   *)
(* and by number (DiagnosticsHub.ts), the loopback server whose readers    *)
(* follow them (DiagnosticsHttpServer.ts), and the request by which one    *)
(* computer fetches the records of the other over the control connection   *)
(* (PeerSession.ts) and publishes them into its own hub                    *)
(* (ConnectionManager.ts).                                                 *)
(*                                                                         *)
(* Both ends of a session are taken to connect at once; how they come to,  *)
(* and what happens when they do not, is the matter of PeerSession.  A     *)
(* record is its origin and its number.                                    *)
(***************************************************************************)
EXTENDS Naturals, Sequences

CONSTANTS
  Hubs,            \* of the two computers, by which these are named
  Readers,         \* what may read the stream of a computer
  RecordLimit,     \* retainedRecordLimit
  Retention,       \* retainedDurationMs, in ticks
  MaxPeerRecords,  \* maximumPeerRecordsPerRequest
  BatchSize,       \* peerBatchRecordCount
  NoNumber,        \* what parseInt makes of a limit that is none
  Queries,         \* limits that readers ask for
  MaxSamples,      \* bound: samples of both computers, besides the first ones
  MaxSessions,     \* bound: sessions
  MaxRequests      \* bound: requests of both computers together

ASSUME HubsAssumption == \E a, b \in Hubs : a # b /\ Hubs = {a, b}

ASSUME LimitsAssumption ==
  /\ {RecordLimit, MaxPeerRecords, BatchSize} \subseteq Nat \ {0}
  /\ Retention \in Nat
  /\ NoNumber \notin Nat
  /\ Queries \subseteq Nat \cup {NoNumber}

ASSUME BoundsAssumption == {MaxSamples, MaxSessions, MaxRequests} \subseteq Nat

VARIABLES
  log,       \* #records of each hub, with their age since receivedAt
  reader,    \* the clients of each loopback server
  open,      \* whether its end of the session is connected
  failed,    \* whether that end was closed by a protocol error
  chan,      \* messages on their way to a computer
  pending,   \* #pendingDiagnosticRequests
  arrived,   \* answers resolved, whose continuation has not run yet
  made,      \* own records made
  samples,   \* how many of them were counted as samples
  sessions,  \* sessions so far
  asked,     \* requests so far
  all,       \* history: every record a hub ever received
  chosen     \* history: what each request ought to bring

recordVars == <<log, reader, all, made>>
sessionVars == <<open, failed, chan, pending, sessions>>
diagnosticsVars == <<recordVars, sessionVars, arrived, samples, asked, chosen>>

Peer(n) == CHOOSE p \in Hubs : p # n

Latest(q, k) == SubSeq(q, IF Len(q) > k THEN Len(q) - k + 1 ELSE 1, Len(q))

\* The elements of q at the indices in I, in their order.
Picked(q, I) ==
  LET f[i \in 0 .. Len(q)] ==
        IF i = 0 THEN <<>>
        ELSE IF i \in I THEN Append(f[i - 1], q[i]) ELSE f[i - 1]
  IN  f[Len(q)]

RecordsOf(entries) == [i \in 1 .. Len(entries) |-> entries[i].record]

(***************************************************************************)
(* The hub.                                                                *)
(***************************************************************************)
\* Slip: a record leaves at the age it may still have.
OldTooSoon(e) == e.age >= Retention

Old(e) == e.age > Retention

DropExcess(q) == Latest(q, RecordLimit)

\* Records leave from the head: first while it is too old, then while there
\* are too many.
Prune(q) ==
  LET kept == {i \in 1 .. Len(q) : ~Old(q[i])}
      first == IF kept = {} THEN Len(q) + 1
               ELSE CHOOSE i \in kept : \A j \in kept : i <= j
  IN  DropExcess(SubSeq(q, first, Len(q)))

Local(q) == Picked(q, {i \in 1 .. Len(q) : q[i].source = "Local"})

Entries(records, source) ==
  [i \in 1 .. Len(records) |->
     [record |-> records[i], source |-> source, age |-> 0]]

\* Slip: only records of the computer itself are streamed.
BroadcastLocal(entries) == RecordsOf(Local(entries))

Broadcast(entries) == RecordsOf(entries)

\* publish, for each of the new entries of each computer.
Publish(new) ==
  /\ log' = [n \in Hubs |->
       IF new[n] = <<>> THEN log[n] ELSE Prune(log[n] \o new[n])]
  /\ reader' = [n \in Hubs |-> [r \in Readers |->
       IF reader[n][r].open
       THEN [reader[n][r] EXCEPT !.got = @ \o Broadcast(new[n])]
       ELSE reader[n][r]]]
  /\ all' = [n \in Hubs |-> all[n] \o new[n]]

At(n, entries) == [k \in Hubs |-> IF k = n THEN entries ELSE <<>>]
OwnRecord(n) == Entries(<<[origin |-> n, id |-> made[n] + 1]>>, "Local")

\* snapshot.
Snapshot(n) == log' = [log EXCEPT ![n] = Prune(@)]

\* What a hub ought to retain of all it received: the latest, up to the limit,
\* of those that are not too old.
Window(q) ==
  Latest(Picked(q, {i \in 1 .. Len(q) : q[i].age <= Retention}), RecordLimit)

(***************************************************************************)
(* Samples and the loopback server.                                        *)
(***************************************************************************)
\* Samples of the session while it is connected, of the media at any time.
Sample(n) ==
  /\ samples < MaxSamples
  /\ Publish(At(n, OwnRecord(n)))
  /\ made' = [made EXCEPT ![n] = @ + 1]
  /\ samples' = samples + 1
  /\ UNCHANGED <<sessionVars, arrived, asked, chosen>>

\* A read of /snapshot or /health.
ReadSnapshot(n) ==
  /\ Snapshot(n)
  /\ UNCHANGED <<reader, all, made, sessionVars, arrived, samples, asked, chosen>>

NoStream == [open |-> FALSE, got |-> <<>>, skipped |-> 0]

OpenStream(n, r) ==
  /\ ~reader[n][r].open
  /\ Snapshot(n)
  /\ reader' = [reader EXCEPT ![n][r] =
       [open |-> TRUE, got |-> RecordsOf(log'[n]),
        skipped |-> Len(all[n]) - Len(Window(all[n]))]]
  /\ UNCHANGED <<all, made, sessionVars, arrived, samples, asked, chosen>>

\* The client goes, or stop ends it.
CloseStream(n, r) ==
  /\ reader[n][r].open
  /\ reader' = [reader EXCEPT ![n][r] = NoStream]
  /\ UNCHANGED <<log, all, made, sessionVars, arrived, samples, asked, chosen>>

(***************************************************************************)
(* The session.                                                            *)
(***************************************************************************)
NoRequest == [limit |-> 0, records |-> <<>>]
NoRequests == [i \in 1 .. MaxRequests |-> NoRequest]

\* Both ends are connected and take their first sample.
BothConnect ==
  /\ \A n \in Hubs : ~open[n]
  /\ sessions < MaxSessions
  /\ open' = [n \in Hubs |-> TRUE]
  /\ failed' = [n \in Hubs |-> FALSE]
  /\ chan' = [n \in Hubs |-> <<>>]
  /\ sessions' = sessions + 1
  /\ Publish([n \in Hubs |-> OwnRecord(n)])
  /\ made' = [n \in Hubs |-> made[n] + 1]
  /\ UNCHANGED <<pending, arrived, samples, asked, chosen>>

\* closeWithError, which records the closure and rejects what is pending.
Shut(n, error) ==
  /\ open' = [open EXCEPT ![n] = FALSE]
  /\ failed' = [failed EXCEPT ![n] = error]
  /\ chan' = [chan EXCEPT ![n] = <<>>]
  /\ pending' = [pending EXCEPT ![n] = NoRequests]
  /\ Publish(At(n, OwnRecord(n)))
  /\ made' = [made EXCEPT ![n] = @ + 1]
  /\ UNCHANGED <<sessions, arrived, samples, asked>>

\* By a user, by a loss of the connection or because the peer has closed its end.
Close(n) ==
  /\ open[n]
  /\ Shut(n, FALSE)
  /\ UNCHANGED chosen

\* What is sent to an end that is closed is lost.
Send(from, queue, messages) ==
  [queue EXCEPT ![Peer(from)] = IF open[Peer(from)] THEN @ \o messages ELSE @]

\* The limit is put between 1 and the maximum, which leaves no number as it is.
Bounded(query) ==
  IF query = NoNumber THEN NoNumber
  ELSE IF query < 1 THEN 1
  ELSE IF query > MaxPeerRecords THEN MaxPeerRecords ELSE query

\* A read of /peer/snapshot, up to requestDiagnostics of the session.
Request(n, query) ==
  /\ open[n]
  /\ asked < MaxRequests
  /\ asked' = asked + 1
  /\ pending' = [pending EXCEPT ![n][asked'] =
       [limit |-> Bounded(query), records |-> <<>>]]
  /\ chan' = Send(n, chan,
       <<[kind |-> "Request", id |-> asked', limit |-> Bounded(query)]>>)
  /\ UNCHANGED <<recordVars, open, failed, sessions, arrived, samples, chosen>>

Timeout(n, i) ==
  /\ pending[n][i] # NoRequest
  /\ pending' = [pending EXCEPT ![n][i] = NoRequest]
  /\ UNCHANGED <<recordVars, open, failed, chan, sessions, arrived, samples, asked, chosen>>

(***************************************************************************)
(* handleSecureMessage.                                                    *)
(***************************************************************************)
\* Slip: what was fetched from the peer is sent back to it.
LocalAndRemote(n, limit) == RecordsOf(Latest(Prune(log[n]), limit))

\* localDiagnosticRecords of the manager.
LocalRecords(n, limit) ==
  RecordsOf(Latest(Local(Prune(log[n])), limit))

\* Slip: the limit is left to the one that asks.
Unlimited(n, limit) == LocalRecords(n, RecordLimit)

Answer(n, limit) == LocalRecords(n, limit)

BatchCount(records) ==
  IF records = <<>> THEN 1 ELSE (Len(records) + BatchSize - 1) \div BatchSize

Batch(id, records, b) ==
  LET until == IF b = BatchCount(records) THEN Len(records) ELSE b * BatchSize
  IN  [kind |-> "Batch", id |-> id, complete |-> b = BatchCount(records),
       records |-> SubSeq(records, (b - 1) * BatchSize + 1, until)]

Batches(id, records) ==
  [b \in 1 .. BatchCount(records) |-> Batch(id, records, b)]

\* What the peer ought to answer: the latest records of its own it retains.
OwnLatest(n, limit) ==
  LET w == Window(all[n])
      own == {i \in 1 .. Len(w) : w[i].record.origin = n}
  IN  RecordsOf(Latest(Picked(w, own), limit))

Received(n) == [chan EXCEPT ![n] = Tail(@)]

\* The validation of the message refuses a limit that is no number.
HandleRequest(n) ==
  LET m == Head(chan[n])
  IN  /\ m.kind = "Request"
      /\ IF m.limit = NoNumber
         THEN Shut(n, TRUE) /\ UNCHANGED chosen
         ELSE /\ Snapshot(n)
              /\ chan' = Send(n, Received(n), Batches(m.id, Answer(n, m.limit)))
              /\ chosen' = [chosen EXCEPT ![m.id] = OwnLatest(n, m.limit)]
              /\ UNCHANGED <<reader, all, made, open, failed, pending, sessions,
                             arrived, samples, asked>>

HandleBatch(n) ==
  LET m == Head(chan[n])
      request == pending[n][m.id]
      records == request.records \o m.records
      Goes(entry) ==
        /\ chan' = Received(n)
        /\ pending' = [pending EXCEPT ![n][m.id] = entry]
        /\ UNCHANGED <<recordVars, open, failed, sessions, samples, asked, chosen>>
  IN  /\ m.kind = "Batch"
      /\ \/ /\ request = NoRequest
            /\ Goes(NoRequest)
            /\ UNCHANGED arrived
         \/ /\ request # NoRequest
            /\ Len(records) > request.limit
            /\ Shut(n, TRUE)
            /\ UNCHANGED chosen
         \/ /\ request # NoRequest
            /\ Len(records) <= request.limit
            /\ IF m.complete
               THEN /\ arrived' = [arrived EXCEPT ![n] =
                         Append(@, [id |-> m.id, records |-> records])]
                    /\ Goes(NoRequest)
               ELSE /\ Goes([request EXCEPT !.records = records])
                    /\ UNCHANGED arrived

Handle(n) ==
  /\ open[n] /\ chan[n] # <<>>
  /\ HandleRequest(n) \/ HandleBatch(n)

\* The continuation in requestRemoteDiagnostics, which looks at nothing.
Collect(n) ==
  /\ arrived[n] # <<>>
  /\ arrived' = [arrived EXCEPT ![n] = Tail(@)]
  /\ Publish(At(n, Entries(Head(arrived[n]).records, "Remote")))
  /\ UNCHANGED <<made, sessionVars, samples, asked, chosen>>

\* One tick more, as long as ages can be told apart.
Tick ==
  LET Older(q) == [i \in 1 .. Len(q) |->
        IF Old(q[i]) THEN q[i] ELSE [q[i] EXCEPT !.age = @ + 1]]
  IN  /\ log' = [n \in Hubs |-> Older(log[n])]
      /\ all' = [n \in Hubs |-> Older(all[n])]
      /\ UNCHANGED <<reader, made, sessionVars, arrived, samples, asked, chosen>>

DiagnosticsInit ==
  /\ log = [n \in Hubs |-> <<>>]
  /\ reader = [n \in Hubs |-> [r \in Readers |-> NoStream]]
  /\ open = [n \in Hubs |-> FALSE]
  /\ failed = [n \in Hubs |-> FALSE]
  /\ chan = [n \in Hubs |-> <<>>]
  /\ pending = [n \in Hubs |-> NoRequests]
  /\ arrived = [n \in Hubs |-> <<>>]
  /\ made = [n \in Hubs |-> 0]
  /\ samples = 0
  /\ sessions = 0
  /\ asked = 0
  /\ all = [n \in Hubs |-> <<>>]
  /\ chosen = [i \in 1 .. MaxRequests |-> <<>>]

DiagnosticsNext ==
  \/ \E n \in Hubs :
       \/ Sample(n) \/ ReadSnapshot(n) \/ Close(n) \/ Handle(n) \/ Collect(n)
       \/ \E r \in Readers : OpenStream(n, r) \/ CloseStream(n, r)
       \/ \E query \in Queries : Request(n, query)
       \/ \E i \in 1 .. MaxRequests : Timeout(n, i)
  \/ BothConnect \/ Tick

DiagnosticsSpec == DiagnosticsInit /\ [][DiagnosticsNext]_diagnosticsVars

-----------------------------------------------------------------------------
(* Properties                                                              *)

Ids == 1 .. MaxSamples + 2 * MaxSessions
Records == [origin : Hubs, id : Ids]
Entry == [record : Records, source : {"Local", "Remote"}, age : 0 .. Retention + 1]
EntrySeqs == Seq(Entry)
ReaderStates ==
  [open : BOOLEAN, got : Seq(Records), skipped : Nat]
Requests ==
  [limit : 0 .. MaxPeerRecords \cup {NoNumber}, records : Seq(Records)]
Messages ==
  [kind : {"Request"}, id : 1 .. MaxRequests, limit : 1 .. MaxPeerRecords \cup {NoNumber}]
    \cup
  [kind : {"Batch"}, id : 1 .. MaxRequests, complete : BOOLEAN, records : Seq(Records)]

\* Every variable has its type; a hub never holds more than its limit
\* (README.md:15: a "burst guard").
DiagnosticsTypeOK ==
  /\ log \in [Hubs -> EntrySeqs]
  /\ \A n \in Hubs : Len(log[n]) <= RecordLimit
  /\ reader \in [Hubs -> [Readers -> ReaderStates]]
  /\ {open, failed} \subseteq [Hubs -> BOOLEAN]
  /\ chan \in [Hubs -> Seq(Messages)]
  /\ pending \in [Hubs -> [1 .. MaxRequests -> Requests]]
  /\ arrived \in [Hubs -> Seq([id : 1 .. MaxRequests, records : Seq(Records)])]
  /\ made \in [Hubs -> 0 .. MaxSamples + 2 * MaxSessions]
  /\ samples \in 0 .. MaxSamples
  /\ sessions \in 0 .. MaxSessions
  /\ asked \in 0 .. MaxRequests
  /\ all \in [Hubs -> EntrySeqs]
  /\ chosen \in [1 .. MaxRequests -> Seq(Records)]

\* "A rolling ten-minute in-memory history" (README.md:15): whenever a snapshot
\* is taken it holds exactly the latest records that are not too old, although
\* records are only dropped when others come or somebody looks.
WindowKept == \A n \in Hubs : Prune(log[n]) = Window(all[n])

\* A reader of /stream misses nothing and is told nothing twice: it has got
\* what was retained when it came and everything since, the records fetched
\* from the peer included (README.md:67).
StreamWhole ==
  \A n \in Hubs : \A r \in Readers :
    LET s == reader[n][r]
    IN  s.open =>
          s.got = RecordsOf(SubSeq(all[n], s.skipped + 1, Len(all[n])))

\* An answer is what its request asked for: the latest records the peer itself
\* made and still retained when it heard the request, every one of them and no
\* more, however requests of both sides, timeouts, late batches and new
\* sessions mix; so no computer ever gets its own records back.
AnswersWhole ==
  \A n \in Hubs : \A i \in 1 .. Len(arrived[n]) :
    arrived[n][i].records = chosen[arrived[n][i].id]

\* Requests do no harm to the session: the only one that ends it is one whose
\* limit was no number.
SessionOutlivesRequests ==
  [][\A n \in Hubs :
       failed'[n] /\ ~failed[n] =>
         Head(chan[n]).kind = "Request" /\ Head(chan[n]).limit = NoNumber]_diagnosticsVars
=============================================================================
