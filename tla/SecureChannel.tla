---------------------------- MODULE SecureChannel ----------------------------
(***************************************************************************)
(* The control channel between the two ends of one session: the hellos and *)
(* the cipher of SessionCryptography.ts over the lines of JSON that        *)
(* JsonLineTransport.ts writes to a TCP connection, as PeerSession.ts uses *)
(* them (all in src/main/connectivity).  What the sessions say with it is  *)
(* the subject of PeerSession, where a message arrives or not; here it is  *)
(* what makes a message arrive.                                            *)
(*                                                                         *)
(* A message is sealed under the next counter of its sender and written as *)
(* one line.  Sealing comes first: a send that then fails has used up its  *)
(* counter.  TCP keeps the order; lines arrive in chunks, and all lines of *)
(* a chunk are handled in one turn, also those after the one that made the *)
(* session close.                                                          *)
(*                                                                         *)
(* A message is a record of its kind, of what ProtocolValidator looks at,  *)
(* and of "text", the bytes of its JSON.                                   *)
(***************************************************************************)
EXTENDS Integers, Sequences

CONSTANTS
  Initiator, Responder,
  Asked,      \* what each session is asked to send, beyond the messages named here
  NoNumber,   \* a limit that is no number
  MaxSends,   \* bound: the counter up to which a session sends of its own
  MayFail     \* whether the link fails and sessions close for reasons of their own

Sides == {Initiator, Responder}

ASSUME SidesAssumption == Initiator # Responder
ASSUME AskedAssumption == DOMAIN Asked = Sides
ASSUME BoundAssumption == MaxSends \in Nat
ASSUME NoNumberAssumption == NoNumber \notin Int

Peer(p) == IF p = Initiator THEN Responder ELSE Initiator

VARIABLES
  stage,      \* how far each end is with the hellos; "Secured" has a cipher
  reason,     \* why each end closed, "Open" while it has not
  link,       \* whether the network between them works
  tx,         \* #transmitCounter
  rx,         \* #receiveCounter
  encrypted,  \* history: what each cipher has sealed
  lines,      \* history: the envelopes each end has written to its socket
  chunk,      \* how many lines of each end have reached the other's buffer
  read,       \* how many of them have been handled there
  delivered   \* history: the messages of each end the other's session was given

vars == <<stage, reason, link, tx, rx, encrypted, lines, chunk, read, delivered>>
-----------------------------------------------------------------------------
(* Messages                                                                *)

maximumFrameBytes == 65536
maximumSessionDescriptionLength == 32000
maximumIceCandidateLength == 4096
maximumPeerRecordsPerRequest == 5000
peerBatchRecordCount == 10

Ready == [kind |-> "Ready", text |-> 16]
Ping == [kind |-> "Ping", text |-> 90]
Goodbye == [kind |-> "Disconnect", reason |-> 25, text |-> 60]

\* Kinds a handler sends in answer to a message.
Answers == {"ReadyAcknowledged", "ConsentDecision", "Pong", "DiagnosticsBatch"}

\* requestDiagnostics bounds its limit, but NaN passes the bounds and goes out as
\* null; handleDiagnosticsRequest slices its records.
Composed(m) ==
  CASE m.kind = "DiagnosticsRequest" /\ m.limit # NoNumber ->
         [m EXCEPT !.limit = IF @ < 1 THEN 1
                             ELSE IF @ > maximumPeerRecordsPerRequest
                                  THEN maximumPeerRecordsPerRequest ELSE @]
    [] m.kind = "DiagnosticsBatch" ->
         [m EXCEPT !.records = IF @ > peerBatchRecordCount THEN peerBatchRecordCount ELSE @]
    [] OTHER -> m

Sendable(p) == {Ready, Ping, Goodbye} \cup {Composed(m) : m \in Asked[p]}

SessionDescriptions ==
  [kind : {"MediaSignal"}, signal : {"Offer", "Answer"},
   length : 1 .. maximumSessionDescriptionLength, text : Nat]

\* ProtocolValidator.secureMessage and mediaSignal: what a receiver accepts.
SecureMessages ==
  [kind : {"Ready", "ReadyAcknowledged", "Ping", "Pong", "ReversalRequest"}, text : Nat]
  \cup [kind : {"ConsentDecision", "ReversalDecision"}, accepted : BOOLEAN, text : Nat]
  \cup [kind : {"Disconnect", "ProtocolError"}, reason : 1 .. 256, text : Nat]
  \cup [kind : {"DiagnosticsRequest"}, limit : 1 .. maximumPeerRecordsPerRequest, text : Nat]
  \cup [kind : {"DiagnosticsBatch"}, records : 0 .. peerBatchRecordCount,
        complete : BOOLEAN, text : Nat]
  \cup SessionDescriptions
  \cup [kind : {"MediaSignal"}, signal : {"IceCandidate"},
        length : 1 .. maximumIceCandidateLength, text : Nat]
  \cup [kind : {"MediaSignal"}, signal : {"IceComplete"}, text : Nat]

\* The frame of an envelope: the base64 of the text between the other fields.
FrameBytes(m) == 4 * ((m.text + 2) \div 3) + 90

\* Slip: a batch must have fewer records than the sender puts into one.
AcceptsShortBatches(m) ==
  m \in SecureMessages /\ (m.kind = "DiagnosticsBatch" => m.records < peerBatchRecordCount)

Accepts(m) == m \in SecureMessages

\* What no sender checks and no receiver accepts: a description or a candidate
\* that is too long or empty, and a limit that is no number.
Unchecked(m) ==
  \/ /\ m.kind = "MediaSignal" /\ m.signal # "IceComplete"
     /\ m.length \notin 1 .. IF m.signal = "IceCandidate" THEN maximumIceCandidateLength
                                                         ELSE maximumSessionDescriptionLength
  \/ m.kind = "DiagnosticsRequest" /\ m.limit = NoNumber

\* Apart from these the sessions compose what the validator accepts and a frame
\* holds.  Of an answer the size does not matter: one that does not fit throws in
\* a handler, which closes the session of its sender.
ASSUME ComposedAssumption ==
  \A p \in Sides : \A m \in Asked[p] :
    \/ Unchecked(Composed(m))
    \/ /\ Composed(m) \in SecureMessages
       /\ FrameBytes(Composed(m)) <= maximumFrameBytes \/ Composed(m).kind \in Answers
-----------------------------------------------------------------------------
(* The cipher and the transport                                            *)

\* Slip: both directions under one key.
TransmitKeyShared(p) == "initiatorToResponder"

TransmitKey(p) == IF p = Initiator THEN "initiatorToResponder" ELSE "responderToInitiator"

ReceiveKey(p) == IF p = Initiator THEN "responderToInitiator" ELSE "initiatorToResponder"

Open(p) == reason[p] = "Open"

\* handleData has lines of the chunk left to handle.
Busy(p) == read[Peer(p)] < chunk[Peer(p)]

Envelope(p, m) == [key |-> TransmitKey(p), counter |-> tx[p] + 1, message |-> m]

\* JsonLineTransport.send writes the line rather than throw.
Writable(p, m) == Open(p) /\ FrameBytes(m) <= maximumFrameBytes

\* sendSecure: encrypt, then send.
SendSecure(p, m) ==
  /\ tx' = [tx EXCEPT ![p] = @ + 1]
  /\ encrypted' = [encrypted EXCEPT ![p] = Append(@, Envelope(p, m))]
  /\ lines' = [lines EXCEPT ![p] = IF Writable(p, m) THEN Append(@, Envelope(p, m)) ELSE @]

SendNothing == UNCHANGED <<tx, encrypted, lines>>

\* closeWithError changes only a session that is not closed.
Close(p, why) == reason' = [reason EXCEPT ![p] = IF @ = "Open" THEN why ELSE @]

Init ==
  /\ stage = [p \in Sides |-> IF p = Initiator THEN "New" ELSE "AwaitingClientHello"]
  /\ reason = [p \in Sides |-> "Open"]
  /\ link = "Up"
  /\ tx = [p \in Sides |-> 0]
  /\ rx = [p \in Sides |-> 0]
  /\ encrypted = [p \in Sides |-> <<>>]
  /\ lines = [p \in Sides |-> <<>>]
  /\ chunk = [p \in Sides |-> 0]
  /\ read = [p \in Sides |-> 0]
  /\ delivered = [p \in Sides |-> <<>>]
-----------------------------------------------------------------------------
(* The hellos, in the clear                                                *)

\* start: the caller writes its hello.
SendClientHello ==
  /\ stage[Initiator] = "New" /\ Open(Initiator)
  /\ stage' = [stage EXCEPT ![Initiator] = "AwaitingServerHello"]
  /\ UNCHANGED <<reason, link, tx, rx, encrypted, lines, chunk, read, delivered>>

\* handleClientHello: writes the server hello and makes the cipher.
HandleClientHello ==
  /\ stage[Initiator] = "AwaitingServerHello" /\ stage[Responder] = "AwaitingClientHello"
  /\ Open(Responder) /\ link = "Up"
  /\ stage' = [stage EXCEPT ![Responder] = "Secured"]
  /\ UNCHANGED <<reason, link, tx, rx, encrypted, lines, chunk, read, delivered>>

\* handleServerHello: makes the cipher and says Ready at once.
HandleServerHello ==
  /\ stage[Initiator] = "AwaitingServerHello" /\ stage[Responder] = "Secured"
  /\ Open(Initiator) /\ link = "Up"
  /\ stage' = [stage EXCEPT ![Initiator] = "Secured"]
  /\ SendSecure(Initiator, Ready)
  /\ UNCHANGED <<reason, link, rx, chunk, read, delivered>>
-----------------------------------------------------------------------------
(* Sending                                                                 *)

\* The session sends of its own once it has heard from its peer in secret.  When
\* the transport throws, a handler's answer closes the session and a user's
\* request only fails.
Send(p, m) ==
  /\ Open(p) /\ ~Busy(p) /\ rx[p] >= 1 /\ tx[p] < MaxSends
  /\ SendSecure(p, m)
  /\ IF ~Writable(p, m) /\ m.kind \in Answers
     THEN Close(p, "Session") ELSE UNCHANGED reason
  /\ UNCHANGED <<stage, link, rx, chunk, read, delivered>>

\* keepAliveTick; one ping may follow the last message.
KeepAliveTick(p) ==
  /\ Open(p) /\ ~Busy(p) /\ rx[p] >= 1 /\ tx[p] <= MaxSends
  /\ SendSecure(p, Ping)
  /\ UNCHANGED <<stage, reason, link, rx, chunk, read, delivered>>

\* disconnect: says so when there is a cipher to say it with.
Disconnect(p) ==
  /\ Open(p) /\ ~Busy(p)
  /\ IF stage[p] = "Secured" THEN SendSecure(p, Goodbye) ELSE SendNothing
  /\ Close(p, "User")
  /\ UNCHANGED <<stage, link, rx, chunk, read, delivered>>
-----------------------------------------------------------------------------
(* Receiving                                                               *)

\* The socket hands over some complete lines.
DataArrives(q) ==
  LET p == Peer(q) IN
  /\ Open(q) /\ link = "Up" /\ stage[q] = "Secured" /\ ~Busy(q)
  /\ \E n \in chunk[p] + 1 .. Len(lines[p]) : chunk' = [chunk EXCEPT ![p] = n]
  /\ UNCHANGED <<stage, reason, link, tx, rx, encrypted, lines, read, delivered>>

NextLine(q) == lines[Peer(q)][read[Peer(q)] + 1]

\* Slip: any later counter will do.
DecryptsLater(q, line) ==
  line.counter > rx[q] /\ line.key = ReceiveKey(q) /\ Accepts(line.message)

\* decrypt: the very next counter, the right key, a message the validator accepts.
Decrypts(q, line) ==
  line.counter = rx[q] + 1 /\ line.key = ReceiveKey(q) /\ Accepts(line.message)

\* Slip: the counter moves before the message is validated.
RefuseAfterCounting(q) ==
  /\ ~Decrypts(q, NextLine(q))
  /\ rx' = [rx EXCEPT ![q] = IF NextLine(q).counter = @ + 1 THEN @ + 1 ELSE @]
  /\ Close(q, "Refused")
  /\ UNCHANGED delivered
  /\ SendNothing

\* handleWireMessage catches what decrypt throws and closes the session.
Refuse(q) ==
  /\ ~Decrypts(q, NextLine(q))
  /\ Close(q, "Refused")
  /\ UNCHANGED <<rx, delivered>>
  /\ SendNothing

\* decrypt remembers the counter it has accepted.
Count(q) == rx' = [rx EXCEPT ![q] = NextLine(q).counter]

\* decrypt returns and handleSecureMessage is called, on a closed session too.
\* The handler may send one answer; when that throws the session closes.
Accept(q) ==
  LET m == NextLine(q).message IN
  /\ Decrypts(q, NextLine(q))
  /\ Count(q)
  /\ delivered' = [delivered EXCEPT ![Peer(q)] = Append(@, m)]
  /\ \/ /\ m.kind \in {"Disconnect", "ProtocolError"}
        /\ Close(q, "Peer") /\ SendNothing
     \/ /\ m.kind \notin {"Disconnect", "ProtocolError"}
        /\ UNCHANGED reason /\ SendNothing
     \/ /\ m.kind \notin {"Disconnect", "ProtocolError"} /\ tx[q] < MaxSends
        /\ \E a \in Sendable(q) :
             /\ a.kind \in Answers
             /\ SendSecure(q, a)
             /\ IF Writable(q, a) THEN UNCHANGED reason ELSE Close(q, "Session")

\* parseLine and handleWireMessage, for the next line of the chunk.
ReadLine(q) ==
  /\ Busy(q)
  /\ read' = [read EXCEPT ![Peer(q)] = @ + 1]
  /\ Accept(q) \/ Refuse(q)
  /\ UNCHANGED <<stage, link, chunk>>
-----------------------------------------------------------------------------
(* Endings                                                                 *)

\* The other end destroyed its socket: what has not arrived may be lost.
SocketClosed(p) ==
  /\ Open(p) /\ ~Busy(p) /\ ~Open(Peer(p)) /\ link = "Up"
  /\ Close(p, "Socket")
  /\ UNCHANGED <<stage, link, tx, rx, encrypted, lines, chunk, read, delivered>>

\* The link goes dead without a word.
LinkFails ==
  /\ MayFail /\ link = "Up"
  /\ link' = "Down"
  /\ UNCHANGED <<stage, reason, tx, rx, encrypted, lines, chunk, read, delivered>>

\* The handshake timer, and the health check on a link that has gone dead.
TimesOut(p) ==
  /\ Open(p) /\ ~Busy(p) /\ (rx[p] = 0 \/ link = "Down")
  /\ Close(p, "Silence")
  /\ UNCHANGED <<stage, link, tx, rx, encrypted, lines, chunk, read, delivered>>

\* The session closes by itself: a hello it does not believe, a message that
\* has no place in its phase, a consent declined.
SessionCloses(p) ==
  /\ MayFail /\ Open(p)
  /\ Close(p, "Session")
  /\ UNCHANGED <<stage, link, tx, rx, encrypted, lines, chunk, read, delivered>>

Next ==
  \/ SendClientHello \/ HandleClientHello \/ HandleServerHello
  \/ LinkFails
  \/ \E p \in Sides :
       \/ \E m \in Sendable(p) : Send(p, m)
       \/ KeepAliveTick(p) \/ Disconnect(p)
       \/ DataArrives(p) \/ ReadLine(p)
       \/ SocketClosed(p) \/ TimesOut(p) \/ SessionCloses(p)

Spec == Init /\ [][Next]_vars

\* The event loop handles what has arrived, the keep-alive timer goes on, the
\* operating system reports a socket that was closed.
Fairness ==
  \A p \in Sides :
    /\ WF_vars(KeepAliveTick(p)) /\ WF_vars(DataArrives(p)) /\ WF_vars(ReadLine(p))
    /\ WF_vars(SocketClosed(p)) /\ WF_vars(TimesOut(p))

FairSpec == Spec /\ Fairness
-----------------------------------------------------------------------------
(* Properties                                                              *)

Messages == UNION {Sendable(p) : p \in Sides}
Envelopes ==
  [key : {"initiatorToResponder", "responderToInitiator"}, counter : Nat, message : Messages]

\* The types; neither end has accepted a counter its peer has not reached, nor
\* handled a line that has not arrived.
TypeOK ==
  /\ stage \in [Sides -> {"New", "AwaitingServerHello", "AwaitingClientHello", "Secured"}]
  /\ reason \in [Sides -> {"Open", "User", "Peer", "Refused", "Session", "Socket", "Silence"}]
  /\ link \in {"Up", "Down"}
  /\ tx \in [Sides -> Nat] /\ rx \in [Sides -> Nat]
  /\ encrypted \in [Sides -> Seq(Envelopes)] /\ lines \in [Sides -> Seq(Envelopes)]
  /\ delivered \in [Sides -> Seq(Messages)]
  /\ chunk \in [Sides -> Nat] /\ read \in [Sides -> Nat]
  /\ \A p \in Sides : rx[Peer(p)] <= tx[p] /\ read[p] <= chunk[p] /\ chunk[p] <= Len(lines[p])

\* No two messages are ever sealed under one key and one counter, sends that
\* failed and sends of a closed session included: the nonce of AES-GCM is the
\* counter alone (SecureMessageCipher.nonce).
NonceUsedOnce ==
  \A p, q \in Sides : \A i \in 1 .. Len(encrypted[p]), j \in 1 .. Len(encrypted[q]) :
    /\ encrypted[p][i].key = encrypted[q][j].key
    /\ encrypted[p][i].counter = encrypted[q][j].counter
    => p = q /\ i = j

\* Two ends of this program refuse each other's envelopes only after a message
\* that its sender did not check: a session description or a candidate of a
\* length the protocol does not allow, which the validator of the other end
\* refuses or which is too large for a frame, so that the counter it used up is
\* missed, or a diagnostics limit that is no number (PeerSession.ts
\* sendMediaSignal, requestDiagnostics, sendSecure; SessionCryptography.ts
\* secureMessage, mediaSignal).
OnlyUncheckedRefused ==
  \A q \in Sides : reason[q] = "Refused" =>
    \E i \in 1 .. Len(encrypted[Peer(q)]) : Unchecked(encrypted[Peer(q)][i].message)

\* The messages a cipher has sealed, oldest first.
composed == [p \in Sides |-> [i \in DOMAIN encrypted[p] |-> encrypted[p][i].message]]

\* The lines, counters and refusals implement a channel that delivers what was
\* composed without a gap, a change of order or a repetition, also when a send
\* fails and when the rest of a chunk is read after the session closed.
Reliable ==
  INSTANCE ReliableChannel
    WITH sent <- composed, received <- delivered
ReliableSpec == Reliable!Spec

\* A send that fails after it used up a counter ends the session of both ends,
\* at the latest with the next ping (keepAliveTick, decrypt).
SkipEndsSession ==
  \A p \in Sides : tx[p] > Len(lines[p]) ~> (\A q \in Sides : ~Open(q))
=============================================================================
