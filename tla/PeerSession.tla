---------------------------- MODULE PeerSession ----------------------------
(***************************************************************************)
(* One control connection between two IStream computers: the PeerSession   *)
(* object at each end (src/main/connectivity/PeerSession.ts), the two      *)
(* directions of the TCP connection between them, and the part of the      *)
(* responder's trust store the session reads and writes.                   *)
(*                                                                         *)
(* The initiator opened the connection.  Signed hellos are exchanged, an   *)
(* encrypted channel is confirmed, each side states its consent, and from  *)
(* then on the connection carries media negotiation, diagnostics and       *)
(* requests to reverse the streaming direction.  Every step below is one   *)
(* synchronous run of the event loop at one end: a message handler, a      *)
(* timer callback, a call from the user interface or the continuation      *)
(* after an await.                                                         *)
(***************************************************************************)
EXTENDS Integers, Sequences, FiniteSets

CONSTANTS
  PairingTicks,     \* health-check ticks without a message before a session
                    \* that is not connected gives up
  ConnectionTicks,  \* the same for a connected session
  Intents,          \* the directions users ask for
  LinkMayFail,      \* bound: whether the network may go silent
  MaxReversals,     \* bound: reversal requests each side makes
  MaxSignals,       \* bound: media signals each side sends
  MaxQueries        \* bound: diagnostics requests each side makes

\* 5 s and 15 s with a tick every 2 s: the third and the eighth tick.
ASSUME TicksAssumption ==
  /\ PairingTicks \in Nat \ {0}
  /\ ConnectionTicks \in Nat \ {0}
  /\ PairingTicks <= ConnectionTicks

ASSUME BoundsAssumption ==
  /\ Intents \subseteq {"ViewRemote", "ShareLocal"}
  /\ LinkMayFail \in BOOLEAN
  /\ MaxReversals \in Nat
  /\ MaxSignals \in Nat
  /\ MaxQueries \in Nat

Initiator == "initiator"
Responder == "responder"
Sides == {Initiator, Responder}

Peer(s) == IF s = Initiator THEN Responder ELSE Initiator

VARIABLES
  intent,          \* direction chosen by the initiator's user
  expected,        \* whether the responder is the device the initiator expects
  phase,           \* #phase of each side
  prompt,          \* #prompt of each side, reduced to what it asks
  localConsent,    \* #localConsent
  remoteConsent,   \* #remoteConsent
  role,            \* #role
  error,           \* #error, reduced to its cause
  open,            \* FALSE once this end closed its transport
  handshakeTimer,  \* #handshakeTimer is set
  keepAlive,       \* #keepAliveTimer is set
  missed,          \* health-check ticks since #lastSecureMessageAt
  lastRecord,      \* kind of the last diagnostic record this session published
  outgoing,        \* #pendingOutgoingReversalId, 0 for null
  incoming,        \* #pendingIncomingReversalId, 0 for null
  queries,         \* keys of #pendingDiagnosticRequests
  requested,       \* reversal requests, media signals and queries made so far
  paired,          \* the responder's #peer.paired
  trusted,         \* the responder's store trusts this initiator and intent
  remember,        \* the responder's pending rememberInbound call
  chan,            \* chan[s]: what is in flight towards s, oldest first
  link             \* FALSE once packets no longer pass between the two

sessionVars == <<phase, prompt, localConsent, remoteConsent, role, error>>
timerVars == <<handshakeTimer, keepAlive, missed>>
requestVars == <<outgoing, incoming, queries, requested>>
trustVars == <<paired, trusted, remember>>
vars == <<intent, expected, phase, prompt, localConsent, remoteConsent, role,
          error, open, handshakeTimer, keepAlive, missed, lastRecord, outgoing,
          incoming, queries, requested, paired, trusted, remember, chan, link>>

-----------------------------------------------------------------------------
(* Values                                                                  *)

HandshakePhases == {"AwaitingClientHello", "AwaitingServerHello",
                    "AwaitingSecureReady", "AwaitingSecureAcknowledgement"}
Phases == HandshakePhases \cup {"AwaitingConsent", "Connected", "Closed"}

\* The phases in which handleWireMessage reads an encrypted envelope.
SecurePhases == Phases \ {"AwaitingClientHello", "AwaitingServerHello"}

PairingPrompts == {"WaitingForPeer", "EnterVerificationCode"}
Prompts == PairingPrompts \cup {"None", "Reversal"}
Decisions == {"Unset", "Accepted", "Declined"}
Roles == {"None", "Viewer", "Sharer"}
Errors == {"None", "IdentityChanged", "HandshakeTimeout",
           "HealthCheckTimeout", "ConnectionLost", "Unexpected"}

PlainKinds == {"ClientHello", "ServerHello", "Ready", "ReadyAcknowledged",
               "Ping", "Pong", "Disconnect", "MediaSignal", "TransportClosed"}

Plain(k) == [kind |-> k]
Consent(yes) == [kind |-> "ConsentDecision", accepted |-> yes]
ReversalRequest(i) == [kind |-> "ReversalRequest", id |-> i]
ReversalDecision(i, yes) == [kind |-> "ReversalDecision", id |-> i, accepted |-> yes]
DiagnosticsRequest(i) == [kind |-> "DiagnosticsRequest", id |-> i]
DiagnosticsBatch(i) == [kind |-> "DiagnosticsBatch", id |-> i]

Message ==
  [kind : PlainKinds]
    \cup [kind : {"ConsentDecision"}, accepted : BOOLEAN]
    \cup [kind : {"ReversalRequest", "DiagnosticsRequest", "DiagnosticsBatch"}, id : Nat]
    \cup [kind : {"ReversalDecision"}, id : Nat, accepted : BOOLEAN]

TypeOK ==
  /\ intent \in Intents
  /\ expected \in BOOLEAN
  /\ phase \in [Sides -> Phases]
  /\ prompt \in [Sides -> Prompts]
  /\ localConsent \in [Sides -> Decisions]
  /\ remoteConsent \in [Sides -> Decisions]
  /\ role \in [Sides -> Roles]
  /\ error \in [Sides -> Errors]
  /\ open \in [Sides -> BOOLEAN]
  /\ handshakeTimer \in [Sides -> BOOLEAN]
  /\ keepAlive \in [Sides -> BOOLEAN]
  /\ missed \in [Sides -> Nat]
  /\ lastRecord \in [Sides -> {"None", "Sample", "Closure"}]
  /\ outgoing \in [Sides -> Nat]
  /\ incoming \in [Sides -> Nat]
  /\ queries \in [Sides -> SUBSET Nat]
  /\ requested \in [Sides -> [reversals : Nat, signals : Nat, queries : Nat]]
  /\ paired \in BOOLEAN
  /\ trusted \in BOOLEAN
  /\ remember \in {"Idle", "Writing", "Done", "Failed"}
  /\ chan \in [Sides -> Seq(Message)]
  /\ link \in BOOLEAN

\* Both objects constructed and started: the first ClientHello is on its way.
Init ==
  /\ intent \in Intents
  /\ expected \in BOOLEAN
  /\ phase = [s \in Sides |-> IF s = Initiator THEN "AwaitingServerHello"
                              ELSE "AwaitingClientHello"]
  /\ prompt = [s \in Sides |-> "None"]
  /\ localConsent = [s \in Sides |-> "Unset"]
  /\ remoteConsent = [s \in Sides |-> "Unset"]
  /\ role = [s \in Sides |-> "None"]
  /\ error = [s \in Sides |-> "None"]
  /\ open = [s \in Sides |-> TRUE]
  /\ handshakeTimer = [s \in Sides |-> TRUE]
  /\ keepAlive = [s \in Sides |-> FALSE]
  /\ missed = [s \in Sides |-> 0]
  /\ lastRecord = [s \in Sides |-> "None"]
  /\ outgoing = [s \in Sides |-> 0]
  /\ incoming = [s \in Sides |-> 0]
  /\ queries = [s \in Sides |-> {}]
  /\ requested = [s \in Sides |-> [reversals |-> 0, signals |-> 0, queries |-> 0]]
  /\ paired = FALSE
  /\ trusted \in BOOLEAN
  /\ remember = "Idle"
  /\ chan = [s \in Sides |-> IF s = Initiator THEN <<>> ELSE <<Plain("ClientHello")>>]
  /\ link = TRUE

-----------------------------------------------------------------------------
(* The transport                                                           *)

\* What is in flight towards p after its peer writes ms; a closed end reads
\* nothing any more.
InFlight(p, ms) == IF open[p] THEN chan[p] \o ms ELSE <<>>

\* s writes ms; on a transport it has closed the write throws.
Write(s, ms) ==
  chan' = IF open[s] THEN [chan EXCEPT ![Peer(s)] = InFlight(Peer(s), ms)] ELSE chan

\* s takes the next message and writes ms in answer.
Answer(s, ms) ==
  chan' = [chan EXCEPT ![s] = Tail(@), ![Peer(s)] = InFlight(Peer(s), ms)]

\* s writes ms and destroys its socket.  What it has not read is lost, and so
\* may be the end of what it wrote; the peer's socket then reports the close.
WriteAndClose(s, ms) ==
  LET q == InFlight(Peer(s), ms) IN
  /\ open' = [open EXCEPT ![s] = FALSE]
  /\ \E n \in 0 .. Len(q) :
       chan' = [chan EXCEPT
         ![s] = <<>>,
         ![Peer(s)] = IF open[Peer(s)]
                      THEN Append(SubSeq(q, 1, n), Plain("TransportClosed"))
                      ELSE <<>>]

\* A message of kind k is already in flight towards p.
Queued(p, k) == \E i \in 1 .. Len(chan[p]) : chan[p][i].kind = k

\* Health checks carry nothing but the fact that they arrive: those queued
\* behind one another count as one (bound).
HealthCheck(p, k) == IF Queued(p, k) THEN <<>> ELSE <<Plain(k)>>

-----------------------------------------------------------------------------
(* Parts shared by the handlers                                            *)

\* Slip: clearTimers forgets the health checks.
StopTimersButKeepAlive(s) ==
  /\ handshakeTimer' = [handshakeTimer EXCEPT ![s] = FALSE]
  /\ queries' = [queries EXCEPT ![s] = {}]
  /\ UNCHANGED <<keepAlive, missed>>

\* clearTimers.  Health-check ticks are counted only while the timer runs.
StopTimers(s) ==
  /\ handshakeTimer' = [handshakeTimer EXCEPT ![s] = FALSE]
  /\ keepAlive' = [keepAlive EXCEPT ![s] = FALSE]
  /\ missed' = [missed EXCEPT ![s] = 0]
  /\ queries' = [queries EXCEPT ![s] = {}]

\* closeWithError, after writing ms: the closure is recorded, timers and
\* pending diagnostics requests are dropped, the transport is destroyed.
Close(s, ms, cause) ==
  /\ phase[s] # "Closed"
  /\ phase' = [phase EXCEPT ![s] = "Closed"]
  /\ prompt' = [prompt EXCEPT ![s] = "None"]
  /\ role' = [role EXCEPT ![s] = "None"]
  /\ error' = [error EXCEPT ![s] = cause]
  /\ lastRecord' = [lastRecord EXCEPT ![s] = "Closure"]
  /\ StopTimers(s)
  /\ IF open[s] THEN WriteAndClose(s, ms) ELSE UNCHANGED <<open, chan>>
  /\ UNCHANGED <<intent, expected, outgoing, incoming, requested, link>>

\* Slip: both sides take the role the intent gives the initiator.
InitialRoleOfInitiator(s) == IF intent = "ViewRemote" THEN "Viewer" ELSE "Sharer"

InitialRole(s) ==
  IF (intent = "ViewRemote") <=> (s = Initiator) THEN "Viewer" ELSE "Sharer"

OppositeRole(r) == IF r = "Viewer" THEN "Sharer" ELSE "Viewer"

\* Slip: the health checks run since the consent phase and are not started.
EstablishUnchecked(s) ==
  /\ phase' = [phase EXCEPT ![s] = "Connected"]
  /\ prompt' = [prompt EXCEPT ![s] = "None"]
  /\ role' = [role EXCEPT ![s] = InitialRole(s)]
  /\ lastRecord' = [lastRecord EXCEPT ![s] = "Sample"]
  /\ UNCHANGED keepAlive

\* The end of tryEstablishConnection, which looks at no state of the session;
\* its first diagnostic sample is published at once.
Establish(s) ==
  /\ phase' = [phase EXCEPT ![s] = "Connected"]
  /\ prompt' = [prompt EXCEPT ![s] = "None"]
  /\ role' = [role EXCEPT ![s] = InitialRole(s)]
  /\ keepAlive' = [keepAlive EXCEPT ![s] = TRUE]
  /\ lastRecord' = [lastRecord EXCEPT ![s] = "Sample"]

\* Slip: both consents are there and nobody goes on.
BeginNothing == UNCHANGED <<remember, trusted>>

\* rememberInbound up to its await: the entry is in memory, the file is not
\* written yet.
BeginRemember ==
  /\ remember' = "Writing"
  /\ trusted' = TRUE

-----------------------------------------------------------------------------
(* Messages arriving at s                                                  *)

\* Slip: a reversal request is refused, not declined, before the connection.
AcceptingPhasesReversal(k) ==
  CASE k = "ClientHello" -> {"AwaitingClientHello"}
    [] k = "ServerHello" -> {"AwaitingServerHello"}
    [] k = "Ready" -> {"AwaitingSecureReady"}
    [] k = "ReadyAcknowledged" -> {"AwaitingSecureAcknowledgement"}
    [] k = "ConsentDecision" -> {"AwaitingConsent"}
    [] k = "Ping" -> {"AwaitingConsent", "Connected"}
    [] k \in {"DiagnosticsRequest", "MediaSignal", "ReversalRequest"} -> {"Connected"}
    [] k = "TransportClosed" -> Phases
    [] OTHER -> SecurePhases

\* The phases in which handleWireMessage and the handlers it calls take a
\* message of kind k; in any other phase they throw.
AcceptingPhases(k) ==
  CASE k = "ClientHello" -> {"AwaitingClientHello"}
    [] k = "ServerHello" -> {"AwaitingServerHello"}
    [] k = "Ready" -> {"AwaitingSecureReady"}
    [] k = "ReadyAcknowledged" -> {"AwaitingSecureAcknowledgement"}
    [] k = "ConsentDecision" -> {"AwaitingConsent"}
    [] k = "Ping" -> {"AwaitingConsent", "Connected"}
    [] k \in {"DiagnosticsRequest", "MediaSignal"} -> {"Connected"}
    [] k = "TransportClosed" -> Phases
    [] OTHER -> SecurePhases

\* The next message for s has kind k and its handler does not throw.
Receives(s, k) ==
  /\ link
  /\ open[s]
  /\ chan[s] # <<>>
  /\ Head(chan[s]).kind = k
  /\ phase[s] \in AcceptingPhases(k)

\* handleWireMessage notes that the peer is alive.
Alive(s) == missed' = [missed EXCEPT ![s] = 0]

\* Trust is looked up here and kept in #peer.paired.
HandleClientHello ==
  /\ Receives(Responder, "ClientHello")
  /\ paired' = trusted
  /\ Answer(Responder, <<Plain("ServerHello")>>)
  /\ phase' = [phase EXCEPT ![Responder] = "AwaitingSecureReady"]
  /\ UNCHANGED <<intent, expected, prompt, localConsent, remoteConsent, role,
                 error, open, timerVars, lastRecord, requestVars, trusted,
                 remember, link>>

HandleServerHello ==
  /\ Receives(Initiator, "ServerHello")
  /\ IF expected
     THEN /\ Answer(Initiator, <<Plain("Ready")>>)
          /\ phase' = [phase EXCEPT ![Initiator] = "AwaitingSecureAcknowledgement"]
          /\ UNCHANGED <<intent, expected, prompt, role, error, open, timerVars,
                         lastRecord, requestVars, link>>
     ELSE Close(Initiator, <<>>, "IdentityChanged")
  /\ UNCHANGED <<localConsent, remoteConsent, trustVars>>

\* The parts of enterConsentPhase both sides share.
EnterConsentPhase(s) ==
  /\ phase' = [phase EXCEPT ![s] = "AwaitingConsent"]
  /\ handshakeTimer' = [handshakeTimer EXCEPT ![s] = FALSE]
  /\ keepAlive' = [keepAlive EXCEPT ![s] = TRUE]
  /\ Alive(s)
  /\ UNCHANGED <<intent, expected, remoteConsent, role, error, open, lastRecord,
                 requestVars, trustVars, link>>

\* Slip: the consent is sent whether or not the initiator is known.
ReadyAnswerAlways == <<Plain("ReadyAcknowledged"), Consent(TRUE)>>

ReadyAnswer ==
  IF paired THEN <<Plain("ReadyAcknowledged"), Consent(TRUE)>>
  ELSE <<Plain("ReadyAcknowledged")>>

\* A paired responder consents at once; any other asks its user for the code.
HandleReady ==
  /\ Receives(Responder, "Ready")
  /\ EnterConsentPhase(Responder)
  /\ Answer(Responder, ReadyAnswer)
  /\ IF paired
     THEN /\ prompt' = [prompt EXCEPT ![Responder] = "None"]
          /\ localConsent' = [localConsent EXCEPT ![Responder] = "Accepted"]
     ELSE /\ prompt' = [prompt EXCEPT ![Responder] = "EnterVerificationCode"]
          /\ UNCHANGED localConsent

HandleReadyAcknowledged ==
  /\ Receives(Initiator, "ReadyAcknowledged")
  /\ EnterConsentPhase(Initiator)
  /\ prompt' = [prompt EXCEPT ![Initiator] = "WaitingForPeer"]
  /\ localConsent' = [localConsent EXCEPT ![Initiator] = "Accepted"]
  /\ Answer(Initiator, <<Consent(TRUE)>>)

\* The peer agrees.  With both consents a responder that is not paired first
\* stores the trust; any other session is connected.
HandleConsentAccepted(s) ==
  /\ Receives(s, "ConsentDecision")
  /\ Head(chan[s]).accepted
  /\ remoteConsent' = [remoteConsent EXCEPT ![s] = "Accepted"]
  /\ Answer(s, <<>>)
  /\ Alive(s)
  /\ \/ /\ localConsent[s] # "Accepted"
        /\ UNCHANGED <<phase, prompt, role, keepAlive, lastRecord, trusted, remember>>
     \/ /\ localConsent[s] = "Accepted"
        /\ s = Initiator \/ paired
        /\ Establish(s)
        /\ UNCHANGED <<trusted, remember>>
     \/ /\ localConsent[s] = "Accepted"
        /\ s = Responder /\ ~paired
        /\ BeginRemember
        /\ UNCHANGED <<phase, prompt, role, keepAlive, lastRecord>>
  /\ UNCHANGED <<intent, expected, localConsent, error, open, handshakeTimer,
                 requestVars, paired, link>>

HandleConsentDeclined(s) ==
  /\ Receives(s, "ConsentDecision")
  /\ ~Head(chan[s]).accepted
  /\ remoteConsent' = [remoteConsent EXCEPT ![s] = "Declined"]
  /\ Close(s, <<>>, "None")
  /\ UNCHANGED <<localConsent, trustVars>>

HandlePing(s) ==
  /\ Receives(s, "Ping")
  /\ Answer(s, HealthCheck(Peer(s), "Pong"))
  /\ Alive(s)
  /\ UNCHANGED <<intent, expected, sessionVars, open, handshakeTimer, keepAlive,
                 lastRecord, requestVars, trustVars, link>>

HandlePong(s) ==
  /\ Receives(s, "Pong")
  /\ Answer(s, <<>>)
  /\ Alive(s)
  /\ UNCHANGED <<intent, expected, sessionVars, open, handshakeTimer, keepAlive,
                 lastRecord, requestVars, trustVars, link>>

\* Slip: the phase is not looked at.
MayAskWithoutPhase(s) == prompt[s] = "None"

MayAsk(s) == phase[s] = "Connected" /\ prompt[s] = "None"

\* A request that meets an unfinished connection or an open prompt is declined
\* without asking.
HandleReversalRequest(s) ==
  LET id == Head(chan[s]).id IN
  /\ Receives(s, "ReversalRequest")
  /\ IF MayAsk(s)
     THEN /\ incoming' = [incoming EXCEPT ![s] = id]
          /\ prompt' = [prompt EXCEPT ![s] = "Reversal"]
          /\ Answer(s, <<>>)
     ELSE /\ Answer(s, <<ReversalDecision(id, FALSE)>>)
          /\ UNCHANGED <<incoming, prompt>>
  /\ Alive(s)
  /\ UNCHANGED <<intent, expected, phase, localConsent, remoteConsent, role,
                 error, open, handshakeTimer, keepAlive, lastRecord, outgoing,
                 queries, requested, trustVars, link>>

HandleReversalDecision(s) ==
  LET m == Head(chan[s]) IN
  /\ Receives(s, "ReversalDecision")
  /\ outgoing[s] # 0
  /\ outgoing[s] = m.id
  /\ outgoing' = [outgoing EXCEPT ![s] = 0]
  /\ role' = [role EXCEPT ![s] = IF m.accepted THEN OppositeRole(@) ELSE @]
  /\ Answer(s, <<>>)
  /\ Alive(s)
  /\ UNCHANGED <<intent, expected, phase, prompt, localConsent, remoteConsent,
                 error, open, handshakeTimer, keepAlive, lastRecord, incoming,
                 queries, requested, trustVars, link>>

\* All batches of one answer count as one message (bound); the split into
\* batches changes no session state at this side.
HandleDiagnosticsRequest(s) ==
  /\ Receives(s, "DiagnosticsRequest")
  /\ Answer(s, <<DiagnosticsBatch(Head(chan[s]).id)>>)
  /\ Alive(s)
  /\ UNCHANGED <<intent, expected, sessionVars, open, handshakeTimer, keepAlive,
                 lastRecord, requestVars, trustVars, link>>

\* An answer to a request that timed out is ignored.
HandleDiagnosticsBatch(s) ==
  /\ Receives(s, "DiagnosticsBatch")
  /\ queries' = [queries EXCEPT ![s] = @ \ {Head(chan[s]).id}]
  /\ Answer(s, <<>>)
  /\ Alive(s)
  /\ UNCHANGED <<intent, expected, sessionVars, open, handshakeTimer, keepAlive,
                 lastRecord, outgoing, incoming, requested, trustVars, link>>

HandleMediaSignal(s) ==
  /\ Receives(s, "MediaSignal")
  /\ Answer(s, <<>>)
  /\ Alive(s)
  /\ UNCHANGED <<intent, expected, sessionVars, open, handshakeTimer, keepAlive,
                 lastRecord, requestVars, trustVars, link>>

HandleDisconnect(s) ==
  /\ Receives(s, "Disconnect")
  /\ Close(s, <<>>, "None")
  /\ UNCHANGED <<localConsent, remoteConsent, trustVars>>

\* The socket reports the peer's close.
HandleTransportClosed(s) ==
  /\ Receives(s, "TransportClosed")
  /\ Close(s, <<>>, "ConnectionLost")
  /\ UNCHANGED <<localConsent, remoteConsent, trustVars>>

\* The socket may report an error once the network is silent.
SocketError(s) ==
  /\ open[s]
  /\ ~link
  /\ Close(s, <<>>, "ConnectionLost")
  /\ UNCHANGED <<localConsent, remoteConsent, trustVars>>

\* handleWireMessage's catch: whatever a handler throws closes the session.
Rejects(s) ==
  /\ link
  /\ open[s]
  /\ chan[s] # <<>>
  /\ LET m == Head(chan[s]) IN
       \/ phase[s] \notin AcceptingPhases(m.kind)
       \/ m.kind = "ReversalDecision" /\ (outgoing[s] = 0 \/ outgoing[s] # m.id)

RejectMessage(s) ==
  /\ Rejects(s)
  /\ Close(s, <<>>, "Unexpected")
  /\ UNCHANGED <<localConsent, remoteConsent, trustVars>>

-----------------------------------------------------------------------------
(* Timers and continuations                                                *)

HandshakeTimeout(s) ==
  /\ handshakeTimer[s]
  /\ Close(s, <<>>, "HandshakeTimeout")
  /\ UNCHANGED <<localConsent, remoteConsent, trustVars>>

Overdue(s) ==
  missed[s] + 1 >= IF phase[s] = "Connected" THEN ConnectionTicks ELSE PairingTicks

\* A tick finds the deadline passed, or sends a health check.
KeepAliveTick(s) ==
  /\ keepAlive[s]
  /\ IF Overdue(s)
     THEN Close(s, <<>>, "HealthCheckTimeout")
     ELSE /\ missed' = [missed EXCEPT ![s] = @ + 1]
          /\ Write(s, HealthCheck(Peer(s), "Ping"))
          /\ UNCHANGED <<intent, expected, phase, prompt, role, error, open,
                         handshakeTimer, keepAlive, lastRecord, requestVars, link>>
  /\ UNCHANGED <<localConsent, remoteConsent, trustVars>>

DiagnosticsTimeout(s) ==
  /\ \E i \in queries[s] : queries' = [queries EXCEPT ![s] = @ \ {i}]
  /\ UNCHANGED <<intent, expected, sessionVars, open, timerVars, lastRecord,
                 outgoing, incoming, requested, trustVars, chan, link>>

\* tryEstablishConnection resumes after rememberInbound, whatever happened to
\* the session in between.
FinishRemember ==
  /\ remember = "Writing"
  /\ remember' = "Done"
  /\ paired' = TRUE
  /\ Establish(Responder)
  /\ UNCHANGED <<intent, expected, localConsent, remoteConsent, error, open,
                 handshakeTimer, missed, requestVars, trusted, chan, link>>

\* The trust file could not be written: the rejected promise ends
\* tryEstablishConnection and nothing else.
FailRemember ==
  /\ remember = "Writing"
  /\ remember' = "Failed"
  /\ UNCHANGED <<intent, expected, sessionVars, open, timerVars, lastRecord,
                 requestVars, paired, trusted, chan, link>>

-----------------------------------------------------------------------------
(* Calls from the user interface                                           *)

\* The responder's user types the right code; a wrong one changes nothing.
AcceptPairing ==
  /\ open[Responder]
  /\ prompt[Responder] = "EnterVerificationCode"
  /\ prompt' = [prompt EXCEPT ![Responder] = "None"]
  /\ localConsent' = [localConsent EXCEPT ![Responder] = "Accepted"]
  /\ Write(Responder, <<Consent(TRUE)>>)
  /\ IF remoteConsent[Responder] = "Accepted"
     THEN BeginRemember
     ELSE UNCHANGED <<remember, trusted>>
  /\ UNCHANGED <<intent, expected, phase, remoteConsent, role, error, open,
                 timerVars, lastRecord, requestVars, paired, link>>

\* Either user refuses the connection; for the initiator this withdraws the
\* consent it gave on its own.
DeclinePairing(s) ==
  /\ open[s]
  /\ prompt[s] \in PairingPrompts
  /\ localConsent' = [localConsent EXCEPT ![s] = "Declined"]
  /\ Close(s, <<Consent(FALSE)>>, "None")
  /\ UNCHANGED <<remoteConsent, trustVars>>

RespondToReversal(s, yes) ==
  /\ open[s]
  /\ prompt[s] = "Reversal"
  /\ incoming[s] # 0
  /\ incoming' = [incoming EXCEPT ![s] = 0]
  /\ prompt' = [prompt EXCEPT ![s] = "None"]
  /\ Write(s, <<ReversalDecision(incoming[s], yes)>>)
  /\ role' = [role EXCEPT ![s] = IF yes THEN OppositeRole(@) ELSE @]
  /\ UNCHANGED <<intent, expected, phase, localConsent, remoteConsent, error,
                 open, timerVars, lastRecord, outgoing, queries, requested,
                 trustVars, link>>

RequestReversal(s) ==
  /\ phase[s] = "Connected"
  /\ outgoing[s] = 0
  /\ requested[s].reversals < MaxReversals
  /\ requested' = [requested EXCEPT ![s].reversals = @ + 1]
  /\ outgoing' = [outgoing EXCEPT ![s] = requested[s].reversals + 1]
  /\ Write(s, <<ReversalRequest(requested[s].reversals + 1)>>)
  /\ UNCHANGED <<intent, expected, sessionVars, open, timerVars, lastRecord,
                 incoming, queries, trustVars, link>>

\* A request that cannot be written is forgotten at once.
RequestDiagnostics(s) ==
  /\ phase[s] = "Connected"
  /\ open[s]
  /\ requested[s].queries < MaxQueries
  /\ requested' = [requested EXCEPT ![s].queries = @ + 1]
  /\ queries' = [queries EXCEPT ![s] = @ \cup {requested[s].queries + 1}]
  /\ Write(s, <<DiagnosticsRequest(requested[s].queries + 1)>>)
  /\ UNCHANGED <<intent, expected, sessionVars, open, timerVars, lastRecord,
                 outgoing, incoming, trustVars, link>>

\* The media layer of a new sharer makes its offer as soon as it is connected;
\* later signals follow at any time.
SendMediaSignal(s) ==
  /\ phase[s] = "Connected"
  /\ open[s]
  /\ requested[s].signals < MaxSignals
  /\ requested' = [requested EXCEPT ![s].signals = @ + 1]
  /\ Write(s, <<Plain("MediaSignal")>>)
  /\ UNCHANGED <<intent, expected, sessionVars, open, timerVars, lastRecord,
                 outgoing, incoming, queries, trustVars, link>>

\* Without a cipher there is nobody to tell.
Disconnect(s) ==
  /\ Close(s, IF phase[s] \in SecurePhases THEN <<Plain("Disconnect")>> ELSE <<>>,
           "None")
  /\ UNCHANGED <<localConsent, remoteConsent, trustVars>>

\* dispose: the manager replaces the session, or the application ends.
Dispose(s) ==
  /\ phase[s] # "Closed"
  /\ phase' = [phase EXCEPT ![s] = "Closed"]
  /\ StopTimers(s)
  /\ IF open[s] THEN WriteAndClose(s, <<>>) ELSE UNCHANGED <<open, chan>>
  /\ UNCHANGED <<intent, expected, prompt, localConsent, remoteConsent, role,
                 error, lastRecord, outgoing, incoming, requested, trustVars, link>>

-----------------------------------------------------------------------------
(* The surroundings                                                        *)

\* The user clears the trust entry, or its thirty days are over.
EndTrust ==
  /\ trusted
  /\ trusted' = FALSE
  /\ UNCHANGED <<intent, expected, sessionVars, open, timerVars, lastRecord,
                 requestVars, paired, remember, chan, link>>

\* The network goes silent for good.
LoseLink ==
  /\ LinkMayFail
  /\ link
  /\ link' = FALSE
  /\ UNCHANGED <<intent, expected, sessionVars, open, timerVars, lastRecord,
                 requestVars, trustVars, chan>>

-----------------------------------------------------------------------------

\* The next message or close of the transport, whichever handler takes it.
Deliver(s) ==
  \/ s = Responder /\ (HandleClientHello \/ HandleReady)
  \/ s = Initiator /\ (HandleServerHello \/ HandleReadyAcknowledged)
  \/ HandleConsentAccepted(s) \/ HandleConsentDeclined(s)
  \/ HandlePing(s) \/ HandlePong(s)
  \/ HandleReversalRequest(s) \/ HandleReversalDecision(s)
  \/ HandleDiagnosticsRequest(s) \/ HandleDiagnosticsBatch(s)
  \/ HandleMediaSignal(s)
  \/ HandleDisconnect(s) \/ HandleTransportClosed(s)
  \/ RejectMessage(s)

Timer(s) == HandshakeTimeout(s) \/ KeepAliveTick(s) \/ DiagnosticsTimeout(s)

User(s) ==
  \/ s = Responder /\ AcceptPairing
  \/ DeclinePairing(s)
  \/ \E yes \in BOOLEAN : RespondToReversal(s, yes)
  \/ RequestReversal(s) \/ RequestDiagnostics(s) \/ SendMediaSignal(s)
  \/ Disconnect(s) \/ Dispose(s)

Next ==
  \/ \E s \in Sides : Deliver(s) \/ Timer(s) \/ User(s) \/ SocketError(s)
  \/ FinishRemember \/ FailRemember
  \/ EndTrust \/ LoseLink

Spec == Init /\ [][Next]_vars

\* Timers fire, a file operation ends one way or the other, and a message in
\* flight is read while the link is up.  Users need do nothing.
Fairness ==
  /\ \A s \in Sides : WF_vars(Deliver(s)) /\ WF_vars(HandshakeTimeout(s))
                        /\ WF_vars(KeepAliveTick(s))
  /\ WF_vars(FinishRemember \/ FailRemember)

FairSpec == Spec /\ Fairness

-----------------------------------------------------------------------------
(* Properties                                                              *)

Live(s) == open[s] /\ phase[s] # "Closed"

\* Streaming never starts on one user's word.  A connected side has given its
\* own consent, and so has its peer; a peer still there has not withdrawn it.
\* The peer's part is state of another computer, known only from messages.
MutualConsent ==
  \A s \in Sides :
    phase[s] = "Connected" =>
      /\ localConsent[s] = "Accepted"
      /\ localConsent[Peer(s)] # "Unset"
      /\ Live(Peer(s)) => localConsent[Peer(s)] = "Accepted"

\* Positions in q of the messages of kind k.
Positions(q, k) == {i \in 1 .. Len(q) : q[i].kind = k}

\* A reversal request of s is in exactly one place while it is pending at s:
\* on its way to the peer, in the peer's prompt, or answered on its way back;
\* nothing is left of it otherwise.  So an answer is never unexpected, a
\* prompt never outlives its request and no request is asked twice, whichever
\* way the two users' requests and answers cross.
ReversalTokens ==
  \A s \in Sides :
    Live(s) /\ Live(Peer(s)) =>
      /\ (prompt[s] = "Reversal") <=> (incoming[s] # 0)
      /\ incoming[Peer(s)] \in {0, outgoing[s]}
      /\ Cardinality(Positions(chan[Peer(s)], "ReversalRequest"))
           + Cardinality(Positions(chan[s], "ReversalDecision"))
           + (IF incoming[Peer(s)] # 0 THEN 1 ELSE 0)
         = (IF outgoing[s] # 0 THEN 1 ELSE 0)

\* An accepted reversal has flipped the role of the side that accepted and is
\* still to flip the side that asked.
Flips(q) == {i \in Positions(q, "ReversalDecision") : q[i].accepted}

\* Two connected sides hold opposite roles, except while exactly one accepted
\* reversal is on its way back to the side that asked for it.
ComplementaryRoles ==
  (\A s \in Sides : Live(s) /\ phase[s] = "Connected") =>
    /\ \A s \in Sides : role[s] # "None"
    /\ (role[Initiator] = role[Responder])
         <=> ((Flips(chan[Initiator]) = {}) # (Flips(chan[Responder]) = {}))

\* No session is left without a timer that will end it if the peer falls
\* silent, and no ended session keeps one running.
EverySessionTimed ==
  \A s \in Sides : (phase[s] # "Closed") <=> (handshakeTimer[s] \/ keepAlive[s])

\* The protocol is closed under every interleaving of the two sides but two,
\* both at a responder and both lost by a message sent in good faith:
\*   - media or diagnostics traffic of an initiator that is already connected
\*     reaches a responder that has both consents and is storing the trust;
\*   - the initiator's user cancels before hearing that the responder agreed,
\*     and the withdrawal reaches a responder that is already connected.
RejectedOnlyInRaces ==
  [][\A s \in Sides :
       error'[s] = "Unexpected" /\ error[s] # "Unexpected" =>
         LET m == Head(chan[s]) IN
         /\ s = Responder
         /\ localConsent[s] = "Accepted" /\ remoteConsent[s] = "Accepted"
         /\ \/ /\ m.kind \in {"MediaSignal", "DiagnosticsRequest"}
               /\ phase[s] = "AwaitingConsent"
               /\ remember \in {"Writing", "Failed"}
            \/ /\ m = Consent(FALSE)
               /\ phase[s] = "Connected"
               /\ phase[Initiator] = "Closed"]_vars

\* README.md:69: every closure is recorded "before sampling stops", so that a
\* closed connection leaves no misleading final `connected` record.  The code does
\* not keep this: FinishRemember may come after the closure.
NoSampleAfterClosure ==
  [][\A s \in Sides : lastRecord[s] = "Closure" => lastRecord'[s] # "Sample"]_vars

\* README.md:13: health checks run so that "an offline peer closes the request
\* automatically".  Once one end is gone both ends are closed for good, even
\* if the link lost the news and even if the responder was storing trust.
BothEndsShut ==
  \A s \in Sides : ~open[s] ~> [](\A p \in Sides : phase[p] = "Closed")

\* Once both users agreed, both sides connect, unless one of them goes away or
\* the trust cannot be stored.
ConsentSettles ==
  (\A s \in Sides : localConsent[s] = "Accepted")
    ~> \/ \A s \in Sides : phase[s] = "Connected"
       \/ \E s \in Sides : ~open[s]
       \/ remember = "Failed"

=============================================================================
