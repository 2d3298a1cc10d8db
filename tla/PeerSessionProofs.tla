------------------------- MODULE PeerSessionProofs -------------------------
(***************************************************************************)
(* What holds of every PeerSession connection, whatever the deadlines, the *)
(* number of requests and the length of what is in flight: type            *)
(* correctness, that no side is connected on one user's consent, that no   *)
(* session is left without a timer, that a request to reverse direction is *)
(* in exactly one place while it is pending, that the roles of two         *)
(* connected sides are opposite but for an accepted reversal on its way,   *)
(* and that a side refuses what its peer has sent in two races only.       *)
(***************************************************************************)
EXTENDS PeerSession, SequenceTheorems, FiniteSetTheorems, TLAPS

\* The messages in q.
Elems(q) == {q[i] : i \in 1 .. Len(q)}

-----------------------------------------------------------------------------
(* Sequences                                                               *)

\* A sequence loses nothing but its head in Tail.
LEMMA ElemsTail ==
  ASSUME NEW S, NEW q \in Seq(S), q # <<>>
  PROVE  /\ Head(q) \in Elems(q)
         /\ Tail(q) \in Seq(S)
         /\ Elems(Tail(q)) \subseteq Elems(q)
  BY HeadTailProperties, SMTT(20) DEF Elems

\* Concatenation adds the messages written, and nothing else.
LEMMA ElemsConcat ==
  ASSUME NEW S, NEW q \in Seq(S), NEW r \in Seq(S)
  PROVE  /\ q \o r \in Seq(S)
         /\ Elems(q \o r) \subseteq Elems(q) \cup Elems(r)
  <1>1. q \o r \in Seq(S) /\ Len(q \o r) = Len(q) + Len(r)
    BY ConcatProperties
  <1>2. ASSUME NEW i \in 1 .. Len(q \o r)
        PROVE  (q \o r)[i] \in Elems(q) \cup Elems(r)
    <2>1. (q \o r)[i] = IF i <= Len(q) THEN q[i] ELSE r[i - Len(q)]
      BY <1>1, ConcatProperties
    <2>2. Len(q) \in Nat /\ Len(r) \in Nat
      BY LenProperties
    <2>3. CASE i <= Len(q)
      BY <2>1, <2>2, <2>3 DEF Elems
    <2>4. CASE ~(i <= Len(q))
      <3>1. i - Len(q) \in 1 .. Len(r)
        BY <1>1, <2>2, <2>4
      <3> QED
        BY <2>1, <2>4, <3>1 DEF Elems
    <2> QED
      BY <2>3, <2>4
  <1> QED
    BY <1>1, <1>2 DEF Elems

\* What a closing socket still delivers is a beginning of what was written,
\* followed by the news of the close.
LEMMA ElemsCut ==
  ASSUME NEW S, NEW q \in Seq(S), NEW n \in 0 .. Len(q), NEW m \in S
  PROVE  /\ Append(SubSeq(q, 1, n), m) \in Seq(S)
         /\ Elems(Append(SubSeq(q, 1, n), m)) \subseteq Elems(q) \cup {m}
  <1> DEFINE c == SubSeq(q, 1, n)
  <1>0. Len(q) \in Nat /\ n \in Nat
    BY LenProperties
  <1>1. c \in Seq(S) /\ Len(c) = n /\ \A i \in 1 .. n : c[i] = q[i]
    BY <1>0, SubSeqProperties
  <1> HIDE DEF c
  <1>2. /\ Append(c, m) \in Seq(S)
        /\ Len(Append(c, m)) = n + 1
        /\ \A i \in 1 .. n : Append(c, m)[i] = c[i]
        /\ Append(c, m)[n + 1] = m
    BY <1>1, AppendProperties
  <1>3. ASSUME NEW i \in 1 .. n + 1
        PROVE  Append(c, m)[i] \in Elems(q) \cup {m}
    <2>1. CASE i = n + 1
      BY <2>1, <1>2
    <2>2. CASE i # n + 1
      <3>1. i \in 1 .. n /\ i \in 1 .. Len(q)
        BY <1>0, <2>2
      <3> QED
        BY <3>1, <1>1, <1>2 DEF Elems
    <2> QED
      BY <2>1, <2>2
  <1> QED
    BY <1>2, <1>3 DEF Elems, c

-----------------------------------------------------------------------------
(* The transport                                                           *)

\* What may be in flight towards p after s has written ms.
Carried(p, s, ms) ==
  Elems(chan[p]) \cup (IF p = Peer(s) THEN Elems(ms) ELSE {})
    \cup {Plain("TransportClosed")}

LEMMA PeerSides ==
  ASSUME NEW s \in Sides
  PROVE  Peer(s) \in Sides /\ Peer(s) # s /\ Peer(Peer(s)) = s
  BY DEF Peer, Sides, Initiator, Responder

LEMMA InFlightElems ==
  ASSUME TypeOK, NEW p \in Sides, NEW ms \in Seq(Message)
  PROVE  /\ InFlight(p, ms) \in Seq(Message)
         /\ Elems(InFlight(p, ms)) \subseteq Elems(chan[p]) \cup Elems(ms)
  <1>1. chan[p] \in Seq(Message)
    BY DEF TypeOK
  <1>2. CASE open[p]
    BY <1>1, <1>2, ElemsConcat DEF InFlight
  <1>3. CASE ~open[p]
    BY <1>3 DEF InFlight, Elems
  <1> QED
    BY <1>2, <1>3

\* No operation of the transport invents a message.
LEMMA WriteCarries ==
  ASSUME TypeOK, NEW s \in Sides, NEW ms \in Seq(Message), Write(s, ms)
  PROVE  /\ chan' \in [Sides -> Seq(Message)]
         /\ \A p \in Sides : Elems(chan'[p]) \subseteq Carried(p, s, ms)
  <1>1. Peer(s) \in Sides /\ InFlight(Peer(s), ms) \in Seq(Message)
    BY PeerSides, InFlightElems
  <1>2. Elems(InFlight(Peer(s), ms)) \subseteq Elems(chan[Peer(s)]) \cup Elems(ms)
    BY PeerSides, InFlightElems
  <1>3. chan' \in [Sides -> Seq(Message)]
    BY <1>1 DEF Write, TypeOK
  <1>4. ASSUME NEW p \in Sides
        PROVE  Elems(chan'[p]) \subseteq Carried(p, s, ms)
    <2>1. CASE p = Peer(s) /\ open[s]
      <3>1. chan'[p] = InFlight(Peer(s), ms)
        BY <2>1, <1>1 DEF Write, TypeOK
      <3> QED
        BY <3>1, <2>1, <1>2 DEF Carried
    <2>2. CASE ~(p = Peer(s) /\ open[s])
      <3>1. chan'[p] = chan[p]
        BY <2>2, <1>1 DEF Write, TypeOK
      <3> QED
        BY <3>1 DEF Carried
    <2> QED
      BY <2>1, <2>2
  <1> QED
    BY <1>3, <1>4

LEMMA AnswerCarries ==
  ASSUME TypeOK, NEW s \in Sides, NEW ms \in Seq(Message), chan[s] # <<>>,
         Answer(s, ms)
  PROVE  /\ chan' \in [Sides -> Seq(Message)]
         /\ \A p \in Sides : Elems(chan'[p]) \subseteq Carried(p, s, ms)
  <1>1. Peer(s) \in Sides /\ Peer(s) # s /\ InFlight(Peer(s), ms) \in Seq(Message)
    BY PeerSides, InFlightElems
  <1>2. Elems(InFlight(Peer(s), ms)) \subseteq Elems(chan[Peer(s)]) \cup Elems(ms)
    BY PeerSides, InFlightElems
  <1>3. chan[s] \in Seq(Message)
    BY DEF TypeOK
  <1>4. Tail(chan[s]) \in Seq(Message) /\ Elems(Tail(chan[s])) \subseteq Elems(chan[s])
    BY <1>3, ElemsTail
  <1>5. chan' \in [Sides -> Seq(Message)]
    BY <1>1, <1>4 DEF Answer, TypeOK
  <1>6. chan'[s] = Tail(chan[s]) /\ chan'[Peer(s)] = InFlight(Peer(s), ms)
    BY <1>1 DEF Answer, TypeOK
  <1>7. \A p \in Sides : p = s \/ p = Peer(s)
    BY DEF Sides, Peer
  <1>8. Elems(chan'[s]) \subseteq Carried(s, s, ms)
    BY <1>4, <1>6 DEF Carried
  <1>9. Elems(chan'[Peer(s)]) \subseteq Carried(Peer(s), s, ms)
    BY <1>2, <1>6 DEF Carried
  <1> QED
    BY <1>5, <1>7, <1>8, <1>9

LEMMA CloseCarries ==
  ASSUME TypeOK, NEW s \in Sides, NEW ms \in Seq(Message), WriteAndClose(s, ms)
  PROVE  /\ chan' \in [Sides -> Seq(Message)]
         /\ \A p \in Sides : Elems(chan'[p]) \subseteq Carried(p, s, ms)
  <1> DEFINE q == InFlight(Peer(s), ms)
             x == Plain("TransportClosed")
  <1>1. Peer(s) \in Sides /\ Peer(s) # s /\ q \in Seq(Message)
    BY PeerSides, InFlightElems
  <1>2. Elems(q) \subseteq Elems(chan[Peer(s)]) \cup Elems(ms)
    BY PeerSides, InFlightElems
  <1>3. x \in Message
    BY DEF Message, Plain, PlainKinds
  <1>4. PICK n \in 0 .. Len(q) :
          chan' = [chan EXCEPT
            ![s] = <<>>,
            ![Peer(s)] = IF open[Peer(s)] THEN Append(SubSeq(q, 1, n), x) ELSE <<>>]
    BY DEF WriteAndClose
  <1>5. /\ Append(SubSeq(q, 1, n), x) \in Seq(Message)
        /\ Elems(Append(SubSeq(q, 1, n), x)) \subseteq Elems(q) \cup {x}
    BY <1>1, <1>3, ElemsCut
  <1> HIDE DEF q, x
  <1>6. chan' \in [Sides -> Seq(Message)]
    <2>1. <<>> \in Seq(Message)
      OBVIOUS
    <2> QED
      BY <2>1, <1>1, <1>4, <1>5 DEF TypeOK
  <1>7. /\ chan'[s] = <<>>
        /\ chan'[Peer(s)] = IF open[Peer(s)] THEN Append(SubSeq(q, 1, n), x) ELSE <<>>
    BY <1>1, <1>4 DEF TypeOK
  <1>8. Elems(<<>>) = {}
    BY DEF Elems
  <1>9. Elems(chan'[s]) \subseteq Carried(s, s, ms)
    BY <1>7, <1>8 DEF Carried
  <1>10. Elems(chan'[Peer(s)]) \subseteq Carried(Peer(s), s, ms)
    <2>1. CASE open[Peer(s)]
      BY <2>1, <1>7, <1>5, <1>2 DEF Carried, x
    <2>2. CASE ~open[Peer(s)]
      BY <2>2, <1>7, <1>8
    <2> QED
      BY <2>1, <2>2
  <1>11. \A p \in Sides : p = s \/ p = Peer(s)
    BY DEF Sides, Peer
  <1> QED
    BY <1>6, <1>9, <1>10, <1>11

\* The message a handler reads is one of those in flight, so it has its type.
LEMMA HeadIsCarried ==
  ASSUME TypeOK, NEW s \in Sides, chan[s] # <<>>
  PROVE  Head(chan[s]) \in Elems(chan[s]) /\ Head(chan[s]) \in Message
  <1>1. chan[s] \in Seq(Message)
    BY DEF TypeOK
  <1> QED
    BY <1>1, ElemsTail, HeadTailProperties

LEMMA MessageFields ==
  ASSUME NEW m \in Message
  PROVE  /\ m.kind \in {"ReversalRequest", "ReversalDecision", "DiagnosticsRequest",
                        "DiagnosticsBatch"} => m.id \in Nat
         /\ m.kind \in {"ConsentDecision", "ReversalDecision"} => m.accepted \in BOOLEAN
         /\ m.kind = "ConsentDecision" => m = Consent(m.accepted)
  BY DEF Message, PlainKinds, Consent

\* What the handlers write.
LEMMA Written ==
  /\ <<>> \in Seq(Message)
  /\ \A k \in PlainKinds : <<Plain(k)>> \in Seq(Message)
  /\ \A b \in BOOLEAN : <<Consent(b)>> \in Seq(Message)
  /\ ReadyAnswer \in Seq(Message)
  /\ \A i \in Nat : <<ReversalRequest(i)>> \in Seq(Message)
  /\ \A i \in Nat, b \in BOOLEAN : <<ReversalDecision(i, b)>> \in Seq(Message)
  /\ \A i \in Nat : <<DiagnosticsRequest(i)>> \in Seq(Message)
  /\ \A i \in Nat : <<DiagnosticsBatch(i)>> \in Seq(Message)
  /\ \A p \in Sides, k \in PlainKinds : HealthCheck(p, k) \in Seq(Message)
  <1>1. \A m \in Message : <<m>> \in Seq(Message)
    OBVIOUS
  <1>2. \A m, n \in Message : <<m, n>> \in Seq(Message)
    OBVIOUS
  <1>3. \A k \in PlainKinds : Plain(k) \in Message
    BY DEF Plain, Message
  <1>4. \A b \in BOOLEAN : Consent(b) \in Message
    BY DEF Consent, Message
  <1>5. \A i \in Nat : /\ ReversalRequest(i) \in Message
                       /\ DiagnosticsRequest(i) \in Message
                       /\ DiagnosticsBatch(i) \in Message
    BY DEF ReversalRequest, DiagnosticsRequest, DiagnosticsBatch, Message
  <1>6. \A i \in Nat, b \in BOOLEAN : ReversalDecision(i, b) \in Message
    BY DEF ReversalDecision, Message
  <1>7. ReadyAnswer \in Seq(Message)
    BY <1>1, <1>2, <1>3, <1>4 DEF ReadyAnswer, PlainKinds
  <1>8. \A p \in Sides, k \in PlainKinds : HealthCheck(p, k) \in Seq(Message)
    BY <1>1, <1>3 DEF HealthCheck
  <1> QED
    BY <1>1, <1>3, <1>4, <1>5, <1>6, <1>7, <1>8

-----------------------------------------------------------------------------
(* Type correctness                                                        *)

\* All that Close decides is well typed.
LEMMA CloseType ==
  ASSUME TypeOK, NEW s \in Sides, NEW ms \in Seq(Message), NEW c \in Errors,
         Close(s, ms, c)
  PROVE  /\ phase' \in [Sides -> Phases]
         /\ prompt' \in [Sides -> Prompts]
         /\ role' \in [Sides -> Roles]
         /\ error' \in [Sides -> Errors]
         /\ open' \in [Sides -> BOOLEAN]
         /\ handshakeTimer' \in [Sides -> BOOLEAN]
         /\ keepAlive' \in [Sides -> BOOLEAN]
         /\ missed' \in [Sides -> Nat]
         /\ lastRecord' \in [Sides -> {"None", "Sample", "Closure"}]
         /\ queries' \in [Sides -> SUBSET Nat]
         /\ chan' \in [Sides -> Seq(Message)]
         /\ UNCHANGED <<intent, expected, outgoing, incoming, requested, link>>
  <1>1. open' \in [Sides -> BOOLEAN] /\ chan' \in [Sides -> Seq(Message)]
    <2>1. CASE open[s]
      <3>1. WriteAndClose(s, ms)
        BY <2>1 DEF Close
      <3> QED
        BY <3>1, CloseCarries DEF WriteAndClose, TypeOK
    <2>2. CASE ~open[s]
      BY <2>2 DEF Close, TypeOK
    <2> QED
      BY <2>1, <2>2
  <1>2. UNCHANGED <<intent, expected, outgoing, incoming, requested, link>>
    BY DEF Close
  <1>3. /\ handshakeTimer' \in [Sides -> BOOLEAN]
        /\ keepAlive' \in [Sides -> BOOLEAN]
        /\ missed' \in [Sides -> Nat]
        /\ queries' \in [Sides -> SUBSET Nat]
    BY DEF Close, StopTimers, TypeOK
  <1>4. /\ phase' \in [Sides -> Phases]
        /\ prompt' \in [Sides -> Prompts]
        /\ role' \in [Sides -> Roles]
        /\ error' \in [Sides -> Errors]
        /\ lastRecord' \in [Sides -> {"None", "Sample", "Closure"}]
    BY DEF Close, TypeOK, Phases, Prompts, Roles
  <1> QED
    BY <1>1, <1>2, <1>3, <1>4

LEMMA ClosingTypeOK ==
  ASSUME TypeOK, NEW s \in Sides, NEW ms \in Seq(Message), NEW c \in Errors,
         Close(s, ms, c), UNCHANGED trustVars,
         localConsent' \in [Sides -> Decisions],
         remoteConsent' \in [Sides -> Decisions]
  PROVE  TypeOK'
  BY CloseType DEF TypeOK, trustVars

LEMMA TypeInit == Init => TypeOK
  <1> SUFFICES ASSUME Init PROVE TypeOK
    OBVIOUS
  <1>1. <<Plain("ClientHello")>> \in Seq(Message) /\ <<>> \in Seq(Message)
    BY Written DEF PlainKinds
  <1>2. chan \in [Sides -> Seq(Message)]
    BY <1>1 DEF Init
  <1>3. /\ phase \in [Sides -> Phases]
        /\ prompt \in [Sides -> Prompts]
        /\ role \in [Sides -> Roles]
        /\ error \in [Sides -> Errors]
        /\ localConsent \in [Sides -> Decisions]
        /\ remoteConsent \in [Sides -> Decisions]
    BY DEF Init, Phases, HandshakePhases, Prompts, Roles, Errors, Decisions
  <1> QED
    BY <1>2, <1>3 DEF Init, TypeOK

\* Handlers of messages, one by one.
LEMMA TypeDeliver ==
  ASSUME TypeOK, NEW s \in Sides, Deliver(s)
  PROVE  TypeOK'
  <1> USE DEF TypeOK
  <1>0. \A k : Receives(s, k) => chan[s] # <<>> /\ Head(chan[s]).kind = k
    BY DEF Receives
  <1>1. ASSUME s = Responder, HandleClientHello PROVE TypeOK'
    <2>1. <<Plain("ServerHello")>> \in Seq(Message)
      BY Written DEF PlainKinds
    <2>2. chan' \in [Sides -> Seq(Message)]
      BY <2>1, <1>0, <1>1, AnswerCarries DEF HandleClientHello
    <2> QED
      BY <2>2, <1>1 DEF HandleClientHello, timerVars, requestVars, Phases, HandshakePhases
  <1>2. ASSUME s = Responder, HandleReady PROVE TypeOK'
    <2>1. chan' \in [Sides -> Seq(Message)]
      BY <1>0, <1>2, Written, AnswerCarries DEF HandleReady
    <2>2. /\ phase' \in [Sides -> Phases] /\ prompt' \in [Sides -> Prompts]
          /\ localConsent' \in [Sides -> Decisions]
      BY <1>2 DEF HandleReady, EnterConsentPhase, Phases, Prompts, PairingPrompts, Decisions
    <2>3. /\ handshakeTimer' \in [Sides -> BOOLEAN] /\ keepAlive' \in [Sides -> BOOLEAN]
          /\ missed' \in [Sides -> Nat]
      BY <1>2 DEF HandleReady, EnterConsentPhase, Alive
    <2> QED
      BY <2>1, <2>2, <2>3, <1>2 DEF HandleReady, EnterConsentPhase, requestVars, trustVars
  <1>3. ASSUME s = Initiator, HandleServerHello PROVE TypeOK'
    <2>1. CASE expected
      <3>1. <<Plain("Ready")>> \in Seq(Message)
        BY Written DEF PlainKinds
      <3>2. chan' \in [Sides -> Seq(Message)]
        BY <3>1, <2>1, <1>0, <1>3, AnswerCarries DEF HandleServerHello
      <3> QED
        BY <3>2, <2>1, <1>3 DEF HandleServerHello, timerVars, requestVars, trustVars,
                                Phases, HandshakePhases
    <2>2. CASE ~expected
      BY <2>2, <1>3, Written, ClosingTypeOK DEF HandleServerHello, Errors
    <2> QED
      BY <2>1, <2>2
  <1>4. ASSUME s = Initiator, HandleReadyAcknowledged PROVE TypeOK'
    <2>1. chan' \in [Sides -> Seq(Message)]
      BY <1>0, <1>4, Written, AnswerCarries DEF HandleReadyAcknowledged
    <2> QED
      BY <2>1, <1>4 DEF HandleReadyAcknowledged, EnterConsentPhase, Alive, requestVars,
                        trustVars, Phases, Prompts, PairingPrompts, Decisions
  <1>5. ASSUME HandleConsentAccepted(s) PROVE TypeOK'
    <2>1. chan' \in [Sides -> Seq(Message)]
      BY <1>0, <1>5, Written, AnswerCarries DEF HandleConsentAccepted
    <2>2. missed' \in [Sides -> Nat] /\ remoteConsent' \in [Sides -> Decisions]
      BY <1>5 DEF HandleConsentAccepted, Alive, Decisions
    <2>3. /\ phase' \in [Sides -> Phases]
          /\ prompt' \in [Sides -> Prompts]
          /\ role' \in [Sides -> Roles]
          /\ keepAlive' \in [Sides -> BOOLEAN]
          /\ lastRecord' \in [Sides -> {"None", "Sample", "Closure"}]
          /\ trusted' \in BOOLEAN
          /\ remember' \in {"Idle", "Writing", "Done", "Failed"}
      <3>1. CASE /\ localConsent[s] # "Accepted"
                 /\ UNCHANGED <<phase, prompt, role, keepAlive, lastRecord, trusted, remember>>
        BY <3>1
      <3>2. CASE Establish(s) /\ UNCHANGED <<trusted, remember>>
        BY <3>2 DEF Establish, InitialRole, Phases, Prompts, Roles
      <3>3. CASE BeginRemember /\ UNCHANGED <<phase, prompt, role, keepAlive, lastRecord>>
        BY <3>3 DEF BeginRemember
      <3> QED
        BY <3>1, <3>2, <3>3, <1>5, Zenon DEF HandleConsentAccepted
    <2> QED
      BY <2>1, <2>2, <2>3, <1>5 DEF HandleConsentAccepted, requestVars
  <1>6. ASSUME HandleConsentDeclined(s) PROVE TypeOK'
    BY <1>6, Written, ClosingTypeOK DEF HandleConsentDeclined, Errors, Decisions
  <1>7. ASSUME HandlePing(s) PROVE TypeOK'
    <2>1. HealthCheck(Peer(s), "Pong") \in Seq(Message)
      BY Written, PeerSides DEF PlainKinds
    <2>2. chan' \in [Sides -> Seq(Message)]
      BY <2>1, <1>0, <1>7, AnswerCarries DEF HandlePing
    <2> QED
      BY <2>2, <1>7 DEF HandlePing, Alive, sessionVars, requestVars, trustVars
  <1>8. ASSUME HandlePong(s) PROVE TypeOK'
    <2>1. chan' \in [Sides -> Seq(Message)]
      BY <1>0, <1>8, Written, AnswerCarries DEF HandlePong
    <2> QED
      BY <2>1, <1>8 DEF HandlePong, Alive, sessionVars, requestVars, trustVars
  <1>9. ASSUME HandleReversalRequest(s) PROVE TypeOK'
    <2>1. Head(chan[s]).id \in Nat
      BY <1>0, <1>9, HeadIsCarried, MessageFields DEF HandleReversalRequest
    <2>2. chan' \in [Sides -> Seq(Message)]
      <3>1. CASE MayAsk(s)
        BY <3>1, <1>0, <1>9, Written, AnswerCarries DEF HandleReversalRequest
      <3>2. CASE ~MayAsk(s)
        <4>1. <<ReversalDecision(Head(chan[s]).id, FALSE)>> \in Seq(Message)
          BY <2>1, Written
        <4> QED
          BY <4>1, <3>2, <1>0, <1>9, AnswerCarries DEF HandleReversalRequest
      <3> QED
        BY <3>1, <3>2
    <2> QED
      BY <2>1, <2>2, <1>9 DEF HandleReversalRequest, Alive, trustVars, Prompts
  <1>10. ASSUME HandleReversalDecision(s) PROVE TypeOK'
    <2>1. chan' \in [Sides -> Seq(Message)]
      BY <1>0, <1>10, Written, AnswerCarries DEF HandleReversalDecision
    <2> QED
      BY <2>1, <1>10 DEF HandleReversalDecision, Alive, OppositeRole, trustVars, Roles
  <1>11. ASSUME HandleDiagnosticsRequest(s) PROVE TypeOK'
    <2>1. <<DiagnosticsBatch(Head(chan[s]).id)>> \in Seq(Message)
      BY <1>0, <1>11, Written, HeadIsCarried, MessageFields DEF HandleDiagnosticsRequest
    <2>2. chan' \in [Sides -> Seq(Message)]
      BY <2>1, <1>0, <1>11, AnswerCarries DEF HandleDiagnosticsRequest
    <2> QED
      BY <2>2, <1>11 DEF HandleDiagnosticsRequest, Alive, sessionVars, requestVars, trustVars
  <1>12. ASSUME HandleDiagnosticsBatch(s) PROVE TypeOK'
    <2>1. chan' \in [Sides -> Seq(Message)]
      BY <1>0, <1>12, Written, AnswerCarries DEF HandleDiagnosticsBatch
    <2> QED
      BY <2>1, <1>12 DEF HandleDiagnosticsBatch, Alive, sessionVars, trustVars
  <1>13. ASSUME HandleMediaSignal(s) PROVE TypeOK'
    <2>1. chan' \in [Sides -> Seq(Message)]
      BY <1>0, <1>13, Written, AnswerCarries DEF HandleMediaSignal
    <2> QED
      BY <2>1, <1>13 DEF HandleMediaSignal, Alive, sessionVars, requestVars, trustVars
  <1>14. ASSUME HandleDisconnect(s) PROVE TypeOK'
    BY <1>14, Written, ClosingTypeOK DEF HandleDisconnect, Errors
  <1>15. ASSUME HandleTransportClosed(s) PROVE TypeOK'
    BY <1>15, Written, ClosingTypeOK DEF HandleTransportClosed, Errors
  <1>16. ASSUME RejectMessage(s) PROVE TypeOK'
    BY <1>16, Written, ClosingTypeOK DEF RejectMessage, Errors
  <1> QED
    BY <1>1, <1>2, <1>3, <1>4, <1>5, <1>6, <1>7, <1>8, <1>9, <1>10, <1>11, <1>12,
       <1>13, <1>14, <1>15, <1>16 DEF Deliver

\* Numbering one more heartbeat keeps the heartbeat counts natural numbers.
LEMMA CountType ==
  ASSUME NEW f \in [Sides -> Nat], NEW s \in Sides, NEW n \in Nat
  PROVE  [f EXCEPT ![s] = n] \in [Sides -> Nat]
  OBVIOUS

\* Numbering one more request of a side (a reversal, a signal, a query) keeps
\* its request counters a record of natural numbers.
LEMMA RequestedType ==
  ASSUME NEW f \in [Sides -> [reversals : Nat, signals : Nat, queries : Nat]],
         NEW s \in Sides, NEW n \in Nat
  PROVE  /\ [f EXCEPT ![s].reversals = n] \in [Sides -> [reversals : Nat, signals : Nat, queries : Nat]]
         /\ [f EXCEPT ![s].signals = n] \in [Sides -> [reversals : Nat, signals : Nat, queries : Nat]]
         /\ [f EXCEPT ![s].queries = n] \in [Sides -> [reversals : Nat, signals : Nat, queries : Nat]]
  <1> DEFINE Rec == [reversals : Nat, signals : Nat, queries : Nat]
  <1>1. f[s] \in Rec
    OBVIOUS
  <1>2. /\ [f[s] EXCEPT !.reversals = n] \in Rec
        /\ [f[s] EXCEPT !.signals = n] \in Rec
        /\ [f[s] EXCEPT !.queries = n] \in Rec
    BY <1>1
  <1>3. ASSUME NEW r \in Rec PROVE [f EXCEPT ![s] = r] \in [Sides -> Rec]
    BY Zenon
  <1> QED
    BY <1>2, <1>3

\* Timers, continuations and the calls of the two users.
LEMMA TypeLocal ==
  ASSUME TypeOK, NEW s \in Sides, Timer(s) \/ User(s) \/ SocketError(s)
  PROVE  TypeOK'
  <1> USE DEF TypeOK
  <1>1. ASSUME HandshakeTimeout(s) PROVE TypeOK'
    BY <1>1, Written, ClosingTypeOK DEF HandshakeTimeout, Errors
  <1>2. ASSUME KeepAliveTick(s) PROVE TypeOK'
    <2>1. CASE Overdue(s)
      BY <2>1, <1>2, Written, ClosingTypeOK DEF KeepAliveTick, Errors
    <2>2. CASE ~Overdue(s)
      <3>1. HealthCheck(Peer(s), "Ping") \in Seq(Message)
        BY Written, PeerSides DEF PlainKinds
      <3>2. chan' \in [Sides -> Seq(Message)]
        BY <3>1, <2>2, <1>2, WriteCarries DEF KeepAliveTick
      <3>3. missed[s] + 1 \in Nat
        OBVIOUS
      <3>4. missed' \in [Sides -> Nat]
        <4>1. missed' = [missed EXCEPT ![s] = missed[s] + 1]
          BY <2>2, <1>2 DEF KeepAliveTick
        <4>2. missed \in [Sides -> Nat]
          OBVIOUS
        <4> HIDE DEF TypeOK
        <4> QED
          BY <4>1, <4>2, <3>3, CountType
      <3> QED
        BY <3>2, <3>4, <2>2, <1>2 DEF KeepAliveTick, requestVars, trustVars
    <2> QED
      BY <2>1, <2>2
  <1>3. ASSUME DiagnosticsTimeout(s) PROVE TypeOK'
    <2>1. PICK i \in queries[s] : queries' = [queries EXCEPT ![s] = @ \ {i}]
      BY <1>3 DEF DiagnosticsTimeout
    <2>2. queries[s] \ {i} \in SUBSET Nat
      OBVIOUS
    <2>3. queries' \in [Sides -> SUBSET Nat]
      BY <2>1, <2>2
    <2> QED
      BY <2>3, <1>3 DEF DiagnosticsTimeout, sessionVars, timerVars, trustVars
  <1>4. ASSUME s = Responder, AcceptPairing PROVE TypeOK'
    <2>1. chan' \in [Sides -> Seq(Message)]
      BY <1>4, Written, WriteCarries DEF AcceptPairing
    <2> QED
      BY <2>1, <1>4 DEF AcceptPairing, BeginRemember, timerVars, requestVars,
                        Prompts, Decisions
  <1>5. ASSUME DeclinePairing(s) PROVE TypeOK'
    BY <1>5, Written, ClosingTypeOK DEF DeclinePairing, Errors, Decisions
  <1>6. ASSUME NEW yes \in BOOLEAN, RespondToReversal(s, yes) PROVE TypeOK'
    <2>1. <<ReversalDecision(incoming[s], yes)>> \in Seq(Message)
      BY Written
    <2>2. chan' \in [Sides -> Seq(Message)]
      BY <2>1, <1>6, WriteCarries DEF RespondToReversal
    <2> QED
      BY <2>2, <1>6 DEF RespondToReversal, OppositeRole, timerVars, trustVars,
                        Prompts, Roles
  <1>7. ASSUME RequestReversal(s) PROVE TypeOK'
    <2>1. requested[s].reversals + 1 \in Nat
      OBVIOUS
    <2>2. <<ReversalRequest(requested[s].reversals + 1)>> \in Seq(Message)
      BY <2>1, Written
    <2>3. chan' \in [Sides -> Seq(Message)]
      BY <2>2, <1>7, WriteCarries DEF RequestReversal
    <2>4. outgoing' \in [Sides -> Nat]
      BY <2>1, <1>7 DEF RequestReversal
    <2>5. requested' \in [Sides -> [reversals : Nat, signals : Nat, queries : Nat]]
      BY <2>1, <1>7, RequestedType DEF RequestReversal
    <2> QED
      BY <2>3, <2>4, <2>5, <1>7 DEF RequestReversal, sessionVars, timerVars, trustVars
  <1>8. ASSUME RequestDiagnostics(s) PROVE TypeOK'
    <2>1. requested[s].queries + 1 \in Nat
      OBVIOUS
    <2>2. <<DiagnosticsRequest(requested[s].queries + 1)>> \in Seq(Message)
      BY <2>1, Written
    <2>3. chan' \in [Sides -> Seq(Message)]
      BY <2>2, <1>8, WriteCarries DEF RequestDiagnostics
    <2>4. queries' \in [Sides -> SUBSET Nat]
      BY <2>1, <1>8 DEF RequestDiagnostics
    <2>5. requested' \in [Sides -> [reversals : Nat, signals : Nat, queries : Nat]]
      BY <2>1, <1>8, RequestedType DEF RequestDiagnostics
    <2> QED
      BY <2>3, <2>4, <2>5, <1>8 DEF RequestDiagnostics, sessionVars, timerVars, trustVars
  <1>9. ASSUME SendMediaSignal(s) PROVE TypeOK'
    <2>1. <<Plain("MediaSignal")>> \in Seq(Message)
      BY Written DEF PlainKinds
    <2>2. chan' \in [Sides -> Seq(Message)]
      BY <2>1, <1>9, WriteCarries DEF SendMediaSignal
    <2>3. requested[s].signals + 1 \in Nat
      OBVIOUS
    <2>4. requested' \in [Sides -> [reversals : Nat, signals : Nat, queries : Nat]]
      BY <2>3, <1>9, RequestedType DEF SendMediaSignal
    <2> QED
      BY <2>2, <2>4, <1>9 DEF SendMediaSignal, sessionVars, timerVars, trustVars
  <1>10. ASSUME Disconnect(s) PROVE TypeOK'
    <2>1. <<Plain("Disconnect")>> \in Seq(Message) /\ <<>> \in Seq(Message)
      BY Written DEF PlainKinds
    <2>2. PICK ms \in Seq(Message) : Close(s, ms, "None")
      BY <2>1, <1>10 DEF Disconnect
    <2>3. UNCHANGED <<localConsent, remoteConsent, trustVars>>
      BY <1>10 DEF Disconnect
    <2> QED
      BY <2>2, <2>3, ClosingTypeOK DEF Errors
  <1>11. ASSUME Dispose(s) PROVE TypeOK'
    <2>1. open' \in [Sides -> BOOLEAN] /\ chan' \in [Sides -> Seq(Message)]
      <3>1. CASE open[s]
        <4>1. WriteAndClose(s, <<>>)
          BY <3>1, <1>11 DEF Dispose
        <4> QED
          BY <4>1, Written, CloseCarries DEF WriteAndClose
      <3>2. CASE ~open[s]
        BY <3>2, <1>11 DEF Dispose
      <3> QED
        BY <3>1, <3>2
    <2> QED
      BY <2>1, <1>11 DEF Dispose, StopTimers, trustVars, Phases
  <1>12. ASSUME SocketError(s) PROVE TypeOK'
    BY <1>12, Written, ClosingTypeOK DEF SocketError, Errors
  <1> QED
    BY <1>1, <1>2, <1>3, <1>4, <1>5, <1>6, <1>7, <1>8, <1>9, <1>10, <1>11, <1>12
       DEF Timer, User

LEMMA TypeNext == TypeOK /\ [Next]_vars => TypeOK'
  <1> SUFFICES ASSUME TypeOK, [Next]_vars PROVE TypeOK'
    OBVIOUS
  <1>1. ASSUME NEW s \in Sides, Deliver(s) \/ Timer(s) \/ User(s) \/ SocketError(s)
        PROVE  TypeOK'
    BY <1>1, TypeDeliver, TypeLocal
  <1>2. CASE FinishRemember
    <2>1. /\ phase' \in [Sides -> Phases]
          /\ prompt' \in [Sides -> Prompts]
          /\ role' \in [Sides -> Roles]
          /\ keepAlive' \in [Sides -> BOOLEAN]
          /\ lastRecord' \in [Sides -> {"None", "Sample", "Closure"}]
      BY <1>2 DEF FinishRemember, Establish, InitialRole, TypeOK, Phases, Prompts, Roles
    <2> QED
      BY <2>1, <1>2 DEF FinishRemember, requestVars, TypeOK
  <1>3. CASE FailRemember
    BY <1>3 DEF FailRemember, sessionVars, timerVars, requestVars, TypeOK
  <1>4. CASE EndTrust
    BY <1>4 DEF EndTrust, sessionVars, timerVars, requestVars, TypeOK
  <1>5. CASE LoseLink
    BY <1>5 DEF LoseLink, sessionVars, timerVars, requestVars, trustVars, TypeOK
  <1>6. CASE UNCHANGED vars
    BY <1>6 DEF vars, TypeOK
  <1> QED
    BY <1>1, <1>2, <1>3, <1>4, <1>5, <1>6 DEF Next

\* Every state of a connection is well typed, for any deadlines and any number
\* of requests.
THEOREM TypeCorrect == Spec => []TypeOK
  BY TypeInit, TypeNext, PTL DEF Spec

-----------------------------------------------------------------------------
(* Mutual consent                                                          *)

\* A side's consent stands or was withdrawn; it was given in either case.
Given(s) == localConsent[s] # "Unset"

\* Why a connected side has the consent of both: the peer's word was given
\* before it was sent, and is never unsaid, only withdrawn by closing; the
\* responder cannot withdraw while its trust is being stored, for it has no
\* prompt left to answer.
ConsentInv ==
  /\ \A s \in Sides : Consent(TRUE) \in Elems(chan[s]) => Given(Peer(s))
  /\ \A s \in Sides : remoteConsent[s] = "Accepted" => Given(Peer(s))
  /\ \A s \in Sides : localConsent[s] = "Declined" => ~open[s]
  /\ \A s \in Sides :
       phase[s] = "Connected" => localConsent[s] = "Accepted" /\ Given(Peer(s))
  /\ localConsent[Responder] = "Accepted" \/ prompt[Responder] \in PairingPrompts
       => phase[Responder] \notin HandshakePhases
  /\ localConsent[Responder] = "Accepted" => prompt[Responder] \notin PairingPrompts
  /\ remember = "Writing" =>
       localConsent[Responder] = "Accepted" /\ Given(Initiator)

LEMMA ConsentInit == Init => ConsentInv
  <1> SUFFICES ASSUME Init PROVE ConsentInv
    OBVIOUS
  <1>1. \A s \in Sides : Consent(TRUE) \notin Elems(chan[s])
    BY DEF Init, Elems, Consent, Plain, Sides
  <1>2. Responder \in Sides /\ Responder # Initiator
    BY DEF Sides, Responder, Initiator
  <1> QED
    BY <1>1, <1>2 DEF Init, ConsentInv, PairingPrompts

\* A step that writes no consent, gives none, and brings no side into the
\* consent phase or beyond.
QuietStep(s, ms) ==
  /\ \A p \in Sides : Elems(chan'[p]) \subseteq Carried(p, s, ms)
  /\ Consent(TRUE) \notin Elems(ms)
  /\ localConsent' = localConsent
  /\ \A p \in Sides : remoteConsent'[p] = "Accepted" => remoteConsent[p] = "Accepted"
  /\ \A p \in Sides : open'[p] => open[p]
  /\ \A p \in Sides : phase'[p] = "Connected" => phase[p] = "Connected"
  /\ phase'[Responder] \in HandshakePhases => phase[Responder] \in HandshakePhases
  /\ prompt'[Responder] \in PairingPrompts => prompt[Responder] \in PairingPrompts
  /\ remember' = "Writing" => remember = "Writing"

LEMMA ConsentQuiet ==
  ASSUME TypeOK, ConsentInv, NEW s \in Sides, NEW ms, QuietStep(s, ms)
  PROVE  ConsentInv'
  <1>1. Plain("TransportClosed") # Consent(TRUE)
    BY DEF Plain, Consent
  <1>2. \A p \in Sides : Given(p)' <=> Given(p)
    BY DEF QuietStep, Given
  <1>3. ASSUME NEW p \in Sides, (Consent(TRUE) \in Elems(chan[p]))'
        PROVE  Given(Peer(p))'
    <2>1. Consent(TRUE) \in Elems(chan'[p])
      BY <1>3 DEF Elems, Consent
    <2>2. Consent(TRUE) \in Elems(chan[p])
      BY <2>1, <1>1 DEF QuietStep, Carried
    <2> QED
      BY <2>2, <1>2, PeerSides DEF ConsentInv
  <1>4. \A p \in Sides : remoteConsent'[p] = "Accepted" => Given(Peer(p))'
    BY <1>2, PeerSides DEF QuietStep, ConsentInv
  <1>5. \A p \in Sides : localConsent'[p] = "Declined" => ~open'[p]
    BY DEF QuietStep, ConsentInv
  <1>6. \A p \in Sides : phase'[p] = "Connected" =>
          localConsent'[p] = "Accepted" /\ Given(Peer(p))'
    BY <1>2, PeerSides DEF QuietStep, ConsentInv
  <1>7. /\ localConsent'[Responder] = "Accepted" \/ prompt'[Responder] \in PairingPrompts
             => phase'[Responder] \notin HandshakePhases
        /\ localConsent'[Responder] = "Accepted" => prompt'[Responder] \notin PairingPrompts
    BY DEF QuietStep, ConsentInv
  <1>8. remember' = "Writing" => localConsent'[Responder] = "Accepted" /\ Given(Initiator)'
    BY <1>2 DEF QuietStep, ConsentInv, Sides
  <1> QED
    BY <1>3, <1>4, <1>5, <1>6, <1>7, <1>8 DEF ConsentInv

\* The messages that state no consent.
LEMMA NoConsent ==
  /\ Consent(TRUE) \notin Elems(<<>>)
  /\ \A k \in PlainKinds : Consent(TRUE) \notin Elems(<<Plain(k)>>)
  /\ Consent(TRUE) \notin Elems(<<Consent(FALSE)>>)
  /\ \A i \in Nat : /\ Consent(TRUE) \notin Elems(<<ReversalRequest(i)>>)
                    /\ Consent(TRUE) \notin Elems(<<DiagnosticsRequest(i)>>)
                    /\ Consent(TRUE) \notin Elems(<<DiagnosticsBatch(i)>>)
  /\ \A i \in Nat, b \in BOOLEAN : Consent(TRUE) \notin Elems(<<ReversalDecision(i, b)>>)
  /\ \A p \in Sides, k \in PlainKinds : Consent(TRUE) \notin Elems(HealthCheck(p, k))
  <1>1. \A m : Elems(<<m>>) = {m}
    BY DEF Elems
  <1>2. Elems(<<>>) = {}
    BY DEF Elems
  <1>3. \A k \in PlainKinds : Plain(k) # Consent(TRUE)
    BY DEF Plain, Consent
  <1>4. Consent(FALSE) # Consent(TRUE)
    BY DEF Consent
  <1>5. \A i \in Nat : /\ ReversalRequest(i) # Consent(TRUE)
                       /\ DiagnosticsRequest(i) # Consent(TRUE)
                       /\ DiagnosticsBatch(i) # Consent(TRUE)
    BY DEF ReversalRequest, DiagnosticsRequest, DiagnosticsBatch, Consent
  <1>6. \A i \in Nat, b \in BOOLEAN : ReversalDecision(i, b) # Consent(TRUE)
    BY DEF ReversalDecision, Consent
  <1>7. \A p \in Sides, k \in PlainKinds : Consent(TRUE) \notin Elems(HealthCheck(p, k))
    BY <1>1, <1>2, <1>3 DEF HealthCheck
  <1>8. /\ Consent(TRUE) \notin Elems(<<>>)
        /\ \A k \in PlainKinds : Consent(TRUE) \notin Elems(<<Plain(k)>>)
        /\ Consent(TRUE) \notin Elems(<<Consent(FALSE)>>)
    BY <1>1, <1>2, <1>3, <1>4
  <1>9. \A i \in Nat : /\ Consent(TRUE) \notin Elems(<<ReversalRequest(i)>>)
                       /\ Consent(TRUE) \notin Elems(<<DiagnosticsRequest(i)>>)
                       /\ Consent(TRUE) \notin Elems(<<DiagnosticsBatch(i)>>)
    <2> TAKE i \in Nat
    <2>1. /\ Elems(<<ReversalRequest(i)>>) = {ReversalRequest(i)}
          /\ Elems(<<DiagnosticsRequest(i)>>) = {DiagnosticsRequest(i)}
          /\ Elems(<<DiagnosticsBatch(i)>>) = {DiagnosticsBatch(i)}
      BY <1>1
    <2> QED
      BY <2>1, <1>5
  <1>10. \A i \in Nat, b \in BOOLEAN : Consent(TRUE) \notin Elems(<<ReversalDecision(i, b)>>)
    <2> TAKE i \in Nat, b \in BOOLEAN
    <2>1. Elems(<<ReversalDecision(i, b)>>) = {ReversalDecision(i, b)}
      BY <1>1
    <2> QED
      BY <2>1, <1>6
  <1> QED
    BY <1>7, <1>8, <1>9, <1>10

\* Closing a session is quiet when nothing but the peer's refusal is noted.
LEMMA CloseQuiet ==
  ASSUME TypeOK, NEW s \in Sides, NEW ms \in Seq(Message), NEW c, Close(s, ms, c),
         Consent(TRUE) \notin Elems(ms), UNCHANGED <<localConsent, remember>>,
         \A p \in Sides : remoteConsent'[p] = "Accepted" => remoteConsent[p] = "Accepted"
  PROVE  QuietStep(s, ms)
  <1>1. /\ \A p \in Sides : Elems(chan'[p]) \subseteq Carried(p, s, ms)
        /\ \A p \in Sides : open'[p] => open[p]
    <2>1. CASE open[s]
      <3>1. WriteAndClose(s, ms)
        BY <2>1 DEF Close
      <3> QED
        BY <3>1, CloseCarries DEF WriteAndClose, TypeOK
    <2>2. CASE ~open[s]
      BY <2>2 DEF Close, Carried
    <2> QED
      BY <2>1, <2>2
  <1>2. /\ \A p \in Sides : phase'[p] = "Connected" => phase[p] = "Connected"
        /\ phase'[Responder] \in HandshakePhases => phase[Responder] \in HandshakePhases
        /\ prompt'[Responder] \in PairingPrompts => prompt[Responder] \in PairingPrompts
    BY DEF Close, TypeOK, Sides, HandshakePhases, PairingPrompts
  <1> QED
    BY <1>1, <1>2 DEF QuietStep

\* Steps that leave consent, phase, prompt and transport as they are.
LEMMA FrameQuiet ==
  ASSUME NEW s \in Sides, NEW ms,
         \A p \in Sides : Elems(chan'[p]) \subseteq Carried(p, s, ms),
         Consent(TRUE) \notin Elems(ms),
         UNCHANGED <<phase, localConsent, remoteConsent, open>>,
         prompt'[Responder] \in PairingPrompts => prompt[Responder] \in PairingPrompts,
         remember' = "Writing" => remember = "Writing"
  PROVE  QuietStep(s, ms)
  BY DEF QuietStep

\* The message a handler reads shows that the sender has consented.
LEMMA ConsentHeard ==
  ASSUME TypeOK, ConsentInv, NEW s \in Sides, Receives(s, "ConsentDecision"),
         Head(chan[s]).accepted
  PROVE  Given(Peer(s))
  <1>1. /\ Head(chan[s]) \in Elems(chan[s])
        /\ Head(chan[s]) \in Message
        /\ Head(chan[s]).kind = "ConsentDecision"
    BY HeadIsCarried DEF Receives
  <1>2. Head(chan[s]) = Consent(Head(chan[s]).accepted)
    BY <1>1, MessageFields
  <1>3. Head(chan[s]).accepted = TRUE
    BY <1>1, MessageFields
  <1> QED
    BY <1>1, <1>2, <1>3 DEF ConsentInv

LEMMA ConsentDeliver ==
  ASSUME TypeOK, ConsentInv, NEW s \in Sides, Deliver(s)
  PROVE  ConsentInv'
  <1>0. \A k : Receives(s, k) => /\ chan[s] # <<>>
                                 /\ Head(chan[s]).kind = k
                                 /\ open[s]
                                 /\ phase[s] \in AcceptingPhases(k)
    BY DEF Receives
  <1>a. Initiator \in Sides /\ Responder \in Sides /\ Initiator # Responder
        /\ Peer(Initiator) = Responder /\ Peer(Responder) = Initiator
    BY DEF Sides, Initiator, Responder, Peer
  <1>1. ASSUME s = Responder, HandleClientHello PROVE ConsentInv'
    <2> DEFINE ms == <<Plain("ServerHello")>>
    <2>1. ms \in Seq(Message) /\ Consent(TRUE) \notin Elems(ms)
      BY Written, NoConsent DEF PlainKinds
    <2>2. \A p \in Sides : Elems(chan'[p]) \subseteq Carried(p, s, ms)
      BY <2>1, <1>0, <1>1, AnswerCarries DEF HandleClientHello
    <2>3. phase[Responder] \in HandshakePhases
      BY <1>0, <1>1 DEF HandleClientHello, AcceptingPhases, HandshakePhases
    <2> HIDE DEF ms
    <2>4. QuietStep(s, ms)
      BY <2>1, <2>2, <2>3, <1>1, <1>a DEF HandleClientHello, QuietStep, TypeOK
    <2> QED
      BY <2>4, ConsentQuiet
  <1>2. ASSUME s = Responder, HandleReady PROVE ConsentInv'
    <2>1. phase[Responder] \in HandshakePhases
      BY <1>0, <1>2 DEF HandleReady, AcceptingPhases, HandshakePhases
    <2>2. localConsent[Responder] # "Accepted" /\ prompt[Responder] \notin PairingPrompts
      BY <2>1 DEF ConsentInv
    <2>3. localConsent[Responder] # "Declined" /\ remember # "Writing"
      BY <2>2, <1>0, <1>2, <1>a DEF ConsentInv, HandleReady
    <2>4. UNCHANGED <<remoteConsent, open, remember>>
      BY <1>2 DEF HandleReady, EnterConsentPhase, trustVars
    <2>5. /\ phase'[Responder] = "AwaitingConsent"
          /\ phase'[Initiator] = phase[Initiator]
          /\ localConsent'[Initiator] = localConsent[Initiator]
          /\ prompt'[Responder] = IF paired THEN "None" ELSE "EnterVerificationCode"
          /\ localConsent'[Responder] = IF paired THEN "Accepted" ELSE localConsent[Responder]
      BY <1>2, <1>a DEF HandleReady, EnterConsentPhase, TypeOK
    <2>6. \A p \in Sides : Elems(chan'[p]) \subseteq Carried(p, s, ReadyAnswer)
      BY <1>0, <1>2, Written, AnswerCarries DEF HandleReady
    <2>7. Consent(TRUE) \in Elems(ReadyAnswer) => paired
      <3>1. ASSUME ~paired PROVE Elems(ReadyAnswer) = {Plain("ReadyAcknowledged")}
        BY <3>1 DEF ReadyAnswer, Elems
      <3> QED
        BY <3>1 DEF Plain, Consent
    <2>8. Plain("TransportClosed") # Consent(TRUE)
      BY DEF Plain, Consent
    <2>9. ASSUME NEW p \in Sides, (Consent(TRUE) \in Elems(chan[p]))'
          PROVE  Given(Peer(p))'
      <3>1. Consent(TRUE) \in Elems(chan'[p])
        BY <2>9 DEF Elems, Consent
      <3>2. CASE Consent(TRUE) \in Elems(chan[p])
        BY <3>2, <2>5, <1>a, PeerSides DEF ConsentInv, Given, Sides
      <3>3. CASE Consent(TRUE) \notin Elems(chan[p])
        <4>1. p = Initiator /\ paired
          BY <3>1, <3>3, <2>6, <2>7, <2>8, <1>2, <1>a DEF Carried
        <4> QED
          BY <4>1, <2>5, <1>a DEF Given
      <3> QED
        BY <3>2, <3>3
    <2>10. \A p \in Sides : Given(p) => Given(p)'
      BY <2>5 DEF Given, Sides
    <2>11. \A p \in Sides : remoteConsent'[p] = "Accepted" => Given(Peer(p))'
      BY <2>4, <2>10, PeerSides DEF ConsentInv
    <2>12. \A p \in Sides : localConsent'[p] = "Declined" => ~open'[p]
      BY <2>3, <2>4, <2>5 DEF ConsentInv, Sides
    <2>13. \A p \in Sides : phase'[p] = "Connected" =>
             localConsent'[p] = "Accepted" /\ Given(Peer(p))'
      BY <2>5, <2>10, <1>a DEF ConsentInv, Sides
    <2>14. /\ phase'[Responder] \notin HandshakePhases
           /\ localConsent'[Responder] = "Accepted" => prompt'[Responder] \notin PairingPrompts
      BY <2>2, <2>5 DEF HandshakePhases, PairingPrompts
    <2> QED
      BY <2>3, <2>4, <2>9, <2>11, <2>12, <2>13, <2>14 DEF ConsentInv
  <1>3. ASSUME s = Initiator, HandleServerHello PROVE ConsentInv'
    <2>1. CASE expected
      <3> DEFINE ms == <<Plain("Ready")>>
      <3>1. ms \in Seq(Message) /\ Consent(TRUE) \notin Elems(ms)
        BY Written, NoConsent DEF PlainKinds
      <3>2. \A p \in Sides : Elems(chan'[p]) \subseteq Carried(p, s, ms)
        BY <3>1, <2>1, <1>0, <1>3, AnswerCarries DEF HandleServerHello
      <3> HIDE DEF ms
      <3>3. QuietStep(s, ms)
        BY <3>1, <3>2, <2>1, <1>3, <1>a DEF HandleServerHello, QuietStep, TypeOK, trustVars
      <3> QED
        BY <3>3, ConsentQuiet
    <2>2. CASE ~expected
      <3>1. QuietStep(s, <<>>)
        BY <2>2, <1>3, Written, NoConsent, CloseQuiet DEF HandleServerHello, trustVars
      <3> QED
        BY <3>1, ConsentQuiet
    <2> QED
      BY <2>1, <2>2
  <1>4. ASSUME s = Initiator, HandleReadyAcknowledged PROVE ConsentInv'
    <2> DEFINE ms == <<Consent(TRUE)>>
    <2>1. ms \in Seq(Message)
      BY Written
    <2>2. \A p \in Sides : Elems(chan'[p]) \subseteq Carried(p, s, ms)
      BY <2>1, <1>0, <1>4, AnswerCarries DEF HandleReadyAcknowledged
    <2>3. UNCHANGED <<remoteConsent, open, remember>>
      BY <1>4 DEF HandleReadyAcknowledged, EnterConsentPhase, trustVars
    <2>4. /\ phase'[Initiator] = "AwaitingConsent"
          /\ phase'[Responder] = phase[Responder]
          /\ localConsent'[Initiator] = "Accepted"
          /\ localConsent'[Responder] = localConsent[Responder]
          /\ prompt'[Responder] = prompt[Responder]
      BY <1>4, <1>a DEF HandleReadyAcknowledged, EnterConsentPhase, TypeOK
    <2> HIDE DEF ms
    <2>5. \A p \in Sides : Given(p) => Given(p)'
      BY <2>4 DEF Given, Sides
    <2>6. Given(Initiator)'
      BY <2>4 DEF Given
    <2>7. Plain("TransportClosed") # Consent(TRUE)
      BY DEF Plain, Consent
    <2>8. ASSUME NEW p \in Sides, (Consent(TRUE) \in Elems(chan[p]))'
          PROVE  Given(Peer(p))'
      <3>1. Consent(TRUE) \in Elems(chan'[p])
        BY <2>8 DEF Elems, Consent
      <3>2. Consent(TRUE) \in Elems(chan[p]) \/ p = Responder
        BY <3>1, <2>2, <2>7, <1>4, <1>a DEF Carried
      <3> QED
        BY <3>2, <2>5, <2>6, <1>a, PeerSides DEF ConsentInv
    <2>9. /\ \A p \in Sides : remoteConsent'[p] = "Accepted" => Given(Peer(p))'
          /\ \A p \in Sides : localConsent'[p] = "Declined" => ~open'[p]
          /\ \A p \in Sides : phase'[p] = "Connected" =>
               localConsent'[p] = "Accepted" /\ Given(Peer(p))'
      BY <2>3, <2>4, <2>5, <1>a DEF ConsentInv, Sides
    <2>10. remember' = "Writing" => localConsent'[Responder] = "Accepted" /\ Given(Initiator)'
      BY <2>3, <2>4, <2>6 DEF ConsentInv
    <2> QED
      BY <2>4, <2>8, <2>9, <2>10 DEF ConsentInv
  <1>5. ASSUME HandleConsentAccepted(s) PROVE ConsentInv'
    <2>1. Given(Peer(s))
      BY <1>5, ConsentHeard DEF HandleConsentAccepted
    <2>2. UNCHANGED <<localConsent, open>>
      BY <1>5 DEF HandleConsentAccepted
    <2>3. phase[s] = "AwaitingConsent"
      BY <1>0, <1>5 DEF HandleConsentAccepted, AcceptingPhases
    <2>4. \A p \in Sides : Elems(chan'[p]) \subseteq Carried(p, s, <<>>)
      BY <1>0, <1>5, Written, AnswerCarries DEF HandleConsentAccepted
    <2>5. \A p \in Sides : Given(p)' <=> Given(p)
      BY <2>2 DEF Given
    <2>6. Plain("TransportClosed") # Consent(TRUE)
      BY DEF Plain, Consent
    <2>7. ASSUME NEW p \in Sides, (Consent(TRUE) \in Elems(chan[p]))'
          PROVE  Given(Peer(p))'
      <3>1. Consent(TRUE) \in Elems(chan'[p])
        BY <2>7 DEF Elems, Consent
      <3>2. Consent(TRUE) \in Elems(chan[p])
        BY <3>1, <2>4, <2>6, NoConsent DEF Carried
      <3> QED
        BY <3>2, <2>5, PeerSides DEF ConsentInv
    <2>8. \A p \in Sides : remoteConsent'[p] = "Accepted" => Given(Peer(p))'
      <3>1. \A p \in Sides : p # s => remoteConsent'[p] = remoteConsent[p]
        BY <1>5 DEF HandleConsentAccepted, TypeOK
      <3> QED
        BY <3>1, <2>1, <2>5, PeerSides DEF ConsentInv
    <2>9. \A p \in Sides : phase'[p] = "Connected" =>
            localConsent'[p] = "Accepted" /\ Given(Peer(p))'
      <3>1. \A p \in Sides : p # s => phase'[p] = phase[p]
        BY <1>5 DEF HandleConsentAccepted, Establish, TypeOK
      <3>2. phase'[s] = "Connected" => localConsent[s] = "Accepted"
        BY <2>3, <1>5 DEF HandleConsentAccepted
      <3> QED
        BY <3>1, <3>2, <2>1, <2>2, <2>5, PeerSides DEF ConsentInv
    <2>10. /\ phase'[Responder] \in HandshakePhases => phase[Responder] \in HandshakePhases
           /\ prompt'[Responder] \in PairingPrompts => prompt[Responder] \in PairingPrompts
      BY <1>5, <1>a DEF HandleConsentAccepted, Establish, TypeOK, HandshakePhases,
                        PairingPrompts
    <2>11. remember' = "Writing" => localConsent'[Responder] = "Accepted" /\ Given(Initiator)'
      <3>1. CASE remember' = remember
        BY <3>1, <2>2, <2>5, <1>a DEF ConsentInv
      <3>2. CASE remember' # remember
        <4>1. s = Responder /\ localConsent[s] = "Accepted"
          BY <3>2, <1>5 DEF HandleConsentAccepted
        <4> QED
          BY <4>1, <2>1, <2>2, <2>5, <1>a
      <3> QED
        BY <3>1, <3>2
    <2> QED
      BY <2>2, <2>7, <2>8, <2>9, <2>10, <2>11 DEF ConsentInv
  <1>6. ASSUME HandleConsentDeclined(s) PROVE ConsentInv'
    <2>1. \A p \in Sides : remoteConsent'[p] = "Accepted" => remoteConsent[p] = "Accepted"
      BY <1>6 DEF HandleConsentDeclined, TypeOK
    <2>2. QuietStep(s, <<>>)
      BY <2>1, <1>6, Written, NoConsent, CloseQuiet DEF HandleConsentDeclined, trustVars
    <2> QED
      BY <2>2, ConsentQuiet
  <1>7. ASSUME HandlePing(s) PROVE ConsentInv'
    <2> DEFINE ms == HealthCheck(Peer(s), "Pong")
    <2>1. ms \in Seq(Message) /\ Consent(TRUE) \notin Elems(ms)
      BY Written, NoConsent, PeerSides DEF PlainKinds
    <2>2. \A p \in Sides : Elems(chan'[p]) \subseteq Carried(p, s, ms)
      BY <2>1, <1>0, <1>7, AnswerCarries DEF HandlePing
    <2> QED
      BY <2>1, <2>2, <1>7, FrameQuiet, ConsentQuiet DEF HandlePing, sessionVars, trustVars
  <1>8. ASSUME HandlePong(s) PROVE ConsentInv'
    <2>1. \A p \in Sides : Elems(chan'[p]) \subseteq Carried(p, s, <<>>)
      BY <1>0, <1>8, Written, AnswerCarries DEF HandlePong
    <2> QED
      BY <2>1, <1>8, NoConsent, FrameQuiet, ConsentQuiet DEF HandlePong, sessionVars, trustVars
  <1>9. ASSUME HandleReversalRequest(s) PROVE ConsentInv'
    <2>1. Head(chan[s]).id \in Nat
      BY <1>0, <1>9, HeadIsCarried, MessageFields DEF HandleReversalRequest
    <2>2. prompt'[Responder] \in PairingPrompts => prompt[Responder] \in PairingPrompts
      BY <1>9, <1>a DEF HandleReversalRequest, TypeOK, PairingPrompts
    <2>3. CASE MayAsk(s)
      <3>1. \A p \in Sides : Elems(chan'[p]) \subseteq Carried(p, s, <<>>)
        BY <2>3, <1>0, <1>9, Written, AnswerCarries DEF HandleReversalRequest
      <3> QED
        BY <3>1, <2>2, <1>9, NoConsent, FrameQuiet, ConsentQuiet
           DEF HandleReversalRequest, trustVars
    <2>4. CASE ~MayAsk(s)
      <3> DEFINE ms == <<ReversalDecision(Head(chan[s]).id, FALSE)>>
      <3>1. ms \in Seq(Message) /\ Consent(TRUE) \notin Elems(ms)
        BY <2>1, Written, NoConsent
      <3>2. \A p \in Sides : Elems(chan'[p]) \subseteq Carried(p, s, ms)
        BY <3>1, <2>4, <1>0, <1>9, AnswerCarries DEF HandleReversalRequest
      <3> QED
        BY <3>1, <3>2, <2>2, <1>9, FrameQuiet, ConsentQuiet
           DEF HandleReversalRequest, trustVars
    <2> QED
      BY <2>3, <2>4
  <1>10. ASSUME HandleReversalDecision(s) PROVE ConsentInv'
    <2>1. \A p \in Sides : Elems(chan'[p]) \subseteq Carried(p, s, <<>>)
      BY <1>0, <1>10, Written, AnswerCarries DEF HandleReversalDecision
    <2> QED
      BY <2>1, <1>10, NoConsent, FrameQuiet, ConsentQuiet DEF HandleReversalDecision, trustVars
  <1>11. ASSUME HandleDiagnosticsRequest(s) PROVE ConsentInv'
    <2> DEFINE ms == <<DiagnosticsBatch(Head(chan[s]).id)>>
    <2>1. Head(chan[s]).id \in Nat
      BY <1>0, <1>11, HeadIsCarried, MessageFields DEF HandleDiagnosticsRequest
    <2>2. ms \in Seq(Message) /\ Consent(TRUE) \notin Elems(ms)
      BY <2>1, Written, NoConsent
    <2>3. \A p \in Sides : Elems(chan'[p]) \subseteq Carried(p, s, ms)
      BY <2>2, <1>0, <1>11, AnswerCarries DEF HandleDiagnosticsRequest
    <2> QED
      BY <2>2, <2>3, <1>11, FrameQuiet, ConsentQuiet
         DEF HandleDiagnosticsRequest, sessionVars, trustVars
  <1>12. ASSUME HandleDiagnosticsBatch(s) PROVE ConsentInv'
    <2>1. \A p \in Sides : Elems(chan'[p]) \subseteq Carried(p, s, <<>>)
      BY <1>0, <1>12, Written, AnswerCarries DEF HandleDiagnosticsBatch
    <2> QED
      BY <2>1, <1>12, NoConsent, FrameQuiet, ConsentQuiet
         DEF HandleDiagnosticsBatch, sessionVars, trustVars
  <1>13. ASSUME HandleMediaSignal(s) PROVE ConsentInv'
    <2>1. \A p \in Sides : Elems(chan'[p]) \subseteq Carried(p, s, <<>>)
      BY <1>0, <1>13, Written, AnswerCarries DEF HandleMediaSignal
    <2> QED
      BY <2>1, <1>13, NoConsent, FrameQuiet, ConsentQuiet
         DEF HandleMediaSignal, sessionVars, trustVars
  <1>14. ASSUME HandleDisconnect(s) \/ HandleTransportClosed(s) \/ RejectMessage(s)
         PROVE  ConsentInv'
    <2>1. PICK c : Close(s, <<>>, c)
      BY <1>14 DEF HandleDisconnect, HandleTransportClosed, RejectMessage
    <2>2. UNCHANGED <<localConsent, remoteConsent, trustVars>>
      BY <1>14 DEF HandleDisconnect, HandleTransportClosed, RejectMessage
    <2>3. QuietStep(s, <<>>)
      BY <2>1, <2>2, Written, NoConsent, CloseQuiet DEF trustVars
    <2> QED
      BY <2>3, ConsentQuiet
  <1> QED
    BY <1>1, <1>2, <1>3, <1>4, <1>5, <1>6, <1>7, <1>8, <1>9, <1>10, <1>11, <1>12,
       <1>13, <1>14 DEF Deliver

LEMMA ConsentLocal ==
  ASSUME TypeOK, ConsentInv, NEW s \in Sides, Timer(s) \/ User(s) \/ SocketError(s)
  PROVE  ConsentInv'
  <1>a. Initiator \in Sides /\ Responder \in Sides /\ Initiator # Responder
        /\ Peer(Initiator) = Responder /\ Peer(Responder) = Initiator
    BY DEF Sides, Initiator, Responder, Peer
  <1>b. Plain("TransportClosed") # Consent(TRUE)
    BY DEF Plain, Consent
  <1>1. ASSUME HandshakeTimeout(s) \/ SocketError(s) PROVE ConsentInv'
    <2>1. PICK c : Close(s, <<>>, c)
      BY <1>1 DEF HandshakeTimeout, SocketError
    <2>2. UNCHANGED <<localConsent, remoteConsent, trustVars>>
      BY <1>1 DEF HandshakeTimeout, SocketError
    <2>3. QuietStep(s, <<>>)
      BY <2>1, <2>2, Written, NoConsent, CloseQuiet DEF trustVars
    <2> QED
      BY <2>3, ConsentQuiet
  <1>2. ASSUME KeepAliveTick(s) PROVE ConsentInv'
    <2>1. CASE Overdue(s)
      <3>1. QuietStep(s, <<>>)
        BY <2>1, <1>2, Written, NoConsent, CloseQuiet DEF KeepAliveTick, trustVars
      <3> QED
        BY <3>1, ConsentQuiet
    <2>2. CASE ~Overdue(s)
      <3> DEFINE ms == HealthCheck(Peer(s), "Ping")
      <3>1. ms \in Seq(Message) /\ Consent(TRUE) \notin Elems(ms)
        BY Written, NoConsent, PeerSides DEF PlainKinds
      <3>2. \A p \in Sides : Elems(chan'[p]) \subseteq Carried(p, s, ms)
        BY <3>1, <2>2, <1>2, WriteCarries DEF KeepAliveTick
      <3> QED
        BY <3>1, <3>2, <2>2, <1>2, FrameQuiet, ConsentQuiet DEF KeepAliveTick, trustVars
    <2> QED
      BY <2>1, <2>2
  <1>3. ASSUME DiagnosticsTimeout(s) PROVE ConsentInv'
    <2>1. \A p \in Sides : Elems(chan'[p]) \subseteq Carried(p, s, <<>>)
      BY <1>3 DEF DiagnosticsTimeout, Carried
    <2> QED
      BY <2>1, <1>3, NoConsent, FrameQuiet, ConsentQuiet
         DEF DiagnosticsTimeout, sessionVars, trustVars
  <1>4. ASSUME s = Responder, AcceptPairing PROVE ConsentInv'
    <2> DEFINE ms == <<Consent(TRUE)>>
    <2>1. ms \in Seq(Message)
      BY Written
    <2>2. \A p \in Sides : Elems(chan'[p]) \subseteq Carried(p, s, ms)
      BY <2>1, <1>4, WriteCarries DEF AcceptPairing
    <2>3. UNCHANGED <<remoteConsent, open, phase>>
      BY <1>4 DEF AcceptPairing
    <2>4. /\ localConsent'[Responder] = "Accepted"
          /\ localConsent'[Initiator] = localConsent[Initiator]
          /\ prompt'[Responder] = "None"
          /\ prompt[Responder] \in PairingPrompts
      BY <1>4, <1>a DEF AcceptPairing, TypeOK, PairingPrompts
    <2> HIDE DEF ms
    <2>5. \A p \in Sides : Given(p) => Given(p)'
      BY <2>4 DEF Given, Sides
    <2>6. Given(Responder)'
      BY <2>4 DEF Given
    <2>7. ASSUME NEW p \in Sides, (Consent(TRUE) \in Elems(chan[p]))'
          PROVE  Given(Peer(p))'
      <3>1. Consent(TRUE) \in Elems(chan'[p])
        BY <2>7 DEF Elems, Consent
      <3>2. Consent(TRUE) \in Elems(chan[p]) \/ p = Initiator
        BY <3>1, <2>2, <1>4, <1>a, <1>b DEF Carried
      <3> QED
        BY <3>2, <2>5, <2>6, <1>a, PeerSides DEF ConsentInv
    <2>8. /\ \A p \in Sides : remoteConsent'[p] = "Accepted" => Given(Peer(p))'
          /\ \A p \in Sides : localConsent'[p] = "Declined" => ~open'[p]
          /\ \A p \in Sides : phase'[p] = "Connected" =>
               localConsent'[p] = "Accepted" /\ Given(Peer(p))'
      BY <2>3, <2>4, <2>5, <1>a DEF ConsentInv, Sides
    <2>9. /\ phase'[Responder] \notin HandshakePhases
          /\ prompt'[Responder] \notin PairingPrompts
      BY <2>3, <2>4 DEF ConsentInv, PairingPrompts
    <2>10. remember' = "Writing" => Given(Initiator)'
      <3>1. CASE remoteConsent[Responder] = "Accepted"
        BY <3>1, <2>5, <1>a DEF ConsentInv
      <3>2. CASE remoteConsent[Responder] # "Accepted"
        BY <3>2, <2>5, <1>4, <1>a DEF AcceptPairing, ConsentInv
      <3> QED
        BY <3>1, <3>2
    <2> QED
      BY <2>4, <2>7, <2>8, <2>9, <2>10 DEF ConsentInv
  <1>5. ASSUME DeclinePairing(s) PROVE ConsentInv'
    <2> DEFINE ms == <<Consent(FALSE)>>
    <2>1. ms \in Seq(Message) /\ Consent(TRUE) \notin Elems(ms)
      BY Written, NoConsent
    <2>2. WriteAndClose(s, ms)
      BY <1>5 DEF DeclinePairing, Close
    <2>3. \A p \in Sides : Elems(chan'[p]) \subseteq Carried(p, s, ms)
      BY <2>1, <2>2, CloseCarries
    <2> HIDE DEF ms
    <2>4. UNCHANGED <<remoteConsent, remember>>
      BY <1>5 DEF DeclinePairing, trustVars
    <2>5. /\ localConsent'[s] = "Declined"
          /\ phase'[s] = "Closed"
          /\ prompt'[s] = "None"
          /\ open'[s] = FALSE
          /\ \A p \in Sides : p # s => /\ localConsent'[p] = localConsent[p]
                                       /\ phase'[p] = phase[p]
                                       /\ prompt'[p] = prompt[p]
                                       /\ open'[p] = open[p]
      BY <2>2, <1>5 DEF DeclinePairing, Close, WriteAndClose, TypeOK
    <2>6. \A p \in Sides : Given(p) => Given(p)'
      BY <2>5 DEF Given
    <2>7. ASSUME NEW p \in Sides, (Consent(TRUE) \in Elems(chan[p]))'
          PROVE  Given(Peer(p))'
      <3>1. Consent(TRUE) \in Elems(chan'[p])
        BY <2>7 DEF Elems, Consent
      <3>2. Consent(TRUE) \in Elems(chan[p])
        BY <3>1, <2>1, <2>3, <1>b DEF Carried
      <3> QED
        BY <3>2, <2>6, PeerSides DEF ConsentInv
    <2>8. \A p \in Sides : remoteConsent'[p] = "Accepted" => Given(Peer(p))'
      BY <2>4, <2>6, PeerSides DEF ConsentInv
    <2>9. \A p \in Sides : localConsent'[p] = "Declined" => ~open'[p]
      BY <2>5 DEF ConsentInv
    <2>10. \A p \in Sides : phase'[p] = "Connected" =>
             localConsent'[p] = "Accepted" /\ Given(Peer(p))'
      BY <2>5, <2>6, PeerSides DEF ConsentInv
    <2>11. /\ localConsent'[Responder] = "Accepted" \/ prompt'[Responder] \in PairingPrompts
                => phase'[Responder] \notin HandshakePhases
           /\ localConsent'[Responder] = "Accepted" => prompt'[Responder] \notin PairingPrompts
      BY <2>5, <1>a DEF ConsentInv, HandshakePhases, PairingPrompts
    <2>12. remember' = "Writing" => localConsent'[Responder] = "Accepted" /\ Given(Initiator)'
      <3>1. s = Responder => localConsent[Responder] # "Accepted"
        BY <1>5 DEF DeclinePairing, ConsentInv
      <3> QED
        BY <3>1, <2>4, <2>5, <2>6, <1>a DEF ConsentInv
    <2> QED
      BY <2>7, <2>8, <2>9, <2>10, <2>11, <2>12 DEF ConsentInv
  <1>6. ASSUME NEW yes \in BOOLEAN, RespondToReversal(s, yes) PROVE ConsentInv'
    <2> DEFINE ms == <<ReversalDecision(incoming[s], yes)>>
    <2>1. ms \in Seq(Message) /\ Consent(TRUE) \notin Elems(ms)
      BY Written, NoConsent DEF TypeOK
    <2>2. \A p \in Sides : Elems(chan'[p]) \subseteq Carried(p, s, ms)
      BY <2>1, <1>6, WriteCarries DEF RespondToReversal
    <2>3. prompt'[Responder] \in PairingPrompts => prompt[Responder] \in PairingPrompts
      BY <1>6, <1>a DEF RespondToReversal, TypeOK, PairingPrompts
    <2> QED
      BY <2>1, <2>2, <2>3, <1>6, FrameQuiet, ConsentQuiet DEF RespondToReversal, trustVars
  <1>7. ASSUME RequestReversal(s) PROVE ConsentInv'
    <2> DEFINE ms == <<ReversalRequest(requested[s].reversals + 1)>>
    <2>1. requested[s].reversals + 1 \in Nat
      BY DEF TypeOK
    <2>2. ms \in Seq(Message) /\ Consent(TRUE) \notin Elems(ms)
      BY <2>1, Written, NoConsent
    <2>3. \A p \in Sides : Elems(chan'[p]) \subseteq Carried(p, s, ms)
      BY <2>2, <1>7, WriteCarries DEF RequestReversal
    <2> QED
      BY <2>2, <2>3, <1>7, FrameQuiet, ConsentQuiet DEF RequestReversal, sessionVars, trustVars
  <1>8. ASSUME RequestDiagnostics(s) PROVE ConsentInv'
    <2> DEFINE ms == <<DiagnosticsRequest(requested[s].queries + 1)>>
    <2>1. requested[s].queries + 1 \in Nat
      BY DEF TypeOK
    <2>2. ms \in Seq(Message) /\ Consent(TRUE) \notin Elems(ms)
      BY <2>1, Written, NoConsent
    <2>3. \A p \in Sides : Elems(chan'[p]) \subseteq Carried(p, s, ms)
      BY <2>2, <1>8, WriteCarries DEF RequestDiagnostics
    <2> QED
      BY <2>2, <2>3, <1>8, FrameQuiet, ConsentQuiet DEF RequestDiagnostics, sessionVars, trustVars
  <1>9. ASSUME SendMediaSignal(s) PROVE ConsentInv'
    <2> DEFINE ms == <<Plain("MediaSignal")>>
    <2>1. ms \in Seq(Message) /\ Consent(TRUE) \notin Elems(ms)
      BY Written, NoConsent DEF PlainKinds
    <2>2. \A p \in Sides : Elems(chan'[p]) \subseteq Carried(p, s, ms)
      BY <2>1, <1>9, WriteCarries DEF SendMediaSignal
    <2> QED
      BY <2>1, <2>2, <1>9, FrameQuiet, ConsentQuiet DEF SendMediaSignal, sessionVars, trustVars
  <1>10. ASSUME Disconnect(s) PROVE ConsentInv'
    <2>1. /\ <<Plain("Disconnect")>> \in Seq(Message) /\ <<>> \in Seq(Message)
          /\ Consent(TRUE) \notin Elems(<<Plain("Disconnect")>>)
          /\ Consent(TRUE) \notin Elems(<<>>)
      BY Written, NoConsent DEF PlainKinds
    <2>2. PICK ms \in Seq(Message) : Close(s, ms, "None") /\ Consent(TRUE) \notin Elems(ms)
      BY <2>1, <1>10 DEF Disconnect
    <2>3. QuietStep(s, ms)
      BY <2>2, <1>10, CloseQuiet DEF Disconnect, trustVars
    <2> QED
      BY <2>3, ConsentQuiet
  <1>11. ASSUME Dispose(s) PROVE ConsentInv'
    <2>1. /\ \A p \in Sides : Elems(chan'[p]) \subseteq Carried(p, s, <<>>)
          /\ \A p \in Sides : open'[p] => open[p]
      <3>1. CASE open[s]
        <4>1. WriteAndClose(s, <<>>)
          BY <3>1, <1>11 DEF Dispose
        <4> QED
          BY <4>1, Written, CloseCarries DEF WriteAndClose, TypeOK
      <3>2. CASE ~open[s]
        BY <3>2, <1>11 DEF Dispose, Carried
      <3> QED
        BY <3>1, <3>2
    <2>2. /\ \A p \in Sides : phase'[p] = "Connected" => phase[p] = "Connected"
          /\ phase'[Responder] \in HandshakePhases => phase[Responder] \in HandshakePhases
      BY <1>11 DEF Dispose, TypeOK, Sides, HandshakePhases
    <2>3. QuietStep(s, <<>>)
      BY <2>1, <2>2, <1>11, NoConsent DEF Dispose, QuietStep, trustVars
    <2> QED
      BY <2>3, ConsentQuiet
  <1> QED
    BY <1>1, <1>2, <1>3, <1>4, <1>5, <1>6, <1>7, <1>8, <1>9, <1>10, <1>11
       DEF Timer, User

LEMMA ConsentNext == TypeOK /\ ConsentInv /\ [Next]_vars => ConsentInv'
  <1> SUFFICES ASSUME TypeOK, ConsentInv, [Next]_vars PROVE ConsentInv'
    OBVIOUS
  <1>a. Initiator \in Sides /\ Responder \in Sides /\ Initiator # Responder
        /\ Peer(Initiator) = Responder /\ Peer(Responder) = Initiator
    BY DEF Sides, Initiator, Responder, Peer
  <1>1. ASSUME NEW s \in Sides, Deliver(s) \/ Timer(s) \/ User(s) \/ SocketError(s)
        PROVE  ConsentInv'
    BY <1>1, ConsentDeliver, ConsentLocal
  <1>2. CASE FinishRemember
    <2>1. UNCHANGED <<localConsent, remoteConsent, open, chan>> /\ remember' = "Done"
      BY <1>2 DEF FinishRemember
    <2>2. localConsent[Responder] = "Accepted" /\ Given(Initiator)
      BY <1>2 DEF FinishRemember, ConsentInv
    <2>3. /\ phase'[Responder] = "Connected"
          /\ phase'[Initiator] = phase[Initiator]
          /\ prompt'[Responder] = "None"
      BY <1>2, <1>a DEF FinishRemember, Establish, TypeOK
    <2>4. \A p \in Sides : /\ Given(p)' <=> Given(p)
                           /\ (Consent(TRUE) \in Elems(chan[p]))'
                                <=> Consent(TRUE) \in Elems(chan[p])
      BY <2>1 DEF Given, Elems, Consent
    <2>5. \A p \in Sides : phase'[p] = "Connected" =>
            localConsent'[p] = "Accepted" /\ Given(Peer(p))'
      BY <2>1, <2>2, <2>3, <2>4, <1>a DEF ConsentInv, Sides
    <2>6. phase'[Responder] \notin HandshakePhases /\ prompt'[Responder] \notin PairingPrompts
      BY <2>3 DEF HandshakePhases, PairingPrompts
    <2> QED
      BY <2>1, <2>4, <2>5, <2>6, PeerSides DEF ConsentInv
  <1>3. CASE FailRemember \/ EndTrust \/ LoseLink \/ UNCHANGED vars
    <2>1. UNCHANGED <<phase, prompt, localConsent, remoteConsent, open, chan>>
          /\ (remember' = "Writing" => remember = "Writing")
      BY <1>3 DEF FailRemember, EndTrust, LoseLink, sessionVars, trustVars, vars
    <2>2. \A p \in Sides : Elems(chan'[p]) \subseteq Carried(p, Initiator, <<>>)
      BY <2>1 DEF Carried
    <2> QED
      BY <2>1, <2>2, <1>a, NoConsent, FrameQuiet, ConsentQuiet
  <1> QED
    BY <1>1, <1>2, <1>3 DEF Next

\* A closed or withdrawn consent is not a standing one: what ConsentInv says of
\* a connected side is what MutualConsent asks.
LEMMA ConsentImplies == TypeOK /\ ConsentInv => MutualConsent
  <1> SUFFICES ASSUME TypeOK, ConsentInv, NEW s \in Sides, phase[s] = "Connected"
               PROVE  /\ localConsent[s] = "Accepted"
                      /\ localConsent[Peer(s)] # "Unset"
                      /\ Live(Peer(s)) => localConsent[Peer(s)] = "Accepted"
    BY DEF MutualConsent
  <1>1. localConsent[s] = "Accepted" /\ localConsent[Peer(s)] # "Unset"
    BY DEF ConsentInv, Given
  <1>2. Peer(s) \in Sides /\ localConsent[Peer(s)] \in Decisions
    BY PeerSides DEF TypeOK
  <1>3. Live(Peer(s)) => localConsent[Peer(s)] # "Declined"
    BY <1>2 DEF ConsentInv, Live
  <1> QED
    BY <1>1, <1>2, <1>3 DEF Decisions

\* Nobody streams on one user's word: a connected side has its own user's
\* consent and its peer's, in every interleaving of any number of requests.
THEOREM MutualConsentHolds == Spec => []MutualConsent
  <1>1. Init => TypeOK /\ ConsentInv
    BY TypeInit, ConsentInit
  <1>2. TypeOK /\ ConsentInv /\ [Next]_vars => (TypeOK /\ ConsentInv)'
    BY TypeNext, ConsentNext
  <1> QED
    BY <1>1, <1>2, ConsentImplies, PTL DEF Spec

-----------------------------------------------------------------------------
(* No session is ever left without a timer.  A step does one of four       *)
(* things to the phase and timers of a side: nothing, the end of the       *)
(* session, a phase watched by the health checks, or one step further in   *)
(* the handshake.                                                          *)

LEMMA TimedQuiet ==
  ASSUME EverySessionTimed, UNCHANGED <<phase, handshakeTimer, keepAlive>>
  PROVE  EverySessionTimed'
  BY DEF EverySessionTimed

\* closeWithError and dispose stop the timers of the session they close.
LEMMA TimedClosed ==
  ASSUME TypeOK, EverySessionTimed, NEW s \in Sides,
         phase' = [phase EXCEPT ![s] = "Closed"], StopTimers(s)
  PROVE  EverySessionTimed'
  BY DEF EverySessionTimed, StopTimers, TypeOK

\* enterConsentPhase and the end of tryEstablishConnection start the health
\* checks; the latter also for a session that was closed meanwhile.
LEMMA TimedWatched ==
  ASSUME TypeOK, EverySessionTimed, NEW s \in Sides,
         NEW x \in {"AwaitingConsent", "Connected"},
         phase' = [phase EXCEPT ![s] = x], keepAlive' = [keepAlive EXCEPT ![s] = TRUE],
         \A p \in Sides : p # s => handshakeTimer'[p] = handshakeTimer[p]
  PROVE  EverySessionTimed'
  BY DEF EverySessionTimed, TypeOK

\* In the handshake its timer goes on from hello to hello.
LEMMA TimedShaking ==
  ASSUME TypeOK, EverySessionTimed, NEW s \in Sides, phase[s] # "Closed",
         NEW x \in HandshakePhases, phase' = [phase EXCEPT ![s] = x],
         UNCHANGED <<handshakeTimer, keepAlive>>
  PROVE  EverySessionTimed'
  BY DEF EverySessionTimed, TypeOK, HandshakePhases

LEMMA TimedInit == Init => EverySessionTimed
  BY DEF Init, EverySessionTimed

\* Messages that arrive, one handler at a time.
LEMMA TimedDeliver ==
  ASSUME TypeOK, EverySessionTimed, NEW s \in Sides, Deliver(s)
  PROVE  EverySessionTimed'
  <1>1. CASE s = Responder /\ HandleClientHello
    <2>1. phase[s] # "Closed"
      BY <1>1 DEF HandleClientHello, Receives, AcceptingPhases
    <2>2. "AwaitingSecureReady" \in HandshakePhases
      BY DEF HandshakePhases
    <2>3. /\ phase' = [phase EXCEPT ![s] = "AwaitingSecureReady"]
          /\ UNCHANGED <<handshakeTimer, keepAlive>>
      BY <1>1 DEF HandleClientHello, timerVars
    <2> QED
      BY <2>1, <2>2, <2>3, TimedShaking
  <1>2. CASE s = Initiator /\ HandleServerHello
    <2>1. CASE expected
      <3>1. phase[s] # "Closed"
        BY <1>2 DEF HandleServerHello, Receives, AcceptingPhases
      <3>2. "AwaitingSecureAcknowledgement" \in HandshakePhases
        BY DEF HandshakePhases
      <3>3. /\ phase' = [phase EXCEPT ![s] = "AwaitingSecureAcknowledgement"]
            /\ UNCHANGED <<handshakeTimer, keepAlive>>
        BY <1>2, <2>1 DEF HandleServerHello, timerVars
      <3> QED
        BY <3>1, <3>2, <3>3, TimedShaking
    <2>2. CASE ~expected
      BY <1>2, <2>2, TimedClosed DEF HandleServerHello, Close
    <2> QED
      BY <2>1, <2>2
  <1>3. CASE s = Responder /\ HandleReady
    BY <1>3, TimedWatched DEF HandleReady, EnterConsentPhase, TypeOK
  <1>4. CASE s = Initiator /\ HandleReadyAcknowledged
    BY <1>4, TimedWatched DEF HandleReadyAcknowledged, EnterConsentPhase, TypeOK
  <1>5. CASE HandleConsentAccepted(s)
    <2>1. UNCHANGED handshakeTimer
      BY <1>5 DEF HandleConsentAccepted
    <2>2. CASE UNCHANGED <<phase, keepAlive>>
      BY <2>1, <2>2, TimedQuiet
    <2>3. CASE Establish(s)
      BY <2>1, <2>3, TimedWatched DEF Establish
    <2> QED
      BY <1>5, <2>2, <2>3 DEF HandleConsentAccepted
  <1>6. CASE HandleConsentDeclined(s) \/ HandleDisconnect(s)
               \/ HandleTransportClosed(s) \/ RejectMessage(s)
    BY <1>6, TimedClosed
       DEF HandleConsentDeclined, HandleDisconnect, HandleTransportClosed, RejectMessage, Close
  <1>7. CASE HandlePing(s) \/ HandlePong(s) \/ HandleReversalRequest(s)
               \/ HandleReversalDecision(s)
    BY <1>7, TimedQuiet
       DEF HandlePing, HandlePong, HandleReversalRequest, HandleReversalDecision, sessionVars
  <1>8. CASE HandleDiagnosticsRequest(s) \/ HandleDiagnosticsBatch(s) \/ HandleMediaSignal(s)
    BY <1>8, TimedQuiet
       DEF HandleDiagnosticsRequest, HandleDiagnosticsBatch, HandleMediaSignal, sessionVars
  <1> QED
    BY <1>1, <1>2, <1>3, <1>4, <1>5, <1>6, <1>7, <1>8 DEF Deliver

\* Timers, errors of the socket and calls of the two users.
LEMMA TimedLocal ==
  ASSUME TypeOK, EverySessionTimed, NEW s \in Sides, Timer(s) \/ User(s) \/ SocketError(s)
  PROVE  EverySessionTimed'
  <1>1. CASE HandshakeTimeout(s) \/ SocketError(s) \/ DeclinePairing(s) \/ Disconnect(s)
    BY <1>1, TimedClosed DEF HandshakeTimeout, SocketError, DeclinePairing, Disconnect, Close
  <1>2. CASE Dispose(s)
    BY <1>2, TimedClosed DEF Dispose
  <1>3. CASE KeepAliveTick(s)
    <2>1. CASE Overdue(s)
      BY <1>3, <2>1, TimedClosed DEF KeepAliveTick, Close
    <2>2. CASE ~Overdue(s)
      BY <1>3, <2>2, TimedQuiet DEF KeepAliveTick
    <2> QED
      BY <2>1, <2>2
  <1>4. CASE DiagnosticsTimeout(s) \/ AcceptPairing
    BY <1>4, TimedQuiet DEF DiagnosticsTimeout, AcceptPairing, sessionVars, timerVars
  <1>5. CASE \/ \E yes \in BOOLEAN : RespondToReversal(s, yes)
             \/ RequestReversal(s) \/ RequestDiagnostics(s) \/ SendMediaSignal(s)
    BY <1>5, TimedQuiet
       DEF RespondToReversal, RequestReversal, RequestDiagnostics, SendMediaSignal,
           sessionVars, timerVars
  <1> QED
    BY <1>1, <1>2, <1>3, <1>4, <1>5 DEF Timer, User

LEMMA TimedNext == TypeOK /\ EverySessionTimed /\ [Next]_vars => EverySessionTimed'
  <1> SUFFICES ASSUME TypeOK, EverySessionTimed, [Next]_vars PROVE EverySessionTimed'
    OBVIOUS
  <1>1. ASSUME NEW s \in Sides, Deliver(s) \/ Timer(s) \/ User(s) \/ SocketError(s)
        PROVE  EverySessionTimed'
    BY <1>1, TimedDeliver, TimedLocal
  <1>2. CASE FinishRemember
    <2>1. Responder \in Sides
      BY DEF Sides
    <2> QED
      BY <1>2, <2>1, TimedWatched DEF FinishRemember, Establish
  <1>3. CASE FailRemember \/ EndTrust \/ LoseLink
    BY <1>3, TimedQuiet DEF FailRemember, EndTrust, LoseLink, sessionVars, timerVars
  <1>4. CASE UNCHANGED vars
    BY <1>4, TimedQuiet DEF vars, sessionVars, timerVars
  <1> QED
    BY <1>1, <1>2, <1>3, <1>4 DEF Next

\* Whatever the peer and the network do, a session that has not ended has a
\* timer that will end it, and one that has ended has none (clearTimers,
\* enterConsentPhase, tryEstablishConnection).
THEOREM EverySessionTimedHolds == Spec => []EverySessionTimed
  <1>1. Init => TypeOK /\ EverySessionTimed
    BY TypeInit, TimedInit
  <1>2. TypeOK /\ EverySessionTimed /\ [Next]_vars => (TypeOK /\ EverySessionTimed)'
    BY TypeNext, TimedNext
  <1> QED
    BY <1>1, <1>2, PTL DEF Spec

-----------------------------------------------------------------------------
(* How a connection reverses its direction                                 *)
(*                                                                         *)
(* A queue is looked at as the set of its messages of one kind, with the   *)
(* fact that there is at most one: a step takes the head of one queue and  *)
(* adds to the end of the other.                                           *)

\* The messages of kind k in q.
Of(q, k) == {m \in Elems(q) : m.kind = k}

\* There is at most one of them.
Once(q, k) == \A i, j \in Positions(q, k) : i = j

ReversalKinds == {"ReversalRequest", "ReversalDecision"}

-----------------------------------------------------------------------------
(* Queues                                                                  *)

\* The head comes before the rest.
LEMMA OfTail ==
  ASSUME NEW q \in Seq(Message), q # <<>>, NEW k
  PROVE  /\ Head(q).kind # k => Of(Tail(q), k) = Of(q, k)
         /\ Once(q, k) => Once(Tail(q), k)
         /\ Once(q, k) /\ Head(q).kind = k => Of(q, k) = {Head(q)} /\ Of(Tail(q), k) = {}
  <1>1. /\ Len(q) \in Nat /\ Len(q) >= 1 /\ Head(q) = q[1]
        /\ Len(Tail(q)) = Len(q) - 1
        /\ \A i \in 1 .. Len(q) - 1 : Tail(q)[i] = q[i + 1]
    BY EmptySeq, LenProperties, HeadTailProperties
  <1>2. \A i \in 1 .. Len(q) : i = 1 \/ (i - 1 \in 1 .. Len(q) - 1 /\ q[i] = Tail(q)[i - 1])
    BY <1>1
  <1>3. Elems(q) = {Head(q)} \cup Elems(Tail(q))
    <2>1. Elems(q) \subseteq {Head(q)} \cup Elems(Tail(q))
      BY <1>1, <1>2 DEF Elems
    <2>2. Head(q) \in Elems(q) /\ Elems(Tail(q)) \subseteq Elems(q)
      BY ElemsTail
    <2> QED
      BY <2>1, <2>2
  <1>4. Head(q).kind # k => Of(Tail(q), k) = Of(q, k)
    BY <1>3 DEF Of
  <1>5. ASSUME Once(q, k), NEW i \in Positions(Tail(q), k), NEW j \in Positions(Tail(q), k)
        PROVE  i = j
    <2>1. i + 1 \in Positions(q, k) /\ j + 1 \in Positions(q, k) /\ i \in Nat /\ j \in Nat
      BY <1>1, <1>5 DEF Positions
    <2>2. i + 1 = j + 1
      BY <1>5, <2>1 DEF Once
    <2> QED
      BY <2>1, <2>2
  <1>6. ASSUME Once(q, k), Head(q).kind = k
        PROVE  Of(q, k) = {Head(q)} /\ Of(Tail(q), k) = {}
    <2>1. 1 \in Positions(q, k)
      BY <1>1, <1>6 DEF Positions
    <2>2. ASSUME NEW i \in 1 .. Len(Tail(q)), Tail(q)[i].kind = k PROVE FALSE
      <3>1. i + 1 \in Positions(q, k) /\ i + 1 # 1
        BY <1>1, <2>2 DEF Positions
      <3> QED
        BY <1>6, <2>1, <3>1 DEF Once
    <2>3. Of(Tail(q), k) = {}
      BY <2>2 DEF Of, Elems
    <2> QED
      BY <1>3, <1>6, <2>3 DEF Of
  <1> QED
    BY <1>4, <1>5, <1>6 DEF Once

\* What is written comes behind.
LEMMA OfConcat ==
  ASSUME NEW q \in Seq(Message), NEW r \in Seq(Message), NEW k
  PROVE  /\ Of(r, k) = {} => Of(q \o r, k) = Of(q, k)
         /\ Of(r, k) = {} /\ Once(q, k) => Once(q \o r, k)
         /\ Of(q, k) = {} => Of(q \o r, k) = Of(r, k)
         /\ Of(q, k) = {} /\ Len(r) = 1 => Once(q \o r, k)
  <1>1. /\ q \o r \in Seq(Message) /\ Len(q \o r) = Len(q) + Len(r)
        /\ \A i \in 1 .. Len(q) + Len(r) :
             (q \o r)[i] = IF i <= Len(q) THEN q[i] ELSE r[i - Len(q)]
    BY ConcatProperties
  <1>2. Len(q) \in Nat /\ Len(r) \in Nat
    BY LenProperties
  <1>3. \A i \in 1 .. Len(q) + Len(r) :
          \/ i \in 1 .. Len(q) /\ (q \o r)[i] = q[i]
          \/ i - Len(q) \in 1 .. Len(r) /\ (q \o r)[i] = r[i - Len(q)]
    BY <1>1, <1>2
  <1>4. \A i \in 1 .. Len(q) : i \in 1 .. Len(q) + Len(r) /\ (q \o r)[i] = q[i]
    BY <1>1, <1>2
  <1>5. \A i \in 1 .. Len(r) : /\ i + Len(q) \in 1 .. Len(q) + Len(r)
                               /\ (q \o r)[i + Len(q)] = r[i]
    BY <1>1, <1>2
  <1>6. Elems(q \o r) = Elems(q) \cup Elems(r)
    <2>1. Elems(q \o r) \subseteq Elems(q) \cup Elems(r)
      BY ElemsConcat
    <2>2. Elems(q) \subseteq Elems(q \o r)
      BY <1>1, <1>4 DEF Elems
    <2>3. Elems(r) \subseteq Elems(q \o r)
      BY <1>1, <1>5 DEF Elems
    <2> QED
      BY <2>1, <2>2, <2>3
  <1>7. Of(q \o r, k) = Of(q, k) \cup Of(r, k)
    BY <1>6 DEF Of
  <1>8. ASSUME Of(r, k) = {} PROVE Positions(q \o r, k) \subseteq Positions(q, k)
    <2>1. \A i \in 1 .. Len(r) : r[i].kind # k
      BY <1>8 DEF Of, Elems
    <2> QED
      BY <1>1, <1>3, <2>1 DEF Positions
  <1>9. ASSUME Of(q, k) = {}, Len(r) = 1 PROVE Positions(q \o r, k) \subseteq {Len(q) + 1}
    <2>1. \A i \in 1 .. Len(q) : q[i].kind # k
      BY <1>9 DEF Of, Elems
    <2>2. \A i \in 1 .. Len(q) + 1 : i \in 1 .. Len(q) \/ i = Len(q) + 1
      BY <1>2
    <2> QED
      BY <1>1, <1>4, <1>9, <2>1, <2>2 DEF Positions
  <1> QED
    BY <1>7, <1>8, <1>9 DEF Once

\* With at most one, counting is asking whether there is one.
LEMMA OnceCounts ==
  ASSUME NEW q \in Seq(Message), NEW k, Once(q, k)
  PROVE  Cardinality(Positions(q, k)) = IF Of(q, k) = {} THEN 0 ELSE 1
  <1>1. CASE Of(q, k) = {}
    <2>1. Positions(q, k) = {}
      BY <1>1 DEF Positions, Of, Elems
    <2> QED
      BY <1>1, <2>1, FS_EmptySet
  <1>2. CASE Of(q, k) # {}
    <2>1. PICK i : i \in Positions(q, k)
      BY <1>2 DEF Positions, Of, Elems
    <2>2. Positions(q, k) = {i}
      BY <2>1 DEF Once
    <2> QED
      BY <1>2, <2>2, FS_Singleton
  <1> QED
    BY <1>1, <1>2

-----------------------------------------------------------------------------
(* The transport between two open ends                                     *)

Both == \A s \in Sides : open[s]

LEMMA TwoSides ==
  ASSUME NEW s \in Sides
  PROVE  /\ Peer(s) \in Sides /\ Peer(s) # s /\ Peer(Peer(s)) = s
         /\ \A x \in Sides : x = s \/ x = Peer(s)
  BY PeerSides DEF Sides, Peer

\* A step neither adds to nor takes from the reversals on their way.
SameReversals ==
  \A p \in Sides, k \in ReversalKinds :
    /\ Of(chan'[p], k) = Of(chan[p], k)
    /\ Once(chan[p], k) => Once(chan'[p], k)

\* r says nothing of reversals.
Silent(r) == r \in Seq(Message) /\ \A k \in ReversalKinds : Of(r, k) = {}

LEMMA OneMessage ==
  ASSUME NEW m \in Message
  PROVE  /\ <<m>> \in Seq(Message) /\ Len(<<m>>) = 1
         /\ \A k : Of(<<m>>, k) = IF m.kind = k THEN {m} ELSE {}
  <1>1. <<m>> \in Seq(Message) /\ Len(<<m>>) = 1 /\ <<m>>[1] = m
    OBVIOUS
  <1>2. Elems(<<m>>) = {m}
    BY <1>1 DEF Elems
  <1> QED
    BY <1>1, <1>2 DEF Of

LEMMA SilentWrites ==
  /\ Silent(<<>>)
  /\ \A k \in PlainKinds : Silent(<<Plain(k)>>)
  /\ \A b \in BOOLEAN : Silent(<<Consent(b)>>)
  /\ Silent(ReadyAnswer)
  /\ \A i \in Nat : Silent(<<DiagnosticsRequest(i)>>) /\ Silent(<<DiagnosticsBatch(i)>>)
  /\ \A p \in Sides, k \in PlainKinds : Silent(HealthCheck(p, k))
  <1>1. Silent(<<>>)
    BY DEF Silent, Of, Elems
  <1>2. ASSUME NEW m \in Message, m.kind \notin ReversalKinds PROVE Silent(<<m>>)
    BY <1>2, OneMessage DEF Silent
  <1>3. \A k \in PlainKinds : Plain(k) \in Message /\ Plain(k).kind \notin ReversalKinds
    BY DEF Plain, Message, PlainKinds, ReversalKinds
  <1>4. \A b \in BOOLEAN : Consent(b) \in Message /\ Consent(b).kind \notin ReversalKinds
    BY DEF Consent, Message, ReversalKinds
  <1>5. \A i \in Nat :
          /\ DiagnosticsRequest(i) \in Message /\ DiagnosticsRequest(i).kind \notin ReversalKinds
          /\ DiagnosticsBatch(i) \in Message /\ DiagnosticsBatch(i).kind \notin ReversalKinds
    BY DEF DiagnosticsRequest, DiagnosticsBatch, Message, ReversalKinds
  <1>6. Silent(ReadyAnswer)
    <2> DEFINE a == Plain("ReadyAcknowledged")
               b == Consent(TRUE)
    <2>1. a \in Message /\ b \in Message
      BY <1>3, <1>4 DEF PlainKinds
    <2>2. a.kind \notin ReversalKinds /\ b.kind \notin ReversalKinds
      BY <1>3, <1>4 DEF PlainKinds
    <2>3. Silent(<<a>>)
      BY <1>2, <2>1, <2>2
    <2>4. Silent(<<a, b>>)
      <3> HIDE DEF a, b
      <3>1. /\ <<a, b>> \in Seq(Message) /\ Len(<<a, b>>) = 2
            /\ <<a, b>>[1] = a /\ <<a, b>>[2] = b
        BY <2>1
      <3>2. Elems(<<a, b>>) \subseteq {a, b}
        BY <3>1 DEF Elems
      <3> QED
        BY <2>2, <3>1, <3>2 DEF Silent, Of
    <2> QED
      BY <2>3, <2>4 DEF ReadyAnswer
  <1>7. \A p \in Sides, k \in PlainKinds : Silent(HealthCheck(p, k))
    BY <1>1, <1>2, <1>3 DEF HealthCheck
  <1> QED
    BY <1>1, <1>2, <1>3, <1>4, <1>5, <1>6, <1>7

LEMMA SilentConcat ==
  ASSUME NEW q \in Seq(Message), NEW r, Silent(r), NEW k \in ReversalKinds
  PROVE  Of(q \o r, k) = Of(q, k) /\ (Once(q, k) => Once(q \o r, k))
  <1>1. r \in Seq(Message) /\ Of(r, k) = {}
    BY DEF Silent
  <1> QED
    BY <1>1, OfConcat

\* What s writes comes behind what was on its way to its peer.
LEMMA WriteReversals ==
  ASSUME TypeOK, Both, NEW s \in Sides, NEW r \in Seq(Message), Write(s, r)
  PROVE  chan'[s] = chan[s] /\ chan'[Peer(s)] = chan[Peer(s)] \o r
  BY TwoSides DEF Write, InFlight, Both, TypeOK

LEMMA AnswerReversals ==
  ASSUME TypeOK, Both, NEW s \in Sides, NEW r \in Seq(Message), Answer(s, r)
  PROVE  chan'[s] = Tail(chan[s]) /\ chan'[Peer(s)] = chan[Peer(s)] \o r
  BY TwoSides DEF Answer, InFlight, Both, TypeOK

LEMMA SilentWrite ==
  ASSUME TypeOK, Both, NEW s \in Sides, NEW r, Silent(r), Write(s, r)
  PROVE  SameReversals
  <1>1. r \in Seq(Message) /\ \A p \in Sides : chan[p] \in Seq(Message)
    BY DEF Silent, TypeOK
  <1>2. chan'[s] = chan[s] /\ chan'[Peer(s)] = chan[Peer(s)] \o r
    BY <1>1, WriteReversals
  <1>3. \A k \in ReversalKinds :
          /\ Of(chan'[Peer(s)], k) = Of(chan[Peer(s)], k)
          /\ Once(chan[Peer(s)], k) => Once(chan'[Peer(s)], k)
    BY <1>1, <1>2, SilentConcat, TwoSides
  <1> QED
    BY <1>2, <1>3, TwoSides DEF SameReversals

LEMMA SilentAnswer ==
  ASSUME TypeOK, Both, NEW s \in Sides, NEW r, Silent(r), Answer(s, r),
         chan[s] # <<>>, Head(chan[s]).kind \notin ReversalKinds
  PROVE  SameReversals
  <1>1. r \in Seq(Message) /\ \A p \in Sides : chan[p] \in Seq(Message)
    BY DEF Silent, TypeOK
  <1>2. chan'[s] = Tail(chan[s]) /\ chan'[Peer(s)] = chan[Peer(s)] \o r
    BY <1>1, AnswerReversals
  <1>3. \A k \in ReversalKinds :
          /\ Of(chan'[Peer(s)], k) = Of(chan[Peer(s)], k)
          /\ Once(chan[Peer(s)], k) => Once(chan'[Peer(s)], k)
    BY <1>1, <1>2, SilentConcat, TwoSides
  <1>4. \A k \in ReversalKinds :
          Of(chan'[s], k) = Of(chan[s], k) /\ (Once(chan[s], k) => Once(chan'[s], k))
    BY <1>1, <1>2, OfTail
  <1> QED
    BY <1>3, <1>4, TwoSides DEF SameReversals

\* One message written to a queue, of a kind that is in it or not.
Adds(p, m) ==
  \A k : /\ m.kind # k => /\ Of(chan'[p], k) = Of(chan[p], k)
                          /\ Once(chan[p], k) => Once(chan'[p], k)
         /\ m.kind = k /\ Of(chan[p], k) = {} =>
              Of(chan'[p], k) = {m} /\ Once(chan'[p], k)

\* The head read from a queue, of a kind that is in it once or another.
Takes(s, m) ==
  \A k : /\ m.kind # k => Of(chan'[s], k) = Of(chan[s], k)
         /\ Once(chan[s], k) => Once(chan'[s], k)
         /\ m.kind = k /\ Once(chan[s], k) => Of(chan[s], k) = {m} /\ Of(chan'[s], k) = {}

LEMMA AddsOne ==
  ASSUME TypeOK, NEW p \in Sides, NEW m \in Message, chan'[p] = chan[p] \o <<m>>
  PROVE  Adds(p, m)
  <1>1. PICK r : r = <<m>>
    OBVIOUS
  <1>2. /\ r \in Seq(Message) /\ Len(r) = 1
        /\ \A k : Of(r, k) = IF m.kind = k THEN {m} ELSE {}
    BY <1>1, OneMessage
  <1>3. chan[p] \in Seq(Message) /\ chan'[p] = chan[p] \o r
    BY <1>1 DEF TypeOK
  <1>4. ASSUME NEW k, m.kind # k
        PROVE  /\ Of(chan'[p], k) = Of(chan[p], k)
               /\ Once(chan[p], k) => Once(chan'[p], k)
    <2>1. Of(r, k) = {}
      BY <1>2, <1>4
    <2> QED
      BY <1>2, <1>3, <2>1, OfConcat
  <1>5. ASSUME NEW k, m.kind = k, Of(chan[p], k) = {}
        PROVE  Of(chan'[p], k) = {m} /\ Once(chan'[p], k)
    <2>1. Of(r, k) = {m}
      BY <1>2, <1>5
    <2>2. Of(chan'[p], k) = Of(r, k) /\ Once(chan'[p], k)
      BY <1>2, <1>3, <1>5, OfConcat
    <2> QED
      BY <2>1, <2>2
  <1> QED
    BY <1>4, <1>5 DEF Adds

LEMMA TakesHead ==
  ASSUME TypeOK, NEW s \in Sides, chan[s] # <<>>, chan'[s] = Tail(chan[s])
  PROVE  Takes(s, Head(chan[s]))
  <1> DEFINE q == chan[s]
             h == Head(q)
  <1>1. q \in Seq(Message) /\ q # <<>>
    BY DEF TypeOK
  <1> HIDE DEF q
  <1>2. ASSUME NEW k
        PROVE  /\ h.kind # k => Of(Tail(q), k) = Of(q, k)
               /\ Once(q, k) => Once(Tail(q), k)
               /\ h.kind = k /\ Once(q, k) => Of(q, k) = {h} /\ Of(Tail(q), k) = {}
    BY <1>1, OfTail
  <1>3. q = chan[s] /\ Tail(q) = chan'[s]
    BY DEF q
  <1> HIDE DEF h
  <1>4. Takes(s, h)
    BY <1>2, <1>3 DEF Takes
  <1> QED
    BY <1>4 DEF h, q

LEMMA WriteOne ==
  ASSUME TypeOK, Both, NEW s \in Sides, NEW m \in Message, Write(s, <<m>>)
  PROVE  chan'[s] = chan[s] /\ Adds(Peer(s), m)
  <1>1. <<m>> \in Seq(Message)
    OBVIOUS
  <1>2. chan'[s] = chan[s] /\ chan'[Peer(s)] = chan[Peer(s)] \o <<m>>
    BY <1>1, WriteReversals
  <1> QED
    BY <1>2, AddsOne, TwoSides

LEMMA AnswerOne ==
  ASSUME TypeOK, Both, NEW s \in Sides, NEW m \in Message, Answer(s, <<m>>), chan[s] # <<>>
  PROVE  Takes(s, Head(chan[s])) /\ Adds(Peer(s), m)
  <1>1. <<m>> \in Seq(Message)
    OBVIOUS
  <1>2. chan'[s] = Tail(chan[s]) /\ chan'[Peer(s)] = chan[Peer(s)] \o <<m>>
    BY <1>1, AnswerReversals
  <1>3. Takes(s, Head(chan[s]))
    BY <1>2, TakesHead
  <1>4. Adds(Peer(s), m)
    BY <1>2, AddsOne, TwoSides
  <1> QED
    BY <1>3, <1>4

LEMMA AnswerNone ==
  ASSUME TypeOK, Both, NEW s \in Sides, Answer(s, <<>>), chan[s] # <<>>
  PROVE  /\ Takes(s, Head(chan[s]))
         /\ \A k \in ReversalKinds :
              /\ Of(chan'[Peer(s)], k) = Of(chan[Peer(s)], k)
              /\ Once(chan[Peer(s)], k) => Once(chan'[Peer(s)], k)
  <1>1. Silent(<<>>) /\ <<>> \in Seq(Message)
    BY SilentWrites
  <1>2. chan'[s] = Tail(chan[s]) /\ chan'[Peer(s)] = chan[Peer(s)] \o <<>>
    BY <1>1, AnswerReversals
  <1>3. chan[s] \in Seq(Message) /\ chan[Peer(s)] \in Seq(Message)
    BY TwoSides DEF TypeOK
  <1>4. Takes(s, Head(chan[s]))
    BY <1>2, TakesHead
  <1> QED
    BY <1>1, <1>2, <1>3, <1>4, SilentConcat

-----------------------------------------------------------------------------
(* The invariants                                                          *)

\* What the events of a connection's beginning leave alone afterwards: a
\* closed session has no transport, and a responder that asks for the code or
\* stores the trust is not yet connected.
EntryInv ==
  /\ \A s \in Sides : phase[s] = "Closed" => ~open[s]
  /\ open[Responder] /\ (remember = "Writing" \/ prompt[Responder] = "EnterVerificationCode") =>
       phase[Responder] = "AwaitingConsent" /\ ~paired

Requests(s) == Of(chan[Peer(s)], "ReversalRequest")
Answers(s) == Of(chan[s], "ReversalDecision")

\* The one place of a pending request of s, and its identifier there.
TokenOf(s) ==
  /\ (prompt[s] = "Reversal") <=> (incoming[s] # 0)
  /\ prompt[s] = "Reversal" \/ outgoing[s] # 0 => phase[s] = "Connected"
  /\ incoming[Peer(s)] \in {0, outgoing[s]}
  /\ Once(chan[Peer(s)], "ReversalRequest") /\ Once(chan[s], "ReversalDecision")
  /\ \A m \in Requests(s) \cup Answers(s) : m.id = outgoing[s]
  /\ outgoing[s] = 0 => Requests(s) = {} /\ Answers(s) = {}
  /\ outgoing[s] # 0 =>
       \/ Requests(s) # {} /\ Answers(s) = {} /\ incoming[Peer(s)] = 0
       \/ Requests(s) = {} /\ Answers(s) = {} /\ incoming[Peer(s)] # 0
       \/ Requests(s) = {} /\ Answers(s) # {} /\ incoming[Peer(s)] = 0

TokenInv == Both => \A s \in Sides : TokenOf(s)

\* A reversal was accepted that the side that asked has yet to hear of.
Flip(q) == \E m \in Of(q, "ReversalDecision") : m.accepted

\* Why roles are opposite: the side that is connected first keeps its initial
\* role until the other one is, and after that each acceptance and each
\* answer to it changes one role and one queue.
RoleInv == Both =>
  /\ \A s \in Sides :
       /\ phase[s] = "Connected" => role[s] \in {"Viewer", "Sharer"}
       /\ phase[s] # "Connected" =>
            /\ ~Flip(chan[Peer(s)])
            /\ phase[Peer(s)] = "Connected" => role[Peer(s)] = InitialRole(Peer(s))
  /\ (\A s \in Sides : phase[s] = "Connected") =>
       ((role[Initiator] = role[Responder])
          <=> ~(Flip(chan[Initiator]) <=> Flip(chan[Responder])))

ReversalInv == TypeOK /\ EntryInv /\ TokenInv /\ RoleInv

LEMMA ReversalInit == Init => EntryInv /\ TokenInv /\ RoleInv
  <1> SUFFICES ASSUME Init PROVE EntryInv /\ TokenInv /\ RoleInv
    OBVIOUS
  <1>1. \A s \in Sides : Elems(chan[s]) \subseteq {Plain("ClientHello")}
    BY DEF Init, Elems
  <1>2. \A s \in Sides, k \in ReversalKinds : Of(chan[s], k) = {}
    BY <1>1 DEF Of, Plain, ReversalKinds
  <1>3. \A s \in Sides, k \in ReversalKinds : Once(chan[s], k)
    BY <1>2 DEF Once, Positions, Of, Elems
  <1>4. /\ \A s \in Sides : /\ phase[s] \notin {"Connected", "Closed"} /\ prompt[s] = "None"
                            /\ outgoing[s] = 0 /\ incoming[s] = 0
        /\ remember = "Idle"
    BY DEF Init
  <1>5. EntryInv
    BY <1>4 DEF EntryInv, Sides
  <1>6. ASSUME NEW s \in Sides PROVE TokenOf(s)
    BY <1>2, <1>3, <1>4, TwoSides DEF TokenOf, Requests, Answers, ReversalKinds
  <1>7. RoleInv
    <2>1. \A s \in Sides : Peer(s) \in Sides /\ ~Flip(chan[s]) /\ phase[s] # "Connected"
      BY <1>2, <1>4, TwoSides DEF Flip, ReversalKinds
    <2>2. Initiator \in Sides
      BY DEF Sides
    <2> QED
      BY <2>1, <2>2 DEF RoleInv
  <1> QED
    BY <1>5, <1>6, <1>7 DEF TokenInv

-----------------------------------------------------------------------------
(* Steps that leave the reversals alone                                    *)

LEMMA TokenQuiet ==
  ASSUME TypeOK, TokenInv, UNCHANGED <<open, outgoing, incoming>>, Both => SameReversals,
         \A s \in Sides : (prompt'[s] = "Reversal") <=> (prompt[s] = "Reversal"),
         \A s \in Sides : phase[s] = "Connected" => phase'[s] = "Connected"
  PROVE  TokenInv'
  <1> SUFFICES ASSUME Both, NEW s \in Sides PROVE TokenOf(s)'
    BY DEF TokenInv, Both
  <1>1. TokenOf(s)
    BY DEF TokenInv
  <1>2. Peer(s) \in Sides /\ {"ReversalRequest", "ReversalDecision"} \subseteq ReversalKinds
    BY TwoSides DEF ReversalKinds
  <1>3. Once(chan'[Peer(s)], "ReversalRequest") /\ Once(chan'[s], "ReversalDecision")
    BY <1>1, <1>2 DEF TokenOf, SameReversals
  <1>4. /\ Of(chan'[Peer(s)], "ReversalRequest") = Of(chan[Peer(s)], "ReversalRequest")
        /\ Of(chan'[s], "ReversalDecision") = Of(chan[s], "ReversalDecision")
    BY <1>2 DEF SameReversals
  <1>5. \A p \in Sides : incoming'[p] = incoming[p] /\ outgoing'[p] = outgoing[p]
    OBVIOUS
  <1>6. (prompt'[s] = "Reversal") <=> (incoming'[s] # 0)
    BY <1>1, <1>5 DEF TokenOf
  <1>7. prompt'[s] = "Reversal" \/ outgoing'[s] # 0 => phase'[s] = "Connected"
    BY <1>1, <1>5 DEF TokenOf
  <1> QED
    BY <1>1, <1>2, <1>3, <1>4, <1>5, <1>6, <1>7 DEF TokenOf, Requests, Answers

LEMMA RoleKept ==
  ASSUME RoleInv, UNCHANGED <<open, intent, role>>,
         Both => \A p \in Sides : Flip(chan'[p]) <=> Flip(chan[p]),
         \A s \in Sides : (phase'[s] = "Connected") <=> (phase[s] = "Connected")
  PROVE  RoleInv'
  <1> SUFFICES ASSUME Both PROVE RoleInv'
    BY DEF RoleInv, Both
  <1>1. \A p \in Sides : InitialRole(p)' = InitialRole(p)
    BY DEF InitialRole
  <1>2. Initiator \in Sides /\ Responder \in Sides
    BY DEF Sides
  <1>3. \A p \in Sides : Peer(p) \in Sides
    BY TwoSides
  <1> QED
    BY <1>1, <1>2, <1>3 DEF RoleInv, Both

LEMMA RoleQuiet ==
  ASSUME RoleInv, UNCHANGED <<open, intent, role>>,
         Both => \A p \in Sides : Answers(p)' = Answers(p),
         \A s \in Sides : (phase'[s] = "Connected") <=> (phase[s] = "Connected")
  PROVE  RoleInv'
  <1>1. Both => \A p \in Sides : Flip(chan'[p]) <=> Flip(chan[p])
    BY DEF Answers, Flip
  <1> QED
    BY <1>1, RoleKept

LEMMA Quiet ==
  ASSUME TypeOK, TokenInv, RoleInv,
         UNCHANGED <<open, outgoing, incoming, intent, role>>, Both => SameReversals,
         \A s \in Sides : (prompt'[s] = "Reversal") <=> (prompt[s] = "Reversal"),
         \A s \in Sides : (phase'[s] = "Connected") <=> (phase[s] = "Connected")
  PROVE  TokenInv' /\ RoleInv'
  <1>1. TokenInv'
    BY TokenQuiet
  <1>2. Both => \A p \in Sides : Answers(p)' = Answers(p)
    BY DEF SameReversals, Answers, ReversalKinds
  <1>3. \A s \in Sides : (phase'[s] = "Connected") <=> (phase[s] = "Connected")
    OBVIOUS
  <1>4. UNCHANGED <<open, intent, role>>
    OBVIOUS
  <1>5. RoleInv'
    BY <1>2, <1>3, <1>4, RoleQuiet
  <1> QED
    BY <1>1, <1>5

\* The end of a session is the end of what these invariants say.
LEMMA Ends ==
  ASSUME TypeOK, EntryInv, NEW s \in Sides, phase' = [phase EXCEPT ![s] = "Closed"],
         IF open[s] THEN open' = [open EXCEPT ![s] = FALSE] ELSE UNCHANGED open,
         UNCHANGED <<remember, paired>>,
         \A p \in Sides : p # s => prompt'[p] = prompt[p]
  PROVE  EntryInv' /\ TokenInv' /\ RoleInv'
  <1>1. ~open'[s] /\ \A p \in Sides : p # s => open'[p] = open[p] /\ phase'[p] = phase[p]
    BY DEF TypeOK
  <1>2. ~Both'
    BY <1>1 DEF Both
  <1>3. Responder \in Sides
    BY DEF Sides
  <1>4. EntryInv'
    BY <1>1, <1>3 DEF EntryInv
  <1> QED
    BY <1>2, <1>4 DEF TokenInv, RoleInv

-----------------------------------------------------------------------------
(* Steps of a reversal                                                     *)

\* requestReversal: a side that has nothing pending sends its request.
LEMMA Asks ==
  ASSUME TypeOK, TokenInv, RoleInv, NEW s \in Sides, RequestReversal(s)
  PROVE  TokenInv' /\ RoleInv'
  <1> DEFINE n == requested[s].reversals + 1
             m == ReversalRequest(n)
  <1>1. n \in Nat \ {0} /\ m \in Message /\ m.kind = "ReversalRequest" /\ m.id = n
    BY DEF TypeOK, ReversalRequest, Message
  <1>2. /\ outgoing' = [outgoing EXCEPT ![s] = n] /\ Write(s, <<m>>)
        /\ outgoing[s] = 0 /\ phase[s] = "Connected"
        /\ UNCHANGED <<open, incoming, intent, role, phase, prompt>>
    BY DEF RequestReversal, sessionVars
  <1> HIDE DEF n, m
  <1>3. CASE ~Both
    BY <1>2, <1>3 DEF Both, TokenInv, RoleInv
  <1>4. CASE Both
    <2>1. chan'[s] = chan[s] /\ Adds(Peer(s), m)
      BY <1>1, <1>2, <1>4, WriteOne
    <2>2. /\ Peer(s) \in Sides /\ Peer(s) # s /\ Peer(Peer(s)) = s
          /\ TokenOf(s) /\ TokenOf(Peer(s))
      BY <1>4, TwoSides DEF TokenInv
    <2>3. outgoing'[s] = n /\ outgoing'[Peer(s)] = outgoing[Peer(s)]
      BY <1>2, <2>2 DEF TypeOK
    <2>4. /\ Of(chan'[Peer(s)], "ReversalRequest") = {m}
          /\ Once(chan'[Peer(s)], "ReversalRequest")
      BY <1>1, <1>2, <2>1, <2>2 DEF Adds, TokenOf, Requests
    <2>5. /\ Of(chan'[Peer(s)], "ReversalDecision") = Of(chan[Peer(s)], "ReversalDecision")
          /\ Once(chan'[Peer(s)], "ReversalDecision")
      BY <1>1, <2>1, <2>2 DEF Adds, TokenOf
    <2>6. TokenOf(s)'
      BY <1>1, <1>2, <2>1, <2>2, <2>3, <2>4 DEF TokenOf, Requests, Answers
    <2>7. TokenOf(Peer(s))'
      BY <1>2, <2>1, <2>2, <2>3, <2>5 DEF TokenOf, Requests, Answers
    <2>8. TokenInv'
      BY <2>6, <2>7, TwoSides DEF TokenInv
    <2>9. \A p \in Sides : Answers(p)' = Answers(p)
      BY <2>1, <2>5, TwoSides DEF Answers
    <2> QED
      BY <1>2, <2>8, <2>9, RoleQuiet
  <1> QED
    BY <1>3, <1>4

\* handleReversalRequest: the request goes on to the user, or is declined at once.
LEMMA IsAsked ==
  ASSUME TypeOK, TokenInv, RoleInv, NEW s \in Sides, HandleReversalRequest(s)
  PROVE  TokenInv' /\ RoleInv'
  <1> DEFINE h == Head(chan[s])
             d == ReversalDecision(h.id, FALSE)
  <1>1. /\ chan[s] # <<>> /\ h.kind = "ReversalRequest"
        /\ UNCHANGED <<open, outgoing, intent, role, phase>>
    BY DEF HandleReversalRequest, Receives
  <1>2. CASE ~Both
    BY <1>1, <1>2 DEF Both, TokenInv, RoleInv
  <1>3. CASE Both
    <2>1. /\ Peer(s) \in Sides /\ Peer(s) # s /\ Peer(Peer(s)) = s
          /\ TokenOf(s) /\ TokenOf(Peer(s))
      BY <1>3, TwoSides DEF TokenInv
    <2>2. h \in Message /\ h \in Of(chan[s], "ReversalRequest")
      BY <1>1, HeadIsCarried DEF Of
    <2>3. /\ Once(chan[s], "ReversalRequest") /\ Once(chan[s], "ReversalDecision")
          /\ Once(chan[Peer(s)], "ReversalRequest") /\ Once(chan[Peer(s)], "ReversalDecision")
      BY <2>1 DEF TokenOf
    <2>4. /\ h.id = outgoing[Peer(s)] /\ outgoing[Peer(s)] # 0 /\ incoming[s] = 0
          /\ Of(chan[Peer(s)], "ReversalDecision") = {}
      BY <2>1, <2>2 DEF TokenOf, Requests, Answers
    <2>5. h.id \in Nat
      BY <1>1, <2>2, MessageFields
    <2>6. d \in Message /\ d.kind = "ReversalDecision" /\ d.id = h.id /\ d.accepted = FALSE
      BY <2>5 DEF ReversalDecision, Message
    <2> HIDE DEF h, d
    <2>7. CASE MayAsk(s)
      <3>1. /\ incoming' = [incoming EXCEPT ![s] = h.id]
            /\ prompt' = [prompt EXCEPT ![s] = "Reversal"]
            /\ Answer(s, <<>>) /\ phase[s] = "Connected"
        BY <2>7 DEF HandleReversalRequest, MayAsk, h
      <3>2. /\ Takes(s, h)
            /\ Of(chan'[Peer(s)], "ReversalRequest") = Of(chan[Peer(s)], "ReversalRequest")
            /\ Of(chan'[Peer(s)], "ReversalDecision") = Of(chan[Peer(s)], "ReversalDecision")
            /\ Once(chan'[Peer(s)], "ReversalRequest") /\ Once(chan'[Peer(s)], "ReversalDecision")
        BY <1>1, <1>3, <2>3, <3>1, AnswerNone DEF ReversalKinds, h
      <3>3. /\ Of(chan'[s], "ReversalRequest") = {}
            /\ Of(chan'[s], "ReversalDecision") = Of(chan[s], "ReversalDecision")
            /\ Once(chan'[s], "ReversalRequest") /\ Once(chan'[s], "ReversalDecision")
        BY <1>1, <2>3, <3>2 DEF Takes
      <3>4. /\ incoming'[s] = h.id /\ incoming'[Peer(s)] = incoming[Peer(s)]
            /\ prompt'[s] = "Reversal" /\ prompt'[Peer(s)] = prompt[Peer(s)]
        BY <2>1, <3>1 DEF TypeOK
      <3>5. TokenOf(s)'
        BY <1>1, <2>1, <2>4, <3>1, <3>2, <3>3, <3>4 DEF TokenOf, Requests, Answers
      <3>6. TokenOf(Peer(s))'
        BY <1>1, <2>1, <2>4, <3>2, <3>3, <3>4 DEF TokenOf, Requests, Answers
      <3>7. TokenInv'
        BY <3>5, <3>6, TwoSides DEF TokenInv
      <3>8. \A p \in Sides : Answers(p)' = Answers(p)
        BY <3>2, <3>3, TwoSides DEF Answers
      <3> QED
        BY <1>1, <3>7, <3>8, RoleQuiet
    <2>8. CASE ~MayAsk(s)
      <3>1. Answer(s, <<d>>) /\ UNCHANGED <<incoming, prompt>>
        BY <2>8 DEF HandleReversalRequest, h, d
      <3>2. Takes(s, h) /\ Adds(Peer(s), d)
        BY <1>1, <1>3, <2>6, <3>1, AnswerOne DEF h
      <3>3. /\ Of(chan'[s], "ReversalRequest") = {}
            /\ Of(chan'[s], "ReversalDecision") = Of(chan[s], "ReversalDecision")
            /\ Once(chan'[s], "ReversalRequest") /\ Once(chan'[s], "ReversalDecision")
        BY <1>1, <2>3, <3>2 DEF Takes
      <3>4. /\ Of(chan'[Peer(s)], "ReversalRequest") = Of(chan[Peer(s)], "ReversalRequest")
            /\ Of(chan'[Peer(s)], "ReversalDecision") = {d}
            /\ Once(chan'[Peer(s)], "ReversalRequest") /\ Once(chan'[Peer(s)], "ReversalDecision")
        BY <2>3, <2>4, <2>6, <3>2 DEF Adds
      <3>5. TokenOf(s)'
        BY <1>1, <2>1, <3>1, <3>3, <3>4 DEF TokenOf, Requests, Answers
      <3>6. TokenOf(Peer(s))'
        BY <1>1, <2>1, <2>4, <2>6, <3>1, <3>3, <3>4 DEF TokenOf, Requests, Answers
      <3>7. TokenInv'
        BY <3>5, <3>6, TwoSides DEF TokenInv
      <3>8. \A p \in Sides : Flip(chan'[p]) <=> Flip(chan[p])
        BY <2>4, <2>6, <3>3, <3>4, TwoSides DEF Flip
      <3> QED
        BY <1>1, <3>7, <3>8, RoleKept
    <2> QED
      BY <2>7, <2>8
  <1> QED
    BY <1>2, <1>3

\* Of two connected sides, whichever is called s.
LEMMA Opposed ==
  ASSUME Both, RoleInv, NEW s \in Sides, phase[s] = "Connected", phase[Peer(s)] = "Connected"
  PROVE  /\ role[s] \in {"Viewer", "Sharer"} /\ role[Peer(s)] \in {"Viewer", "Sharer"}
         /\ (role[s] = role[Peer(s)]) <=> ~(Flip(chan[s]) <=> Flip(chan[Peer(s)]))
  <1>1. Peer(s) \in Sides /\ \A p \in Sides : phase[p] = "Connected"
    BY TwoSides
  <1>2. (role[Initiator] = role[Responder])
          <=> ~(Flip(chan[Initiator]) <=> Flip(chan[Responder]))
    BY <1>1 DEF RoleInv
  <1>3. \/ s = Initiator /\ Peer(s) = Responder
        \/ s = Responder /\ Peer(s) = Initiator
    BY DEF Sides, Peer, Initiator, Responder
  <1> QED
    BY <1>1, <1>2, <1>3 DEF RoleInv

LEMMA StayOpposed ==
  ASSUME NEW s \in Sides, phase'[s] = "Connected", phase'[Peer(s)] = "Connected",
         role'[s] \in {"Viewer", "Sharer"}, role'[Peer(s)] \in {"Viewer", "Sharer"},
         (role'[s] = role'[Peer(s)]) <=> ~(Flip(chan'[s]) <=> Flip(chan'[Peer(s)]))
  PROVE  RoleInv'
  <1>1. \A p \in Sides : phase'[p] = "Connected" /\ role'[p] \in {"Viewer", "Sharer"}
    BY TwoSides
  <1>2. \/ s = Initiator /\ Peer(s) = Responder
        \/ s = Responder /\ Peer(s) = Initiator
    BY DEF Sides, Peer, Initiator, Responder
  <1>3. (role'[Initiator] = role'[Responder])
          <=> ~(Flip(chan'[Initiator]) <=> Flip(chan'[Responder]))
    BY <1>2
  <1> QED
    BY <1>1, <1>3 DEF RoleInv

LEMMA Opposite ==
  ASSUME NEW a \in {"Viewer", "Sharer"}, NEW b \in {"Viewer", "Sharer"}
  PROVE  /\ OppositeRole(a) \in {"Viewer", "Sharer"}
         /\ (OppositeRole(a) = b) <=> ~(a = b)
  BY DEF OppositeRole

\* respondToReversal: the side that accepts changes its role, and its answer is
\* on its way.
LEMMA Responds ==
  ASSUME TypeOK, TokenInv, RoleInv, NEW s \in Sides, NEW yes \in BOOLEAN,
         RespondToReversal(s, yes)
  PROVE  TokenInv' /\ RoleInv'
  <1> DEFINE i == incoming[s]
             d == ReversalDecision(i, yes)
  <1>1. /\ prompt[s] = "Reversal" /\ i # 0 /\ Write(s, <<d>>)
        /\ incoming' = [incoming EXCEPT ![s] = 0]
        /\ prompt' = [prompt EXCEPT ![s] = "None"]
        /\ role' = [role EXCEPT ![s] = IF yes THEN OppositeRole(@) ELSE @]
        /\ UNCHANGED <<open, outgoing, intent, phase>>
    BY DEF RespondToReversal
  <1>2. /\ d \in Message /\ d.kind = "ReversalDecision" /\ d.id = i /\ d.accepted = yes
        /\ i = incoming[s]
    BY DEF ReversalDecision, Message, TypeOK
  <1> HIDE DEF d, i
  <1>3. CASE ~Both
    BY <1>1, <1>3 DEF Both, TokenInv, RoleInv
  <1>4. CASE Both
    <2>1. /\ Peer(s) \in Sides /\ Peer(s) # s /\ Peer(Peer(s)) = s
          /\ TokenOf(s) /\ TokenOf(Peer(s))
      BY <1>4, TwoSides DEF TokenInv
    <2>2. /\ outgoing[Peer(s)] = i /\ phase[s] = "Connected" /\ phase[Peer(s)] = "Connected"
          /\ Of(chan[s], "ReversalRequest") = {}
          /\ Of(chan[Peer(s)], "ReversalDecision") = {}
      BY <1>1, <1>2, <2>1 DEF TokenOf, Requests, Answers
    <2>3. chan'[s] = chan[s] /\ Adds(Peer(s), d)
      BY <1>1, <1>2, <1>4, WriteOne
    <2>4. /\ Of(chan'[Peer(s)], "ReversalRequest") = Of(chan[Peer(s)], "ReversalRequest")
          /\ Of(chan'[Peer(s)], "ReversalDecision") = {d}
          /\ Once(chan'[Peer(s)], "ReversalRequest") /\ Once(chan'[Peer(s)], "ReversalDecision")
      BY <1>2, <2>1, <2>2, <2>3 DEF Adds, TokenOf
    <2>5. /\ incoming'[s] = 0 /\ incoming'[Peer(s)] = incoming[Peer(s)]
          /\ prompt'[s] = "None" /\ prompt'[Peer(s)] = prompt[Peer(s)]
          /\ role'[s] = IF yes THEN OppositeRole(role[s]) ELSE role[s]
          /\ role'[Peer(s)] = role[Peer(s)]
      BY <1>1, <2>1 DEF TypeOK
    <2>6. TokenOf(s)'
      BY <1>1, <2>1, <2>3, <2>4, <2>5 DEF TokenOf, Requests, Answers
    <2>7. TokenOf(Peer(s))'
      BY <1>1, <1>2, <2>1, <2>2, <2>3, <2>4, <2>5 DEF TokenOf, Requests, Answers
    <2>8. TokenInv'
      BY <2>6, <2>7, TwoSides DEF TokenInv
    <2>9. /\ role[s] \in {"Viewer", "Sharer"} /\ role[Peer(s)] \in {"Viewer", "Sharer"}
          /\ (role[s] = role[Peer(s)]) <=> ~(Flip(chan[s]) <=> Flip(chan[Peer(s)]))
      BY <1>4, <2>2, Opposed
    <2>10. /\ ~Flip(chan[Peer(s)]) /\ (Flip(chan'[Peer(s)]) <=> yes)
           /\ Flip(chan'[s]) <=> Flip(chan[s])
      BY <1>2, <2>2, <2>3, <2>4 DEF Flip
    <2>11. /\ role'[s] \in {"Viewer", "Sharer"}
           /\ (role'[s] = role[Peer(s)]) <=> ~(yes <=> (role[s] = role[Peer(s)]))
      <3>1. CASE yes
        BY <2>5, <2>9, <3>1, Opposite
      <3>2. CASE ~yes
        BY <2>5, <2>9, <3>2
      <3> QED
        BY <3>1, <3>2
    <2>12. (role'[s] = role'[Peer(s)]) <=> ~(Flip(chan'[s]) <=> Flip(chan'[Peer(s)]))
      BY <2>5, <2>9, <2>10, <2>11
    <2>13. RoleInv'
      BY <1>1, <2>2, <2>5, <2>9, <2>11, <2>12, StayOpposed
    <2> QED
      BY <2>8, <2>13
  <1> QED
    BY <1>3, <1>4

\* handleReversalDecision: the side that asked hears the answer, and changes its
\* role if the other one has.
LEMMA Hears ==
  ASSUME TypeOK, TokenInv, RoleInv, NEW s \in Sides, HandleReversalDecision(s)
  PROVE  TokenInv' /\ RoleInv'
  <1> DEFINE h == Head(chan[s])
  <1>1. /\ chan[s] # <<>> /\ h.kind = "ReversalDecision"
        /\ outgoing[s] # 0 /\ Answer(s, <<>>)
        /\ outgoing' = [outgoing EXCEPT ![s] = 0]
        /\ role' = [role EXCEPT ![s] = IF h.accepted THEN OppositeRole(@) ELSE @]
        /\ UNCHANGED <<open, incoming, intent, phase, prompt>>
    BY DEF HandleReversalDecision, Receives
  <1>2. h \in Message /\ h \in Of(chan[s], "ReversalDecision") /\ h.accepted \in BOOLEAN
    BY <1>1, HeadIsCarried, MessageFields DEF Of
  <1>3. CASE ~Both
    BY <1>1, <1>3 DEF Both, TokenInv, RoleInv
  <1>4. CASE Both
    <2>1. /\ Peer(s) \in Sides /\ Peer(s) # s /\ Peer(Peer(s)) = s
          /\ TokenOf(s) /\ TokenOf(Peer(s))
      BY <1>4, TwoSides DEF TokenInv
    <2>2. /\ Once(chan[s], "ReversalRequest") /\ Once(chan[s], "ReversalDecision")
          /\ Once(chan[Peer(s)], "ReversalRequest") /\ Once(chan[Peer(s)], "ReversalDecision")
      BY <2>1 DEF TokenOf
    <2>3. /\ Takes(s, h)
          /\ Of(chan'[Peer(s)], "ReversalRequest") = Of(chan[Peer(s)], "ReversalRequest")
          /\ Of(chan'[Peer(s)], "ReversalDecision") = Of(chan[Peer(s)], "ReversalDecision")
          /\ Once(chan'[Peer(s)], "ReversalRequest") /\ Once(chan'[Peer(s)], "ReversalDecision")
      BY <1>1, <1>4, <2>2, AnswerNone DEF ReversalKinds
    <2>4. /\ Of(chan[s], "ReversalDecision") = {h} /\ Of(chan'[s], "ReversalDecision") = {}
          /\ Of(chan'[s], "ReversalRequest") = Of(chan[s], "ReversalRequest")
          /\ Once(chan'[s], "ReversalRequest") /\ Once(chan'[s], "ReversalDecision")
      BY <1>1, <2>2, <2>3 DEF Takes
    <2>5. /\ phase[s] = "Connected" /\ incoming[Peer(s)] = 0
          /\ Of(chan[Peer(s)], "ReversalRequest") = {}
      BY <1>1, <1>2, <2>1 DEF TokenOf, Requests, Answers
    <2>6. /\ outgoing'[s] = 0 /\ outgoing'[Peer(s)] = outgoing[Peer(s)]
          /\ role'[s] = IF h.accepted THEN OppositeRole(role[s]) ELSE role[s]
          /\ role'[Peer(s)] = role[Peer(s)]
      BY <1>1, <2>1 DEF TypeOK
    <2> HIDE DEF h
    <2>7. TokenOf(s)'
      BY <1>1, <2>1, <2>3, <2>4, <2>5, <2>6 DEF TokenOf, Requests, Answers
    <2>8. TokenOf(Peer(s))'
      BY <1>1, <2>1, <2>3, <2>4, <2>6 DEF TokenOf, Requests, Answers
    <2>9. TokenInv'
      BY <2>7, <2>8, TwoSides DEF TokenInv
    <2>10. /\ ~Flip(chan'[s]) /\ (Flip(chan[s]) <=> h.accepted)
           /\ Flip(chan'[Peer(s)]) <=> Flip(chan[Peer(s)])
      BY <2>3, <2>4 DEF Flip
    <2>11. CASE phase[Peer(s)] = "Connected"
      <3>1. /\ role[s] \in {"Viewer", "Sharer"} /\ role[Peer(s)] \in {"Viewer", "Sharer"}
            /\ (role[s] = role[Peer(s)]) <=> ~(Flip(chan[s]) <=> Flip(chan[Peer(s)]))
        BY <1>4, <2>5, <2>11, Opposed
      <3>2. /\ role'[s] \in {"Viewer", "Sharer"}
            /\ (role'[s] = role[Peer(s)]) <=> ~(h.accepted <=> (role[s] = role[Peer(s)]))
        <4>1. CASE h.accepted
          BY <2>6, <3>1, <4>1, Opposite
        <4>2. CASE ~h.accepted
          BY <2>6, <3>1, <4>2
        <4> QED
          BY <4>1, <4>2
      <3>3. (role'[s] = role'[Peer(s)]) <=> ~(Flip(chan'[s]) <=> Flip(chan'[Peer(s)]))
        BY <2>6, <2>10, <3>1, <3>2
      <3>4. RoleInv'
        BY <1>1, <2>5, <2>6, <2>11, <3>1, <3>2, <3>3, StayOpposed
      <3> QED
        BY <2>9, <3>4
    <2>12. CASE phase[Peer(s)] # "Connected"
      <3>1. ~Flip(chan[s])
        BY <1>4, <2>1, <2>12 DEF RoleInv
      <3>2. UNCHANGED role
        BY <1>1, <2>10, <3>1 DEF TypeOK
      <3>3. \A p \in Sides : Flip(chan'[p]) <=> Flip(chan[p])
        BY <2>10, <3>1, TwoSides
      <3> QED
        BY <1>1, <2>9, <3>2, <3>3, RoleKept
    <2> QED
      BY <2>11, <2>12
  <1> QED
    BY <1>3, <1>4

\* tryEstablishConnection: the second side to be connected finds the first
\* with its initial role and no reversal under way.
LEMMA Connects ==
  ASSUME TypeOK, TokenInv, RoleInv, NEW s \in Sides, Establish(s),
         UNCHANGED <<open, outgoing, incoming, intent>>,
         Both => SameReversals, Both => phase[s] = "AwaitingConsent"
  PROVE  TokenInv' /\ RoleInv'
  <1>1. CASE ~Both
    BY <1>1 DEF Both, TokenInv, RoleInv
  <1>2. CASE Both
    <2>1. /\ Peer(s) \in Sides /\ Peer(s) # s /\ Peer(Peer(s)) = s
          /\ TokenOf(s) /\ phase[s] # "Connected"
      BY <1>2, TwoSides DEF TokenInv
    <2>2. /\ phase'[s] = "Connected" /\ phase'[Peer(s)] = phase[Peer(s)]
          /\ prompt'[s] = "None" /\ prompt'[Peer(s)] = prompt[Peer(s)]
          /\ role'[s] = InitialRole(s) /\ role'[Peer(s)] = role[Peer(s)]
      BY <2>1 DEF Establish, TypeOK
    <2>3. prompt[s] # "Reversal" /\ Of(chan[s], "ReversalDecision") = {}
      BY <2>1 DEF TokenOf, Answers
    <2>4. \A p \in Sides : (prompt'[p] = "Reversal") <=> (prompt[p] = "Reversal")
      BY <2>2, <2>3, TwoSides
    <2>5. \A p \in Sides : phase[p] = "Connected" => phase'[p] = "Connected"
      BY <2>2, TwoSides
    <2>6. TokenInv'
      BY <1>2, <2>4, <2>5, TokenQuiet
    <2>7. \A p \in Sides : Of(chan'[p], "ReversalDecision") = Of(chan[p], "ReversalDecision")
      BY <1>2 DEF SameReversals, ReversalKinds
    <2>8. ~Flip(chan'[s]) /\ ~Flip(chan'[Peer(s)])
      BY <1>2, <2>1, <2>3, <2>7 DEF RoleInv, Flip
    <2>9. InitialRole(s) \in {"Viewer", "Sharer"} /\ InitialRole(s) # InitialRole(Peer(s))
      BY DEF InitialRole, Sides, Peer, Initiator, Responder
    <2>10. CASE phase[Peer(s)] = "Connected"
      <3>1. role[Peer(s)] \in {"Viewer", "Sharer"} /\ role[Peer(s)] = InitialRole(Peer(s))
        BY <1>2, <2>1, <2>10 DEF RoleInv
      <3>2. RoleInv'
        BY <2>2, <2>8, <2>9, <2>10, <3>1, StayOpposed
      <3> QED
        BY <2>6, <3>2
    <2>11. CASE phase[Peer(s)] # "Connected"
      <3>1. /\ phase'[Peer(s)] # "Connected" /\ InitialRole(s)' = InitialRole(s)
            /\ \A p \in Sides : p = s \/ p = Peer(s)
        BY <2>2, <2>11, TwoSides DEF InitialRole
      <3>2. RoleInv'
        BY <2>1, <2>2, <2>8, <2>9, <3>1 DEF RoleInv
      <3> QED
        BY <2>6, <3>2
    <2> QED
      BY <2>10, <2>11
  <1> QED
    BY <1>1, <1>2

-----------------------------------------------------------------------------
(* All steps                                                               *)

LEMMA CloseEnds ==
  ASSUME TypeOK, EntryInv, NEW s \in Sides, NEW ms, NEW c, Close(s, ms, c), UNCHANGED trustVars
  PROVE  EntryInv' /\ TokenInv' /\ RoleInv'
  <1>1. /\ phase' = [phase EXCEPT ![s] = "Closed"] /\ UNCHANGED <<remember, paired>>
        /\ \A p \in Sides : p # s => prompt'[p] = prompt[p]
    BY DEF Close, trustVars, TypeOK
  <1>2. IF open[s] THEN open' = [open EXCEPT ![s] = FALSE] ELSE UNCHANGED open
    BY DEF Close, WriteAndClose
  <1> QED
    BY <1>1, <1>2, Ends

LEMMA EntryQuiet ==
  ASSUME EntryInv, UNCHANGED <<open, phase, paired>>,
         remember' = "Writing" => remember = "Writing",
         prompt'[Responder] = "EnterVerificationCode" =>
           prompt[Responder] = "EnterVerificationCode"
  PROVE  EntryInv'
  BY DEF EntryInv

LEMMA ReversalDeliver ==
  ASSUME ReversalInv, NEW s \in Sides, Deliver(s)
  PROVE  EntryInv' /\ TokenInv' /\ RoleInv'
  <1>0. /\ TypeOK /\ EntryInv /\ TokenInv /\ RoleInv
        /\ Responder \in Sides /\ Initiator \in Sides /\ Responder # Initiator
    BY DEF ReversalInv, Sides, Initiator, Responder
  <1>r. \A k : Receives(s, k) => /\ chan[s] # <<>> /\ Head(chan[s]).kind = k
                                /\ open[s] /\ phase[s] \in AcceptingPhases(k)
    BY DEF Receives
  <1>k. \A k : k \in PlainKinds \cup {"ConsentDecision", "DiagnosticsRequest",
                                      "DiagnosticsBatch"} => k \notin ReversalKinds
    BY DEF PlainKinds, ReversalKinds
  <1>1. CASE s = Responder /\ HandleClientHello
    <2>1. /\ Receives(s, "ClientHello") /\ Answer(s, <<Plain("ServerHello")>>)
          /\ phase' = [phase EXCEPT ![s] = "AwaitingSecureReady"]
          /\ UNCHANGED <<open, outgoing, incoming, intent, role, prompt, remember>>
      BY <1>1 DEF HandleClientHello, requestVars
    <2>2. phase[s] = "AwaitingClientHello" /\ open[s]
      BY <1>r, <2>1 DEF AcceptingPhases
    <2>3. Silent(<<Plain("ServerHello")>>)
      BY SilentWrites DEF PlainKinds
    <2>4. Both => SameReversals
      BY <1>0, <1>r, <1>k, <2>1, <2>3, SilentAnswer DEF PlainKinds
    <2>5. \A p \in Sides : (phase'[p] = "Connected") <=> (phase[p] = "Connected")
      BY <1>0, <2>1, <2>2 DEF TypeOK
    <2>6. TokenInv' /\ RoleInv'
      BY <1>0, <2>1, <2>4, <2>5, Quiet
    <2>7. EntryInv'
      BY <1>0, <1>1, <2>1, <2>2 DEF EntryInv, TypeOK
    <2> QED
      BY <2>6, <2>7
  <1>2. CASE s = Initiator /\ HandleServerHello
    <2>1. CASE expected
      <3>1. /\ Receives(s, "ServerHello") /\ Answer(s, <<Plain("Ready")>>)
            /\ phase' = [phase EXCEPT ![s] = "AwaitingSecureAcknowledgement"]
            /\ UNCHANGED <<open, outgoing, incoming, intent, role, prompt, remember, paired>>
        BY <1>2, <2>1 DEF HandleServerHello, requestVars, trustVars
      <3>2. phase[s] = "AwaitingServerHello" /\ open[s]
        BY <1>r, <3>1 DEF AcceptingPhases
      <3>3. Silent(<<Plain("Ready")>>)
        BY SilentWrites DEF PlainKinds
      <3>4. Both => SameReversals
        BY <1>0, <1>r, <1>k, <3>1, <3>3, SilentAnswer DEF PlainKinds
      <3>5. \A p \in Sides : (phase'[p] = "Connected") <=> (phase[p] = "Connected")
        BY <1>0, <3>1, <3>2 DEF TypeOK
      <3>6. TokenInv' /\ RoleInv'
        BY <1>0, <3>1, <3>4, <3>5, Quiet
      <3>7. EntryInv'
        BY <1>0, <1>2, <3>1, <3>2 DEF EntryInv, TypeOK
      <3> QED
        BY <3>6, <3>7
    <2>2. CASE ~expected
      BY <1>0, <1>2, <2>2, CloseEnds DEF HandleServerHello
    <2> QED
      BY <2>1, <2>2
  <1>3. CASE s = Responder /\ HandleReady
    <2>1. /\ Receives(s, "Ready") /\ Answer(s, ReadyAnswer)
          /\ phase' = [phase EXCEPT ![s] = "AwaitingConsent"]
          /\ prompt' = [prompt EXCEPT ![s] = IF paired THEN "None" ELSE "EnterVerificationCode"]
          /\ UNCHANGED <<open, outgoing, incoming, intent, role, remember, paired>>
      BY <1>3 DEF HandleReady, EnterConsentPhase, requestVars, trustVars
    <2>2. phase[s] = "AwaitingSecureReady" /\ open[s]
      BY <1>r, <2>1 DEF AcceptingPhases
    <2>3. Silent(ReadyAnswer)
      BY SilentWrites
    <2>4. Both => SameReversals
      BY <1>0, <1>r, <1>k, <2>1, <2>3, SilentAnswer DEF PlainKinds
    <2>5. \A p \in Sides : (phase'[p] = "Connected") <=> (phase[p] = "Connected")
      BY <1>0, <2>1, <2>2 DEF TypeOK
    <2>6. EntryInv'
      BY <1>0, <1>3, <2>1, <2>2 DEF EntryInv, TypeOK
    <2>7. CASE Both
      <3>1. prompt[s] # "Reversal"
        BY <1>0, <2>2, <2>7 DEF TokenInv, TokenOf
      <3>2. \A p \in Sides : (prompt'[p] = "Reversal") <=> (prompt[p] = "Reversal")
        BY <1>0, <2>1, <3>1 DEF TypeOK
      <3> QED
        BY <1>0, <2>1, <2>4, <2>5, <2>6, <3>2, Quiet
    <2>8. CASE ~Both
      BY <2>1, <2>6, <2>8 DEF Both, TokenInv, RoleInv
    <2> QED
      BY <2>7, <2>8
  <1>4. CASE s = Initiator /\ HandleReadyAcknowledged
    <2>1. /\ Receives(s, "ReadyAcknowledged") /\ Answer(s, <<Consent(TRUE)>>)
          /\ phase' = [phase EXCEPT ![s] = "AwaitingConsent"]
          /\ prompt' = [prompt EXCEPT ![s] = "WaitingForPeer"]
          /\ UNCHANGED <<open, outgoing, incoming, intent, role, remember, paired>>
      BY <1>4 DEF HandleReadyAcknowledged, EnterConsentPhase, requestVars, trustVars
    <2>2. phase[s] = "AwaitingSecureAcknowledgement" /\ open[s]
      BY <1>r, <2>1 DEF AcceptingPhases
    <2>3. Silent(<<Consent(TRUE)>>)
      BY SilentWrites
    <2>4. Both => SameReversals
      BY <1>0, <1>r, <1>k, <2>1, <2>3, SilentAnswer DEF PlainKinds
    <2>5. \A p \in Sides : (phase'[p] = "Connected") <=> (phase[p] = "Connected")
      BY <1>0, <2>1, <2>2 DEF TypeOK
    <2>6. EntryInv'
      BY <1>0, <1>4, <2>1, <2>2 DEF EntryInv, TypeOK
    <2>7. CASE Both
      <3>1. prompt[s] # "Reversal"
        BY <1>0, <2>2, <2>7 DEF TokenInv, TokenOf
      <3>2. \A p \in Sides : (prompt'[p] = "Reversal") <=> (prompt[p] = "Reversal")
        BY <1>0, <2>1, <3>1 DEF TypeOK
      <3> QED
        BY <1>0, <2>1, <2>4, <2>5, <2>6, <3>2, Quiet
    <2>8. CASE ~Both
      BY <2>1, <2>6, <2>8 DEF Both, TokenInv, RoleInv
    <2> QED
      BY <2>7, <2>8
  <1>5. CASE HandleConsentAccepted(s)
    <2>1. /\ Receives(s, "ConsentDecision") /\ Answer(s, <<>>)
          /\ UNCHANGED <<open, outgoing, incoming, intent, paired>>
      BY <1>5 DEF HandleConsentAccepted, requestVars
    <2>2. phase[s] = "AwaitingConsent" /\ open[s]
      BY <1>r, <2>1 DEF AcceptingPhases
    <2>3. Both => SameReversals
      BY <1>0, <1>r, <1>k, <2>1, SilentWrites, SilentAnswer
    <2>4. CASE UNCHANGED <<phase, prompt, role, remember>>
      BY <1>0, <2>1, <2>3, <2>4, Quiet, EntryQuiet
    <2>5. CASE Establish(s) /\ (s = Initiator \/ paired) /\ UNCHANGED remember
      <3>1. TokenInv' /\ RoleInv'
        BY <1>0, <2>1, <2>2, <2>3, <2>5, Connects
      <3>2. /\ phase' = [phase EXCEPT ![s] = "Connected"]
            /\ prompt' = [prompt EXCEPT ![s] = "None"]
        BY <2>5 DEF Establish
      <3>3. EntryInv'
        BY <1>0, <2>1, <2>2, <2>5, <3>2 DEF EntryInv, TypeOK
      <3> QED
        BY <3>1, <3>3
    <2>6. CASE s = Responder /\ ~paired /\ UNCHANGED <<phase, prompt, role>>
      <3>1. EntryInv'
        BY <1>0, <2>1, <2>2, <2>6 DEF EntryInv
      <3> QED
        BY <1>0, <2>1, <2>3, <2>6, <3>1, Quiet
    <2> QED
      BY <1>5, <2>4, <2>5, <2>6 DEF HandleConsentAccepted
  <1>6. CASE HandleConsentDeclined(s) \/ HandleDisconnect(s)
               \/ HandleTransportClosed(s) \/ RejectMessage(s)
    BY <1>0, <1>6, CloseEnds
       DEF HandleConsentDeclined, HandleDisconnect, HandleTransportClosed, RejectMessage
  <1>7. CASE HandlePing(s) \/ HandlePong(s) \/ HandleMediaSignal(s)
               \/ HandleDiagnosticsRequest(s) \/ HandleDiagnosticsBatch(s)
    <2>1. PICK r, k : /\ Receives(s, k) /\ k \notin ReversalKinds
                      /\ Answer(s, r) /\ Silent(r)
      <3>1. CASE HandlePing(s)
        <4>1. Silent(HealthCheck(Peer(s), "Pong"))
          BY SilentWrites, TwoSides DEF PlainKinds
        <4> QED
          BY <1>k, <3>1, <4>1 DEF HandlePing, PlainKinds
      <3>2. CASE HandlePong(s) \/ HandleMediaSignal(s) \/ HandleDiagnosticsBatch(s)
        BY <1>k, <3>2, SilentWrites
           DEF HandlePong, HandleMediaSignal, HandleDiagnosticsBatch, PlainKinds
      <3>3. CASE HandleDiagnosticsRequest(s)
        <4>1. Head(chan[s]).id \in Nat
          BY <1>0, <1>r, <3>3, HeadIsCarried, MessageFields DEF HandleDiagnosticsRequest
        <4>2. Silent(<<DiagnosticsBatch(Head(chan[s]).id)>>)
          BY <4>1, SilentWrites
        <4> QED
          BY <1>k, <3>3, <4>2 DEF HandleDiagnosticsRequest
      <3> QED
        BY <1>7, <3>1, <3>2, <3>3
    <2>2. Both => SameReversals
      BY <1>0, <1>r, <2>1, SilentAnswer
    <2>3. UNCHANGED <<open, outgoing, incoming, intent, role, phase, prompt, remember, paired>>
      BY <1>7 DEF HandlePing, HandlePong, HandleMediaSignal, HandleDiagnosticsRequest,
                  HandleDiagnosticsBatch, sessionVars, requestVars, trustVars
    <2> QED
      BY <1>0, <2>2, <2>3, Quiet, EntryQuiet
  <1>8. CASE HandleReversalRequest(s)
    <2>1. /\ UNCHANGED <<open, phase, paired, remember>>
          /\ UNCHANGED prompt \/ prompt' = [prompt EXCEPT ![s] = "Reversal"]
      BY <1>8 DEF HandleReversalRequest, trustVars
    <2>2. prompt'[Responder] = "EnterVerificationCode" =>
            prompt[Responder] = "EnterVerificationCode"
      BY <1>0, <2>1 DEF TypeOK
    <2> QED
      BY <1>0, <1>8, <2>1, <2>2, IsAsked, EntryQuiet
  <1>9. CASE HandleReversalDecision(s)
    <2>1. UNCHANGED <<open, phase, paired, remember, prompt>>
      BY <1>9 DEF HandleReversalDecision, trustVars
    <2> QED
      BY <1>0, <1>9, <2>1, Hears, EntryQuiet
  <1> QED
    BY <1>1, <1>2, <1>3, <1>4, <1>5, <1>6, <1>7, <1>8, <1>9 DEF Deliver

\* A side that writes nothing of reversals and changes none of its own state.
LEMMA SaysNothing ==
  ASSUME ReversalInv, NEW s \in Sides, NEW r, Silent(r), Write(s, r),
         UNCHANGED <<open, outgoing, incoming, intent, role, phase, prompt, remember, paired>>
  PROVE  EntryInv' /\ TokenInv' /\ RoleInv'
  <1>1. TypeOK /\ EntryInv /\ TokenInv /\ RoleInv
    BY DEF ReversalInv
  <1>2. Both => SameReversals
    BY <1>1, SilentWrite
  <1> QED
    BY <1>1, <1>2, Quiet, EntryQuiet

\* A step that sends and takes no message and leaves the session as it is.
LEMMA Untouched ==
  ASSUME ReversalInv,
         UNCHANGED <<open, outgoing, incoming, intent, role, phase, prompt, paired, chan>>,
         remember' = "Writing" => remember = "Writing"
  PROVE  EntryInv' /\ TokenInv' /\ RoleInv'
  <1>1. TypeOK /\ EntryInv /\ TokenInv /\ RoleInv
    BY DEF ReversalInv
  <1>2. SameReversals
    BY DEF SameReversals
  <1> QED
    BY <1>1, <1>2, Quiet, EntryQuiet

LEMMA ReversalTimer ==
  ASSUME ReversalInv, NEW s \in Sides, Timer(s) \/ SocketError(s)
  PROVE  EntryInv' /\ TokenInv' /\ RoleInv'
  <1>0. TypeOK /\ EntryInv
    BY DEF ReversalInv
  <1>1. CASE HandshakeTimeout(s) \/ SocketError(s)
    BY <1>0, <1>1, CloseEnds DEF HandshakeTimeout, SocketError
  <1>2. CASE KeepAliveTick(s)
    <2>1. CASE Overdue(s)
      BY <1>0, <1>2, <2>1, CloseEnds DEF KeepAliveTick
    <2>2. CASE ~Overdue(s)
      <3>1. /\ Write(s, HealthCheck(Peer(s), "Ping"))
            /\ UNCHANGED <<open, outgoing, incoming, intent, role, phase, prompt,
                           remember, paired>>
        BY <1>2, <2>2 DEF KeepAliveTick, requestVars, trustVars
      <3>2. Silent(HealthCheck(Peer(s), "Ping"))
        BY SilentWrites, TwoSides DEF PlainKinds
      <3> QED
        BY <3>1, <3>2, SaysNothing
    <2> QED
      BY <2>1, <2>2
  <1>3. CASE DiagnosticsTimeout(s)
    BY <1>3, Untouched DEF DiagnosticsTimeout, sessionVars, trustVars
  <1> QED
    BY <1>1, <1>2, <1>3 DEF Timer

LEMMA ReversalUser ==
  ASSUME ReversalInv, NEW s \in Sides, User(s)
  PROVE  EntryInv' /\ TokenInv' /\ RoleInv'
  <1>0. /\ TypeOK /\ EntryInv /\ TokenInv /\ RoleInv
        /\ Responder \in Sides
    BY DEF ReversalInv, Sides
  <1>1. CASE s = Responder /\ AcceptPairing
    <2>1. /\ open[s] /\ prompt[s] = "EnterVerificationCode"
          /\ prompt' = [prompt EXCEPT ![s] = "None"]
          /\ Write(s, <<Consent(TRUE)>>)
          /\ UNCHANGED <<open, outgoing, incoming, intent, role, phase, paired>>
      BY <1>1 DEF AcceptPairing, requestVars
    <2>2. Silent(<<Consent(TRUE)>>)
      BY SilentWrites
    <2>3. Both => SameReversals
      BY <1>0, <2>1, <2>2, SilentWrite
    <2>4. \A p \in Sides : (prompt'[p] = "Reversal") <=> (prompt[p] = "Reversal")
      BY <1>0, <2>1 DEF TypeOK
    <2>5. EntryInv'
      BY <1>0, <1>1, <2>1 DEF EntryInv
    <2> QED
      BY <1>0, <2>1, <2>3, <2>4, <2>5, Quiet
  <1>2. CASE DeclinePairing(s) \/ Disconnect(s)
    BY <1>0, <1>2, CloseEnds DEF DeclinePairing, Disconnect
  <1>3. ASSUME NEW yes \in BOOLEAN, RespondToReversal(s, yes)
        PROVE  EntryInv' /\ TokenInv' /\ RoleInv'
    <2>1. /\ prompt' = [prompt EXCEPT ![s] = "None"]
          /\ UNCHANGED <<open, phase, paired, remember>>
      BY <1>3 DEF RespondToReversal, trustVars
    <2>2. prompt'[Responder] = "EnterVerificationCode" =>
            prompt[Responder] = "EnterVerificationCode"
      BY <1>0, <2>1 DEF TypeOK
    <2> QED
      BY <1>0, <1>3, <2>1, <2>2, Responds, EntryQuiet
  <1>4. CASE RequestReversal(s)
    <2>1. UNCHANGED <<open, phase, paired, remember, prompt>>
      BY <1>4 DEF RequestReversal, sessionVars, trustVars
    <2> QED
      BY <1>0, <1>4, <2>1, Asks, EntryQuiet
  <1>5. CASE RequestDiagnostics(s)
    <2> DEFINE n == requested[s].queries + 1
    <2>1. /\ Write(s, <<DiagnosticsRequest(n)>>)
          /\ UNCHANGED <<open, outgoing, incoming, intent, role, phase, prompt,
                         remember, paired>>
      BY <1>5 DEF RequestDiagnostics, sessionVars, trustVars
    <2>2. n \in Nat
      BY <1>0 DEF TypeOK
    <2> HIDE DEF n
    <2>3. Silent(<<DiagnosticsRequest(n)>>)
      BY <2>2, SilentWrites
    <2> QED
      BY <2>1, <2>3, SaysNothing
  <1>6. CASE SendMediaSignal(s)
    <2>1. /\ Write(s, <<Plain("MediaSignal")>>)
          /\ UNCHANGED <<open, outgoing, incoming, intent, role, phase, prompt,
                         remember, paired>>
      BY <1>6 DEF SendMediaSignal, sessionVars, trustVars
    <2>2. Silent(<<Plain("MediaSignal")>>)
      BY SilentWrites DEF PlainKinds
    <2> QED
      BY <2>1, <2>2, SaysNothing
  <1>7. CASE Dispose(s)
    <2>1. /\ phase' = [phase EXCEPT ![s] = "Closed"]
          /\ UNCHANGED <<remember, paired, prompt>>
          /\ IF open[s] THEN open' = [open EXCEPT ![s] = FALSE] ELSE UNCHANGED open
      BY <1>7 DEF Dispose, WriteAndClose, trustVars
    <2> QED
      BY <1>0, <2>1, Ends
  <1> QED
    BY <1>1, <1>2, <1>3, <1>4, <1>5, <1>6, <1>7 DEF User

LEMMA ReversalNext == ReversalInv /\ [Next]_vars => ReversalInv'
  <1> SUFFICES ASSUME ReversalInv, [Next]_vars PROVE EntryInv' /\ TokenInv' /\ RoleInv'
    BY TypeNext DEF ReversalInv
  <1>0. /\ TypeOK /\ EntryInv /\ TokenInv /\ RoleInv
        /\ Responder \in Sides
    BY DEF ReversalInv, Sides
  <1>1. CASE FinishRemember
    <2>1. /\ remember = "Writing" /\ remember' = "Done" /\ Establish(Responder)
          /\ UNCHANGED <<open, outgoing, incoming, intent, chan>>
      BY <1>1 DEF FinishRemember, requestVars
    <2>2. open[Responder] => phase[Responder] = "AwaitingConsent"
      BY <1>0, <2>1 DEF EntryInv
    <2>3. SameReversals
      BY <2>1 DEF SameReversals
    <2>4. TokenInv' /\ RoleInv'
      BY <1>0, <2>1, <2>2, <2>3, Connects DEF Both
    <2>5. /\ phase' = [phase EXCEPT ![Responder] = "Connected"]
          /\ prompt' = [prompt EXCEPT ![Responder] = "None"]
      BY <2>1 DEF Establish
    <2>6. EntryInv'
      BY <1>0, <2>1, <2>5 DEF EntryInv, TypeOK
    <2> QED
      BY <2>4, <2>6
  <1>2. CASE FailRemember \/ EndTrust \/ LoseLink \/ UNCHANGED vars
    <2>1. /\ UNCHANGED <<open, outgoing, incoming, intent, role, phase, prompt, paired, chan>>
          /\ remember' = "Writing" => remember = "Writing"
      BY <1>2 DEF FailRemember, EndTrust, LoseLink, vars, sessionVars, requestVars, trustVars
    <2> QED
      BY <2>1, Untouched
  <1> QED
    BY <1>1, <1>2, ReversalDeliver, ReversalTimer, ReversalUser DEF Next

LEMMA ReversalAlways == Spec => []ReversalInv
  <1>1. Init => ReversalInv
    BY TypeInit, ReversalInit DEF ReversalInv
  <1> QED
    BY <1>1, ReversalNext, PTL DEF Spec

-----------------------------------------------------------------------------
(* What follows                                                            *)

\* requestReversal, handleReversalRequest, respondToReversal and
\* handleReversalDecision: whichever way the two users' requests and answers
\* cross, a pending request is in exactly one place, for any number of them.
THEOREM ReversalTokensHolds == Spec => []ReversalTokens
  <1>1. ReversalInv => ReversalTokens
    <2> SUFFICES ASSUME ReversalInv, NEW s \in Sides, Live(s), Live(Peer(s))
                 PROVE  /\ (prompt[s] = "Reversal") <=> (incoming[s] # 0)
                        /\ incoming[Peer(s)] \in {0, outgoing[s]}
                        /\ Cardinality(Positions(chan[Peer(s)], "ReversalRequest"))
                             + Cardinality(Positions(chan[s], "ReversalDecision"))
                             + (IF incoming[Peer(s)] # 0 THEN 1 ELSE 0)
                           = (IF outgoing[s] # 0 THEN 1 ELSE 0)
      BY DEF ReversalTokens
    <2>1. Both /\ Peer(s) \in Sides
      BY TwoSides DEF Both, Live
    <2>2. TokenOf(s)
      BY <2>1 DEF ReversalInv, TokenInv
    <2>3. chan[s] \in Seq(Message) /\ chan[Peer(s)] \in Seq(Message)
      BY <2>1 DEF ReversalInv, TypeOK
    <2>4. /\ Cardinality(Positions(chan[Peer(s)], "ReversalRequest"))
               = IF Requests(s) = {} THEN 0 ELSE 1
          /\ Cardinality(Positions(chan[s], "ReversalDecision"))
               = IF Answers(s) = {} THEN 0 ELSE 1
      BY <2>2, <2>3, OnceCounts DEF TokenOf, Requests, Answers
    <2>5. CASE outgoing[s] = 0
      BY <2>2, <2>4, <2>5 DEF TokenOf
    <2>6. CASE outgoing[s] # 0
      BY <2>2, <2>4, <2>6 DEF TokenOf
    <2> QED
      BY <2>5, <2>6
  <1> QED
    BY <1>1, ReversalAlways, PTL

\* The same handlers with tryEstablishConnection: two connected sides never
\* both share or both watch, but for the time an accepted reversal takes to
\* reach the side that asked for it.
THEOREM ComplementaryRolesHolds == Spec => []ComplementaryRoles
  <1>1. ReversalInv => ComplementaryRoles
    <2> SUFFICES ASSUME ReversalInv, \A s \in Sides : Live(s) /\ phase[s] = "Connected"
                 PROVE  /\ \A s \in Sides : role[s] # "None"
                        /\ (role[Initiator] = role[Responder])
                             <=> ((Flips(chan[Initiator]) = {}) # (Flips(chan[Responder]) = {}))
      BY DEF ComplementaryRoles
    <2>1. Both
      BY DEF Both, Live
    <2>2. /\ \A s \in Sides : role[s] \in {"Viewer", "Sharer"}
          /\ (role[Initiator] = role[Responder])
               <=> ~(Flip(chan[Initiator]) <=> Flip(chan[Responder]))
      BY <2>1 DEF ReversalInv, RoleInv
    <2>3. \A q : (Flips(q) = {}) <=> ~Flip(q)
      BY DEF Flips, Flip, Positions, Of, Elems
    <2>4. ((Flips(chan[Initiator]) = {}) # (Flips(chan[Responder]) = {}))
            <=> ~(Flip(chan[Initiator]) <=> Flip(chan[Responder]))
      BY <2>3, Zenon
    <2> QED
      BY <2>2, <2>4
  <1> QED
    BY <1>1, ReversalAlways, PTL

-----------------------------------------------------------------------------
(* Stages of the protocol                                                  *)

\* What the message m does to s when s has come to stage l of the protocol: the
\* peer's hello (0), its confirmation of the channel (1) and its consent (2)
\* take s one stage further.
Opens(s, m, l) ==
  \/ l = 0 /\ m = Plain(IF s = Initiator THEN "ServerHello" ELSE "ClientHello")
  \/ l = 1 /\ m = Plain(IF s = Initiator THEN "ReadyAcknowledged" ELSE "Ready")
  \/ l = 2 /\ m = Consent(TRUE)

\* Any other message needs a stage and leaves it.  The initiator withdraws a
\* consent it has given, the responder refuses before it gives one.
Suits(s, m, l) ==
  \/ m.kind = "TransportClosed"
  \/ l >= 1 /\ m.kind \in {"Disconnect", "Pong", "ReversalRequest", "ReversalDecision",
                           "DiagnosticsBatch"}
  \/ l >= 2 /\ m.kind = "Ping"
  \/ l = (IF s = Initiator THEN 2 ELSE 3) /\ m = Consent(FALSE)
  \/ l = 3 /\ m.kind \in {"MediaSignal", "DiagnosticsRequest"}

Leads(s, m, l, n) == (n = l + 1 /\ Opens(s, m, l)) \/ (n = l /\ Suits(s, m, l))

Stages == 0 .. 3

\* The messages of q, read in their order, take s from stage a to stage b.
Path(s, q, a, b) ==
  \E f \in [1 .. Len(q) + 1 -> Stages] :
    /\ f[1] = a
    /\ f[Len(q) + 1] = b
    /\ \A i \in 1 .. Len(q) : Leads(s, q[i], f[i], f[i + 1])

\* The stage s has come to by what it has read ...
Heard(s) ==
  CASE phase[s] \in {"AwaitingClientHello", "AwaitingServerHello"} -> 0
    [] phase[s] \in {"AwaitingSecureReady", "AwaitingSecureAcknowledgement"} -> 1
    [] phase[s] = "AwaitingConsent" /\ remoteConsent[s] # "Accepted" -> 2
    [] OTHER -> 3

\* ... and the stage its peer will have come to when it has read all that s
\* has written.
Told(s) ==
  CASE phase[s] = "AwaitingClientHello" -> 0
    [] phase[s] \in {"AwaitingServerHello", "AwaitingSecureReady"} -> 1
    [] phase[s] = "AwaitingSecureAcknowledgement" -> 2
    [] OTHER -> IF localConsent[s] = "Accepted" THEN 3 ELSE 2

\* What is under way to an open end can be read in its order, and when both
\* ends are open it leads to where the peer has got.
OrderInv ==
  \A s \in Sides : open[s] =>
    \E b \in Stages : /\ Path(s, chan[s], Heard(s), b)
                      /\ open[Peer(s)] => b = Told(Peer(s))

-----------------------------------------------------------------------------
(* Paths                                                                   *)

LEMMA StagesOf ==
  ASSUME NEW s
  PROVE  Heard(s) \in Stages /\ Told(s) \in Stages
  BY DEF Heard, Told, Stages

LEMMA PathNone ==
  ASSUME NEW s, NEW a \in Stages
  PROVE  Path(s, <<>>, a, a)
  <1> DEFINE f == [i \in 1 .. Len(<<>>) + 1 |-> a]
  <1>1. Len(<<>>) = 0
    OBVIOUS
  <1>2. f \in [1 .. Len(<<>>) + 1 -> Stages] /\ f[1] = a /\ f[Len(<<>>) + 1] = a
    BY <1>1
  <1>3. \A i \in 1 .. Len(<<>>) : Leads(s, <<>>[i], f[i], f[i + 1])
    BY <1>1
  <1> QED
    BY <1>2, <1>3 DEF Path

LEMMA PathOne ==
  ASSUME NEW s, NEW m \in Message, NEW a \in Stages, NEW b \in Stages, Leads(s, m, a, b)
  PROVE  Path(s, <<m>>, a, b)
  <1> DEFINE q == <<m>>
             f == [i \in 1 .. Len(q) + 1 |-> IF i = 1 THEN a ELSE b]
  <1>1. Len(q) = 1 /\ q[1] = m
    OBVIOUS
  <1>2. f \in [1 .. Len(q) + 1 -> Stages] /\ f[1] = a /\ f[Len(q) + 1] = b
    BY <1>1
  <1>3. \A i \in 1 .. Len(q) : i = 1
    BY <1>1
  <1>4. f[1] = a /\ f[1 + 1] = b
    BY <1>1
  <1> HIDE DEF q, f
  <1>5. \A i \in 1 .. Len(q) : Leads(s, q[i], f[i], f[i + 1])
    BY <1>1, <1>3, <1>4
  <1>6. Path(s, q, a, b)
    BY <1>2, <1>5 DEF Path
  <1> QED
    BY <1>6 DEF q

LEMMA PathTwo ==
  ASSUME NEW s, NEW m \in Message, NEW n \in Message, NEW a \in Stages, NEW b \in Stages,
         NEW c \in Stages, Leads(s, m, a, b), Leads(s, n, b, c)
  PROVE  Path(s, <<m, n>>, a, c)
  <1> DEFINE q == <<m, n>>
             f == [i \in 1 .. Len(q) + 1 |-> IF i = 1 THEN a ELSE IF i = 2 THEN b ELSE c]
  <1>1. Len(q) = 2 /\ q[1] = m /\ q[2] = n
    OBVIOUS
  <1> HIDE DEF q
  <1>2. f \in [1 .. Len(q) + 1 -> Stages] /\ f[1] = a /\ f[Len(q) + 1] = c
    BY <1>1
  <1>3. \A i \in 1 .. Len(q) : i = 1 \/ i = 2
    BY <1>1
  <1>4. f[1] = a /\ f[1 + 1] = b /\ f[2] = b /\ f[2 + 1] = c
    BY <1>1
  <1> HIDE DEF f
  <1>5. \A i \in 1 .. Len(q) : Leads(s, q[i], f[i], f[i + 1])
    BY <1>1, <1>3, <1>4
  <1>6. Path(s, q, a, c)
    BY <1>2, <1>5 DEF Path
  <1> QED
    BY <1>6 DEF q

\* Reading the head is the first step of the way.
LEMMA PathTail ==
  ASSUME NEW s, NEW q \in Seq(Message), q # <<>>, NEW a, NEW b, Path(s, q, a, b)
  PROVE  \E n \in Stages : Leads(s, Head(q), a, n) /\ Path(s, Tail(q), n, b)
  <1>1. PICK f \in [1 .. Len(q) + 1 -> Stages] :
          /\ f[1] = a
          /\ f[Len(q) + 1] = b
          /\ \A i \in 1 .. Len(q) : Leads(s, q[i], f[i], f[i + 1])
    BY DEF Path
  <1>2. /\ Len(q) \in Nat /\ Len(q) >= 1 /\ Head(q) = q[1]
        /\ Len(Tail(q)) = Len(q) - 1
        /\ \A i \in 1 .. Len(q) - 1 : Tail(q)[i] = q[i + 1]
    BY EmptySeq, LenProperties, HeadTailProperties
  <1> DEFINE t == Tail(q)
             g == [i \in 1 .. Len(t) + 1 |-> f[i + 1]]
  <1>3. \A i \in 1 .. Len(t) + 1 : i + 1 \in 1 .. Len(q) + 1
    BY <1>2
  <1>4. g \in [1 .. Len(t) + 1 -> Stages]
    BY <1>1, <1>3
  <1>5. g[1] = f[2] /\ g[Len(t) + 1] = b
    BY <1>1, <1>2
  <1>6. ASSUME NEW i \in 1 .. Len(t)
        PROVE  Leads(s, t[i], g[i], g[i + 1])
    <2>1. i + 1 \in 1 .. Len(q) /\ i \in 1 .. Len(t) + 1 /\ i + 1 \in 1 .. Len(t) + 1
      BY <1>2
    <2>2. g[i] = f[i + 1] /\ g[i + 1] = f[(i + 1) + 1] /\ t[i] = q[i + 1]
      BY <2>1, <1>2
    <2> HIDE DEF t, g
    <2> QED
      BY <2>1, <2>2, <1>1
  <1>7. Path(s, t, f[2], b)
    <2> HIDE DEF t, g
    <2> QED
      BY <1>4, <1>5, <1>6 DEF Path
  <1>8. f[2] \in Stages /\ Leads(s, Head(q), a, f[2])
    <2>1. 1 \in 1 .. Len(q) /\ 2 \in 1 .. Len(q) + 1 /\ 1 + 1 = 2
      BY <1>2
    <2> QED
      BY <2>1, <1>1, <1>2
  <1> QED
    BY <1>7, <1>8 DEF t

\* One way after the other.
LEMMA PathConcat ==
  ASSUME NEW s, NEW q \in Seq(Message), NEW r \in Seq(Message), NEW a, NEW b, NEW c,
         Path(s, q, a, b), Path(s, r, b, c)
  PROVE  Path(s, q \o r, a, c)
  <1>1. PICK f \in [1 .. Len(q) + 1 -> Stages] :
          /\ f[1] = a
          /\ f[Len(q) + 1] = b
          /\ \A i \in 1 .. Len(q) : Leads(s, q[i], f[i], f[i + 1])
    BY DEF Path
  <1>2. PICK g \in [1 .. Len(r) + 1 -> Stages] :
          /\ g[1] = b
          /\ g[Len(r) + 1] = c
          /\ \A i \in 1 .. Len(r) : Leads(s, r[i], g[i], g[i + 1])
    BY DEF Path
  <1> DEFINE z == q \o r
             h == [i \in 1 .. Len(z) + 1 |-> IF i <= Len(q) THEN f[i] ELSE g[i - Len(q)]]
  <1>3. /\ z \in Seq(Message) /\ Len(z) = Len(q) + Len(r)
        /\ \A i \in 1 .. Len(q) + Len(r) :
             z[i] = IF i <= Len(q) THEN q[i] ELSE r[i - Len(q)]
    BY ConcatProperties
  <1>4. Len(q) \in Nat /\ Len(r) \in Nat
    BY LenProperties
  <1> HIDE DEF z
  <1>5. h \in [1 .. Len(z) + 1 -> Stages]
    <2>1. ASSUME NEW i \in 1 .. Len(z) + 1
          PROVE  (IF i <= Len(q) THEN f[i] ELSE g[i - Len(q)]) \in Stages
      <3>1. CASE i <= Len(q)
        <4>1. i \in 1 .. Len(q) + 1
          BY <1>4, <3>1
        <4> QED
          BY <4>1, <3>1
      <3>2. CASE ~(i <= Len(q))
        <4>1. i - Len(q) \in 1 .. Len(r) + 1
          BY <1>3, <1>4, <3>2
        <4> QED
          BY <4>1, <3>2
      <3> QED
        BY <3>1, <3>2
    <2> QED
      BY <2>1
  <1>6. \A i \in 1 .. Len(q) : h[i] = f[i]
    BY <1>3, <1>4
  <1>7. \A i \in 1 .. Len(r) + 1 : h[Len(q) + i] = g[i]
    <2> TAKE i \in 1 .. Len(r) + 1
    <2>1. /\ Len(q) + i \in 1 .. Len(z) + 1 /\ ~(Len(q) + i <= Len(q))
          /\ (Len(q) + i) - Len(q) = i
      BY <1>3, <1>4
    <2> QED
      BY <2>1
  <1>8. h[Len(q) + 1] = b
    <2>1. 1 \in 1 .. Len(r) + 1
      BY <1>4
    <2> QED
      BY <2>1, <1>2, <1>7
  <1>9. h[1] = a
    <2>1. CASE Len(q) = 0
      BY <2>1, <1>1, <1>8
    <2>2. CASE Len(q) # 0
      BY <2>2, <1>1, <1>4, <1>6
    <2> QED
      BY <2>1, <2>2
  <1>10. h[Len(z) + 1] = c
    <2>1. Len(r) + 1 \in 1 .. Len(r) + 1 /\ Len(q) + (Len(r) + 1) = Len(z) + 1
      BY <1>3, <1>4
    <2> QED
      BY <2>1, <1>2, <1>7
  <1> HIDE DEF h
  <1>11. ASSUME NEW i \in 1 .. Len(z)
         PROVE  Leads(s, z[i], h[i], h[i + 1])
    <2>1. CASE i <= Len(q)
      <3>1. i \in 1 .. Len(q) /\ z[i] = q[i] /\ h[i] = f[i]
        BY <1>3, <1>4, <1>6, <2>1
      <3>2. h[i + 1] = f[i + 1]
        <4>1. CASE i + 1 <= Len(q)
          <5>1. i + 1 \in 1 .. Len(q)
            BY <1>4, <3>1, <4>1
          <5> QED
            BY <5>1, <1>6
        <4>2. CASE ~(i + 1 <= Len(q))
          <5>1. i + 1 = Len(q) + 1
            BY <1>4, <3>1, <4>2
          <5> QED
            BY <5>1, <1>1, <1>8
        <4> QED
          BY <4>1, <4>2
      <3> QED
        BY <1>1, <3>1, <3>2
    <2>2. CASE ~(i <= Len(q))
      <3> DEFINE j == i - Len(q)
      <3>1. /\ j \in 1 .. Len(r) /\ j \in 1 .. Len(r) + 1 /\ j + 1 \in 1 .. Len(r) + 1
            /\ Len(q) + j = i /\ Len(q) + (j + 1) = i + 1
        BY <1>3, <1>4, <2>2
      <3>2. z[i] = r[j]
        BY <1>3, <2>2
      <3> HIDE DEF j
      <3>3. h[Len(q) + j] = g[j] /\ h[Len(q) + (j + 1)] = g[j + 1]
        BY <1>7, <3>1
      <3> QED
        BY <1>2, <3>1, <3>2, <3>3
    <2> QED
      BY <2>1, <2>2
  <1>12. Path(s, z, a, c)
    BY <1>5, <1>9, <1>10, <1>11 DEF Path
  <1> QED
    BY <1>12 DEF z

\* A way that is cut off leads somewhere, and the news of the close can be read
\* anywhere.
LEMMA PathCut ==
  ASSUME NEW s, NEW q \in Seq(Message), NEW n \in 0 .. Len(q), NEW a, NEW b, Path(s, q, a, b)
  PROVE  \E c \in Stages : Path(s, Append(SubSeq(q, 1, n), Plain("TransportClosed")), a, c)
  <1> DEFINE p == SubSeq(q, 1, n)
             x == Plain("TransportClosed")
  <1>0. Len(q) \in Nat /\ n \in Nat /\ n <= Len(q)
    BY LenProperties
  <1>1. p \in Seq(Message) /\ Len(p) = n /\ \A i \in 1 .. n : p[i] = q[i]
    BY <1>0, SubSeqProperties
  <1>2. x \in Message
    BY DEF Plain, Message, PlainKinds
  <1>3. PICK f \in [1 .. Len(q) + 1 -> Stages] :
          /\ f[1] = a
          /\ \A i \in 1 .. Len(q) : Leads(s, q[i], f[i], f[i + 1])
    BY DEF Path
  <1> DEFINE g == [i \in 1 .. Len(p) + 1 |-> f[i]]
  <1> HIDE DEF p
  <1>4. \A i \in 1 .. n + 1 : i \in 1 .. Len(q) + 1
    BY <1>0
  <1>5. g \in [1 .. Len(p) + 1 -> Stages] /\ \A i \in 1 .. n + 1 : g[i] = f[i]
    BY <1>1, <1>4
  <1>6. g[1] = a /\ g[Len(p) + 1] = f[n + 1] /\ f[n + 1] \in Stages
    BY <1>0, <1>1, <1>3, <1>4, <1>5
  <1>7. ASSUME NEW i \in 1 .. Len(p)
        PROVE  Leads(s, p[i], g[i], g[i + 1])
    <2>1. i \in 1 .. n /\ i \in 1 .. n + 1 /\ i + 1 \in 1 .. n + 1 /\ i \in 1 .. Len(q)
      BY <1>0, <1>1
    <2>2. g[i] = f[i] /\ g[i + 1] = f[i + 1] /\ p[i] = q[i]
      BY <1>1, <1>5, <2>1
    <2> HIDE DEF g
    <2> QED
      BY <1>3, <2>1, <2>2
  <1>8. Path(s, p, a, f[n + 1])
    <2> HIDE DEF g
    <2> QED
      BY <1>5, <1>6, <1>7 DEF Path
  <1>9. Path(s, <<x>>, f[n + 1], f[n + 1])
    <2>1. Leads(s, x, f[n + 1], f[n + 1])
      BY DEF Leads, Suits, Plain
    <2> QED
      BY <1>2, <1>6, <2>1, PathOne
  <1>10. <<x>> \in Seq(Message) /\ Append(p, x) = p \o <<x>>
    <2> HIDE DEF x
    <2> QED
      BY <1>1, <1>2, AppendIsConcat
  <1>11. Path(s, p \o <<x>>, a, f[n + 1])
    BY <1>1, <1>8, <1>9, <1>10, PathConcat
  <1> QED
    BY <1>6, <1>10, <1>11 DEF p

-----------------------------------------------------------------------------
(* What steps do to the order                                              *)

\* A step that moves no message and takes neither end anywhere.
LEMMA OrderStill ==
  ASSUME OrderInv, UNCHANGED <<open, chan>>,
         \A p \in Sides : open[p] => Heard(p)' = Heard(p) /\ Told(p)' = Told(p)
  PROVE  OrderInv'
  <1> SUFFICES ASSUME NEW p \in Sides, open[p]
               PROVE  \E b \in Stages : /\ Path(p, chan'[p], Heard(p)', b)
                                        /\ open'[Peer(p)] => b = Told(Peer(p))'
    BY DEF OrderInv
  <1>1. PICK b \in Stages : Path(p, chan[p], Heard(p), b) /\ (open[Peer(p)] => b = Told(Peer(p)))
    BY DEF OrderInv
  <1>2. Heard(p)' = Heard(p) /\ (open[Peer(p)] => Told(Peer(p))' = Told(Peer(p)))
    BY PeerSides
  <1> QED
    BY <1>1, <1>2

\* s writes what its peer can read after all that s has written before.
LEMMA OrderWrites ==
  ASSUME TypeOK, OrderInv, NEW s \in Sides, NEW r \in Seq(Message), Write(s, r),
         open' = open, Heard(s)' = Heard(s),
         open[s] => Path(Peer(s), r, Told(s), Told(s)'),
         open[Peer(s)] => Heard(Peer(s))' = Heard(Peer(s)) /\ Told(Peer(s))' = Told(Peer(s))
  PROVE  OrderInv'
  <1>0. /\ Peer(s) \in Sides /\ Peer(s) # s /\ Peer(Peer(s)) = s
        /\ \A x \in Sides : x = s \/ x = Peer(s)
    BY TwoSides
  <1>1. CASE ~open[s]
    <2>1. chan' = chan
      BY <1>1 DEF Write
    <2>2. \A p \in Sides : open[p] => Heard(p)' = Heard(p) /\ Told(p)' = Told(p)
      BY <1>0, <1>1
    <2> QED
      BY <2>1, <2>2, OrderStill
  <1>2. CASE open[s]
    <2>1. /\ chan'[s] = chan[s]
          /\ open[Peer(s)] => chan'[Peer(s)] = chan[Peer(s)] \o r
      BY <1>0, <1>2 DEF Write, InFlight, TypeOK
    <2>2. \E b \in Stages : Path(s, chan'[s], Heard(s)', b) /\ (open'[Peer(s)] => b = Told(Peer(s))')
      <3>1. PICK b \in Stages : /\ Path(s, chan[s], Heard(s), b)
                                /\ open[Peer(s)] => b = Told(Peer(s))
        BY <1>2 DEF OrderInv
      <3> QED
        BY <2>1, <3>1
    <2>3. ASSUME open[Peer(s)]
          PROVE  Path(Peer(s), chan'[Peer(s)], Heard(Peer(s))', Told(s)')
      <3>1. Path(Peer(s), chan[Peer(s)], Heard(Peer(s)), Told(s))
        BY <1>0, <1>2, <2>3 DEF OrderInv
      <3>2. chan[Peer(s)] \in Seq(Message) /\ Path(Peer(s), r, Told(s), Told(s)')
        BY <1>0, <1>2 DEF TypeOK
      <3>3. Path(Peer(s), chan[Peer(s)] \o r, Heard(Peer(s)), Told(s)')
        BY <3>1, <3>2, PathConcat
      <3> QED
        BY <2>1, <2>3, <3>3
    <2>4. Told(s)' \in Stages
      BY DEF Told, Stages
    <2> QED
      BY <1>0, <1>2, <2>2, <2>3, <2>4 DEF OrderInv
  <1> QED
    BY <1>1, <1>2

\* s reads the next message and answers it.
LEMMA OrderAnswers ==
  ASSUME TypeOK, OrderInv, NEW s \in Sides, NEW r \in Seq(Message), Answer(s, r),
         open[s], chan[s] # <<>>, open' = open,
         \A n \in Stages : Leads(s, Head(chan[s]), Heard(s), n) => Heard(s)' = n,
         Path(Peer(s), r, Told(s), Told(s)'),
         open[Peer(s)] => Heard(Peer(s))' = Heard(Peer(s)) /\ Told(Peer(s))' = Told(Peer(s))
  PROVE  OrderInv'
  <1>0. /\ Peer(s) \in Sides /\ Peer(s) # s /\ Peer(Peer(s)) = s
        /\ \A x \in Sides : x = s \/ x = Peer(s)
    BY TwoSides
  <1>1. /\ chan'[s] = Tail(chan[s])
        /\ open[Peer(s)] => chan'[Peer(s)] = chan[Peer(s)] \o r
    BY <1>0 DEF Answer, InFlight, TypeOK
  <1>2. \E b \in Stages : Path(s, chan'[s], Heard(s)', b) /\ (open'[Peer(s)] => b = Told(Peer(s))')
    <2>1. PICK b \in Stages : /\ Path(s, chan[s], Heard(s), b)
                              /\ open[Peer(s)] => b = Told(Peer(s))
      BY DEF OrderInv
    <2>2. chan[s] \in Seq(Message)
      BY DEF TypeOK
    <2>3. PICK n \in Stages : Leads(s, Head(chan[s]), Heard(s), n) /\ Path(s, Tail(chan[s]), n, b)
      BY <2>1, <2>2, PathTail
    <2> QED
      BY <1>1, <2>1, <2>3
  <1>3. ASSUME open[Peer(s)]
        PROVE  Path(Peer(s), chan'[Peer(s)], Heard(Peer(s))', Told(s)')
    <2>1. Path(Peer(s), chan[Peer(s)], Heard(Peer(s)), Told(s))
      BY <1>0, <1>3 DEF OrderInv
    <2>2. chan[Peer(s)] \in Seq(Message)
      BY <1>0 DEF TypeOK
    <2>3. Path(Peer(s), chan[Peer(s)] \o r, Heard(Peer(s)), Told(s)')
      BY <2>1, <2>2, PathConcat
    <2> QED
      BY <1>1, <1>3, <2>3
  <1>4. Told(s)' \in Stages
    BY DEF Told, Stages
  <1> QED
    BY <1>0, <1>2, <1>3, <1>4 DEF OrderInv

\* s goes: what it wrote last could be read, and so can any beginning of it.
LEMMA OrderGoes ==
  ASSUME TypeOK, OrderInv, NEW s \in Sides, NEW r \in Seq(Message), open[s],
         WriteAndClose(s, r), NEW c, Path(Peer(s), r, Told(s), c),
         Heard(Peer(s))' = Heard(Peer(s))
  PROVE  OrderInv'
  <1>0. /\ Peer(s) \in Sides /\ Peer(s) # s /\ Peer(Peer(s)) = s
        /\ \A x \in Sides : x = s \/ x = Peer(s)
    BY TwoSides
  <1>1. ~open'[s] /\ open'[Peer(s)] = open[Peer(s)]
    BY <1>0 DEF WriteAndClose, TypeOK
  <1>2. ASSUME open[Peer(s)]
        PROVE  \E b \in Stages : Path(Peer(s), chan'[Peer(s)], Heard(Peer(s))', b)
    <2> DEFINE q == chan[Peer(s)] \o r
    <2>1. InFlight(Peer(s), r) = q
      BY <1>2 DEF InFlight
    <2>2. PICK n \in 0 .. Len(q) :
            chan'[Peer(s)] = Append(SubSeq(q, 1, n), Plain("TransportClosed"))
      <3> HIDE DEF q
      <3>1. PICK n \in 0 .. Len(q) :
              chan' = [chan EXCEPT
                ![s] = <<>>,
                ![Peer(s)] = IF open[Peer(s)]
                             THEN Append(SubSeq(q, 1, n), Plain("TransportClosed"))
                             ELSE <<>>]
        BY <2>1 DEF WriteAndClose
      <3> QED
        BY <1>0, <1>2, <3>1 DEF TypeOK
    <2>3. Path(Peer(s), chan[Peer(s)], Heard(Peer(s)), Told(s))
      BY <1>0, <1>2 DEF OrderInv
    <2>4. chan[Peer(s)] \in Seq(Message) /\ q \in Seq(Message)
      BY <1>0, ConcatProperties DEF TypeOK
    <2>5. Path(Peer(s), q, Heard(Peer(s)), c)
      BY <2>3, <2>4, PathConcat
    <2> HIDE DEF q
    <2> QED
      BY <2>2, <2>4, <2>5, PathCut
  <1> QED
    BY <1>0, <1>1, <1>2 DEF OrderInv

LEMMA OrderCloses ==
  ASSUME TypeOK, OrderInv, NEW s \in Sides, NEW r \in Seq(Message),
         phase' = [phase EXCEPT ![s] = "Closed"],
         IF open[s] THEN WriteAndClose(s, r) ELSE UNCHANGED <<open, chan>>,
         \A p \in Sides : p # s => localConsent'[p] = localConsent[p]
                                     /\ remoteConsent'[p] = remoteConsent[p],
         NEW c, open[s] => Path(Peer(s), r, Told(s), c)
  PROVE  OrderInv'
  <1>0. /\ Peer(s) \in Sides /\ Peer(s) # s
        /\ \A x \in Sides : x = s \/ x = Peer(s)
    BY TwoSides
  <1>1. Heard(Peer(s))' = Heard(Peer(s)) /\ Told(Peer(s))' = Told(Peer(s))
    BY <1>0 DEF Heard, Told, TypeOK
  <1>2. CASE open[s]
    BY <1>1, <1>2, OrderGoes
  <1>3. CASE ~open[s]
    <2>1. \A p \in Sides : open[p] => Heard(p)' = Heard(p) /\ Told(p)' = Told(p)
      BY <1>0, <1>1, <1>3
    <2> QED
      BY <1>3, <2>1, OrderStill
  <1> QED
    BY <1>2, <1>3

-----------------------------------------------------------------------------
(* What goes with a stage                                                  *)

\* Consents, health checks and prompts come after the handshake; an initiator
\* consents when it enters the consent phase and is connected as soon as it
\* hears of the other consent; a responder is connected, or storing trust, as
\* soon as it has both.
StageInv ==
  /\ phase[Initiator] \notin {"AwaitingClientHello", "AwaitingSecureReady"}
  /\ phase[Responder] \notin {"AwaitingServerHello", "AwaitingSecureAcknowledgement"}
  /\ \A s \in Sides : phase[s] \in HandshakePhases =>
       /\ localConsent[s] = "Unset" /\ remoteConsent[s] = "Unset"
       /\ ~keepAlive[s] /\ prompt[s] = "None"
  /\ phase[Initiator] = "AwaitingConsent" =>
       localConsent[Initiator] = "Accepted" /\ remoteConsent[Initiator] # "Accepted"
  /\ \A s \in Sides : open[s] /\ phase[s] = "Connected" => remoteConsent[s] = "Accepted"
  /\ open[Responder] /\ remember = "Writing" => remoteConsent[Responder] = "Accepted"
  /\ /\ open[Responder] /\ phase[Responder] = "AwaitingConsent"
     /\ localConsent[Responder] = "Accepted" /\ remoteConsent[Responder] = "Accepted"
     => remember \in {"Writing", "Failed"}

LEMMA EachSide ==
  /\ Initiator \in Sides /\ Responder \in Sides /\ Initiator # Responder
  /\ Peer(Initiator) = Responder /\ Peer(Responder) = Initiator
  /\ \A s \in Sides : s = Initiator \/ s = Responder
  BY DEF Sides, Initiator, Responder, Peer

LEMMA StageInit == Init => StageInv
  <1> SUFFICES ASSUME Init PROVE StageInv
    OBVIOUS
  <1>1. /\ phase[Initiator] = "AwaitingServerHello" /\ phase[Responder] = "AwaitingClientHello"
        /\ remember = "Idle"
        /\ \A s \in Sides : /\ localConsent[s] = "Unset" /\ remoteConsent[s] = "Unset"
                            /\ keepAlive[s] = FALSE /\ prompt[s] = "None"
                            /\ phase[s] \notin {"AwaitingConsent", "Connected"}
    BY EachSide DEF Init
  <1> QED
    BY <1>1, EachSide DEF StageInv

LEMMA StageQuiet ==
  ASSUME StageInv, UNCHANGED <<phase, localConsent, remoteConsent, open, keepAlive>>,
         remember' = remember \/ (remember = "Writing" /\ remember' = "Failed"),
         \A s \in Sides : prompt'[s] \in {prompt[s], "None"} \/ phase[s] = "Connected"
  PROVE  StageInv'
  <1>1. \A s \in Sides : phase'[s] \in HandshakePhases =>
          /\ localConsent'[s] = "Unset" /\ remoteConsent'[s] = "Unset"
          /\ ~keepAlive'[s] /\ prompt'[s] = "None"
    BY DEF StageInv, HandshakePhases
  <1> QED
    BY <1>1 DEF StageInv

LEMMA StageCloses ==
  ASSUME TypeOK, StageInv, NEW s \in Sides, phase' = [phase EXCEPT ![s] = "Closed"],
         IF open[s] THEN open' = [open EXCEPT ![s] = FALSE] ELSE UNCHANGED open,
         remember' = remember,
         \A p \in Sides : p # s =>
           /\ localConsent'[p] = localConsent[p] /\ remoteConsent'[p] = remoteConsent[p]
           /\ keepAlive'[p] = keepAlive[p] /\ prompt'[p] = prompt[p]
  PROVE  StageInv'
  <1>1. ~open'[s] /\ phase'[s] = "Closed"
    BY DEF TypeOK
  <1>2. \A p \in Sides : p # s => open'[p] = open[p] /\ phase'[p] = phase[p]
    BY DEF TypeOK
  <1>3. "Closed" \notin HandshakePhases
    BY DEF HandshakePhases
  <1>4. ASSUME NEW p \in Sides
        PROVE  /\ phase'[p] \in HandshakePhases =>
                    /\ localConsent'[p] = "Unset" /\ remoteConsent'[p] = "Unset"
                    /\ ~keepAlive'[p] /\ prompt'[p] = "None"
               /\ open'[p] /\ phase'[p] = "Connected" => remoteConsent'[p] = "Accepted"
    <2>1. CASE p = s
      BY <1>1, <1>3, <2>1
    <2>2. CASE p # s
      BY <1>2, <2>2 DEF StageInv
    <2> QED
      BY <2>1, <2>2
  <1>5. /\ phase'[Initiator] \notin {"AwaitingClientHello", "AwaitingSecureReady"}
        /\ phase'[Initiator] = "AwaitingConsent" =>
             localConsent'[Initiator] = "Accepted" /\ remoteConsent'[Initiator] # "Accepted"
    <2>1. CASE Initiator = s
      BY <1>1, <2>1
    <2>2. CASE Initiator # s
      BY <1>2, <2>2, EachSide DEF StageInv
    <2> QED
      BY <2>1, <2>2
  <1>6. /\ phase'[Responder] \notin {"AwaitingServerHello", "AwaitingSecureAcknowledgement"}
        /\ open'[Responder] /\ remember' = "Writing" => remoteConsent'[Responder] = "Accepted"
        /\ /\ open'[Responder] /\ phase'[Responder] = "AwaitingConsent"
           /\ localConsent'[Responder] = "Accepted" /\ remoteConsent'[Responder] = "Accepted"
           => remember' \in {"Writing", "Failed"}
    <2>1. CASE Responder = s
      BY <1>1, <2>1
    <2>2. CASE Responder # s
      BY <1>2, <2>2, EachSide DEF StageInv
    <2> QED
      BY <2>1, <2>2
  <1> QED
    BY <1>4, <1>5, <1>6 DEF StageInv

\* closeWithError
LEMMA StageClose ==
  ASSUME TypeOK, StageInv, NEW s \in Sides, NEW r, NEW c, Close(s, r, c), remember' = remember,
         \A p \in Sides : p # s =>
           localConsent'[p] = localConsent[p] /\ remoteConsent'[p] = remoteConsent[p]
  PROVE  StageInv'
  <1>1. /\ phase' = [phase EXCEPT ![s] = "Closed"]
        /\ \A p \in Sides : p # s => keepAlive'[p] = keepAlive[p] /\ prompt'[p] = prompt[p]
    BY DEF Close, StopTimers, TypeOK
  <1>2. IF open[s] THEN open' = [open EXCEPT ![s] = FALSE] ELSE UNCHANGED open
    BY DEF Close, WriteAndClose
  <1> QED
    BY <1>1, <1>2, StageCloses

LEMMA StageDeliver ==
  ASSUME TypeOK, ConsentInv, EntryInv, StageInv, NEW s \in Sides, Deliver(s)
  PROVE  StageInv'
  <1>r. \A k : Receives(s, k) => open[s] /\ phase[s] \in AcceptingPhases(k)
    BY DEF Receives
  <1>1. CASE s = Responder /\ HandleClientHello
    <2>1. /\ phase[s] = "AwaitingClientHello" /\ phase' = [phase EXCEPT ![s] = "AwaitingSecureReady"]
          /\ UNCHANGED <<localConsent, remoteConsent, open, keepAlive, prompt, remember>>
      BY <1>r, <1>1 DEF HandleClientHello, AcceptingPhases, timerVars
    <2>2. /\ phase'[s] = "AwaitingSecureReady"
          /\ phase'[Initiator] = phase[Initiator]
      BY <1>1, <2>1, EachSide DEF TypeOK
    <2> QED
      BY <1>1, <2>1, <2>2, EachSide DEF StageInv, HandshakePhases
  <1>2. CASE s = Initiator /\ HandleServerHello
    <2>1. CASE expected
      <3>1. /\ phase[s] = "AwaitingServerHello"
            /\ phase' = [phase EXCEPT ![s] = "AwaitingSecureAcknowledgement"]
            /\ UNCHANGED <<localConsent, remoteConsent, open, keepAlive, prompt, remember>>
        BY <1>r, <1>2, <2>1 DEF HandleServerHello, AcceptingPhases, timerVars, trustVars
      <3>2. /\ phase'[s] = "AwaitingSecureAcknowledgement"
            /\ phase'[Responder] = phase[Responder]
        BY <1>2, <3>1, EachSide DEF TypeOK
      <3> QED
        BY <1>2, <3>1, <3>2, EachSide DEF StageInv, HandshakePhases
    <2>2. CASE ~expected
      BY <1>2, <2>2, StageClose DEF HandleServerHello, trustVars
    <2> QED
      BY <2>1, <2>2
  <1>3. CASE s = Responder /\ HandleReady
    <2>1. /\ phase[s] = "AwaitingSecureReady" /\ phase' = [phase EXCEPT ![s] = "AwaitingConsent"]
          /\ UNCHANGED <<remoteConsent, open, remember>>
          /\ localConsent'[Initiator] = localConsent[Initiator]
          /\ prompt'[Initiator] = prompt[Initiator]
          /\ keepAlive'[Initiator] = keepAlive[Initiator]
      BY <1>r, <1>3, EachSide
         DEF HandleReady, EnterConsentPhase, AcceptingPhases, trustVars, TypeOK
    <2>2. /\ phase'[s] = "AwaitingConsent"
          /\ phase'[Initiator] = phase[Initiator]
      BY <1>3, <2>1, EachSide DEF TypeOK
    <2>3. remoteConsent[s] = "Unset"
      BY <2>1 DEF StageInv, HandshakePhases
    <2> QED
      BY <1>3, <2>1, <2>2, <2>3, EachSide DEF StageInv, HandshakePhases
  <1>4. CASE s = Initiator /\ HandleReadyAcknowledged
    <2>1. /\ phase[s] = "AwaitingSecureAcknowledgement"
          /\ phase' = [phase EXCEPT ![s] = "AwaitingConsent"]
          /\ localConsent' = [localConsent EXCEPT ![s] = "Accepted"]
          /\ UNCHANGED <<remoteConsent, open, remember>>
          /\ prompt'[Responder] = prompt[Responder]
          /\ keepAlive'[Responder] = keepAlive[Responder]
      BY <1>r, <1>4, EachSide
         DEF HandleReadyAcknowledged, EnterConsentPhase, AcceptingPhases, trustVars, TypeOK
    <2>2. /\ phase'[s] = "AwaitingConsent" /\ localConsent'[s] = "Accepted"
          /\ phase'[Responder] = phase[Responder]
          /\ localConsent'[Responder] = localConsent[Responder]
      BY <1>4, <2>1, EachSide DEF TypeOK
    <2>3. remoteConsent[s] = "Unset"
      BY <2>1 DEF StageInv, HandshakePhases
    <2> QED
      BY <1>4, <2>1, <2>2, <2>3, EachSide DEF StageInv, HandshakePhases
  <1>5. CASE HandleConsentAccepted(s)
    <2>1. /\ phase[s] = "AwaitingConsent" /\ open[s]
          /\ remoteConsent' = [remoteConsent EXCEPT ![s] = "Accepted"]
          /\ UNCHANGED <<localConsent, open>>
      BY <1>r, <1>5 DEF HandleConsentAccepted, AcceptingPhases
    <2>2. \A p \in Sides : remoteConsent'[p] = IF p = s THEN "Accepted" ELSE remoteConsent[p]
      BY <2>1 DEF TypeOK
    <2>3. CASE localConsent[s] # "Accepted" /\ UNCHANGED <<phase, prompt, keepAlive, remember>>
      <3>1. s = Responder
        BY <2>1, <2>3, EachSide DEF StageInv
      <3> QED
        BY <2>1, <2>2, <2>3, <3>1, EachSide DEF StageInv, HandshakePhases
    <2>4. CASE localConsent[s] = "Accepted" /\ Establish(s) /\ UNCHANGED remember
      <3>1. \A p \in Sides : /\ phase'[p] = IF p = s THEN "Connected" ELSE phase[p]
                             /\ prompt'[p] = IF p = s THEN "None" ELSE prompt[p]
                             /\ p # s => keepAlive'[p] = keepAlive[p]
        BY <2>4 DEF Establish, TypeOK
      <3> QED
        BY <2>1, <2>2, <2>4, <3>1, EachSide DEF StageInv, HandshakePhases
    <2>5. CASE s = Responder /\ BeginRemember /\ UNCHANGED <<phase, prompt, keepAlive>>
      <3>1. remember' = "Writing"
        BY <2>5 DEF BeginRemember
      <3> QED
        BY <2>1, <2>2, <2>5, <3>1, EachSide DEF StageInv, HandshakePhases
    <2> QED
      BY <1>5, <2>3, <2>4, <2>5 DEF HandleConsentAccepted
  <1>6. CASE HandleConsentDeclined(s)
    <2>1. remoteConsent' = [remoteConsent EXCEPT ![s] = "Declined"]
      BY <1>6 DEF HandleConsentDeclined
    <2> QED
      BY <1>6, <2>1, StageClose DEF HandleConsentDeclined, trustVars, TypeOK
  <1>7. CASE HandleDisconnect(s) \/ HandleTransportClosed(s) \/ RejectMessage(s)
    BY <1>7, StageClose DEF HandleDisconnect, HandleTransportClosed, RejectMessage, trustVars
  <1>8. CASE \/ HandlePing(s) \/ HandlePong(s) \/ HandleMediaSignal(s)
             \/ HandleDiagnosticsRequest(s) \/ HandleDiagnosticsBatch(s)
             \/ HandleReversalDecision(s)
    BY <1>8, StageQuiet
       DEF HandlePing, HandlePong, HandleMediaSignal, HandleDiagnosticsRequest,
           HandleDiagnosticsBatch, HandleReversalDecision, sessionVars, trustVars
  <1>9. CASE HandleReversalRequest(s)
    <2>1. /\ UNCHANGED <<phase, localConsent, remoteConsent, open, keepAlive, remember>>
          /\ \/ UNCHANGED prompt
             \/ phase[s] = "Connected" /\ prompt' = [prompt EXCEPT ![s] = "Reversal"]
      BY <1>9 DEF HandleReversalRequest, MayAsk, trustVars
    <2>2. \A p \in Sides : prompt'[p] \in {prompt[p], "None"} \/ phase[p] = "Connected"
      BY <2>1 DEF TypeOK
    <2> QED
      BY <2>1, <2>2, StageQuiet
  <1> QED
    BY <1>1, <1>2, <1>3, <1>4, <1>5, <1>6, <1>7, <1>8, <1>9 DEF Deliver

LEMMA StageLocal ==
  ASSUME TypeOK, ConsentInv, EntryInv, StageInv, NEW s \in Sides,
         Timer(s) \/ User(s) \/ SocketError(s)
  PROVE  StageInv'
  <1>1. CASE HandshakeTimeout(s) \/ SocketError(s) \/ Disconnect(s)
    BY <1>1, StageClose DEF HandshakeTimeout, SocketError, Disconnect, trustVars
  <1>2. CASE KeepAliveTick(s)
    <2>1. CASE Overdue(s)
      BY <1>2, <2>1, StageClose DEF KeepAliveTick, trustVars
    <2>2. CASE ~Overdue(s)
      BY <1>2, <2>2, StageQuiet DEF KeepAliveTick, trustVars
    <2> QED
      BY <2>1, <2>2
  <1>3. CASE \/ DiagnosticsTimeout(s) \/ RequestReversal(s) \/ RequestDiagnostics(s)
             \/ SendMediaSignal(s)
    BY <1>3, StageQuiet
       DEF DiagnosticsTimeout, RequestReversal, RequestDiagnostics, SendMediaSignal,
           sessionVars, timerVars, trustVars
  <1>4. CASE s = Responder /\ AcceptPairing
    <2>1. /\ open[s] /\ prompt[s] = "EnterVerificationCode"
          /\ UNCHANGED <<phase, remoteConsent, open, keepAlive>>
          /\ \A p \in Sides : /\ prompt'[p] = IF p = s THEN "None" ELSE prompt[p]
                              /\ localConsent'[p] = IF p = s THEN "Accepted" ELSE localConsent[p]
          /\ IF remoteConsent[s] = "Accepted" THEN remember' = "Writing"
                                              ELSE remember' = remember
      BY <1>4 DEF AcceptPairing, BeginRemember, timerVars, TypeOK
    <2>2. phase[s] = "AwaitingConsent"
      BY <1>4, <2>1 DEF EntryInv
    <2> QED
      BY <1>4, <2>1, <2>2, EachSide DEF StageInv, HandshakePhases
  <1>5. CASE DeclinePairing(s)
    <2>1. localConsent' = [localConsent EXCEPT ![s] = "Declined"]
      BY <1>5 DEF DeclinePairing
    <2> QED
      BY <1>5, <2>1, StageClose DEF DeclinePairing, trustVars, TypeOK
  <1>6. ASSUME NEW yes \in BOOLEAN, RespondToReversal(s, yes) PROVE StageInv'
    <2>1. /\ UNCHANGED <<phase, localConsent, remoteConsent, open, keepAlive, remember>>
          /\ prompt' = [prompt EXCEPT ![s] = "None"]
      BY <1>6 DEF RespondToReversal, timerVars, trustVars
    <2>2. \A p \in Sides : prompt'[p] \in {prompt[p], "None"}
      BY <2>1 DEF TypeOK
    <2> QED
      BY <2>1, <2>2, StageQuiet
  <1>7. CASE Dispose(s)
    <2>1. /\ phase' = [phase EXCEPT ![s] = "Closed"]
          /\ UNCHANGED <<remember, prompt, localConsent, remoteConsent>>
          /\ IF open[s] THEN open' = [open EXCEPT ![s] = FALSE] ELSE UNCHANGED open
      BY <1>7 DEF Dispose, WriteAndClose, trustVars
    <2>2. \A p \in Sides : p # s => keepAlive'[p] = keepAlive[p]
      BY <1>7 DEF Dispose, StopTimers, TypeOK
    <2> QED
      BY <2>1, <2>2, StageCloses
  <1> QED
    BY <1>1, <1>2, <1>3, <1>4, <1>5, <1>6, <1>7 DEF Timer, User

LEMMA StageNext ==
  ASSUME TypeOK, ConsentInv, EntryInv, StageInv, [Next]_vars
  PROVE  StageInv'
  <1>1. CASE FinishRemember
    <2>1. /\ remember = "Writing" /\ remember' = "Done"
          /\ UNCHANGED <<localConsent, remoteConsent, open>>
          /\ \A p \in Sides : /\ phase'[p] = IF p = Responder THEN "Connected" ELSE phase[p]
                              /\ prompt'[p] = IF p = Responder THEN "None" ELSE prompt[p]
                              /\ p # Responder => keepAlive'[p] = keepAlive[p]
      BY <1>1 DEF FinishRemember, Establish, TypeOK
    <2> QED
      BY <2>1, EachSide DEF StageInv, HandshakePhases
  <1>2. CASE FailRemember \/ EndTrust \/ LoseLink \/ UNCHANGED vars
    BY <1>2, StageQuiet
       DEF FailRemember, EndTrust, LoseLink, vars, sessionVars, timerVars, trustVars
  <1> QED
    BY <1>1, <1>2, StageDeliver, StageLocal DEF Next

-----------------------------------------------------------------------------
(* What is under way to a responder                                        *)

\* Traffic comes from an initiator that is connected, so the responder has
\* consented; a withdrawal comes from one that has gone.
QueueInv ==
  open[Responder] => \A m \in Elems(chan[Responder]) :
    /\ m.kind \in {"MediaSignal", "DiagnosticsRequest"} => localConsent[Responder] = "Accepted"
    /\ m = Consent(FALSE) => phase[Initiator] = "Closed"

\* What no step undoes.
Lasts ==
  /\ \A s \in Sides : open'[s] => open[s]
  /\ phase[Initiator] = "Closed" => phase'[Initiator] = "Closed"
  /\ localConsent[Responder] = "Accepted" /\ open'[Responder] =>
       localConsent'[Responder] = "Accepted"

\* s writes r at most: traffic when it is connected, a refusal when it goes.
Says(s, r) ==
  /\ r \in Seq(Message)
  /\ \A p \in Sides : Elems(chan'[p]) \subseteq Carried(p, s, r)
  /\ \A m \in Elems(r) :
       /\ m.kind \in {"MediaSignal", "DiagnosticsRequest"} => phase[s] = "Connected"
       /\ m = Consent(FALSE) => phase'[s] = "Closed"

LEMMA QueueInit == Init => QueueInv
  <1> SUFFICES ASSUME Init PROVE QueueInv
    OBVIOUS
  <1>1. chan[Responder] = <<Plain("ClientHello")>>
    BY EachSide DEF Init
  <1>2. Elems(<<Plain("ClientHello")>>) = {Plain("ClientHello")}
    BY DEF Elems
  <1> QED
    BY <1>1, <1>2 DEF QueueInv, Plain, Consent

LEMMA QueueStep ==
  ASSUME TypeOK, ConsentInv, QueueInv, Lasts, NEW s \in Sides, NEW r, Says(s, r)
  PROVE  QueueInv'
  <1> SUFFICES ASSUME open'[Responder], NEW m \in Elems(chan'[Responder])
               PROVE  /\ m.kind \in {"MediaSignal", "DiagnosticsRequest"} =>
                           localConsent'[Responder] = "Accepted"
                      /\ m = Consent(FALSE) => phase'[Initiator] = "Closed"
    BY DEF QueueInv, Elems, Consent
  <1>0. open[Responder]
    BY EachSide DEF Lasts
  <1>1. \/ m \in Elems(chan[Responder])
        \/ Responder = Peer(s) /\ m \in Elems(r)
        \/ m = Plain("TransportClosed")
    BY EachSide DEF Says, Carried
  <1>2. CASE m \in Elems(chan[Responder])
    BY <1>0, <1>2 DEF QueueInv, Lasts
  <1>3. CASE Responder = Peer(s) /\ m \in Elems(r)
    <2>1. s = Initiator
      BY <1>3, EachSide
    <2>2. ASSUME m.kind \in {"MediaSignal", "DiagnosticsRequest"}
          PROVE  localConsent'[Responder] = "Accepted"
      <3>1. Given(Responder)
        BY <1>3, <2>1, <2>2, EachSide DEF Says, ConsentInv
      <3>2. localConsent[Responder] # "Declined" /\ localConsent[Responder] \in Decisions
        BY <1>0, EachSide DEF ConsentInv, TypeOK
      <3> QED
        BY <3>1, <3>2 DEF Given, Decisions, Lasts
    <2>3. m = Consent(FALSE) => phase'[Initiator] = "Closed"
      BY <1>3, <2>1 DEF Says
    <2> QED
      BY <2>2, <2>3
  <1>4. CASE m = Plain("TransportClosed")
    BY <1>4 DEF Plain, Consent
  <1> QED
    BY <1>1, <1>2, <1>3, <1>4

\* Messages a side may write at any time, and none at all.
LEMMA Harmless ==
  ASSUME NEW m \in Message, m.kind \notin {"MediaSignal", "DiagnosticsRequest"},
         m # Consent(FALSE), NEW s \in Sides,
         \A p \in Sides : Elems(chan'[p]) \subseteq Carried(p, s, <<m>>)
  PROVE  Says(s, <<m>>)
  <1>1. <<m>> \in Seq(Message) /\ Elems(<<m>>) = {m}
    BY DEF Elems
  <1> QED
    BY <1>1 DEF Says

LEMMA SaysNone ==
  ASSUME NEW s \in Sides, \A p \in Sides : Elems(chan'[p]) \subseteq Carried(p, s, <<>>)
  PROVE  Says(s, <<>>)
  <1>1. <<>> \in Seq(Message) /\ Elems(<<>>) = {}
    BY DEF Elems
  <1> QED
    BY <1>1 DEF Says

LEMMA SaysHealth ==
  ASSUME NEW s \in Sides, NEW k \in {"Ping", "Pong"}, NEW q \in Sides,
         \A p \in Sides : Elems(chan'[p]) \subseteq Carried(p, s, HealthCheck(q, k))
  PROVE  Says(s, HealthCheck(q, k))
  <1>1. /\ Plain(k) \in Message /\ Plain(k) # Consent(FALSE)
        /\ Plain(k).kind \notin {"MediaSignal", "DiagnosticsRequest"}
    BY DEF Plain, Consent, Message, PlainKinds
  <1>2. CASE Queued(q, k)
    <2>1. HealthCheck(q, k) = <<>>
      BY <1>2 DEF HealthCheck
    <2> QED
      BY <2>1, SaysNone
  <1>3. CASE ~Queued(q, k)
    <2>1. HealthCheck(q, k) = <<Plain(k)>>
      BY <1>3 DEF HealthCheck
    <2> QED
      BY <1>1, <2>1, Harmless
  <1> QED
    BY <1>2, <1>3

LEMMA QueueClose ==
  ASSUME TypeOK, EntryInv, NEW s \in Sides, NEW r \in Seq(Message), NEW c, Close(s, r, c),
         \A m \in Elems(r) : m.kind \notin {"MediaSignal", "DiagnosticsRequest"},
         \A p \in Sides : p # s => localConsent'[p] = localConsent[p]
  PROVE  Says(s, r) /\ Lasts
  <1>1. /\ \A p \in Sides : Elems(chan'[p]) \subseteq Carried(p, s, r)
        /\ \A p \in Sides : open'[p] => open[p]
    <2>1. CASE open[s]
      <3>1. WriteAndClose(s, r)
        BY <2>1 DEF Close
      <3> QED
        BY <3>1, CloseCarries DEF WriteAndClose, TypeOK
    <2>2. CASE ~open[s]
      BY <2>2 DEF Close, Carried
    <2> QED
      BY <2>1, <2>2
  <1>2. \A p \in Sides : phase'[p] = IF p = s THEN "Closed" ELSE phase[p]
    BY DEF Close, TypeOK
  <1>3. ~open'[s]
    BY DEF Close, WriteAndClose, TypeOK
  <1>4. Says(s, r)
    BY <1>1, <1>2 DEF Says
  <1>5. Lasts
    BY <1>1, <1>2, <1>3, EachSide DEF Lasts
  <1> QED
    BY <1>4, <1>5

LEMMA QueueDeliver ==
  ASSUME TypeOK, ConsentInv, EntryInv, StageInv, NEW s \in Sides, Deliver(s)
  PROVE  Lasts /\ \E r : Says(s, r)
  <1>r. \A k : Receives(s, k) => /\ chan[s] # <<>> /\ Head(chan[s]).kind = k
                                /\ open[s] /\ phase[s] \in AcceptingPhases(k)
    BY DEF Receives
  <1>w. \A r \in Seq(Message) : chan[s] # <<>> /\ Answer(s, r) =>
          \A p \in Sides : Elems(chan'[p]) \subseteq Carried(p, s, r)
    BY AnswerCarries
  <1>n. <<>> \in Seq(Message) /\ Elems(<<>>) = {}
    BY DEF Elems
  <1>1. CASE s = Responder /\ HandleClientHello
    <2>1. /\ Receives(s, "ClientHello") /\ Answer(s, <<Plain("ServerHello")>>)
          /\ UNCHANGED <<open, localConsent>> /\ phase' = [phase EXCEPT ![s] = "AwaitingSecureReady"]
      BY <1>1 DEF HandleClientHello
    <2>2. <<Plain("ServerHello")>> \in Seq(Message)
      BY Written DEF PlainKinds
    <2>3. /\ Plain("ServerHello") \in Message /\ Plain("ServerHello") # Consent(FALSE)
          /\ Plain("ServerHello").kind \notin {"MediaSignal", "DiagnosticsRequest"}
      BY DEF Plain, Consent, Message, PlainKinds
    <2>4. Says(s, <<Plain("ServerHello")>>)
      BY <1>r, <1>w, <2>1, <2>2, <2>3, Harmless
    <2>5. Lasts
      BY <1>1, <2>1, EachSide DEF Lasts, TypeOK
    <2> QED
      BY <2>4, <2>5
  <1>2. CASE s = Initiator /\ HandleServerHello
    <2>1. CASE expected
      <3>1. /\ Receives(s, "ServerHello") /\ Answer(s, <<Plain("Ready")>>)
            /\ UNCHANGED <<open, localConsent>>
        BY <1>2, <2>1 DEF HandleServerHello
      <3>2. <<Plain("Ready")>> \in Seq(Message)
        BY Written DEF PlainKinds
      <3>3. /\ Plain("Ready") \in Message /\ Plain("Ready") # Consent(FALSE)
            /\ Plain("Ready").kind \notin {"MediaSignal", "DiagnosticsRequest"}
        BY DEF Plain, Consent, Message, PlainKinds
      <3>4. Says(s, <<Plain("Ready")>>)
        BY <1>r, <1>w, <3>1, <3>2, <3>3, Harmless
      <3>5. phase[s] # "Closed"
        BY <1>r, <3>1 DEF AcceptingPhases
      <3>6. Lasts
        BY <1>2, <3>1, <3>5 DEF Lasts
      <3> QED
        BY <3>4, <3>6
    <2>2. CASE ~expected
      BY <1>2, <1>n, <2>2, QueueClose DEF HandleServerHello
    <2> QED
      BY <2>1, <2>2
  <1>3. CASE s = Responder /\ HandleReady
    <2>1. /\ Receives(s, "Ready") /\ Answer(s, ReadyAnswer) /\ UNCHANGED open
          /\ phase' = [phase EXCEPT ![s] = "AwaitingConsent"]
          /\ localConsent' = [localConsent EXCEPT ![s] = "Accepted"] \/ UNCHANGED localConsent
      BY <1>3 DEF HandleReady, EnterConsentPhase
    <2> DEFINE a == Plain("ReadyAcknowledged")
               b == Consent(TRUE)
    <2>2. /\ a \in Message /\ a # Consent(FALSE)
          /\ a.kind \notin {"MediaSignal", "DiagnosticsRequest"}
          /\ b \in Message /\ b # Consent(FALSE)
          /\ b.kind \notin {"MediaSignal", "DiagnosticsRequest"}
      BY DEF Plain, Consent, Message, PlainKinds
    <2>3. ReadyAnswer \in Seq(Message) /\ Elems(ReadyAnswer) \subseteq {a, b}
      <3>1. ReadyAnswer = <<a, b>> \/ ReadyAnswer = <<a>>
        BY DEF ReadyAnswer
      <3> HIDE DEF a, b
      <3>2. Elems(<<a, b>>) \subseteq {a, b} /\ Elems(<<a>>) \subseteq {a, b}
        BY DEF Elems
      <3> QED
        BY <3>1, <3>2, Written
    <2> HIDE DEF a, b
    <2>4. Says(s, ReadyAnswer)
      BY <1>r, <1>w, <2>1, <2>2, <2>3 DEF Says
    <2>5. Lasts
      BY <1>3, <2>1, EachSide DEF Lasts, TypeOK
    <2> QED
      BY <2>4, <2>5
  <1>4. CASE s = Initiator /\ HandleReadyAcknowledged
    <2>1. /\ Receives(s, "ReadyAcknowledged") /\ Answer(s, <<Consent(TRUE)>>) /\ UNCHANGED open
          /\ localConsent' = [localConsent EXCEPT ![s] = "Accepted"]
      BY <1>4 DEF HandleReadyAcknowledged, EnterConsentPhase
    <2>2. <<Consent(TRUE)>> \in Seq(Message)
      BY Written
    <2>3. /\ Consent(TRUE) \in Message /\ Consent(TRUE) # Consent(FALSE)
          /\ Consent(TRUE).kind \notin {"MediaSignal", "DiagnosticsRequest"}
      BY DEF Consent, Message
    <2>4. Says(s, <<Consent(TRUE)>>)
      BY <1>r, <1>w, <2>1, <2>2, <2>3, Harmless
    <2>5. phase[s] # "Closed"
      BY <1>r, <2>1 DEF AcceptingPhases
    <2>6. Lasts
      BY <1>4, <2>1, <2>5, EachSide DEF Lasts, TypeOK
    <2> QED
      BY <2>4, <2>6
  <1>5. CASE HandleConsentAccepted(s)
    <2>1. /\ Receives(s, "ConsentDecision") /\ Answer(s, <<>>) /\ UNCHANGED <<open, localConsent>>
      BY <1>5 DEF HandleConsentAccepted
    <2>2. phase[s] # "Closed" /\ open[s]
      BY <1>r, <2>1 DEF AcceptingPhases
    <2>3. Says(s, <<>>)
      BY <1>r, <1>w, <1>n, <2>1, SaysNone
    <2>4. phase' = [phase EXCEPT ![s] = "Connected"] \/ UNCHANGED phase
      BY <1>5 DEF HandleConsentAccepted, Establish
    <2>5. Lasts
      BY <2>1, <2>2, <2>4, EachSide DEF Lasts, TypeOK
    <2> QED
      BY <2>3, <2>5
  <1>6. CASE HandleConsentDeclined(s) \/ HandleDisconnect(s)
               \/ HandleTransportClosed(s) \/ RejectMessage(s)
    BY <1>n, <1>6, QueueClose
       DEF HandleConsentDeclined, HandleDisconnect, HandleTransportClosed, RejectMessage
  <1>7. CASE HandlePing(s)
    <2>1. /\ Receives(s, "Ping") /\ Answer(s, HealthCheck(Peer(s), "Pong"))
          /\ UNCHANGED <<open, localConsent, phase>>
      BY <1>7 DEF HandlePing, sessionVars
    <2>2. HealthCheck(Peer(s), "Pong") \in Seq(Message)
      BY Written, PeerSides DEF PlainKinds
    <2>3. Says(s, HealthCheck(Peer(s), "Pong"))
      BY <1>r, <1>w, <2>1, <2>2, SaysHealth, PeerSides
    <2> QED
      BY <2>1, <2>3 DEF Lasts
  <1>8. CASE HandlePong(s) \/ HandleMediaSignal(s) \/ HandleDiagnosticsBatch(s)
               \/ HandleReversalDecision(s)
    <2>1. /\ \E k : Receives(s, k)
          /\ Answer(s, <<>>) /\ UNCHANGED <<open, localConsent, phase>>
      BY <1>8 DEF HandlePong, HandleMediaSignal, HandleDiagnosticsBatch, HandleReversalDecision,
                  sessionVars
    <2>2. Says(s, <<>>)
      BY <1>r, <1>w, <1>n, <2>1, SaysNone
    <2> QED
      BY <2>1, <2>2 DEF Lasts
  <1>9. CASE HandleReversalRequest(s)
    <2>1. /\ Receives(s, "ReversalRequest")
          /\ \/ Answer(s, <<>>)
             \/ Answer(s, <<ReversalDecision(Head(chan[s]).id, FALSE)>>)
          /\ UNCHANGED <<open, localConsent, phase>>
      BY <1>9 DEF HandleReversalRequest
    <2>2. Head(chan[s]).id \in Nat
      BY <1>r, <2>1, HeadIsCarried, MessageFields
    <2> DEFINE m == ReversalDecision(Head(chan[s]).id, FALSE)
    <2>3. /\ m \in Message /\ m # Consent(FALSE)
          /\ m.kind \notin {"MediaSignal", "DiagnosticsRequest"}
      BY <2>2 DEF ReversalDecision, Consent, Message
    <2> HIDE DEF m
    <2>4. CASE Answer(s, <<>>)
      BY <1>r, <1>w, <1>n, <2>1, <2>4, SaysNone DEF Lasts
    <2>5. CASE Answer(s, <<m>>)
      <3>1. <<m>> \in Seq(Message)
        BY <2>3
      <3>2. Says(s, <<m>>)
        BY <1>r, <1>w, <2>1, <2>3, <2>5, <3>1, Harmless
      <3> QED
        BY <2>1, <3>2 DEF Lasts
    <2> QED
      BY <2>1, <2>4, <2>5 DEF m
  <1>10. CASE HandleDiagnosticsRequest(s)
    <2> DEFINE m == DiagnosticsBatch(Head(chan[s]).id)
    <2>1. /\ Receives(s, "DiagnosticsRequest") /\ Answer(s, <<m>>)
          /\ UNCHANGED <<open, localConsent, phase>>
      BY <1>10 DEF HandleDiagnosticsRequest, sessionVars
    <2>2. Head(chan[s]).id \in Nat
      BY <1>r, <2>1, HeadIsCarried, MessageFields
    <2>3. /\ m \in Message /\ m # Consent(FALSE)
          /\ m.kind \notin {"MediaSignal", "DiagnosticsRequest"}
      BY <2>2 DEF DiagnosticsBatch, Consent, Message
    <2> HIDE DEF m
    <2>4. <<m>> \in Seq(Message)
      BY <2>3
    <2>5. Says(s, <<m>>)
      BY <1>r, <1>w, <2>1, <2>3, <2>4, Harmless
    <2> QED
      BY <2>1, <2>5 DEF Lasts
  <1> QED
    BY <1>1, <1>2, <1>3, <1>4, <1>5, <1>6, <1>7, <1>8, <1>9, <1>10 DEF Deliver

LEMMA QueueLocal ==
  ASSUME TypeOK, ConsentInv, EntryInv, StageInv, NEW s \in Sides,
         Timer(s) \/ User(s) \/ SocketError(s)
  PROVE  Lasts /\ \E r : Says(s, r)
  <1>n. <<>> \in Seq(Message) /\ Elems(<<>>) = {}
    BY DEF Elems
  <1>w. \A r \in Seq(Message) : Write(s, r) =>
          \A p \in Sides : Elems(chan'[p]) \subseteq Carried(p, s, r)
    BY WriteCarries
  <1>u. UNCHANGED <<open, localConsent, phase>> => Lasts
    BY DEF Lasts
  <1>1. CASE HandshakeTimeout(s) \/ SocketError(s)
    BY <1>n, <1>1, QueueClose DEF HandshakeTimeout, SocketError
  <1>2. CASE KeepAliveTick(s)
    <2>1. CASE Overdue(s)
      BY <1>n, <1>2, <2>1, QueueClose DEF KeepAliveTick
    <2>2. CASE ~Overdue(s)
      <3>1. Write(s, HealthCheck(Peer(s), "Ping")) /\ UNCHANGED <<open, localConsent, phase>>
        BY <1>2, <2>2 DEF KeepAliveTick
      <3>2. HealthCheck(Peer(s), "Ping") \in Seq(Message)
        BY Written, PeerSides DEF PlainKinds
      <3>3. Says(s, HealthCheck(Peer(s), "Ping"))
        BY <1>w, <3>1, <3>2, SaysHealth, PeerSides
      <3> QED
        BY <1>u, <3>1, <3>3
    <2> QED
      BY <2>1, <2>2
  <1>3. CASE DiagnosticsTimeout(s)
    <2>1. UNCHANGED <<open, localConsent, phase, chan>>
      BY <1>3 DEF DiagnosticsTimeout, sessionVars
    <2>2. Says(s, <<>>)
      BY <2>1, SaysNone DEF Carried
    <2> QED
      BY <1>u, <2>1, <2>2
  <1>4. CASE s = Responder /\ AcceptPairing
    <2>1. /\ Write(s, <<Consent(TRUE)>>) /\ UNCHANGED <<open, phase>>
          /\ localConsent' = [localConsent EXCEPT ![s] = "Accepted"]
      BY <1>4 DEF AcceptPairing
    <2>2. <<Consent(TRUE)>> \in Seq(Message)
      BY Written
    <2>3. /\ Consent(TRUE) \in Message /\ Consent(TRUE) # Consent(FALSE)
          /\ Consent(TRUE).kind \notin {"MediaSignal", "DiagnosticsRequest"}
      BY DEF Consent, Message
    <2>4. Says(s, <<Consent(TRUE)>>)
      BY <1>w, <2>1, <2>2, <2>3, Harmless
    <2>5. Lasts
      BY <1>4, <2>1, EachSide DEF Lasts, TypeOK
    <2> QED
      BY <2>4, <2>5
  <1>5. CASE DeclinePairing(s)
    <2>1. /\ localConsent' = [localConsent EXCEPT ![s] = "Declined"]
          /\ Close(s, <<Consent(FALSE)>>, "None")
      BY <1>5 DEF DeclinePairing
    <2>a. <<Consent(FALSE)>> \in Seq(Message)
      BY Written
    <2>b. \A m : Elems(<<m>>) = {m}
      BY DEF Elems
    <2>2. <<Consent(FALSE)>> \in Seq(Message) /\ Elems(<<Consent(FALSE)>>) = {Consent(FALSE)}
      BY <2>a, <2>b
    <2>3. Consent(FALSE).kind \notin {"MediaSignal", "DiagnosticsRequest"}
      BY DEF Consent
    <2>4. \A p \in Sides : p # s => localConsent'[p] = localConsent[p]
      BY <2>1 DEF TypeOK
    <2> QED
      BY <2>1, <2>2, <2>3, <2>4, QueueClose
  <1>6. ASSUME NEW yes \in BOOLEAN, RespondToReversal(s, yes)
        PROVE  Lasts /\ \E r : Says(s, r)
    <2> DEFINE m == ReversalDecision(incoming[s], yes)
    <2>1. Write(s, <<m>>) /\ UNCHANGED <<open, localConsent, phase>>
      BY <1>6 DEF RespondToReversal
    <2>2. /\ m \in Message /\ m # Consent(FALSE)
          /\ m.kind \notin {"MediaSignal", "DiagnosticsRequest"}
      BY <1>6 DEF ReversalDecision, Consent, Message, TypeOK
    <2> HIDE DEF m
    <2>3. <<m>> \in Seq(Message)
      BY <2>2
    <2>4. Says(s, <<m>>)
      BY <1>w, <2>1, <2>2, <2>3, Harmless
    <2> QED
      BY <1>u, <2>1, <2>4
  <1>7. CASE RequestReversal(s)
    <2> DEFINE m == ReversalRequest(requested[s].reversals + 1)
    <2>1. Write(s, <<m>>) /\ UNCHANGED <<open, localConsent, phase>>
      BY <1>7 DEF RequestReversal, sessionVars
    <2>n. requested[s].reversals + 1 \in Nat
      BY DEF TypeOK
    <2>2. /\ m \in Message /\ m # Consent(FALSE)
          /\ m.kind \notin {"MediaSignal", "DiagnosticsRequest"}
      BY <2>n DEF ReversalRequest, Consent, Message
    <2> HIDE DEF m
    <2>3. <<m>> \in Seq(Message)
      BY <2>2
    <2>4. Says(s, <<m>>)
      BY <1>w, <2>1, <2>2, <2>3, Harmless
    <2> QED
      BY <1>u, <2>1, <2>4
  <1>8. CASE RequestDiagnostics(s)
    <2> DEFINE m == DiagnosticsRequest(requested[s].queries + 1)
    <2>1. Write(s, <<m>>) /\ UNCHANGED <<open, localConsent, phase>> /\ phase[s] = "Connected"
      BY <1>8 DEF RequestDiagnostics, sessionVars
    <2>n. requested[s].queries + 1 \in Nat
      BY DEF TypeOK
    <2>2. m \in Message /\ m # Consent(FALSE)
      BY <2>n DEF DiagnosticsRequest, Consent, Message
    <2> HIDE DEF m
    <2>3. <<m>> \in Seq(Message) /\ Elems(<<m>>) = {m}
      BY <2>2 DEF Elems
    <2>4. Says(s, <<m>>)
      BY <1>w, <2>1, <2>2, <2>3 DEF Says
    <2> QED
      BY <1>u, <2>1, <2>4
  <1>9. CASE SendMediaSignal(s)
    <2> DEFINE m == Plain("MediaSignal")
    <2>1. Write(s, <<m>>) /\ UNCHANGED <<open, localConsent, phase>> /\ phase[s] = "Connected"
      BY <1>9 DEF SendMediaSignal, sessionVars
    <2>2. m \in Message /\ m # Consent(FALSE)
      BY DEF Plain, Consent, Message, PlainKinds
    <2> HIDE DEF m
    <2>3. <<m>> \in Seq(Message) /\ Elems(<<m>>) = {m}
      BY <2>2 DEF Elems
    <2>4. Says(s, <<m>>)
      BY <1>w, <2>1, <2>2, <2>3 DEF Says
    <2> QED
      BY <1>u, <2>1, <2>4
  <1>10. CASE Disconnect(s)
    <2> DEFINE r == IF phase[s] \in SecurePhases THEN <<Plain("Disconnect")>> ELSE <<>>
    <2>1. Close(s, r, "None") /\ UNCHANGED localConsent
      BY <1>10 DEF Disconnect
    <2>2. r \in Seq(Message)
      BY Written DEF PlainKinds
    <2>3. \A m \in Elems(r) : m.kind \notin {"MediaSignal", "DiagnosticsRequest"}
      BY DEF Elems, Plain
    <2> HIDE DEF r
    <2> QED
      BY <2>1, <2>2, <2>3, QueueClose
  <1>11. CASE Dispose(s)
    <2>1. /\ \A p \in Sides : phase'[p] = IF p = s THEN "Closed" ELSE phase[p]
          /\ UNCHANGED localConsent
          /\ IF open[s] THEN WriteAndClose(s, <<>>) ELSE UNCHANGED <<open, chan>>
      BY <1>11 DEF Dispose, TypeOK
    <2>2. \A p \in Sides : (open'[p] => open[p]) /\ Elems(chan'[p]) \subseteq Carried(p, s, <<>>)
      <3>1. CASE open[s]
        BY <1>n, <2>1, <3>1, CloseCarries DEF WriteAndClose, TypeOK
      <3>2. CASE ~open[s]
        BY <2>1, <3>2 DEF Carried
      <3> QED
        BY <3>1, <3>2
    <2>3. Says(s, <<>>)
      BY <2>2, SaysNone
    <2>4. Lasts
      BY <2>1, <2>2, EachSide DEF Lasts
    <2> QED
      BY <2>3, <2>4
  <1> QED
    BY <1>1, <1>2, <1>3, <1>4, <1>5, <1>6, <1>7, <1>8, <1>9, <1>10, <1>11 DEF Timer, User

LEMMA QueueNext ==
  ASSUME TypeOK, ConsentInv, EntryInv, StageInv, QueueInv, [Next]_vars
  PROVE  QueueInv'
  <1>1. ASSUME NEW s \in Sides, Deliver(s) \/ Timer(s) \/ User(s) \/ SocketError(s)
        PROVE  QueueInv'
    <2>1. Lasts /\ \E r : Says(s, r)
      BY <1>1, QueueDeliver, QueueLocal
    <2> QED
      BY <2>1, QueueStep
  <1>2. CASE FinishRemember \/ FailRemember \/ EndTrust \/ LoseLink \/ UNCHANGED vars
    <2>1. UNCHANGED <<open, localConsent, chan>>
      BY <1>2 DEF FinishRemember, FailRemember, EndTrust, LoseLink, vars, sessionVars
    <2>2. phase'[Initiator] = phase[Initiator]
      BY <1>2, EachSide DEF FinishRemember, FailRemember, EndTrust, LoseLink, vars, sessionVars,
                            Establish, TypeOK
    <2>3. Lasts
      BY <2>1, <2>2 DEF Lasts
    <2>4. Says(Initiator, <<>>)
      BY <2>1, SaysNone, EachSide DEF Carried
    <2> QED
      BY <2>3, <2>4, QueueStep, EachSide
  <1> QED
    BY <1>1, <1>2 DEF Next

-----------------------------------------------------------------------------
(* Answers to an end whose peer has gone                                   *)

\* An answer under way is the only one and answers the pending request, also
\* when the side that sent it is no longer there.
DecisionInv ==
  \A s \in Sides : open[s] =>
    /\ Once(chan[s], "ReversalDecision")
    /\ \A m \in Answers(s) : m.id = outgoing[s] /\ outgoing[s] # 0

\* Nothing but what was there is under way to an end that is left alone.
Fewer ==
  \A s \in Sides : open'[s] /\ ~open'[Peer(s)] =>
    /\ open[s]
    /\ Of(chan'[s], "ReversalDecision") \subseteq Of(chan[s], "ReversalDecision")
    /\ Once(chan[s], "ReversalDecision") => Once(chan'[s], "ReversalDecision")

LEMMA DecisionsOfTwo ==
  ASSUME TokenInv, Both
  PROVE  DecisionInv
  BY DEF TokenInv, TokenOf, DecisionInv

LEMMA DecisionStep ==
  ASSUME DecisionInv, TokenInv', Fewer,
         \A s \in Sides : \/ outgoing'[s] = outgoing[s]
                          \/ outgoing[s] = 0
                          \/ open[s] => Of(chan'[s], "ReversalDecision") = {}
  PROVE  DecisionInv'
  <1>1. CASE Both'
    BY <1>1, DecisionsOfTwo, PTL
  <1>2. ASSUME NEW s \in Sides, open'[s], ~open'[Peer(s)]
        PROVE  /\ Once(chan'[s], "ReversalDecision")
               /\ \A m \in Of(chan'[s], "ReversalDecision") : m.id = outgoing'[s] /\ outgoing'[s] # 0
    <2>1. /\ open[s]
          /\ Of(chan'[s], "ReversalDecision") \subseteq Of(chan[s], "ReversalDecision")
          /\ Once(chan[s], "ReversalDecision") => Once(chan'[s], "ReversalDecision")
      BY <1>2 DEF Fewer
    <2>2. /\ Once(chan[s], "ReversalDecision")
          /\ \A m \in Of(chan[s], "ReversalDecision") : m.id = outgoing[s] /\ outgoing[s] # 0
      BY <2>1 DEF DecisionInv, Answers
    <2> QED
      BY <2>1, <2>2
  <1>3. CASE ~Both'
    <2>1. \A s \in Sides : open'[s] => ~open'[Peer(s)]
      BY <1>3, TwoSides DEF Both
    <2> QED
      BY <1>2, <2>1 DEF DecisionInv, Answers
  <1> QED
    BY <1>1, <1>3

\* A cut keeps the beginning.
LEMMA OfCut ==
  ASSUME NEW q \in Seq(Message), NEW n \in 0 .. Len(q), NEW k, k # "TransportClosed"
  PROVE  LET c == Append(SubSeq(q, 1, n), Plain("TransportClosed")) IN
         /\ Of(c, k) \subseteq Of(q, k)
         /\ Once(q, k) => Once(c, k)
  <1> DEFINE p == SubSeq(q, 1, n)
             x == Plain("TransportClosed")
             c == Append(p, x)
  <1>0. Len(q) \in Nat /\ n \in Nat /\ n <= Len(q)
    BY LenProperties
  <1>1. p \in Seq(Message) /\ Len(p) = n /\ \A i \in 1 .. n : p[i] = q[i]
    BY <1>0, SubSeqProperties
  <1>2. x \in Message /\ x.kind # k
    BY DEF Plain, Message, PlainKinds
  <1> HIDE DEF p, x
  <1>3. /\ Len(c) = n + 1 /\ c[n + 1] = x
        /\ \A i \in 1 .. n : c[i] = p[i]
    BY <1>1, <1>2, AppendProperties
  <1> HIDE DEF c
  <1>4. ASSUME NEW i \in 1 .. Len(c), c[i].kind = k
        PROVE  i \in 1 .. Len(q) /\ c[i] = q[i]
    <2>1. i # n + 1
      BY <1>2, <1>3, <1>4
    <2>2. i \in 1 .. n
      BY <1>0, <1>3, <2>1
    <2> QED
      BY <1>0, <1>1, <1>3, <2>2
  <1>5. Of(c, k) \subseteq Of(q, k)
    BY <1>4 DEF Of, Elems
  <1>6. Positions(c, k) \subseteq Positions(q, k)
    BY <1>4 DEF Positions
  <1> QED
    BY <1>5, <1>6 DEF Once, c, p, x

LEMMA FewerStill ==
  ASSUME UNCHANGED <<open, chan>>
  PROVE  Fewer
  BY DEF Fewer

LEMMA FewerWrite ==
  ASSUME TypeOK, NEW s \in Sides, NEW r, Write(s, r), UNCHANGED open
  PROVE  Fewer
  <1>1. chan'[s] = chan[s]
    BY TwoSides DEF Write, TypeOK
  <1>2. open[s] \/ chan' = chan
    BY DEF Write
  <1> QED
    BY <1>1, <1>2, TwoSides DEF Fewer

LEMMA FewerAnswer ==
  ASSUME TypeOK, NEW s \in Sides, NEW r, Answer(s, r), open[s], chan[s] # <<>>, UNCHANGED open
  PROVE  Fewer
  <1>1. chan'[s] = Tail(chan[s])
    BY TwoSides DEF Answer, TypeOK
  <1>2. /\ Of(chan'[s], "ReversalDecision") \subseteq Of(chan[s], "ReversalDecision")
        /\ Once(chan[s], "ReversalDecision") => Once(chan'[s], "ReversalDecision")
    <2>1. Takes(s, Head(chan[s]))
      BY <1>1, TakesHead
    <2>2. chan[s] \in Seq(Message)
      BY DEF TypeOK
    <2>3. Elems(chan'[s]) \subseteq Elems(chan[s])
      BY <1>1, <2>2, ElemsTail
    <2> QED
      BY <2>1, <2>3 DEF Takes, Of
  <1> QED
    BY <1>2, TwoSides DEF Fewer

LEMMA FewerCloses ==
  ASSUME TypeOK, NEW s \in Sides, NEW r, Silent(r),
         IF open[s] THEN WriteAndClose(s, r) ELSE UNCHANGED <<open, chan>>
  PROVE  Fewer
  <1>0. /\ Peer(s) \in Sides /\ Peer(s) # s
        /\ \A x \in Sides : x = s \/ x = Peer(s)
    BY TwoSides
  <1>1. CASE ~open[s]
    BY <1>1, FewerStill
  <1>2. ASSUME open[s], open[Peer(s)]
        PROVE  /\ Of(chan'[Peer(s)], "ReversalDecision")
                    \subseteq Of(chan[Peer(s)], "ReversalDecision")
               /\ Once(chan[Peer(s)], "ReversalDecision")
                    => Once(chan'[Peer(s)], "ReversalDecision")
    <2> DEFINE q == InFlight(Peer(s), r)
    <2>1. q = chan[Peer(s)] \o r
      BY <1>2 DEF InFlight
    <2>2. r \in Seq(Message) /\ chan[Peer(s)] \in Seq(Message)
      BY <1>0 DEF Silent, TypeOK
    <2>3. q \in Seq(Message)
      BY <2>1, <2>2, ConcatProperties
    <2>4. /\ Of(q, "ReversalDecision") = Of(chan[Peer(s)], "ReversalDecision")
          /\ Once(chan[Peer(s)], "ReversalDecision") => Once(q, "ReversalDecision")
      BY <2>1, <2>2, SilentConcat DEF ReversalKinds
    <2> HIDE DEF q
    <2>5. PICK n \in 0 .. Len(q) :
            chan' = [chan EXCEPT
              ![s] = <<>>,
              ![Peer(s)] = IF open[Peer(s)]
                           THEN Append(SubSeq(q, 1, n), Plain("TransportClosed"))
                           ELSE <<>>]
      BY <1>2 DEF WriteAndClose, q
    <2>6. chan'[Peer(s)] = Append(SubSeq(q, 1, n), Plain("TransportClosed"))
      BY <1>0, <1>2, <2>5 DEF TypeOK
    <2> QED
      BY <2>3, <2>4, <2>6, OfCut
  <1>3. CASE open[s]
    <2>1. ~open'[s] /\ open'[Peer(s)] = open[Peer(s)]
      BY <1>0, <1>3 DEF WriteAndClose, TypeOK
    <2> QED
      BY <1>0, <1>2, <1>3, <2>1 DEF Fewer
  <1> QED
    BY <1>1, <1>3

LEMMA FewerClose ==
  ASSUME TypeOK, NEW s \in Sides, NEW r, NEW c, Silent(r), Close(s, r, c)
  PROVE  Fewer /\ outgoing' = outgoing
  <1>1. IF open[s] THEN WriteAndClose(s, r) ELSE UNCHANGED <<open, chan>>
    BY DEF Close
  <1> QED
    BY <1>1, FewerCloses DEF Close

LEMMA DecisionInit == Init => DecisionInv
  <1> SUFFICES ASSUME Init PROVE DecisionInv
    OBVIOUS
  <1>1. Both /\ TokenInv
    BY ReversalInit DEF Init, Both
  <1> QED
    BY <1>1, DecisionsOfTwo

LEMMA DecisionDeliver ==
  ASSUME TypeOK, DecisionInv, TokenInv', NEW s \in Sides, Deliver(s)
  PROVE  DecisionInv'
  <1>r. \A k : Receives(s, k) => open[s] /\ chan[s] # <<>> /\ Head(chan[s]).kind = k
    BY DEF Receives
  <1>e. Silent(<<>>)
    BY SilentWrites
  <1>1. CASE \/ s = Responder /\ (HandleClientHello \/ HandleReady)
             \/ s = Initiator /\ (HandleReadyAcknowledged \/ (HandleServerHello /\ expected))
             \/ HandleConsentAccepted(s) \/ HandlePing(s) \/ HandlePong(s)
             \/ HandleReversalRequest(s)
             \/ HandleDiagnosticsRequest(s) \/ HandleDiagnosticsBatch(s) \/ HandleMediaSignal(s)
    <2>1. /\ \E k : Receives(s, k)
          /\ \E r : Answer(s, r)
          /\ UNCHANGED <<open, outgoing>>
      <3>1. CASE s = Responder /\ (HandleClientHello \/ HandleReady)
        BY <3>1 DEF HandleClientHello, HandleReady, EnterConsentPhase, requestVars
      <3>2. CASE s = Initiator /\ (HandleReadyAcknowledged \/ (HandleServerHello /\ expected))
        BY <3>2 DEF HandleReadyAcknowledged, HandleServerHello, EnterConsentPhase, requestVars
      <3>3. CASE HandleReversalRequest(s)
        BY <3>3 DEF HandleReversalRequest
      <3>4. CASE HandleConsentAccepted(s)
        BY <3>4 DEF HandleConsentAccepted, requestVars
      <3>5. CASE HandlePing(s) \/ HandlePong(s) \/ HandleDiagnosticsRequest(s)
                   \/ HandleDiagnosticsBatch(s) \/ HandleMediaSignal(s)
        BY <3>5 DEF HandlePing, HandlePong, HandleDiagnosticsRequest,
                    HandleDiagnosticsBatch, HandleMediaSignal, requestVars
      <3> QED
        BY <1>1, <3>1, <3>2, <3>3, <3>4, <3>5
    <2>2. Fewer
      BY <1>r, <2>1, FewerAnswer
    <2> QED
      BY <2>1, <2>2, DecisionStep
  <1>2. CASE \/ s = Initiator /\ HandleServerHello /\ ~expected
             \/ HandleConsentDeclined(s) \/ HandleDisconnect(s)
             \/ HandleTransportClosed(s) \/ RejectMessage(s)
    <2>1. \E c : Close(s, <<>>, c)
      BY <1>2 DEF HandleServerHello, HandleConsentDeclined, HandleDisconnect,
                  HandleTransportClosed, RejectMessage
    <2> QED
      BY <1>e, <2>1, FewerClose, DecisionStep
  <1>3. CASE HandleReversalDecision(s)
    <2>1. /\ Receives(s, "ReversalDecision") /\ Answer(s, <<>>) /\ UNCHANGED open
          /\ outgoing' = [outgoing EXCEPT ![s] = 0]
      BY <1>3 DEF HandleReversalDecision
    <2>2. Fewer
      BY <1>r, <2>1, FewerAnswer
    <2>3. Of(chan'[s], "ReversalDecision") = {}
      <3>1. chan'[s] = Tail(chan[s]) /\ chan[s] \in Seq(Message)
        BY <2>1, TwoSides DEF Answer, TypeOK
      <3>2. Once(chan[s], "ReversalDecision")
        BY <1>r, <2>1 DEF DecisionInv
      <3> QED
        BY <1>r, <2>1, <3>1, <3>2, OfTail
    <2>4. \A p \in Sides : outgoing'[p] = outgoing[p] \/ p = s
      BY <2>1 DEF TypeOK
    <2> QED
      BY <2>2, <2>3, <2>4, DecisionStep
  <1> QED
    BY <1>1, <1>2, <1>3 DEF Deliver

LEMMA DecisionLocal ==
  ASSUME TypeOK, DecisionInv, TokenInv', NEW s \in Sides, Timer(s) \/ User(s) \/ SocketError(s)
  PROVE  DecisionInv'
  <1>e. /\ Silent(<<>>) /\ Silent(<<Consent(FALSE)>>) /\ Silent(<<Plain("Disconnect")>>)
    BY SilentWrites DEF PlainKinds
  <1>1. CASE \/ HandshakeTimeout(s) \/ SocketError(s) \/ DeclinePairing(s) \/ Disconnect(s)
             \/ KeepAliveTick(s) /\ Overdue(s)
    <2>1. \E r, c : Silent(r) /\ Close(s, r, c)
      BY <1>e, <1>1 DEF HandshakeTimeout, SocketError, DeclinePairing, Disconnect, KeepAliveTick
    <2> QED
      BY <2>1, FewerClose, DecisionStep
  <1>2. CASE Dispose(s)
    <2>1. /\ IF open[s] THEN WriteAndClose(s, <<>>) ELSE UNCHANGED <<open, chan>>
          /\ outgoing' = outgoing
      BY <1>2 DEF Dispose
    <2> QED
      BY <1>e, <2>1, FewerCloses, DecisionStep
  <1>3. CASE DiagnosticsTimeout(s)
    <2>1. UNCHANGED <<open, chan, outgoing>>
      BY <1>3 DEF DiagnosticsTimeout
    <2> QED
      BY <2>1, FewerStill, DecisionStep
  <1>4. ASSUME \/ KeepAliveTick(s) /\ ~Overdue(s)
               \/ s = Responder /\ AcceptPairing
               \/ \E yes \in BOOLEAN : RespondToReversal(s, yes)
               \/ RequestReversal(s) \/ RequestDiagnostics(s) \/ SendMediaSignal(s)
        PROVE  DecisionInv'
    <2>1. /\ \E r : Write(s, r)
          /\ UNCHANGED open
          /\ outgoing' = outgoing \/ (outgoing[s] = 0 /\ \E n : outgoing' = [outgoing EXCEPT ![s] = n])
      BY <1>4 DEF KeepAliveTick, AcceptPairing, RespondToReversal, RequestReversal,
                  RequestDiagnostics, SendMediaSignal, sessionVars, requestVars
    <2>2. Fewer
      BY <2>1, FewerWrite
    <2>3. \A p \in Sides : outgoing'[p] = outgoing[p] \/ outgoing[p] = 0
      BY <2>1 DEF TypeOK
    <2> QED
      BY <2>2, <2>3, DecisionStep
  <1> QED
    BY <1>1, <1>2, <1>3, <1>4 DEF Timer, User

LEMMA DecisionNext ==
  ASSUME TypeOK, DecisionInv, TokenInv', [Next]_vars
  PROVE  DecisionInv'
  <1>1. CASE FinishRemember \/ FailRemember \/ EndTrust \/ LoseLink \/ UNCHANGED vars
    <2>1. UNCHANGED <<open, chan, outgoing>>
      BY <1>1 DEF FinishRemember, FailRemember, EndTrust, LoseLink, vars, requestVars
    <2> QED
      BY <2>1, FewerStill, DecisionStep
  <1> QED
    BY <1>1, DecisionDeliver, DecisionLocal DEF Next

-----------------------------------------------------------------------------
(* The order of all messages                                               *)

\* How far a side has got in what it may write.
LEMMA ToldLevel ==
  ASSUME TypeOK, ConsentInv, EntryInv, StageInv, NEW s \in Sides, open[s]
  PROVE  /\ Told(s) \in Stages
         /\ phase[s] \in SecurePhases => Told(s) >= 1
         /\ phase[s] \notin HandshakePhases => Told(s) >= 2
         /\ keepAlive[s] => Told(s) >= 2
         /\ phase[s] = "Connected" => Told(s) = 3
         /\ phase[s] \notin HandshakePhases /\ localConsent[s] # "Accepted" => Told(s) = 2
         /\ s = Initiator /\ phase[s] \notin HandshakePhases => Told(s) = 3
  <1>1. Told(s) \in Stages
    BY StagesOf
  <1>2. phase[s] \notin HandshakePhases =>
          Told(s) = IF localConsent[s] = "Accepted" THEN 3 ELSE 2
    BY DEF Told, HandshakePhases
  <1>3. phase[s] \in SecurePhases => Told(s) >= 1
    BY <1>2 DEF SecurePhases, Told, HandshakePhases
  <1>4. keepAlive[s] => phase[s] \notin HandshakePhases
    BY DEF StageInv
  <1>5. phase[s] = "Connected" => localConsent[s] = "Accepted" /\ phase[s] \notin HandshakePhases
    BY DEF ConsentInv, HandshakePhases
  <1>6. s = Initiator /\ phase[s] \notin HandshakePhases => localConsent[s] = "Accepted"
    <2>1. phase[s] \in Phases /\ phase[s] # "Closed"
      BY DEF TypeOK, EntryInv
    <2> QED
      BY <1>5, <2>1 DEF StageInv, Phases
  <1> QED
    BY <1>1, <1>2, <1>3, <1>4, <1>5, <1>6

\* The consents and phases of a side say how far it has got.
LEMMA SameStages ==
  ASSUME NEW p, phase'[p] = phase[p], localConsent'[p] = localConsent[p],
         remoteConsent'[p] = remoteConsent[p]
  PROVE  Heard(p)' = Heard(p) /\ Told(p)' = Told(p)
  BY DEF Heard, Told

\* Messages other than hellos, confirmations and consents leave the stage.
LEMMA LeadsNowhere ==
  ASSUME NEW s, NEW m, NEW l, NEW n, Leads(s, m, l, n),
         m.kind \notin {"ClientHello", "ServerHello", "Ready", "ReadyAcknowledged",
                        "ConsentDecision"}
  PROVE  n = l
  BY DEF Leads, Opens, Plain, Consent

LEMMA PathLate ==
  ASSUME NEW s, NEW m \in Message, NEW l \in Stages, l >= 1,
         m.kind \in {"Disconnect", "Pong", "ReversalRequest", "ReversalDecision",
                     "DiagnosticsBatch"}
  PROVE  Path(s, <<m>>, l, l)
  <1>1. Leads(s, m, l, l)
    BY DEF Leads, Suits
  <1> QED
    BY <1>1, PathOne

LEMMA PathHealth ==
  ASSUME NEW s, NEW k \in {"Ping", "Pong"}, NEW q \in Sides, NEW l \in Stages,
         IF k = "Ping" THEN l >= 2 ELSE l >= 1
  PROVE  Path(s, HealthCheck(q, k), l, l)
  <1>1. Plain(k) \in Message /\ Plain(k).kind = k
    BY DEF Plain, Message, PlainKinds
  <1>2. Leads(s, Plain(k), l, l)
    BY <1>1 DEF Leads, Suits
  <1>3. Path(s, <<Plain(k)>>, l, l)
    BY <1>1, <1>2, PathOne
  <1> QED
    BY <1>3, PathNone DEF HealthCheck

\* Reading a message that leads nowhere, without an answer or with one the
\* peer can read at any time.
LEMMA OrderReads ==
  ASSUME TypeOK, OrderInv, NEW s \in Sides, NEW r \in Seq(Message), Answer(s, r),
         open[s], chan[s] # <<>>, UNCHANGED <<open, phase, localConsent, remoteConsent>>,
         Head(chan[s]).kind \notin {"ClientHello", "ServerHello", "Ready",
                                    "ReadyAcknowledged", "ConsentDecision"},
         Path(Peer(s), r, Told(s), Told(s))
  PROVE  OrderInv'
  <1>1. Heard(s)' = Heard(s) /\ Told(s)' = Told(s)
    BY SameStages
  <1>2. Heard(Peer(s))' = Heard(Peer(s)) /\ Told(Peer(s))' = Told(Peer(s))
    BY SameStages
  <1>3. \A n \in Stages : Leads(s, Head(chan[s]), Heard(s), n) => Heard(s)' = n
    BY <1>1, LeadsNowhere
  <1> QED
    BY <1>1, <1>2, <1>3, OrderAnswers

LEMMA OrderSays ==
  ASSUME TypeOK, OrderInv, NEW s \in Sides, NEW r \in Seq(Message), Write(s, r),
         UNCHANGED <<open, phase, localConsent, remoteConsent>>,
         open[s] => Path(Peer(s), r, Told(s), Told(s))
  PROVE  OrderInv'
  <1>1. Heard(s)' = Heard(s) /\ Told(s)' = Told(s)
    BY SameStages
  <1>2. Heard(Peer(s))' = Heard(Peer(s)) /\ Told(Peer(s))' = Told(Peer(s))
    BY SameStages
  <1> QED
    BY <1>1, <1>2, OrderWrites

\* closeWithError, with nothing to say.
LEMMA OrderClose ==
  ASSUME TypeOK, OrderInv, NEW s \in Sides, NEW c, Close(s, <<>>, c),
         \A p \in Sides : p # s => localConsent'[p] = localConsent[p]
                                     /\ remoteConsent'[p] = remoteConsent[p]
  PROVE  OrderInv'
  <1>1. /\ phase' = [phase EXCEPT ![s] = "Closed"]
        /\ IF open[s] THEN WriteAndClose(s, <<>>) ELSE UNCHANGED <<open, chan>>
    BY DEF Close
  <1>2. Path(Peer(s), <<>>, Told(s), Told(s)) /\ <<>> \in Seq(Message)
    BY PathNone, StagesOf
  <1> QED
    BY <1>1, <1>2, OrderCloses

LEMMA OrderDeliver ==
  ASSUME TypeOK, ConsentInv, EntryInv, StageInv, OrderInv, NEW s \in Sides, Deliver(s)
  PROVE  OrderInv'
  <1>r. \A k : Receives(s, k) => /\ chan[s] # <<>> /\ Head(chan[s]).kind = k
                                /\ open[s] /\ phase[s] \in AcceptingPhases(k)
    BY DEF Receives
  <1>h. chan[s] # <<>> => Head(chan[s]) \in Message
    BY HeadIsCarried
  <1>p. /\ Peer(s) \in Sides /\ Peer(s) # s
    BY TwoSides
  <1>n. <<>> \in Seq(Message) /\ Path(Peer(s), <<>>, Told(s), Told(s))
    BY PathNone, StagesOf
  <1>1. CASE s = Responder /\ HandleClientHello
    <2> DEFINE m == Plain("ServerHello")
    <2>1. /\ Receives(s, "ClientHello") /\ Answer(s, <<m>>)
          /\ UNCHANGED <<open, localConsent, remoteConsent>>
          /\ phase' = [phase EXCEPT ![s] = "AwaitingSecureReady"]
      BY <1>1 DEF HandleClientHello
    <2>a. phase[s] = "AwaitingClientHello"
      BY <1>r, <2>1 DEF AcceptingPhases
    <2>2. phase'[s] = "AwaitingSecureReady" /\ phase'[Peer(s)] = phase[Peer(s)]
      BY <1>p, <2>1 DEF TypeOK
    <2>3. Heard(s) = 0 /\ Heard(s)' = 1 /\ Told(s) = 0 /\ Told(s)' = 1
      BY <2>a, <2>2 DEF Heard, Told
    <2>4. \A n \in Stages : Leads(s, Head(chan[s]), 0, n) => n = 1
      BY <1>r, <2>1 DEF Leads, Suits, Consent
    <2>5. m \in Message /\ Leads(Peer(s), m, 0, 1)
      BY <1>1, EachSide DEF Plain, Message, PlainKinds, Leads, Opens
    <2> HIDE DEF m
    <2>6. <<m>> \in Seq(Message) /\ Path(Peer(s), <<m>>, 0, 1)
      BY <2>5, PathOne DEF Stages
    <2>7. Heard(Peer(s))' = Heard(Peer(s)) /\ Told(Peer(s))' = Told(Peer(s))
      BY <2>1, <2>2, SameStages
    <2> QED
      BY <1>r, <2>1, <2>3, <2>4, <2>6, <2>7, OrderAnswers
  <1>2. CASE s = Initiator /\ HandleServerHello
    <2>a. CASE expected
      <3> DEFINE m == Plain("Ready")
      <3>1. /\ Receives(s, "ServerHello") /\ Answer(s, <<m>>)
            /\ UNCHANGED <<open, localConsent, remoteConsent>>
            /\ phase' = [phase EXCEPT ![s] = "AwaitingSecureAcknowledgement"]
        BY <1>2, <2>a DEF HandleServerHello
      <3>a. phase[s] = "AwaitingServerHello"
        BY <1>r, <3>1 DEF AcceptingPhases
      <3>2. phase'[s] = "AwaitingSecureAcknowledgement" /\ phase'[Peer(s)] = phase[Peer(s)]
        BY <1>p, <3>1 DEF TypeOK
      <3>3. Heard(s) = 0 /\ Heard(s)' = 1 /\ Told(s) = 1 /\ Told(s)' = 2
        BY <3>a, <3>2 DEF Heard, Told
      <3>4. \A n \in Stages : Leads(s, Head(chan[s]), 0, n) => n = 1
        BY <1>r, <3>1 DEF Leads, Suits, Consent
      <3>5. m \in Message /\ Leads(Peer(s), m, 1, 2)
        BY <1>2, EachSide DEF Plain, Message, PlainKinds, Leads, Opens
      <3> HIDE DEF m
      <3>6. <<m>> \in Seq(Message) /\ Path(Peer(s), <<m>>, 1, 2)
        BY <3>5, PathOne DEF Stages
      <3>7. Heard(Peer(s))' = Heard(Peer(s)) /\ Told(Peer(s))' = Told(Peer(s))
        BY <3>1, <3>2, SameStages
      <3> QED
        BY <1>r, <3>1, <3>3, <3>4, <3>6, <3>7, OrderAnswers
    <2>b. CASE ~expected
      BY <1>2, <2>b, OrderClose DEF HandleServerHello
    <2> QED
      BY <2>a, <2>b
  <1>3. CASE s = Responder /\ HandleReady
    <2> DEFINE a == Plain("ReadyAcknowledged")
               b == Consent(TRUE)
    <2>1. /\ Receives(s, "Ready") /\ Answer(s, ReadyAnswer)
          /\ UNCHANGED <<open, remoteConsent>>
          /\ phase' = [phase EXCEPT ![s] = "AwaitingConsent"]
          /\ localConsent' = IF paired THEN [localConsent EXCEPT ![s] = "Accepted"]
                             ELSE localConsent
      BY <1>3 DEF HandleReady, EnterConsentPhase
    <2>a. phase[s] = "AwaitingSecureReady"
      BY <1>r, <2>1 DEF AcceptingPhases
    <2>2. /\ phase'[s] = "AwaitingConsent" /\ phase'[Peer(s)] = phase[Peer(s)]
          /\ localConsent'[Peer(s)] = localConsent[Peer(s)]
      BY <1>p, <2>1 DEF TypeOK
    <2>3. localConsent[s] = "Unset" /\ remoteConsent[s] = "Unset"
      BY <2>a DEF StageInv, HandshakePhases
    <2>4. localConsent'[s] = IF paired THEN "Accepted" ELSE "Unset"
      BY <2>1, <2>3 DEF TypeOK
    <2>5. /\ Heard(s) = 1 /\ Heard(s)' = 2 /\ Told(s) = 1
          /\ Told(s)' = IF paired THEN 3 ELSE 2
      BY <2>1, <2>a, <2>2, <2>3, <2>4 DEF Heard, Told
    <2>6. \A n \in Stages : Leads(s, Head(chan[s]), 1, n) => n = 2
      BY <1>r, <2>1 DEF Leads, Suits, Consent
    <2>7. /\ a \in Message /\ Leads(Peer(s), a, 1, 2)
          /\ b \in Message /\ Leads(Peer(s), b, 2, 3)
      BY <1>3, EachSide DEF Plain, Consent, Message, PlainKinds, Leads, Opens
    <2>8. ReadyAnswer = IF paired THEN <<a, b>> ELSE <<a>>
      BY DEF ReadyAnswer
    <2> HIDE DEF a, b
    <2>9. Path(Peer(s), <<a>>, 1, 2)
      BY <2>7, PathOne DEF Stages
    <2>10. Path(Peer(s), <<a, b>>, 1, 3)
      BY <2>7, PathTwo DEF Stages
    <2>11. ReadyAnswer \in Seq(Message) /\ Path(Peer(s), ReadyAnswer, Told(s), Told(s)')
      BY <2>5, <2>8, <2>9, <2>10, Written
    <2>12. Heard(Peer(s))' = Heard(Peer(s)) /\ Told(Peer(s))' = Told(Peer(s))
      BY <2>1, <2>2, SameStages
    <2> QED
      BY <1>r, <2>1, <2>5, <2>6, <2>11, <2>12, OrderAnswers
  <1>4. CASE s = Initiator /\ HandleReadyAcknowledged
    <2> DEFINE m == Consent(TRUE)
    <2>1. /\ Receives(s, "ReadyAcknowledged") /\ Answer(s, <<m>>)
          /\ UNCHANGED <<open, remoteConsent>>
          /\ phase' = [phase EXCEPT ![s] = "AwaitingConsent"]
          /\ localConsent' = [localConsent EXCEPT ![s] = "Accepted"]
      BY <1>4 DEF HandleReadyAcknowledged, EnterConsentPhase
    <2>a. phase[s] = "AwaitingSecureAcknowledgement"
      BY <1>r, <2>1 DEF AcceptingPhases
    <2>2. /\ phase'[s] = "AwaitingConsent" /\ phase'[Peer(s)] = phase[Peer(s)]
          /\ localConsent'[Peer(s)] = localConsent[Peer(s)] /\ localConsent'[s] = "Accepted"
      BY <1>p, <2>1 DEF TypeOK
    <2>3. remoteConsent[s] = "Unset"
      BY <2>a DEF StageInv, HandshakePhases
    <2>4. Heard(s) = 1 /\ Heard(s)' = 2 /\ Told(s) = 2 /\ Told(s)' = 3
      BY <2>1, <2>a, <2>2, <2>3 DEF Heard, Told
    <2>5. \A n \in Stages : Leads(s, Head(chan[s]), 1, n) => n = 2
      BY <1>r, <2>1 DEF Leads, Suits, Consent
    <2>6. m \in Message /\ Leads(Peer(s), m, 2, 3)
      BY DEF Consent, Message, Leads, Opens
    <2> HIDE DEF m
    <2>7. <<m>> \in Seq(Message) /\ Path(Peer(s), <<m>>, 2, 3)
      BY <2>6, PathOne DEF Stages
    <2>8. Heard(Peer(s))' = Heard(Peer(s)) /\ Told(Peer(s))' = Told(Peer(s))
      BY <2>1, <2>2, SameStages
    <2> QED
      BY <1>r, <2>1, <2>4, <2>5, <2>7, <2>8, OrderAnswers
  <1>5. CASE HandleConsentAccepted(s)
    <2>1. /\ Receives(s, "ConsentDecision") /\ Head(chan[s]).accepted /\ Answer(s, <<>>)
          /\ UNCHANGED <<open, localConsent>>
          /\ remoteConsent' = [remoteConsent EXCEPT ![s] = "Accepted"]
          /\ UNCHANGED phase \/ phase' = [phase EXCEPT ![s] = "Connected"]
      BY <1>5 DEF HandleConsentAccepted, Establish
    <2>a. phase[s] = "AwaitingConsent"
      BY <1>r, <2>1 DEF AcceptingPhases
    <2>2. /\ phase'[s] \in {"AwaitingConsent", "Connected"}
          /\ phase'[Peer(s)] = phase[Peer(s)]
          /\ remoteConsent'[s] = "Accepted"
          /\ remoteConsent'[Peer(s)] = remoteConsent[Peer(s)]
      BY <1>p, <2>1, <2>a DEF TypeOK
    <2>3. Head(chan[s]) = Consent(TRUE)
      <3>1. Head(chan[s]).kind = "ConsentDecision" /\ Head(chan[s]) \in Message
        BY <1>r, <1>h, <2>1
      <3>2. Head(chan[s]).accepted = TRUE /\ Head(chan[s]) = Consent(Head(chan[s]).accepted)
        BY <2>1, <3>1, MessageFields
      <3> QED
        BY <3>2
    <2>4. Heard(s)' = 3 /\ Told(s)' = Told(s)
      BY <2>1, <2>a, <2>2 DEF Heard, Told
    <2>5. \A l \in {2, 3}, n \in Stages : Leads(s, Consent(TRUE), l, n) => n = 3
      BY DEF Leads, Opens, Suits, Consent
    <2>6. Heard(s) \in {2, 3}
      BY <2>a DEF Heard
    <2>7. Heard(Peer(s))' = Heard(Peer(s)) /\ Told(Peer(s))' = Told(Peer(s))
      BY <2>1, <2>2, SameStages
    <2> QED
      BY <1>r, <1>n, <2>1, <2>3, <2>4, <2>5, <2>6, <2>7, OrderAnswers
  <1>6. CASE HandleConsentDeclined(s)
    <2>1. remoteConsent' = [remoteConsent EXCEPT ![s] = "Declined"]
      BY <1>6 DEF HandleConsentDeclined
    <2> QED
      BY <1>6, <2>1, OrderClose DEF HandleConsentDeclined, TypeOK
  <1>7. CASE HandleDisconnect(s) \/ HandleTransportClosed(s) \/ RejectMessage(s)
    BY <1>7, OrderClose DEF HandleDisconnect, HandleTransportClosed, RejectMessage
  <1>8. CASE HandlePing(s)
    <2>1. /\ Receives(s, "Ping") /\ Answer(s, HealthCheck(Peer(s), "Pong"))
          /\ UNCHANGED <<open, phase, localConsent, remoteConsent>>
      BY <1>8 DEF HandlePing, sessionVars
    <2>h. open[s] /\ chan[s] # <<>> /\ Head(chan[s]).kind = "Ping"
      BY <1>r, <2>1
    <2>2. phase[s] \in SecurePhases
      BY <1>r, <2>1 DEF AcceptingPhases, SecurePhases, Phases
    <2>3. Told(s) \in Stages /\ Told(s) >= 1
      BY <1>r, <2>1, <2>2, ToldLevel
    <2>4. /\ HealthCheck(Peer(s), "Pong") \in Seq(Message)
          /\ Path(Peer(s), HealthCheck(Peer(s), "Pong"), Told(s), Told(s))
      BY <1>p, <2>3, Written, PathHealth DEF PlainKinds
    <2> QED
      BY <2>h, <2>1, <2>4, OrderReads
  <1>9. CASE HandlePong(s) \/ HandleMediaSignal(s) \/ HandleDiagnosticsBatch(s)
               \/ HandleReversalDecision(s)
    <2>1. PICK k : /\ k \in {"Pong", "MediaSignal", "DiagnosticsBatch", "ReversalDecision"}
                   /\ Receives(s, k) /\ Answer(s, <<>>)
                   /\ UNCHANGED <<open, phase, localConsent, remoteConsent>>
      BY <1>9 DEF HandlePong, HandleMediaSignal, HandleDiagnosticsBatch,
                  HandleReversalDecision, sessionVars
    <2>h. open[s] /\ chan[s] # <<>> /\ Head(chan[s]).kind = k
      BY <1>r, <2>1
    <2> QED
      BY <2>h, <1>n, <2>1, OrderReads
  <1>10. CASE HandleReversalRequest(s)
    <2> DEFINE m == ReversalDecision(Head(chan[s]).id, FALSE)
    <2>1. /\ Receives(s, "ReversalRequest")
          /\ Answer(s, <<>>) \/ Answer(s, <<m>>)
          /\ UNCHANGED <<open, phase, localConsent, remoteConsent>>
      BY <1>10 DEF HandleReversalRequest
    <2>2. m \in Message /\ m.kind = "ReversalDecision"
      <3>1. Head(chan[s]).id \in Nat
        BY <1>r, <1>h, <2>1, MessageFields
      <3> QED
        BY <3>1 DEF ReversalDecision, Message
    <2>3. Told(s) \in Stages /\ Told(s) >= 1
      BY <1>r, <2>1, ToldLevel DEF AcceptingPhases
    <2> HIDE DEF m
    <2>4. <<m>> \in Seq(Message) /\ Path(Peer(s), <<m>>, Told(s), Told(s))
      BY <2>2, <2>3, PathLate
    <2>h. open[s] /\ chan[s] # <<>> /\ Head(chan[s]).kind = "ReversalRequest"
      BY <1>r, <2>1
    <2> QED
      BY <2>h, <1>n, <2>1, <2>4, OrderReads
  <1>11. CASE HandleDiagnosticsRequest(s)
    <2> DEFINE m == DiagnosticsBatch(Head(chan[s]).id)
    <2>1. /\ Receives(s, "DiagnosticsRequest") /\ Answer(s, <<m>>)
          /\ UNCHANGED <<open, phase, localConsent, remoteConsent>>
      BY <1>11 DEF HandleDiagnosticsRequest, sessionVars
    <2>2. m \in Message /\ m.kind = "DiagnosticsBatch"
      <3>1. Head(chan[s]).id \in Nat
        BY <1>r, <1>h, <2>1, MessageFields
      <3> QED
        BY <3>1 DEF DiagnosticsBatch, Message
    <2>3. Told(s) \in Stages /\ Told(s) >= 1
      <3>1. phase[s] = "Connected"
        BY <1>r, <2>1 DEF AcceptingPhases
      <3> QED
        BY <1>r, <2>1, <3>1, ToldLevel
    <2> HIDE DEF m
    <2>4. <<m>> \in Seq(Message) /\ Path(Peer(s), <<m>>, Told(s), Told(s))
      BY <2>2, <2>3, PathLate
    <2>h. open[s] /\ chan[s] # <<>> /\ Head(chan[s]).kind = "DiagnosticsRequest"
      BY <1>r, <2>1
    <2> QED
      BY <2>h, <2>1, <2>4, OrderReads
  <1> QED
    BY <1>1, <1>2, <1>3, <1>4, <1>5, <1>6, <1>7, <1>8, <1>9, <1>10, <1>11 DEF Deliver

LEMMA OrderLocal ==
  ASSUME TypeOK, ConsentInv, EntryInv, StageInv, OrderInv, NEW s \in Sides,
         Timer(s) \/ User(s) \/ SocketError(s)
  PROVE  OrderInv'
  <1>p. /\ Peer(s) \in Sides /\ Peer(s) # s
    BY TwoSides
  <1>t. \A k \in Stages : Told(s) = k => k \in Stages
    OBVIOUS
  <1>1. CASE HandshakeTimeout(s) \/ SocketError(s)
    BY <1>1, OrderClose DEF HandshakeTimeout, SocketError
  <1>2. CASE KeepAliveTick(s)
    <2>1. CASE Overdue(s)
      BY <1>2, <2>1, OrderClose DEF KeepAliveTick
    <2>2. CASE ~Overdue(s)
      <3>1. /\ keepAlive[s] /\ Write(s, HealthCheck(Peer(s), "Ping"))
            /\ UNCHANGED <<open, phase, localConsent, remoteConsent>>
        BY <1>2, <2>2 DEF KeepAliveTick
      <3>2. HealthCheck(Peer(s), "Ping") \in Seq(Message)
        BY <1>p, Written DEF PlainKinds
      <3>3. open[s] => Path(Peer(s), HealthCheck(Peer(s), "Ping"), Told(s), Told(s))
        BY <1>p, <3>1, ToldLevel, PathHealth
      <3> QED
        BY <3>1, <3>2, <3>3, OrderSays
    <2> QED
      BY <2>1, <2>2
  <1>3. CASE DiagnosticsTimeout(s)
    <2>1. UNCHANGED <<open, chan, phase, localConsent, remoteConsent>>
      BY <1>3 DEF DiagnosticsTimeout, sessionVars
    <2> QED
      BY <2>1, OrderStill, SameStages
  <1>4. CASE s = Responder /\ AcceptPairing
    <2> DEFINE m == Consent(TRUE)
    <2>1. /\ open[s] /\ prompt[s] = "EnterVerificationCode" /\ Write(s, <<m>>)
          /\ UNCHANGED <<open, phase, remoteConsent>>
          /\ localConsent' = [localConsent EXCEPT ![s] = "Accepted"]
      BY <1>4 DEF AcceptPairing
    <2>2. phase[s] = "AwaitingConsent" /\ localConsent[s] # "Accepted"
      BY <1>4, <2>1 DEF EntryInv, ConsentInv, PairingPrompts
    <2>3. /\ localConsent'[s] = "Accepted"
          /\ localConsent'[Peer(s)] = localConsent[Peer(s)]
      BY <1>p, <2>1 DEF TypeOK
    <2>4. Heard(s)' = Heard(s) /\ Told(s) = 2 /\ Told(s)' = 3
      BY <2>1, <2>2, <2>3 DEF Heard, Told
    <2>5. m \in Message /\ Leads(Peer(s), m, 2, 3)
      BY DEF Consent, Message, Leads, Opens
    <2> HIDE DEF m
    <2>6. <<m>> \in Seq(Message) /\ Path(Peer(s), <<m>>, 2, 3)
      BY <2>5, PathOne DEF Stages
    <2>7. Heard(Peer(s))' = Heard(Peer(s)) /\ Told(Peer(s))' = Told(Peer(s))
      BY <2>1, <2>3, SameStages
    <2> QED
      BY <2>1, <2>4, <2>6, <2>7, OrderWrites
  <1>5. CASE DeclinePairing(s)
    <2> DEFINE m == Consent(FALSE)
    <2>1. /\ open[s] /\ prompt[s] \in PairingPrompts
          /\ localConsent' = [localConsent EXCEPT ![s] = "Declined"]
          /\ UNCHANGED remoteConsent
          /\ phase' = [phase EXCEPT ![s] = "Closed"]
          /\ IF open[s] THEN WriteAndClose(s, <<m>>) ELSE UNCHANGED <<open, chan>>
      BY <1>5 DEF DeclinePairing, Close
    <2>2. phase[s] \notin HandshakePhases
      BY <2>1 DEF StageInv, PairingPrompts
    <2>3. Told(s) = IF s = Initiator THEN 3 ELSE 2
      <3>1. CASE s = Initiator
        BY <2>1, <2>2, <3>1, ToldLevel
      <3>2. CASE s = Responder
        <4>1. localConsent[s] # "Accepted"
          BY <2>1, <3>2 DEF ConsentInv
        <4> QED
          BY <2>1, <2>2, <3>2, <4>1, ToldLevel, EachSide
      <3> QED
        BY <3>1, <3>2, EachSide
    <2>4. m \in Message /\ Leads(Peer(s), m, Told(s), Told(s))
      BY <2>3, EachSide DEF Consent, Message, Leads, Suits
    <2> HIDE DEF m
    <2>5. <<m>> \in Seq(Message) /\ Path(Peer(s), <<m>>, Told(s), Told(s))
      BY <2>4, PathOne, StagesOf
    <2>6. \A p \in Sides : p # s => localConsent'[p] = localConsent[p]
                                      /\ remoteConsent'[p] = remoteConsent[p]
      BY <2>1 DEF TypeOK
    <2> QED
      BY <2>1, <2>5, <2>6, OrderCloses
  <1>6. ASSUME NEW yes \in BOOLEAN, RespondToReversal(s, yes)
        PROVE  OrderInv'
    <2> DEFINE m == ReversalDecision(incoming[s], yes)
    <2>1. /\ open[s] /\ prompt[s] = "Reversal" /\ Write(s, <<m>>)
          /\ UNCHANGED <<open, phase, localConsent, remoteConsent>>
      BY <1>6 DEF RespondToReversal
    <2>2. m \in Message /\ m.kind = "ReversalDecision"
      BY <1>6 DEF ReversalDecision, Message, TypeOK
    <2>3. phase[s] \notin HandshakePhases
      BY <2>1 DEF StageInv
    <2>4. Told(s) \in Stages /\ Told(s) >= 1
      BY <2>1, <2>3, ToldLevel DEF Stages
    <2> HIDE DEF m
    <2>5. <<m>> \in Seq(Message) /\ Path(Peer(s), <<m>>, Told(s), Told(s))
      BY <2>2, <2>4, PathLate
    <2> QED
      BY <2>1, <2>5, OrderSays
  <1>7. CASE RequestReversal(s)
    <2> DEFINE m == ReversalRequest(requested[s].reversals + 1)
    <2>1. /\ phase[s] = "Connected" /\ Write(s, <<m>>)
          /\ UNCHANGED <<open, phase, localConsent, remoteConsent>>
      BY <1>7 DEF RequestReversal, sessionVars
    <2>n. requested[s].reversals + 1 \in Nat
      BY DEF TypeOK
    <2>2. m \in Message /\ m.kind = "ReversalRequest"
      BY <2>n DEF ReversalRequest, Message
    <2> HIDE DEF m
    <2>3. <<m>> \in Seq(Message)
      BY <2>2
    <2>4. open[s] => Path(Peer(s), <<m>>, Told(s), Told(s))
      <3>1. open[s] => Told(s) \in Stages /\ Told(s) >= 1
        BY <2>1, ToldLevel
      <3> QED
        BY <2>2, <3>1, PathLate
    <2> QED
      BY <2>1, <2>3, <2>4, OrderSays
  <1>8. CASE RequestDiagnostics(s) \/ SendMediaSignal(s)
    <2>1. PICK m : /\ m \in Message /\ m.kind \in {"MediaSignal", "DiagnosticsRequest"}
                   /\ phase[s] = "Connected" /\ open[s] /\ Write(s, <<m>>)
                   /\ UNCHANGED <<open, phase, localConsent, remoteConsent>>
      <3>1. CASE RequestDiagnostics(s)
        <4>1. requested[s].queries + 1 \in Nat
          BY DEF TypeOK
        <4>2. /\ DiagnosticsRequest(requested[s].queries + 1) \in Message
              /\ DiagnosticsRequest(requested[s].queries + 1).kind = "DiagnosticsRequest"
          BY <4>1 DEF DiagnosticsRequest, Message
        <4> QED
          BY <3>1, <4>2 DEF RequestDiagnostics, sessionVars
      <3>2. CASE SendMediaSignal(s)
        <4>1. Plain("MediaSignal") \in Message /\ Plain("MediaSignal").kind = "MediaSignal"
          BY DEF Plain, Message, PlainKinds
        <4> QED
          BY <3>2, <4>1 DEF SendMediaSignal, sessionVars
      <3> QED
        BY <1>8, <3>1, <3>2
    <2>2. Told(s) = 3
      BY <2>1, ToldLevel
    <2>3. Leads(Peer(s), m, 3, 3)
      BY <2>1 DEF Leads, Suits
    <2>4. <<m>> \in Seq(Message) /\ Path(Peer(s), <<m>>, 3, 3)
      BY <2>1, <2>3, PathOne DEF Stages
    <2> QED
      BY <2>1, <2>2, <2>4, OrderSays
  <1>9. CASE Disconnect(s)
    <2> DEFINE r == IF phase[s] \in SecurePhases THEN <<Plain("Disconnect")>> ELSE <<>>
    <2>1. /\ UNCHANGED <<localConsent, remoteConsent>>
          /\ phase' = [phase EXCEPT ![s] = "Closed"]
          /\ IF open[s] THEN WriteAndClose(s, r) ELSE UNCHANGED <<open, chan>>
      BY <1>9 DEF Disconnect, Close
    <2>2. r \in Seq(Message)
      BY Written DEF PlainKinds
    <2>3. open[s] => Path(Peer(s), r, Told(s), Told(s))
      <3>1. CASE open[s] /\ phase[s] \in SecurePhases
        <4> DEFINE m == Plain("Disconnect")
        <4>1. m \in Message /\ m.kind = "Disconnect"
          BY DEF Plain, Message, PlainKinds
        <4>2. Told(s) \in Stages /\ Told(s) >= 1
          BY <3>1, ToldLevel
        <4> HIDE DEF m
        <4>3. Path(Peer(s), <<m>>, Told(s), Told(s))
          BY <4>1, <4>2, PathLate
        <4> QED
          BY <3>1, <4>3 DEF m
      <3>2. CASE phase[s] \notin SecurePhases
        BY <3>2, PathNone, StagesOf
      <3> QED
        BY <3>1, <3>2
    <2> HIDE DEF r
    <2> QED
      BY <2>1, <2>2, <2>3, OrderCloses
  <1>10. CASE Dispose(s)
    <2>1. /\ UNCHANGED <<localConsent, remoteConsent>>
          /\ phase' = [phase EXCEPT ![s] = "Closed"]
          /\ IF open[s] THEN WriteAndClose(s, <<>>) ELSE UNCHANGED <<open, chan>>
      BY <1>10 DEF Dispose
    <2>2. <<>> \in Seq(Message) /\ Path(Peer(s), <<>>, Told(s), Told(s))
      BY PathNone, StagesOf
    <2> QED
      BY <2>1, <2>2, OrderCloses
  <1> QED
    BY <1>1, <1>2, <1>3, <1>4, <1>5, <1>6, <1>7, <1>8, <1>9, <1>10 DEF Timer, User

LEMMA OrderNext ==
  ASSUME TypeOK, ConsentInv, EntryInv, StageInv, OrderInv, [Next]_vars
  PROVE  OrderInv'
  <1>1. CASE FinishRemember
    <2>1. /\ remember = "Writing"
          /\ UNCHANGED <<open, chan, localConsent, remoteConsent>>
          /\ phase' = [phase EXCEPT ![Responder] = "Connected"]
      BY <1>1 DEF FinishRemember, Establish
    <2>2. Heard(Initiator)' = Heard(Initiator) /\ Told(Initiator)' = Told(Initiator)
      <3>1. phase'[Initiator] = phase[Initiator]
        BY <2>1, EachSide DEF TypeOK
      <3> QED
        BY <2>1, <3>1, SameStages
    <2>3. ASSUME open[Responder]
          PROVE  Heard(Responder)' = Heard(Responder) /\ Told(Responder)' = Told(Responder)
      <3>1. /\ phase[Responder] = "AwaitingConsent" /\ phase'[Responder] = "Connected"
            /\ remoteConsent[Responder] = "Accepted"
        BY <2>1, <2>3, EachSide DEF EntryInv, StageInv, TypeOK
      <3> QED
        BY <2>1, <3>1 DEF Heard, Told
    <2> QED
      BY <2>1, <2>2, <2>3, EachSide, OrderStill
  <1>2. CASE FailRemember \/ EndTrust \/ LoseLink \/ UNCHANGED vars
    <2>1. UNCHANGED <<open, chan, phase, localConsent, remoteConsent>>
      BY <1>2 DEF FailRemember, EndTrust, LoseLink, vars, sessionVars
    <2> QED
      BY <2>1, OrderStill, SameStages
  <1> QED
    BY <1>1, <1>2, OrderDeliver, OrderLocal DEF Next

LEMMA OrderInit == Init => OrderInv
  <1> SUFFICES ASSUME Init PROVE OrderInv
    OBVIOUS
  <1> DEFINE m == Plain("ClientHello")
  <1>1. /\ chan[Initiator] = <<>> /\ chan[Responder] = <<m>>
        /\ phase[Initiator] = "AwaitingServerHello" /\ phase[Responder] = "AwaitingClientHello"
    BY EachSide DEF Init
  <1>2. /\ Heard(Initiator) = 0 /\ Told(Initiator) = 1
        /\ Heard(Responder) = 0 /\ Told(Responder) = 0
    BY <1>1 DEF Heard, Told
  <1>3. m \in Message /\ Leads(Responder, m, 0, 1)
    BY EachSide DEF Plain, Message, PlainKinds, Leads, Opens
  <1> HIDE DEF m
  <1>4. Path(Responder, <<m>>, 0, 1) /\ Path(Initiator, <<>>, 0, 0)
    BY <1>3, PathOne, PathNone DEF Stages
  <1>5. {0, 1} \subseteq Stages
    BY DEF Stages
  <1> QED
    BY <1>1, <1>2, <1>4, <1>5, EachSide DEF OrderInv

-----------------------------------------------------------------------------
(* Which messages are refused                                              *)

SessionInv ==
  ReversalInv /\ ConsentInv /\ StageInv /\ QueueInv /\ DecisionInv /\ OrderInv

LEMMA SessionAlways == Spec => []SessionInv
  <1>1. Init => SessionInv
    BY TypeInit, ReversalInit, ConsentInit, StageInit, QueueInit, DecisionInit, OrderInit
       DEF SessionInv, ReversalInv
  <1>2. SessionInv /\ [Next]_vars => SessionInv'
    <2> SUFFICES ASSUME SessionInv, [Next]_vars PROVE SessionInv'
      OBVIOUS
    <2>1. TypeOK /\ EntryInv /\ ConsentInv /\ StageInv /\ QueueInv /\ DecisionInv /\ OrderInv
      BY DEF SessionInv, ReversalInv
    <2>2. ReversalInv'
      BY ReversalNext DEF SessionInv
    <2>3. TokenInv'
      BY <2>2 DEF ReversalInv
    <2>4. ConsentInv'
      BY <2>1, ConsentNext
    <2>5. StageInv' /\ OrderInv'
      BY <2>1, StageNext, OrderNext
    <2>6. QueueInv'
      BY <2>1, QueueNext
    <2>7. DecisionInv'
      BY <2>1, <2>3, DecisionNext
    <2> QED
      BY <2>2, <2>4, <2>5, <2>6, <2>7 DEF SessionInv
  <1> QED
    BY <1>1, <1>2, PTL DEF Spec

\* Only the catch of handleWireMessage closes a session as "Unexpected".
LEMMA OnlyRejects ==
  ASSUME TypeOK, [Next]_vars, NEW s \in Sides,
         error'[s] = "Unexpected", error[s] # "Unexpected"
  PROVE  Rejects(s)
  <1>1. ASSUME NEW p \in Sides, NEW c \in Errors, c # "Unexpected",
               error' = [error EXCEPT ![p] = c]
        PROVE  FALSE
    BY <1>1 DEF TypeOK
  <1>2. ASSUME error' = error PROVE FALSE
    BY <1>2
  <1>3. ASSUME NEW p \in Sides, NEW r, NEW c \in Errors, c # "Unexpected", Close(p, r, c)
        PROVE  FALSE
    <2>1. error' = [error EXCEPT ![p] = c]
      BY <1>3 DEF Close
    <2> QED
      BY <1>1, <1>3, <2>1
  <1>c. /\ {"None", "IdentityChanged", "HandshakeTimeout", "HealthCheckTimeout",
            "ConnectionLost"} \subseteq Errors
    BY DEF Errors
  <1>4. ASSUME NEW p \in Sides, Deliver(p) PROVE Rejects(s)
    <2>1. CASE RejectMessage(p)
      <3>1. error' = [error EXCEPT ![p] = "Unexpected"] /\ Rejects(p)
        BY <2>1 DEF RejectMessage, Close
      <3>2. p = s
        BY <3>1 DEF TypeOK
      <3> QED
        BY <3>1, <3>2
    <2>2. CASE \/ HandleConsentDeclined(p) \/ HandleDisconnect(p) \/ HandleTransportClosed(p)
               \/ p = Initiator /\ HandleServerHello /\ ~expected
      BY <1>3, <1>c, <2>2
         DEF HandleConsentDeclined, HandleDisconnect, HandleTransportClosed, HandleServerHello
    <2>3. CASE \/ p = Responder /\ (HandleClientHello \/ HandleReady)
               \/ p = Initiator /\ (HandleReadyAcknowledged \/ (HandleServerHello /\ expected))
      BY <1>2, <2>3 DEF HandleClientHello, HandleReady, HandleReadyAcknowledged,
                        HandleServerHello, EnterConsentPhase
    <2>4. CASE \/ HandleConsentAccepted(p) \/ HandlePing(p) \/ HandlePong(p)
               \/ HandleReversalRequest(p) \/ HandleReversalDecision(p)
               \/ HandleDiagnosticsRequest(p) \/ HandleDiagnosticsBatch(p)
               \/ HandleMediaSignal(p)
      BY <1>2, <2>4 DEF HandleConsentAccepted, HandlePing, HandlePong, HandleReversalRequest,
                        HandleReversalDecision, HandleDiagnosticsRequest,
                        HandleDiagnosticsBatch, HandleMediaSignal, sessionVars
    <2> QED
      BY <1>4, <2>1, <2>2, <2>3, <2>4 DEF Deliver
  <1>5. ASSUME NEW p \in Sides, Timer(p) \/ User(p) \/ SocketError(p) PROVE FALSE
    <2>1. CASE HandshakeTimeout(p) \/ SocketError(p) \/ DeclinePairing(p) \/ Disconnect(p)
                 \/ (KeepAliveTick(p) /\ Overdue(p))
      BY <1>3, <1>c, <2>1 DEF HandshakeTimeout, SocketError, DeclinePairing, Disconnect,
                              KeepAliveTick
    <2>2. CASE \/ KeepAliveTick(p) /\ ~Overdue(p)
               \/ DiagnosticsTimeout(p)
               \/ p = Responder /\ AcceptPairing
               \/ \E yes \in BOOLEAN : RespondToReversal(p, yes)
               \/ RequestReversal(p) \/ RequestDiagnostics(p) \/ SendMediaSignal(p) \/ Dispose(p)
      BY <1>2, <2>2 DEF KeepAliveTick, DiagnosticsTimeout, AcceptPairing, RespondToReversal,
                        RequestReversal, RequestDiagnostics, SendMediaSignal, Dispose, sessionVars
    <2> QED
      BY <1>5, <2>1, <2>2 DEF Timer, User
  <1>6. CASE FinishRemember \/ FailRemember \/ EndTrust \/ LoseLink \/ UNCHANGED vars
    BY <1>2, <1>6 DEF FinishRemember, FailRemember, EndTrust, LoseLink, sessionVars, vars
  <1> QED
    BY <1>4, <1>5, <1>6 DEF Next

LEMMA AcceptedWhere ==
  /\ AcceptingPhases("ClientHello") = {"AwaitingClientHello"}
  /\ AcceptingPhases("ServerHello") = {"AwaitingServerHello"}
  /\ AcceptingPhases("Ready") = {"AwaitingSecureReady"}
  /\ AcceptingPhases("ReadyAcknowledged") = {"AwaitingSecureAcknowledgement"}
  /\ AcceptingPhases("ConsentDecision") = {"AwaitingConsent"}
  /\ AcceptingPhases("Ping") = {"AwaitingConsent", "Connected"}
  /\ \A k \in {"MediaSignal", "DiagnosticsRequest"} : AcceptingPhases(k) = {"Connected"}
  /\ AcceptingPhases("TransportClosed") = Phases
  /\ \A k \in {"Disconnect", "Pong", "ReversalRequest", "ReversalDecision",
               "DiagnosticsBatch"} : AcceptingPhases(k) = SecurePhases
  BY DEF AcceptingPhases

\* What can be read at the last two stages.
LEMMA SuitsLast ==
  ASSUME NEW s, NEW m, NEW l \in {2, 3}, NEW n, Leads(s, m, l, n)
  PROVE  \/ m.kind \in {"TransportClosed", "Ping", "Disconnect", "Pong", "ReversalRequest",
                        "ReversalDecision", "DiagnosticsBatch"}
         \/ l = 2 /\ (m = Consent(TRUE) \/ m = Consent(FALSE))
         \/ l = 3 /\ m = Consent(FALSE) /\ s # Initiator
         \/ l = 3 /\ m.kind \in {"MediaSignal", "DiagnosticsRequest"}
  <1>0. l # 0 /\ l # 1
    OBVIOUS
  <1>1. Opens(s, m, l) => l = 2 /\ m = Consent(TRUE)
    BY <1>0, Zenon DEF Opens
  <1>2. ASSUME l = (IF s = Initiator THEN 2 ELSE 3), m = Consent(FALSE)
        PROVE  \/ l = 2 /\ m = Consent(FALSE)
               \/ l = 3 /\ m = Consent(FALSE) /\ s # Initiator
    BY <1>2
  <1> QED
    BY <1>1, <1>2, Zenon DEF Leads, Suits

\* What a side refuses, read in its order, is traffic of an initiator that does
\* not wait for the trust to be stored, or its withdrawal.
LEMMA RefusedInRaces ==
  ASSUME SessionInv, NEW s \in Sides, Rejects(s)
  PROVE  LET m == Head(chan[s]) IN
         /\ s = Responder
         /\ localConsent[s] = "Accepted" /\ remoteConsent[s] = "Accepted"
         /\ \/ /\ m.kind \in {"MediaSignal", "DiagnosticsRequest"}
               /\ phase[s] = "AwaitingConsent"
               /\ remember \in {"Writing", "Failed"}
            \/ /\ m = Consent(FALSE)
               /\ phase[s] = "Connected"
               /\ phase[Initiator] = "Closed"
  <1> DEFINE m == Head(chan[s])
  <1>0. /\ TypeOK /\ EntryInv /\ ConsentInv /\ StageInv /\ QueueInv /\ DecisionInv /\ OrderInv
        /\ open[s] /\ chan[s] # <<>> /\ chan[s] \in Seq(Message)
    BY DEF SessionInv, ReversalInv, Rejects, TypeOK
  <1>1. m \in Elems(chan[s]) /\ m \in Message
    BY <1>0, HeadIsCarried
  <1>2. PICK n \in Stages : Leads(s, m, Heard(s), n)
    BY <1>0, PathTail DEF OrderInv
  <1>3. ~(m.kind = "ReversalDecision" /\ (outgoing[s] = 0 \/ outgoing[s] # m.id))
    <2>1. m.kind = "ReversalDecision" => m \in Answers(s)
      BY <1>1 DEF Answers, Of
    <2> QED
      BY <1>0, <2>1 DEF DecisionInv
  <1>4. phase[s] \notin AcceptingPhases(m.kind)
    BY <1>3 DEF Rejects
  <1>5. /\ phase[s] \in {"AwaitingClientHello", "AwaitingServerHello", "AwaitingSecureReady",
                         "AwaitingSecureAcknowledgement", "AwaitingConsent", "Connected"}
        /\ phase[s] \in Phases
    BY <1>0 DEF TypeOK, Phases, HandshakePhases, EntryInv
  <1>6. m.kind # "TransportClosed"
    BY <1>4, <1>5, AcceptedWhere
  <1> DEFINE Late == {"Disconnect", "Pong", "ReversalRequest", "ReversalDecision",
                      "DiagnosticsBatch"}
  <1>7. m.kind \in Late => phase[s] \in {"AwaitingClientHello", "AwaitingServerHello"}
    BY <1>4, <1>5, AcceptedWhere DEF SecurePhases
  <1> HIDE DEF m
  <1>8. CASE phase[s] \in {"AwaitingClientHello", "AwaitingServerHello"}
    <2>1. Heard(s) = 0
      BY <1>8 DEF Heard
    <2>2. m.kind = IF s = Initiator THEN "ServerHello" ELSE "ClientHello"
      BY <1>2, <1>6, <2>1, EachSide DEF Leads, Opens, Suits, Plain
    <2>3. phase[s] = IF s = Initiator THEN "AwaitingServerHello" ELSE "AwaitingClientHello"
      BY <1>0, <1>8, EachSide DEF StageInv
    <2> QED
      BY <1>4, <2>2, <2>3, AcceptedWhere
  <1>9. CASE phase[s] \in {"AwaitingSecureReady", "AwaitingSecureAcknowledgement"}
    <2>1. Heard(s) = 1
      BY <1>9 DEF Heard
    <2>2. m.kind = IF s = Initiator THEN "ReadyAcknowledged" ELSE "Ready"
      BY <1>2, <1>6, <1>7, <1>9, <2>1, EachSide DEF Leads, Opens, Suits, Plain
    <2>3. phase[s] = IF s = Initiator THEN "AwaitingSecureAcknowledgement"
                     ELSE "AwaitingSecureReady"
      BY <1>0, <1>9, EachSide DEF StageInv
    <2> QED
      BY <1>4, <2>2, <2>3, AcceptedWhere
  <1>10. CASE phase[s] = "AwaitingConsent"
    <2>1. m.kind \notin {"Ping", "ConsentDecision"} \cup Late
      BY <1>4, <1>7, <1>10, AcceptedWhere
    <2>2. m # Consent(TRUE) /\ m # Consent(FALSE)
      BY <2>1 DEF Consent
    <2>3. Heard(s) \in {2, 3}
      BY <1>10 DEF Heard
    <2>4. Heard(s) = 3 /\ m.kind \in {"MediaSignal", "DiagnosticsRequest"}
      <3>1. m.kind \notin {"TransportClosed", "Ping", "Disconnect", "Pong", "ReversalRequest",
                           "ReversalDecision", "DiagnosticsBatch"}
        BY <1>6, <2>1
      <3> QED
        BY <1>2, <2>2, <2>3, <3>1, SuitsLast
    <2>5. remoteConsent[s] = "Accepted"
      BY <1>10, <2>4 DEF Heard
    <2>6. s = Responder
      BY <1>0, <1>10, <2>5, EachSide DEF StageInv
    <2>7. localConsent[s] = "Accepted"
      BY <1>0, <1>1, <2>4, <2>6 DEF QueueInv
    <2>8. remember \in {"Writing", "Failed"}
      BY <1>0, <1>10, <2>5, <2>6, <2>7 DEF StageInv
    <2> QED
      BY <1>10, <2>4, <2>5, <2>6, <2>7, <2>8 DEF m
  <1>11. CASE phase[s] = "Connected"
    <2>1. m.kind \notin {"Ping", "MediaSignal", "DiagnosticsRequest"} \cup Late
      BY <1>4, <1>7, <1>11, AcceptedWhere
    <2>2. Heard(s) = 3
      BY <1>11 DEF Heard
    <2>3. m = Consent(FALSE) /\ s # Initiator
      <3>0. Leads(s, m, 3, n) /\ 3 \in {2, 3} /\ 3 # 2
        BY <1>2, <2>2
      <3>1. m.kind \notin {"TransportClosed", "Ping", "Disconnect", "Pong", "ReversalRequest",
                           "ReversalDecision", "DiagnosticsBatch"}
        BY <1>6, <2>1
      <3> QED
        BY <2>1, <3>0, <3>1, SuitsLast, Zenon
    <2>4. s = Responder
      BY <2>3, EachSide
    <2>5. phase[Initiator] = "Closed"
      BY <1>0, <1>1, <2>3, <2>4 DEF QueueInv
    <2>6. localConsent[s] = "Accepted" /\ remoteConsent[s] = "Accepted"
      BY <1>0, <1>11 DEF ConsentInv, StageInv
    <2> QED
      BY <1>11, <2>3, <2>4, <2>5, <2>6 DEF m
  <1> QED
    BY <1>5, <1>8, <1>9, <1>10, <1>11 DEF m

\* handleWireMessage and its catch: in every interleaving of the two sides, with
\* any number of requests and signals, a message ends the session that reads it
\* in two races only, both at a responder that has both consents.
THEOREM RejectedOnlyInRacesHolds == Spec => RejectedOnlyInRaces
  <1>1. ASSUME SessionInv, [Next]_vars, NEW s \in Sides,
               error'[s] = "Unexpected", error[s] # "Unexpected"
        PROVE  LET m == Head(chan[s]) IN
               /\ s = Responder
               /\ localConsent[s] = "Accepted" /\ remoteConsent[s] = "Accepted"
               /\ \/ /\ m.kind \in {"MediaSignal", "DiagnosticsRequest"}
                     /\ phase[s] = "AwaitingConsent"
                     /\ remember \in {"Writing", "Failed"}
                  \/ /\ m = Consent(FALSE)
                     /\ phase[s] = "Connected"
                     /\ phase[Initiator] = "Closed"
    <2>1. TypeOK
      BY <1>1 DEF SessionInv, ReversalInv
    <2>2. Rejects(s)
      BY <1>1, <2>1, OnlyRejects
    <2> QED
      BY <1>1, <2>2, RefusedInRaces
  <1>2. SessionInv /\ [Next]_vars =>
          [\A s \in Sides :
             error'[s] = "Unexpected" /\ error[s] # "Unexpected" =>
               LET m == Head(chan[s]) IN
               /\ s = Responder
               /\ localConsent[s] = "Accepted" /\ remoteConsent[s] = "Accepted"
               /\ \/ /\ m.kind \in {"MediaSignal", "DiagnosticsRequest"}
                     /\ phase[s] = "AwaitingConsent"
                     /\ remember \in {"Writing", "Failed"}
                  \/ /\ m = Consent(FALSE)
                     /\ phase[s] = "Connected"
                     /\ phase[Initiator] = "Closed"]_vars
    BY <1>1
  <1> QED
    BY <1>2, SessionAlways, PTL DEF Spec, RejectedOnlyInRaces

=============================================================================
