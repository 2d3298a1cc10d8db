------------------------- MODULE SecureChannelProofs -------------------------
(***************************************************************************)
(* The control channel for any two sides, any messages and any number of   *)
(* them: no nonce is used twice, the channel implements ReliableChannel,   *)
(* and only messages that no sender checks are refused.                    *)
(***************************************************************************)
EXTENDS SecureChannel, TLAPS

\* Counters number what a cipher has sealed.
CountersNumber ==
  \A p \in Sides :
    /\ Len(encrypted[p]) = tx[p]
    /\ \A i \in 1 .. tx[p] :
         encrypted[p][i].counter = i /\ encrypted[p][i].key = TransmitKey(p)

\* A line is an envelope its sender has sealed.
LinesSealed ==
  \A p \in Sides : \A k \in 1 .. Len(lines[p]) :
    /\ lines[p][k].counter \in 1 .. tx[p]
    /\ lines[p][k] = encrypted[p][lines[p][k].counter]

\* What was delivered are the messages up to the counter accepted last.
DeliveredToCounter ==
  \A p \in Sides :
    delivered[p] = [i \in 1 .. rx[Peer(p)] |-> encrypted[p][i].message]

IInv == TypeOK /\ CountersNumber /\ LinesSealed /\ DeliveredToCounter

-----------------------------------------------------------------------------
(* Lemmas                                                                  *)

LEMMA PeerIsOther ==
  \A p \in Sides : Peer(p) \in Sides /\ Peer(p) # p /\ Peer(Peer(p)) = p
BY SidesAssumption DEF Sides, Peer

LEMMA KeysDiffer ==
  \A p, q \in Sides :
    /\ TransmitKey(p) = TransmitKey(q) => p = q
    /\ TransmitKey(p) \in {"initiatorToResponder", "responderToInitiator"}
BY SidesAssumption DEF Sides, TransmitKey

LEMMA OwnMessages ==
  \A p \in Sides : Ready \in Sendable(p) /\ Ping \in Sendable(p) /\ Goodbye \in Sendable(p)
BY DEF Sendable

LEMMA SendableAreMessages == \A p \in Sides : \A m \in Sendable(p) : m \in Messages
BY DEF Messages

LEMMA AppendFacts ==
  ASSUME NEW S, NEW s \in Seq(S), NEW x \in S
  PROVE  /\ Append(s, x) \in Seq(S)
         /\ Len(Append(s, x)) = Len(s) + 1
         /\ \A i \in 1 .. Len(s) : Append(s, x)[i] = s[i]
         /\ Append(s, x)[Len(s) + 1] = x
OBVIOUS

LEMMA InitInv == Init => IInv
<1> SUFFICES ASSUME Init PROVE IInv
  OBVIOUS
<1> USE DEF Init
<1>1. TypeOK
  BY PeerIsOther DEF TypeOK
<1>2. CountersNumber
  BY DEF CountersNumber
<1>3. LinesSealed
  BY DEF LinesSealed
<1>4. DeliveredToCounter
  BY PeerIsOther DEF DeliveredToCounter
<1> QED
  BY <1>1, <1>2, <1>3, <1>4 DEF IInv

-----------------------------------------------------------------------------
(* The parts of a step: what each does to the invariant, whatever the step *)
(* does to the variables it does not name.                                 *)

\* Sealing and writing, or sealing alone, by p.
LEMMA SendKeeps ==
  ASSUME IInv, NEW p \in Sides, NEW m \in Sendable(p), SendSecure(p, m)
  PROVE  /\ tx' \in [Sides -> Nat] /\ encrypted' \in [Sides -> Seq(Envelopes)]
         /\ lines' \in [Sides -> Seq(Envelopes)]
         /\ \A q \in Sides : tx'[q] >= tx[q] /\ Len(lines'[q]) >= Len(lines[q])
         /\ \A q \in Sides : \A i \in 1 .. tx[q] : encrypted'[q][i] = encrypted[q][i]
         /\ CountersNumber' /\ LinesSealed'
<1> DEFINE e == Envelope(p, m)
<1>a. m \in Messages /\ TransmitKey(p) \in {"initiatorToResponder", "responderToInitiator"}
  BY KeysDiffer, SendableAreMessages
<1>b. /\ tx \in [Sides -> Nat] /\ encrypted \in [Sides -> Seq(Envelopes)]
      /\ lines \in [Sides -> Seq(Envelopes)]
      /\ Len(encrypted[p]) = tx[p]
  BY DEF IInv, TypeOK, CountersNumber
<1>c. e.counter = tx[p] + 1 /\ e.key = TransmitKey(p)
  BY DEF Envelope
<1>d. e \in Envelopes
  BY <1>a, <1>b DEF Envelope, Envelopes
<1>0. /\ e \in Envelopes /\ e.counter = tx[p] + 1 /\ e.key = TransmitKey(p)
      /\ tx \in [Sides -> Nat] /\ encrypted \in [Sides -> Seq(Envelopes)]
      /\ lines \in [Sides -> Seq(Envelopes)]
      /\ Len(encrypted[p]) = tx[p]
  BY <1>b, <1>c, <1>d
<1> HIDE DEF e
<1>1. /\ tx' = [tx EXCEPT ![p] = @ + 1]
      /\ encrypted' = [encrypted EXCEPT ![p] = Append(@, e)]
      /\ lines' = lines \/ lines' = [lines EXCEPT ![p] = Append(@, e)]
  <2>1. CASE Writable(p, m)
    BY <2>1 DEF SendSecure, e
  <2>2. CASE ~Writable(p, m)
    BY <2>2, <1>0 DEF SendSecure, e
  <2> QED
    BY <2>1, <2>2
<1>2. /\ Append(encrypted[p], e) \in Seq(Envelopes) /\ Append(lines[p], e) \in Seq(Envelopes)
      /\ Len(Append(encrypted[p], e)) = tx[p] + 1
      /\ Len(Append(lines[p], e)) = Len(lines[p]) + 1
      /\ \A i \in 1 .. tx[p] : Append(encrypted[p], e)[i] = encrypted[p][i]
      /\ Append(encrypted[p], e)[tx[p] + 1] = e
      /\ \A i \in 1 .. Len(lines[p]) : Append(lines[p], e)[i] = lines[p][i]
      /\ Append(lines[p], e)[Len(lines[p]) + 1] = e
  BY <1>0, AppendFacts
<1>3. /\ tx' \in [Sides -> Nat] /\ encrypted' \in [Sides -> Seq(Envelopes)]
      /\ lines' \in [Sides -> Seq(Envelopes)]
  <2>1. tx' \in [Sides -> Nat]
    BY <1>0, <1>1
  <2>2. encrypted' \in [Sides -> Seq(Envelopes)]
    BY <1>0, <1>1, <1>2
  <2>3. lines' \in [Sides -> Seq(Envelopes)]
    BY <1>0, <1>1, <1>2
  <2> QED
    BY <2>1, <2>2, <2>3
<1>4. \A q \in Sides : tx'[q] >= tx[q] /\ Len(lines'[q]) >= Len(lines[q])
  BY <1>0, <1>1, <1>2
<1>5. \A q \in Sides : \A i \in 1 .. tx[q] : encrypted'[q][i] = encrypted[q][i]
  BY <1>0, <1>1, <1>2
<1>6. CountersNumber'
  <2> SUFFICES ASSUME NEW q \in Sides, NEW i \in 1 .. tx'[q]
               PROVE  /\ Len(encrypted'[q]) = tx'[q]
                      /\ encrypted'[q][i].counter = i /\ encrypted'[q][i].key = TransmitKey(q)
    BY <1>0, <1>1, <1>2 DEF IInv, CountersNumber, TransmitKey
  <2>1. CASE q # p
    BY <2>1, <1>0, <1>1 DEF IInv, CountersNumber
  <2>2. CASE q = p
    BY <2>2, <1>0, <1>1, <1>2 DEF IInv, CountersNumber
  <2> QED
    BY <2>1, <2>2
<1>7. LinesSealed'
  <2> SUFFICES ASSUME NEW q \in Sides, NEW k \in 1 .. Len(lines'[q])
               PROVE  /\ lines'[q][k].counter \in 1 .. tx'[q]
                      /\ lines'[q][k] = encrypted'[q][lines'[q][k].counter]
    BY DEF LinesSealed
  <2>1. CASE k \in 1 .. Len(lines[q])
    <3>1. lines'[q][k] = lines[q][k]
      BY <2>1, <1>0, <1>1, <1>2
    <3>2. lines[q][k].counter \in 1 .. tx[q] /\ lines[q][k] = encrypted[q][lines[q][k].counter]
      BY <2>1 DEF IInv, LinesSealed
    <3>3. \A c \in 1 .. tx[q] : c \in 1 .. tx'[q] /\ encrypted'[q][c] = encrypted[q][c]
      <4>1. tx[q] \in Nat /\ tx'[q] \in Nat /\ tx'[q] >= tx[q]
        BY <1>0, <1>3, <1>4
      <4> QED
        BY <4>1, <1>5
    <3> QED
      BY <3>1, <3>2, <3>3
  <2>2. CASE k \notin 1 .. Len(lines[q])
    <3>1. q = p /\ k = Len(lines[p]) + 1 /\ lines'[p][k] = e
      BY <2>2, <1>0, <1>1, <1>2
    <3> QED
      BY <3>1, <1>0, <1>1, <1>2
  <2> QED
    BY <2>1, <2>2
<1> QED
  BY <1>3, <1>4, <1>5, <1>6, <1>7

\* The types of the variables no counter depends on.
EndTypes ==
  /\ stage \in [Sides -> {"New", "AwaitingServerHello", "AwaitingClientHello", "Secured"}]
  /\ reason \in [Sides -> {"Open", "User", "Peer", "Refused", "Session", "Socket", "Silence"}]
  /\ link \in {"Up", "Down"}

\* What the types say of one side.
LEMMA CountsOf ==
  ASSUME IInv, NEW s \in Sides
  PROVE  /\ tx[s] \in Nat /\ rx[s] \in Nat /\ rx[Peer(s)] \in Nat
         /\ chunk[s] \in Nat /\ read[s] \in Nat /\ Len(lines[s]) \in Nat
         /\ rx[Peer(s)] <= tx[s] /\ read[s] <= chunk[s] /\ chunk[s] <= Len(lines[s])
<1>1. Peer(s) \in Sides
  BY PeerIsOther
<1>2. /\ tx \in [Sides -> Nat] /\ rx \in [Sides -> Nat] /\ chunk \in [Sides -> Nat]
      /\ read \in [Sides -> Nat] /\ lines \in [Sides -> Seq(Envelopes)]
  BY DEF IInv, TypeOK
<1>3. lines[s] \in Seq(Envelopes)
  BY <1>2
<1>4. Len(lines[s]) \in Nat
  BY <1>3
<1>5. rx[Peer(s)] <= tx[s] /\ read[s] <= chunk[s] /\ chunk[s] <= Len(lines[s])
  BY DEF IInv, TypeOK
<1> QED
  BY <1>1, <1>2, <1>4, <1>5

\* A step that sends and gets nothing.
LEMMA SendStep ==
  ASSUME IInv, NEW p \in Sides, NEW m \in Sendable(p), SendSecure(p, m), EndTypes',
         UNCHANGED <<rx, chunk, read, delivered>>
  PROVE  IInv'
<1>0. /\ tx' \in [Sides -> Nat] /\ encrypted' \in [Sides -> Seq(Envelopes)]
      /\ lines' \in [Sides -> Seq(Envelopes)]
      /\ \A q \in Sides : tx'[q] >= tx[q] /\ Len(lines'[q]) >= Len(lines[q])
      /\ \A q \in Sides : \A i \in 1 .. tx[q] : encrypted'[q][i] = encrypted[q][i]
      /\ CountersNumber' /\ LinesSealed'
  BY SendKeeps
<1>1. \A q \in Sides : rx'[Peer(q)] <= tx'[q] /\ read'[q] <= chunk'[q] /\ chunk'[q] <= Len(lines'[q])
  <2> SUFFICES ASSUME NEW q \in Sides
               PROVE  rx'[Peer(q)] <= tx'[q] /\ read'[q] <= chunk'[q] /\ chunk'[q] <= Len(lines'[q])
    OBVIOUS
  <2>1. tx'[q] \in Nat
    BY <1>0
  <2>2. lines'[q] \in Seq(Envelopes)
    BY <1>0
  <2>3. Len(lines'[q]) \in Nat
    BY <2>2
  <2>4. tx'[q] >= tx[q] /\ Len(lines'[q]) >= Len(lines[q])
    BY <1>0
  <2> QED
    BY <2>1, <2>3, <2>4, CountsOf
<1>2. TypeOK'
  BY <1>0, <1>1 DEF TypeOK, EndTypes, IInv
<1>3. DeliveredToCounter'
  <2> SUFFICES ASSUME NEW q \in Sides
               PROVE  delivered[q] = [i \in 1 .. rx[Peer(q)] |-> encrypted'[q][i].message]
    BY DEF DeliveredToCounter
  <2>1. \A i \in 1 .. rx[Peer(q)] : i \in 1 .. tx[q]
    BY CountsOf
  <2>2. \A i \in 1 .. rx[Peer(q)] : encrypted'[q][i] = encrypted[q][i]
    BY <2>1, <1>0
  <2>3. delivered[q] = [i \in 1 .. rx[Peer(q)] |-> encrypted[q][i].message]
    BY DEF IInv, DeliveredToCounter
  <2> QED
    BY <2>2, <2>3
<1> QED
  BY <1>0, <1>2, <1>3 DEF IInv

\* A step that neither seals a message nor accepts one.
LEMMA QuietStep ==
  ASSUME IInv, EndTypes', UNCHANGED <<tx, rx, encrypted, lines, delivered>>,
         chunk' \in [Sides -> Nat], read' \in [Sides -> Nat],
         \A q \in Sides : read'[q] <= chunk'[q] /\ chunk'[q] <= Len(lines[q])
  PROVE  IInv'
<1>1. TypeOK'
  BY DEF IInv, TypeOK, EndTypes
<1>2. CountersNumber' /\ LinesSealed' /\ DeliveredToCounter'
  BY DEF IInv, CountersNumber, LinesSealed, DeliveredToCounter
<1> QED
  BY <1>1, <1>2 DEF IInv

\* A session accepts the message its peer sealed under the next counter.
LEMMA AcceptNext ==
  ASSUME IInv, NEW q \in Sides, Busy(q), Accept(q)
  PROVE  LET p == Peer(q)  n == rx[q] + 1 IN
         /\ n \in 1 .. tx[p]
         /\ rx' = [rx EXCEPT ![q] = n]
         /\ delivered' = [delivered EXCEPT ![p] = Append(@, encrypted[p][n].message)]
         /\ Len(delivered[p]) = rx[q]
         /\ encrypted[p][n].message \in Messages
<1> DEFINE p == Peer(q)
           k == read[p] + 1
           n == rx[q] + 1
<1>1. p \in Sides /\ Peer(p) = q
  BY PeerIsOther
<1>2. k \in 1 .. Len(lines[p])
  <2>1. /\ read[p] \in Nat /\ chunk[p] \in Nat /\ Len(lines[p]) \in Nat
        /\ chunk[p] <= Len(lines[p])
    BY <1>1, CountsOf
  <2>2. read[p] < chunk[p]
    BY DEF Busy
  <2> QED
    BY <2>1, <2>2
<1>3. lines[p][k].counter \in 1 .. tx[p] /\ lines[p][k] = encrypted[p][lines[p][k].counter]
  BY <1>1, <1>2 DEF IInv, LinesSealed
<1>4. lines[p][k].counter = n
  BY DEF Accept, Decrypts, NextLine
<1>5. lines[p][k] = encrypted[p][n] /\ n \in 1 .. tx[p]
  BY <1>3, <1>4
<1>6. encrypted[p][n].message \in Messages
  <2>1. encrypted[p] \in Seq(Envelopes) /\ Len(encrypted[p]) = tx[p]
    BY <1>1 DEF IInv, TypeOK, CountersNumber
  <2>2. encrypted[p][n] \in Envelopes
    BY <2>1, <1>5
  <2> QED
    BY <2>2 DEF Envelopes
<1>7. /\ rx' = [rx EXCEPT ![q] = n]
      /\ delivered' = [delivered EXCEPT ![p] = Append(@, encrypted[p][n].message)]
  BY <1>4, <1>5 DEF Accept, Count, NextLine
<1>8. Len(delivered[p]) = rx[q]
  <2>1. rx[q] \in Nat
    BY DEF IInv, TypeOK
  <2>2. delivered[p] = [i \in 1 .. rx[q] |-> encrypted[p][i].message]
    BY <1>1 DEF IInv, DeliveredToCounter
  <2>3. delivered[p] \in Seq(Messages)
    BY <1>1 DEF IInv, TypeOK
  <2> QED
    BY <2>1, <2>2, <2>3
<1> QED
  BY <1>5, <1>6, <1>7, <1>8

\* What that leaves, when it adds at most one answer.
LEMMA AcceptStep ==
  ASSUME IInv, NEW q \in Sides, Busy(q), Accept(q), EndTypes',
         read' = [read EXCEPT ![Peer(q)] = @ + 1], UNCHANGED chunk,
         \/ UNCHANGED <<tx, encrypted, lines>>
         \/ \E a \in Sendable(q) : SendSecure(q, a)
  PROVE  IInv'
<1> DEFINE p == Peer(q)
           n == rx[q] + 1
<1>1. /\ p \in Sides /\ p # q /\ Peer(p) = q /\ Peer(q) = p /\ Sides = {p, q}
  BY PeerIsOther DEF Sides, Peer
<1>2. /\ n \in 1 .. tx[p]
      /\ rx' = [rx EXCEPT ![q] = n]
      /\ delivered' = [delivered EXCEPT ![p] = Append(@, encrypted[p][n].message)]
      /\ Len(delivered[p]) = rx[q]
      /\ encrypted[p][n].message \in Messages
  BY AcceptNext
<1>3. /\ tx' \in [Sides -> Nat] /\ encrypted' \in [Sides -> Seq(Envelopes)]
      /\ lines' \in [Sides -> Seq(Envelopes)]
      /\ \A s \in Sides : tx'[s] >= tx[s] /\ Len(lines'[s]) >= Len(lines[s])
      /\ \A s \in Sides : \A i \in 1 .. tx[s] : encrypted'[s][i] = encrypted[s][i]
      /\ CountersNumber' /\ LinesSealed'
  <2>1. CASE UNCHANGED <<tx, encrypted, lines>>
    <3>1. CountersNumber' /\ LinesSealed'
      BY <2>1 DEF IInv, CountersNumber, LinesSealed
    <3>2. /\ tx' \in [Sides -> Nat] /\ encrypted' \in [Sides -> Seq(Envelopes)]
          /\ lines' \in [Sides -> Seq(Envelopes)]
      BY <2>1 DEF IInv, TypeOK
    <3>3. \A s \in Sides : tx'[s] >= tx[s] /\ Len(lines'[s]) >= Len(lines[s])
      BY <2>1, CountsOf
    <3> QED
      BY <2>1, <3>1, <3>2, <3>3
  <2>2. CASE \E a \in Sendable(q) : SendSecure(q, a)
    <3>1. PICK a \in Sendable(q) : SendSecure(q, a)
      BY <2>2
    <3> QED
      BY <3>1, SendKeeps
  <2> QED
    BY <2>1, <2>2
<1>4. /\ tx \in [Sides -> Nat] /\ rx \in [Sides -> Nat] /\ delivered \in [Sides -> Seq(Messages)]
      /\ chunk \in [Sides -> Nat] /\ read \in [Sides -> Nat] /\ lines \in [Sides -> Seq(Envelopes)]
      /\ \A s \in Sides : rx[Peer(s)] <= tx[s] /\ read[s] <= chunk[s] /\ chunk[s] <= Len(lines[s])
      /\ read[p] < chunk[p]
  BY DEF IInv, TypeOK, Busy
<1>n. \A s \in Sides :
        /\ rx[s] \in Nat /\ rx[Peer(s)] \in Nat /\ tx[s] \in Nat
        /\ chunk[s] \in Nat /\ read[s] \in Nat /\ Len(lines[s]) \in Nat
        /\ rx[Peer(s)] <= tx[s] /\ read[s] <= chunk[s] /\ chunk[s] <= Len(lines[s])
  BY CountsOf
<1>o. \A s \in Sides :
        /\ tx'[s] \in Nat /\ Len(lines'[s]) \in Nat
        /\ tx'[s] >= tx[s] /\ Len(lines'[s]) >= Len(lines[s])
  <2> SUFFICES ASSUME NEW s \in Sides PROVE tx'[s] \in Nat /\ Len(lines'[s]) \in Nat
    BY <1>3
  <2>1. tx'[s] \in Nat /\ lines'[s] \in Seq(Envelopes)
    BY <1>3
  <2> QED
    BY <2>1
<1>r. /\ rx \in [Sides -> Nat] /\ read \in [Sides -> Nat] /\ chunk \in [Sides -> Nat]
      /\ delivered \in [Sides -> Seq(Messages)]
  BY <1>4
<1> HIDE DEF p, n
<1>5. /\ rx' \in [Sides -> Nat] /\ read' \in [Sides -> Nat]
      /\ delivered' \in [Sides -> Seq(Messages)]
  <2>1. rx' \in [Sides -> Nat]
    BY <1>2, <1>4
  <2>2. read' \in [Sides -> Nat]
    BY <1>r, <1>n, <1>1
  <2>3. Append(delivered[p], encrypted[p][n].message) \in Seq(Messages)
    BY <1>1, <1>2, <1>4, AppendFacts
  <2>4. delivered' \in [Sides -> Seq(Messages)]
    BY <2>3, <1>2, <1>4
  <2> QED
    BY <2>1, <2>2, <2>4
<1>6. \A s \in Sides : rx'[Peer(s)] <= tx'[s] /\ read'[s] <= chunk'[s] /\ chunk'[s] <= Len(lines'[s])
  <2>1. \A s \in Sides : rx'[Peer(s)] <= tx'[s]
    <3> SUFFICES ASSUME NEW s \in Sides PROVE rx'[Peer(s)] <= tx'[s]
      OBVIOUS
    <3>1. CASE s = p
      <4>1. rx'[Peer(s)] = n /\ n \in 1 .. tx[s]
        BY <3>1, <1>1, <1>2, <1>r
      <4>2. tx[s] \in Nat /\ tx'[s] \in Nat /\ tx'[s] >= tx[s]
        BY <1>n, <1>o
      <4> QED
        BY <4>1, <4>2
    <3>2. CASE s = q
      <4>1. rx'[Peer(s)] = rx[Peer(s)]
        BY <3>2, <1>1, <1>2, <1>4
      <4> QED
        BY <4>1, <1>n, <1>o
    <3> QED
      BY <3>1, <3>2, <1>1
  <2>2. \A s \in Sides : read'[s] <= chunk'[s]
    BY <1>1, <1>4 DEF p
  <2>3. \A s \in Sides : chunk'[s] <= Len(lines'[s])
    BY <1>n, <1>o
  <2> QED
    BY <2>1, <2>2, <2>3
<1>7. TypeOK'
  BY <1>3, <1>4, <1>5, <1>6 DEF TypeOK, EndTypes
<1>8. DeliveredToCounter'
  <2> SUFFICES ASSUME NEW s \in Sides
               PROVE  delivered'[s] = [i \in 1 .. rx'[Peer(s)] |-> encrypted'[s][i].message]
    BY DEF DeliveredToCounter
  <2>1. delivered[s] = [i \in 1 .. rx[Peer(s)] |-> encrypted[s][i].message]
    BY DEF IInv, DeliveredToCounter
  <2>2. \A i \in 1 .. rx[Peer(s)] : encrypted'[s][i] = encrypted[s][i]
    <3>1. \A i \in 1 .. rx[Peer(s)] : i \in 1 .. tx[s]
      BY <1>n
    <3> QED
      BY <3>1, <1>3
  <2>3. CASE s = q
    <3>1. delivered'[s] = delivered[s] /\ rx'[Peer(s)] = rx[Peer(s)]
      BY <2>3, <1>1, <1>2, <1>4
    <3> QED
      BY <3>1, <2>1, <2>2
  <2>4. CASE s = p
    <3>1. delivered'[s] = Append(delivered[s], encrypted[s][n].message) /\ rx'[Peer(s)] = rx[q] + 1
      BY <2>4, <1>1, <1>2, <1>4 DEF n
    <3>2. rx[q] \in Nat /\ Peer(s) = q
      BY <2>4, <1>1, <1>4
    <3>3. encrypted'[s][n] = encrypted[s][n]
      BY <2>4, <1>1, <1>2, <1>3
    <3>4. Append(delivered[s], encrypted[s][n].message)
            = [i \in 1 .. rx[q] + 1 |-> encrypted'[s][i].message]
      BY <3>2, <3>3, <2>1, <2>2 DEF n
    <3> QED
      BY <3>1, <3>2, <3>4
  <2> QED
    BY <2>3, <2>4, <1>1
<1> QED
  BY <1>3, <1>7, <1>8 DEF IInv

-----------------------------------------------------------------------------
(* The steps                                                               *)

LEMMA CloseTypes ==
  ASSUME IInv, NEW p \in Sides,
         NEW why \in {"User", "Peer", "Refused", "Session", "Socket", "Silence"},
         Close(p, why)
  PROVE  reason' \in [Sides -> {"Open", "User", "Peer", "Refused", "Session", "Socket", "Silence"}]
BY DEF IInv, TypeOK, Close

LEMMA ReadLineTypes == ASSUME IInv, NEW q \in Sides, ReadLine(q) PROVE EndTypes'
<1>1. /\ stage' \in [Sides -> {"New", "AwaitingServerHello", "AwaitingClientHello", "Secured"}]
      /\ link' \in {"Up", "Down"}
  BY DEF ReadLine, IInv, TypeOK
<1>2. \/ UNCHANGED reason
      \/ \E why \in {"Peer", "Refused", "Session"} : Close(q, why)
  BY DEF ReadLine, Accept, Refuse
<1>3. reason' \in [Sides -> {"Open", "User", "Peer", "Refused", "Session", "Socket", "Silence"}]
  <2>1. CASE UNCHANGED reason
    BY <2>1 DEF IInv, TypeOK
  <2>2. CASE \E why \in {"Peer", "Refused", "Session"} : Close(q, why)
    BY <2>2, CloseTypes
  <2> QED
    BY <1>2, <2>1, <2>2
<1> QED
  BY <1>1, <1>3 DEF EndTypes

\* The next line is refused: nothing is accepted, nothing sent.
LEMMA RefuseStep ==
  ASSUME IInv, NEW q \in Sides, Busy(q), Refuse(q), EndTypes',
         read' = [read EXCEPT ![Peer(q)] = @ + 1], UNCHANGED chunk
  PROVE  IInv'
<1> DEFINE p == Peer(q)
<1>1. p \in Sides /\ read[p] < chunk[p]
  BY PeerIsOther DEF Busy
<1>2. read \in [Sides -> Nat] /\ chunk \in [Sides -> Nat]
  BY DEF IInv, TypeOK
<1>3. read' \in [Sides -> Nat] /\ chunk' \in [Sides -> Nat]
  BY <1>1, <1>2
<1>4. \A s \in Sides : read'[s] <= chunk'[s] /\ chunk'[s] <= Len(lines[s])
  BY <1>1, <1>2, CountsOf
<1>5. UNCHANGED <<tx, rx, encrypted, lines, delivered>>
  BY DEF Refuse, SendNothing
<1> QED
  BY <1>3, <1>4, <1>5, QuietStep

\* A step of the ends alone.
LEMMA EndsStep ==
  ASSUME IInv, EndTypes', UNCHANGED <<tx, rx, encrypted, lines, chunk, read, delivered>>
  PROVE  IInv'
<1>1. chunk' \in [Sides -> Nat] /\ read' \in [Sides -> Nat]
  BY DEF IInv, TypeOK
<1>2. \A q \in Sides : read'[q] <= chunk'[q] /\ chunk'[q] <= Len(lines[q])
  BY CountsOf
<1> QED
  BY <1>1, <1>2, QuietStep

LEMMA StepInv == IInv /\ [Next]_vars => IInv'
<1> SUFFICES ASSUME IInv, [Next]_vars PROVE IInv'
  OBVIOUS
<1>t. EndTypes
  BY DEF IInv, TypeOK, EndTypes
<1>s. Initiator \in Sides /\ Responder \in Sides
  BY DEF Sides
<1>1. CASE SendClientHello
  BY <1>1, <1>t, EndsStep DEF SendClientHello, EndTypes
<1>2. CASE HandleClientHello
  BY <1>2, <1>t, EndsStep DEF HandleClientHello, EndTypes
<1>3. CASE HandleServerHello
  <2>1. EndTypes'
    BY <1>3, <1>t DEF HandleServerHello, EndTypes
  <2>2. SendSecure(Initiator, Ready) /\ UNCHANGED <<rx, chunk, read, delivered>>
    BY <1>3 DEF HandleServerHello
  <2> QED
    BY <2>1, <2>2, <1>s, OwnMessages, SendStep
<1>4. CASE LinkFails
  BY <1>4, <1>t, EndsStep DEF LinkFails, EndTypes
<1>5. ASSUME NEW p \in Sides, NEW m \in Sendable(p), Send(p, m) PROVE IInv'
  <2>1. UNCHANGED reason \/ Close(p, "Session")
    BY <1>5 DEF Send
  <2>2. EndTypes'
    BY <2>1, <1>5, <1>t, CloseTypes DEF Send, EndTypes
  <2>3. SendSecure(p, m) /\ UNCHANGED <<rx, chunk, read, delivered>>
    BY <1>5 DEF Send
  <2> QED
    BY <2>2, <2>3, SendStep
<1>6. ASSUME NEW p \in Sides, KeepAliveTick(p) PROVE IInv'
  <2>1. EndTypes'
    BY <1>6, <1>t DEF KeepAliveTick, EndTypes
  <2>2. SendSecure(p, Ping) /\ UNCHANGED <<rx, chunk, read, delivered>>
    BY <1>6 DEF KeepAliveTick
  <2> QED
    BY <2>1, <2>2, OwnMessages, SendStep
<1>7. ASSUME NEW p \in Sides, Disconnect(p) PROVE IInv'
  <2>1. EndTypes'
    BY <1>7, <1>t, CloseTypes DEF Disconnect, EndTypes
  <2>2. CASE stage[p] = "Secured"
    <3>1. SendSecure(p, Goodbye) /\ UNCHANGED <<rx, chunk, read, delivered>>
      BY <1>7, <2>2 DEF Disconnect
    <3> QED
      BY <2>1, <3>1, OwnMessages, SendStep
  <2>3. CASE stage[p] # "Secured"
    <3>1. UNCHANGED <<tx, rx, encrypted, lines, chunk, read, delivered>>
      BY <1>7, <2>3 DEF Disconnect, SendNothing
    <3> QED
      BY <2>1, <3>1, EndsStep
  <2> QED
    BY <2>2, <2>3
<1>8. ASSUME NEW q \in Sides, DataArrives(q) PROVE IInv'
  <2> DEFINE p == Peer(q)
  <2>1. p \in Sides
    BY PeerIsOther
  <2>2. PICK n \in chunk[p] + 1 .. Len(lines[p]) : chunk' = [chunk EXCEPT ![p] = n]
    BY <1>8 DEF DataArrives
  <2>3. chunk \in [Sides -> Nat] /\ read \in [Sides -> Nat]
    BY DEF IInv, TypeOK
  <2>4. /\ chunk[p] \in Nat /\ Len(lines[p]) \in Nat /\ read[p] \in Nat
        /\ read[p] <= chunk[p] /\ chunk[p] <= Len(lines[p])
    BY <2>1, CountsOf
  <2>5. n \in Nat /\ read[p] <= n /\ n <= Len(lines[p])
    BY <2>2, <2>4
  <2>6. chunk' \in [Sides -> Nat]
    BY <2>2, <2>3, <2>5
  <2>7. UNCHANGED <<stage, reason, link, tx, rx, encrypted, lines, read, delivered>>
    BY <1>8 DEF DataArrives
  <2>8. \A s \in Sides : read'[s] <= chunk'[s] /\ chunk'[s] <= Len(lines[s])
    <3> SUFFICES ASSUME NEW s \in Sides
                 PROVE  read[s] <= chunk'[s] /\ chunk'[s] <= Len(lines[s])
      BY <2>7
    <3>1. CASE s = p
      BY <3>1, <2>1, <2>2, <2>3, <2>5
    <3>2. CASE s # p
      BY <3>2, <2>2, <2>3, CountsOf
    <3> QED
      BY <3>1, <3>2
  <2>9. EndTypes' /\ read' \in [Sides -> Nat]
    BY <2>3, <2>7, <1>t DEF EndTypes
  <2> QED
    BY <2>6, <2>7, <2>8, <2>9, QuietStep
<1>9. ASSUME NEW q \in Sides, ReadLine(q) PROVE IInv'
  <2>1. EndTypes'
    BY <1>9, ReadLineTypes
  <2>2. /\ Busy(q) /\ (Accept(q) \/ Refuse(q))
        /\ read' = [read EXCEPT ![Peer(q)] = @ + 1] /\ UNCHANGED chunk
    BY <1>9 DEF ReadLine
  <2>3. CASE Refuse(q)
    BY <2>1, <2>2, <2>3, RefuseStep
  <2>4. CASE Accept(q)
    <3>1. \/ UNCHANGED <<tx, encrypted, lines>>
          \/ \E a \in Sendable(q) : SendSecure(q, a)
      BY <2>4 DEF Accept, SendNothing
    <3> QED
      BY <2>1, <2>2, <2>4, <3>1, AcceptStep
  <2> QED
    BY <2>2, <2>3, <2>4, <1>9 DEF ReadLine
<1>10. ASSUME NEW p \in Sides, SocketClosed(p) \/ TimesOut(p) \/ SessionCloses(p) PROVE IInv'
  <2>1. \E why \in {"Socket", "Silence", "Session"} : Close(p, why)
    BY <1>10 DEF SocketClosed, TimesOut, SessionCloses
  <2>2. UNCHANGED <<stage, link, tx, rx, encrypted, lines, chunk, read, delivered>>
    BY <1>10 DEF SocketClosed, TimesOut, SessionCloses
  <2>3. EndTypes'
    BY <2>1, <2>2, <1>t, CloseTypes DEF EndTypes
  <2> QED
    BY <2>2, <2>3, EndsStep
<1>11. CASE UNCHANGED vars
  BY <1>11, <1>t, EndsStep DEF vars, EndTypes
<1> QED
  BY <1>1, <1>2, <1>3, <1>4, <1>5, <1>6, <1>7, <1>8, <1>9, <1>10, <1>11 DEF Next

\* The invariant of the counters holds for any messages and any number of sends.
THEOREM CountersInvariant == Spec => []IInv
BY InitInv, StepInv, PTL DEF Spec

\* The types, and no counter accepted that the peer has not reached.
THEOREM TypesCorrect == Spec => []TypeOK
<1>1. IInv => TypeOK
  BY DEF IInv
<1> QED
  BY <1>1, CountersInvariant, PTL

\* No key and counter seal two messages, whatever fails (SecureMessageCipher).
THEOREM NoncesUsedOnce == Spec => []NonceUsedOnce
<1>1. IInv => NonceUsedOnce
  <2> SUFFICES ASSUME IInv, NEW p \in Sides, NEW q \in Sides,
                      NEW i \in 1 .. Len(encrypted[p]), NEW j \in 1 .. Len(encrypted[q]),
                      encrypted[p][i].key = encrypted[q][j].key,
                      encrypted[p][i].counter = encrypted[q][j].counter
               PROVE  p = q /\ i = j
    BY DEF NonceUsedOnce
  <2>1. /\ encrypted[p][i].counter = i /\ encrypted[p][i].key = TransmitKey(p)
        /\ encrypted[q][j].counter = j /\ encrypted[q][j].key = TransmitKey(q)
    BY DEF IInv, CountersNumber
  <2> QED
    BY <2>1, KeysDiffer
<1> QED
  BY <1>1, CountersInvariant, PTL

-----------------------------------------------------------------------------
(* Refinement                                                              *)

\* Sealing a message is composing it.
LEMMA SendRefines ==
  ASSUME IInv, IInv', NEW p \in Sides, NEW m \in Sendable(p), SendSecure(p, m)
  PROVE  m \in Messages /\ Reliable!Sends(p, m)
<1>1. m \in Messages
  BY SendableAreMessages
<1>2. /\ encrypted \in [Sides -> Seq(Envelopes)] /\ encrypted' \in [Sides -> Seq(Envelopes)]
      /\ encrypted' = [encrypted EXCEPT ![p] = Append(@, Envelope(p, m))]
  BY DEF IInv, TypeOK, SendSecure
<1>3. \A q \in Sides : encrypted[q] \in Seq(Envelopes)
  BY <1>2
<1>4. Envelope(p, m).message = m
  BY DEF Envelope
<1> DEFINE old(q) == [i \in DOMAIN encrypted[q] |-> encrypted[q][i].message]
           new(q) == [i \in DOMAIN encrypted'[q] |-> encrypted'[q][i].message]
           e == Envelope(p, m)
<1> HIDE DEF e
<1>5. new(p) = Append(old(p), m)
  <2>1. encrypted'[p] = Append(encrypted[p], e) /\ e.message = m
    BY <1>2, <1>4 DEF e
  <2> QED
    BY <2>1, <1>3
<1>6. \A q \in Sides \ {p} : new(q) = old(q)
  BY <1>2
<1>7. composed' = [composed EXCEPT ![p] = Append(@, m)]
  BY <1>5, <1>6 DEF composed
<1> QED
  BY <1>1, <1>7 DEF Reliable!Sends

\* Accepting a message is delivering it.
LEMMA AcceptRefines ==
  ASSUME IInv, NEW q \in Sides, Busy(q), Accept(q)
  PROVE  Reliable!Delivers(Peer(q))
<1> DEFINE p == Peer(q)
           n == rx[q] + 1
<1>1. p \in Sides
  BY PeerIsOther
<1>2. /\ n \in 1 .. tx[p]
      /\ delivered' = [delivered EXCEPT ![p] = Append(@, encrypted[p][n].message)]
      /\ Len(delivered[p]) = rx[q]
  BY AcceptNext
<1>3. encrypted[p] \in Seq(Envelopes) /\ Len(encrypted[p]) = tx[p] /\ tx[p] \in Nat /\ rx[q] \in Nat
  BY <1>1, CountsOf DEF IInv, TypeOK, CountersNumber
<1>4. DOMAIN encrypted[p] = 1 .. tx[p]
  BY <1>3
<1>5. /\ composed[p] = [i \in 1 .. tx[p] |-> encrypted[p][i].message]
  BY <1>1, <1>4 DEF composed
<1>6. Len(composed[p]) = tx[p] /\ composed[p][n] = encrypted[p][n].message
  BY <1>2, <1>3, <1>5
<1>7. Len(delivered[p]) < Len(composed[p])
  BY <1>2, <1>3, <1>6
<1>8. delivered' = [delivered EXCEPT ![p] = Append(@, composed[p][Len(@) + 1])]
  BY <1>2, <1>6
<1> QED
  BY <1>7, <1>8 DEF Reliable!Delivers

\* A step without the cipher changes nothing of the abstract channel.
LEMMA QuietRefines ==
  UNCHANGED <<encrypted, delivered>> => UNCHANGED <<composed, delivered>>
BY DEF composed

LEMMA StepRefines ==
  IInv /\ IInv' /\ [Next]_vars => [Reliable!Next]_<<composed, delivered>>
<1> SUFFICES ASSUME IInv, IInv', [Next]_vars
             PROVE  Reliable!Next \/ UNCHANGED <<composed, delivered>>
  OBVIOUS
<1> USE PeerIsOther
<1>s. Initiator \in Sides
  BY DEF Sides
<1>a. ASSUME NEW p \in Sides, NEW m \in Sendable(p), SendSecure(p, m), UNCHANGED delivered
      PROVE  Reliable!Next
  BY <1>a, SendRefines DEF Reliable!Next
<1>1. CASE HandleServerHello
  BY <1>1, <1>a, <1>s, OwnMessages DEF HandleServerHello
<1>2. ASSUME NEW p \in Sides, NEW m \in Sendable(p), Send(p, m) PROVE Reliable!Next
  BY <1>2, <1>a DEF Send
<1>3. ASSUME NEW p \in Sides, KeepAliveTick(p) PROVE Reliable!Next
  BY <1>3, <1>a, OwnMessages DEF KeepAliveTick
<1>4. ASSUME NEW p \in Sides, Disconnect(p)
      PROVE  Reliable!Next \/ UNCHANGED <<composed, delivered>>
  <2>1. CASE SendSecure(p, Goodbye)
    BY <2>1, <1>4, <1>a, OwnMessages DEF Disconnect
  <2>2. CASE SendNothing
    BY <2>2, <1>4, QuietRefines DEF Disconnect, SendNothing
  <2> QED
    BY <1>4, <2>1, <2>2 DEF Disconnect
<1>5. ASSUME NEW q \in Sides, ReadLine(q)
      PROVE  Reliable!Next \/ UNCHANGED <<composed, delivered>>
  <2>1. CASE Refuse(q)
    BY <2>1, QuietRefines DEF Refuse, SendNothing
  <2>2. CASE Accept(q)
    <3>1. Reliable!Delivers(Peer(q)) /\ Peer(q) \in Sides /\ q \in Sides \ {Peer(q)}
      BY <2>2, <1>5, AcceptRefines DEF ReadLine
    <3>2. CASE SendNothing
      <4>1. UNCHANGED composed
        BY <3>2 DEF SendNothing, composed
      <4> QED
        BY <3>1, <4>1 DEF Reliable!Next
    <3>3. CASE \E a \in Sendable(q) : SendSecure(q, a)
      <4>1. PICK a \in Sendable(q) : SendSecure(q, a)
        BY <3>3
      <4>2. a \in Messages /\ Reliable!Sends(q, a)
        BY <4>1, SendRefines
      <4> QED
        BY <3>1, <4>2 DEF Reliable!Next
    <3> QED
      BY <2>2, <3>2, <3>3 DEF Accept
  <2> QED
    BY <1>5, <2>1, <2>2 DEF ReadLine
<1>6. CASE SendClientHello \/ HandleClientHello \/ LinkFails \/ UNCHANGED vars
  BY <1>6, QuietRefines DEF SendClientHello, HandleClientHello, LinkFails, vars
<1>7. ASSUME NEW p \in Sides, DataArrives(p) \/ SocketClosed(p) \/ TimesOut(p) \/ SessionCloses(p)
      PROVE  UNCHANGED <<composed, delivered>>
  BY <1>7, QuietRefines DEF DataArrives, SocketClosed, TimesOut, SessionCloses
<1> QED
  BY <1>1, <1>2, <1>3, <1>4, <1>5, <1>6, <1>7 DEF Next

LEMMA InitRefines == Init => Reliable!Init
BY DEF Init, Reliable!Init, composed

\* The cipher over the lines of a TCP connection implements a channel without
\* gaps, repetitions and changes of order, failed sends and late lines included.
THEOREM ImplementsReliableChannel == Spec => ReliableSpec
<1>1. Init => Reliable!Init
  BY InitRefines
<1>2. IInv /\ IInv' /\ [Next]_vars => [Reliable!Next]_<<composed, delivered>>
  BY StepRefines
<1>3. Spec => []IInv
  BY CountersInvariant
<1> QED
  BY <1>1, <1>2, <1>3, PTL DEF Spec, ReliableSpec, Reliable!Spec
-----------------------------------------------------------------------------
(* Refusals                                                                *)

\* The cipher of p has sealed nothing that its sender should have checked.
NoneUnchecked(p) == \A i \in 1 .. tx[p] : ~Unchecked(encrypted[p][i].message)

\* While that is so, every message p seals becomes a line as long as p is open,
\* and the other end has accepted every line it has read.
AllAccepted(p) ==
  NoneUnchecked(p) =>
    /\ \A k \in 1 .. Len(lines[p]) : lines[p][k].counter = k
    /\ Open(p) => Len(lines[p]) = tx[p]
    /\ Open(Peer(p)) => rx[Peer(p)] = read[p]
    /\ reason[Peer(p)] # "Refused"

AcceptedInv == \A p \in Sides : AllAccepted(p)

\* What a session may send is accepted and fits a frame, but for what is
\* unchecked and for answers.
LEMMA SendableIsGood ==
  ASSUME NEW p \in Sides, NEW m \in Sendable(p), ~Unchecked(m)
  PROVE  Accepts(m) /\ (FrameBytes(m) <= maximumFrameBytes \/ m.kind \in Answers)
<1>1. CASE m = Ready
  BY <1>1 DEF Accepts, SecureMessages, FrameBytes, maximumFrameBytes, Ready
<1>2. CASE m = Ping
  BY <1>2 DEF Accepts, SecureMessages, FrameBytes, maximumFrameBytes, Ping
<1>3. CASE m = Goodbye
  BY <1>3 DEF Accepts, SecureMessages, FrameBytes, maximumFrameBytes, Goodbye
<1>4. CASE \E a \in Asked[p] : m = Composed(a)
  BY <1>4, ComposedAssumption DEF Accepts
<1> QED
  BY <1>1, <1>2, <1>3, <1>4 DEF Sendable

LEMMA OwnFit ==
  /\ FrameBytes(Ready) <= maximumFrameBytes
  /\ FrameBytes(Ping) <= maximumFrameBytes
  /\ FrameBytes(Goodbye) <= maximumFrameBytes
BY DEF FrameBytes, maximumFrameBytes, Ready, Ping, Goodbye

\* Sealing by p keeps the part about its lines, when a message that is not
\* written leaves it closed.
LEMMA SendKeepsAccepted ==
  ASSUME IInv, NEW p \in Sides, NEW m \in Sendable(p), SendSecure(p, m),
         AllAccepted(p), NoneUnchecked(p)', Open(p)' => Writable(p, m)
  PROVE  /\ NoneUnchecked(p)
         /\ \A k \in 1 .. Len(lines'[p]) : lines'[p][k].counter = k
         /\ Open(p)' => Len(lines'[p]) = tx'[p]
<1> DEFINE e == Envelope(p, m)
<1>0. /\ tx \in [Sides -> Nat] /\ encrypted \in [Sides -> Seq(Envelopes)]
      /\ lines \in [Sides -> Seq(Envelopes)] /\ tx[p] \in Nat
      /\ Len(encrypted[p]) = tx[p] /\ e.counter = tx[p] + 1
  BY DEF IInv, TypeOK, CountersNumber, Envelope
<1>e. e \in Envelopes
  <2>1. TransmitKey(p) \in {"initiatorToResponder", "responderToInitiator"} /\ m \in Messages
    BY KeysDiffer, SendableAreMessages
  <2> QED
    BY <1>0, <2>1 DEF Envelope, Envelopes
<1>1. /\ tx'[p] = tx[p] + 1
      /\ \A i \in 1 .. tx[p] : encrypted'[p][i] = encrypted[p][i]
  <2>1. tx'[p] = tx[p] + 1
    BY <1>0 DEF SendSecure
  <2> QED
    BY <2>1, SendKeeps
<1>2. NoneUnchecked(p)
  <2>1. \A i \in 1 .. tx[p] : i \in 1 .. tx'[p]
    BY <1>0, <1>1
  <2>2. \A i \in 1 .. tx[p] : ~Unchecked(encrypted'[p][i].message)
    BY <2>1 DEF NoneUnchecked
  <2> QED
    BY <1>1, <2>2 DEF NoneUnchecked
<1>3. /\ \A k \in 1 .. Len(lines[p]) : lines[p][k].counter = k
      /\ Open(p) => Len(lines[p]) = tx[p]
  BY <1>2 DEF AllAccepted
<1>4. CASE Writable(p, m)
  <2>1. lines'[p] = Append(lines[p], e)
    BY <1>4, <1>0 DEF SendSecure
  <2>2. /\ Len(lines'[p]) = Len(lines[p]) + 1 /\ lines'[p][Len(lines[p]) + 1] = e
        /\ \A i \in 1 .. Len(lines[p]) : lines'[p][i] = lines[p][i]
    <3> HIDE DEF e
    <3> QED
      BY <1>0, <1>e, <2>1, AppendFacts
  <2>3. Len(lines[p]) = tx[p]
    BY <1>3, <1>4 DEF Writable
  <2> HIDE DEF e
  <2> QED
    BY <1>0, <1>1, <1>2, <1>3, <2>2, <2>3
<1>5. CASE ~Writable(p, m)
  <2>1. lines'[p] = lines[p]
    BY <1>5, <1>0 DEF SendSecure
  <2> QED
    BY <1>2, <1>3, <1>5, <2>1
<1> QED
  BY <1>4, <1>5

\* A step in which p sends and accepts nothing: what it sends is written unless
\* it leaves p closed.
LEMMA SendStepAccepted ==
  ASSUME IInv, AcceptedInv, NEW p \in Sides, NEW m \in Sendable(p), SendSecure(p, m),
         UNCHANGED <<rx, read>>, Open(p)' => Writable(p, m),
         \A s \in Sides : (Open(s)' => Open(s)) /\ (reason'[s] = "Refused" => reason[s] = "Refused")
  PROVE  AcceptedInv'
<1> SUFFICES ASSUME NEW s \in Sides, NoneUnchecked(s)'
             PROVE  /\ \A k \in 1 .. Len(lines'[s]) : lines'[s][k].counter = k
                    /\ Open(s)' => Len(lines'[s]) = tx'[s]
                    /\ Open(Peer(s))' => rx[Peer(s)] = read[s]
                    /\ reason'[Peer(s)] # "Refused"
  BY DEF AcceptedInv, AllAccepted, Open
<1>p. Peer(s) \in Sides
  BY PeerIsOther
<1>1. CASE s = p
  <2>1. AllAccepted(s)
    BY DEF AcceptedInv
  <2>2. /\ NoneUnchecked(s)
        /\ \A k \in 1 .. Len(lines'[s]) : lines'[s][k].counter = k
        /\ Open(s)' => Len(lines'[s]) = tx'[s]
    BY <1>1, <2>1, SendKeepsAccepted
  <2>3. /\ Open(Peer(s)) => rx[Peer(s)] = read[s]
        /\ reason[Peer(s)] # "Refused"
    BY <2>1, <2>2 DEF AllAccepted
  <2> QED
    BY <1>p, <2>2, <2>3
<1>2. CASE s # p
  <2>1. tx'[s] = tx[s] /\ encrypted'[s] = encrypted[s] /\ lines'[s] = lines[s]
    BY <1>2 DEF SendSecure, IInv, TypeOK
  <2>2. AllAccepted(s) /\ NoneUnchecked(s)
    BY <2>1 DEF AcceptedInv, NoneUnchecked
  <2> QED
    BY <1>p, <2>1, <2>2 DEF AllAccepted
<1> QED
  BY <1>1, <1>2

\* A user's request that nobody checked: from then on p's part says nothing.
LEMMA SendUncheckedAccepted ==
  ASSUME IInv, AcceptedInv, NEW p \in Sides, NEW m \in Sendable(p), SendSecure(p, m),
         UNCHANGED <<rx, read, reason>>, Unchecked(m)
  PROVE  AcceptedInv'
<1> SUFFICES ASSUME NEW s \in Sides, NoneUnchecked(s)' PROVE AllAccepted(s)'
  BY DEF AcceptedInv, AllAccepted
<1>1. CASE s = p
  <2>1. tx \in [Sides -> Nat] /\ encrypted \in [Sides -> Seq(Envelopes)] /\ tx[p] \in Nat
        /\ Len(encrypted[p]) = tx[p]
    BY DEF IInv, TypeOK, CountersNumber
  <2>2. encrypted'[p] = Append(encrypted[p], Envelope(p, m)) /\ tx'[p] = tx[p] + 1
    BY <2>1 DEF SendSecure
  <2>3. encrypted'[p][tx[p] + 1] = Envelope(p, m)
    <3> DEFINE e == Envelope(p, m)
    <3>1. encrypted'[p] = Append(encrypted[p], e) /\ encrypted[p] \in Seq(Envelopes)
      BY <2>1, <2>2
    <3> HIDE DEF e
    <3>2. encrypted'[p][tx[p] + 1] = e
      BY <2>1, <3>1
    <3> QED
      BY <3>2 DEF e
  <2>4. Envelope(p, m).message = m
    BY DEF Envelope
  <2>5. tx[p] + 1 \in 1 .. tx'[p]
    BY <2>1, <2>2
  <2>6. encrypted'[p][tx[p] + 1].message = m
    BY <2>3, <2>4
  <2>7. ~NoneUnchecked(p)'
    BY <2>5, <2>6 DEF NoneUnchecked
  <2> QED
    BY <1>1, <2>7
<1>2. CASE s # p
  <2>1. tx'[s] = tx[s] /\ encrypted'[s] = encrypted[s] /\ lines'[s] = lines[s]
    BY <1>2 DEF SendSecure, IInv, TypeOK
  <2>2. AllAccepted(s) /\ NoneUnchecked(s)
    BY <2>1 DEF AcceptedInv, NoneUnchecked
  <2> QED
    BY <2>1, <2>2 DEF AllAccepted, Open
<1> QED
  BY <1>1, <1>2

\* A step that neither sends nor reads.
LEMMA QuietStepAccepted ==
  ASSUME IInv, AcceptedInv, UNCHANGED <<tx, rx, encrypted, lines, read>>,
         \A s \in Sides : (Open(s)' => Open(s)) /\ (reason'[s] = "Refused" => reason[s] = "Refused")
  PROVE  AcceptedInv'
<1> SUFFICES ASSUME NEW s \in Sides, NoneUnchecked(s)' PROVE AllAccepted(s)'
  BY DEF AcceptedInv, AllAccepted
<1>1. Peer(s) \in Sides
  BY PeerIsOther
<1>2. AllAccepted(s) /\ NoneUnchecked(s)
  BY DEF AcceptedInv, NoneUnchecked
<1> QED
  BY <1>1, <1>2 DEF AllAccepted

LEMMA CloseKeepsClosed ==
  ASSUME IInv, NEW p \in Sides, NEW why \in {"User", "Peer", "Refused", "Session", "Socket", "Silence"},
         Close(p, why)
  PROVE  /\ \A s \in Sides : Open(s)' => Open(s)
         /\ ~Open(p)'
         /\ why # "Refused" =>
              \A s \in Sides : reason'[s] = "Refused" => reason[s] = "Refused"
         /\ \A s \in Sides \ {p} : reason'[s] = reason[s]
         /\ ~Open(p) => reason' = reason
BY DEF IInv, TypeOK, Close, Open

\* While nothing unchecked was sealed, an open session decrypts what it reads.
LEMMA OpenDecrypts ==
  ASSUME IInv, AcceptedInv, NEW q \in Sides, Busy(q), Open(q), NoneUnchecked(Peer(q))
  PROVE  Decrypts(q, NextLine(q)) /\ NextLine(q).counter = rx[q] + 1
<1> DEFINE p == Peer(q)
           k == read[p] + 1
<1>1. p \in Sides /\ Peer(p) = q
  BY PeerIsOther
<1>2. k \in 1 .. Len(lines[p]) /\ k \in Nat
  <2>1. /\ read[p] \in Nat /\ chunk[p] \in Nat /\ Len(lines[p]) \in Nat
        /\ chunk[p] <= Len(lines[p])
    BY <1>1, CountsOf
  <2>2. read[p] < chunk[p]
    BY DEF Busy
  <2> QED
    BY <2>1, <2>2
<1>3. lines[p][k].counter = k /\ rx[q] = read[p]
  BY <1>1, <1>2 DEF AcceptedInv, AllAccepted
<1>4. k \in 1 .. tx[p] /\ lines[p][k] = encrypted[p][k]
  BY <1>1, <1>2, <1>3 DEF IInv, LinesSealed
<1>5. encrypted[p][k].counter = k /\ encrypted[p][k].key = TransmitKey(p)
  BY <1>1, <1>4 DEF IInv, CountersNumber
<1>6. TransmitKey(p) = ReceiveKey(q)
  BY <1>1, SidesAssumption DEF TransmitKey, ReceiveKey, Peer, Sides
<1>7. Accepts(encrypted[p][k].message)
  <2>1. encrypted[p] \in Seq(Envelopes) /\ Len(encrypted[p]) = tx[p]
    BY <1>1 DEF IInv, TypeOK, CountersNumber
  <2>2. encrypted[p][k].message \in Messages
    <3>1. encrypted[p][k] \in Envelopes
      BY <1>4, <2>1
    <3> QED
      BY <3>1 DEF Envelopes
  <2>3. ~Unchecked(encrypted[p][k].message)
    BY <1>4 DEF NoneUnchecked
  <2> QED
    BY <2>2, <2>3, SendableIsGood DEF Messages
<1>8. NextLine(q) = encrypted[p][k]
  BY <1>4 DEF NextLine
<1> QED
  BY <1>3, <1>5, <1>6, <1>7, <1>8 DEF Decrypts

\* Reading a line.
LEMMA ReadLineAccepted ==
  ASSUME IInv, AcceptedInv, NEW q \in Sides, ReadLine(q)
  PROVE  AcceptedInv'
<1> DEFINE p == Peer(q)
<1>1. /\ p \in Sides /\ p # q /\ Peer(p) = q /\ Sides = {p, q}
  BY PeerIsOther DEF Sides, Peer
<1>t. /\ tx \in [Sides -> Nat] /\ rx \in [Sides -> Nat] /\ read \in [Sides -> Nat]
      /\ reason \in [Sides -> {"Open", "User", "Peer", "Refused", "Session", "Socket", "Silence"}]
      /\ lines \in [Sides -> Seq(Envelopes)] /\ encrypted \in [Sides -> Seq(Envelopes)]
  BY DEF IInv, TypeOK
<1>2. Busy(q) /\ read' = [read EXCEPT ![p] = @ + 1] /\ (Accept(q) \/ Refuse(q))
  BY DEF ReadLine
<1>3. \/ UNCHANGED <<tx, encrypted, lines, reason>>
      \/ UNCHANGED <<tx, encrypted, lines>> /\ Close(q, "Peer")
      \/ UNCHANGED <<tx, encrypted, lines>> /\ Close(q, "Refused") /\ Refuse(q)
      \/ \E a \in Sendable(q) :
           /\ SendSecure(q, a)
           /\ IF Writable(q, a) THEN UNCHANGED reason ELSE Close(q, "Session")
  BY <1>2 DEF Accept, Refuse, SendNothing
<1>4. \A s \in Sides : Open(s)' => Open(s)
  BY <1>3, CloseKeepsClosed DEF Open
<1>5. UNCHANGED <<tx[p], encrypted[p], lines[p], reason[p]>>
  BY <1>1, <1>3, <1>t, CloseKeepsClosed DEF SendSecure
<1>6. NoneUnchecked(p)' => AllAccepted(p)'
  <2> SUFFICES ASSUME NoneUnchecked(p)'
               PROVE  /\ \A k \in 1 .. Len(lines'[p]) : lines'[p][k].counter = k
                      /\ Open(p)' => Len(lines'[p]) = tx'[p]
                      /\ Open(q)' => rx'[q] = read'[p]
                      /\ reason'[q] # "Refused"
    BY <1>1 DEF AllAccepted, Open
  <2>1. NoneUnchecked(p)
    BY <1>5 DEF NoneUnchecked
  <2>2. AllAccepted(p)
    BY <1>1 DEF AcceptedInv
  <2>3. /\ \A k \in 1 .. Len(lines[p]) : lines[p][k].counter = k
        /\ Open(p) => Len(lines[p]) = tx[p]
        /\ Open(q) => rx[q] = read[p]
        /\ reason[q] # "Refused"
    BY <1>1, <2>1, <2>2 DEF AllAccepted
  <2>4. CASE Open(q)
    <3>1. Decrypts(q, NextLine(q)) /\ NextLine(q).counter = rx[q] + 1
      BY <1>2, <2>1, <2>4, OpenDecrypts
    <3>2. ~Refuse(q)
      BY <3>1 DEF Refuse
    <3>3. rx'[q] = rx[q] + 1
      BY <1>2, <1>t, <3>1, <3>2 DEF Accept, Count
    <3>4. reason'[q] # "Refused"
      BY <1>3, <3>2, <2>3, <2>4, <1>t, CloseKeepsClosed DEF Close, Open
    <3>5. read'[p] = read[p] + 1
      BY <1>1, <1>2, <1>t
    <3> QED
      BY <1>5, <2>3, <2>4, <3>3, <3>4, <3>5 DEF Open
  <2>5. CASE ~Open(q)
    <3>1. reason' = reason
      BY <1>3, <2>5, CloseKeepsClosed DEF Writable
    <3> QED
      BY <1>4, <1>5, <2>3, <2>5, <3>1 DEF Open
  <2> QED
    BY <2>4, <2>5
<1>7. NoneUnchecked(q)' => AllAccepted(q)'
  <2> SUFFICES ASSUME NoneUnchecked(q)'
               PROVE  /\ \A k \in 1 .. Len(lines'[q]) : lines'[q][k].counter = k
                      /\ Open(q)' => Len(lines'[q]) = tx'[q]
                      /\ Open(p)' => rx'[p] = read'[q]
                      /\ reason'[p] # "Refused"
    BY <1>1 DEF AllAccepted, Open
  <2>1. AllAccepted(q)
    BY DEF AcceptedInv
  <2>2. /\ NoneUnchecked(q)
        /\ \A k \in 1 .. Len(lines'[q]) : lines'[q][k].counter = k
        /\ Open(q)' => Len(lines'[q]) = tx'[q]
    <3>1. CASE UNCHANGED <<tx, encrypted, lines>>
      <4>1. NoneUnchecked(q)
        BY <3>1 DEF NoneUnchecked
      <4> QED
        BY <3>1, <4>1, <2>1, <1>4 DEF AllAccepted
    <3>2. CASE \E a \in Sendable(q) :
                 /\ SendSecure(q, a)
                 /\ IF Writable(q, a) THEN UNCHANGED reason ELSE Close(q, "Session")
      <4>1. PICK a \in Sendable(q) :
                 /\ SendSecure(q, a)
                 /\ IF Writable(q, a) THEN UNCHANGED reason ELSE Close(q, "Session")
        BY <3>2
      <4>2. Open(q)' => Writable(q, a)
        BY <4>1, CloseKeepsClosed
      <4> QED
        BY <4>1, <4>2, <2>1, SendKeepsAccepted
    <3> QED
      BY <1>3, <3>1, <3>2
  <2>3. /\ Open(p) => rx[p] = read[q]
        /\ reason[p] # "Refused"
    BY <1>1, <2>1, <2>2 DEF AllAccepted
  <2>4. rx'[p] = rx[p] /\ read'[q] = read[q]
    BY <1>1, <1>2, <1>t DEF Accept, Refuse, Count
  <2> QED
    BY <1>5, <2>2, <2>3, <2>4 DEF Open
<1> QED
  BY <1>1, <1>6, <1>7 DEF AcceptedInv, AllAccepted

LEMMA StepAccepted == IInv /\ AcceptedInv /\ [Next]_vars => AcceptedInv'
<1> SUFFICES ASSUME IInv, AcceptedInv, [Next]_vars PROVE AcceptedInv'
  OBVIOUS
<1>s. Initiator \in Sides /\ Responder \in Sides
  BY DEF Sides
<1>1. CASE SendClientHello \/ HandleClientHello \/ LinkFails \/ UNCHANGED vars
  <2>1. UNCHANGED <<tx, rx, encrypted, lines, read, reason>>
    BY <1>1 DEF SendClientHello, HandleClientHello, LinkFails, vars
  <2> QED
    BY <2>1, QuietStepAccepted DEF Open
<1>2. CASE HandleServerHello
  <2>1. /\ SendSecure(Initiator, Ready) /\ UNCHANGED <<rx, read, reason>>
        /\ Open(Initiator)
    BY <1>2 DEF HandleServerHello
  <2>2. Writable(Initiator, Ready)
    BY <2>1, OwnFit DEF Writable
  <2> QED
    BY <1>s, <2>1, <2>2, OwnMessages, SendStepAccepted DEF Open
<1>3. ASSUME NEW p \in Sides, NEW m \in Sendable(p), Send(p, m) PROVE AcceptedInv'
  <2>1. SendSecure(p, m) /\ UNCHANGED <<rx, read>> /\ Open(p)
    BY <1>3 DEF Send
  <2>2. CASE Writable(p, m)
    <3>1. UNCHANGED reason
      BY <1>3, <2>2 DEF Send
    <3> QED
      BY <2>1, <2>2, <3>1, SendStepAccepted DEF Open
  <2>3. CASE ~Writable(p, m) /\ m.kind \in Answers
    <3>1. Close(p, "Session")
      BY <1>3, <2>3 DEF Send
    <3>2. ~Open(p)' /\ \A s \in Sides : (Open(s)' => Open(s)) /\ (reason'[s] = "Refused" => reason[s] = "Refused")
      BY <3>1, CloseKeepsClosed
    <3> QED
      BY <2>1, <3>2, SendStepAccepted
  <2>4. CASE ~Writable(p, m) /\ m.kind \notin Answers
    <3>1. UNCHANGED reason
      BY <1>3, <2>4 DEF Send
    <3>2. Unchecked(m)
      BY <2>1, <2>4, SendableIsGood DEF Writable
    <3> QED
      BY <2>1, <2>4, <3>1, <3>2, SendUncheckedAccepted
  <2> QED
    BY <2>2, <2>3, <2>4
<1>4. ASSUME NEW p \in Sides, KeepAliveTick(p) PROVE AcceptedInv'
  <2>1. SendSecure(p, Ping) /\ UNCHANGED <<rx, read, reason>> /\ Open(p)
    BY <1>4 DEF KeepAliveTick
  <2>2. Writable(p, Ping)
    BY <2>1, OwnFit DEF Writable
  <2> QED
    BY <2>1, <2>2, OwnMessages, SendStepAccepted DEF Open
<1>5. ASSUME NEW p \in Sides, Disconnect(p) PROVE AcceptedInv'
  <2>1. UNCHANGED <<rx, read>> /\ Open(p) /\ Close(p, "User")
    BY <1>5 DEF Disconnect
  <2>2. ~Open(p)' /\ \A s \in Sides : (Open(s)' => Open(s)) /\ (reason'[s] = "Refused" => reason[s] = "Refused")
    BY <2>1, CloseKeepsClosed
  <2>3. CASE SendSecure(p, Goodbye)
    BY <2>1, <2>2, <2>3, OwnMessages, SendStepAccepted
  <2>4. CASE SendNothing
    BY <2>1, <2>2, <2>4, QuietStepAccepted DEF SendNothing
  <2> QED
    BY <1>5, <2>3, <2>4 DEF Disconnect
<1>6. ASSUME NEW q \in Sides, DataArrives(q) PROVE AcceptedInv'
  <2>1. UNCHANGED <<tx, rx, encrypted, lines, read, reason>>
    BY <1>6 DEF DataArrives
  <2> QED
    BY <2>1, QuietStepAccepted DEF Open
<1>7. ASSUME NEW q \in Sides, ReadLine(q) PROVE AcceptedInv'
  BY <1>7, ReadLineAccepted
<1>8. ASSUME NEW p \in Sides, SocketClosed(p) \/ TimesOut(p) \/ SessionCloses(p) PROVE AcceptedInv'
  <2>1. PICK why \in {"Socket", "Silence", "Session"} : Close(p, why)
    BY <1>8 DEF SocketClosed, TimesOut, SessionCloses
  <2>2. UNCHANGED <<tx, rx, encrypted, lines, read>>
    BY <1>8 DEF SocketClosed, TimesOut, SessionCloses
  <2>3. \A s \in Sides : (Open(s)' => Open(s)) /\ (reason'[s] = "Refused" => reason[s] = "Refused")
    BY <2>1, CloseKeepsClosed
  <2> QED
    BY <2>2, <2>3, QuietStepAccepted
<1> QED
  BY <1>1, <1>2, <1>3, <1>4, <1>5, <1>6, <1>7, <1>8 DEF Next

LEMMA InitAccepted == Init => AcceptedInv
BY PeerIsOther DEF Init, AcceptedInv, AllAccepted, Open

\* Two ends of this program refuse each other's envelopes only after a message
\* its sender did not check, a signal of a length the protocol does not allow or
\* a limit that is no number, for any messages the sessions compose and any
\* number of them: a counter is skipped by such a signal alone, or on a session
\* that is closed by the answer that did not fit (PeerSession.ts sendSecure).
THEOREM OnlyUncheckedRefusedHolds == Spec => []OnlyUncheckedRefused
<1>1. IInv /\ AcceptedInv => OnlyUncheckedRefused
  <2> SUFFICES ASSUME IInv, AcceptedInv, NEW q \in Sides, reason[q] = "Refused"
               PROVE  \E i \in 1 .. Len(encrypted[Peer(q)]) : Unchecked(encrypted[Peer(q)][i].message)
    BY DEF OnlyUncheckedRefused
  <2>1. Peer(q) \in Sides /\ Peer(Peer(q)) = q
    BY PeerIsOther
  <2>2. ~NoneUnchecked(Peer(q))
    BY <2>1 DEF AcceptedInv, AllAccepted
  <2>3. Len(encrypted[Peer(q)]) = tx[Peer(q)]
    BY <2>1 DEF IInv, CountersNumber
  <2> QED
    BY <2>2, <2>3 DEF NoneUnchecked
<1> QED
  BY <1>1, InitAccepted, StepAccepted, CountersInvariant, PTL DEF Spec
=============================================================================
