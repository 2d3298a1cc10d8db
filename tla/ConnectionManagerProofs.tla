------------------------ MODULE ConnectionManagerProofs ------------------------
(***************************************************************************)
(* What holds of the managers for any computers and any calls, and of the  *)
(* diagnostics that a manager keeps, shows and fetches for any limits.     *)
(***************************************************************************)
EXTENDS ConnectionManager, Diagnostics, SequenceTheorems, WellFoundedInduction, TLAPS

LEMMA OwnerInComputers ==
  \A e \in Ends : Owner(e) \in Computers /\ OtherEnd(e) \in Ends
BY CallsAssumption DEF Ends, Owner, OtherEnd

LEMMA EndIsOutOrIn == \A e \in Ends : e[2] \in {"out", "in"}
BY DEF Ends

LEMMA NoSessionIsNoEnd == NoSession \notin Ends
BY DEF NoSession, Ends

-----------------------------------------------------------------------------

\* A process that has ended dials no more.
SilentAfterExit ==
  \A e \in Ends : service[Owner(e)] = "Exited" => end[e] # "Dialling"

\* The inductive invariant.
IInv == TypeOK /\ SingleSession /\ NoGuestsAfterStop /\ SilentAfterExit

LEMMA InitInv == Init => IInv
BY OwnerInComputers
DEF Init, IInv, TypeOK, SingleSession, NoGuestsAfterStop, SilentAfterExit,
    SocketOpen, Over, EndStates

\* The types.
LEMMA TypeStep == IInv /\ [Next]_vars => TypeOK'
<1> SUFFICES ASSUME IInv, [Next]_vars PROVE TypeOK'
  OBVIOUS
<1> USE OwnerInComputers, NoSessionIsNoEnd
    DEF IInv, TypeOK, SocketOpen, Over, EndStates
<1>1. ASSUME NEW e \in Ends, Connect(e) PROVE TypeOK'
  BY <1>1 DEF Connect
<1>2. ASSUME NEW e \in Ends, DialSucceeds(e) PROVE TypeOK'
  BY <1>2 DEF DialSucceeds, Install, AfterClose
<1>3. ASSUME NEW e \in Ends, DialFails(e) PROVE TypeOK'
  BY <1>3 DEF DialFails
<1>4. ASSUME NEW e \in Ends, AcceptIncoming(e) PROVE TypeOK'
  BY <1>4 DEF AcceptIncoming, Install, AfterClose, IsAvailable, Listening
<1>5. ASSUME NEW e \in Ends, Establish(e) PROVE TypeOK'
  BY <1>5 DEF Establish
<1>6. ASSUME NEW e \in Ends, StoringEnds(e) PROVE TypeOK'
  BY <1>6 DEF StoringEnds
<1>7. ASSUME NEW e \in Ends, SessionFails(e) PROVE TypeOK'
  BY <1>7 DEF SessionFails, AfterClose
<1>8. ASSUME NEW e \in Ends, PeerGone(e) PROVE TypeOK'
  BY <1>8 DEF PeerGone, AfterClose
<1>9. ASSUME NEW e \in Ends, RevivedTimesOut(e) PROVE TypeOK'
  BY <1>9 DEF RevivedTimesOut
<1>10. ASSUME NEW c \in Calls, FinishHandshake(c) PROVE TypeOK'
  BY <1>10 DEF FinishHandshake
<1>11. ASSUME NEW n \in Computers, Disconnect(n) PROVE TypeOK'
  BY <1>11 DEF Disconnect, AfterClose
<1>12. ASSUME NEW n \in Computers, FinishStart(n) PROVE TypeOK'
  BY <1>12 DEF FinishStart
<1>13. ASSUME NEW n \in Computers, Stop(n) PROVE TypeOK'
  BY <1>13 DEF Stop, AfterClose
<1>14. ASSUME NEW n \in Computers, Exit(n) PROVE TypeOK'
  BY <1>14 DEF Exit
<1>15. CASE UNCHANGED vars
  BY <1>15 DEF vars
<1> QED
  BY <1>1, <1>2, <1>3, <1>4, <1>5, <1>6, <1>7, <1>8,
     <1>9, <1>10, <1>11, <1>12, <1>13, <1>14, <1>15 DEF Next

\* One session at a time.
LEMMA SingleStep == IInv /\ [Next]_vars => SingleSession'
<1> SUFFICES ASSUME IInv, [Next]_vars PROVE SingleSession'
  OBVIOUS
<1> USE OwnerInComputers, NoSessionIsNoEnd
    DEF IInv, TypeOK, SingleSession, SocketOpen, Over, EndStates
<1>1. ASSUME NEW e \in Ends, Connect(e) PROVE SingleSession'
  BY <1>1 DEF Connect
<1>2. ASSUME NEW e \in Ends, DialSucceeds(e) PROVE SingleSession'
  BY <1>2 DEF DialSucceeds, Install, AfterClose
<1>3. ASSUME NEW e \in Ends, DialFails(e) PROVE SingleSession'
  BY <1>3 DEF DialFails
<1>4. ASSUME NEW e \in Ends, AcceptIncoming(e) PROVE SingleSession'
  BY <1>4 DEF AcceptIncoming, Install, AfterClose, IsAvailable, Listening
<1>5. ASSUME NEW e \in Ends, Establish(e) PROVE SingleSession'
  BY <1>5 DEF Establish
<1>6. ASSUME NEW e \in Ends, StoringEnds(e) PROVE SingleSession'
  BY <1>6 DEF StoringEnds
<1>7. ASSUME NEW e \in Ends, SessionFails(e) PROVE SingleSession'
  BY <1>7 DEF SessionFails, AfterClose
<1>8. ASSUME NEW e \in Ends, PeerGone(e) PROVE SingleSession'
  BY <1>8 DEF PeerGone, AfterClose
<1>9. ASSUME NEW e \in Ends, RevivedTimesOut(e) PROVE SingleSession'
  BY <1>9 DEF RevivedTimesOut
<1>10. ASSUME NEW c \in Calls, FinishHandshake(c) PROVE SingleSession'
  BY <1>10 DEF FinishHandshake
<1>11. ASSUME NEW n \in Computers, Disconnect(n) PROVE SingleSession'
  BY <1>11 DEF Disconnect, AfterClose
<1>12. ASSUME NEW n \in Computers, FinishStart(n) PROVE SingleSession'
  BY <1>12 DEF FinishStart
<1>13. ASSUME NEW n \in Computers, Stop(n) PROVE SingleSession'
  BY <1>13 DEF Stop, AfterClose
<1>14. ASSUME NEW n \in Computers, Exit(n) PROVE SingleSession'
  BY <1>14 DEF Exit
<1>15. CASE UNCHANGED vars
  BY <1>15 DEF vars
<1> QED
  BY <1>1, <1>2, <1>3, <1>4, <1>5, <1>6, <1>7, <1>8,
     <1>9, <1>10, <1>11, <1>12, <1>13, <1>14, <1>15 DEF Next

\* Nobody calls in after stop().
LEMMA GuestsStep == IInv /\ [Next]_vars => NoGuestsAfterStop'
<1> SUFFICES ASSUME IInv, [Next]_vars PROVE NoGuestsAfterStop'
  OBVIOUS
<1> USE OwnerInComputers, NoSessionIsNoEnd
    DEF IInv, TypeOK, SingleSession, NoGuestsAfterStop, SilentAfterExit,
        SocketOpen, Over, EndStates
<1>1. ASSUME NEW e \in Ends, Connect(e) PROVE NoGuestsAfterStop'
  BY <1>1 DEF Connect
<1>2. ASSUME NEW e \in Ends, DialSucceeds(e) PROVE NoGuestsAfterStop'
  <2>1. e[2] = "out" /\ service[Owner(e)] # "Exited"
    BY <1>2, EndIsOutOrIn DEF DialSucceeds
  <2> QED
    BY <1>2, <2>1 DEF DialSucceeds, Install, AfterClose
<1>3. ASSUME NEW e \in Ends, DialFails(e) PROVE NoGuestsAfterStop'
  BY <1>3 DEF DialFails
<1>4. ASSUME NEW e \in Ends, AcceptIncoming(e) PROVE NoGuestsAfterStop'
  BY <1>4 DEF AcceptIncoming, Install, AfterClose, IsAvailable, Listening
<1>5. ASSUME NEW e \in Ends, Establish(e) PROVE NoGuestsAfterStop'
  BY <1>5 DEF Establish
<1>6. ASSUME NEW e \in Ends, StoringEnds(e) PROVE NoGuestsAfterStop'
  BY <1>6 DEF StoringEnds
<1>7. ASSUME NEW e \in Ends, SessionFails(e) PROVE NoGuestsAfterStop'
  BY <1>7 DEF SessionFails, AfterClose
<1>8. ASSUME NEW e \in Ends, PeerGone(e) PROVE NoGuestsAfterStop'
  BY <1>8 DEF PeerGone, AfterClose
<1>9. ASSUME NEW e \in Ends, RevivedTimesOut(e) PROVE NoGuestsAfterStop'
  BY <1>9 DEF RevivedTimesOut
<1>10. ASSUME NEW c \in Calls, FinishHandshake(c) PROVE NoGuestsAfterStop'
  BY <1>10 DEF FinishHandshake
<1>11. ASSUME NEW n \in Computers, Disconnect(n) PROVE NoGuestsAfterStop'
  BY <1>11 DEF Disconnect, AfterClose
<1>12. ASSUME NEW n \in Computers, FinishStart(n) PROVE NoGuestsAfterStop'
  BY <1>12 DEF FinishStart
<1>13. ASSUME NEW n \in Computers, Stop(n) PROVE NoGuestsAfterStop'
  BY <1>13 DEF Stop, AfterClose
<1>14. ASSUME NEW n \in Computers, Exit(n) PROVE NoGuestsAfterStop'
  BY <1>14 DEF Exit
<1>15. CASE UNCHANGED vars
  BY <1>15 DEF vars
<1> QED
  BY <1>1, <1>2, <1>3, <1>4, <1>5, <1>6, <1>7, <1>8,
     <1>9, <1>10, <1>11, <1>12, <1>13, <1>14, <1>15 DEF Next

LEMMA SilentStep == IInv /\ [Next]_vars => SilentAfterExit'
<1> SUFFICES ASSUME IInv, [Next]_vars PROVE SilentAfterExit'
  OBVIOUS
<1> USE OwnerInComputers, NoSessionIsNoEnd
    DEF IInv, TypeOK, SilentAfterExit,
        SocketOpen, Over, EndStates
<1>1. ASSUME NEW e \in Ends, Connect(e) PROVE SilentAfterExit'
  BY <1>1 DEF Connect
<1>2. ASSUME NEW e \in Ends, DialSucceeds(e) PROVE SilentAfterExit'
  BY <1>2 DEF DialSucceeds, Install, AfterClose
<1>3. ASSUME NEW e \in Ends, DialFails(e) PROVE SilentAfterExit'
  BY <1>3 DEF DialFails
<1>4. ASSUME NEW e \in Ends, AcceptIncoming(e) PROVE SilentAfterExit'
  BY <1>4 DEF AcceptIncoming, Install, AfterClose, IsAvailable, Listening
<1>5. ASSUME NEW e \in Ends, Establish(e) PROVE SilentAfterExit'
  BY <1>5 DEF Establish
<1>6. ASSUME NEW e \in Ends, StoringEnds(e) PROVE SilentAfterExit'
  BY <1>6 DEF StoringEnds
<1>7. ASSUME NEW e \in Ends, SessionFails(e) PROVE SilentAfterExit'
  BY <1>7 DEF SessionFails, AfterClose
<1>8. ASSUME NEW e \in Ends, PeerGone(e) PROVE SilentAfterExit'
  BY <1>8 DEF PeerGone, AfterClose
<1>9. ASSUME NEW e \in Ends, RevivedTimesOut(e) PROVE SilentAfterExit'
  BY <1>9 DEF RevivedTimesOut
<1>10. ASSUME NEW c \in Calls, FinishHandshake(c) PROVE SilentAfterExit'
  BY <1>10 DEF FinishHandshake
<1>11. ASSUME NEW n \in Computers, Disconnect(n) PROVE SilentAfterExit'
  BY <1>11 DEF Disconnect, AfterClose
<1>12. ASSUME NEW n \in Computers, FinishStart(n) PROVE SilentAfterExit'
  BY <1>12 DEF FinishStart
<1>13. ASSUME NEW n \in Computers, Stop(n) PROVE SilentAfterExit'
  BY <1>13 DEF Stop, AfterClose
<1>14. ASSUME NEW n \in Computers, Exit(n) PROVE SilentAfterExit'
  BY <1>14 DEF Exit
<1>15. CASE UNCHANGED vars
  BY <1>15 DEF vars
<1> QED
  BY <1>1, <1>2, <1>3, <1>4, <1>5, <1>6, <1>7, <1>8,
     <1>9, <1>10, <1>11, <1>12, <1>13, <1>14, <1>15 DEF Next

LEMMA Invariance == Spec => []IInv
<1>1. IInv /\ [Next]_vars => IInv'
  BY TypeStep, SingleStep, GuestsStep, SilentStep DEF IInv
<1> QED
  BY <1>1, InitInv, PTL DEF Spec

\* The state of every manager and every call stays in its type.
THEOREM TypeCorrect == Spec => []TypeOK
<1>1. IInv => TypeOK
  BY DEF IInv
<1> QED
  BY <1>1, Invariance, PTL

\* No computer ever holds a session socket that its manager does not know of,
\* however many computers call each other and however their calls cross.
THEOREM SingleSessionHolds == Spec => []SingleSession
<1>1. IInv => SingleSession
  BY DEF IInv
<1> QED
  BY <1>1, Invariance, PTL

\* After stop() no call from outside has a session, and none is left after the
\* process ended.
THEOREM NoGuestsAfterStopHolds == Spec => []NoGuestsAfterStop
<1>1. IInv => NoGuestsAfterStop
  BY DEF IInv
<1> QED
  BY <1>1, Invariance, PTL

\* The session n has makes way only as DisplacedByOwnCall says.
MakesWay(n) ==
  session[n] # NoSession /\ session'[n] # session[n] /\ end[session[n]] \notin Over =>
    \/ service'[n] \in {"Stopped", "Exited"}
    \/ session'[n] # NoSession /\ session'[n][2] = "out"

LEMMA MakesWayStep ==
  ASSUME IInv, [Next]_vars
  PROVE  \A n \in Computers : MakesWay(n)
<1> SUFFICES ASSUME NEW n \in Computers, session'[n] # session[n],
                    session[n] # NoSession, end[session[n]] \notin Over
             PROVE  \/ service'[n] \in {"Stopped", "Exited"}
                    \/ session'[n] # NoSession /\ session'[n][2] = "out"
  BY DEF MakesWay
<1> USE OwnerInComputers, NoSessionIsNoEnd DEF IInv, TypeOK
<1>1. CASE \E e \in Ends : DialSucceeds(e)
  <2> PICK e \in Ends : DialSucceeds(e)
    BY <1>1
  <2>1. e[2] = "out"
    BY EndIsOutOrIn DEF DialSucceeds
  <2>2. session' = [session EXCEPT ![Owner(e)] = e]
    BY DEF DialSucceeds, Install
  <2> QED
    BY <2>1, <2>2
<1>2. CASE \E e \in Ends : AcceptIncoming(e)
  <2> PICK e \in Ends : AcceptIncoming(e)
    BY <1>2
  <2>1. session' = [session EXCEPT ![Owner(e)] = e] /\ IsAvailable(Owner(e))
    BY DEF AcceptIncoming, Install
  <2> QED
    BY <2>1 DEF IsAvailable
<1>3. CASE \E m \in Computers : Disconnect(m)
  BY <1>3 DEF Disconnect
<1>4. CASE \E m \in Computers : Stop(m) \/ Exit(m)
  BY <1>4 DEF Stop, Exit
<1>5. CASE UNCHANGED session
  BY <1>5
<1>6. \/ \E e \in Ends : DialSucceeds(e) \/ AcceptIncoming(e)
      \/ \E m \in Computers : Disconnect(m) \/ Stop(m) \/ Exit(m)
      \/ UNCHANGED session
  BY DEF Next, vars, Connect, DialFails, Establish, StoringEnds, SessionFails, PeerGone,
         RevivedTimesOut, FinishHandshake, FinishStart
<1> QED
  BY <1>1, <1>2, <1>3, <1>4, <1>5, <1>6

\* A call from outside never ends a session, however many there are.
THEOREM DisplacedByOwnCallHolds == Spec => DisplacedByOwnCall
<1>1. IInv /\ [Next]_vars =>
        [\A n \in Computers :
           LET old == session[n]
               new == session'[n]
           IN old # NoSession /\ new # old /\ end[old] \notin Over =>
                \/ service'[n] \in {"Stopped", "Exited"}
                \/ new # NoSession /\ new[2] = "out"]_vars
  BY MakesWayStep DEF MakesWay
<1> QED
  BY <1>1, Invariance, PTL DEF Spec, DisplacedByOwnCall

-----------------------------------------------------------------------------
(***************************************************************************)
(* The diagnostics.                                                        *)
(*                                                                         *)
(* First the operators on sequences: Picked, which a recursive function    *)
(* computes.  That there is such a function is shown by induction, in the  *)
(* form that the numbers without one have no least.                        *)
(***************************************************************************)
LEMMA LeastOfNat ==
  ASSUME NEW S \in SUBSET Nat, S # {}
  PROVE  \E n \in S : \A m \in S : n <= m
<1> DEFINE R == {s \in Nat \X Nat : s[1] < s[2]}
<1>1. IsWellFoundedOn(R, Nat)
  BY NatLessThanWellFounded, Zenon DEF OpToRel
<1>2. PICK x \in S : \A y \in S : ~(<<y, x>> \in R)
  <2> HIDE DEF R
  <2> QED
    BY <1>1, WFMin
<1>3. \A y \in S : ~(y < x)
  BY <1>2
<1> QED
  BY <1>3

\* The two cases of an induction: a set of numbers without a least one is empty.
LEMMA EveryNumber ==
  ASSUME NEW S \in SUBSET Nat, 0 \notin S,
         \A n \in Nat : n \notin S => n + 1 \notin S
  PROVE  S = {}
<1> SUFFICES ASSUME S # {} PROVE FALSE
  OBVIOUS
<1>1. PICK n \in S : \A m \in S : n <= m
  BY LeastOfNat
<1>2. n - 1 \in Nat /\ n - 1 \notin S
  BY <1>1
<1>3. (n - 1) + 1 \notin S
  BY <1>2
<1> QED
  BY <1>3

\* What the recursion in Picked has after i elements.
IsPicking(f, q, I, n) ==
  f = [i \in 0 .. n |->
         IF i = 0 THEN <<>>
         ELSE IF i \in I THEN Append(f[i - 1], q[i]) ELSE f[i - 1]]

LEMMA PickingAt ==
  ASSUME NEW f, NEW q, NEW I, NEW n \in Nat, IsPicking(f, q, I, n)
  PROVE  /\ f[0] = <<>>
         /\ \A i \in 1 .. n :
              f[i] = IF i \in I THEN Append(f[i - 1], q[i]) ELSE f[i - 1]
<1> DEFINE Step(i) == IF i = 0 THEN <<>>
                    ELSE IF i \in I THEN Append(f[i - 1], q[i]) ELSE f[i - 1]
<1>1. f = [i \in 0 .. n |-> Step(i)]
  BY Zenon DEF IsPicking
<1>2. \A i \in 0 .. n : f[i] = Step(i)
  <2> HIDE DEF Step
  <2> QED
    BY <1>1, Zenon
<1> QED
  BY <1>2

LEMMA PickingExists ==
  ASSUME NEW q, NEW I, NEW n \in Nat
  PROVE  \E f : IsPicking(f, q, I, n)
<1> DEFINE S == {k \in Nat : ~ \E f : IsPicking(f, q, I, k)}
<1>1. 0 \notin S
  <2> DEFINE g == [i \in 0 .. 0 |-> <<>>]
  <2>1. IsPicking(g, q, I, 0)
    BY DEF IsPicking
  <2> QED
    BY <2>1
<1>2. ASSUME NEW k \in Nat, k \notin S PROVE k + 1 \notin S
  <2>1. PICK f : IsPicking(f, q, I, k)
    BY <1>2
  <2> DEFINE g == [i \in 0 .. k + 1 |->
                     IF i <= k THEN f[i]
                     ELSE IF i \in I THEN Append(f[k], q[i]) ELSE f[k]]
  <2>2. ASSUME NEW i \in 0 .. k + 1
        PROVE  g[i] = IF i = 0 THEN <<>>
                      ELSE IF i \in I THEN Append(g[i - 1], q[i]) ELSE g[i - 1]
    <3>1. CASE i = 0
      BY <3>1, <2>1, PickingAt
    <3>2. CASE i \in 1 .. k
      BY <3>2, <2>1, PickingAt
    <3>3. CASE i = k + 1
      <4>1. i - 1 = k /\ ~(i <= k) /\ i # 0
        BY <3>3
      <4>2. g[i - 1] = f[k]
        BY <4>1
      <4>3. g[i] = IF i \in I THEN Append(f[k], q[i]) ELSE f[k]
        BY <4>1, Zenon
      <4> QED
        BY <4>1, <4>2, <4>3, Zenon
    <3> QED
      BY <3>1, <3>2, <3>3
  <2>3. IsPicking(g, q, I, k + 1)
    BY <2>2, Zenon DEF IsPicking
  <2> QED
    BY <2>3
<1>3. S = {}
  <2> HIDE DEF S
  <2>1. S \in SUBSET Nat
    BY DEF S
  <2> QED
    BY <1>1, <1>2, <2>1, EveryNumber
<1> QED
  BY <1>3

LEMMA PickedIs ==
  ASSUME NEW q, Len(q) \in Nat, NEW I
  PROVE  \E f : IsPicking(f, q, I, Len(q)) /\ Picked(q, I) = f[Len(q)]
<1> DEFINE n == Len(q)
<1>1. \E f : IsPicking(f, q, I, Len(q))
  BY PickingExists
<1> DEFINE f == CHOOSE f : IsPicking(f, q, I, Len(q))
<1>2. IsPicking(f, q, I, Len(q))
  BY <1>1
<1>3. Picked(q, I) = f[Len(q)]
  BY Zenon DEF Picked, IsPicking
<1> QED
  BY <1>2, <1>3

\* Picked takes elements of q that are at the indices.
LEMMA PickedType ==
  ASSUME NEW E, NEW q \in Seq(E), NEW I \in SUBSET (1 .. Len(q))
  PROVE  Picked(q, I) \in Seq({q[i] : i \in I})
<1> DEFINE T == {q[i] : i \in I}
<1>1. PICK f : IsPicking(f, q, I, Len(q)) /\ Picked(q, I) = f[Len(q)]
  BY PickedIs
<1> DEFINE S == {k \in Nat : k <= Len(q) /\ f[k] \notin Seq(T)}
<1>2. 0 \notin S
  <2>1. f[0] = <<>>
    BY <1>1, PickingAt
  <2> HIDE DEF T
  <2>2. <<>> \in Seq(T)
    OBVIOUS
  <2> QED
    BY <2>1, <2>2
<1>3. ASSUME NEW k \in Nat, k \notin S PROVE k + 1 \notin S
  <2> SUFFICES ASSUME k + 1 <= Len(q) PROVE f[k + 1] \in Seq(T)
    OBVIOUS
  <2>1. f[k] \in Seq(T)
    BY <1>3
  <2>2. f[k + 1] = IF k + 1 \in I THEN Append(f[k], q[k + 1]) ELSE f[k]
    BY <1>1, PickingAt
  <2> HIDE DEF T
  <2>3. k + 1 \in I => q[k + 1] \in T
    BY DEF T
  <2> QED
    BY <2>1, <2>2, <2>3
<1>4. S = {}
  <2> HIDE DEF S
  <2>1. S \in SUBSET Nat
    BY DEF S
  <2> QED
    BY <1>2, <1>3, <2>1, EveryNumber
<1>5. Len(q) \in Nat
  OBVIOUS
<1>6. Len(q) \notin S
  BY <1>4
<1> QED
  BY <1>1, <1>5, <1>6

\* Picked at the last indices is the end of the sequence.
LEMMA PickedSuffix ==
  ASSUME NEW E, NEW q \in Seq(E), NEW j \in 1 .. Len(q) + 1
  PROVE  Picked(q, {i \in 1 .. Len(q) : j <= i}) = SubSeq(q, j, Len(q))
<1> DEFINE I == {i \in 1 .. Len(q) : j <= i}
<1>0. \A i \in 1 .. Len(q) : i \in I <=> j <= i
  OBVIOUS
<1> SUFFICES Picked(q, I) = SubSeq(q, j, Len(q))
  OBVIOUS
<1> HIDE DEF I
<1>1. PICK f : IsPicking(f, q, I, Len(q)) /\ Picked(q, I) = f[Len(q)]
  BY PickedIs
<1> DEFINE S == {k \in Nat : k <= Len(q) /\ f[k] # SubSeq(q, j, k)}
<1>2. 0 \notin S
  <2>1. f[0] = <<>>
    BY <1>1, PickingAt
  <2>2. SubSeq(q, j, 0) = <<>>
    OBVIOUS
  <2> QED
    BY <2>1, <2>2
<1>3. ASSUME NEW k \in Nat, k \notin S PROVE k + 1 \notin S
  <2> SUFFICES ASSUME k + 1 <= Len(q) PROVE f[k + 1] = SubSeq(q, j, k + 1)
    OBVIOUS
  <2>1. f[k] = SubSeq(q, j, k)
    BY <1>3
  <2>2. f[k + 1] = IF k + 1 \in I THEN Append(f[k], q[k + 1]) ELSE f[k]
    BY <1>1, PickingAt
  <2>3. CASE j <= k + 1
    <3>1. SubSeq(q, j, k + 1) = Append(SubSeq(q, j, k), q[k + 1])
      BY <2>3
    <3> QED
      BY <1>0, <2>1, <2>2, <2>3, <3>1
  <2>4. CASE ~(j <= k + 1)
    <3>1. SubSeq(q, j, k) = <<>> /\ SubSeq(q, j, k + 1) = <<>>
      BY <2>4
    <3> QED
      BY <1>0, <2>1, <2>2, <2>4, <3>1
  <2> QED
    BY <2>3, <2>4
<1>4. S = {}
  <2> HIDE DEF S
  <2>1. S \in SUBSET Nat
    BY DEF S
  <2> QED
    BY <1>2, <1>3, <2>1, EveryNumber
<1>5. Len(q) \in Nat
  OBVIOUS
<1>6. Len(q) \notin S
  BY <1>4
<1> QED
  BY <1>1, <1>5, <1>6

-----------------------------------------------------------------------------
(***************************************************************************)
(* The hub holds a suffix of all it received, and what it no longer holds  *)
(* either is too old or has enough after it; so pruning it leaves the      *)
(* window of all, however late it is done.                                 *)
(***************************************************************************)
LEMMA LimitTypes ==
  /\ RecordLimit \in Nat \ {0}
  /\ MaxPeerRecords \in Nat \ {0}
  /\ BatchSize \in Nat \ {0}
  /\ Retention \in Nat
  /\ MaxSamples \in Nat /\ MaxSessions \in Nat /\ MaxRequests \in Nat
BY LimitsAssumption, BoundsAssumption

\* The entries of q from j on, as the ones that may stay.
StaysFrom(q, j) ==
  /\ j \in 1 .. Len(q) + 1
  /\ \A i \in 1 .. Len(q) :
       IF i < j THEN Old(q[i]) \/ i <= Len(q) - RecordLimit
       ELSE ~Old(q[i]) /\ i > Len(q) - RecordLimit

\* No entry is younger than a later one.
Aging(q) == \A i, j \in 1 .. Len(q) : i <= j => q[j].age <= q[i].age

LEMMA FirstYoung ==
  ASSUME NEW q \in Seq(Entry), Aging(q)
  PROVE  \E j \in 1 .. Len(q) + 1 :
           \A i \in 1 .. Len(q) : Old(q[i]) <=> i < j
<1> DEFINE S == {i \in 1 .. Len(q) : ~Old(q[i])}
<1>1. CASE S = {}
  <2>1. Len(q) + 1 \in 1 .. Len(q) + 1 /\ \A i \in 1 .. Len(q) : i < Len(q) + 1
    OBVIOUS
  <2>2. \A i \in 1 .. Len(q) : Old(q[i])
    BY <1>1
  <2> QED
    BY <2>1, <2>2
<1>2. CASE S # {}
  <2>1. S \in SUBSET Nat
    OBVIOUS
  <2>2. PICK j \in S : \A m \in S : j <= m
    <3> HIDE DEF S
    <3> QED
      BY <1>2, <2>1, LeastOfNat
  <2>3. j \in 1 .. Len(q) /\ ~Old(q[j])
    OBVIOUS
  <2>4. ASSUME NEW i \in 1 .. Len(q), i < j PROVE Old(q[i])
    BY <2>2, <2>3, <2>4
  <2>5. ASSUME NEW i \in 1 .. Len(q), j <= i PROVE ~Old(q[i])
    <3>1. q[i].age <= q[j].age
      BY <2>3, <2>5 DEF Aging
    <3>2. q[i] \in Entry /\ q[j] \in Entry
      BY <2>3
    <3>3. q[i].age \in Nat /\ q[j].age \in Nat
      BY <3>2, LimitTypes DEF Entry
    <3> QED
      BY <2>3, <3>1, <3>3, LimitTypes DEF Old
  <2> QED
    BY <2>3, <2>4, <2>5
<1> QED
  BY <1>1, <1>2

\* The last k entries, at most, of what is left from j on.
LEMMA LatestOfSuffix ==
  ASSUME NEW E, NEW q \in Seq(E), NEW j \in 1 .. Len(q) + 1, NEW k \in Nat
  PROVE  LET m == IF Len(q) - k + 1 > j THEN Len(q) - k + 1 ELSE j
         IN  m \in 1 .. Len(q) + 1 /\ Latest(SubSeq(q, j, Len(q)), k) = SubSeq(q, m, Len(q))
<1> DEFINE s == SubSeq(q, j, Len(q))
           m == IF Len(q) - k + 1 > j THEN Len(q) - k + 1 ELSE j
<1>1. s \in Seq(E) /\ Len(s) = Len(q) - j + 1 /\ \A i \in 1 .. Len(s) : s[i] = q[j + i - 1]
  OBVIOUS
<1>2. m \in 1 .. Len(q) + 1
  OBVIOUS
<1>3. CASE Len(s) > k
  <2>1. m = Len(q) - k + 1
    BY <1>1, <1>3
  <2>2. Latest(s, k) = SubSeq(s, Len(s) - k + 1, Len(s))
    BY <1>3 DEF Latest
  <2>3. SubSeq(s, Len(s) - k + 1, Len(s)) = SubSeq(q, m, Len(q))
    <3> HIDE DEF s, m
    <3> QED
    BY <1>1, <1>2, <1>3, <2>1
  <2> QED
    BY <1>2, <2>2, <2>3
<1>4. CASE ~(Len(s) > k)
  <2>1. m = j
    BY <1>1, <1>4
  <2>2. Latest(s, k) = SubSeq(s, 1, Len(s))
    BY <1>4 DEF Latest
  <2>3. SubSeq(s, 1, Len(s)) = s
    <3> HIDE DEF s, m
    <3> QED
    BY <1>1
  <2> QED
    BY <1>2, <2>1, <2>2, <2>3
<1> QED
  BY <1>3, <1>4

\* What Latest keeps when the first j - 1 entries are old and the rest is not.
LEMMA LatestStays ==
  ASSUME NEW q \in Seq(Entry), NEW j \in 1 .. Len(q) + 1,
         \A i \in 1 .. Len(q) : Old(q[i]) <=> i < j
  PROVE  \E m : StaysFrom(q, m) /\ Latest(SubSeq(q, j, Len(q)), RecordLimit) = SubSeq(q, m, Len(q))
<1> DEFINE m == IF Len(q) - RecordLimit + 1 > j THEN Len(q) - RecordLimit + 1 ELSE j
<1>1. m \in 1 .. Len(q) + 1 /\ Latest(SubSeq(q, j, Len(q)), RecordLimit) = SubSeq(q, m, Len(q))
  BY LatestOfSuffix, LimitTypes
<1>2. StaysFrom(q, m)
  BY <1>1, LimitTypes DEF StaysFrom
<1> QED
  BY <1>1, <1>2

LEMMA PruneStays ==
  ASSUME NEW q \in Seq(Entry), Aging(q)
  PROVE  \E m : StaysFrom(q, m) /\ Prune(q) = SubSeq(q, m, Len(q))
<1>1. PICK j \in 1 .. Len(q) + 1 : \A i \in 1 .. Len(q) : Old(q[i]) <=> i < j
  BY FirstYoung
<1> DEFINE kept == {i \in 1 .. Len(q) : ~Old(q[i])}
           first == IF kept = {} THEN Len(q) + 1
                    ELSE CHOOSE i \in kept : \A k \in kept : i <= k
<1>2. \A i \in 1 .. Len(q) : i \in kept <=> j <= i
  BY <1>1
<1>3. first = j
  <2>0. kept \subseteq 1 .. Len(q)
    OBVIOUS
  <2>1. CASE kept = {}
    <3>1. j = Len(q) + 1
      BY <1>2, <2>1
    <3> QED
      BY <2>1, <3>1
  <2>2. CASE kept # {}
    <3> HIDE DEF kept
    <3>0. PICK x \in kept : j <= x /\ x \in 1 .. Len(q)
      BY <1>2, <2>0, <2>2
    <3>1. j \in kept /\ \A k \in kept : j <= k
      BY <1>2, <2>0, <3>0
    <3>2. \A i \in kept : (\A k \in kept : i <= k) => i = j
      BY <3>1, <2>0
    <3> DEFINE c == CHOOSE i \in kept : \A k \in kept : i <= k
    <3>3. c \in kept /\ \A k \in kept : c <= k
      BY <3>1, Zenon
    <3>4. c = j
      <4> HIDE DEF c
      <4> QED
        BY <3>2, <3>3
    <3> QED
      BY <3>4, <2>2
  <2> QED
    BY <2>1, <2>2
<1>4. Prune(q) = Latest(SubSeq(q, j, Len(q)), RecordLimit)
  <2>1. Prune(q) = DropExcess(SubSeq(q, first, Len(q)))
    BY DEF Prune
  <2> HIDE DEF first
  <2> QED
    BY <1>3, <2>1 DEF DropExcess
<1> QED
  BY <1>1, <1>4, LatestStays

LEMMA WindowStays ==
  ASSUME NEW q \in Seq(Entry), Aging(q)
  PROVE  \E m : StaysFrom(q, m) /\ Window(q) = SubSeq(q, m, Len(q))
<1>1. PICK j \in 1 .. Len(q) + 1 : \A i \in 1 .. Len(q) : Old(q[i]) <=> i < j
  BY FirstYoung
<1> DEFINE young == {i \in 1 .. Len(q) : q[i].age <= Retention}
<1>2. young = {i \in 1 .. Len(q) : j <= i}
  <2>1. ASSUME NEW i \in 1 .. Len(q) PROVE q[i].age <= Retention <=> ~Old(q[i])
    <3>1. q[i] \in Entry
      OBVIOUS
    <3>2. q[i].age \in Nat
      BY <3>1, LimitTypes DEF Entry
    <3> QED
      BY <3>2, LimitTypes DEF Old
  <2> QED
    BY <1>1, <2>1
<1>3. Picked(q, young) = SubSeq(q, j, Len(q))
  <2> HIDE DEF young
  <2> QED
    BY <1>2, PickedSuffix
<1>4. Window(q) = Latest(SubSeq(q, j, Len(q)), RecordLimit)
  BY <1>3 DEF Window
<1> QED
  BY <1>1, <1>4, LatestStays

\* That q is the end of a, and nothing that ought to stay is before it.
Holds(q, a) ==
  /\ Len(q) <= Len(a)
  /\ \A i \in 1 .. Len(q) : q[i] = a[Len(a) - Len(q) + i]
  /\ \A i \in 1 .. Len(a) - Len(q) : Old(a[i]) \/ i <= Len(a) - RecordLimit

LEMMA HeldAging ==
  ASSUME NEW q \in Seq(Entry), NEW a \in Seq(Entry), Holds(q, a), Aging(a)
  PROVE  Aging(q)
<1> DEFINE d == Len(a) - Len(q)
<1>1. d \in Nat /\ \A i \in 1 .. Len(q) : d + i \in 1 .. Len(a) /\ q[i] = a[d + i]
  BY DEF Holds
<1> SUFFICES ASSUME NEW i \in 1 .. Len(q), NEW j \in 1 .. Len(q), i <= j
             PROVE  q[j].age <= q[i].age
  BY DEF Aging
<1>2. d + i <= d + j
  BY <1>1
<1> HIDE DEF d
<1> QED
  BY <1>1, <1>2 DEF Aging

LEMMA StaysOnce ==
  ASSUME NEW q \in Seq(Entry), NEW i, NEW j, StaysFrom(q, i), StaysFrom(q, j)
  PROVE  i = j
<1>1. i \in 1 .. Len(q) + 1 /\ j \in 1 .. Len(q) + 1
  BY DEF StaysFrom
<1>2. ~(i < j)
  <2> SUFFICES ASSUME i < j PROVE FALSE
    OBVIOUS
  <2>1. i \in 1 .. Len(q)
    BY <1>1
  <2> QED
    BY <1>1, <2>1, LimitTypes DEF StaysFrom
<1>3. ~(j < i)
  <2> SUFFICES ASSUME j < i PROVE FALSE
    OBVIOUS
  <2>1. j \in 1 .. Len(q)
    BY <1>1
  <2> QED
    BY <1>1, <2>1, LimitTypes DEF StaysFrom
<1> QED
  BY <1>1, <1>2, <1>3

\* What a hub holds, pruned, is the window of what it received; and the pruned
\* one is held as well.
LEMMA PruneIsWindow ==
  ASSUME NEW q \in Seq(Entry), NEW a \in Seq(Entry), Holds(q, a), Aging(a)
  PROVE  /\ Prune(q) = Window(a)
         /\ Prune(q) \in Seq(Entry)
         /\ Len(Prune(q)) <= RecordLimit
         /\ Holds(Prune(q), a)
<1> DEFINE d == Len(a) - Len(q)
<1>1. PICK m : StaysFrom(q, m) /\ Prune(q) = SubSeq(q, m, Len(q))
  BY PruneStays, HeldAging
<1>2. PICK k : StaysFrom(a, k) /\ Window(a) = SubSeq(a, k, Len(a))
  BY WindowStays
<1>3. m \in 1 .. Len(q) + 1 /\ d \in Nat
  BY <1>1 DEF StaysFrom, Holds
<1>4. StaysFrom(a, d + m)
  <2>1. d + m \in 1 .. Len(a) + 1
    BY <1>3
  <2>2. ASSUME NEW i \in 1 .. Len(a), i <= d
        PROVE  Old(a[i]) \/ i <= Len(a) - RecordLimit
    BY <2>2 DEF Holds
  <2>3. ASSUME NEW i \in 1 .. Len(a), i > d
        PROVE  i - d \in 1 .. Len(q) /\ a[i] = q[i - d]
    BY <2>3 DEF Holds
  <2>4. ASSUME NEW i \in 1 .. Len(a)
        PROVE  IF i < d + m THEN Old(a[i]) \/ i <= Len(a) - RecordLimit
               ELSE ~Old(a[i]) /\ i > Len(a) - RecordLimit
    <3>1. CASE i <= d
      BY <2>2, <1>3, <3>1
    <3>2. CASE i > d
      <4>1. i - d \in 1 .. Len(q) /\ a[i] = q[i - d]
        BY <2>3, <3>2
      <4>2. IF i - d < m THEN Old(a[i]) \/ i - d <= Len(q) - RecordLimit
            ELSE ~Old(a[i]) /\ i - d > Len(q) - RecordLimit
        BY <1>1, <4>1 DEF StaysFrom
      <4> QED
        BY <4>2, <1>3, LimitTypes
    <3> QED
      BY <3>1, <3>2, <1>3
  <2> QED
    BY <2>1, <2>4 DEF StaysFrom
<1>5. k = d + m
  BY <1>2, <1>4, StaysOnce
<1>6. SubSeq(q, m, Len(q)) = SubSeq(a, d + m, Len(a))
  <2>1. Len(a) = d + Len(q)
    BY <1>3
  <2>2. \A i \in 1 .. Len(q) : q[i] = a[d + i]
    BY DEF Holds
  <2> HIDE DEF d
  <2> QED
    BY <1>3, <2>1, <2>2
<1>7. Prune(q) \in Seq(Entry) /\ Len(Prune(q)) = Len(q) - m + 1
       /\ \A i \in 1 .. Len(Prune(q)) : Prune(q)[i] = q[m + i - 1]
  BY <1>1, <1>3
<1>8. Len(Prune(q)) <= RecordLimit
  <2>1. CASE m \in 1 .. Len(q)
    <3>1. m > Len(q) - RecordLimit
      BY <1>1, <2>1, LimitTypes DEF StaysFrom
    <3> QED
      BY <3>1, <1>7, <1>3, LimitTypes
  <2>2. CASE m = Len(q) + 1
    BY <2>2, <1>7, LimitTypes
  <2> QED
    BY <1>3, <2>1, <2>2
<1>9. Holds(Prune(q), a)
  <2>1. Len(Prune(q)) <= Len(a) /\ Len(a) - Len(Prune(q)) = d + m - 1
    BY <1>3, <1>7
  <2>2. ASSUME NEW i \in 1 .. Len(Prune(q))
        PROVE  Prune(q)[i] = a[Len(a) - Len(Prune(q)) + i]
    <3>1. m + i - 1 \in 1 .. Len(q)
      BY <1>3, <1>7
    <3>2. q[m + i - 1] = a[d + (m + i - 1)]
      BY <3>1 DEF Holds
    <3>3. d + (m + i - 1) = Len(a) - Len(Prune(q)) + i
      BY <1>3, <1>7
    <3> QED
      BY <3>2, <3>3, <1>7
  <2>3. ASSUME NEW i \in 1 .. Len(a) - Len(Prune(q))
        PROVE  Old(a[i]) \/ i <= Len(a) - RecordLimit
    <3>1. i \in 1 .. Len(a) /\ i < d + m
      BY <2>1, <1>3
    <3> QED
      BY <3>1, <1>4 DEF StaysFrom
  <2> QED
    BY <2>1, <2>2, <2>3 DEF Holds
<1> QED
  BY <1>1, <1>2, <1>5, <1>6, <1>7, <1>8, <1>9

\* What is received is held, whatever has been held before.
LEMMA HoldsMore ==
  ASSUME NEW q \in Seq(Entry), NEW a \in Seq(Entry), NEW new \in Seq(Entry),
         Holds(q, a), Aging(a), \A i \in 1 .. Len(new) : new[i].age = 0
  PROVE  Holds(q \o new, a \o new) /\ Aging(a \o new)
<1>1. Holds(q \o new, a \o new)
  <2> DEFINE Q == q \o new
             A == a \o new
  <2>1. /\ Len(q) \in Nat /\ Len(a) \in Nat /\ Len(new) \in Nat
        /\ Len(Q) = Len(q) + Len(new) /\ Len(A) = Len(a) + Len(new) /\ RecordLimit \in Nat
    BY LimitTypes
  <2>2. /\ \A i \in 1 .. Len(q) : Q[i] = q[i]
        /\ \A i \in 1 .. Len(a) : A[i] = a[i]
        /\ \A i \in 1 .. Len(new) : Q[Len(q) + i] = new[i] /\ A[Len(a) + i] = new[i]
    OBVIOUS
  <2> HIDE DEF Q, A
  <2>3. /\ Len(q) <= Len(a)
        /\ \A i \in 1 .. Len(q) : q[i] = a[Len(a) - Len(q) + i]
        /\ \A i \in 1 .. Len(a) - Len(q) : Old(a[i]) \/ i <= Len(a) - RecordLimit
    BY DEF Holds
  <2>4. Len(A) - Len(Q) = Len(a) - Len(q) /\ Len(Q) <= Len(A)
    BY <2>1, <2>3
  <2>5. ASSUME NEW i \in 1 .. Len(Q) PROVE Q[i] = A[Len(A) - Len(Q) + i]
    <3>1. CASE i <= Len(q)
      <4>1. i \in 1 .. Len(q) /\ Len(a) - Len(q) + i \in 1 .. Len(a)
        BY <2>1, <2>3, <3>1
      <4> QED
        BY <2>2, <2>3, <2>4, <4>1
    <3>2. CASE i > Len(q)
      <4> DEFINE j == i - Len(q)
      <4>1. j \in 1 .. Len(new) /\ Len(q) + j = i /\ Len(a) + j = Len(A) - Len(Q) + i
        BY <2>1, <3>2
      <4> HIDE DEF j
      <4> QED
        BY <2>2, <4>1
    <3> QED
      BY <2>1, <3>1, <3>2
  <2>6. ASSUME NEW i \in 1 .. Len(A) - Len(Q) PROVE Old(A[i]) \/ i <= Len(A) - RecordLimit
    <3>1. i \in 1 .. Len(a) - Len(q) /\ i \in 1 .. Len(a)
      BY <2>1, <2>3, <2>4
    <3>2. A[i] = a[i]
      BY <2>2, <3>1
    <3>3. i <= Len(a) - RecordLimit => i <= Len(A) - RecordLimit
      BY <2>1, <3>1
    <3> QED
      BY <2>3, <3>1, <3>2, <3>3
  <2>7. Holds(Q, A)
    BY <2>4, <2>5, <2>6 DEF Holds
  <2> QED
    BY <2>7 DEF Q, A
<1>2. Aging(a \o new)
  <2> SUFFICES ASSUME NEW i \in 1 .. Len(a \o new), NEW j \in 1 .. Len(a \o new), i <= j
               PROVE  (a \o new)[j].age <= (a \o new)[i].age
    BY DEF Aging
  <2>1. CASE j <= Len(a)
    BY <2>1 DEF Aging
  <2>2. CASE j > Len(a)
    <3>1. j - Len(a) \in 1 .. Len(new) /\ (a \o new)[j] = new[j - Len(a)]
      BY <2>2
    <3>2. (a \o new)[i] \in Entry
      OBVIOUS
    <3>3. (a \o new)[i].age \in Nat
      BY <3>2, LimitTypes DEF Entry
    <3>4. (a \o new)[j].age = 0
      BY <3>1
    <3> QED
      BY <3>3, <3>4
  <2> QED
    BY <2>1, <2>2
<1> QED
  BY <1>1, <1>2

-----------------------------------------------------------------------------
(***************************************************************************)
(* The inductive invariant of the diagnostics.                             *)
(***************************************************************************)
\* Made records are counted by what makes them; an open end has one to come.
RecordsCounted ==
  \A n \in Hubs : made[n] + (IF open[n] THEN 1 ELSE 0) <= samples + 2 * sessions

HubsHold == \A n \in Hubs : Holds(log[n], all[n]) /\ Aging(all[n])

StreamsFollow ==
  \A n \in Hubs : \A r \in Readers :
    LET s == reader[n][r]
    IN  s.open =>
          /\ s.skipped \in 0 .. Len(all[n])
          /\ s.got = RecordsOf(SubSeq(all[n], s.skipped + 1, Len(all[n])))

\* What a computer fetches is never its own, and what it has of its own is
\* marked so.
Fetched(n) == Seq({r \in Records : r.origin # n})

OriginsKept ==
  \A n \in Hubs :
    /\ \A i \in 1 .. Len(all[n]) :
         all[n][i].source = "Local" <=> all[n][i].record.origin = n
    /\ \A i \in 1 .. MaxRequests : pending[n][i].records \in Fetched(n)
    /\ \A i \in 1 .. Len(chan[n]) :
         chan[n][i].kind = "Batch" => chan[n][i].records \in Fetched(n)
    /\ \A i \in 1 .. Len(arrived[n]) : arrived[n][i].records \in Fetched(n)

IdsAsked ==
  \A n \in Hubs :
    /\ \A i \in 1 .. Len(chan[n]) : chan[n][i].id <= asked
    /\ \A i \in 1 .. Len(arrived[n]) : arrived[n][i].id <= asked
    /\ \A i \in 1 .. MaxRequests : pending[n][i] # NoRequest => i <= asked

\* Of a request that has not been heard yet there is nothing but itself and
\* what its sender waits for.
HeardOnce ==
  \A k \in Hubs : \A p \in 1 .. Len(chan[k]) :
    chan[k][p].kind = "Request" =>
      LET m == chan[k][p]
      IN  /\ \A n \in Hubs : \A q \in 1 .. Len(chan[n]) :
               chan[n][q].id = m.id => n = k /\ q = p
          /\ \A n \in Hubs : \A q \in 1 .. Len(arrived[n]) : arrived[n][q].id # m.id
          /\ \A n \in Hubs : pending[n][m.id] # NoRequest =>
               n # k /\ pending[n][m.id] = [limit |-> m.limit, records |-> <<>>]

IsBatch(m, i) == m.kind = "Batch" /\ m.id = i

\* In q the batches of request i, which are to bring ch, are those from the
\* b-th on, in their order and next to each other from position p on.
ComesAt(q, i, ch, p, b) ==
  /\ p \in 1 .. Len(q)
  /\ b \in 1 .. BatchCount(ch)
  /\ p + BatchCount(ch) - b <= Len(q)
  /\ \A k \in 1 .. Len(q) :
       IsBatch(q[k], i) <=> p <= k /\ k <= p + BatchCount(ch) - b
  /\ \A k \in p .. p + BatchCount(ch) - b : q[k] = Batch(i, ch, b + (k - p))

\* ... and who still waits for them has got those before.
Follows(request, ch, b) ==
  request # NoRequest =>
    /\ request.records = SubSeq(ch, 1, (b - 1) * BatchSize)
    /\ request.limit \in Nat
    /\ Len(ch) <= request.limit

BatchesCome ==
  \A n \in Hubs : \A i \in 1 .. MaxRequests :
    (\E k \in 1 .. Len(chan[n]) : IsBatch(chan[n][k], i)) =>
      \E p \in 1 .. Len(chan[n]) : \E b \in 1 .. BatchCount(chosen[i]) :
        ComesAt(chan[n], i, chosen[i], p, b) /\ Follows(pending[n][i], chosen[i], b)

\* The inductive invariant.
RecordsInv ==
  /\ DiagnosticsTypeOK
  /\ RecordsCounted
  /\ HubsHold
  /\ StreamsFollow

RequestsInv ==
  /\ OriginsKept
  /\ IdsAsked
  /\ HeardOnce
  /\ BatchesCome
  /\ AnswersWhole

-----------------------------------------------------------------------------
(***************************************************************************)
(* Sequences of records, and the initial state.                            *)
(***************************************************************************)
LEMMA PeerIsOther ==
  ASSUME NEW n \in Hubs
  PROVE  /\ Peer(n) \in Hubs /\ Peer(n) # n /\ Peer(Peer(n)) = n
         /\ \A k \in Hubs : k = n \/ k = Peer(n)
<1>1. PICK a \in Hubs, b \in Hubs : a # b /\ Hubs = {a, b}
  BY HubsAssumption
<1>2. \A k \in Hubs : \E p \in Hubs : p # k
  BY <1>1
<1>3. \A k \in Hubs : Peer(k) \in Hubs /\ Peer(k) # k
  BY <1>2 DEF Peer
<1> QED
  BY <1>1, <1>3

LEMMA FunctionIsSeq ==
  ASSUME NEW S, NEW n \in Nat, NEW f \in [1 .. n -> S]
  PROVE  f \in Seq(S) /\ Len(f) = n
OBVIOUS

LEMMA RecordsOfIs ==
  ASSUME NEW q \in Seq(Entry)
  PROVE  /\ RecordsOf(q) \in Seq(Records)
         /\ Len(RecordsOf(q)) = Len(q)
         /\ \A i \in 1 .. Len(q) : RecordsOf(q)[i] = q[i].record
<1>1. \A i \in 1 .. Len(q) : q[i].record \in Records
  <2>1. \A i \in 1 .. Len(q) : q[i] \in Entry
    OBVIOUS
  <2> QED
    BY <2>1 DEF Entry
<1>2. RecordsOf(q) \in [1 .. Len(q) -> Records]
  BY <1>1 DEF RecordsOf
<1>3. \A i \in 1 .. Len(q) : RecordsOf(q)[i] = q[i].record
  BY DEF RecordsOf
<1>4. Len(q) \in Nat
  OBVIOUS
<1> HIDE DEF RecordsOf
<1> QED
  BY <1>2, <1>3, <1>4, FunctionIsSeq

LEMMA RecordsOfMore ==
  ASSUME NEW q \in Seq(Entry), NEW r \in Seq(Entry)
  PROVE  RecordsOf(q \o r) = RecordsOf(q) \o RecordsOf(r)
<1> DEFINE X == RecordsOf(q)
           Y == RecordsOf(r)
           Z == RecordsOf(q \o r)
<1>1. q \o r \in Seq(Entry) /\ Len(q \o r) = Len(q) + Len(r)
  OBVIOUS
<1>2. X \in Seq(Records) /\ Len(X) = Len(q) /\ \A i \in 1 .. Len(q) : X[i] = q[i].record
  BY RecordsOfIs
<1>3. Y \in Seq(Records) /\ Len(Y) = Len(r) /\ \A i \in 1 .. Len(r) : Y[i] = r[i].record
  BY RecordsOfIs
<1>4. Z \in Seq(Records) /\ Len(Z) = Len(q) + Len(r)
       /\ \A i \in 1 .. Len(Z) : Z[i] = (q \o r)[i].record
  <2> DEFINE s == q \o r
  <2>1. s \in Seq(Entry) /\ Len(s) = Len(q) + Len(r)
    BY <1>1
  <2> HIDE DEF s
  <2>2. /\ RecordsOf(s) \in Seq(Records) /\ Len(RecordsOf(s)) = Len(s)
        /\ \A i \in 1 .. Len(s) : RecordsOf(s)[i] = s[i].record
    BY <2>1, RecordsOfIs
  <2>3. /\ RecordsOf(s) \in Seq(Records) /\ Len(RecordsOf(s)) = Len(q) + Len(r)
        /\ \A i \in 1 .. Len(RecordsOf(s)) : RecordsOf(s)[i] = s[i].record
    BY <2>1, <2>2
  <2> QED
    BY <2>3 DEF s
<1> HIDE DEF X, Y, Z
<1>5. X \o Y \in Seq(Records) /\ Len(X \o Y) = Len(q) + Len(r)
  <2>1. X \in Seq(Records) /\ Y \in Seq(Records)
    BY <1>2, <1>3
  <2>2. X \o Y \in Seq(Records) /\ Len(X \o Y) = Len(X) + Len(Y)
    BY <2>1, ConcatProperties, Zenon
  <2> QED
    BY <1>2, <1>3, <2>2, Zenon
<1>6. ASSUME NEW i \in 1 .. Len(Z) PROVE Z[i] = (X \o Y)[i]
  <2>0. i \in 1 .. Len(q) + Len(r) /\ Len(q) \in Nat
    BY <1>4
  <2>1. CASE i <= Len(q)
    <3>1. (X \o Y)[i] = X[i] /\ (q \o r)[i] = q[i] /\ i \in 1 .. Len(q)
      BY <1>2, <1>3, <1>4, <2>1
    <3> QED
      BY <1>2, <1>4, <3>1
  <2>2. CASE i > Len(q)
    <3>1. /\ (X \o Y)[i] = Y[i - Len(q)] /\ (q \o r)[i] = r[i - Len(q)]
          /\ i - Len(q) \in 1 .. Len(r)
      BY <1>2, <1>3, <1>4, <2>2
    <3> QED
      BY <1>3, <1>4, <3>1
  <2>3. i <= Len(q) \/ i > Len(q)
    BY <2>0
  <2> QED
    BY <2>1, <2>2, <2>3, Zenon
<1>7. Z = X \o Y
  BY <1>4, <1>5, <1>6, SeqEqual
<1> QED
  BY <1>7 DEF X, Y, Z

\* A new record of n.
LEMMA OwnRecordIs ==
  ASSUME NEW n \in Hubs, made[n] \in Nat, made[n] + 1 \in Ids
  PROVE  /\ OwnRecord(n) \in Seq(Entry)
         /\ \A i \in 1 .. Len(OwnRecord(n)) :
              /\ OwnRecord(n)[i].age = 0
              /\ OwnRecord(n)[i].source = "Local" /\ OwnRecord(n)[i].record.origin = n
<1> DEFINE r == [origin |-> n, id |-> made[n] + 1]
<1>1. r \in Records
  BY DEF Records
<1>2. Len(<<r>>) = 1 /\ <<r>>[1] = r
  OBVIOUS
<1>3. OwnRecord(n) = [i \in 1 .. 1 |-> [record |-> r, source |-> "Local", age |-> 0]]
  BY <1>2 DEF OwnRecord, Entries
<1>4. [record |-> r, source |-> "Local", age |-> 0] \in Entry
  BY <1>1, LimitTypes DEF Entry
<1> QED
  BY <1>3, <1>4

LEMMA RemoteEntries ==
  ASSUME NEW n \in Hubs, NEW records \in Fetched(n)
  PROVE  /\ Entries(records, "Remote") \in Seq(Entry)
         /\ \A i \in 1 .. Len(Entries(records, "Remote")) :
              /\ Entries(records, "Remote")[i].age = 0
              /\ Entries(records, "Remote")[i].source = "Remote"
              /\ Entries(records, "Remote")[i].record.origin # n
<1> DEFINE E == Entries(records, "Remote")
<1>1. records \in Seq({r \in Records : r.origin # n})
  BY DEF Fetched
<1>2. \A i \in 1 .. Len(records) : records[i] \in Records /\ records[i].origin # n
  BY <1>1
<1>3. E = [i \in 1 .. Len(records) |-> [record |-> records[i], source |-> "Remote", age |-> 0]]
  BY DEF Entries
<1>4. Len(records) \in Nat
  BY <1>1
<1>5. \A i \in 1 .. Len(records) : [record |-> records[i], source |-> "Remote", age |-> 0] \in Entry
  BY <1>2, LimitTypes DEF Entry
<1> HIDE DEF E
<1>6. E \in Seq(Entry) /\ Len(E) = Len(records)
  <2>1. E \in [1 .. Len(records) -> Entry]
    BY <1>3, <1>5
  <2> QED
    BY <2>1, <1>4, FunctionIsSeq
<1>7. \A i \in 1 .. Len(E) : E[i] = [record |-> records[i], source |-> "Remote", age |-> 0]
  BY <1>3, <1>6
<1>8. ASSUME NEW i \in 1 .. Len(E)
      PROVE  E[i].age = 0 /\ E[i].source = "Remote" /\ E[i].record.origin # n
  <2>1. E[i] = [record |-> records[i], source |-> "Remote", age |-> 0]
    BY <1>7
  <2>2. E[i].age = 0 /\ E[i].source = "Remote" /\ E[i].record = records[i]
    BY <2>1
  <2> QED
    BY <1>2, <1>6, <2>2
<1> QED
  BY <1>6, <1>8 DEF E

-----------------------------------------------------------------------------
(* The hubs and the streams.                                               *)

LEMMA DiagnosticsInitInv == DiagnosticsInit => RecordsInv /\ RequestsInv
<1> SUFFICES ASSUME DiagnosticsInit PROVE RecordsInv /\ RequestsInv
  OBVIOUS
<1>0. \A n \in Hubs :
        /\ log[n] = <<>> /\ all[n] = <<>> /\ chan[n] = <<>> /\ arrived[n] = <<>>
        /\ ~open[n] /\ made[n] = 0 /\ pending[n] = NoRequests
        /\ \A r \in Readers : reader[n][r] = NoStream
  BY DEF DiagnosticsInit
<1>1. DiagnosticsTypeOK
  <2>1. <<>> \in EntrySeqs /\ <<>> \in Seq(Records) /\ <<>> \in Seq(Messages)
        /\ <<>> \in Seq([id : 1 .. MaxRequests, records : Seq(Records)]) /\ Len(<<>>) = 0
    BY DEF EntrySeqs
  <2>2. NoStream \in ReaderStates
    BY <2>1 DEF NoStream, ReaderStates
  <2>3. NoRequests \in [1 .. MaxRequests -> Requests]
    BY <2>1, LimitTypes DEF NoRequests, NoRequest, Requests
  <2>4. 0 <= RecordLimit /\ 0 \in 0 .. MaxSamples /\ 0 \in 0 .. MaxSessions
        /\ 0 \in 0 .. MaxRequests /\ 0 \in 0 .. MaxSamples + 2 * MaxSessions
    BY LimitTypes
  <2>5. \A n \in Hubs : Len(log[n]) <= RecordLimit
    BY <1>0, <2>1, <2>4
  <2>6. {open, failed} \subseteq [Hubs -> BOOLEAN]
    BY DEF DiagnosticsInit
  <2> HIDE DEF NoStream, NoRequests
  <2> QED
    BY <2>1, <2>2, <2>3, <2>4, <2>5, <2>6 DEF DiagnosticsTypeOK, DiagnosticsInit
<1>2. RecordsCounted
  <2>1. samples = 0 /\ sessions = 0
    BY DEF DiagnosticsInit
  <2>2. ASSUME NEW n \in Hubs
        PROVE  made[n] + (IF open[n] THEN 1 ELSE 0) <= samples + 2 * sessions
    <3>1. made[n] = 0 /\ ~open[n]
      BY <1>0
    <3>2. (IF open[n] THEN 1 ELSE 0) = 0
      BY <3>1
    <3> QED
      BY <2>1, <3>1, <3>2
  <2> QED
    BY <2>2 DEF RecordsCounted
<1>3. HubsHold
  <2>1. Holds(<<>>, <<>>) /\ Aging(<<>>)
    BY LimitTypes DEF Holds, Aging
  <2> QED
    BY <1>0, <2>1 DEF HubsHold
<1>4. StreamsFollow
  BY <1>0 DEF StreamsFollow, NoStream
<1>5. OriginsKept
  <2>1. \A n \in Hubs : <<>> \in Fetched(n)
    BY DEF Fetched
  <2>2. \A i \in 1 .. MaxRequests : NoRequests[i].records = <<>>
    BY DEF NoRequests, NoRequest
  <2>3. ASSUME NEW n \in Hubs
        PROVE  /\ \A i \in 1 .. Len(all[n]) : FALSE
               /\ \A i \in 1 .. Len(chan[n]) : FALSE
               /\ \A i \in 1 .. Len(arrived[n]) : FALSE
               /\ \A i \in 1 .. MaxRequests : pending[n][i].records \in Fetched(n)
    <3>1. \A i \in 1 .. MaxRequests : pending[n][i].records = <<>>
      BY <1>0, <2>2
    <3> QED
      BY <1>0, <2>1, <3>1
  <2> QED
    BY <2>3, Zenon DEF OriginsKept
<1>6. IdsAsked
  <2>1. \A i \in 1 .. MaxRequests : NoRequests[i] = NoRequest
    BY DEF NoRequests
  <2>2. ASSUME NEW n \in Hubs
        PROVE  /\ \A i \in 1 .. Len(chan[n]) : FALSE
               /\ \A i \in 1 .. Len(arrived[n]) : FALSE
               /\ \A i \in 1 .. MaxRequests : pending[n][i] = NoRequest
    BY <1>0, <2>1
  <2> QED
    BY <2>2, Zenon DEF IdsAsked
<1>7. HeardOnce /\ BatchesCome /\ AnswersWhole
  BY <1>0 DEF HeardOnce, BatchesCome, AnswersWhole
<1> QED
  BY <1>1, <1>2, <1>3, <1>4, <1>5, <1>6, <1>7 DEF RecordsInv, RequestsInv

-----------------------------------------------------------------------------
(***************************************************************************)
(* The batches of an answer: how many, what each brings, and how they come *)
(* out of the queue.                                                       *)
(***************************************************************************)
LEMMA DivBounds ==
  ASSUME NEW x \in Nat, NEW y \in Nat \ {0}
  PROVE  x \div y \in Nat /\ y * (x \div y) <= x /\ x < y * (x \div y) + y
OBVIOUS

LEMMA TimesMonotone ==
  ASSUME NEW a \in Nat, NEW b \in Nat, NEW y \in Nat, a <= b
  PROVE  a * y \in Nat /\ a * y <= b * y
OBVIOUS

LEMMA TimesNext ==
  ASSUME NEW b \in Nat \ {0}, NEW y \in Nat
  PROVE  b * y = (b - 1) * y + y
OBVIOUS

LEMMA TimesSwap == ASSUME NEW a \in Nat, NEW b \in Nat PROVE a * b = b * a
OBVIOUS

LEMMA BatchBounds ==
  ASSUME NEW S, NEW ch \in Seq(S)
  PROVE  /\ BatchCount(ch) \in Nat \ {0}
         /\ \A b \in 1 .. BatchCount(ch) :
              (b - 1) * BatchSize \in Nat /\ (b - 1) * BatchSize <= Len(ch)
         /\ \A b \in 1 .. BatchCount(ch) - 1 :
              /\ b * BatchSize \in Nat /\ b * BatchSize <= Len(ch)
              /\ b * BatchSize = (b - 1) * BatchSize + BatchSize
<1> DEFINE L == Len(ch)
           c == BatchCount(ch)
<1>1. L \in Nat /\ BatchSize \in Nat \ {0}
  BY LimitTypes
<1>2. CASE ch = <<>>
  <2>1. c = 1
    BY <1>2 DEF BatchCount
  <2> QED
    BY <1>1, <2>1
<1>3. CASE ch # <<>>
  <2>1. L \in Nat \ {0}
    BY <1>3
  <2>2. c = (L + BatchSize - 1) \div BatchSize
    BY <1>3 DEF BatchCount
  <2>3. L + BatchSize - 1 \in Nat
    BY <1>1, <2>1
  <2> HIDE DEF c, L
  <2>4. c \in Nat /\ BatchSize * c <= L + BatchSize - 1 /\ L + BatchSize - 1 < BatchSize * c + BatchSize
    BY <1>1, <2>2, <2>3, DivBounds
  <2>5. c # 0
    <3> SUFFICES ASSUME c = 0 PROVE FALSE
      OBVIOUS
    <3>1. BatchSize * c = 0
      BY <1>1
    <3> QED
      BY <1>1, <2>1, <2>4, <3>1
  <2>6. c * BatchSize = (c - 1) * BatchSize + BatchSize /\ BatchSize * c = c * BatchSize
    BY <1>1, <2>4, <2>5, TimesNext, TimesSwap
  <2>7. (c - 1) * BatchSize \in Nat /\ (c - 1) * BatchSize < L
    <3>1. (c - 1) * BatchSize \in Nat
      BY <1>1, <2>4, <2>5, TimesMonotone
    <3> QED
      BY <1>1, <2>1, <2>4, <2>6, <3>1
  <2>8. ASSUME NEW b \in 0 .. c - 1 PROVE b * BatchSize \in Nat /\ b * BatchSize <= L
    <3>1. b * BatchSize \in Nat /\ b * BatchSize <= (c - 1) * BatchSize
      BY <1>1, <2>4, <2>5, TimesMonotone
    <3> QED
      BY <1>1, <2>7, <3>1
  <2>9. \A b \in 1 .. c : b - 1 \in 0 .. c - 1
    BY <2>4
  <2>10. \A b \in 1 .. c - 1 : b * BatchSize = (b - 1) * BatchSize + BatchSize
    BY <1>1, <2>4, TimesNext
  <2>11. \A b \in 1 .. c - 1 : b \in 0 .. c - 1
    BY <2>4
  <2> QED
    BY <2>4, <2>5, <2>8, <2>9, <2>10, <2>11 DEF c, L
<1> QED
  BY <1>2, <1>3

\* What has come of ch with its b-th batch, and that this is got when x was.
Upto(ch, b) == IF b = BatchCount(ch) THEN ch ELSE SubSeq(ch, 1, b * BatchSize)
Joins(x, batch, y) == x \o batch.records = y

LEMMA BatchIs ==
  ASSUME NEW S, NEW ch \in Seq(S), NEW i, NEW b \in 1 .. BatchCount(ch)
  PROVE  /\ IsBatch(Batch(i, ch, b), i)
         /\ Batch(i, ch, b).complete = (b = BatchCount(ch))
         /\ Batch(i, ch, b).records \in Seq(S)
         /\ SubSeq(ch, 1, (b - 1) * BatchSize) \in Seq(S)
         /\ Joins(SubSeq(ch, 1, (b - 1) * BatchSize), Batch(i, ch, b), Upto(ch, b))
<1> DEFINE m == (b - 1) * BatchSize
           until == IF b = BatchCount(ch) THEN Len(ch) ELSE b * BatchSize
           M == Batch(i, ch, b)
<1>1. BatchCount(ch) \in Nat \ {0}
  BY BatchBounds
<1>2. m \in Nat /\ m <= Len(ch)
  BY BatchBounds
<1>3. until \in Nat /\ until <= Len(ch) /\ m <= until
  <2>1. CASE b = BatchCount(ch)
    <3>1. until = Len(ch) /\ Len(ch) \in Nat
      BY <2>1
    <3> QED
      BY <3>1, <1>2
  <2>2. CASE b # BatchCount(ch)
    <3>1. b \in 1 .. BatchCount(ch) - 1
      BY <1>1, <2>2
    <3>2. b * BatchSize \in Nat /\ b * BatchSize <= Len(ch) /\ b * BatchSize = m + BatchSize
      BY <3>1, BatchBounds
    <3>3. until = b * BatchSize
      BY <2>2
    <3> HIDE DEF m, until
    <3> QED
      BY <3>2, <3>3, <1>2, LimitTypes
  <2> QED
    BY <2>1, <2>2
<1>4. M = [kind |-> "Batch", id |-> i, complete |-> (b = BatchCount(ch)),
           records |-> SubSeq(ch, m + 1, until)]
  BY DEF Batch
<1>5. M.kind = "Batch" /\ M.id = i /\ M.records = SubSeq(ch, m + 1, until)
  <2> HIDE DEF M, m, until
  <2> QED
    BY <1>4
<1>6. M.complete = (b = BatchCount(ch))
  <2> HIDE DEF M, m, until
  <2> QED
    BY <1>4, Zenon
<1> HIDE DEF M, m, until
<1>7. SubSeq(ch, m + 1, until) \in Seq(S) /\ SubSeq(ch, 1, m) \in Seq(S)
      /\ Len(SubSeq(ch, 1, m)) = m /\ Len(SubSeq(ch, m + 1, until)) = until - m
  BY <1>2, <1>3
<1>8. SubSeq(ch, 1, m) \o SubSeq(ch, m + 1, until) = SubSeq(ch, 1, until)
  <2> DEFINE A == SubSeq(ch, 1, m)
             C == SubSeq(ch, m + 1, until)
             D == SubSeq(ch, 1, until)
  <2>1. D \in Seq(S) /\ Len(D) = until /\ \A k \in 1 .. until : D[k] = ch[k]
    BY <1>2, <1>3
  <2>2. A \in Seq(S) /\ Len(A) = m /\ \A k \in 1 .. m : A[k] = ch[k]
    BY <1>2, <1>3
  <2>3. C \in Seq(S) /\ Len(C) = until - m /\ \A k \in 1 .. until - m : C[k] = ch[m + k]
    BY <1>2, <1>3
  <2> HIDE DEF A, C, D
  <2>4. A \o C \in Seq(S) /\ Len(A \o C) = until
        /\ \A k \in 1 .. until : (A \o C)[k] = IF k <= m THEN A[k] ELSE C[k - m]
    <3>1. A \in Seq(S) /\ C \in Seq(S) /\ Len(A) + Len(C) = until /\ Len(A) = m
      BY <1>2, <1>3, <2>2, <2>3
    <3>2. A \o C \in Seq(S) /\ Len(A \o C) = Len(A) + Len(C)
      BY <3>1, ConcatProperties
    <3>3. \A k \in 1 .. Len(A) + Len(C) :
            (A \o C)[k] = IF k <= Len(A) THEN A[k] ELSE C[k - Len(A)]
      BY <3>1, ConcatProperties
    <3> QED
      BY <3>1, <3>2, <3>3
  <2>5. ASSUME NEW k \in 1 .. until PROVE (A \o C)[k] = D[k]
    <3>1. CASE k <= m
      <4>1. k \in 1 .. m
        BY <3>1, <1>2, <1>3
      <4> QED
        BY <3>1, <4>1, <2>1, <2>2, <2>4
    <3>2. CASE k > m
      <4>1. k - m \in 1 .. until - m /\ m + (k - m) = k
        BY <3>2, <1>2, <1>3
      <4>2. C[k - m] = ch[k]
        BY <4>1, <2>3
      <4>3. ~(k <= m)
        BY <3>2, <1>2, <1>3
      <4> QED
        BY <4>2, <4>3, <2>1, <2>4
    <3>3. k <= m \/ k > m
      BY <1>2, <1>3
    <3> QED
      BY <3>1, <3>2, <3>3, Zenon
  <2>6. A \o C = D
    BY <2>1, <2>4, <2>5, SeqEqual
  <2> QED
    BY <2>6 DEF A, C, D
<1>9. b = BatchCount(ch) => SubSeq(ch, 1, until) = ch
  <2> SUFFICES ASSUME b = BatchCount(ch) PROVE SubSeq(ch, 1, until) = ch
    OBVIOUS
  <2>1. until = Len(ch)
    BY DEF until
  <2> QED
    BY <2>1
<1>10. b # BatchCount(ch) => until = b * BatchSize
  BY DEF until
<1>11. IsBatch(M, i)
  BY <1>5 DEF IsBatch
<1>12. Joins(SubSeq(ch, 1, m), M, Upto(ch, b))
  <2>1. SubSeq(ch, 1, m) \o M.records = IF b = BatchCount(ch) THEN ch ELSE SubSeq(ch, 1, b * BatchSize)
    BY <1>5, <1>8, <1>9, <1>10
  <2> QED
    BY <2>1 DEF Joins, Upto
<1> QED
  BY <1>5, <1>6, <1>7, <1>11, <1>12 DEF M, m

LEMMA ComesLater ==
  ASSUME NEW M, NEW q \in Seq(M), q # <<>>, NEW i, NEW ch, BatchCount(ch) \in Nat,
         NEW p, NEW b, ComesAt(q, i, ch, p, b), ~IsBatch(Head(q), i)
  PROVE  ComesAt(Tail(q), i, ch, p - 1, b)
<1> DEFINE t == Tail(q)
           c == BatchCount(ch)
<1>1. t \in Seq(M) /\ Len(t) \in Nat /\ Len(t) = Len(q) - 1 /\ \A k \in 1 .. Len(t) : t[k] = q[k + 1]
  BY HeadTailProperties
<1>2. c \in Nat /\ Len(q) \in Nat /\ p \in 1 .. Len(q) /\ b \in 1 .. c /\ p + c - b <= Len(q)
  BY DEF ComesAt
<1>21. \A k \in 1 .. Len(q) : IsBatch(q[k], i) <=> p <= k /\ k <= p + c - b
  BY DEF ComesAt
<1>22. \A k \in p .. p + c - b : q[k] = Batch(i, ch, b + (k - p))
  BY DEF ComesAt
<1>3. p # 1
  <2>1. Head(q) = q[1] /\ 1 \in 1 .. Len(q)
    BY <1>2
  <2>2. ~(1 <= p + c - b /\ p <= 1)
    BY <1>21, <2>1
  <2> QED
    BY <1>2, <2>2
<1> HIDE DEF t, c
<1>4. p - 1 \in 1 .. Len(t) /\ (p - 1) + c - b <= Len(t)
  BY <1>1, <1>2, <1>3
<1>5. ASSUME NEW k \in 1 .. Len(t)
      PROVE  IsBatch(t[k], i) <=> p - 1 <= k /\ k <= (p - 1) + c - b
  <2>1. k + 1 \in 1 .. Len(q) /\ t[k] = q[k + 1]
    BY <1>1
  <2>2. IsBatch(q[k + 1], i) <=> p <= k + 1 /\ k + 1 <= p + c - b
    BY <1>21, <2>1, Zenon
  <2>3. (p <= k + 1 /\ k + 1 <= p + c - b) <=> (p - 1 <= k /\ k <= (p - 1) + c - b)
    BY <1>2
  <2> QED
    BY <2>1, <2>2, <2>3
<1>6. ASSUME NEW k \in p - 1 .. (p - 1) + c - b
      PROVE  t[k] = Batch(i, ch, b + (k - (p - 1)))
  <2>1. k + 1 \in p .. p + c - b /\ k \in 1 .. Len(t)
    BY <1>2, <1>3, <1>4
  <2>2. t[k] = q[k + 1] /\ q[k + 1] = Batch(i, ch, b + ((k + 1) - p))
    BY <1>1, <1>22, <2>1, Zenon
  <2>3. b + ((k + 1) - p) = b + (k - (p - 1))
    BY <1>2
  <2> QED
    BY <2>2, <2>3
<1> QED
  BY <1>2, <1>4, <1>5, <1>6, Zenon DEF ComesAt, t, c

LEMMA ComesNow ==
  ASSUME NEW M, NEW q \in Seq(M), q # <<>>, NEW i, NEW ch, BatchCount(ch) \in Nat,
         NEW p, NEW b, ComesAt(q, i, ch, p, b), IsBatch(Head(q), i)
  PROVE  /\ p = 1 /\ Head(q) = Batch(i, ch, b)
         /\ b # BatchCount(ch) => ComesAt(Tail(q), i, ch, 1, b + 1)
         /\ b = BatchCount(ch) => \A k \in 1 .. Len(Tail(q)) : ~IsBatch(Tail(q)[k], i)
<1> DEFINE t == Tail(q)
           c == BatchCount(ch)
<1>1. t \in Seq(M) /\ Len(t) \in Nat /\ Len(t) = Len(q) - 1 /\ \A k \in 1 .. Len(t) : t[k] = q[k + 1]
  BY HeadTailProperties
<1>2. c \in Nat /\ Len(q) \in Nat /\ p \in 1 .. Len(q) /\ b \in 1 .. c /\ p + c - b <= Len(q)
  BY DEF ComesAt
<1>21. \A k \in 1 .. Len(q) : IsBatch(q[k], i) <=> p <= k /\ k <= p + c - b
  BY DEF ComesAt
<1>22. \A k \in p .. p + c - b : q[k] = Batch(i, ch, b + (k - p))
  BY DEF ComesAt
<1>3. p = 1
  <2>1. Head(q) = q[1] /\ 1 \in 1 .. Len(q)
    BY <1>2
  <2>2. p <= 1
    BY <1>21, <2>1
  <2> QED
    BY <1>2, <2>2
<1> HIDE DEF t, c
<1>4. Head(q) = Batch(i, ch, b)
  <2>1. Head(q) = q[1] /\ 1 \in p .. p + c - b
    BY <1>2, <1>3
  <2>2. q[1] = Batch(i, ch, b + (1 - p))
    BY <1>22, <2>1, Zenon
  <2>3. b + (1 - p) = b
    BY <1>2, <1>3
  <2> QED
    BY <2>1, <2>2, <2>3
<1>5. ASSUME NEW k \in 1 .. Len(t)
      PROVE  IsBatch(t[k], i) <=> k <= c - b
  <2>1. k + 1 \in 1 .. Len(q) /\ t[k] = q[k + 1]
    BY <1>1
  <2>2. IsBatch(q[k + 1], i) <=> p <= k + 1 /\ k + 1 <= p + c - b
    BY <1>21, <2>1, Zenon
  <2>3. (p <= k + 1 /\ k + 1 <= p + c - b) <=> k <= c - b
    BY <1>2, <1>3
  <2> QED
    BY <2>1, <2>2, <2>3
<1>6. ASSUME b # c PROVE ComesAt(t, i, ch, 1, b + 1)
  <2>1. 1 \in 1 .. Len(t) /\ b + 1 \in 1 .. c /\ 1 + c - (b + 1) <= Len(t)
    BY <1>1, <1>2, <1>3, <1>6 DEF c
  <2>2. \A k \in 1 .. Len(t) : IsBatch(t[k], i) <=> 1 <= k /\ k <= 1 + c - (b + 1)
    BY <1>2, <1>5
  <2>3. ASSUME NEW k \in 1 .. 1 + c - (b + 1)
        PROVE  t[k] = Batch(i, ch, (b + 1) + (k - 1))
    <3>1. k + 1 \in p .. p + c - b /\ k \in 1 .. Len(t)
      BY <1>2, <1>3, <2>1
    <3>2. t[k] = q[k + 1] /\ q[k + 1] = Batch(i, ch, b + ((k + 1) - p))
      BY <1>1, <1>22, <3>1, Zenon
    <3>3. b + ((k + 1) - p) = (b + 1) + (k - 1)
      BY <1>2, <1>3
    <3> QED
      BY <3>2, <3>3
  <2> QED
    BY <2>1, <2>2, <2>3 DEF ComesAt, c
<1>7. b = c => \A k \in 1 .. Len(t) : ~IsBatch(t[k], i)
  BY <1>2, <1>5
<1> QED
  BY <1>3, <1>4, <1>6, <1>7 DEF t, c

LEMMA ComesStill ==
  ASSUME NEW M, NEW q \in Seq(M), NEW r \in Seq(M), NEW i, NEW ch, BatchCount(ch) \in Nat,
         NEW p, NEW b, ComesAt(q, i, ch, p, b), \A k \in 1 .. Len(r) : ~IsBatch(r[k], i)
  PROVE  ComesAt(q \o r, i, ch, p, b)
<1> DEFINE t == q \o r
           c == BatchCount(ch)
<1>1. t \in Seq(M) /\ Len(t) = Len(q) + Len(r) /\ Len(q) \in Nat /\ Len(r) \in Nat
  BY ConcatProperties
<1>2. c \in Nat /\ Len(q) \in Nat /\ p \in 1 .. Len(q) /\ b \in 1 .. c /\ p + c - b <= Len(q)
  BY DEF ComesAt
<1>21. \A k \in 1 .. Len(q) : IsBatch(q[k], i) <=> p <= k /\ k <= p + c - b
  BY DEF ComesAt
<1>22. \A k \in p .. p + c - b : q[k] = Batch(i, ch, b + (k - p))
  BY DEF ComesAt
<1>3. \A k \in 1 .. Len(q) : t[k] = q[k]
  OBVIOUS
<1>4. \A k \in Len(q) + 1 .. Len(t) : t[k] = r[k - Len(q)] /\ k - Len(q) \in 1 .. Len(r)
  OBVIOUS
<1> HIDE DEF t, c
<1>5. ASSUME NEW k \in 1 .. Len(t)
      PROVE  IsBatch(t[k], i) <=> p <= k /\ k <= p + c - b
  <2>1. CASE k <= Len(q)
    <3>1. k \in 1 .. Len(q)
      BY <1>2, <2>1
    <3> QED
      BY <3>1, <1>3, <1>21, Zenon
  <2>2. CASE k > Len(q)
    <3>1. ~IsBatch(t[k], i)
      BY <1>1, <1>4, <2>2
    <3> QED
      BY <1>1, <1>2, <2>2, <3>1
  <2> QED
    BY <1>1, <2>1, <2>2
<1>6. ASSUME NEW k \in p .. p + c - b PROVE t[k] = Batch(i, ch, b + (k - p))
  <2>1. k \in 1 .. Len(q)
    BY <1>2
  <2> QED
    BY <2>1, <1>3, <1>22, Zenon
<1>7. p \in 1 .. Len(t) /\ p + c - b <= Len(t)
  BY <1>1, <1>2
<1> QED
  BY <1>2, <1>5, <1>6, <1>7, Zenon DEF ComesAt, t, c

LEMMA ComesFirst ==
  ASSUME NEW M, NEW q \in Seq(M), NEW i, NEW S, NEW ch \in Seq(S), Batches(i, ch) \in Seq(M),
         \A k \in 1 .. Len(q) : ~IsBatch(q[k], i)
  PROVE  ComesAt(q \o Batches(i, ch), i, ch, Len(q) + 1, 1)
<1> DEFINE r == Batches(i, ch)
           t == q \o r
           c == BatchCount(ch)
<1>0. c \in Nat \ {0}
  BY BatchBounds
<1>1. r = [b \in 1 .. c |-> Batch(i, ch, b)]
  BY DEF Batches
<1>2. Len(r) = c /\ \A b \in 1 .. c : r[b] = Batch(i, ch, b)
  <2> HIDE DEF c, r
  <2> QED
    BY <1>0, <1>1
<1>3. \A b \in 1 .. c : IsBatch(r[b], i)
  BY <1>2, BatchIs
<1> HIDE DEF r, c
<1>4. t \in Seq(M) /\ Len(t) = Len(q) + c /\ Len(q) \in Nat
  <2>1. r \in Seq(M)
    BY DEF r
  <2>2. q \o r \in Seq(M) /\ Len(q \o r) = Len(q) + Len(r)
    BY <2>1, ConcatProperties, Zenon
  <2> QED
    BY <1>2, <2>2
<1>5. \A k \in 1 .. Len(q) : t[k] = q[k]
  BY DEF r
<1>6. \A k \in Len(q) + 1 .. Len(t) : t[k] = r[k - Len(q)] /\ k - Len(q) \in 1 .. c
  BY <1>2, <1>4 DEF r
<1> HIDE DEF t
<1>7. ASSUME NEW k \in 1 .. Len(t)
      PROVE  IsBatch(t[k], i) <=> Len(q) + 1 <= k /\ k <= Len(q) + 1 + c - 1
  <2>1. CASE k <= Len(q)
    BY <1>4, <1>5, <2>1
  <2>2. CASE k > Len(q)
    BY <1>0, <1>3, <1>4, <1>6, <2>2
  <2> QED
    BY <1>4, <2>1, <2>2
<1>8. ASSUME NEW k \in Len(q) + 1 .. Len(q) + 1 + c - 1
      PROVE  t[k] = Batch(i, ch, 1 + (k - (Len(q) + 1)))
  <2>1. k \in Len(q) + 1 .. Len(t) /\ k - Len(q) = 1 + (k - (Len(q) + 1))
    BY <1>0, <1>4
  <2> QED
    BY <1>2, <1>6, <2>1
<1>9. Len(q) + 1 \in 1 .. Len(t) /\ 1 \in 1 .. c /\ Len(q) + 1 + c - 1 <= Len(t)
  BY <1>0, <1>4
<1> QED
  BY <1>7, <1>8, <1>9 DEF ComesAt, t, r, c

-----------------------------------------------------------------------------
(***************************************************************************)
(* What the steps do to the hubs and the streams.                          *)
(***************************************************************************)
HubTypes ==
  /\ log \in [Hubs -> EntrySeqs]
  /\ \A n \in Hubs : Len(log[n]) <= RecordLimit
  /\ reader \in [Hubs -> [Readers -> ReaderStates]]
  /\ all \in [Hubs -> EntrySeqs]

LEMMA RecordsInvGives ==
  ASSUME RecordsInv, NEW n \in Hubs
  PROVE  /\ log[n] \in Seq(Entry) /\ all[n] \in Seq(Entry)
         /\ Holds(log[n], all[n]) /\ Aging(all[n])
BY DEF RecordsInv, DiagnosticsTypeOK, EntrySeqs, HubsHold

LEMMA SnapshotHolds ==
  ASSUME RecordsInv, NEW n \in Hubs, Snapshot(n), UNCHANGED all
  PROVE  /\ log' \in [Hubs -> EntrySeqs]
         /\ \A k \in Hubs : Len(log'[k]) <= RecordLimit
         /\ HubsHold'
         /\ log'[n] = Window(all[n])
<1>1. log \in [Hubs -> EntrySeqs] /\ \A k \in Hubs : Len(log[k]) <= RecordLimit
  BY DEF RecordsInv, DiagnosticsTypeOK
<1>2. log' = [log EXCEPT ![n] = Prune(log[n])]
  BY DEF Snapshot
<1>3. /\ Prune(log[n]) = Window(all[n]) /\ Prune(log[n]) \in EntrySeqs
      /\ Len(Prune(log[n])) <= RecordLimit /\ Holds(Prune(log[n]), all[n])
  BY RecordsInvGives, PruneIsWindow DEF EntrySeqs
<1>4. log' \in [Hubs -> EntrySeqs] /\ log'[n] = Prune(log[n])
      /\ \A k \in Hubs : k # n => log'[k] = log[k]
  BY <1>1, <1>2, <1>3
<1>5. \A k \in Hubs : Len(log'[k]) <= RecordLimit
  BY <1>1, <1>3, <1>4
<1>6. ASSUME NEW k \in Hubs PROVE Holds(log'[k], all[k]) /\ Aging(all[k])
  BY <1>3, <1>4, RecordsInvGives
<1>7. HubsHold'
  BY <1>6, Zenon DEF HubsHold, Holds, Aging
<1> QED
  BY <1>3, <1>4, <1>5, <1>7

LEMMA PublishHolds ==
  ASSUME RecordsInv, NEW new \in [Hubs -> Seq(Entry)], Publish(new),
         \A n \in Hubs : \A i \in 1 .. Len(new[n]) : new[n][i].age = 0
  PROVE  /\ HubTypes' /\ HubsHold' /\ StreamsFollow'
         /\ \A n \in Hubs : all'[n] = all[n] \o new[n]
<1>1. /\ log \in [Hubs -> EntrySeqs] /\ \A k \in Hubs : Len(log[k]) <= RecordLimit
      /\ reader \in [Hubs -> [Readers -> ReaderStates]]
  BY DEF RecordsInv, DiagnosticsTypeOK
<1>2. \A n \in Hubs : all'[n] = all[n] \o new[n]
  BY DEF Publish
<1>3. \A n \in Hubs : log'[n] = IF new[n] = <<>> THEN log[n] ELSE Prune(log[n] \o new[n])
  BY DEF Publish
<1>4. ASSUME NEW n \in Hubs
      PROVE  /\ log'[n] \in Seq(Entry) /\ Len(log'[n]) <= RecordLimit
             /\ all'[n] \in Seq(Entry)
             /\ Holds(log'[n], all'[n]) /\ Aging(all'[n])
  <2>1. log[n] \in Seq(Entry) /\ all[n] \in Seq(Entry) /\ Holds(log[n], all[n]) /\ Aging(all[n])
    BY RecordsInvGives
  <2>2. new[n] \in Seq(Entry) /\ \A i \in 1 .. Len(new[n]) : new[n][i].age = 0
    OBVIOUS
  <2>3. Holds(log[n] \o new[n], all[n] \o new[n]) /\ Aging(all[n] \o new[n])
    BY <2>1, <2>2, HoldsMore
  <2>4. log[n] \o new[n] \in Seq(Entry) /\ all[n] \o new[n] \in Seq(Entry)
    BY <2>1, <2>2
  <2>5. CASE new[n] = <<>>
    <3>1. log'[n] = log[n] /\ all'[n] = all[n]
      BY <1>2, <1>3, <2>1, <2>5, ConcatEmptySeq
    <3> QED
      BY <1>1, <2>1, <3>1
  <2>6. CASE new[n] # <<>>
    <3>1. log'[n] = Prune(log[n] \o new[n])
      BY <1>3, <2>6
    <3>2. /\ Prune(log[n] \o new[n]) \in Seq(Entry)
          /\ Len(Prune(log[n] \o new[n])) <= RecordLimit
          /\ Holds(Prune(log[n] \o new[n]), all[n] \o new[n])
      BY <2>3, <2>4, PruneIsWindow
    <3> QED
      BY <1>2, <2>3, <2>4, <3>1, <3>2
  <2> QED
    BY <2>5, <2>6
<1>5. HubsHold'
  BY <1>4, Zenon DEF HubsHold, Holds, Aging
<1>6. log' \in [Hubs -> EntrySeqs] /\ all' \in [Hubs -> EntrySeqs]
  <2>1. log' = [n \in Hubs |-> IF new[n] = <<>> THEN log[n] ELSE Prune(log[n] \o new[n])]
        /\ all' = [n \in Hubs |-> all[n] \o new[n]]
    BY DEF Publish
  <2>2. \A n \in Hubs : /\ (IF new[n] = <<>> THEN log[n] ELSE Prune(log[n] \o new[n])) \in EntrySeqs
                        /\ all[n] \o new[n] \in EntrySeqs
    BY <1>2, <1>3, <1>4 DEF EntrySeqs
  <2> QED
    BY <2>1, <2>2, Zenon
<1>7. ASSUME NEW n \in Hubs, NEW r \in Readers
      PROVE  /\ reader'[n][r] \in ReaderStates
             /\ reader'[n][r].open =>
                  /\ reader'[n][r].skipped \in 0 .. Len(all'[n])
                  /\ reader'[n][r].got =
                       RecordsOf(SubSeq(all'[n], reader'[n][r].skipped + 1, Len(all'[n])))
  <2> DEFINE s == reader[n][r]
             t == reader'[n][r]
             a == all[n]
             w == new[n]
  <2>1. t = IF s.open THEN [s EXCEPT !.got = s.got \o Broadcast(w)] ELSE s
    BY DEF Publish
  <2>2. s \in ReaderStates
    BY <1>1
  <2>3. s.open => s.skipped \in 0 .. Len(a) /\ s.got = RecordsOf(SubSeq(a, s.skipped + 1, Len(a)))
    BY DEF RecordsInv, StreamsFollow
  <2>4. a \in Seq(Entry) /\ w \in Seq(Entry) /\ all'[n] = a \o w
    BY <1>2, RecordsInvGives
  <2>5. CASE ~s.open
    BY <2>1, <2>2, <2>5
  <2>6. CASE s.open
    <3>1. s.got \in Seq(Records) /\ Broadcast(w) \in Seq(Records)
      BY <2>2, <2>4, RecordsOfIs DEF ReaderStates, Broadcast
    <3> HIDE DEF t, s, a, w
    <3>2. t = [s EXCEPT !.got = s.got \o Broadcast(w)]
      BY <2>1, <2>6
    <3>3. t \in ReaderStates /\ t.skipped = s.skipped /\ t.got = s.got \o Broadcast(w)
      <4>1. s.got \o Broadcast(w) \in Seq(Records)
        BY <3>1, ConcatProperties, Zenon
      <4> DEFINE g == s.got \o Broadcast(w)
      <4>2. g \in Seq(Records) /\ t = [s EXCEPT !.got = g]
        BY <3>2, <4>1
      <4> HIDE DEF g
      <4>3. t \in ReaderStates /\ t.skipped = s.skipped /\ t.got = g
        BY <2>2, <4>2 DEF ReaderStates
      <4> QED
        BY <4>3 DEF g
    <3> DEFINE k == s.skipped
               u == SubSeq(a, k + 1, Len(a))
    <3>4. k \in 0 .. Len(a) /\ s.got = RecordsOf(u)
      BY <2>3, <2>6
    <3> HIDE DEF k
    <3>5. u \in Seq(Entry) /\ Len(a \o w) = Len(a) + Len(w)
      BY <2>4, <3>4
    <3>6. SubSeq(a \o w, k + 1, Len(a \o w)) = u \o w
      <4> DEFINE X == SubSeq(a \o w, k + 1, Len(a \o w))
      <4>1. a \o w \in Seq(Entry) /\ Len(a) \in Nat /\ Len(w) \in Nat /\ k \in Nat /\ k <= Len(a)
        BY <2>4, <3>4
      <4>2. X \in Seq(Entry) /\ Len(X) = Len(a) + Len(w) - k
        BY <4>1, <3>5
      <4>3. ASSUME NEW i \in 1 .. Len(a) + Len(w) - k PROVE X[i] = (a \o w)[k + i]
        BY <4>1, <3>5
      <4>4. Len(u) = Len(a) - k /\ \A i \in 1 .. Len(a) - k : u[i] = a[k + i]
        BY <2>4, <4>1
      <4> HIDE DEF X, u
      <4>5. u \o w \in Seq(Entry) /\ Len(u \o w) = Len(a) + Len(w) - k
        <5>1. u \in Seq(Entry) /\ w \in Seq(Entry)
          BY <2>4, <3>5
        <5>2. u \o w \in Seq(Entry) /\ Len(u \o w) = Len(u) + Len(w)
          BY <5>1, ConcatProperties, Zenon
        <5> QED
          BY <4>1, <4>4, <5>2
      <4>6. ASSUME NEW i \in 1 .. Len(a) + Len(w) - k PROVE X[i] = (u \o w)[i]
        <5>0. a \in Seq(Entry) /\ w \in Seq(Entry) /\ u \in Seq(Entry)
          BY <2>4, <3>5
        <5>1. CASE i <= Len(a) - k
          <6>1. (u \o w)[i] = u[i] /\ (a \o w)[k + i] = a[k + i] /\ i \in 1 .. Len(a) - k
            BY <2>4, <3>5, <4>1, <4>4, <5>1
          <6> QED
            BY <4>3, <4>4, <6>1
        <5>2. CASE i > Len(a) - k
          <6>1. /\ i - (Len(a) - k) = (k + i) - Len(a) /\ ~(i <= Len(u)) /\ ~(k + i <= Len(a))
                /\ i \in 1 .. Len(u) + Len(w) /\ k + i \in 1 .. Len(a) + Len(w)
            BY <4>1, <4>4, <5>2
          <6>2. (u \o w)[i] = w[i - Len(u)]
            BY <5>0, <6>1, ConcatProperties, Zenon
          <6>3. (a \o w)[k + i] = w[(k + i) - Len(a)]
            BY <5>0, <6>1, ConcatProperties, Zenon
          <6> QED
            BY <4>3, <4>4, <6>1, <6>2, <6>3
        <5>3. i <= Len(a) - k \/ i > Len(a) - k
          BY <4>1
        <5> QED
          BY <5>1, <5>2, <5>3, Zenon
      <4>7. X = u \o w
        BY <4>2, <4>5, <4>6, SeqEqual
      <4> QED
        BY <4>7 DEF X
    <3>7. t.got = RecordsOf(u \o w)
      BY <2>4, <3>3, <3>4, <3>5, RecordsOfMore DEF Broadcast
    <3>8. k \in 0 .. Len(a \o w)
      BY <2>4, <3>4, <3>5
    <3>9. t.skipped \in 0 .. Len(a \o w) /\ t.got = RecordsOf(SubSeq(a \o w, t.skipped + 1, Len(a \o w)))
      BY <3>3, <3>6, <3>7, <3>8 DEF k
    <3> QED
      BY <2>4, <3>3, <3>9 DEF t
  <2> QED
    BY <2>5, <2>6
<1>8. reader' \in [Hubs -> [Readers -> ReaderStates]]
  <2> DEFINE next(n, r) == IF reader[n][r].open
                           THEN [reader[n][r] EXCEPT !.got = @ \o Broadcast(new[n])]
                           ELSE reader[n][r]
  <2>1. reader' = [n \in Hubs |-> [r \in Readers |-> next(n, r)]]
    BY DEF Publish
  <2>2. \A n \in Hubs, r \in Readers : reader'[n][r] = next(n, r)
    BY <2>1
  <2> HIDE DEF next
  <2>3. \A n \in Hubs, r \in Readers : next(n, r) \in ReaderStates
    BY <1>7, <2>2
  <2> QED
    BY <2>1, <2>3
<1>9. StreamsFollow'
  BY <1>7 DEF StreamsFollow
<1>10. HubTypes'
  BY <1>4, <1>6, <1>8 DEF HubTypes
<1> QED
  BY <1>2, <1>5, <1>9, <1>10

FreshEntries(new) ==
  /\ new \in [Hubs -> Seq(Entry)]
  /\ \A n \in Hubs : \A i \in 1 .. Len(new[n]) :
       /\ new[n][i].age = 0
       /\ new[n][i].source = "Local" <=> new[n][i].record.origin = n

LEMMA AtIsFresh ==
  ASSUME NEW n \in Hubs, NEW q \in Seq(Entry),
         \A i \in 1 .. Len(q) : q[i].age = 0 /\ (q[i].source = "Local" <=> q[i].record.origin = n)
  PROVE  FreshEntries(At(n, q))
<1>1. \A k \in Hubs : At(n, q)[k] = IF k = n THEN q ELSE <<>>
  BY DEF At
<1>2. <<>> \in Seq(Entry) /\ \A i \in 1 .. Len(<<>>) : FALSE
  OBVIOUS
<1>3. At(n, q) \in [Hubs -> Seq(Entry)]
  BY <1>2 DEF At
<1> QED
  BY <1>1, <1>2, <1>3, Zenon DEF FreshEntries

LEMMA RecordMade ==
  ASSUME RecordsInv, NEW n \in Hubs,
         open[n] \/ samples < MaxSamples \/ sessions < MaxSessions
  PROVE  made[n] \in Nat /\ made[n] + 1 \in Ids
<1>1. /\ made[n] \in Nat /\ samples \in 0 .. MaxSamples /\ sessions \in 0 .. MaxSessions
  BY LimitTypes DEF RecordsInv, DiagnosticsTypeOK
<1>2. made[n] + (IF open[n] THEN 1 ELSE 0) <= samples + 2 * sessions
  BY DEF RecordsInv, RecordsCounted
<1>3. made[n] + 1 <= MaxSamples + 2 * MaxSessions
  <2>1. samples + 2 * sessions <= MaxSamples + 2 * MaxSessions
    BY <1>1, LimitTypes
  <2>2. CASE open[n]
    <3>1. made[n] + 1 <= samples + 2 * sessions
      BY <1>2, <2>2
    <3> QED
      BY <1>1, <2>1, <3>1, LimitTypes
  <2>3. CASE ~open[n]
    <3>1. made[n] <= samples + 2 * sessions
      BY <1>1, <1>2, <2>3
    <3>2. samples + 2 * sessions < MaxSamples + 2 * MaxSessions
      BY <1>1, <2>3, LimitTypes
    <3> QED
      BY <1>1, <3>1, <3>2, LimitTypes
  <2> QED
    BY <2>2, <2>3
<1> QED
  BY <1>1, <1>3, LimitTypes DEF Ids

LEMMA OwnIsFresh ==
  ASSUME RecordsInv, NEW n \in Hubs,
         open[n] \/ samples < MaxSamples \/ sessions < MaxSessions
  PROVE  FreshEntries(At(n, OwnRecord(n)))
<1>1. /\ OwnRecord(n) \in Seq(Entry)
      /\ \A i \in 1 .. Len(OwnRecord(n)) :
           /\ OwnRecord(n)[i].age = 0
           /\ OwnRecord(n)[i].source = "Local" /\ OwnRecord(n)[i].record.origin = n
  BY RecordMade, OwnRecordIs
<1> QED
  BY <1>1, AtIsFresh

LEMMA BothAreFresh ==
  ASSUME RecordsInv, sessions < MaxSessions
  PROVE  FreshEntries([n \in Hubs |-> OwnRecord(n)])
<1>1. ASSUME NEW n \in Hubs
      PROVE  /\ OwnRecord(n) \in Seq(Entry)
             /\ \A i \in 1 .. Len(OwnRecord(n)) :
                  /\ OwnRecord(n)[i].age = 0
                  /\ OwnRecord(n)[i].source = "Local" /\ OwnRecord(n)[i].record.origin = n
  BY RecordMade, OwnRecordIs
<1>2. \A n \in Hubs : [k \in Hubs |-> OwnRecord(k)][n] = OwnRecord(n)
  OBVIOUS
<1>3. [n \in Hubs |-> OwnRecord(n)] \in [Hubs -> Seq(Entry)]
  BY <1>1
<1> QED
  BY <1>1, <1>2, <1>3 DEF FreshEntries

LEMMA ArrivedIsFresh ==
  ASSUME RecordsInv, OriginsKept, NEW n \in Hubs, arrived[n] # <<>>
  PROVE  FreshEntries(At(n, Entries(Head(arrived[n]).records, "Remote")))
<1>1. 1 \in 1 .. Len(arrived[n]) /\ Head(arrived[n]) = arrived[n][1]
  BY DEF RecordsInv, DiagnosticsTypeOK
<1>2. Head(arrived[n]).records \in Fetched(n)
  BY <1>1 DEF OriginsKept
<1> DEFINE E == Entries(Head(arrived[n]).records, "Remote")
<1>3. /\ E \in Seq(Entry)
      /\ \A i \in 1 .. Len(E) : E[i].age = 0 /\ E[i].source = "Remote" /\ E[i].record.origin # n
  BY <1>2, RemoteEntries
<1> HIDE DEF E
<1>4. FreshEntries(At(n, E))
  BY <1>3, AtIsFresh
<1> QED
  BY <1>4 DEF E

\* What a step may do to the hubs and the streams.
Publishes == \E new : FreshEntries(new) /\ Publish(new)
Prunes == \E n \in Hubs :
  Snapshot(n) /\ UNCHANGED all /\ (UNCHANGED reader \/ \E r \in Readers : OpenStream(n, r))
Keeps == UNCHANGED <<log, all>> /\ (UNCHANGED reader \/ \E n \in Hubs, r \in Readers : CloseStream(n, r))

LEMMA HandledHow ==
  ASSUME NEW n \in Hubs, Handle(n)
  PROVE  open[n] /\ chan[n] # <<>> /\ (HandleRequest(n) \/ HandleBatch(n))
BY DEF Handle

LEMMA StepKind ==
  ASSUME RecordsInv, OriginsKept, [DiagnosticsNext]_diagnosticsVars
  PROVE  Publishes \/ Prunes \/ Keeps \/ Tick
<1>1. ASSUME NEW n \in Hubs, Sample(n) PROVE Publishes
  <2>1. FreshEntries(At(n, OwnRecord(n))) /\ Publish(At(n, OwnRecord(n)))
    BY <1>1, OwnIsFresh DEF Sample
  <2> QED
    BY <2>1 DEF Publishes
<1>2. ASSUME NEW n \in Hubs, ReadSnapshot(n) PROVE Prunes
  BY <1>2 DEF ReadSnapshot, Prunes
<1>3. ASSUME NEW n \in Hubs, NEW error, open[n], Shut(n, error) PROVE Publishes
  <2>1. FreshEntries(At(n, OwnRecord(n))) /\ Publish(At(n, OwnRecord(n)))
    BY <1>3, OwnIsFresh DEF Shut
  <2> QED
    BY <2>1 DEF Publishes
<1>4. ASSUME NEW n \in Hubs, Close(n) PROVE Publishes
  BY <1>3, <1>4 DEF Close
<1>5. ASSUME NEW n \in Hubs, Handle(n), HandleRequest(n) PROVE Publishes \/ Prunes
  <2>1. CASE Head(chan[n]).limit = NoNumber
    BY <1>3, <1>5, <2>1 DEF HandleRequest, Handle
  <2>2. CASE Head(chan[n]).limit # NoNumber
    BY <1>5, <2>2 DEF HandleRequest, Prunes
  <2> QED
    BY <2>1, <2>2
<1>6. ASSUME NEW n \in Hubs, Handle(n), HandleBatch(n) PROVE Publishes \/ Keeps
  <2>1. Shut(n, TRUE) \/ UNCHANGED recordVars
    BY <1>6 DEF HandleBatch
  <2>2. CASE Shut(n, TRUE)
    BY <1>3, <1>6, <2>2 DEF Handle
  <2>3. CASE UNCHANGED recordVars
    BY <2>3 DEF Keeps, recordVars
  <2> QED
    BY <2>1, <2>2, <2>3
<1>7. ASSUME NEW n \in Hubs, Collect(n) PROVE Publishes
  <2>1. FreshEntries(At(n, Entries(Head(arrived[n]).records, "Remote")))
        /\ Publish(At(n, Entries(Head(arrived[n]).records, "Remote")))
    BY <1>7, ArrivedIsFresh DEF Collect
  <2> QED
    BY <2>1 DEF Publishes
<1>8. ASSUME NEW n \in Hubs, NEW r \in Readers, OpenStream(n, r) PROVE Prunes
  BY <1>8 DEF OpenStream, Prunes
<1>9. ASSUME NEW n \in Hubs, NEW r \in Readers, CloseStream(n, r) PROVE Keeps
  BY <1>9 DEF CloseStream, Keeps
<1>10. ASSUME NEW n \in Hubs, NEW query \in Queries, Request(n, query) PROVE Keeps
  BY <1>10 DEF Request, Keeps, recordVars
<1>11. ASSUME NEW n \in Hubs, NEW i \in 1 .. MaxRequests, Timeout(n, i) PROVE Keeps
  BY <1>11 DEF Timeout, Keeps, recordVars
<1>12. ASSUME BothConnect PROVE Publishes
  <2>1. FreshEntries([n \in Hubs |-> OwnRecord(n)]) /\ Publish([n \in Hubs |-> OwnRecord(n)])
    BY <1>12, BothAreFresh DEF BothConnect
  <2> QED
    BY <2>1 DEF Publishes
<1>13. ASSUME UNCHANGED diagnosticsVars PROVE Keeps
  BY <1>13 DEF diagnosticsVars, recordVars, Keeps
<1> QED
  BY <1>1, <1>2, <1>4, <1>5, <1>6, <1>7, <1>8, <1>9, <1>10, <1>11, <1>12, <1>13, HandledHow
  DEF DiagnosticsNext

LEMMA HubStep ==
  ASSUME RecordsInv, OriginsKept, [DiagnosticsNext]_diagnosticsVars
  PROVE  HubTypes' /\ HubsHold' /\ StreamsFollow'
<1>0. HubTypes
  BY DEF RecordsInv, DiagnosticsTypeOK, HubTypes
<1>1. ASSUME Publishes PROVE HubTypes' /\ HubsHold' /\ StreamsFollow'
  <2>1. PICK new : FreshEntries(new) /\ Publish(new)
    BY <1>1 DEF Publishes
  <2> QED
    BY <2>1, PublishHolds DEF FreshEntries
<1>2. ASSUME NEW n \in Hubs, Snapshot(n), UNCHANGED all
      PROVE  /\ UNCHANGED reader \/ (\E r \in Readers : OpenStream(n, r)) =>
                   HubTypes' /\ HubsHold' /\ StreamsFollow'
  <2>1. /\ log' \in [Hubs -> EntrySeqs] /\ \A k \in Hubs : Len(log'[k]) <= RecordLimit
        /\ HubsHold' /\ log'[n] = Window(all[n])
    BY <1>2, SnapshotHolds
  <2>2. CASE UNCHANGED reader
    <3>1. HubTypes'
      BY <1>0, <1>2, <2>1, <2>2 DEF HubTypes
    <3>2. StreamsFollow'
      BY <1>2, <2>2 DEF RecordsInv, StreamsFollow
    <3> QED
      BY <2>1, <3>1, <3>2
  <2>3. ASSUME NEW r \in Readers, OpenStream(n, r)
        PROVE  HubTypes' /\ HubsHold' /\ StreamsFollow'
    <3> DEFINE s == [open |-> TRUE, got |-> RecordsOf(log'[n]),
                     skipped |-> Len(all[n]) - Len(Window(all[n]))]
    <3>1. reader' = [reader EXCEPT ![n][r] = s]
      BY <2>3 DEF OpenStream
    <3>2. PICK m : StaysFrom(all[n], m) /\ Window(all[n]) = SubSeq(all[n], m, Len(all[n]))
      BY RecordsInvGives, WindowStays
    <3>3. m \in 1 .. Len(all[n]) + 1 /\ all[n] \in Seq(Entry)
      BY <3>2, RecordsInvGives DEF StaysFrom
    <3>4. Len(Window(all[n])) = Len(all[n]) - m + 1 /\ Window(all[n]) \in Seq(Entry)
      BY <3>2, <3>3
    <3>5. s.open /\ s.skipped = m - 1 /\ s.got = RecordsOf(log'[n])
      BY <3>3, <3>4
    <3>6. s.skipped \in 0 .. Len(all[n]) /\ s.got = RecordsOf(SubSeq(all[n], s.skipped + 1, Len(all[n])))
      <4>1. s.skipped + 1 = m /\ m - 1 \in 0 .. Len(all[n])
        BY <3>3, <3>5
      <4> HIDE DEF s
      <4> QED
        BY <2>1, <3>2, <3>5, <4>1
    <3>7. s \in ReaderStates
      <4>1. RecordsOf(log'[n]) \in Seq(Records)
        BY <2>1, <3>4, RecordsOfIs
      <4>2. Len(all[n]) - Len(Window(all[n])) \in Nat
        BY <3>3, <3>4
      <4> QED
        BY <4>1, <4>2 DEF ReaderStates
    <3> HIDE DEF s
    <3>8. reader \in [Hubs -> [Readers -> ReaderStates]]
      BY <1>0 DEF HubTypes
    <3>9. /\ reader' \in [Hubs -> [Readers -> ReaderStates]]
          /\ \A k \in Hubs, x \in Readers :
               reader'[k][x] = IF k = n /\ x = r THEN s ELSE reader[k][x]
      BY <3>1, <3>7, <3>8
    <3>10. HubTypes'
      BY <1>0, <1>2, <2>1, <3>9 DEF HubTypes
    <3>11. StreamsFollow'
      <4> SUFFICES ASSUME NEW k \in Hubs, NEW x \in Readers, reader'[k][x].open
                   PROVE  /\ reader'[k][x].skipped \in 0 .. Len(all[k])
                          /\ reader'[k][x].got =
                               RecordsOf(SubSeq(all[k], reader'[k][x].skipped + 1, Len(all[k])))
        BY <1>2 DEF StreamsFollow
      <4>1. CASE k = n /\ x = r
        BY <3>6, <3>9, <4>1
      <4>2. CASE ~(k = n /\ x = r)
        BY <3>9, <4>2 DEF RecordsInv, StreamsFollow
      <4> QED
        BY <4>1, <4>2
    <3> QED
      BY <2>1, <3>10, <3>11
  <2> QED
    BY <2>2, <2>3
<1>3. ASSUME Keeps PROVE HubTypes' /\ HubsHold' /\ StreamsFollow'
  <2>1. log' = log /\ all' = all
    BY <1>3 DEF Keeps
  <2>2. HubsHold'
    BY <2>1 DEF RecordsInv, HubsHold, Holds, Aging
  <2>3. CASE UNCHANGED reader
    BY <1>0, <2>1, <2>2, <2>3 DEF RecordsInv, HubTypes, StreamsFollow
  <2>4. ASSUME NEW n \in Hubs, NEW r \in Readers, CloseStream(n, r)
        PROVE  HubTypes' /\ StreamsFollow'
    <3>1. reader' = [reader EXCEPT ![n][r] = NoStream]
      BY <2>4 DEF CloseStream
    <3>2. NoStream \in ReaderStates /\ ~NoStream.open
      BY DEF NoStream, ReaderStates
    <3>3. reader \in [Hubs -> [Readers -> ReaderStates]]
      BY <1>0 DEF HubTypes
    <3> HIDE DEF NoStream
    <3>4. /\ reader' \in [Hubs -> [Readers -> ReaderStates]]
          /\ \A k \in Hubs, x \in Readers :
               reader'[k][x] = IF k = n /\ x = r THEN NoStream ELSE reader[k][x]
      BY <3>1, <3>2, <3>3
    <3>5. HubTypes'
      BY <1>0, <2>1, <3>4 DEF HubTypes
    <3>6. ASSUME NEW k \in Hubs, NEW x \in Readers, reader'[k][x].open
          PROVE  reader'[k][x] = reader[k][x]
      BY <3>2, <3>4, <3>6
    <3>7. StreamsFollow'
      BY <2>1, <3>6 DEF RecordsInv, StreamsFollow
    <3> QED
      BY <3>5, <3>7
  <2> QED
    BY <1>3, <2>2, <2>3, <2>4 DEF Keeps
<1>4. ASSUME Tick PROVE HubTypes' /\ HubsHold' /\ StreamsFollow'
  <2> DEFINE Later(e) == IF Old(e) THEN e ELSE [e EXCEPT !.age = @ + 1]
             Older(q) == [i \in 1 .. Len(q) |-> Later(q[i])]
  <2>1. log' = [n \in Hubs |-> Older(log[n])] /\ all' = [n \in Hubs |-> Older(all[n])]
        /\ reader' = reader
    BY <1>4 DEF Tick
  <2>2. ASSUME NEW e \in Entry
        PROVE  /\ Later(e) \in Entry /\ Later(e).record = e.record
               /\ Old(e) => Old(Later(e))
               /\ Later(e).age = IF e.age > Retention THEN e.age ELSE e.age + 1
    BY LimitTypes DEF Entry, Old
  <2> HIDE DEF Later
  <2>3. ASSUME NEW q \in Seq(Entry)
        PROVE  /\ Older(q) \in Seq(Entry) /\ Len(Older(q)) = Len(q)
               /\ \A i \in 1 .. Len(q) : Older(q)[i] = Later(q[i])
    <3>0. \A i \in 1 .. Len(q) : q[i] \in Entry
      OBVIOUS
    <3>1. Older(q) \in [1 .. Len(q) -> Entry]
      BY <2>2, <3>0
    <3>2. Len(q) \in Nat
      OBVIOUS
    <3>3. \A i \in 1 .. Len(q) : Older(q)[i] = Later(q[i])
      OBVIOUS
    <3> HIDE DEF Older
    <3> QED
      BY <3>1, <3>2, <3>3, FunctionIsSeq
  <2> HIDE DEF Older
  <2>4. HubTypes'
    <3>1. \A n \in Hubs : Older(log[n]) \in EntrySeqs /\ Older(all[n]) \in EntrySeqs
                          /\ Len(Older(log[n])) <= RecordLimit
      BY <1>0, <2>3, RecordsInvGives DEF EntrySeqs, HubTypes
    <3>2. \A n \in Hubs : log'[n] = Older(log[n])
      BY <2>1
    <3>3. log' \in [Hubs -> EntrySeqs] /\ all' \in [Hubs -> EntrySeqs]
      BY <2>1, <3>1
    <3> QED
      BY <1>0, <2>1, <3>1, <3>2, <3>3 DEF HubTypes
  <2>5. ASSUME NEW n \in Hubs PROVE Holds(log'[n], all'[n]) /\ Aging(all'[n])
    <3> DEFINE q == log[n]
               a == all[n]
               d == Len(a) - Len(q)
    <3>1. q \in Seq(Entry) /\ a \in Seq(Entry) /\ Holds(q, a) /\ Aging(a)
      BY RecordsInvGives
    <3>2. /\ Len(log'[n]) = Len(q) /\ \A i \in 1 .. Len(q) : log'[n][i] = Later(q[i])
          /\ Len(all'[n]) = Len(a) /\ \A i \in 1 .. Len(a) : all'[n][i] = Later(a[i])
      BY <2>1, <2>3, <3>1
    <3> HIDE DEF q, a
    <3>3. Len(q) <= Len(a) /\ Len(q) \in Nat /\ Len(a) \in Nat /\ d \in Nat
      BY <3>1 DEF Holds
    <3>4. ASSUME NEW i \in 1 .. Len(q) PROVE log'[n][i] = all'[n][d + i]
      <4>1. d + i \in 1 .. Len(a)
        BY <3>3
      <4>2. q[i] = a[d + i]
        BY <3>1 DEF Holds
      <4> QED
        BY <3>2, <4>1, <4>2
    <3>5. ASSUME NEW i \in 1 .. d PROVE Old(all'[n][i]) \/ i <= Len(a) - RecordLimit
      <4>1. i \in 1 .. Len(a)
        BY <3>3
      <4>2. Old(a[i]) \/ i <= Len(a) - RecordLimit
        BY <3>1 DEF Holds
      <4>3. a[i] \in Entry
        BY <3>1, <4>1
      <4>4. Old(a[i]) => Old(Later(a[i]))
        BY <2>2, <4>3
      <4>5. all'[n][i] = Later(a[i])
        BY <3>2, <4>1
      <4> QED
        BY <4>2, <4>4, <4>5
    <3>6. ASSUME NEW i \in 1 .. Len(a), NEW j \in 1 .. Len(a), i <= j
          PROVE  all'[n][j].age <= all'[n][i].age
      <4>1. a[j].age <= a[i].age
        BY <3>1, <3>6 DEF Aging
      <4>2. a[i] \in Entry /\ a[j] \in Entry
        BY <3>1
      <4>3. a[i].age \in 0 .. Retention + 1 /\ a[j].age \in 0 .. Retention + 1
        BY <4>2 DEF Entry
      <4>4. /\ all'[n][i].age = IF a[i].age > Retention THEN a[i].age ELSE a[i].age + 1
            /\ all'[n][j].age = IF a[j].age > Retention THEN a[j].age ELSE a[j].age + 1
        BY <2>2, <3>2, <4>2
      <4> DEFINE x == a[i].age
                 y == a[j].age
      <4>6. /\ x \in Nat /\ y \in Nat /\ y <= x /\ Retention \in Nat
            /\ all'[n][i].age = IF x > Retention THEN x ELSE x + 1
            /\ all'[n][j].age = IF y > Retention THEN y ELSE y + 1
        BY <4>1, <4>3, <4>4, LimitTypes
      <4> HIDE DEF x, y
      <4> QED
        BY <4>6
    <3> QED
      BY <3>2, <3>3, <3>4, <3>5, <3>6 DEF Holds, Aging
  <2>6. HubsHold'
    BY <2>5, Zenon DEF HubsHold, Holds, Aging
  <2>7. ASSUME NEW n \in Hubs, NEW k \in 0 .. Len(all[n])
        PROVE  /\ k \in 0 .. Len(all'[n])
               /\ RecordsOf(SubSeq(all'[n], k + 1, Len(all'[n]))) =
                    RecordsOf(SubSeq(all[n], k + 1, Len(all[n])))
    <3> DEFINE a == all[n]
               o == all'[n]
               s == SubSeq(a, k + 1, Len(a))
               t == SubSeq(o, k + 1, Len(o))
    <3>1. a \in Seq(Entry)
      BY RecordsInvGives
    <3>2. o \in Seq(Entry) /\ Len(o) = Len(a) /\ \A i \in 1 .. Len(a) : o[i] = Later(a[i])
      BY <2>1, <2>3, <3>1
    <3> HIDE DEF a, o
    <3>3. s \in Seq(Entry) /\ Len(s) = Len(a) - k /\ \A i \in 1 .. Len(a) - k : s[i] = a[k + i]
      BY <3>1 DEF a
    <3>4. t \in Seq(Entry) /\ Len(t) = Len(a) - k /\ \A i \in 1 .. Len(a) - k : t[i] = o[k + i]
      BY <3>1, <3>2 DEF a
    <3> HIDE DEF s, t
    <3>5. ASSUME NEW i \in 1 .. Len(a) - k PROVE t[i].record = s[i].record
      <4>1. k + i \in 1 .. Len(a)
        BY <3>1 DEF a
      <4>2. a[k + i] \in Entry /\ o[k + i] = Later(a[k + i])
        BY <3>1, <3>2, <4>1
      <4>3. Later(a[k + i]).record = a[k + i].record
        BY <2>2, <4>2
      <4> QED
        BY <3>3, <3>4, <4>2, <4>3
    <3>6. RecordsOf(t) = RecordsOf(s)
      <4>1. /\ RecordsOf(s) \in Seq(Records) /\ Len(RecordsOf(s)) = Len(a) - k
            /\ \A i \in 1 .. Len(a) - k : RecordsOf(s)[i] = s[i].record
        BY <3>3, RecordsOfIs
      <4>2. /\ RecordsOf(t) \in Seq(Records) /\ Len(RecordsOf(t)) = Len(a) - k
            /\ \A i \in 1 .. Len(a) - k : RecordsOf(t)[i] = t[i].record
        BY <3>4, RecordsOfIs
      <4> QED
        BY <3>5, <4>1, <4>2, SeqEqual
    <3> QED
      BY <3>2, <3>6 DEF s, t, a, o
  <2>8. StreamsFollow'
    BY <2>1, <2>7 DEF RecordsInv, StreamsFollow
  <2> QED
    BY <2>4, <2>6, <2>8
<1> QED
  BY <1>1, <1>2, <1>3, <1>4, StepKind DEF Prunes

-----------------------------------------------------------------------------
(***************************************************************************)
(* What they do to the session: its types, and the answer to a request.    *)
(***************************************************************************)
SessionTypes ==
  /\ {open, failed} \subseteq [Hubs -> BOOLEAN]
  /\ chan \in [Hubs -> Seq(Messages)]
  /\ pending \in [Hubs -> [1 .. MaxRequests -> Requests]]
  /\ arrived \in [Hubs -> Seq([id : 1 .. MaxRequests, records : Seq(Records)])]
  /\ made \in [Hubs -> 0 .. MaxSamples + 2 * MaxSessions]
  /\ samples \in 0 .. MaxSamples
  /\ sessions \in 0 .. MaxSessions
  /\ asked \in 0 .. MaxRequests
  /\ chosen \in [1 .. MaxRequests -> Seq(Records)]

LEMMA TypesSplit == DiagnosticsTypeOK <=> HubTypes /\ SessionTypes
BY DEF DiagnosticsTypeOK, HubTypes, SessionTypes

\* The kinds of messages.
RequestMessages ==
  [kind : {"Request"}, id : 1 .. MaxRequests, limit : 1 .. MaxPeerRecords \cup {NoNumber}]
BatchMessages ==
  [kind : {"Batch"}, id : 1 .. MaxRequests, complete : BOOLEAN, records : Seq(Records)]

LEMMA MessagesAre ==
  /\ Messages = RequestMessages \cup BatchMessages
  /\ \A m \in Messages : m.kind = "Request" => m \in RequestMessages
  /\ \A m \in Messages : m.kind = "Batch" => m \in BatchMessages
  /\ \A m \in Messages : m.id \in 1 .. MaxRequests /\ m.kind \in {"Request", "Batch"}
<1>1. Messages = RequestMessages \cup BatchMessages
  BY DEF Messages, RequestMessages, BatchMessages
<1>2. \A m \in RequestMessages : m.kind = "Request" /\ m.id \in 1 .. MaxRequests
  BY DEF RequestMessages
<1>3. \A m \in BatchMessages : m.kind = "Batch" /\ m.id \in 1 .. MaxRequests
  BY DEF BatchMessages
<1>4. "Batch" # "Request"
  OBVIOUS
<1> QED
  BY <1>1, <1>2, <1>3, <1>4, Zenon

LEMMA BatchTypes ==
  ASSUME NEW i \in 1 .. MaxRequests, NEW S, S \subseteq Records, NEW ch \in Seq(S)
  PROVE  /\ Batches(i, ch) \in Seq(BatchMessages) /\ Len(Batches(i, ch)) = BatchCount(ch)
         /\ \A b \in 1 .. BatchCount(ch) :
              /\ Batches(i, ch)[b] = Batch(i, ch, b)
              /\ Batches(i, ch)[b].id = i
              /\ Batches(i, ch)[b].kind = "Batch"
              /\ Batches(i, ch)[b].records \in Seq(S)
<1>0. BatchCount(ch) \in Nat
  BY BatchBounds
<1>1. ASSUME NEW b \in 1 .. BatchCount(ch)
      PROVE  /\ Batch(i, ch, b) \in BatchMessages /\ Batch(i, ch, b).id = i
             /\ Batch(i, ch, b).kind = "Batch" /\ Batch(i, ch, b).records \in Seq(S)
  <2> DEFINE r == SubSeq(ch, (b - 1) * BatchSize + 1,
                         IF b = BatchCount(ch) THEN Len(ch) ELSE b * BatchSize)
  <2>1. Batch(i, ch, b) = [kind |-> "Batch", id |-> i,
                           complete |-> (b = BatchCount(ch)), records |-> r]
    BY DEF Batch
  <2>2. Batch(i, ch, b).records \in Seq(S)
    BY BatchIs
  <2> HIDE DEF r
  <2>3. Batch(i, ch, b).records = r /\ Batch(i, ch, b).id = i /\ Batch(i, ch, b).kind = "Batch"
    BY <2>1
  <2>4. r \in Seq(Records)
    BY <2>2, <2>3, SeqMonotonic
  <2>5. (b = BatchCount(ch)) \in BOOLEAN
    OBVIOUS
  <2>6. Batch(i, ch, b) \in BatchMessages
    BY <2>1, <2>4, <2>5 DEF BatchMessages
  <2> QED
    BY <2>2, <2>3, <2>6
<1>2. Batches(i, ch) = [b \in 1 .. BatchCount(ch) |-> Batch(i, ch, b)]
  BY DEF Batches
<1>3. Batches(i, ch) \in [1 .. BatchCount(ch) -> BatchMessages]
  BY <1>1, <1>2
<1>4. Batches(i, ch) \in Seq(BatchMessages) /\ Len(Batches(i, ch)) = BatchCount(ch)
  BY <1>0, <1>3, FunctionIsSeq
<1>5. \A b \in 1 .. BatchCount(ch) : Batches(i, ch)[b] = Batch(i, ch, b)
  BY <1>2
<1> QED
  BY <1>1, <1>4, <1>5

LEMMA LatestIs ==
  ASSUME NEW S, NEW q \in Seq(S), NEW k \in Nat
  PROVE  Latest(q, k) \in Seq(S) /\ Len(Latest(q, k)) <= k
<1>1. CASE Len(q) > k
  <2>1. Latest(q, k) = SubSeq(q, Len(q) - k + 1, Len(q))
    BY <1>1 DEF Latest
  <2> QED
    BY <1>1, <2>1
<1>2. CASE ~(Len(q) > k)
  <2>1. Latest(q, k) = SubSeq(q, 1, Len(q))
    BY <1>2 DEF Latest
  <2>2. SubSeq(q, 1, Len(q)) = q
    OBVIOUS
  <2> QED
    BY <1>2, <2>1, <2>2
<1> QED
  BY <1>1, <1>2

LEMMA AnswerIs ==
  ASSUME RecordsInv, OriginsKept, NEW n \in Hubs, NEW limit \in Nat
  PROVE  /\ Answer(n, limit) = OwnLatest(n, limit)
         /\ Answer(n, limit) \in Fetched(Peer(n))
         /\ Len(Answer(n, limit)) <= limit
<1> DEFINE w == Prune(log[n])
           a == all[n]
           I == {i \in 1 .. Len(w) : w[i].source = "Local"}
           p == Picked(w, I)
           E == {e \in Entry : e.record.origin = n}
<1>1. /\ w = Window(a) /\ w \in Seq(Entry) /\ Holds(w, a) /\ a \in Seq(Entry)
  BY RecordsInvGives, PruneIsWindow
<1>2. ASSUME NEW i \in 1 .. Len(w) PROVE w[i].source = "Local" <=> w[i].record.origin = n
  <2>1. Len(a) - Len(w) + i \in 1 .. Len(a) /\ w[i] = a[Len(a) - Len(w) + i]
    <3> HIDE DEF w, a
    <3>1. Len(w) <= Len(a) /\ w[i] = a[Len(a) - Len(w) + i] /\ Len(w) \in Nat /\ Len(a) \in Nat
      BY <1>1 DEF Holds
    <3> QED
      BY <3>1
  <2> HIDE DEF w
  <2> QED
    BY <2>1 DEF OriginsKept
<1> HIDE DEF w
<1>3. I = {i \in 1 .. Len(w) : w[i].record.origin = n}
  BY <1>2
<1>4. I \in SUBSET (1 .. Len(w)) /\ \A i \in I : w[i] \in E
  BY <1>1, <1>2
<1> HIDE DEF I, E
<1>5. p \in Seq({w[i] : i \in I})
  BY <1>1, <1>4, PickedType
<1>6. {w[i] : i \in I} \subseteq E
  BY <1>4
<1>7. p \in Seq(E)
  <2> DEFINE X == {w[i] : i \in I}
  <2>1. p \in Seq(X) /\ X \subseteq E
    BY <1>5, <1>6
  <2> HIDE DEF X, p
  <2> QED
    BY <2>1, SeqMonotonic
<1>8. Answer(n, limit) = RecordsOf(Latest(p, limit))
  BY DEF Answer, LocalRecords, Local, w, I
<1>9. OwnLatest(n, limit) = RecordsOf(Latest(p, limit))
  BY <1>1, <1>3 DEF OwnLatest
<1> HIDE DEF p
<1> DEFINE q == Latest(p, limit)
<1>10. q \in Seq(E) /\ Len(q) <= limit
  BY <1>7, LatestIs
<1> HIDE DEF q
<1>11. RecordsOf(q) \in Fetched(Peer(n)) /\ Len(RecordsOf(q)) = Len(q)
  <2>1. ASSUME NEW i \in 1 .. Len(q) PROVE q[i].record \in {r \in Records : r.origin # Peer(n)}
    <3>1. q[i] \in E
      BY <1>10
    <3>2. q[i].record \in Records /\ q[i].record.origin = n
      BY <3>1 DEF E, Entry
    <3> QED
      BY <3>2, PeerIsOther
  <2>2. RecordsOf(q) = [i \in 1 .. Len(q) |-> q[i].record]
    BY DEF RecordsOf
  <2>3. RecordsOf(q) \in [1 .. Len(q) -> {r \in Records : r.origin # Peer(n)}]
    BY <2>1, <2>2
  <2>4. Len(q) \in Nat
    BY <1>10
  <2> QED
    BY <2>3, <2>4, FunctionIsSeq DEF Fetched
<1> QED
  BY <1>8, <1>9, <1>10, <1>11 DEF q

LEMMA FetchedAre ==
  ASSUME NEW n \in Hubs, NEW s \in Fetched(n)
  PROVE  s \in Seq(Records)
<1>1. s \in Seq({r \in Records : r.origin # n}) /\ {r \in Records : r.origin # n} \subseteq Records
  BY DEF Fetched
<1> DEFINE S == {r \in Records : r.origin # n}
<1>2. s \in Seq(S) /\ S \subseteq Records
  BY <1>1
<1> HIDE DEF S
<1> QED
  BY <1>2, SeqMonotonic

LEMMA SendIs ==
  ASSUME NEW n \in Hubs, NEW queue \in [Hubs -> Seq(Messages)], NEW messages \in Seq(Messages)
  PROVE  /\ Send(n, queue, messages) \in [Hubs -> Seq(Messages)]
         /\ \A k \in Hubs : Send(n, queue, messages)[k] =
              IF k = Peer(n) /\ open[k] THEN queue[k] \o messages ELSE queue[k]
<1>1. Peer(n) \in Hubs
  BY PeerIsOther
<1>2. queue[Peer(n)] \o messages \in Seq(Messages)
  <2>1. queue[Peer(n)] \in Seq(Messages)
    BY <1>1
  <2> QED
    BY <2>1, ConcatProperties, Zenon
<1>3. Send(n, queue, messages) =
        [queue EXCEPT ![Peer(n)] = IF open[Peer(n)] THEN queue[Peer(n)] \o messages ELSE queue[Peer(n)]]
  BY DEF Send
<1> DEFINE c == queue[Peer(n)] \o messages
<1> HIDE DEF c
<1>4. Send(n, queue, messages) =
        [queue EXCEPT ![Peer(n)] = IF open[Peer(n)] THEN c ELSE queue[Peer(n)]] /\ c \in Seq(Messages)
  BY <1>2, <1>3 DEF c
<1>5. /\ Send(n, queue, messages) \in [Hubs -> Seq(Messages)]
      /\ \A k \in Hubs : Send(n, queue, messages)[k] =
           IF k = Peer(n) /\ open[k] THEN c ELSE queue[k]
  BY <1>1, <1>4
<1> QED
  BY <1>5 DEF c

LEMMA ReceivedIs ==
  ASSUME chan \in [Hubs -> Seq(Messages)], NEW n \in Hubs, chan[n] # <<>>
  PROVE  /\ Received(n) \in [Hubs -> Seq(Messages)]
         /\ Received(n)[n] = Tail(chan[n])
         /\ \A k \in Hubs : k # n => Received(n)[k] = chan[k]
         /\ Head(chan[n]) \in Messages /\ Head(chan[n]) = chan[n][1] /\ 1 \in 1 .. Len(chan[n])
<1>1. Tail(chan[n]) \in Seq(Messages) /\ Head(chan[n]) \in Messages
      /\ Head(chan[n]) = chan[n][1] /\ 1 \in 1 .. Len(chan[n])
  <2>1. chan[n] \in Seq(Messages)
    OBVIOUS
  <2> QED
    BY <2>1
<1> QED
  BY <1>1 DEF Received

LEMMA SessionTypesHold == ASSUME RecordsInv PROVE SessionTypes
BY TypesSplit DEF RecordsInv

LEMMA NoRequestsTyped == NoRequest \in Requests /\ NoRequests \in [1 .. MaxRequests -> Requests]
<1>1. NoRequest \in Requests
  BY LimitTypes DEF NoRequest, Requests
<1> QED
  BY <1>1 DEF NoRequests

\* What the closing of an end leaves.
LEMMA ShutLeaves ==
  ASSUME RecordsInv, NEW n \in Hubs, NEW error \in BOOLEAN, open[n], Shut(n, error),
         UNCHANGED chosen
  PROVE  SessionTypes' /\ RecordsCounted'
<1>1. SessionTypes
  BY SessionTypesHold
<1>2. made[n] \in Nat /\ made[n] + 1 \in 0 .. MaxSamples + 2 * MaxSessions
  BY RecordMade, LimitTypes DEF Ids
<1>3. /\ open' = [open EXCEPT ![n] = FALSE] /\ failed' = [failed EXCEPT ![n] = error]
      /\ chan' = [chan EXCEPT ![n] = <<>>] /\ pending' = [pending EXCEPT ![n] = NoRequests]
      /\ made' = [made EXCEPT ![n] = @ + 1]
      /\ UNCHANGED <<sessions, arrived, samples, asked, chosen>>
  BY DEF Shut
<1>4. <<>> \in Seq(Messages)
  OBVIOUS
<1> HIDE DEF NoRequests
<1>5. {open', failed'} \subseteq [Hubs -> BOOLEAN]
  BY <1>1, <1>3 DEF SessionTypes
<1>6. SessionTypes'
  BY <1>1, <1>2, <1>3, <1>4, <1>5, NoRequestsTyped DEF SessionTypes
<1>7. ASSUME NEW k \in Hubs
      PROVE  made'[k] + (IF open'[k] THEN 1 ELSE 0) <= samples' + 2 * sessions'
  <2>1. made[k] + (IF open[k] THEN 1 ELSE 0) <= samples + 2 * sessions
    BY DEF RecordsInv, RecordsCounted
  <2>2. samples' = samples /\ sessions' = sessions
    BY <1>3
  <2>3. CASE k = n
    <3>1. made'[k] = made[k] + 1 /\ ~open'[k]
      BY <1>1, <1>3, <2>3 DEF SessionTypes
    <3>2. made[k] + 1 <= samples + 2 * sessions
      BY <2>1, <2>3
    <3>3. (IF open'[k] THEN 1 ELSE 0) = 0
      BY <3>1
    <3> QED
      BY <1>2, <2>2, <2>3, <3>1, <3>2, <3>3
  <2>4. CASE k # n
    <3>1. made'[k] = made[k] /\ open'[k] = open[k]
      BY <1>1, <1>3, <2>4 DEF SessionTypes
    <3> QED
      BY <2>1, <2>2, <3>1
  <2> QED
    BY <2>3, <2>4
<1>8. RecordsCounted'
  BY <1>7 DEF RecordsCounted
<1> QED
  BY <1>6, <1>8

LEMMA CountedStill ==
  ASSUME RecordsInv, UNCHANGED <<made, open, samples, sessions>>
  PROVE  RecordsCounted'
BY DEF RecordsInv, RecordsCounted

LEMMA SessionStep ==
  ASSUME RecordsInv, OriginsKept, [DiagnosticsNext]_diagnosticsVars
  PROVE  SessionTypes' /\ RecordsCounted'
<1>0. SessionTypes
  BY SessionTypesHold
<1>1. ASSUME NEW n \in Hubs, Sample(n) PROVE SessionTypes' /\ RecordsCounted'
  <2>1. /\ samples < MaxSamples /\ made' = [made EXCEPT ![n] = @ + 1] /\ samples' = samples + 1
        /\ UNCHANGED <<sessionVars, arrived, asked, chosen>>
    BY <1>1 DEF Sample
  <2>2. made[n] \in Nat /\ made[n] + 1 \in 0 .. MaxSamples + 2 * MaxSessions
    BY <2>1, RecordMade, LimitTypes DEF Ids
  <2>3. samples' \in 0 .. MaxSamples
    BY <1>0, <2>1, LimitTypes DEF SessionTypes
  <2>4. SessionTypes'
    BY <1>0, <2>1, <2>2, <2>3 DEF SessionTypes, sessionVars
  <2>5. ASSUME NEW k \in Hubs
        PROVE  made'[k] + (IF open'[k] THEN 1 ELSE 0) <= samples' + 2 * sessions'
    <3> DEFINE x == IF open[k] THEN 1 ELSE 0
    <3>1. made[k] + x <= samples + 2 * sessions
      BY DEF RecordsInv, RecordsCounted
    <3>2. sessions' = sessions /\ open' = open /\ samples' = samples + 1
      BY <2>1 DEF sessionVars
    <3>3. made'[k] \in Nat /\ made[k] \in Nat /\ made'[k] <= made[k] + 1
      BY <1>0, <2>1, LimitTypes DEF SessionTypes
    <3>4. x \in 0 .. 1 /\ samples \in Nat /\ sessions \in Nat
      BY <1>0, LimitTypes DEF SessionTypes
    <3> HIDE DEF x
    <3>5. made'[k] + x <= samples' + 2 * sessions'
      BY <3>1, <3>2, <3>3, <3>4
    <3> QED
      BY <3>2, <3>5 DEF x
  <2> QED
    BY <2>4, <2>5 DEF RecordsCounted
<1>2. ASSUME UNCHANGED <<open, failed, chan, pending, sessions, arrived, made, samples, asked, chosen>>
      PROVE  SessionTypes' /\ RecordsCounted'
  BY <1>0, <1>2, CountedStill DEF SessionTypes
<1>3. ASSUME NEW n \in Hubs, Close(n) PROVE SessionTypes' /\ RecordsCounted'
  BY <1>3, ShutLeaves DEF Close
<1>4. ASSUME NEW n \in Hubs, Handle(n), HandleRequest(n) PROVE SessionTypes' /\ RecordsCounted'
  <2> DEFINE m == Head(chan[n])
  <2>1. open[n] /\ chan[n] # <<>> /\ m.kind = "Request"
    BY <1>4 DEF Handle, HandleRequest
  <2>2. /\ Received(n) \in [Hubs -> Seq(Messages)] /\ m \in Messages
    BY <1>0, <2>1, ReceivedIs DEF SessionTypes
  <2>3. m \in RequestMessages
    BY <2>1, <2>2, MessagesAre
  <2>4. CASE m.limit = NoNumber
    BY <1>4, <2>1, <2>4, ShutLeaves DEF HandleRequest
  <2>5. CASE m.limit # NoNumber
    <3>1. m.id \in 1 .. MaxRequests /\ m.limit \in Nat
      BY <2>3, <2>5, LimitTypes DEF RequestMessages
    <3>2. /\ chan' = Send(n, Received(n), Batches(m.id, Answer(n, m.limit)))
          /\ chosen' = [chosen EXCEPT ![m.id] = OwnLatest(n, m.limit)]
          /\ UNCHANGED <<made, open, failed, pending, sessions, arrived, samples, asked>>
      BY <1>4, <2>5 DEF HandleRequest
    <3>3. Answer(n, m.limit) \in Seq(Records) /\ OwnLatest(n, m.limit) \in Seq(Records)
      BY <3>1, AnswerIs, FetchedAre, PeerIsOther
    <3>4. Batches(m.id, Answer(n, m.limit)) \in Seq(Messages)
      <4> DEFINE B == Batches(m.id, Answer(n, m.limit))
      <4>1. B \in Seq(BatchMessages) /\ BatchMessages \subseteq Messages
        BY <3>1, <3>3, BatchTypes, MessagesAre
      <4> HIDE DEF B
      <4> QED
        BY <4>1, SeqMonotonic DEF B
    <3>5. chan' \in [Hubs -> Seq(Messages)]
      BY <2>2, <3>2, <3>4, SendIs
    <3> HIDE DEF m
    <3>6. chosen' \in [1 .. MaxRequests -> Seq(Records)]
      BY <1>0, <3>1, <3>2, <3>3 DEF SessionTypes
    <3>7. SessionTypes'
      BY <1>0, <3>2, <3>5, <3>6 DEF SessionTypes
    <3> QED
      BY <3>2, <3>7, CountedStill
  <2> QED
    BY <2>4, <2>5
<1>5. ASSUME NEW n \in Hubs, Handle(n), HandleBatch(n) PROVE SessionTypes' /\ RecordsCounted'
  <2> DEFINE m == Head(chan[n])
             request == pending[n][m.id]
             records == request.records \o m.records
  <2>1. open[n] /\ chan[n] # <<>> /\ m.kind = "Batch"
    BY <1>5 DEF Handle, HandleBatch
  <2>2. Received(n) \in [Hubs -> Seq(Messages)] /\ m \in Messages
    BY <1>0, <2>1, ReceivedIs DEF SessionTypes
  <2>3. m \in BatchMessages
    BY <2>1, <2>2, MessagesAre
  <2>4. m.id \in 1 .. MaxRequests /\ m.records \in Seq(Records)
    BY <2>3 DEF BatchMessages
  <2> HIDE DEF m
  <2>5. request \in Requests
    BY <1>0, <2>4 DEF SessionTypes
  <2>6. records \in Seq(Records)
    <3>1. request.records \in Seq(Records)
      BY <2>5 DEF Requests
    <3> HIDE DEF request
    <3> QED
      BY <2>4, <3>1, ConcatProperties, Zenon
  <2> HIDE DEF records, request
  <2>7. [request EXCEPT !.records = records] \in Requests
    BY <2>5, <2>6 DEF Requests
  <2> DEFINE e == [request EXCEPT !.records = records]
             a == [id |-> m.id, records |-> records]
             Goes(entry) ==
               /\ chan' = Received(n)
               /\ pending' = [pending EXCEPT ![n][m.id] = entry]
               /\ UNCHANGED <<recordVars, open, failed, sessions, samples, asked, chosen>>
  <2>8. \/ Shut(n, TRUE) /\ UNCHANGED chosen
        \/ Goes(NoRequest) /\ UNCHANGED arrived
        \/ Goes(e) /\ UNCHANGED arrived
        \/ Goes(NoRequest) /\ arrived' = [arrived EXCEPT ![n] = Append(@, a)]
    BY <1>5 DEF HandleBatch, m, request, records
  <2>9. a \in [id : 1 .. MaxRequests, records : Seq(Records)]
    BY <2>4, <2>6
  <2>10. e \in Requests
    BY <2>7
  <2> HIDE DEF e, a
  <2>11. ASSUME NEW entry \in Requests, Goes(entry)
         PROVE  /\ chan' \in [Hubs -> Seq(Messages)]
                /\ pending' \in [Hubs -> [1 .. MaxRequests -> Requests]]
                /\ UNCHANGED <<made, open, failed, sessions, samples, asked, chosen>>
    BY <1>0, <2>2, <2>4, <2>11 DEF SessionTypes, recordVars
  <2>12. arrived' = [arrived EXCEPT ![n] = Append(@, a)] =>
           arrived' \in [Hubs -> Seq([id : 1 .. MaxRequests, records : Seq(Records)])]
    <3> DEFINE A == [id : 1 .. MaxRequests, records : Seq(Records)]
    <3>1. arrived \in [Hubs -> Seq(A)] /\ a \in A
      BY <1>0, <2>9 DEF SessionTypes
    <3> HIDE DEF A
    <3>2. Append(arrived[n], a) \in Seq(A)
      BY <3>1
    <3>3. arrived' = [arrived EXCEPT ![n] = Append(@, a)] => arrived' \in [Hubs -> Seq(A)]
      BY <3>1, <3>2
    <3> QED
      BY <3>3 DEF A
  <2>13. CASE Shut(n, TRUE) /\ UNCHANGED chosen
    BY <2>1, <2>13, ShutLeaves
  <2>14. ASSUME NEW entry \in Requests, Goes(entry),
                UNCHANGED arrived \/ arrived' = [arrived EXCEPT ![n] = Append(@, a)]
         PROVE  SessionTypes' /\ RecordsCounted'
    <3>1. /\ chan' \in [Hubs -> Seq(Messages)]
          /\ pending' \in [Hubs -> [1 .. MaxRequests -> Requests]]
          /\ UNCHANGED <<made, open, failed, sessions, samples, asked, chosen>>
      BY <2>11, <2>14
    <3>2. arrived' \in [Hubs -> Seq([id : 1 .. MaxRequests, records : Seq(Records)])]
      BY <1>0, <2>12, <2>14 DEF SessionTypes
    <3>3. SessionTypes'
      BY <1>0, <3>1, <3>2 DEF SessionTypes
    <3> QED
      BY <3>1, <3>3, CountedStill
  <2> QED
    BY <2>8, <2>10, <2>13, <2>14, NoRequestsTyped
<1>6. ASSUME NEW n \in Hubs, Collect(n) PROVE SessionTypes' /\ RecordsCounted'
  <2>1. arrived[n] # <<>> /\ arrived' = [arrived EXCEPT ![n] = Tail(@)]
        /\ UNCHANGED <<made, sessionVars, samples, asked, chosen>>
    BY <1>6 DEF Collect
  <2> DEFINE A == [id : 1 .. MaxRequests, records : Seq(Records)]
  <2>2. arrived \in [Hubs -> Seq(A)]
    BY <1>0 DEF SessionTypes
  <2> HIDE DEF A
  <2>3. Tail(arrived[n]) \in Seq(A)
    BY <2>1, <2>2
  <2>4. arrived' \in [Hubs -> Seq(A)]
    BY <2>1, <2>2, <2>3
  <2>5. SessionTypes'
    BY <1>0, <2>1, <2>4 DEF SessionTypes, sessionVars, A
  <2> QED
    BY <2>1, <2>5, CountedStill DEF sessionVars
<1>7. ASSUME NEW n \in Hubs, NEW query \in Queries, Request(n, query)
      PROVE  SessionTypes' /\ RecordsCounted'
  <2>1. Bounded(query) \in 1 .. MaxPeerRecords \cup {NoNumber}
    BY LimitTypes, LimitsAssumption DEF Bounded
  <2>2. /\ asked < MaxRequests /\ asked' = asked + 1
        /\ pending' = [pending EXCEPT ![n][asked'] = [limit |-> Bounded(query), records |-> <<>>]]
        /\ chan' = Send(n, chan, <<[kind |-> "Request", id |-> asked', limit |-> Bounded(query)]>>)
        /\ UNCHANGED <<recordVars, open, failed, sessions, arrived, samples, chosen>>
    BY <1>7 DEF Request
  <2>3. asked' \in 1 .. MaxRequests /\ asked' \in 0 .. MaxRequests
    BY <1>0, <2>2, LimitTypes DEF SessionTypes
  <2> DEFINE m == [kind |-> "Request", id |-> asked', limit |-> Bounded(query)]
             e == [limit |-> Bounded(query), records |-> <<>>]
  <2>4. m \in Messages
    <3>1. m \in RequestMessages
      BY <2>1, <2>3 DEF RequestMessages
    <3> QED
      BY <3>1, MessagesAre
  <2>5. e \in Requests
    BY <2>1, LimitTypes DEF Requests
  <2>6. /\ pending' = [pending EXCEPT ![n][asked'] = e] /\ chan' = Send(n, chan, <<m>>)
    BY <2>2
  <2> HIDE DEF m, e
  <2>7. chan' \in [Hubs -> Seq(Messages)]
    <3>1. <<m>> \in Seq(Messages) /\ chan \in [Hubs -> Seq(Messages)]
      BY <1>0, <2>4 DEF SessionTypes
    <3> QED
      BY <2>6, <3>1, SendIs
  <2>8. pending' \in [Hubs -> [1 .. MaxRequests -> Requests]]
    BY <1>0, <2>3, <2>5, <2>6 DEF SessionTypes
  <2>9. SessionTypes'
    BY <1>0, <2>2, <2>3, <2>7, <2>8 DEF SessionTypes, recordVars
  <2> QED
    BY <2>2, <2>9, CountedStill DEF recordVars
<1>8. ASSUME NEW n \in Hubs, NEW i \in 1 .. MaxRequests, Timeout(n, i)
      PROVE  SessionTypes' /\ RecordsCounted'
  <2>1. /\ pending' = [pending EXCEPT ![n][i] = NoRequest]
        /\ UNCHANGED <<recordVars, open, failed, chan, sessions, arrived, samples, asked, chosen>>
    BY <1>8 DEF Timeout
  <2>2. pending' \in [Hubs -> [1 .. MaxRequests -> Requests]]
    <3> HIDE DEF NoRequest
    <3> QED
      BY <1>0, <2>1, NoRequestsTyped DEF SessionTypes
  <2>3. SessionTypes'
    BY <1>0, <2>1, <2>2 DEF SessionTypes, recordVars
  <2> QED
    BY <2>1, <2>3, CountedStill DEF recordVars
<1>9. ASSUME BothConnect PROVE SessionTypes' /\ RecordsCounted'
  <2>1. /\ \A n \in Hubs : ~open[n]
        /\ sessions < MaxSessions /\ sessions' = sessions + 1
        /\ open' = [n \in Hubs |-> TRUE] /\ failed' = [n \in Hubs |-> FALSE]
        /\ chan' = [n \in Hubs |-> <<>>] /\ made' = [n \in Hubs |-> made[n] + 1]
        /\ UNCHANGED <<pending, arrived, samples, asked, chosen>>
    BY <1>9 DEF BothConnect
  <2>2. \A n \in Hubs : made[n] \in Nat /\ made[n] + 1 \in 0 .. MaxSamples + 2 * MaxSessions
    BY <2>1, RecordMade, LimitTypes DEF Ids
  <2>3. sessions' \in 0 .. MaxSessions
    BY <1>0, <2>1, LimitTypes DEF SessionTypes
  <2>4. {open', failed'} \subseteq [Hubs -> BOOLEAN] /\ chan' \in [Hubs -> Seq(Messages)]
    BY <2>1
  <2>5. made' \in [Hubs -> 0 .. MaxSamples + 2 * MaxSessions]
    BY <2>1, <2>2
  <2>6. SessionTypes'
    BY <1>0, <2>1, <2>3, <2>4, <2>5 DEF SessionTypes
  <2>7. ASSUME NEW k \in Hubs
        PROVE  made'[k] + (IF open'[k] THEN 1 ELSE 0) <= samples' + 2 * sessions'
    <3>1. made[k] <= samples + 2 * sessions
      <4>1. made[k] + (IF open[k] THEN 1 ELSE 0) <= samples + 2 * sessions
        BY DEF RecordsInv, RecordsCounted
      <4>2. (IF open[k] THEN 1 ELSE 0) = 0
        BY <2>1
      <4> QED
        BY <2>2, <4>1, <4>2
    <3>2. made'[k] = made[k] + 1 /\ (IF open'[k] THEN 1 ELSE 0) = 1
      BY <2>1
    <3>3. made[k] \in Nat /\ samples \in Nat /\ sessions \in Nat
      BY <1>0, <2>2, LimitTypes DEF SessionTypes
    <3>4. samples' = samples /\ sessions' = sessions + 1
      BY <2>1
    <3> QED
      BY <3>1, <3>2, <3>3, <3>4
  <2> QED
    BY <2>6, <2>7 DEF RecordsCounted
<1>10. ASSUME NEW n \in Hubs, ReadSnapshot(n) PROVE SessionTypes' /\ RecordsCounted'
  BY <1>2, <1>10 DEF ReadSnapshot, sessionVars
<1>11. ASSUME NEW n \in Hubs, NEW r \in Readers, OpenStream(n, r) \/ CloseStream(n, r)
       PROVE  SessionTypes' /\ RecordsCounted'
  BY <1>2, <1>11 DEF OpenStream, CloseStream, sessionVars
<1>12. ASSUME Tick PROVE SessionTypes' /\ RecordsCounted'
  BY <1>2, <1>12 DEF Tick, sessionVars
<1>13. ASSUME UNCHANGED diagnosticsVars PROVE SessionTypes' /\ RecordsCounted'
  BY <1>2, <1>13 DEF diagnosticsVars, recordVars, sessionVars
<1> QED
  BY <1>1, <1>3, <1>4, <1>5, <1>6, <1>7, <1>8, <1>9, <1>10, <1>11, <1>12, <1>13, HandledHow
  DEF DiagnosticsNext

LEMMA RecordsStep ==
  ASSUME RecordsInv, OriginsKept, [DiagnosticsNext]_diagnosticsVars
  PROVE  RecordsInv'
<1>1. HubTypes' /\ HubsHold' /\ StreamsFollow'
  BY HubStep
<1>2. SessionTypes' /\ RecordsCounted'
  BY SessionStep
<1>3. DiagnosticsTypeOK'
  BY <1>1, <1>2 DEF DiagnosticsTypeOK, HubTypes, SessionTypes
<1> QED
  BY <1>1, <1>2, <1>3 DEF RecordsInv

-----------------------------------------------------------------------------
(***************************************************************************)
(* What they do to the requests.  A batch that is waited for fits, so a    *)
(* step is one of a few.                                                   *)
(***************************************************************************)
\* The request at the head of chan[n] is answered.
Answers(n) ==
  LET m == Head(chan[n])
      ch == OwnLatest(n, m.limit)
  IN  /\ chan[n] # <<>>
      /\ m.kind = "Request" /\ m.limit \in Nat
      /\ ch \in Fetched(Peer(n)) /\ Len(ch) <= m.limit
      /\ chan' = Send(n, Received(n), Batches(m.id, ch))
      /\ chosen' = [chosen EXCEPT ![m.id] = ch]
      /\ UNCHANGED <<pending, arrived, asked>>

\* The batch at the head of chan[n] belongs to no request any more ...
Ignores(n) ==
  LET m == Head(chan[n])
  IN  /\ chan[n] # <<>>
      /\ m.kind = "Batch" /\ pending[n][m.id] = NoRequest
      /\ chan' = Received(n)
      /\ UNCHANGED <<pending, arrived, asked, chosen>>

\* ... or is the b-th of those that are to bring what is chosen, and the
\* request has got those before.
Gathers(n, b) ==
  LET m == Head(chan[n])
      ch == chosen[m.id]
      request == pending[n][m.id]
  IN  /\ chan[n] # <<>>
      /\ m.kind = "Batch" /\ request # NoRequest
      /\ ComesAt(chan[n], m.id, ch, 1, b) /\ Follows(request, ch, b)
      /\ chan' = Received(n)
      /\ UNCHANGED <<asked, chosen>>
      /\ IF b = BatchCount(ch)
         THEN /\ ch \in Fetched(n)
              /\ pending' = [pending EXCEPT ![n][m.id] = NoRequest]
              /\ arrived' = [arrived EXCEPT ![n] = Append(@, [id |-> m.id, records |-> ch])]
         ELSE /\ SubSeq(ch, 1, b * BatchSize) \in Fetched(n)
              /\ pending' = [pending EXCEPT ![n][m.id] =
                              [request EXCEPT !.records = SubSeq(ch, 1, b * BatchSize)]]
              /\ UNCHANGED arrived

Shuts(n) ==
  /\ chan' = [chan EXCEPT ![n] = <<>>] /\ pending' = [pending EXCEPT ![n] = NoRequests]
  /\ UNCHANGED <<arrived, asked, chosen>>

LEMMA ChosenTyped ==
  ASSUME RecordsInv, NEW i \in 1 .. MaxRequests
  PROVE  chosen[i] \in Seq(Records) /\ BatchCount(chosen[i]) \in Nat \ {0}
<1>1. chosen[i] \in Seq(Records)
  BY SessionTypesHold DEF SessionTypes
<1> QED
  BY <1>1, BatchBounds

LEMMA FetchedMore ==
  ASSUME NEW n \in Hubs, NEW s \in Fetched(n), NEW t \in Fetched(n)
  PROVE  s \o t \in Fetched(n)
BY ConcatProperties, Zenon DEF Fetched

\* A batch that is waited for fits what has come before it, and never makes
\* it too much.
LEMMA BatchFits ==
  ASSUME RecordsInv, RequestsInv, NEW n \in Hubs, chan[n] # <<>>,
         Head(chan[n]).kind = "Batch", pending[n][Head(chan[n]).id] # NoRequest
  PROVE  LET m == Head(chan[n])
             ch == chosen[m.id]
             records == pending[n][m.id].records \o m.records
         IN  /\ Len(records) <= pending[n][m.id].limit
             /\ records \in Fetched(n)
             /\ \E b \in 1 .. BatchCount(ch) :
                  /\ ComesAt(chan[n], m.id, ch, 1, b)
                  /\ Follows(pending[n][m.id], ch, b)
                  /\ m.complete <=> b = BatchCount(ch)
                  /\ records = IF b = BatchCount(ch) THEN ch ELSE SubSeq(ch, 1, b * BatchSize)
<1> DEFINE m == Head(chan[n])
           i == m.id
           ch == chosen[i]
           request == pending[n][i]
           records == request.records \o m.records
<1>1. chan \in [Hubs -> Seq(Messages)]
  BY SessionTypesHold DEF SessionTypes
<1>2. m \in Messages /\ m = chan[n][1] /\ 1 \in 1 .. Len(chan[n]) /\ chan[n] \in Seq(Messages)
  BY <1>1, ReceivedIs
<1>3. i \in 1 .. MaxRequests
  BY <1>2, MessagesAre
<1>4. IsBatch(m, i)
  BY DEF IsBatch
<1>5. ch \in Seq(Records) /\ BatchCount(ch) \in Nat \ {0}
  BY <1>3, ChosenTyped
<1>6. PICK p \in 1 .. Len(chan[n]), b \in 1 .. BatchCount(ch) :
        ComesAt(chan[n], i, ch, p, b) /\ Follows(request, ch, b)
  <2>1. \E k \in 1 .. Len(chan[n]) : IsBatch(chan[n][k], i)
    BY <1>2, <1>4
  <2> HIDE DEF i
  <2> QED
    BY <1>3, <2>1 DEF RequestsInv, BatchesCome
<1>7. p = 1 /\ m = Batch(i, ch, b)
  <2> HIDE DEF i, ch
  <2> QED
    BY <1>2, <1>4, <1>5, <1>6, ComesNow
<1>8. request.records = SubSeq(ch, 1, (b - 1) * BatchSize) /\ request.limit \in Nat
      /\ Len(ch) <= request.limit
  BY <1>6 DEF Follows
<1> HIDE DEF m, i, ch, request
<1>9. /\ m.complete = (b = BatchCount(ch))
      /\ request.records \o m.records =
           IF b = BatchCount(ch) THEN ch ELSE SubSeq(ch, 1, b * BatchSize)
  <2>1. ch \in Seq(Records) /\ b \in 1 .. BatchCount(ch) /\ m = Batch(i, ch, b)
        /\ request.records = SubSeq(ch, 1, (b - 1) * BatchSize)
    BY <1>5, <1>6, <1>7, <1>8
  <2>2. Batch(i, ch, b).complete = (b = BatchCount(ch))
    BY <2>1, BatchIs
  <2>3. Joins(SubSeq(ch, 1, (b - 1) * BatchSize), Batch(i, ch, b), Upto(ch, b))
    BY <2>1, BatchIs
  <2>4. Joins(request.records, m, Upto(ch, b))
    BY <2>1, <2>3
  <2> QED
    BY <2>1, <2>2, <2>4 DEF Joins, Upto
<1>10. Len(records) <= request.limit
  <2>1. CASE b = BatchCount(ch)
    <3>1. records = ch
      BY <1>9, <2>1
    <3> HIDE DEF records
    <3> QED
      BY <1>8, <3>1
  <2>2. CASE b # BatchCount(ch)
    <3>1. b \in 1 .. BatchCount(ch) - 1
      BY <1>5, <1>6, <2>2
    <3>2. b * BatchSize \in Nat /\ b * BatchSize <= Len(ch)
      BY <1>5, <3>1, BatchBounds
    <3>3. records = SubSeq(ch, 1, b * BatchSize)
      BY <1>9, <2>2
    <3> HIDE DEF records
    <3>4. Len(records) = b * BatchSize
      BY <1>5, <3>2, <3>3
    <3>5. Len(ch) \in Nat
      BY <1>5
    <3> QED
      BY <1>8, <3>2, <3>4, <3>5
  <2> QED
    BY <2>1, <2>2
<1>11. records \in Fetched(n)
  <2>1. request.records \in Fetched(n)
    BY <1>3 DEF RequestsInv, OriginsKept, request
  <2>2. m.records \in Fetched(n)
    <3>1. m.kind = "Batch"
      BY <1>4 DEF IsBatch
    <3> QED
      BY <1>2, <3>1 DEF RequestsInv, OriginsKept
  <2> QED
    BY <2>1, <2>2, FetchedMore
<1>12. ComesAt(chan[n], i, ch, 1, b) /\ Follows(request, ch, b) /\ (m.complete <=> b = BatchCount(ch))
  BY <1>6, <1>7, <1>9
<1> QED
  BY <1>6, <1>9, <1>10, <1>11, <1>12 DEF m, i, ch, request

\* What a step may do to the requests.
LEMMA StepEffect ==
  ASSUME RecordsInv, RequestsInv, [DiagnosticsNext]_diagnosticsVars
  PROVE  \/ UNCHANGED <<chan, pending, arrived, asked, chosen>>
         \/ BothConnect
         \/ \E n \in Hubs :
              \/ Shuts(n) \/ Answers(n) \/ Ignores(n) \/ Collect(n)
              \/ \E b \in 1 .. BatchCount(chosen[Head(chan[n]).id]) : Gathers(n, b)
              \/ \E query \in Queries : Request(n, query)
              \/ \E i \in 1 .. MaxRequests : Timeout(n, i)
<1>0. SessionTypes /\ OriginsKept
  BY SessionTypesHold DEF RequestsInv
<1>1. ASSUME NEW n \in Hubs, NEW error, Shut(n, error), UNCHANGED chosen PROVE Shuts(n)
  BY <1>1 DEF Shut, Shuts
<1>2. ASSUME NEW n \in Hubs, Handle(n), HandleRequest(n) PROVE Shuts(n) \/ Answers(n)
  <2> DEFINE m == Head(chan[n])
  <2>1. open[n] /\ chan[n] # <<>> /\ m.kind = "Request"
    BY <1>2 DEF Handle, HandleRequest
  <2>2. m \in Messages
    BY <1>0, <2>1, ReceivedIs DEF SessionTypes
  <2>3. m \in RequestMessages
    BY <2>1, <2>2, MessagesAre
  <2>4. CASE m.limit = NoNumber
    BY <1>1, <1>2, <2>4 DEF HandleRequest
  <2>5. CASE m.limit # NoNumber
    <3>1. m.limit \in Nat
      BY <2>3, <2>5, LimitTypes DEF RequestMessages
    <3>2. /\ chan' = Send(n, Received(n), Batches(m.id, Answer(n, m.limit)))
          /\ chosen' = [chosen EXCEPT ![m.id] = OwnLatest(n, m.limit)]
          /\ UNCHANGED <<made, open, failed, pending, sessions, arrived, samples, asked>>
      BY <1>2, <2>5 DEF HandleRequest
    <3>3. /\ Answer(n, m.limit) = OwnLatest(n, m.limit)
          /\ Answer(n, m.limit) \in Fetched(Peer(n)) /\ Len(Answer(n, m.limit)) <= m.limit
      BY <1>0, <3>1, AnswerIs
    <3> QED
      BY <2>1, <3>1, <3>2, <3>3 DEF Answers
  <2> QED
    BY <2>4, <2>5
<1>3. ASSUME NEW n \in Hubs, Handle(n), HandleBatch(n)
      PROVE  Ignores(n) \/ \E b \in 1 .. BatchCount(chosen[Head(chan[n]).id]) : Gathers(n, b)
  <2> DEFINE m == Head(chan[n])
             ch == chosen[m.id]
             request == pending[n][m.id]
             records == request.records \o m.records
             a == [id |-> m.id, records |-> records]
             e == [request EXCEPT !.records = records]
             Goes(entry) ==
               /\ chan' = Received(n)
               /\ pending' = [pending EXCEPT ![n][m.id] = entry]
               /\ UNCHANGED <<recordVars, open, failed, sessions, samples, asked, chosen>>
  <2>1. chan[n] # <<>> /\ m.kind = "Batch"
    BY <1>3 DEF Handle, HandleBatch
  <2>2. m \in Messages /\ m.id \in 1 .. MaxRequests
    BY <1>0, <2>1, ReceivedIs, MessagesAre DEF SessionTypes
  <2>3. \/ request = NoRequest /\ Goes(NoRequest) /\ UNCHANGED arrived
        \/ request # NoRequest /\ Len(records) > request.limit
        \/ request # NoRequest /\ ~m.complete /\ Goes(e) /\ UNCHANGED arrived
        \/ request # NoRequest /\ m.complete /\ Goes(NoRequest)
             /\ arrived' = [arrived EXCEPT ![n] = Append(@, a)]
    BY <1>3 DEF HandleBatch
  <2>4. CASE request = NoRequest
    <3>1. chan' = Received(n) /\ pending' = [pending EXCEPT ![n][m.id] = NoRequest]
          /\ UNCHANGED <<arrived, asked, chosen>>
      BY <2>3, <2>4
    <3>2. pending' = pending
      <4> HIDE DEF m, NoRequest
      <4>1. pending \in [Hubs -> [1 .. MaxRequests -> Requests]]
        BY <1>0 DEF SessionTypes
      <4> QED
        BY <2>2, <2>4, <3>1, <4>1
    <3> QED
      BY <2>1, <2>4, <3>1, <3>2 DEF Ignores
  <2>5. CASE request # NoRequest
    <3>1. /\ Len(records) <= request.limit /\ records \in Fetched(n)
          /\ \E b \in 1 .. BatchCount(ch) :
               /\ ComesAt(chan[n], m.id, ch, 1, b) /\ Follows(request, ch, b)
               /\ m.complete <=> b = BatchCount(ch)
               /\ records = IF b = BatchCount(ch) THEN ch ELSE SubSeq(ch, 1, b * BatchSize)
      BY <2>1, <2>5, BatchFits
    <3>2. PICK b \in 1 .. BatchCount(ch) :
            /\ ComesAt(chan[n], m.id, ch, 1, b) /\ Follows(request, ch, b)
            /\ m.complete <=> b = BatchCount(ch)
            /\ records = IF b = BatchCount(ch) THEN ch ELSE SubSeq(ch, 1, b * BatchSize)
      BY <3>1, Zenon
    <3>3. ~(Len(records) > request.limit)
      <4>1. Len(records) \in Nat /\ request.limit \in Nat
        <5>1. records \in Seq(Records)
          BY <3>1, FetchedAre
        <5>2. request.limit \in Nat
          BY <2>5, <3>2 DEF Follows
        <5> HIDE DEF records, request
        <5> QED
          BY <5>1, <5>2
      <4>2. Len(records) <= request.limit
        BY <3>1
      <4> HIDE DEF records, request
      <4> QED
        BY <4>1, <4>2
    <3> HIDE DEF records, request
    <3>4. CASE b = BatchCount(ch)
      <4>1. /\ Goes(NoRequest) /\ arrived' = [arrived EXCEPT ![n] = Append(@, a)]
        BY <2>3, <2>5, <3>2, <3>3, <3>4
      <4>2. records = ch
        BY <3>2, <3>4
      <4> QED
        BY <2>1, <2>5, <3>1, <3>2, <3>4, <4>1, <4>2 DEF Gathers, request
    <3>5. CASE b # BatchCount(ch)
      <4>1. Goes(e) /\ UNCHANGED arrived
        BY <2>3, <2>5, <3>2, <3>3, <3>5
      <4>2. records = SubSeq(ch, 1, b * BatchSize)
        BY <3>2, <3>5
      <4> QED
        BY <2>1, <2>5, <3>1, <3>2, <3>5, <4>1, <4>2 DEF Gathers, request
    <3> QED
      BY <3>4, <3>5
  <2> QED
    BY <2>4, <2>5
<1>4. ASSUME NEW n \in Hubs, Sample(n) \/ ReadSnapshot(n)
      PROVE  UNCHANGED <<chan, pending, arrived, asked, chosen>>
  BY <1>4 DEF Sample, ReadSnapshot, sessionVars
<1>5. ASSUME NEW n \in Hubs, NEW r \in Readers, OpenStream(n, r) \/ CloseStream(n, r)
      PROVE  UNCHANGED <<chan, pending, arrived, asked, chosen>>
  BY <1>5 DEF OpenStream, CloseStream, sessionVars
<1>6. ASSUME Tick \/ UNCHANGED diagnosticsVars
      PROVE  UNCHANGED <<chan, pending, arrived, asked, chosen>>
  BY <1>6 DEF Tick, diagnosticsVars, sessionVars
<1>7. ASSUME NEW n \in Hubs, Close(n) PROVE Shuts(n)
  BY <1>1, <1>7 DEF Close
<1> QED
  BY <1>2, <1>3, <1>4, <1>5, <1>6, <1>7, HandledHow DEF DiagnosticsNext

-----------------------------------------------------------------------------
(***************************************************************************)
(* The ids: a request that has not been heard has left no trace but itself *)
(* and the entry of its sender.                                            *)
(***************************************************************************)
\* A batch of request i is on its way.
Coming(i) == \E n \in Hubs : \E q \in 1 .. Len(chan[n]) : IsBatch(chan[n][q], i)

\* Of the messages to k the first d[k] are gone, and no other comes but the
\* batches of requests that were at the head; what arrives or changes in a
\* request does so by a batch.
Handles(d, J) ==
  /\ d \in [Hubs -> {0, 1}]
  /\ \A k \in Hubs : \A p \in 1 .. Len(chan'[k]) :
       \/ p + d[k] \in 1 .. Len(chan[k]) /\ chan'[k][p] = chan[k][p + d[k]]
       \/ chan'[k][p].kind = "Batch" /\ chan'[k][p].id \in J
  /\ \A j \in J : \E n \in Hubs :
       d[n] = 1 /\ 1 \in 1 .. Len(chan[n]) /\ chan[n][1].kind = "Request" /\ chan[n][1].id = j
  /\ \A n \in Hubs : \A q \in 1 .. Len(arrived'[n]) :
       \/ \E r \in 1 .. Len(arrived[n]) : arrived'[n][q] = arrived[n][r]
       \/ Coming(arrived'[n][q].id)
  /\ \A n \in Hubs : \A i \in 1 .. MaxRequests :
       pending'[n][i] # NoRequest => pending'[n][i] = pending[n][i] \/ Coming(i)
  /\ UNCHANGED asked

LEMMA HeardArrived ==
  ASSUME HeardOnce, NEW k \in Hubs, NEW p \in 1 .. Len(chan[k]), chan[k][p].kind = "Request",
         NEW n \in Hubs, NEW q \in 1 .. Len(arrived[n])
  PROVE  arrived[n][q].id # chan[k][p].id
<1> DEFINE P(i) == \A m \in Hubs : \A x \in 1 .. Len(arrived[m]) : arrived[m][x].id # i
<1>1. P(chan[k][p].id)
  BY DEF HeardOnce
<1>2. ASSUME NEW i, P(i) PROVE arrived[n][q].id # i
  BY <1>2, Zenon
<1> HIDE DEF P
<1> QED
  BY <1>1, <1>2

LEMMA HeardPending ==
  ASSUME HeardOnce, NEW k \in Hubs, NEW p \in 1 .. Len(chan[k]), chan[k][p].kind = "Request",
         NEW n \in Hubs, pending[n][chan[k][p].id] # NoRequest
  PROVE  n # k /\ pending[n][chan[k][p].id] = [limit |-> chan[k][p].limit, records |-> <<>>]
<1> DEFINE P(i, l) == \A m \in Hubs : pending[m][i] # NoRequest =>
             m # k /\ pending[m][i] = [limit |-> l, records |-> <<>>]
<1>1. P(chan[k][p].id, chan[k][p].limit)
  BY DEF HeardOnce
<1>2. ASSUME NEW i, NEW l, P(i, l), pending[n][i] # NoRequest
      PROVE  n # k /\ pending[n][i] = [limit |-> l, records |-> <<>>]
  BY <1>2, Zenon
<1> HIDE DEF P
<1> QED
  BY <1>1, <1>2

LEMMA HeardChan ==
  ASSUME HeardOnce, NEW k \in Hubs, NEW p \in 1 .. Len(chan[k]), chan[k][p].kind = "Request",
         NEW n \in Hubs, NEW q \in 1 .. Len(chan[n]), chan[n][q].id = chan[k][p].id
  PROVE  n = k /\ q = p
<1> DEFINE P(i) == \A m \in Hubs : \A x \in 1 .. Len(chan[m]) : chan[m][x].id = i => m = k /\ x = p
<1>1. P(chan[k][p].id)
  BY DEF HeardOnce
<1>2. ASSUME NEW i, P(i), chan[n][q].id = i PROVE n = k /\ q = p
  BY <1>2, Zenon
<1> HIDE DEF P
<1> QED
  BY <1>1, <1>2

LEMMA HandlesIds ==
  ASSUME IdsAsked, NEW d, NEW J, Handles(d, J)
  PROVE  IdsAsked'
<1>1. ASSUME NEW i, Coming(i) PROVE i <= asked
  BY <1>1 DEF Coming, IsBatch, IdsAsked
<1>2. ASSUME NEW n \in Hubs, NEW q \in 1 .. Len(chan'[n]) PROVE chan'[n][q].id <= asked
  <2>1. CASE q + d[n] \in 1 .. Len(chan[n]) /\ chan'[n][q] = chan[n][q + d[n]]
    BY <2>1 DEF IdsAsked
  <2>2. CASE chan'[n][q].id \in J
    <3>1. PICK k \in Hubs : 1 \in 1 .. Len(chan[k]) /\ chan[k][1].id = chan'[n][q].id
      BY <2>2 DEF Handles
    <3> QED
      BY <3>1 DEF IdsAsked
  <2> QED
    BY <2>1, <2>2 DEF Handles
<1>3. ASSUME NEW n \in Hubs, NEW q \in 1 .. Len(arrived'[n]) PROVE arrived'[n][q].id <= asked
  <2>1. CASE \E r \in 1 .. Len(arrived[n]) : arrived'[n][q] = arrived[n][r]
    BY <2>1 DEF IdsAsked
  <2>2. CASE Coming(arrived'[n][q].id)
    BY <1>1, <2>2
  <2> QED
    BY <2>1, <2>2 DEF Handles
<1>4. ASSUME NEW n \in Hubs, NEW i \in 1 .. MaxRequests, pending'[n][i] # NoRequest
      PROVE  i <= asked
  <2>1. pending'[n][i] = pending[n][i] \/ Coming(i)
    BY <1>4 DEF Handles
  <2> QED
    BY <1>1, <1>4, <2>1 DEF IdsAsked
<1>5. asked' = asked
  BY DEF Handles
<1> QED
  BY <1>2, <1>3, <1>4, <1>5, Zenon DEF IdsAsked

LEMMA HandlesHeard ==
  ASSUME chan \in [Hubs -> Seq(Messages)], HeardOnce, NEW d, NEW J, Handles(d, J),
         \A k \in Hubs : Len(chan'[k]) \in Nat,
         \A k \in Hubs : \A p \in 1 .. Len(chan'[k]) : chan'[k][p].id \in 1 .. MaxRequests
  PROVE  HeardOnce'
<1>1. ASSUME NEW k \in Hubs, NEW p \in 1 .. Len(chan'[k]), chan'[k][p].kind = "Request"
      PROVE  \E r \in 1 .. Len(chan[k]) : r = p + d[k] /\ chan'[k][p] = chan[k][r]
  <2>1. p + d[k] \in 1 .. Len(chan[k]) /\ chan'[k][p] = chan[k][p + d[k]]
    BY <1>1 DEF Handles
  <2> QED
    BY <2>1, Zenon
<1>2. ASSUME NEW k \in Hubs, NEW r \in 1 .. Len(chan[k]), chan[k][r].kind = "Request"
      PROVE  ~Coming(chan[k][r].id)
  <2>1. ASSUME NEW n \in Hubs, NEW q \in 1 .. Len(chan[n]), IsBatch(chan[n][q], chan[k][r].id)
        PROVE  FALSE
    <3>1. chan[n][q].id = chan[k][r].id /\ chan[n][q].kind = "Batch"
      BY <2>1 DEF IsBatch
    <3>2. n = k /\ q = r
      BY <1>2, <3>1, HeardChan
    <3> QED
      BY <1>2, <3>1, <3>2
  <2> QED
    BY <2>1 DEF Coming
<1>3. ASSUME NEW k \in Hubs, NEW p \in 1 .. Len(chan'[k]), chan'[k][p].kind = "Request"
      PROVE  /\ \A n \in Hubs : \A q \in 1 .. Len(chan'[n]) :
                  chan'[n][q].id = chan'[k][p].id => n = k /\ q = p
             /\ \A n \in Hubs : \A q \in 1 .. Len(arrived'[n]) : arrived'[n][q].id # chan'[k][p].id
             /\ \A n \in Hubs : pending'[n][chan'[k][p].id] # NoRequest =>
                  n # k /\ pending'[n][chan'[k][p].id] = [limit |-> chan'[k][p].limit, records |-> <<>>]
  <2>1. PICK r \in 1 .. Len(chan[k]) : r = p + d[k] /\ chan'[k][p] = chan[k][r]
    BY <1>1, <1>3
  <2> DEFINE m == chan[k][r]
  <2>2. m.kind = "Request" /\ m = chan'[k][p]
    BY <1>3, <2>1
  <2>3. ASSUME NEW n \in Hubs
        PROVE  /\ \A q \in 1 .. Len(chan[n]) : chan[n][q].id = m.id => n = k /\ q = r
               /\ \A q \in 1 .. Len(arrived[n]) : arrived[n][q].id # m.id
               /\ pending[n][m.id] # NoRequest =>
                    n # k /\ pending[n][m.id] = [limit |-> m.limit, records |-> <<>>]
    <3>1. \A q \in 1 .. Len(chan[n]) : chan[n][q].id = m.id => n = k /\ q = r
      BY <2>2, HeardChan
    <3>2. \A q \in 1 .. Len(arrived[n]) : arrived[n][q].id # m.id
      BY <2>2, HeardArrived
    <3>3. pending[n][m.id] # NoRequest =>
            n # k /\ pending[n][m.id] = [limit |-> m.limit, records |-> <<>>]
      BY <2>2, HeardPending
    <3> QED
      BY <3>1, <3>2, <3>3
  <2>4. ~Coming(m.id)
    BY <1>2, <2>2
  <2>5. m.id \in 1 .. MaxRequests
    BY <1>3, <2>2
  <2> HIDE DEF m
  <2>6. m.id \notin J
    <3>1. ASSUME m.id \in J PROVE FALSE
      <4>1. PICK n \in Hubs : d[n] = 1 /\ 1 \in 1 .. Len(chan[n]) /\ chan[n][1].id = m.id
        BY <3>1 DEF Handles
      <4>2. n = k /\ 1 = r
        BY <2>3, <4>1
      <4> QED
        BY <2>1, <4>1, <4>2
    <3> QED
      BY <3>1
  <2>7. ASSUME NEW n \in Hubs, NEW q \in 1 .. Len(chan'[n]), chan'[n][q].id = m.id
        PROVE  n = k /\ q = p
    <3>1. q + d[n] \in 1 .. Len(chan[n]) /\ chan'[n][q] = chan[n][q + d[n]]
      BY <2>6, <2>7 DEF Handles
    <3>2. n = k /\ q + d[n] = r
      BY <2>3, <2>7, <3>1
    <3>3. d[k] \in {0, 1}
      BY DEF Handles
    <3> QED
      BY <2>1, <3>2, <3>3
  <2>8. ASSUME NEW n \in Hubs, NEW q \in 1 .. Len(arrived'[n])
        PROVE  arrived'[n][q].id # m.id
    <3>1. CASE \E s \in 1 .. Len(arrived[n]) : arrived'[n][q] = arrived[n][s]
      BY <2>3, <3>1
    <3>2. CASE Coming(arrived'[n][q].id)
      BY <2>4, <3>2
    <3> QED
      BY <3>1, <3>2 DEF Handles
  <2>9. ASSUME NEW n \in Hubs, pending'[n][m.id] # NoRequest
        PROVE  n # k /\ pending'[n][m.id] = [limit |-> m.limit, records |-> <<>>]
    <3>1. pending'[n][m.id] = pending[n][m.id]
      BY <2>4, <2>5, <2>9 DEF Handles
    <3> QED
      BY <2>3, <2>9, <3>1
  <2> QED
    BY <2>2, <2>7, <2>8, <2>9
<1> QED
  BY <1>3 DEF HeardOnce

Handled == \E d, J : Handles(d, J)

\* The messages to k stay, or all are gone, or the first is.
Drains ==
  \A k \in Hubs :
    \/ chan'[k] = chan[k]
    \/ chan'[k] = <<>>
    \/ chan[k] # <<>> /\ chan'[k] = Tail(chan[k])

ArrivesByBatch ==
  \A n \in Hubs : \A q \in 1 .. Len(arrived'[n]) :
    \/ \E r \in 1 .. Len(arrived[n]) : arrived'[n][q] = arrived[n][r]
    \/ Coming(arrived'[n][q].id)

ChangesByBatch ==
  \A n \in Hubs : \A i \in 1 .. MaxRequests :
    pending'[n][i] # NoRequest => pending'[n][i] = pending[n][i] \/ Coming(i)

LEMMA TailAt ==
  ASSUME NEW S, NEW s \in Seq(S), s # <<>>, NEW q \in 1 .. Len(Tail(s))
  PROVE  q + 1 \in 1 .. Len(s) /\ Tail(s)[q] = s[q + 1]
OBVIOUS

LEMMA DrainsHandled ==
  ASSUME SessionTypes, Drains, ArrivesByBatch, ChangesByBatch, UNCHANGED asked
  PROVE  Handled
<1> DEFINE d == [k \in Hubs |-> IF chan'[k] = chan[k] THEN 0 ELSE 1]
<1>1. ASSUME NEW k \in Hubs, NEW p \in 1 .. Len(chan'[k])
      PROVE  p + d[k] \in 1 .. Len(chan[k]) /\ chan'[k][p] = chan[k][p + d[k]]
  <2>1. chan[k] \in Seq(Messages)
    BY DEF SessionTypes
  <2>2. CASE chan'[k] = chan[k]
    <3>1. p + d[k] = p
      BY <2>1, <2>2
    <3> QED
      BY <2>2, <3>1
  <2>3. CASE chan'[k] # chan[k]
    <3>1. chan'[k] # <<>>
      OBVIOUS
    <3>2. chan[k] # <<>> /\ chan'[k] = Tail(chan[k])
      BY <2>3, <3>1 DEF Drains
    <3>3. d[k] = 1
      BY <2>3
    <3> HIDE DEF d
    <3> QED
      BY <2>1, <3>2, <3>3
  <2> QED
    BY <2>2, <2>3
<1>2. d \in [Hubs -> {0, 1}]
  OBVIOUS
<1> HIDE DEF d
<1>3. Handles(d, {})
  BY <1>1, <1>2 DEF Handles, ArrivesByBatch, ChangesByBatch
<1> QED
  BY <1>3 DEF Handled

\* After the head is taken.
LEMMA ReceivedDrains ==
  ASSUME SessionTypes, NEW n \in Hubs, chan[n] # <<>>, chan' = Received(n)
  PROVE  Drains
BY ReceivedIs DEF SessionTypes, Drains

LEMMA ArrivedStays == ASSUME UNCHANGED arrived PROVE ArrivesByBatch
BY DEF ArrivesByBatch

LEMMA PendingStays == ASSUME UNCHANGED pending PROVE ChangesByBatch
BY DEF ChangesByBatch

\* What Collect does to the requests.
Takes(n) ==
  /\ arrived[n] # <<>> /\ arrived' = [arrived EXCEPT ![n] = Tail(@)]
  /\ UNCHANGED <<chan, pending, asked, chosen>>

LEMMA TakesHandled ==
  ASSUME SessionTypes, NEW n \in Hubs, Takes(n)
  PROVE  Handled
<1>1. ArrivesByBatch
  <2>1. arrived[n] \in Seq([id : 1 .. MaxRequests, records : Seq(Records)])
        /\ arrived'[n] = Tail(arrived[n]) /\ \A k \in Hubs : k # n => arrived'[k] = arrived[k]
    BY DEF SessionTypes, Takes
  <2>2. ASSUME NEW q \in 1 .. Len(arrived'[n])
        PROVE  \E r \in 1 .. Len(arrived[n]) : arrived'[n][q] = arrived[n][r]
    <3>1. q + 1 \in 1 .. Len(arrived[n]) /\ arrived'[n][q] = arrived[n][q + 1]
      <4>1. arrived[n] # <<>> /\ q \in 1 .. Len(Tail(arrived[n])) /\ arrived'[n] = Tail(arrived[n])
        BY <2>1 DEF Takes
      <4> QED
        BY <2>1, <4>1, TailAt
    <3> QED
      BY <3>1
  <2>3. ASSUME NEW k \in Hubs, NEW q \in 1 .. Len(arrived'[k])
        PROVE  \E r \in 1 .. Len(arrived[k]) : arrived'[k][q] = arrived[k][r]
    BY <2>1, <2>2, <2>3
  <2> QED
    BY <2>3 DEF ArrivesByBatch
<1>2. Drains
  BY DEF Takes, Drains
<1> QED
  BY <1>1, <1>2, PendingStays, DrainsHandled DEF Takes

LEMMA TimeoutHandled ==
  ASSUME SessionTypes, NEW n \in Hubs, NEW i \in 1 .. MaxRequests, Timeout(n, i)
  PROVE  Handled
<1>1. /\ pending' = [pending EXCEPT ![n][i] = NoRequest]
      /\ UNCHANGED <<chan, arrived, asked>>
  BY DEF Timeout
<1>2. ChangesByBatch
  <2>1. pending \in [Hubs -> [1 .. MaxRequests -> Requests]]
    BY DEF SessionTypes
  <2>2. ASSUME NEW k \in Hubs, NEW j \in 1 .. MaxRequests, pending'[k][j] # NoRequest
        PROVE  pending'[k][j] = pending[k][j]
    <3> HIDE DEF NoRequest
    <3> QED
      BY <1>1, <2>1, <2>2
  <2> QED
    BY <2>2 DEF ChangesByBatch
<1>3. Drains
  BY <1>1 DEF Drains
<1> QED
  BY <1>1, <1>2, <1>3, ArrivedStays, DrainsHandled

LEMMA ShutsHandled ==
  ASSUME SessionTypes, NEW n \in Hubs, Shuts(n)
  PROVE  Handled
<1>1. /\ chan' = [chan EXCEPT ![n] = <<>>] /\ pending' = [pending EXCEPT ![n] = NoRequests]
      /\ UNCHANGED <<arrived, asked, chosen>>
  BY DEF Shuts
<1>2. ChangesByBatch
  BY <1>1 DEF ChangesByBatch, SessionTypes, NoRequests
<1>3. Drains
  BY <1>1 DEF Drains, SessionTypes
<1> QED
  BY <1>1, <1>2, <1>3, ArrivedStays, DrainsHandled

LEMMA GathersHandled ==
  ASSUME SessionTypes, NEW n \in Hubs, NEW b, Gathers(n, b)
  PROVE  Handled
<1> DEFINE m == Head(chan[n])
<1>1. /\ chan[n] # <<>> /\ m.kind = "Batch" /\ chan' = Received(n)
      /\ asked' = asked
  BY DEF Gathers
<1>2. m \in Messages /\ m = chan[n][1] /\ 1 \in 1 .. Len(chan[n]) /\ m.id \in 1 .. MaxRequests
  BY <1>1, ReceivedIs, MessagesAre DEF SessionTypes
<1>3. Coming(m.id)
  BY <1>1, <1>2 DEF Coming, IsBatch
<1>4. \E entry, q :
        /\ pending' = [pending EXCEPT ![n][m.id] = entry]
        /\ arrived' = [arrived EXCEPT ![n] = q]
        /\ q = arrived[n] \/ \E records : q = Append(arrived[n], [id |-> m.id, records |-> records])
  <2>1. CASE b = BatchCount(chosen[m.id])
    <3> DEFINE records == chosen[m.id]
    <3>1. /\ pending' = [pending EXCEPT ![n][m.id] = NoRequest]
          /\ arrived' = [arrived EXCEPT ![n] = Append(arrived[n], [id |-> m.id, records |-> records])]
      BY <2>1 DEF Gathers
    <3> HIDE DEF m, records, NoRequest
    <3> QED
      BY <3>1
  <2>2. CASE b # BatchCount(chosen[m.id])
    <3>1. arrived' = [arrived EXCEPT ![n] = arrived[n]]
      BY <2>2 DEF Gathers, SessionTypes
    <3> QED
      BY <2>2, <3>1 DEF Gathers
  <2> QED
    BY <2>1, <2>2
<1> HIDE DEF m
<1>5. PICK entry, q :
        /\ pending' = [pending EXCEPT ![n][m.id] = entry]
        /\ arrived' = [arrived EXCEPT ![n] = q]
        /\ q = arrived[n] \/ \E records : q = Append(arrived[n], [id |-> m.id, records |-> records])
  BY <1>4
<1>6. ChangesByBatch
  <2>1. ASSUME NEW k \in Hubs, NEW j \in 1 .. MaxRequests, k # n \/ j # m.id
        PROVE  pending'[k][j] = pending[k][j]
    BY <1>2, <1>5, <2>1 DEF SessionTypes
  <2> QED
    BY <1>3, <2>1 DEF ChangesByBatch
<1>7. ArrivesByBatch
  <2>1. arrived[n] \in Seq([id : 1 .. MaxRequests, records : Seq(Records)])
        /\ arrived'[n] = q /\ \A k \in Hubs : k # n => arrived'[k] = arrived[k]
    BY <1>5 DEF SessionTypes
  <2>2. ASSUME NEW j \in 1 .. Len(q)
        PROVE  (\E r \in 1 .. Len(arrived[n]) : q[j] = arrived[n][r]) \/ q[j].id = m.id
    <3>1. CASE q = arrived[n]
      BY <3>1
    <3>2. ASSUME NEW records, q = Append(arrived[n], [id |-> m.id, records |-> records])
          PROVE  (\E r \in 1 .. Len(arrived[n]) : q[j] = arrived[n][r]) \/ q[j].id = m.id
      <4> DEFINE a == [id |-> m.id, records |-> records]
      <4>1. a.id = m.id
        OBVIOUS
      <4> HIDE DEF a
      <4>2. q = Append(arrived[n], a)
        BY <3>2 DEF a
      <4>3. (j \in 1 .. Len(arrived[n]) /\ q[j] = arrived[n][j]) \/ q[j] = a
        BY <2>1, <4>2
      <4> QED
        BY <4>1, <4>3
    <3> QED
      BY <1>5, <3>1, <3>2
  <2> QED
    BY <1>3, <2>1, <2>2 DEF ArrivesByBatch
<1> QED
  BY <1>1, <1>6, <1>7, ReceivedDrains, DrainsHandled

\* What is on its way after an answer.
LEMMA AnswersChan ==
  ASSUME SessionTypes, NEW n \in Hubs, Answers(n)
  PROVE  LET m == Head(chan[n])
             ch == OwnLatest(n, m.limit)
             k == Peer(n)
         IN  /\ m.kind = "Request" /\ m = chan[n][1] /\ 1 \in 1 .. Len(chan[n])
             /\ m.id \in 1 .. MaxRequests
             /\ ch \in Seq(Records)
             /\ chan'[n] = Tail(chan[n])
             /\ chan'[k] = chan[k] \/ chan'[k] = chan[k] \o Batches(m.id, ch)
             /\ Batches(m.id, ch) \in Seq(Messages)
             /\ \A b \in 1 .. Len(Batches(m.id, ch)) :
                  /\ Batches(m.id, ch)[b].kind = "Batch" /\ Batches(m.id, ch)[b].id = m.id
                  /\ Batches(m.id, ch)[b].records \in Fetched(k)
<1> DEFINE m == Head(chan[n])
           ch == OwnLatest(n, m.limit)
           k == Peer(n)
           S == {r \in Records : r.origin # k}
<1>1. chan \in [Hubs -> Seq(Messages)]
  BY DEF SessionTypes
<1>2. /\ chan[n] # <<>> /\ m.kind = "Request" /\ ch \in Fetched(k)
      /\ chan' = Send(n, Received(n), Batches(m.id, ch))
  BY DEF Answers
<1>3. m = chan[n][1] /\ 1 \in 1 .. Len(chan[n]) /\ m \in Messages /\ m.id \in 1 .. MaxRequests
  BY <1>1, <1>2, ReceivedIs, MessagesAre
<1>4. k \in Hubs /\ k # n
  BY PeerIsOther
<1>5. ch \in Seq(Records) /\ ch \in Seq(S) /\ S \subseteq Records
  BY <1>2, <1>4, FetchedAre DEF Fetched
<1>6. \A b \in 1 .. Len(Batches(m.id, ch)) :
        /\ Batches(m.id, ch)[b].kind = "Batch" /\ Batches(m.id, ch)[b].id = m.id
        /\ Batches(m.id, ch)[b].records \in Seq(S)
  <2> HIDE DEF S, ch, m, k
  <2>1. /\ Len(Batches(m.id, ch)) = BatchCount(ch)
        /\ \A b \in 1 .. BatchCount(ch) :
             /\ Batches(m.id, ch)[b].id = m.id
             /\ Batches(m.id, ch)[b].kind = "Batch"
             /\ Batches(m.id, ch)[b].records \in Seq(S)
    <3>1. m.id \in 1 .. MaxRequests /\ S \subseteq Records /\ ch \in Seq(S)
      BY <1>3, <1>5
    <3>2. Len(Batches(m.id, ch)) = BatchCount(ch)
      BY <3>1, BatchTypes
    <3>3. \A b \in 1 .. BatchCount(ch) : Batches(m.id, ch)[b].id = m.id
      BY <3>1, BatchTypes
    <3>4. \A b \in 1 .. BatchCount(ch) : Batches(m.id, ch)[b].kind = "Batch"
      BY <3>1, BatchTypes
    <3>5. \A b \in 1 .. BatchCount(ch) : Batches(m.id, ch)[b].records \in Seq(S)
      BY <3>1, BatchTypes
    <3> QED
      BY <3>2, <3>3, <3>4, <3>5
  <2> QED
    BY <2>1
<1>7. Batches(m.id, ch) \in Seq(Messages)
  <2>1. Batches(m.id, ch) \in Seq(BatchMessages)
    <3> HIDE DEF S, ch, m
    <3> QED
      BY <1>3, <1>5, BatchTypes
  <2>2. BatchMessages \subseteq Messages
    BY MessagesAre
  <2> QED
    BY <2>1, <2>2, SeqMonotonic
<1>8. /\ Received(n) \in [Hubs -> Seq(Messages)] /\ Received(n)[n] = Tail(chan[n])
      /\ Received(n)[k] = chan[k]
  BY <1>1, <1>2, <1>4, ReceivedIs
<1>9. chan'[n] = Tail(chan[n]) /\ (chan'[k] = chan[k] \/ chan'[k] = chan[k] \o Batches(m.id, ch))
  <2> DEFINE r == Batches(m.id, ch)
             q == Received(n)
  <2>1. r \in Seq(Messages) /\ q \in [Hubs -> Seq(Messages)] /\ q[n] = Tail(chan[n]) /\ q[k] = chan[k]
        /\ chan' = Send(n, q, r)
    BY <1>2, <1>7, <1>8
  <2> HIDE DEF r, q
  <2>2. \A h \in Hubs : chan'[h] = IF h = Peer(n) /\ open[h] THEN q[h] \o r ELSE q[h]
    BY <2>1, SendIs
  <2>3. chan'[n] = q[n] /\ (chan'[k] = q[k] \o r \/ chan'[k] = q[k])
    BY <1>4, <2>2
  <2> QED
    BY <2>1, <2>3 DEF r
<1> QED
  BY <1>2, <1>3, <1>5, <1>6, <1>7, <1>9 DEF Fetched

LEMMA AnswersHandled ==
  ASSUME SessionTypes, NEW n \in Hubs, Answers(n)
  PROVE  Handled
<1> DEFINE m == Head(chan[n])
           ch == OwnLatest(n, m.limit)
           k == Peer(n)
           r == Batches(m.id, ch)
           d == [h \in Hubs |-> IF h = n THEN 1 ELSE 0]
<1>1. /\ m.kind = "Request" /\ m = chan[n][1] /\ 1 \in 1 .. Len(chan[n])
      /\ chan'[n] = Tail(chan[n])
      /\ chan'[k] = chan[k] \/ chan'[k] = chan[k] \o r
      /\ r \in Seq(Messages)
      /\ \A b \in 1 .. Len(r) : r[b].kind = "Batch" /\ r[b].id = m.id
  BY AnswersChan
<1>2. k \in Hubs /\ k # n /\ \A h \in Hubs : h = n \/ h = k
  BY PeerIsOther
<1>3. chan[n] \in Seq(Messages) /\ chan[k] \in Seq(Messages) /\ chan[n] # <<>>
  BY <1>2 DEF SessionTypes, Answers
<1>4. ASSUME NEW p \in 1 .. Len(chan'[n])
      PROVE  p + 1 \in 1 .. Len(chan[n]) /\ chan'[n][p] = chan[n][p + 1]
  <2>1. p \in 1 .. Len(Tail(chan[n])) /\ chan'[n] = Tail(chan[n])
    BY <1>1
  <2> QED
    BY <1>3, <2>1, TailAt
<1>5. ASSUME NEW p \in 1 .. Len(chan'[k])
      PROVE  \/ p \in 1 .. Len(chan[k]) /\ chan'[k][p] = chan[k][p]
             \/ chan'[k][p].kind = "Batch" /\ chan'[k][p].id = m.id
  <2>1. CASE chan'[k] = chan[k]
    BY <2>1
  <2>2. CASE chan'[k] = chan[k] \o r
    <3> HIDE DEF r, k
    <3>1. \/ p \in 1 .. Len(chan[k]) /\ chan'[k][p] = chan[k][p]
          \/ p - Len(chan[k]) \in 1 .. Len(r) /\ chan'[k][p] = r[p - Len(chan[k])]
      BY <1>1, <1>3, <2>2, ConcatProperties
    <3> QED
      BY <1>1, <3>1
  <2> QED
    BY <1>1, <2>1, <2>2
<1>6. d \in [Hubs -> {0, 1}] /\ d[n] = 1 /\ d[k] = 0
  BY <1>2
<1> HIDE DEF d, m, k, r
<1>7. \A h \in Hubs : \A p \in 1 .. Len(chan'[h]) :
        \/ p + d[h] \in 1 .. Len(chan[h]) /\ chan'[h][p] = chan[h][p + d[h]]
        \/ chan'[h][p].kind = "Batch" /\ chan'[h][p].id \in {m.id}
  <2>1. \A p \in 1 .. Len(chan'[n]) : p + d[n] \in 1 .. Len(chan[n]) /\ chan'[n][p] = chan[n][p + d[n]]
    BY <1>4, <1>6
  <2>2. \A p \in 1 .. Len(chan'[k]) :
          \/ p + d[k] \in 1 .. Len(chan[k]) /\ chan'[k][p] = chan[k][p + d[k]]
          \/ chan'[k][p].kind = "Batch" /\ chan'[k][p].id \in {m.id}
    <3>1. \A p \in 1 .. Len(chan'[k]) : p + d[k] = p
      BY <1>6
    <3> QED
      BY <1>5, <3>1
  <2> QED
    BY <1>2, <2>1, <2>2
<1>8. UNCHANGED <<pending, arrived, asked>>
  BY DEF Answers
<1>9. ArrivesByBatch /\ ChangesByBatch
  BY <1>8, ArrivedStays, PendingStays
<1>10. Handles(d, {m.id})
  BY <1>1, <1>6, <1>7, <1>8, <1>9 DEF Handles, ArrivesByBatch, ChangesByBatch
<1> QED
  BY <1>10 DEF Handled

\* Every step but that of a new request.
LEMMA StepHandled ==
  ASSUME RecordsInv, RequestsInv, [DiagnosticsNext]_diagnosticsVars,
         ~(\E n \in Hubs, query \in Queries : Request(n, query))
  PROVE  Handled
<1>1. SessionTypes
  BY SessionTypesHold
<1>2. ASSUME UNCHANGED <<chan, pending, arrived, asked, chosen>> PROVE Handled
  <2>1. Drains
    BY <1>2 DEF Drains
  <2> QED
    BY <1>1, <1>2, <2>1, ArrivedStays, PendingStays, DrainsHandled
<1>3. ASSUME BothConnect PROVE Handled
  <2>1. Drains /\ UNCHANGED <<arrived, pending, asked>>
    BY <1>3 DEF Drains, BothConnect
  <2> QED
    BY <1>1, <2>1, ArrivedStays, PendingStays, DrainsHandled
<1>4. ASSUME NEW n \in Hubs, Ignores(n) PROVE Handled
  <2>1. Drains /\ UNCHANGED <<arrived, pending, asked>>
    BY <1>1, <1>4, ReceivedDrains DEF Ignores
  <2> QED
    BY <1>1, <2>1, ArrivedStays, PendingStays, DrainsHandled
<1>5. ASSUME NEW n \in Hubs, Collect(n) PROVE Handled
  BY <1>1, <1>5, TakesHandled DEF Collect, Takes, sessionVars
<1> QED
  BY <1>1, <1>2, <1>3, <1>4, <1>5, StepEffect, ShutsHandled, AnswersHandled, GathersHandled,
     TimeoutHandled

\* What a new request leaves.
Requested(n, r) ==
  /\ r \in Messages /\ r.kind = "Request" /\ r.id = asked + 1
  /\ asked' = asked + 1 /\ asked + 1 \in 1 .. MaxRequests
  /\ pending'[n][asked + 1] = [limit |-> r.limit, records |-> <<>>]
  /\ \A k \in Hubs : \A i \in 1 .. MaxRequests :
       k # n \/ i # asked + 1 => pending'[k][i] = pending[k][i]
  /\ chan'[n] = chan[n]
  /\ chan'[Peer(n)] = chan[Peer(n)] \/ chan'[Peer(n)] = chan[Peer(n)] \o <<r>>
  /\ UNCHANGED <<arrived, chosen>>

LEMMA RequestLeaves ==
  ASSUME SessionTypes, NEW n \in Hubs, NEW query \in Queries, Request(n, query)
  PROVE  \E r : Requested(n, r)
<1> DEFINE b == Bounded(query)
           r == [kind |-> "Request", id |-> asked + 1, limit |-> b]
           e == [limit |-> b, records |-> <<>>]
<1>1. asked \in 0 .. MaxRequests /\ chan \in [Hubs -> Seq(Messages)]
      /\ pending \in [Hubs -> [1 .. MaxRequests -> Requests]]
  BY DEF SessionTypes
<1>2. /\ asked < MaxRequests /\ asked' = asked + 1
      /\ pending' = [pending EXCEPT ![n][asked + 1] = e]
      /\ chan' = Send(n, chan, <<r>>)
      /\ UNCHANGED <<arrived, chosen>>
  BY DEF Request
<1>3. asked + 1 \in 1 .. MaxRequests
  BY <1>1, <1>2, LimitTypes
<1>4. r \in Messages
  <2>1. b \in 1 .. MaxPeerRecords \cup {NoNumber}
    BY LimitTypes, LimitsAssumption DEF Bounded
  <2> QED
    BY <1>3, <2>1, MessagesAre DEF RequestMessages
<1>5. r.kind = "Request" /\ r.id = asked + 1 /\ r.limit = b
  OBVIOUS
<1>6. e = [limit |-> r.limit, records |-> <<>>]
  OBVIOUS
<1> HIDE DEF r, e
<1>7. Peer(n) \in Hubs /\ Peer(n) # n
  BY PeerIsOther
<1>8. <<r>> \in Seq(Messages)
  BY <1>4
<1>9. \A h \in Hubs : chan'[h] = IF h = Peer(n) /\ open[h] THEN chan[h] \o <<r>> ELSE chan[h]
  BY <1>1, <1>2, <1>8, SendIs
<1>10. chan'[n] = chan[n] /\ (chan'[Peer(n)] = chan[Peer(n)] \/ chan'[Peer(n)] = chan[Peer(n)] \o <<r>>)
  BY <1>7, <1>9
<1>11. /\ pending'[n][asked + 1] = e
       /\ \A k \in Hubs : \A i \in 1 .. MaxRequests :
            k # n \/ i # asked + 1 => pending'[k][i] = pending[k][i]
  BY <1>1, <1>2, <1>3
<1>12. Requested(n, r)
  BY <1>2, <1>3, <1>4, <1>5, <1>6, <1>10, <1>11 DEF Requested
<1> QED
  BY <1>12

LEMMA RequestedChan ==
  ASSUME SessionTypes, NEW n \in Hubs, NEW r, Requested(n, r),
         NEW k \in Hubs, NEW p \in 1 .. Len(chan'[k])
  PROVE  \/ p \in 1 .. Len(chan[k]) /\ chan'[k][p] = chan[k][p]
         \/ k = Peer(n) /\ p = Len(chan[k]) + 1 /\ chan'[k][p] = r
<1>1. k = n \/ k = Peer(n)
  BY PeerIsOther
<1>2. CASE chan'[k] = chan[k]
  BY <1>2
<1>3. CASE k = Peer(n) /\ chan'[k] = chan[k] \o <<r>>
  <2>1. chan[k] \in Seq(Messages) /\ r \in Messages
    BY DEF SessionTypes, Requested
  <2>2. chan[k] \o <<r>> = Append(chan[k], r)
    BY <2>1
  <2> QED
    BY <1>3, <2>1, <2>2
<1> QED
  BY <1>1, <1>2, <1>3 DEF Requested

LEMMA ArrivedId ==
  ASSUME SessionTypes, IdsAsked, NEW k \in Hubs, NEW p \in 1 .. Len(arrived[k])
  PROVE  arrived[k][p].id \in Nat /\ arrived[k][p].id <= asked
<1> DEFINE R == [id : 1 .. MaxRequests, records : Seq(Records)]
<1>1. arrived[k] \in Seq(R)
  BY DEF SessionTypes
<1>2. \A x \in R : x.id \in Nat
  OBVIOUS
<1> HIDE DEF R
<1>3. arrived[k][p] \in R
  BY <1>1
<1> QED
  BY <1>2, <1>3 DEF IdsAsked

LEMMA RequestedIds ==
  ASSUME SessionTypes, IdsAsked, NEW n \in Hubs, NEW r, Requested(n, r)
  PROVE  IdsAsked'
<1>1. asked \in Nat /\ asked' = asked + 1 /\ r.id = asked + 1 /\ arrived' = arrived
  BY LimitTypes DEF SessionTypes, Requested
<1>2. ASSUME NEW k \in Hubs, NEW p \in 1 .. Len(chan'[k]) PROVE chan'[k][p].id <= asked'
  <2>1. CASE p \in 1 .. Len(chan[k]) /\ chan'[k][p] = chan[k][p]
    <3>1. chan[k][p] \in Messages
      BY <2>1 DEF SessionTypes
    <3>2. chan[k][p].id \in Nat /\ chan[k][p].id <= asked
      BY <2>1, <3>1, MessagesAre DEF IdsAsked
    <3> QED
      BY <1>1, <2>1, <3>2
  <2> QED
    BY <1>1, <2>1, RequestedChan
<1>3. ASSUME NEW k \in Hubs, NEW p \in 1 .. Len(arrived'[k]) PROVE arrived'[k][p].id <= asked'
  <2>1. arrived[k][p].id \in Nat /\ arrived[k][p].id <= asked
    BY <1>1, ArrivedId
  <2> QED
    BY <1>1, <2>1
<1>4. ASSUME NEW k \in Hubs, NEW i \in 1 .. MaxRequests, pending'[k][i] # NoRequest
      PROVE  i <= asked'
  <2>1. CASE pending'[k][i] = pending[k][i]
    BY <1>1, <1>4, <2>1 DEF IdsAsked
  <2> QED
    BY <1>1, <1>4, <2>1 DEF Requested
<1> QED
  BY <1>2, <1>3, <1>4 DEF IdsAsked

LEMMA RequestedHeard ==
  ASSUME SessionTypes, IdsAsked, HeardOnce, NEW n \in Hubs, NEW r, Requested(n, r)
  PROVE  HeardOnce'
<1>1. asked \in Nat /\ asked' = asked + 1 /\ r.id = asked + 1 /\ arrived' = arrived
      /\ Peer(n) # n
  BY LimitTypes, PeerIsOther DEF SessionTypes, Requested
<1>2. ASSUME NEW k \in Hubs, NEW p \in 1 .. Len(chan[k])
      PROVE  chan[k][p].id \in 1 .. MaxRequests /\ chan[k][p].id < asked + 1
  <2>1. chan[k][p] \in Messages
    BY DEF SessionTypes
  <2>2. chan[k][p].id \in 1 .. MaxRequests /\ chan[k][p].id <= asked
    BY <2>1, MessagesAre DEF IdsAsked
  <2> QED
    BY <1>1, <2>2
<1>3. ASSUME NEW k \in Hubs, NEW p \in 1 .. Len(arrived[k]) PROVE arrived[k][p].id < asked + 1
  <2>1. arrived[k][p].id \in Nat /\ arrived[k][p].id <= asked
    BY ArrivedId
  <2> QED
    BY <1>1, <2>1
<1>4. ASSUME NEW k \in Hubs PROVE asked + 1 \in 1 .. MaxRequests => pending[k][asked + 1] = NoRequest
  BY <1>1 DEF IdsAsked
<1>5. ASSUME NEW k \in Hubs, NEW p \in 1 .. Len(chan'[k]), chan'[k][p].kind = "Request"
      PROVE  /\ \A h \in Hubs : \A q \in 1 .. Len(chan'[h]) :
                  chan'[h][q].id = chan'[k][p].id => h = k /\ q = p
             /\ \A h \in Hubs : \A q \in 1 .. Len(arrived'[h]) : arrived'[h][q].id # chan'[k][p].id
             /\ \A h \in Hubs : pending'[h][chan'[k][p].id] # NoRequest =>
                  h # k /\ pending'[h][chan'[k][p].id] = [limit |-> chan'[k][p].limit, records |-> <<>>]
  <2> DEFINE m == chan'[k][p]
  <2>1. CASE p \in 1 .. Len(chan[k]) /\ m = chan[k][p]
    <3>1. m.id \in 1 .. MaxRequests /\ m.id < asked + 1 /\ m.id # asked + 1
      BY <1>1, <1>2, <2>1
    <3>2. ASSUME NEW h \in Hubs
          PROVE  /\ \A q \in 1 .. Len(chan[h]) : chan[h][q].id = m.id => h = k /\ q = p
                 /\ \A q \in 1 .. Len(arrived[h]) : arrived[h][q].id # m.id
                 /\ pending[h][m.id] # NoRequest =>
                      h # k /\ pending[h][m.id] = [limit |-> m.limit, records |-> <<>>]
      <4>0. p \in 1 .. Len(chan[k]) /\ chan[k][p].kind = "Request" /\ m = chan[k][p]
        BY <1>5, <2>1
      <4> HIDE DEF m
      <4>1. \A q \in 1 .. Len(chan[h]) : chan[h][q].id = m.id => h = k /\ q = p
        BY <4>0, HeardChan
      <4>2. \A q \in 1 .. Len(arrived[h]) : arrived[h][q].id # m.id
        BY <4>0, HeardArrived
      <4>3. pending[h][m.id] # NoRequest =>
              h # k /\ pending[h][m.id] = [limit |-> m.limit, records |-> <<>>]
        BY <4>0, HeardPending
      <4> QED
        BY <4>1, <4>2, <4>3
    <3> HIDE DEF m
    <3>3. ASSUME NEW h \in Hubs, NEW q \in 1 .. Len(chan'[h]), chan'[h][q].id = m.id
          PROVE  h = k /\ q = p
      <4>1. CASE q \in 1 .. Len(chan[h]) /\ chan'[h][q] = chan[h][q]
        BY <3>2, <3>3, <4>1
      <4>2. CASE chan'[h][q] = r
        BY <1>1, <3>1, <3>3, <4>2
      <4> QED
        BY <4>1, <4>2, RequestedChan
    <3>4. ASSUME NEW h \in Hubs PROVE pending'[h][m.id] = pending[h][m.id]
      BY <3>1 DEF Requested
    <3> QED
      BY <1>1, <3>2, <3>3, <3>4 DEF m
  <2>2. CASE k = Peer(n) /\ p = Len(chan[k]) + 1 /\ m = r
    <3>1. ASSUME NEW h \in Hubs, NEW q \in 1 .. Len(chan'[h]), chan'[h][q].id = m.id
          PROVE  h = k /\ q = p
      <4>1. CASE q \in 1 .. Len(chan[h]) /\ chan'[h][q] = chan[h][q]
        BY <1>1, <1>2, <2>2, <3>1, <4>1
      <4>2. CASE h = Peer(n) /\ q = Len(chan[h]) + 1 /\ chan'[h][q] = r
        BY <2>2, <4>2
      <4> QED
        BY <4>1, <4>2, RequestedChan
    <3>2. ASSUME NEW h \in Hubs, NEW q \in 1 .. Len(arrived[h]) PROVE arrived[h][q].id # m.id
      <4>1. arrived[h][q].id \in Nat /\ arrived[h][q].id < asked + 1
        BY <1>3, ArrivedId
      <4> QED
        BY <1>1, <2>2, <4>1
    <3>3. ASSUME NEW h \in Hubs, pending'[h][m.id] # NoRequest
          PROVE  h # k /\ pending'[h][m.id] = [limit |-> m.limit, records |-> <<>>]
      <4>1. CASE h = n
        BY <1>1, <2>2, <4>1 DEF Requested
      <4>2. CASE h # n
        <5>1. pending'[h][asked + 1] = pending[h][asked + 1] /\ asked + 1 \in 1 .. MaxRequests
          BY <4>2 DEF Requested
        <5> QED
          BY <1>1, <1>4, <2>2, <3>3, <5>1
      <4> QED
        BY <4>1, <4>2
    <3> QED
      BY <1>1, <3>1, <3>2, <3>3
  <2>3. \/ p \in 1 .. Len(chan[k]) /\ m = chan[k][p]
        \/ k = Peer(n) /\ p = Len(chan[k]) + 1 /\ m = r
    BY RequestedChan
  <2> QED
    BY <2>1, <2>2, <2>3, Zenon
<1> QED
  BY <1>5 DEF HeardOnce

-----------------------------------------------------------------------------
(***************************************************************************)
(* The batches of each request come in their order and next to each other. *)
(***************************************************************************)
\* BatchesCome, of one computer and request.
Comes(k, i) ==
  (\E q \in 1 .. Len(chan[k]) : IsBatch(chan[k][q], i)) =>
    \E p \in 1 .. Len(chan[k]) : \E b \in 1 .. BatchCount(chosen[i]) :
      ComesAt(chan[k], i, chosen[i], p, b) /\ Follows(pending[k][i], chosen[i], b)

\* What request i is to bring stays as it is, and k waits for it as before or
\* no longer.
Same(k, i) ==
  chosen'[i] = chosen[i] /\ (pending'[k][i] = pending[k][i] \/ pending'[k][i] = NoRequest)

LEMMA NoneComes ==
  ASSUME NEW k \in Hubs, NEW i \in 1 .. MaxRequests,
         \A q \in 1 .. Len(chan'[k]) : ~IsBatch(chan'[k][q], i)
  PROVE  Comes(k, i)'
BY DEF Comes, IsBatch

LEMMA ComesAfter ==
  ASSUME NEW k \in Hubs, NEW i \in 1 .. MaxRequests, NEW p, NEW b,
         ComesAt(chan'[k], i, chosen'[i], p, b), Follows(pending'[k][i], chosen'[i], b)
  PROVE  Comes(k, i)'
<1>1. p \in 1 .. Len(chan'[k]) /\ b \in 1 .. BatchCount(chosen'[i])
  BY DEF ComesAt
<1>2. (\E x \in 1 .. Len(chan[k]) : \E y \in 1 .. BatchCount(chosen[i]) :
         ComesAt(chan[k], i, chosen[i], x, y) /\ Follows(pending[k][i], chosen[i], y))'
  BY <1>1, Zenon
<1> QED
  BY <1>2 DEF Comes

LEMMA SameFollows ==
  ASSUME NEW k \in Hubs, NEW i \in 1 .. MaxRequests, NEW b,
         Follows(pending[k][i], chosen[i], b), Same(k, i)
  PROVE  Follows(pending'[k][i], chosen'[i], b)
<1>1. CASE pending'[k][i] = pending[k][i]
  BY <1>1 DEF Same
<1>2. CASE pending'[k][i] = NoRequest
  BY <1>2 DEF Follows
<1> QED
  BY <1>1, <1>2 DEF Same

LEMMA ComesBefore ==
  ASSUME NEW k \in Hubs, NEW i \in 1 .. MaxRequests, Comes(k, i),
         NEW q \in 1 .. Len(chan[k]), IsBatch(chan[k][q], i)
  PROVE  \E p, b : ComesAt(chan[k], i, chosen[i], p, b) /\ Follows(pending[k][i], chosen[i], b)
<1>1. \E p \in 1 .. Len(chan[k]) : \E b \in 1 .. BatchCount(chosen[i]) :
        ComesAt(chan[k], i, chosen[i], p, b) /\ Follows(pending[k][i], chosen[i], b)
  BY Zenon DEF Comes
<1> QED
  BY <1>1, Zenon

LEMMA SameComes ==
  ASSUME NEW k \in Hubs, NEW i \in 1 .. MaxRequests, Comes(k, i), Same(k, i), chan'[k] = chan[k]
  PROVE  Comes(k, i)'
<1>1. CASE \A q \in 1 .. Len(chan'[k]) : ~IsBatch(chan'[k][q], i)
  BY <1>1, NoneComes
<1>2. ASSUME NEW q \in 1 .. Len(chan'[k]), IsBatch(chan'[k][q], i)
      PROVE  Comes(k, i)'
  <2>1. PICK p, b : ComesAt(chan[k], i, chosen[i], p, b) /\ Follows(pending[k][i], chosen[i], b)
    BY <1>2, ComesBefore
  <2>2. ComesAt(chan'[k], i, chosen'[i], p, b)
    BY <2>1 DEF Same
  <2>3. Follows(pending'[k][i], chosen'[i], b)
    BY <2>1, SameFollows
  <2> QED
    BY <2>2, <2>3, ComesAfter
<1> QED
  BY <1>1, <1>2

LEMMA MoreComes ==
  ASSUME RecordsInv, NEW k \in Hubs, NEW i \in 1 .. MaxRequests, Comes(k, i), Same(k, i),
         NEW r \in Seq(Messages), chan'[k] = chan[k] \o r,
         \A q \in 1 .. Len(r) : ~IsBatch(r[q], i)
  PROVE  Comes(k, i)'
<1>0. chan[k] \in Seq(Messages)
  BY SessionTypesHold DEF SessionTypes
<1>1. CASE \A q \in 1 .. Len(chan[k]) : ~IsBatch(chan[k][q], i)
  <2>1. \A q \in 1 .. Len(chan'[k]) : ~IsBatch(chan'[k][q], i)
    <3>1. ASSUME NEW q \in 1 .. Len(chan'[k]) PROVE ~IsBatch(chan'[k][q], i)
      <4>1. \/ q \in 1 .. Len(chan[k]) /\ chan'[k][q] = chan[k][q]
            \/ q - Len(chan[k]) \in 1 .. Len(r) /\ chan'[k][q] = r[q - Len(chan[k])]
        BY <1>0, ConcatProperties
      <4> QED
        BY <1>1, <4>1
    <3> QED
      BY <3>1
  <2> QED
    BY <2>1, NoneComes
<1>2. ASSUME NEW q \in 1 .. Len(chan[k]), IsBatch(chan[k][q], i)
      PROVE  Comes(k, i)'
  <2>1. PICK p, b : ComesAt(chan[k], i, chosen[i], p, b) /\ Follows(pending[k][i], chosen[i], b)
    BY <1>2, ComesBefore
  <2>2. BatchCount(chosen[i]) \in Nat
    BY ChosenTyped
  <2>3. ComesAt(chan[k] \o r, i, chosen[i], p, b)
    BY <1>0, <2>1, <2>2, ComesStill
  <2>4. ComesAt(chan'[k], i, chosen'[i], p, b)
    BY <2>3 DEF Same
  <2>5. Follows(pending'[k][i], chosen'[i], b)
    BY <2>1, SameFollows
  <2> QED
    BY <2>4, <2>5, ComesAfter
<1> QED
  BY <1>1, <1>2

\* The head of chan[k] is taken, which is no batch of i ...
LEMMA LaterComes ==
  ASSUME RecordsInv, NEW k \in Hubs, NEW i \in 1 .. MaxRequests, Comes(k, i), Same(k, i),
         chan[k] # <<>>, chan'[k] = Tail(chan[k]), ~IsBatch(Head(chan[k]), i)
  PROVE  Comes(k, i)'
<1>0. chan[k] \in Seq(Messages)
  BY SessionTypesHold DEF SessionTypes
<1>1. CASE \A q \in 1 .. Len(chan[k]) : ~IsBatch(chan[k][q], i)
  <2>1. \A q \in 1 .. Len(chan'[k]) : ~IsBatch(chan'[k][q], i)
    BY <1>0, <1>1, TailAt
  <2> QED
    BY <2>1, NoneComes
<1>2. ASSUME NEW q \in 1 .. Len(chan[k]), IsBatch(chan[k][q], i)
      PROVE  Comes(k, i)'
  <2>1. PICK p, b : ComesAt(chan[k], i, chosen[i], p, b) /\ Follows(pending[k][i], chosen[i], b)
    BY <1>2, ComesBefore
  <2>2. BatchCount(chosen[i]) \in Nat
    BY ChosenTyped
  <2>3. ComesAt(Tail(chan[k]), i, chosen[i], p - 1, b)
    BY <1>0, <2>1, <2>2, ComesLater
  <2>4. ComesAt(chan'[k], i, chosen'[i], p - 1, b)
    BY <2>3 DEF Same
  <2>5. Follows(pending'[k][i], chosen'[i], b)
    BY <2>1, SameFollows
  <2> QED
    BY <2>4, <2>5, ComesAfter
<1> QED
  BY <1>1, <1>2

\* ... or the b-th of them.
LEMMA NextComes ==
  ASSUME RecordsInv, NEW k \in Hubs, NEW i \in 1 .. MaxRequests, NEW b, NEW p,
         ComesAt(chan[k], i, chosen[i], p, b), chosen'[i] = chosen[i],
         chan[k] # <<>>, chan'[k] = Tail(chan[k]), IsBatch(Head(chan[k]), i),
         b # BatchCount(chosen[i]) => Follows(pending'[k][i], chosen[i], b + 1)
  PROVE  Comes(k, i)'
<1>0. chan[k] \in Seq(Messages)
  BY SessionTypesHold DEF SessionTypes
<1>1. BatchCount(chosen[i]) \in Nat
  BY ChosenTyped
<1>2. CASE b = BatchCount(chosen[i])
  <2>1. \A q \in 1 .. Len(Tail(chan[k])) : ~IsBatch(Tail(chan[k])[q], i)
    BY <1>0, <1>1, <1>2, ComesNow
  <2> QED
    BY <2>1, NoneComes
<1>3. CASE b # BatchCount(chosen[i])
  <2>1. ComesAt(Tail(chan[k]), i, chosen[i], 1, b + 1)
    BY <1>0, <1>1, <1>3, ComesNow
  <2>2. ComesAt(chan'[k], i, chosen'[i], 1, b + 1) /\ Follows(pending'[k][i], chosen'[i], b + 1)
    BY <1>3, <2>1
  <2> QED
    BY <2>2, ComesAfter
<1> QED
  BY <1>2, <1>3

LEMMA InvComes ==
  ASSUME RequestsInv, NEW k \in Hubs, NEW i \in 1 .. MaxRequests
  PROVE  Comes(k, i)
BY DEF RequestsInv, BatchesCome, Comes

LEMMA ComesAll ==
  ASSUME \A k \in Hubs : \A i \in 1 .. MaxRequests : Comes(k, i)'
  PROVE  BatchesCome'
BY DEF Comes, BatchesCome

LEMMA IgnoresComes ==
  ASSUME RecordsInv, RequestsInv, NEW n \in Hubs, Ignores(n),
         NEW k \in Hubs, NEW i \in 1 .. MaxRequests
  PROVE  Comes(k, i)'
<1> DEFINE m == Head(chan[n])
<1>1. /\ chan[n] # <<>> /\ m.kind = "Batch" /\ pending[n][m.id] = NoRequest
      /\ chan' = Received(n) /\ UNCHANGED <<pending, chosen>>
  BY DEF Ignores
<1>2. Same(k, i) /\ Comes(k, i)
  BY <1>1, InvComes DEF Same
<1>3. /\ chan'[n] = Tail(chan[n]) /\ \A h \in Hubs : h # n => chan'[h] = chan[h]
      /\ m = chan[n][1] /\ 1 \in 1 .. Len(chan[n])
  BY <1>1, SessionTypesHold, ReceivedIs DEF SessionTypes
<1>4. CASE k # n
  BY <1>2, <1>3, <1>4, SameComes
<1>5. CASE k = n /\ m.id # i
  <2>1. ~IsBatch(Head(chan[k]), i)
    BY <1>5 DEF IsBatch
  <2> QED
    BY <1>1, <1>2, <1>3, <1>5, <2>1, LaterComes
<1>6. CASE k = n /\ m.id = i
  <2>1. IsBatch(chan[k][1], i) /\ IsBatch(Head(chan[k]), i)
    BY <1>1, <1>3, <1>6 DEF IsBatch
  <2>2. PICK p, b : ComesAt(chan[k], i, chosen[i], p, b) /\ Follows(pending[k][i], chosen[i], b)
    BY <1>2, <1>3, <1>6, <2>1, ComesBefore
  <2>3. Follows(pending'[k][i], chosen[i], b + 1)
    BY <1>1, <1>6 DEF Follows
  <2> QED
    BY <1>1, <1>3, <1>6, <2>1, <2>2, <2>3, NextComes
<1> QED
  BY <1>4, <1>5, <1>6

LEMMA GathersComes ==
  ASSUME RecordsInv, RequestsInv, NEW n \in Hubs,
         NEW b \in 1 .. BatchCount(chosen[Head(chan[n]).id]), Gathers(n, b),
         NEW k \in Hubs, NEW i \in 1 .. MaxRequests
  PROVE  Comes(k, i)'
<1> DEFINE m == Head(chan[n])
           ch == chosen[m.id]
           request == pending[n][m.id]
<1>1. /\ chan[n] # <<>> /\ m.kind = "Batch"
      /\ chan' = Received(n) /\ UNCHANGED chosen
      /\ ComesAt(chan[n], m.id, ch, 1, b) /\ Follows(request, ch, b) /\ request # NoRequest
  BY DEF Gathers
<1>2. \E e : /\ pending' = [pending EXCEPT ![n][m.id] = e]
             /\ b # BatchCount(ch) => e = [request EXCEPT !.records = SubSeq(ch, 1, b * BatchSize)]
  <2>1. CASE b = BatchCount(ch)
    BY <2>1 DEF Gathers
  <2>2. CASE b # BatchCount(ch)
    BY <2>2 DEF Gathers
  <2> QED
    BY <2>1, <2>2
<1>3. /\ chan'[n] = Tail(chan[n]) /\ \A h \in Hubs : h # n => chan'[h] = chan[h]
      /\ m = chan[n][1] /\ 1 \in 1 .. Len(chan[n]) /\ m.id \in 1 .. MaxRequests
  BY <1>1, SessionTypesHold, ReceivedIs, MessagesAre DEF SessionTypes
<1>4. pending \in [Hubs -> [1 .. MaxRequests -> Requests]]
  BY SessionTypesHold DEF SessionTypes
<1>5. PICK e : /\ pending' = [pending EXCEPT ![n][m.id] = e]
               /\ b # BatchCount(ch) => e = [request EXCEPT !.records = SubSeq(ch, 1, b * BatchSize)]
  BY <1>2
<1>6. CASE k # n \/ m.id # i
  <2>1. Same(k, i) /\ Comes(k, i)
    <3>1. pending'[k][i] = pending[k][i]
      <4> HIDE DEF m
      <4> QED
        BY <1>3, <1>4, <1>5, <1>6
    <3> QED
      BY <1>1, <3>1, InvComes DEF Same
  <2>2. CASE k # n
    BY <1>3, <2>1, <2>2, SameComes
  <2>3. CASE k = n /\ m.id # i
    <3>1. ~IsBatch(Head(chan[k]), i)
      BY <2>3 DEF IsBatch
    <3> QED
      BY <1>1, <1>3, <2>1, <2>3, <3>1, LaterComes
  <2> QED
    BY <1>6, <2>2, <2>3
<1>7. CASE k = n /\ m.id = i
  <2>1. IsBatch(Head(chan[k]), i)
    BY <1>1, <1>7 DEF IsBatch
  <2>2. ASSUME b # BatchCount(ch) PROVE Follows(pending'[k][i], chosen[i], b + 1)
    <3>1. pending'[k][i] = e /\ e = [request EXCEPT !.records = SubSeq(ch, 1, b * BatchSize)]
      <4>1. pending'[n][m.id] = e
        <5> HIDE DEF m
        <5> QED
          BY <1>3, <1>4, <1>5
      <4> QED
        BY <1>5, <1>7, <2>2, <4>1
    <3>2. request \in Requests
      BY <1>3, <1>4
    <3>3. request.limit \in Nat /\ Len(ch) <= request.limit
      BY <1>1 DEF Follows
    <3>4. b \in Nat /\ (b + 1) - 1 = b
      <4>1. BatchCount(ch) \in Nat
        BY <1>3, ChosenTyped
      <4> QED
        BY <4>1
    <3> HIDE DEF request, ch, m
    <3>5. e.records = SubSeq(ch, 1, b * BatchSize) /\ e.limit = request.limit
      BY <3>1, <3>2 DEF Requests
    <3>6. Follows(e, ch, b + 1)
      BY <3>3, <3>4, <3>5 DEF Follows
    <3> QED
      BY <1>7, <3>1, <3>6 DEF ch
  <2>3. ComesAt(chan[k], i, chosen[i], 1, b) /\ chosen'[i] = chosen[i]
    BY <1>1, <1>7
  <2> QED
    BY <1>1, <1>3, <1>7, <2>1, <2>2, <2>3, NextComes
<1> QED
  BY <1>6, <1>7

LEMMA AnswersComes ==
  ASSUME RecordsInv, RequestsInv, NEW n \in Hubs, Answers(n),
         NEW k \in Hubs, NEW i \in 1 .. MaxRequests
  PROVE  Comes(k, i)'
<1> DEFINE m == Head(chan[n])
           ch == OwnLatest(n, m.limit)
           r == Batches(m.id, ch)
<1>0. SessionTypes
  BY SessionTypesHold
<1>1. /\ m.kind = "Request" /\ m = chan[n][1] /\ 1 \in 1 .. Len(chan[n])
      /\ m.id \in 1 .. MaxRequests /\ ch \in Seq(Records)
      /\ chan'[n] = Tail(chan[n])
      /\ chan'[Peer(n)] = chan[Peer(n)] \/ chan'[Peer(n)] = chan[Peer(n)] \o r
      /\ r \in Seq(Messages)
      /\ \A b \in 1 .. Len(r) : r[b].kind = "Batch" /\ r[b].id = m.id
  BY <1>0, AnswersChan
<1>2. /\ chan[n] # <<>> /\ Len(ch) <= m.limit /\ m.limit \in Nat
      /\ chosen' = [chosen EXCEPT ![m.id] = ch] /\ UNCHANGED pending
  BY DEF Answers
<1>3. k = n \/ k = Peer(n)
  BY PeerIsOther
<1>4. chan[k] \in Seq(Messages) /\ chan[n] \in Seq(Messages)
  BY <1>0 DEF SessionTypes
<1>5. HeardOnce /\ Comes(k, i)
  BY InvComes DEF RequestsInv
<1>6. CASE i # m.id
  <2>1. Same(k, i)
    <3>1. chosen'[i] = chosen[i]
      <4> HIDE DEF m, ch
      <4> QED
        BY <1>0, <1>2, <1>6 DEF SessionTypes
    <3> QED
      BY <1>2, <3>1 DEF Same
  <2>2. CASE k = n
    <3>1. ~IsBatch(Head(chan[k]), i)
      BY <1>6, <2>2 DEF IsBatch
    <3> QED
      BY <1>1, <1>2, <1>5, <2>1, <2>2, <3>1, LaterComes
  <2>3. CASE chan'[k] = chan[k]
    BY <1>5, <2>1, <2>3, SameComes
  <2>4. CASE chan'[k] = chan[k] \o r
    <3>1. \A b \in 1 .. Len(r) : ~IsBatch(r[b], i)
      BY <1>1, <1>6 DEF IsBatch
    <3> HIDE DEF r
    <3> QED
      BY <1>1, <1>5, <2>1, <2>4, <3>1, MoreComes
  <2> QED
    BY <1>1, <1>3, <2>2, <2>3, <2>4
<1>7. CASE i = m.id
  <2>1. ASSUME NEW h \in Hubs, NEW q \in 1 .. Len(chan[h]) PROVE ~IsBatch(chan[h][q], i)
    <3>1. ASSUME IsBatch(chan[h][q], i) PROVE FALSE
      <4>1. chan[h][q].id = chan[n][1].id /\ chan[h][q].kind = "Batch" /\ chan[n][1].kind = "Request"
        BY <1>1, <1>7, <3>1 DEF IsBatch
      <4>2. h = n /\ q = 1
        <5>1. 1 \in 1 .. Len(chan[n]) /\ HeardOnce
          BY <1>1, <1>5
        <5> QED
          BY <4>1, <5>1, HeardChan
      <4> QED
        BY <4>1, <4>2
    <3> QED
      BY <3>1
  <2>2. CASE k = n
    <3>1. \A q \in 1 .. Len(chan'[k]) : ~IsBatch(chan'[k][q], i)
      <4>1. ASSUME NEW q \in 1 .. Len(Tail(chan[n])) PROVE ~IsBatch(Tail(chan[n])[q], i)
        BY <1>2, <1>4, <2>1, TailAt
      <4> QED
        BY <1>1, <2>2, <4>1
    <3> QED
      BY <3>1, NoneComes
  <2>3. CASE chan'[k] = chan[k]
    <3>1. \A q \in 1 .. Len(chan'[k]) : ~IsBatch(chan'[k][q], i)
      BY <2>1, <2>3
    <3> QED
      BY <3>1, NoneComes
  <2>4. CASE k # n /\ chan'[k] = chan[k] \o r
    <3>1. ComesAt(chan[k] \o r, i, ch, Len(chan[k]) + 1, 1)
      <4>1. \A q \in 1 .. Len(chan[k]) : ~IsBatch(chan[k][q], i)
        BY <2>1
      <4>2. Batches(i, ch) \in Seq(Messages) /\ r = Batches(i, ch)
        BY <1>1, <1>7
      <4> HIDE DEF r, ch, m
      <4> QED
        BY <1>1, <1>4, <4>1, <4>2, ComesFirst
    <3>2. chosen'[i] = ch
      <4> HIDE DEF ch, m
      <4> QED
        BY <1>0, <1>2, <1>7 DEF SessionTypes
    <3>3. pending'[k][i] # NoRequest => pending'[k][i] = [limit |-> m.limit, records |-> <<>>]
      <4>1. pending[k][chan[n][1].id] # NoRequest =>
              pending[k][chan[n][1].id] = [limit |-> chan[n][1].limit, records |-> <<>>]
        <5>1. 1 \in 1 .. Len(chan[n]) /\ chan[n][1].kind = "Request"
          BY <1>1
        <5>2. ASSUME pending[k][chan[n][1].id] # NoRequest
              PROVE  pending[k][chan[n][1].id] = [limit |-> chan[n][1].limit, records |-> <<>>]
          BY <1>5, <5>1, <5>2, HeardPending
        <5> QED
          BY <5>2
      <4> QED
        BY <1>1, <1>2, <1>7, <4>1
    <3>4. Follows(pending'[k][i], ch, 1)
      <4> HIDE DEF ch, m
      <4>1. SubSeq(ch, 1, (1 - 1) * BatchSize) = <<>>
        <5>1. (1 - 1) * BatchSize = 0
          BY LimitTypes
        <5> QED
          BY <1>1, <5>1
      <4> DEFINE e == [limit |-> m.limit, records |-> <<>>]
      <4>2. e.limit = m.limit /\ e.records = <<>>
        OBVIOUS
      <4>3. pending'[k][i] # NoRequest => pending'[k][i] = e
        BY <3>3
      <4> HIDE DEF e
      <4> QED
        BY <1>2, <4>1, <4>2, <4>3 DEF Follows
    <3>5. ComesAt(chan'[k], i, chosen'[i], Len(chan[k]) + 1, 1) /\ Follows(pending'[k][i], chosen'[i], 1)
      BY <2>4, <3>1, <3>2, <3>4
    <3> QED
      BY <3>5, ComesAfter
  <2> QED
    BY <1>1, <1>3, <2>2, <2>3, <2>4
<1> QED
  BY <1>6, <1>7

LEMMA RequestedComes ==
  ASSUME RecordsInv, RequestsInv, NEW n \in Hubs, NEW r, Requested(n, r),
         NEW k \in Hubs, NEW i \in 1 .. MaxRequests
  PROVE  Comes(k, i)'
<1>0. SessionTypes /\ IdsAsked /\ Comes(k, i) /\ asked \in Nat
  <2>1. SessionTypes /\ IdsAsked /\ Comes(k, i)
    BY SessionTypesHold, InvComes DEF RequestsInv
  <2>2. asked \in 0 .. MaxRequests
    BY <2>1 DEF SessionTypes
  <2> QED
    BY <2>1, <2>2
<1>1. k = n \/ k = Peer(n)
  BY PeerIsOther
<1>2. chosen' = chosen /\ r \in Messages /\ r.kind = "Request" /\ Peer(n) # n
  BY PeerIsOther DEF Requested
<1>3. CASE k = n /\ i = asked + 1
  <2>1. ASSUME NEW q \in 1 .. Len(chan[k]) PROVE ~IsBatch(chan[k][q], i)
    BY <1>0, <1>3 DEF IdsAsked, IsBatch
  <2>2. \A q \in 1 .. Len(chan'[k]) : ~IsBatch(chan'[k][q], i)
    BY <1>3, <2>1 DEF Requested
  <2> QED
    BY <2>2, NoneComes
<1>4. CASE k # n \/ i # asked + 1
  <2>1. Same(k, i)
    BY <1>2, <1>4 DEF Requested, Same
  <2>2. CASE chan'[k] = chan[k]
    BY <1>0, <2>1, <2>2, SameComes
  <2>3. CASE chan'[k] = chan[k] \o <<r>>
    <3> DEFINE s == <<r>>
    <3>1. s \in Seq(Messages) /\ \A q \in 1 .. Len(s) : ~IsBatch(s[q], i)
      BY <1>2 DEF IsBatch
    <3> HIDE DEF s
    <3> QED
      BY <1>0, <2>1, <2>3, <3>1, MoreComes DEF s
  <2> QED
    BY <1>1, <2>2, <2>3 DEF Requested
<1> QED
  BY <1>3, <1>4

\* Every batch of a request waited for comes to it.
LEMMA BatchesStep ==
  ASSUME RecordsInv, RequestsInv, [DiagnosticsNext]_diagnosticsVars
  PROVE  BatchesCome'
<1>0. SessionTypes
  BY SessionTypesHold
<1>1. ASSUME NEW k \in Hubs, NEW i \in 1 .. MaxRequests PROVE Comes(k, i)'
  <2>0. Comes(k, i)
    BY InvComes
  <2>1. CASE UNCHANGED <<chan, pending, arrived, asked, chosen>>
    <3>1. Same(k, i) /\ chan'[k] = chan[k]
      BY <2>1 DEF Same
    <3> QED
      BY <2>0, <3>1, SameComes
  <2>2. CASE BothConnect
    <3>1. chan'[k] = <<>>
      BY <2>2 DEF BothConnect
    <3>2. \A q \in 1 .. Len(chan'[k]) : ~IsBatch(chan'[k][q], i)
      BY <3>1
    <3> QED
      BY <3>2, NoneComes
  <2>3. ASSUME NEW n \in Hubs, Shuts(n) PROVE Comes(k, i)'
    <3>1. CASE k = n
      <4>1. chan'[k] = <<>>
        BY <1>0, <2>3, <3>1 DEF Shuts, SessionTypes
      <4>2. \A q \in 1 .. Len(chan'[k]) : ~IsBatch(chan'[k][q], i)
        BY <4>1
      <4> QED
        BY <4>2, NoneComes
    <3>2. CASE k # n
      <4>1. Same(k, i) /\ chan'[k] = chan[k]
        BY <1>0, <2>3, <3>2 DEF Shuts, SessionTypes, Same
      <4> QED
        BY <2>0, <4>1, SameComes
    <3> QED
      BY <3>1, <3>2
  <2>4. ASSUME NEW n \in Hubs, Collect(n) PROVE Comes(k, i)'
    <3>1. Same(k, i) /\ chan'[k] = chan[k]
      BY <2>4 DEF Collect, sessionVars, Same
    <3> QED
      BY <2>0, <3>1, SameComes
  <2>5. ASSUME NEW n \in Hubs, NEW j \in 1 .. MaxRequests, Timeout(n, j) PROVE Comes(k, i)'
    <3>1. /\ pending' = [pending EXCEPT ![n][j] = NoRequest] /\ UNCHANGED <<chan, chosen>>
          /\ pending \in [Hubs -> [1 .. MaxRequests -> Requests]]
      BY <1>0, <2>5 DEF Timeout, SessionTypes
    <3>2. pending'[k][i] = pending[k][i] \/ pending'[k][i] = NoRequest
      <4> HIDE DEF NoRequest
      <4> QED
        BY <3>1
    <3>3. Same(k, i) /\ chan'[k] = chan[k]
      BY <3>1, <3>2 DEF Same
    <3> QED
      BY <2>0, <3>3, SameComes
  <2>6. ASSUME NEW n \in Hubs, NEW query \in Queries, Request(n, query) PROVE Comes(k, i)'
    <3>1. PICK r : Requested(n, r)
      BY <1>0, <2>6, RequestLeaves
    <3> QED
      BY <3>1, RequestedComes
  <2> QED
    BY <2>1, <2>2, <2>3, <2>4, <2>5, <2>6, StepEffect, AnswersComes, IgnoresComes, GathersComes
<1> QED
  BY <1>1, ComesAll

LEMMA IdsAndHeardStep ==
  ASSUME RecordsInv, RequestsInv, [DiagnosticsNext]_diagnosticsVars
  PROVE  IdsAsked' /\ HeardOnce'
<1>0. SessionTypes /\ IdsAsked /\ HeardOnce /\ OriginsKept
  BY SessionTypesHold DEF RequestsInv
<1>1. ASSUME NEW n \in Hubs, NEW query \in Queries, Request(n, query)
      PROVE  IdsAsked' /\ HeardOnce'
  <2>1. PICK r : Requested(n, r)
    BY <1>0, <1>1, RequestLeaves
  <2> QED
    BY <1>0, <2>1, RequestedIds, RequestedHeard
<1>2. ASSUME ~(\E n \in Hubs, query \in Queries : Request(n, query))
      PROVE  IdsAsked' /\ HeardOnce'
  <2>1. PICK d, J : Handles(d, J)
    BY <1>2, StepHandled DEF Handled
  <2>2. SessionTypes'
    BY <1>0, SessionStep
  <2>3. chan \in [Hubs -> Seq(Messages)] /\ chan' \in [Hubs -> Seq(Messages)]
    BY <1>0, <2>2, Zenon DEF SessionTypes, Messages, Records, Ids
  <2>4. ASSUME NEW k \in Hubs
        PROVE  /\ Len(chan'[k]) \in Nat
               /\ \A p \in 1 .. Len(chan'[k]) : chan'[k][p].id \in 1 .. MaxRequests
    <3>1. chan'[k] \in Seq(Messages)
      BY <2>3
    <3>2. \A p \in 1 .. Len(chan'[k]) : chan'[k][p] \in Messages
      BY <3>1
    <3>3. \A m \in Messages : m.id \in 1 .. MaxRequests
      BY MessagesAre
    <3> QED
      BY <3>1, <3>2, <3>3
  <2>5. IdsAsked'
    BY <1>0, <2>1, HandlesIds
  <2>6. HeardOnce'
    BY <1>0, <2>1, <2>3, <2>4, HandlesHeard
  <2> QED
    BY <2>5, <2>6
<1> QED
  BY <1>1, <1>2

-----------------------------------------------------------------------------
(***************************************************************************)
(* What has arrived is what was chosen, and came from the peer.            *)
(***************************************************************************)
LEMMA ConcatAt ==
  ASSUME NEW S, NEW s \in Seq(S), NEW t \in Seq(S), NEW i \in 1 .. Len(s \o t)
  PROVE  \/ i \in 1 .. Len(s) /\ (s \o t)[i] = s[i]
         \/ i - Len(s) \in 1 .. Len(t) /\ (s \o t)[i] = t[i - Len(s)]
OBVIOUS

LEMMA AnswersWholeStep ==
  ASSUME RecordsInv, RequestsInv, [DiagnosticsNext]_diagnosticsVars
  PROVE  AnswersWhole'
<1> DEFINE R == [id : 1 .. MaxRequests, records : Seq(Records)]
<1>0. SessionTypes /\ HeardOnce /\ AnswersWhole
  BY SessionTypesHold DEF RequestsInv
<1>1. \A n \in Hubs : \A q \in 1 .. Len(arrived[n]) : arrived[n][q].records = chosen[arrived[n][q].id]
  BY <1>0 DEF AnswersWhole
<1>2. ASSUME UNCHANGED <<arrived, chosen>> PROVE AnswersWhole'
  BY <1>1, <1>2 DEF AnswersWhole
<1>3. arrived \in [Hubs -> Seq(R)] /\ \A x \in R : x.id \in 1 .. MaxRequests
  BY <1>0 DEF SessionTypes
<1> HIDE DEF R
<1>4. ASSUME NEW n \in Hubs, Answers(n) PROVE AnswersWhole'
  <2> DEFINE m == Head(chan[n])
             ch == OwnLatest(n, m.limit)
  <2>1. chosen' = [chosen EXCEPT ![m.id] = ch] /\ arrived' = arrived
        /\ chosen \in [1 .. MaxRequests -> Seq(Records)]
    BY <1>0, <1>4 DEF Answers, SessionTypes
  <2>2. m.kind = "Request" /\ m = chan[n][1] /\ 1 \in 1 .. Len(chan[n])
    BY <1>0, <1>4, AnswersChan
  <2>3. ASSUME NEW k \in Hubs, NEW q \in 1 .. Len(arrived[k])
        PROVE  arrived[k][q].records = chosen'[arrived[k][q].id]
    <3>1. arrived[k][q].id # m.id
      <4>1. \A j \in 1 .. Len(arrived[k]) : arrived[k][j].id # chan[n][1].id
        <5>1. 1 \in 1 .. Len(chan[n]) /\ chan[n][1].kind = "Request"
          BY <2>2
        <5> QED
          BY <1>0, <5>1, HeardArrived
      <4> QED
        BY <2>2, <4>1
    <3>2. arrived[k][q].id \in 1 .. MaxRequests
      BY <1>3
    <3> HIDE DEF m, ch
    <3>3. chosen'[arrived[k][q].id] = chosen[arrived[k][q].id]
      BY <2>1, <3>1, <3>2
    <3> QED
      BY <1>1, <3>3
  <2> QED
    BY <2>1, <2>3 DEF AnswersWhole
<1>5. ASSUME NEW n \in Hubs, Collect(n) PROVE AnswersWhole'
  <2>1. arrived[n] # <<>> /\ arrived' = [arrived EXCEPT ![n] = Tail(arrived[n])] /\ chosen' = chosen
    BY <1>5 DEF Collect
  <2>2. arrived'[n] = Tail(arrived[n]) /\ \A k \in Hubs : k # n => arrived'[k] = arrived[k]
    BY <1>3, <2>1
  <2>3. ASSUME NEW q \in 1 .. Len(Tail(arrived[n]))
        PROVE  Tail(arrived[n])[q].records = chosen[Tail(arrived[n])[q].id]
    <3>1. q + 1 \in 1 .. Len(arrived[n]) /\ Tail(arrived[n])[q] = arrived[n][q + 1]
      BY <1>3, <2>1, TailAt
    <3> QED
      BY <1>1, <3>1
  <2> QED
    BY <1>1, <2>1, <2>2, <2>3 DEF AnswersWhole
<1>6. ASSUME NEW n \in Hubs, NEW b, Gathers(n, b) PROVE AnswersWhole'
  <2> DEFINE m == Head(chan[n])
             a == [id |-> m.id, records |-> chosen[m.id]]
  <2>1. chosen' = chosen
    BY <1>6 DEF Gathers
  <2>2. arrived' = arrived \/ arrived' = [arrived EXCEPT ![n] = Append(arrived[n], a)]
    BY <1>6 DEF Gathers
  <2>3. CASE arrived' = arrived
    BY <1>2, <2>1, <2>3
  <2>4. CASE arrived' = [arrived EXCEPT ![n] = Append(arrived[n], a)]
    <3>1. a.records = chosen[a.id]
      OBVIOUS
    <3> HIDE DEF a
    <3>2. arrived'[n] = Append(arrived[n], a) /\ \A k \in Hubs : k # n => arrived'[k] = arrived[k]
      BY <1>3, <2>4
    <3>3. ASSUME NEW q \in 1 .. Len(arrived'[n])
          PROVE  (q \in 1 .. Len(arrived[n]) /\ arrived'[n][q] = arrived[n][q]) \/ arrived'[n][q] = a
      <4>1. arrived[n] \in Seq(R)
        BY <1>3
      <4> QED
        BY <3>2, <4>1
    <3>4. ASSUME NEW k \in Hubs, NEW q \in 1 .. Len(arrived'[k])
          PROVE  arrived'[k][q].records = chosen[arrived'[k][q].id]
      <4>1. CASE k = n
        BY <1>1, <3>1, <3>3, <4>1
      <4>2. CASE k # n
        BY <1>1, <3>2, <4>2
      <4> QED
        BY <4>1, <4>2
    <3> QED
      BY <2>1, <3>4 DEF AnswersWhole
  <2> QED
    BY <2>2, <2>3, <2>4
<1>7. ASSUME BothConnect PROVE UNCHANGED <<arrived, chosen>>
  BY <1>7 DEF BothConnect
<1>8. ASSUME NEW n \in Hubs, Shuts(n) \/ Ignores(n) PROVE UNCHANGED <<arrived, chosen>>
  BY <1>8 DEF Shuts, Ignores
<1>9. ASSUME NEW n \in Hubs, NEW query \in Queries, Request(n, query) PROVE UNCHANGED <<arrived, chosen>>
  BY <1>9 DEF Request
<1>10. ASSUME NEW n \in Hubs, NEW i \in 1 .. MaxRequests, Timeout(n, i)
       PROVE UNCHANGED <<arrived, chosen>>
  BY <1>10 DEF Timeout
<1> QED
  BY <1>2, <1>4, <1>5, <1>6, <1>7, <1>8, <1>9, <1>10, StepEffect

\* The parts of OriginsKept.
Marked == \A n \in Hubs : \A i \in 1 .. Len(all[n]) :
            all[n][i].source = "Local" <=> all[n][i].record.origin = n
PendingFetched == \A n \in Hubs : \A i \in 1 .. MaxRequests : pending[n][i].records \in Fetched(n)
ChanFetched == \A n \in Hubs : \A i \in 1 .. Len(chan[n]) :
                 chan[n][i].kind = "Batch" => chan[n][i].records \in Fetched(n)
ArrivedFetched == \A n \in Hubs : \A i \in 1 .. Len(arrived[n]) : arrived[n][i].records \in Fetched(n)

LEMMA OriginsParts == OriginsKept <=> Marked /\ PendingFetched /\ ChanFetched /\ ArrivedFetched
BY Zenon DEF OriginsKept, Marked, PendingFetched, ChanFetched, ArrivedFetched

LEMMA OriginsPartsNext ==
  (Marked /\ PendingFetched /\ ChanFetched /\ ArrivedFetched)' => OriginsKept'
BY Zenon DEF OriginsKept, Marked, PendingFetched, ChanFetched, ArrivedFetched

LEMMA MarkedStep ==
  ASSUME RecordsInv, OriginsKept, [DiagnosticsNext]_diagnosticsVars
  PROVE  Marked'
<1>0. Marked
  BY OriginsParts
<1>1. ASSUME Publishes PROVE Marked'
  <2>1. PICK new : FreshEntries(new) /\ Publish(new)
    BY <1>1 DEF Publishes
  <2>2. ASSUME NEW n \in Hubs, NEW i \in 1 .. Len(all'[n])
        PROVE  all'[n][i].source = "Local" <=> all'[n][i].record.origin = n
    <3>1. all'[n] = all[n] \o new[n]
      BY <2>1 DEF Publish
    <3>2. all[n] \in Seq(Entry) /\ new[n] \in Seq(Entry)
      BY <2>1, RecordsInvGives DEF FreshEntries
    <3>3. \/ i \in 1 .. Len(all[n]) /\ all'[n][i] = all[n][i]
          \/ i - Len(all[n]) \in 1 .. Len(new[n]) /\ all'[n][i] = new[n][i - Len(all[n])]
      <4>1. i \in 1 .. Len(all[n] \o new[n])
        BY <3>1
      <4>2. \/ i \in 1 .. Len(all[n]) /\ (all[n] \o new[n])[i] = all[n][i]
            \/ i - Len(all[n]) \in 1 .. Len(new[n]) /\ (all[n] \o new[n])[i] = new[n][i - Len(all[n])]
        BY <3>2, <4>1, ConcatAt
      <4> QED
        BY <3>1, <4>2
    <3>4. \A j \in 1 .. Len(all[n]) : all[n][j].source = "Local" <=> all[n][j].record.origin = n
      BY <1>0 DEF Marked
    <3>5. \A j \in 1 .. Len(new[n]) : new[n][j].source = "Local" <=> new[n][j].record.origin = n
      BY <2>1 DEF FreshEntries
    <3> QED
      BY <3>3, <3>4, <3>5, Zenon
  <2> QED
    BY <2>2 DEF Marked
<1>2. ASSUME Prunes \/ Keeps PROVE Marked'
  <2>1. all' = all
    BY <1>2 DEF Prunes, Keeps
  <2> QED
    BY <1>0, <2>1 DEF Marked
<1>3. ASSUME Tick PROVE Marked'
  <2>1. ASSUME NEW n \in Hubs
        PROVE  /\ Len(all'[n]) = Len(all[n])
               /\ \A i \in 1 .. Len(all[n]) : all'[n][i].source = all[n][i].source
                                             /\ all'[n][i].record = all[n][i].record
    <3>1. all[n] \in Seq(Entry)
      BY RecordsInvGives
    <3>2. all'[n] = [i \in 1 .. Len(all[n]) |->
            IF Old(all[n][i]) THEN all[n][i] ELSE [all[n][i] EXCEPT !.age = @ + 1]]
      BY <1>3 DEF Tick
    <3>3. Len(all'[n]) = Len(all[n])
      BY <3>1, <3>2
    <3>4. ASSUME NEW i \in 1 .. Len(all[n])
          PROVE  all'[n][i].source = all[n][i].source /\ all'[n][i].record = all[n][i].record
      <4>1. all[n][i] \in Entry
        BY <3>1
      <4>2. all'[n][i] = IF Old(all[n][i]) THEN all[n][i] ELSE [all[n][i] EXCEPT !.age = @ + 1]
        BY <3>2
      <4> QED
        BY <4>1, <4>2 DEF Entry
    <3> QED
      BY <3>3, <3>4
  <2> QED
    BY <1>0, <2>1 DEF Marked
<1> QED
  BY <1>1, <1>2, <1>3, StepKind

\* Messages that stay bring what they brought.
LEMMA DrainsFetched ==
  ASSUME SessionTypes, ChanFetched, Drains
  PROVE  ChanFetched'
<1>1. ASSUME NEW n \in Hubs, NEW i \in 1 .. Len(chan'[n]), chan'[n][i].kind = "Batch"
      PROVE  chan'[n][i].records \in Fetched(n)
  <2>0. chan[n] \in Seq(Messages)
    BY DEF SessionTypes
  <2>1. \A j \in 1 .. Len(chan[n]) : chan[n][j].kind = "Batch" => chan[n][j].records \in Fetched(n)
    BY DEF ChanFetched
  <2>2. CASE chan'[n] = chan[n]
    BY <1>1, <2>1, <2>2
  <2>3. CASE chan'[n] = <<>>
    BY <2>3
  <2>4. CASE chan[n] # <<>> /\ chan'[n] = Tail(chan[n])
    <3>1. i + 1 \in 1 .. Len(chan[n]) /\ chan'[n][i] = chan[n][i + 1]
      BY <2>0, <2>4, TailAt
    <3> QED
      BY <1>1, <2>1, <3>1
  <2> QED
    BY <2>2, <2>3, <2>4 DEF Drains
<1> QED
  BY <1>1 DEF ChanFetched, Fetched

LEMMA ChanFetchedStep ==
  ASSUME RecordsInv, RequestsInv, [DiagnosticsNext]_diagnosticsVars
  PROVE  ChanFetched'
<1>0. SessionTypes /\ ChanFetched
  BY SessionTypesHold, OriginsParts DEF RequestsInv
<1>1. ASSUME NEW n \in Hubs, Answers(n) PROVE ChanFetched'
  <2> DEFINE m == Head(chan[n])
             r == Batches(m.id, OwnLatest(n, m.limit))
  <2>1. /\ chan'[n] = Tail(chan[n])
        /\ chan'[Peer(n)] = chan[Peer(n)] \/ chan'[Peer(n)] = chan[Peer(n)] \o r
        /\ r \in Seq(Messages)
        /\ \A b \in 1 .. Len(r) : r[b].records \in Fetched(Peer(n))
    BY <1>0, <1>1, AnswersChan
  <2>2. chan[n] # <<>> /\ Peer(n) \in Hubs
    BY <1>1, PeerIsOther DEF Answers
  <2> HIDE DEF r
  <2>3. ASSUME NEW k \in Hubs, NEW i \in 1 .. Len(chan'[k]), chan'[k][i].kind = "Batch"
        PROVE  chan'[k][i].records \in Fetched(k)
    <3>0. chan[k] \in Seq(Messages)
      BY <1>0 DEF SessionTypes
    <3>1. \A j \in 1 .. Len(chan[k]) : chan[k][j].kind = "Batch" => chan[k][j].records \in Fetched(k)
      BY <1>0 DEF ChanFetched
    <3>2. CASE k = n
      <4>1. i + 1 \in 1 .. Len(chan[k]) /\ chan'[k][i] = chan[k][i + 1]
        BY <2>1, <2>2, <3>0, <3>2, TailAt
      <4> QED
        BY <2>3, <3>1, <4>1
    <3>3. CASE chan'[k] = chan[k]
      BY <2>3, <3>1, <3>3
    <3>4. CASE k = Peer(n) /\ chan'[k] = chan[k] \o r
      <4>1. \/ i \in 1 .. Len(chan[k]) /\ chan'[k][i] = chan[k][i]
            \/ i - Len(chan[k]) \in 1 .. Len(r) /\ chan'[k][i] = r[i - Len(chan[k])]
        BY <2>1, <3>0, <3>4, ConcatAt
      <4> QED
        BY <2>1, <2>3, <3>1, <3>4, <4>1
    <3> QED
      BY <2>1, <3>2, <3>3, <3>4, PeerIsOther
  <2> QED
    BY <2>3 DEF ChanFetched, Fetched
<1>2. ASSUME NEW n \in Hubs, NEW query \in Queries, Request(n, query) PROVE ChanFetched'
  <2>1. PICK r : Requested(n, r)
    BY <1>0, <1>2, RequestLeaves
  <2>2. ASSUME NEW k \in Hubs, NEW i \in 1 .. Len(chan'[k]), chan'[k][i].kind = "Batch"
        PROVE  chan'[k][i].records \in Fetched(k)
    <3>1. (i \in 1 .. Len(chan[k]) /\ chan'[k][i] = chan[k][i]) \/ chan'[k][i] = r
      BY <1>0, <2>1, RequestedChan
    <3>2. r.kind # "Batch"
      BY <2>1 DEF Requested
    <3> QED
      BY <1>0, <2>2, <3>1, <3>2 DEF ChanFetched
  <2> QED
    BY <2>2 DEF ChanFetched, Fetched
<1>3. ASSUME UNCHANGED chan \/ BothConnect PROVE Drains
  BY <1>3 DEF Drains, BothConnect
<1>4. ASSUME NEW n \in Hubs, Shuts(n) PROVE Drains
  BY <1>0, <1>4 DEF Shuts, Drains, SessionTypes
<1>5. ASSUME NEW n \in Hubs, NEW b, Ignores(n) \/ Gathers(n, b) PROVE Drains
  BY <1>0, <1>5, ReceivedDrains DEF Ignores, Gathers
<1>6. ASSUME NEW n \in Hubs, Collect(n) PROVE UNCHANGED chan
  BY <1>6 DEF Collect, sessionVars
<1>7. ASSUME NEW n \in Hubs, NEW i \in 1 .. MaxRequests, Timeout(n, i) PROVE UNCHANGED chan
  BY <1>7 DEF Timeout
<1> QED
  BY <1>0, <1>1, <1>2, <1>3, <1>4, <1>5, <1>6, <1>7, StepEffect, DrainsFetched

LEMMA PendingFetchedStep ==
  ASSUME RecordsInv, RequestsInv, [DiagnosticsNext]_diagnosticsVars
  PROVE  PendingFetched'
<1>0. SessionTypes /\ PendingFetched
  BY SessionTypesHold, OriginsParts DEF RequestsInv
<1>1. pending \in [Hubs -> [1 .. MaxRequests -> Requests]]
  BY <1>0 DEF SessionTypes
<1>2. NoRequest.records = <<>> /\ \A n \in Hubs : <<>> \in Fetched(n)
  BY DEF NoRequest, Fetched
<1>3. ASSUME NEW n \in Hubs, NEW i \in 1 .. MaxRequests,
             NEW e, e.records \in Fetched(n), pending' = [pending EXCEPT ![n][i] = e]
      PROVE  PendingFetched'
  <2>1. ASSUME NEW k \in Hubs, NEW j \in 1 .. MaxRequests
        PROVE  pending'[k][j] = pending[k][j] \/ (k = n /\ pending'[k][j] = e)
    <3>1. pending' = [pending EXCEPT ![n][i] = e]
      BY <1>3
    <3>2. CASE k = n /\ j = i
      BY <1>1, <3>1, <3>2
    <3>3. CASE k # n
      BY <1>1, <3>1, <3>3
    <3>4. CASE k = n /\ j # i
      BY <1>1, <3>1, <3>4
    <3> QED
      BY <3>2, <3>3, <3>4
  <2>2. ASSUME NEW k \in Hubs, NEW j \in 1 .. MaxRequests
        PROVE  pending'[k][j].records \in Fetched(k)
    BY <1>0, <1>3, <2>1 DEF PendingFetched
  <2> QED
    BY <2>2 DEF PendingFetched, Fetched
<1>4. ASSUME UNCHANGED pending PROVE PendingFetched'
  BY <1>0, <1>4 DEF PendingFetched
<1>5. ASSUME NEW n \in Hubs, NEW i \in 1 .. MaxRequests, Timeout(n, i) PROVE PendingFetched'
  BY <1>2, <1>3, <1>5 DEF Timeout
<1>6. ASSUME NEW n \in Hubs, Shuts(n) PROVE PendingFetched'
  <2>1. \A k \in Hubs : \A j \in 1 .. MaxRequests :
          pending'[k][j] = pending[k][j] \/ pending'[k][j] = NoRequest
    BY <1>1, <1>6 DEF Shuts, NoRequests
  <2>2. ASSUME NEW k \in Hubs, NEW j \in 1 .. MaxRequests
        PROVE  pending'[k][j].records \in Fetched(k)
    BY <1>0, <1>2, <2>1 DEF PendingFetched
  <2> QED
    BY <2>2 DEF PendingFetched, Fetched
<1>7. ASSUME NEW n \in Hubs, NEW b, Gathers(n, b) PROVE PendingFetched'
  <2> DEFINE m == Head(chan[n])
             request == pending[n][m.id]
             got == SubSeq(chosen[m.id], 1, b * BatchSize)
  <2>1. chan[n] # <<>> /\ m.id \in 1 .. MaxRequests
    BY <1>0, <1>7, ReceivedIs, MessagesAre DEF Gathers, SessionTypes
  <2>2. CASE pending' = [pending EXCEPT ![n][m.id] = NoRequest]
    BY <1>2, <1>3, <2>1, <2>2
  <2>3. CASE got \in Fetched(n) /\ pending' = [pending EXCEPT ![n][m.id] = [request EXCEPT !.records = got]]
    <3>1. request \in Requests
      BY <1>1, <2>1
    <3> HIDE DEF request, got, m
    <3>2. [request EXCEPT !.records = got].records = got
      BY <3>1 DEF Requests
    <3> QED
      BY <1>3, <2>1, <2>3, <3>2
  <2> QED
    BY <1>7, <2>2, <2>3 DEF Gathers
<1>8. ASSUME NEW n \in Hubs, NEW query \in Queries, Request(n, query) PROVE PendingFetched'
  <2> DEFINE e == [limit |-> Bounded(query), records |-> <<>>]
  <2>1. PICK r : Requested(n, r)
    BY <1>0, <1>8, RequestLeaves
  <2>2. e.records = <<>> /\ pending' = [pending EXCEPT ![n][asked + 1] = e]
    BY <1>8 DEF Request
  <2>3. asked + 1 \in 1 .. MaxRequests
    BY <2>1 DEF Requested
  <2> HIDE DEF e
  <2> QED
    BY <1>2, <1>3, <2>2, <2>3
<1>9. ASSUME NEW n \in Hubs, Answers(n) \/ Ignores(n) \/ Collect(n) PROVE UNCHANGED pending
  BY <1>9 DEF Answers, Ignores, Collect, sessionVars
<1>10. ASSUME BothConnect PROVE UNCHANGED pending
  BY <1>10 DEF BothConnect
<1> QED
  BY <1>4, <1>5, <1>6, <1>7, <1>8, <1>9, <1>10, StepEffect

LEMMA ArrivedFetchedStep ==
  ASSUME RecordsInv, RequestsInv, [DiagnosticsNext]_diagnosticsVars
  PROVE  ArrivedFetched'
<1> DEFINE R == [id : 1 .. MaxRequests, records : Seq(Records)]
<1>0. SessionTypes /\ ArrivedFetched
  BY SessionTypesHold, OriginsParts DEF RequestsInv
<1>1. arrived \in [Hubs -> Seq(R)]
  BY <1>0 DEF SessionTypes
<1> HIDE DEF R
<1>2. ASSUME UNCHANGED arrived PROVE ArrivedFetched'
  BY <1>0, <1>2 DEF ArrivedFetched
<1>3. ASSUME NEW n \in Hubs, Collect(n) PROVE ArrivedFetched'
  <2>1. arrived[n] # <<>> /\ arrived' = [arrived EXCEPT ![n] = Tail(arrived[n])]
    BY <1>3 DEF Collect
  <2>2. ASSUME NEW k \in Hubs, NEW q \in 1 .. Len(arrived'[k])
        PROVE  arrived'[k][q].records \in Fetched(k)
    <3>1. CASE k = n
      <4>1. arrived'[k] = Tail(arrived[k]) /\ arrived[k] \in Seq(R) /\ arrived[k] # <<>>
        BY <1>1, <2>1, <3>1
      <4>2. q + 1 \in 1 .. Len(arrived[k]) /\ arrived'[k][q] = arrived[k][q + 1]
        BY <4>1, TailAt
      <4> QED
        BY <1>0, <4>2 DEF ArrivedFetched
    <3>2. CASE k # n
      <4>1. arrived'[k] = arrived[k]
        BY <1>1, <2>1, <3>2
      <4> QED
        BY <1>0, <4>1 DEF ArrivedFetched
    <3> QED
      BY <3>1, <3>2
  <2> QED
    BY <2>2 DEF ArrivedFetched, Fetched
<1>4. ASSUME NEW n \in Hubs, NEW b, Gathers(n, b) PROVE ArrivedFetched'
  <2> DEFINE m == Head(chan[n])
             a == [id |-> m.id, records |-> chosen[m.id]]
  <2>1. \/ arrived' = arrived
        \/ a.records \in Fetched(n) /\ arrived' = [arrived EXCEPT ![n] = Append(arrived[n], a)]
    BY <1>4 DEF Gathers
  <2>2. CASE a.records \in Fetched(n) /\ arrived' = [arrived EXCEPT ![n] = Append(arrived[n], a)]
    <3> HIDE DEF a
    <3>1. ASSUME NEW k \in Hubs, NEW q \in 1 .. Len(arrived'[k])
          PROVE  arrived'[k][q].records \in Fetched(k)
      <4>0. arrived[k] \in Seq(R)
        BY <1>1
      <4>1. CASE k = n
        <5>1. arrived'[k] = Append(arrived[k], a)
          BY <1>1, <2>2, <4>1
        <5>2. (q \in 1 .. Len(arrived[k]) /\ arrived'[k][q] = arrived[k][q]) \/ arrived'[k][q] = a
          BY <4>0, <5>1
        <5> QED
          BY <1>0, <2>2, <4>1, <5>2 DEF ArrivedFetched
      <4>2. CASE k # n
        <5>1. arrived'[k] = arrived[k]
          BY <1>1, <2>2, <4>2
        <5> QED
          BY <1>0, <5>1 DEF ArrivedFetched
      <4> QED
        BY <4>1, <4>2
    <3> QED
      BY <3>1 DEF ArrivedFetched, Fetched
  <2> QED
    BY <1>2, <2>1, <2>2
<1>5. ASSUME BothConnect PROVE UNCHANGED arrived
  BY <1>5 DEF BothConnect
<1>6. ASSUME NEW n \in Hubs, Shuts(n) \/ Ignores(n) \/ Answers(n) PROVE UNCHANGED arrived
  BY <1>6 DEF Shuts, Ignores, Answers
<1>7. ASSUME NEW n \in Hubs, NEW query \in Queries, Request(n, query) PROVE UNCHANGED arrived
  BY <1>7 DEF Request
<1>8. ASSUME NEW n \in Hubs, NEW i \in 1 .. MaxRequests, Timeout(n, i) PROVE UNCHANGED arrived
  BY <1>8 DEF Timeout
<1> QED
  BY <1>2, <1>3, <1>4, <1>5, <1>6, <1>7, <1>8, StepEffect

-----------------------------------------------------------------------------
(***************************************************************************)
(* The theorems about the diagnostics.                                     *)
(***************************************************************************)
LEMMA DiagnosticsStepInv ==
  ASSUME RecordsInv, RequestsInv, [DiagnosticsNext]_diagnosticsVars
  PROVE  RecordsInv' /\ RequestsInv'
<1>1. OriginsKept
  BY DEF RequestsInv
<1>2. RecordsInv'
  BY <1>1, RecordsStep
<1>3. OriginsKept'
  BY <1>1, MarkedStep, PendingFetchedStep, ChanFetchedStep, ArrivedFetchedStep, OriginsPartsNext
<1>4. IdsAsked' /\ HeardOnce' /\ BatchesCome' /\ AnswersWhole'
  BY IdsAndHeardStep, BatchesStep, AnswersWholeStep
<1> QED
  BY <1>2, <1>3, <1>4 DEF RequestsInv

\* Who is closed by an error was told a limit that is no number.
LEMMA HarmlessStep ==
  ASSUME RecordsInv, RequestsInv, [DiagnosticsNext]_diagnosticsVars,
         NEW n \in Hubs, failed'[n], ~failed[n]
  PROVE  Head(chan[n]).kind = "Request" /\ Head(chan[n]).limit = NoNumber
<1>1. failed \in [Hubs -> BOOLEAN]
  BY SessionTypesHold DEF SessionTypes
<1>2. failed' # failed
  OBVIOUS
<1>3. ASSUME NEW k \in Hubs, NEW error, Shut(k, error) PROVE k = n /\ error
  <2>1. failed' = [failed EXCEPT ![k] = error]
    BY <1>3 DEF Shut
  <2> QED
    BY <1>1, <2>1
<1>4. ASSUME NEW k \in Hubs, Handle(k)
      PROVE  k = n /\ Head(chan[k]).kind = "Request" /\ Head(chan[k]).limit = NoNumber
  <2>1. CASE HandleRequest(k)
    <3>1. Head(chan[k]).kind = "Request"
      BY <2>1 DEF HandleRequest
    <3>2. CASE Head(chan[k]).limit = NoNumber
      BY <1>3, <2>1, <3>1, <3>2 DEF HandleRequest
    <3>3. CASE Head(chan[k]).limit # NoNumber
      BY <1>2, <2>1, <3>3 DEF HandleRequest
    <3> QED
      BY <3>2, <3>3
  <2>2. CASE HandleBatch(k)
    <3> DEFINE m == Head(chan[k])
               request == pending[k][m.id]
               records == request.records \o m.records
    <3>1. chan[k] # <<>> /\ m.kind = "Batch"
      BY <1>4, <2>2, HandledHow DEF HandleBatch
    <3>2. request # NoRequest /\ Len(records) > request.limit
      BY <1>2, <2>2 DEF HandleBatch
    <3>3. /\ Len(records) <= request.limit /\ records \in Fetched(k)
          /\ \E b \in 1 .. BatchCount(chosen[m.id]) : Follows(request, chosen[m.id], b)
      BY <3>1, <3>2, BatchFits
    <3>4. Len(records) \in Nat /\ request.limit \in Nat
      <4>1. records \in Seq(Records)
        BY <3>3, FetchedAre
      <4>2. request.limit \in Nat
        BY <3>2, <3>3 DEF Follows
      <4> HIDE DEF records, request
      <4> QED
        BY <4>1, <4>2
    <3>5. Len(records) <= request.limit /\ Len(records) > request.limit
      BY <3>2, <3>3
    <3> HIDE DEF records, request
    <3>6. FALSE
      BY <3>4, <3>5
    <3> QED
      BY <3>6
  <2> QED
    BY <1>4, <2>1, <2>2, HandledHow
<1>5. ASSUME NEW k \in Hubs, Sample(k) \/ ReadSnapshot(k) \/ Collect(k) PROVE FALSE
  BY <1>2, <1>5 DEF Sample, ReadSnapshot, Collect, sessionVars
<1>6. ASSUME NEW k \in Hubs, NEW r \in Readers, OpenStream(k, r) \/ CloseStream(k, r) PROVE FALSE
  BY <1>2, <1>6 DEF OpenStream, CloseStream, sessionVars
<1>7. ASSUME NEW k \in Hubs, NEW query \in Queries, Request(k, query) PROVE FALSE
  BY <1>2, <1>7 DEF Request
<1>8. ASSUME NEW k \in Hubs, NEW i \in 1 .. MaxRequests, Timeout(k, i) PROVE FALSE
  BY <1>2, <1>8 DEF Timeout
<1>9. ASSUME Tick \/ UNCHANGED diagnosticsVars PROVE FALSE
  BY <1>2, <1>9 DEF Tick, diagnosticsVars, sessionVars
<1>10. ASSUME BothConnect PROVE FALSE
  BY <1>10 DEF BothConnect
<1>11. ASSUME NEW k \in Hubs, Close(k) PROVE FALSE
  BY <1>3, <1>11 DEF Close
<1> QED
  BY <1>4, <1>5, <1>6, <1>7, <1>8, <1>9, <1>10, <1>11 DEF DiagnosticsNext

LEMMA DiagnosticsInv == DiagnosticsSpec => [](RecordsInv /\ RequestsInv)
<1>1. RecordsInv /\ RequestsInv /\ [DiagnosticsNext]_diagnosticsVars => (RecordsInv /\ RequestsInv)'
  BY DiagnosticsStepInv
<1> QED
  BY <1>1, DiagnosticsInitInv, PTL DEF DiagnosticsSpec

\* Every variable of the diagnostics has its type, and a hub never holds more
\* than its limit.
THEOREM DiagnosticsTyped == DiagnosticsSpec => []DiagnosticsTypeOK
<1>1. RecordsInv => DiagnosticsTypeOK
  BY DEF RecordsInv
<1> QED
  BY <1>1, DiagnosticsInv, PTL

\* Whenever a snapshot is taken, it holds the latest records that are not too
\* old, up to the limit, of all the hub ever received (DiagnosticsHub.ts).
THEOREM SnapshotsAreWindows == DiagnosticsSpec => []WindowKept
<1>1. RecordsInv => WindowKept
  BY RecordsInvGives, PruneIsWindow DEF WindowKept
<1> QED
  BY <1>1, DiagnosticsInv, PTL

\* A reader of a stream has got the snapshot it was opened with and each record
\* since, in their order and once (DiagnosticsHttpServer.ts).
THEOREM StreamsAreWhole == DiagnosticsSpec => []StreamWhole
<1>1. RecordsInv => StreamWhole
  BY DEF RecordsInv, StreamsFollow, StreamWhole
<1> QED
  BY <1>1, DiagnosticsInv, PTL

\* What a request fetched from the peer is what the peer had to answer when it
\* heard the request (handleSecureMessage of PeerSession.ts).
THEOREM FetchedIsWhole == DiagnosticsSpec => []AnswersWhole
<1>1. RequestsInv => AnswersWhole
  BY DEF RequestsInv
<1> QED
  BY <1>1, DiagnosticsInv, PTL

\* No batch ever ends a session: only a request whose limit is no number does.
THEOREM RequestsAreHarmless == DiagnosticsSpec => SessionOutlivesRequests
<1> DEFINE Harmless ==
  \A n \in Hubs : failed'[n] /\ ~failed[n] =>
    Head(chan[n]).kind = "Request" /\ Head(chan[n]).limit = NoNumber
<1>1. RecordsInv /\ RequestsInv /\ [DiagnosticsNext]_diagnosticsVars => [Harmless]_diagnosticsVars
  BY HarmlessStep
<1>2. DiagnosticsSpec => [][Harmless]_diagnosticsVars
  <2> HIDE DEF Harmless
  <2> QED
    BY <1>1, DiagnosticsInv, PTL DEF DiagnosticsSpec
<1> QED
  BY <1>2 DEF SessionOutlivesRequests
=============================================================================
