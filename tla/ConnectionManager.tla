--------------------------- MODULE ConnectionManager ---------------------------
(***************************************************************************)
(* Several computers that call each other.  Each has one ConnectionManager *)
(* (src/main/connectivity/ConnectionManager.ts) that keeps at most one     *)
(* session, a server that accepts calls (ControlServer.ts) and the service *)
(* around both (ConnectivityFacade.ts).  A session is followed only as far *)
(* as the manager can tell one from another; what happens between its two  *)
(* ends is the subject of PeerSession.                                     *)
(*                                                                         *)
(* A call is a TCP connection.  connect() looks for a session before it    *)
(* dials and installs its own after the socket connected; the server may   *)
(* accept the call before or after the caller hears of it.                 *)
(***************************************************************************)
EXTENDS Integers, FiniteSets

CONSTANTS
  Computers,
  Calls        \* bound: the calls that may be made, each <<caller, callee, number>>

ASSUME CallsAssumption ==
  /\ Calls \subseteq Computers \X Computers \X Nat
  /\ \A c \in Calls : c[1] # c[2]

\* The two ends of a call: the caller's socket and the one the server accepts.
Ends == Calls \X {"out", "in"}

Owner(e) == IF e[2] = "out" THEN e[1][1] ELSE e[1][2]
OtherEnd(e) == <<e[1], IF e[2] = "out" THEN "in" ELSE "out">>

NoSession == <<>>

VARIABLES
  session,   \* #session of each manager
  end,       \* what became of each end
  service    \* #serviceState, with the states after stop() told apart

vars == <<session, end, service>>

\* "Storing" waits for the trust file with both consents given, "Stuck" has
\* seen that fail; a session closed while storing is set to connected when the
\* file is written ("Revived"), although its socket is gone.
SocketOpen == {"Handshake", "Consent", "Storing", "Stuck", "Connected"}
Over == {"Closed", "ClosedStoring"}
EndStates == SocketOpen \cup Over \cup {"None", "Dialling", "Refused", "Revived"}

TypeOK ==
  /\ session \in [Computers -> Ends \cup {NoSession}]
  /\ \A n \in Computers : session[n] # NoSession =>
       Owner(session[n]) = n /\ end[session[n]] \in SocketOpen \cup Over \cup {"Revived"}
  /\ end \in [Ends -> EndStates]
  /\ \A e \in Ends :
       /\ e[2] = "in" => end[e] # "Dialling"
       /\ e[2] = "out" => end[e] \notin {"Storing", "Stuck", "ClosedStoring", "Revived"}
  /\ service \in [Computers -> {"Starting", "Ready", "Failed", "Stopped", "Exited"}]

Init ==
  /\ session = [n \in Computers |-> NoSession]
  /\ end = [e \in Ends |-> "None"]
  /\ service = [n \in Computers |-> "Starting"]

-----------------------------------------------------------------------------
(* The manager                                                             *)

\* What closing or disposing of a session leaves.
AfterClose(state) ==
  IF state \in {"Storing", "ClosedStoring"} THEN "ClosedStoring" ELSE "Closed"

\* Slip: a session that still holds the place is not available to anybody.
IsAvailableAlways(n) == TRUE

IsAvailable(n) == session[n] # NoSession => end[session[n]] \in Over

\* Slip: the old session is forgotten, not disposed of.
InstallOver(n, e) ==
  /\ end' = [end EXCEPT ![e] = "Handshake"]
  /\ session' = [session EXCEPT ![n] = e]

\* installSession: whatever session is there is disposed of.
Install(n, e) ==
  /\ end' = [x \in Ends |-> CASE x = e -> "Handshake"
                              [] x = session[n] -> AfterClose(end[x])
                              [] OTHER -> end[x]]
  /\ session' = [session EXCEPT ![n] = e]

\* Slip: the server goes on listening when the service stops.
ListeningTilExit(n) == service[n] # "Exited"

\* The server listens before the service is ready, goes on when a later part
\* of the start fails, and stops with the service.
Listening(n) == service[n] \in {"Starting", "Ready", "Failed"}

\* connect, up to its await.
Connect(e) ==
  /\ e[2] = "out"
  /\ end[e] = "None"
  /\ service[Owner(e)] = "Ready"
  /\ IsAvailable(Owner(e))
  /\ end' = [end EXCEPT ![e] = "Dialling"]
  /\ UNCHANGED <<session, service>>

\* connect resumes with a connected socket; nothing is checked again.
DialSucceeds(e) ==
  /\ end[e] = "Dialling"
  /\ Listening(Owner(OtherEnd(e))) \/ end[OtherEnd(e)] # "None"
  /\ Install(Owner(e), e)
  /\ UNCHANGED service

\* The socket reports an error, or five seconds pass.
DialFails(e) ==
  /\ end[e] = "Dialling"
  /\ end' = [end EXCEPT ![e] = "Refused"]
  /\ UNCHANGED <<session, service>>

\* acceptIncoming: one session at a time.
AcceptIncoming(e) ==
  LET n == Owner(e) IN
  /\ e[2] = "in"
  /\ end[e] = "None"
  /\ end[OtherEnd(e)] # "None"
  /\ Listening(n)
  /\ IF IsAvailable(n)
     THEN Install(n, e)
     ELSE end' = [end EXCEPT ![e] = "Refused"] /\ UNCHANGED session
  /\ UNCHANGED service

\* disconnect: the first call ends the session, the next forgets it.
Disconnect(n) ==
  /\ service[n] = "Ready"
  /\ session[n] # NoSession
  /\ IF end[session[n]] \in Over
     THEN session' = [session EXCEPT ![n] = NoSession] /\ UNCHANGED end
     ELSE end' = [end EXCEPT ![session[n]] = AfterClose(@)] /\ UNCHANGED session
  /\ UNCHANGED service

-----------------------------------------------------------------------------
(* The session, as far as the manager sees it                              *)

\* Both ends have finished the handshake.
FinishHandshake(c) ==
  LET pair == {<<c, "out">>, <<c, "in">>} IN
  /\ \A e \in pair : end[e] = "Handshake"
  /\ end' = [e \in Ends |-> IF e \in pair THEN "Consent" ELSE end[e]]
  /\ UNCHANGED <<session, service>>

\* The end has both consents; a responder that did not know the caller stores
\* the trust first.
Establish(e) ==
  /\ end[e] = "Consent"
  /\ \E state \in {"Connected"} \cup (IF e[2] = "in" THEN {"Storing"} ELSE {}) :
       end' = [end EXCEPT ![e] = state]
  /\ UNCHANGED <<session, service>>

StoringEnds(e) ==
  /\ \/ end[e] = "Storing" /\ \E s \in {"Connected", "Stuck"} : end' = [end EXCEPT ![e] = s]
     \/ end[e] = "ClosedStoring" /\ \E s \in {"Revived", "Closed"} : end' = [end EXCEPT ![e] = s]
  /\ UNCHANGED <<session, service>>

\* There is no socket, and there will be none.
Gone(e) ==
  \/ end[e] \in Over \cup {"Refused", "Revived"}
  \/ end[e] = "None" /\ ~Listening(Owner(e))

\* The session closes for a reason of its own: a timer, a refusal, an error.
SessionFails(e) ==
  /\ end[e] \in SocketOpen
  /\ end' = [end EXCEPT ![e] = AfterClose(@)]
  /\ UNCHANGED <<session, service>>

\* Slip: only the connected sessions notice that their peer is gone.
PeerGoneConnected(e) ==
  /\ end[e] = "Connected"
  /\ Gone(OtherEnd(e))
  /\ end' = [end EXCEPT ![e] = AfterClose(@)]
  /\ UNCHANGED <<session, service>>

\* The peer's socket is gone: its close arrives, or the timers notice.
PeerGone(e) ==
  /\ end[e] \in SocketOpen
  /\ Gone(OtherEnd(e))
  /\ end' = [end EXCEPT ![e] = AfterClose(@)]
  /\ UNCHANGED <<session, service>>

\* The health check of a session without a socket runs into its deadline.
RevivedTimesOut(e) ==
  /\ end[e] = "Revived"
  /\ end' = [end EXCEPT ![e] = "Closed"]
  /\ UNCHANGED <<session, service>>

-----------------------------------------------------------------------------
(* The service                                                             *)

\* The start ends; a failure after the server began to listen does not undo it.
FinishStart(n) ==
  /\ service[n] = "Starting"
  /\ \E s \in {"Ready", "Failed"} : service' = [service EXCEPT ![n] = s]
  /\ UNCHANGED <<session, end>>

\* stop, before the application quits; a connect that is waiting goes on.
\* Bound: nobody quits while the start is still going on.
Stop(n) ==
  /\ service[n] \in {"Ready", "Failed"}
  /\ service' = [service EXCEPT ![n] = "Stopped"]
  /\ end' = [x \in Ends |-> IF x = session[n] THEN AfterClose(end[x]) ELSE end[x]]
  /\ session' = [session EXCEPT ![n] = NoSession]

Exit(n) ==
  /\ service[n] = "Stopped"
  /\ service' = [service EXCEPT ![n] = "Exited"]
  /\ end' = [e \in Ends |-> CASE Owner(e) # n \/ end[e] \in {"None", "Refused"} -> end[e]
                              [] end[e] = "Dialling" -> "Refused"
                              [] OTHER -> "Closed"]
  /\ session' = [session EXCEPT ![n] = NoSession]

-----------------------------------------------------------------------------

Next ==
  \/ \E e \in Ends :
       \/ Connect(e) \/ DialSucceeds(e) \/ DialFails(e) \/ AcceptIncoming(e)
       \/ Establish(e) \/ StoringEnds(e)
       \/ SessionFails(e) \/ PeerGone(e) \/ RevivedTimesOut(e)
  \/ \E c \in Calls : FinishHandshake(c)
  \/ \E n \in Computers : Disconnect(n) \/ FinishStart(n) \/ Stop(n) \/ Exit(n)

Spec == Init /\ [][Next]_vars

\* A dial ends, a queued call is accepted while the server listens, a file
\* operation ends, and timers notice what happened to the peer.
Fairness ==
  \A e \in Ends :
    /\ WF_vars(DialSucceeds(e) \/ DialFails(e))
    /\ WF_vars(AcceptIncoming(e))
    /\ WF_vars(StoringEnds(e))
    /\ WF_vars(PeerGone(e))
    /\ WF_vars(RevivedTimesOut(e))

FairSpec == Spec /\ Fairness

-----------------------------------------------------------------------------
(* Properties                                                              *)

\* One session at a time: however calls cross and whichever session is
\* replaced, no socket is left open that its manager does not know of.
SingleSession ==
  \A e \in Ends : end[e] \in SocketOpen => session[Owner(e)] = e

\* A call from outside never ends a session.  A session that is not over makes
\* way for nothing but a call of the same computer, or the end of the service.
DisplacedByOwnCall ==
  [][\A n \in Computers :
       LET old == session[n]
           new == session'[n]
       IN old # NoSession /\ new # old /\ end[old] \notin Over =>
            \/ service'[n] \in {"Stopped", "Exited"}
            \/ new # NoSession /\ new[2] = "out"]_vars

\* After stop() nobody can call in.  Only a call that was being dialled can
\* still bring a session, and the end of the process takes that one too.
NoGuestsAfterStop ==
  \A e \in Ends : end[e] \in SocketOpen =>
    /\ service[Owner(e)] = "Stopped" => e[2] = "out"
    /\ service[Owner(e)] # "Exited"

\* Calls settle: in the end the two computers of a call agree whether it has a
\* session, although dials cross, sessions displace each other, a full manager
\* destroys the socket after the caller has its session, computers quit and
\* closed sessions come back to life.
CallsSettle ==
  \A c \in Calls :
    <>[](end[<<c, "out">>] \in SocketOpen <=> end[<<c, "in">>] \in SocketOpen)

=============================================================================
