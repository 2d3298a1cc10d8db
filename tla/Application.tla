----------------------------- MODULE Application -----------------------------
(***************************************************************************)
(* The application from its start to its end: index.ts, the service that   *)
(* ConnectivityFacade.ts builds step by step, the search of both servers   *)
(* for a free port (ControlServer.ts, DiagnosticsHttpServer.ts), the       *)
(* identity on disk (DeviceIdentity.ts) and what the window is told.       *)
(*                                                                         *)
(* Nothing keeps a user from starting the application twice, so several    *)
(* instances of it share a computer: the identity file, which is an        *)
(* AtomicJsonStore with one writing call for each instance, and the ports. *)
(*                                                                         *)
(* start() is one action for each await; stop() may come between any two.  *)
(* Sessions are left out (ConnectionManager), trust and configuration      *)
(* count only as far as reading them may fail.                             *)
(***************************************************************************)
EXTENDS AtomicJsonStore

CONSTANTS
  LastPort,       \* ports 1 .. LastPort are tried (eleven in the code)
  Used,           \* bound: instances with a user, the others start and are killed
  MaxStarts,      \* bound: starts of all instances together
  MaxOthers,      \* bound: ports other programs hold
  MaxOperations,  \* bound: what all users do together
  MayFail         \* bound: instances for which what can fail may fail

ASSUME ApplicationAssumption ==
  /\ LastPort \in Nat \ {0}
  /\ MaxStarts \in Nat /\ MaxOthers \in Nat /\ MaxOperations \in Nat
  /\ Used \subseteq Calls
  /\ 1 .. MaxStarts \subseteq Value
  /\ MayFail \subseteq Calls

Instances == Calls
Ports == 1 .. LastPort
Kinds == {"control", "diagnostics"}
Nobody == "Nobody"     \* holds a free port
Other == "Other"       \* another program

ASSUME HolderAssumption == {Nobody, Other} \cap Instances = {}

VARIABLES
  app,         \* app[i]: the process of the instance i, see New
  held,        \* held[k][p]: who listens on the port p of the kind k
  keys,        \* key pairs generated so far
  starts, operations,
  shown,       \* history: identities an instance has worked under
  raced        \* history: an instance found no identity while another was
               \* writing the first one

rest == <<held, keys, starts, operations, shown, raced>>
vars == <<storeVars, app, rest>>

NoView == [service |-> "None"]

New ==
  [step |-> "Off",                 \* the await start() is at
   service |-> "Starting",         \* #serviceState
   identity |-> 0,                 \* #identity, 0 for none
   trial |-> 0,                    \* port a server is about to try
   port |-> [k \in Kinds |-> 0],   \* #port of both servers, 0 for none
   announced |-> 0,                \* control port handed to discovery
   discovery |-> "None",
   error |-> "None",               \* #lastOperationError
   pending |-> 0,                  \* operations that wait
   view |-> NoView,                \* the snapshot the window has
   stop |-> "No",                  \* the await stop() is at
   cutShort |-> FALSE,             \* history: stop came before the start had ended
   dismissed |-> FALSE,            \* history: disconnect was refused
   mishap |-> FALSE]               \* history: the last call of the start failed

\* Other programs hold some ports, for good.
Init ==
  /\ StoreInit
  /\ app = [i \in Instances |-> New]
  /\ held \in [Kinds -> [Ports -> {Nobody, Other}]]
  /\ Cardinality({h \in Kinds \X Ports : held[h[1]][h[2]] = Other}) <= MaxOthers
  /\ keys = 0 /\ starts = 0 /\ operations = 0
  /\ shown = {}
  /\ raced = FALSE

-----------------------------------------------------------------------------
(* The snapshot                                                            *)

\* The fields that the start, the end and operations change.
Snapshot(a) ==
  [service |-> a.service, error |-> a.error,
   controlPort |-> a.port["control"], diagnosticsPort |-> a.port["diagnostics"]]

\* notifyListeners: a page that is not there yet misses it, and so does every
\* page once the handlers are removed.
Notified(a) ==
  IF a.view = NoView \/ a.stop # "No" THEN a ELSE [a EXCEPT !.view = Snapshot(a)]

\* The page asks for the snapshot when it is mounted, also after a reload.
Mount(i) ==
  LET a == app[i] IN
  /\ i \in Used /\ a.step # "Off" /\ a.stop = "No"
  /\ app' = [app EXCEPT ![i] = [a EXCEPT !.view = Snapshot(a)]]
  /\ UNCHANGED <<storeVars, rest>>

-----------------------------------------------------------------------------
(* The start                                                               *)

Launch(i) ==
  /\ app[i].step = "Off" /\ starts < MaxStarts
  /\ app' = [app EXCEPT ![i] = [New EXCEPT !.step = "ReadIdentity"]]
  /\ starts' = starts + 1
  /\ UNCHANGED <<storeVars, held, keys, operations, shown, raced>>

\* Slip: the window is not told.
FailedSilently(a) ==
  [a EXCEPT !.step = "Ended", !.service = "Failed", !.error = "Start"]

\* The catch of start: what was opened before stays open.
Failed(a) ==
  Notified([a EXCEPT !.step = "Ended", !.service = "Failed", !.error = "Start"])

\* The identity is there, and the trust store is asked to load.
Identified(a, key) == [a EXCEPT !.identity = key, !.step = "LoadTrust"]

\* Slip: the new identity is used while it is still being written.
CreateAtOnce(i, key) ==
  /\ Write(i, key)
  /\ app' = [app EXCEPT ![i] = [@ EXCEPT !.step = "WriteIdentity"]]
  /\ shown' = shown \cup {key}

\* loadOrCreate without a file: the key pair is written before it is used.
Create(i, key) ==
  /\ Write(i, key)
  /\ app' = [app EXCEPT ![i] = [@ EXCEPT !.step = "WriteIdentity"]]
  /\ UNCHANGED shown

\* loadOrCreate, up to the await of the write.
ReadIdentity(i) ==
  /\ app[i].step = "ReadIdentity"
  /\ UNCHANGED <<held, starts, operations>>
  /\ \/ /\ Found.state = "Missing"
        /\ keys' = keys + 1
        /\ Create(i, keys')
        /\ raced' = (raced \/ \E j \in Instances : app[j].step = "WriteIdentity")
     \/ /\ Found.state = "Whole"
        /\ app' = [app EXCEPT ![i] = Identified(@, Found.value)]
        /\ shown' = shown \cup {Found.value}
        /\ UNCHANGED <<storeVars, keys, raced>>
     \/ /\ Found.state \in {"Empty", "Torn"}
        /\ app' = [app EXCEPT ![i] = Failed(@)]
        /\ UNCHANGED <<storeVars, keys, shown, raced>>

\* The write is over.
IdentityWritten(i) ==
  LET written == call[i] = "Done" IN
  /\ app[i].step = "WriteIdentity"
  /\ Return(i)
  /\ app' = [app EXCEPT ![i] = IF written THEN Identified(@, value[i]) ELSE Failed(@)]
  /\ shown' = IF written THEN shown \cup {value[i]} ELSE shown
  /\ UNCHANGED <<held, keys, starts, operations, raced>>

\* PairedPeerStore.load; then the control server is created and asked to start.
LoadTrust(i) ==
  /\ app[i].step = "LoadTrust"
  /\ app' = [app EXCEPT ![i] = [@ EXCEPT !.step = "control", !.trial = 1]]
  /\ UNCHANGED <<storeVars, rest>>

\* Slip: discovery is told the preferred port.
OpenedAtPreferred(a, k, p) ==
  IF k = "control"
  THEN [a EXCEPT !.port = [@ EXCEPT ![k] = p], !.announced = 1,
                 !.step = "diagnostics", !.trial = 1]
  ELSE [a EXCEPT !.port = [@ EXCEPT ![k] = p], !.discovery = "Binding",
                 !.step = "Bind", !.trial = 0]

\* A server listens, and start goes on to its next await: the control server
\* is followed by the diagnostics server, and this one by discovery.
Opened(a, k, p) ==
  IF k = "control"
  THEN [a EXCEPT !.port = [@ EXCEPT ![k] = p], !.announced = p,
                 !.step = "diagnostics", !.trial = 1]
  ELSE [a EXCEPT !.port = [@ EXCEPT ![k] = p], !.discovery = "Binding",
                 !.step = "Bind", !.trial = 0]

\* Slip: the last port is not tried.
LastTrialTooSoon(a) == a.trial >= LastPort - 1

LastTrial(a) == a.trial = LastPort

TriesNext(a) == [a EXCEPT !.trial = @ + 1]

\* start of a server: one port after the other, whatever the error, until one
\* can be had.
Listen(i, k) ==
  LET a == app[i] IN
  /\ a.step = k
  /\ \/ /\ held[k][a.trial] = Nobody
        /\ held' = [held EXCEPT ![k] = [@ EXCEPT ![a.trial] = i]]
        /\ app' = [app EXCEPT ![i] = Opened([a EXCEPT !.mishap = FALSE], k, a.trial)]
     \/ LET b == [a EXCEPT !.mishap = @ \/ held[k][a.trial] = Nobody] IN
        /\ held[k][a.trial] # Nobody \/ i \in MayFail
        /\ app' = [app EXCEPT ![i] = IF LastTrial(a) THEN Failed(b) ELSE TriesNext(b)]
        /\ UNCHANGED held
  /\ UNCHANGED <<storeVars, keys, starts, operations, shown, raced>>

\* DiscoveryService.start ends, and with it the start.
Bind(i) ==
  /\ app[i].step = "Bind"
  /\ app' = [app EXCEPT ![i] =
       Notified([@ EXCEPT !.discovery = "Running", !.step = "Ended", !.service = "Ready"])]
  /\ UNCHANGED <<storeVars, rest>>

\* The trust store or the discovery socket fails.
StartMishap(i) ==
  LET a == app[i]
      discovery == IF a.discovery = "Binding" THEN "Stopped" ELSE a.discovery
  IN
  /\ i \in MayFail
  /\ a.step \in {"LoadTrust", "Bind"}
  /\ app' = [app EXCEPT ![i] = Failed([a EXCEPT !.discovery = discovery, !.mishap = TRUE])]
  /\ UNCHANGED <<storeVars, rest>>

\* An error of the discovery socket stops discovery, and nothing else.
SocketError(i) ==
  /\ i \in MayFail /\ app[i].discovery = "Running"
  /\ app' = [app EXCEPT ![i] = Notified([@ EXCEPT !.discovery = "Stopped"])]
  /\ UNCHANGED <<storeVars, rest>>

-----------------------------------------------------------------------------
(* What the user does                                                      *)

\* The page is there and the handlers are installed.
Operates(i) ==
  /\ app[i].view # NoView /\ app[i].stop = "No"
  /\ operations < MaxOperations
  /\ operations' = operations + 1
  /\ UNCHANGED <<storeVars, held, keys, starts, shown, raced>>

Refused(a) == Notified([a EXCEPT !.error = "Operation"])

\* performOperation, up to the first await of the operation: it is refused
\* (not ready, nothing to connect to), done at once, or waits.  A refresh is
\* offered by a ready service only, the other operations look for themselves.
Perform(i) ==
  LET a == app[i] IN
  /\ Operates(i)
  /\ \/ app' = [app EXCEPT ![i] = Refused(a)]
     \/ /\ a.service = "Ready"
        /\ app' = [app EXCEPT ![i] = Notified([a EXCEPT !.error = "None"])]
     \/ /\ a.service = "Ready"
        /\ app' = [app EXCEPT ![i] = [a EXCEPT !.error = "None", !.pending = @ + 1]]

Success(a) == [a EXCEPT !.pending = @ - 1]

\* The operation was waiting for a socket, a file, a peer.
OperationEnds(i) ==
  LET a == app[i] IN
  /\ a.pending > 0
  /\ \/ app' = [app EXCEPT ![i] = Notified(Success(a))]
     \/ app' = [app EXCEPT ![i] = Notified([Success(a) EXCEPT !.error = "Operation"])]
  /\ UNCHANGED <<storeVars, rest>>

\* disconnect clears the error first; a service that is not ready then refuses,
\* without telling the window.
Disconnect(i) ==
  /\ Operates(i)
  /\ app' = [app EXCEPT ![i] =
       IF @.service = "Ready"
       THEN Notified([@ EXCEPT !.error = "None"])
       ELSE [@ EXCEPT !.error = "None", !.dismissed = TRUE]]

-----------------------------------------------------------------------------
(* The end                                                                 *)

\* The ports of one kind, or of all, that an instance gives back.
Released(i, kinds) ==
  [k \in Kinds |-> [p \in Ports |-> IF k \in kinds /\ held[k][p] = i THEN Nobody ELSE held[k][p]]]

\* Slip: the diagnostics server is forgotten, not closed.
DiagnosticsForgotten(i, a) ==
  /\ app' = [app EXCEPT ![i] =
       [a EXCEPT !.port = [@ EXCEPT !["diagnostics"] = 0],
                 !.service = "Starting", !.stop = "Ended"]]
  /\ held' = Released(i, {"control"})

\* The second half of stop.
DiagnosticsClosed(i, a) ==
  /\ app' = [app EXCEPT ![i] =
       [a EXCEPT !.port = [@ EXCEPT !["diagnostics"] = 0],
                 !.service = "Starting", !.stop = "Ended"]]
  /\ held' = Released(i, Kinds)

\* before-quit: the handlers are removed and the listeners let go, discovery
\* ends, and the control server, if it is there, closes and is waited for.  A
\* start that waits for the discovery socket waits for ever, any other goes on.
Quit(i) ==
  LET a == [app[i] EXCEPT !.discovery = IF @ = "None" THEN "None" ELSE "Stopped",
                          !.step = IF @ = "Bind" THEN "Stuck" ELSE @,
                          !.cutShort = app[i].step # "Ended"]
  IN /\ i \in Used /\ app[i].step # "Off" /\ app[i].stop = "No"
     /\ IF a.port["control"] = 0
        THEN DiagnosticsClosed(i, a)
        ELSE /\ app' = [app EXCEPT ![i] = [a EXCEPT !.port = [@ EXCEPT !["control"] = 0],
                                                          !.stop = "Closing"]]
             /\ held' = Released(i, {"control"})
     /\ UNCHANGED <<storeVars, keys, starts, operations, shown, raced>>

\* The last control connection is gone.
ControlClosed(i) ==
  /\ app[i].stop = "Closing"
  /\ DiagnosticsClosed(i, app[i])
  /\ UNCHANGED <<storeVars, keys, starts, operations, shown, raced>>

\* The process ends, after stop or at any other moment.
Exit(i) ==
  /\ app[i].step # "Off"
  /\ app' = [app EXCEPT ![i] = New]
  /\ held' = Released(i, Kinds)
  /\ EndCallsOf({i})
  /\ UNCHANGED <<keys, starts, operations, shown, raced>>

\* A file operation fails, and with it the start.
FileFails(i) ==
  /\ i \in MayFail
  /\ FailFileOperation(i)
  /\ app' = [app EXCEPT ![i] = [@ EXCEPT !.mishap = TRUE]]
  /\ UNCHANGED rest

-----------------------------------------------------------------------------

Next ==
  \E i \in Instances :
    \/ Launch(i) \/ ReadIdentity(i) \/ IdentityWritten(i) \/ LoadTrust(i)
    \/ Listen(i, "control") \/ Listen(i, "diagnostics") \/ Bind(i)
    \/ StartMishap(i) \/ SocketError(i) \/ Mount(i)
    \/ Perform(i) \/ OperationEnds(i) \/ Disconnect(i)
    \/ Quit(i) \/ ControlClosed(i) \/ Exit(i)
    \/ FileOperation(i) /\ UNCHANGED <<app, rest>>
    \/ FileFails(i)

Spec == Init /\ [][Next]_vars


-----------------------------------------------------------------------------
(* Properties                                                              *)

Services == {"Starting", "Ready", "Failed"}
Errors == {"None", "Start", "Operation"}

Views ==
  {NoView} \cup [service : Services, error : Errors,
                 controlPort : {0} \cup Ports, diagnosticsPort : {0} \cup Ports]

AppStates ==
  [step : {"Off", "ReadIdentity", "WriteIdentity", "LoadTrust", "control", "diagnostics",
           "Bind", "Ended", "Stuck"},
   service : Services,
   identity : {0} \cup Value,
   trial : {0} \cup Ports,
   port : [Kinds -> {0} \cup Ports],
   announced : {0} \cup Ports,
   discovery : {"None", "Binding", "Running", "Stopped"},
   error : Errors,
   pending : 0 .. MaxOperations,
   view : Views,
   stop : {"No", "Closing", "Ended"},
   cutShort : BOOLEAN, dismissed : BOOLEAN, mishap : BOOLEAN]

TypeOK ==
  /\ StoreTypeOK
  /\ app \in [Instances -> AppStates]
  /\ held \in [Kinds -> [Ports -> Instances \cup {Nobody, Other}]]
  /\ keys \in 0 .. MaxStarts /\ starts \in 0 .. MaxStarts /\ operations \in 0 .. MaxOperations
  /\ shown \subseteq Value
  /\ raced \in BOOLEAN

\* Every start works under the identity of the first one, however processes
\* end and file operations fail (loadOrCreate).  Only two instances that were
\* both started on a computer without an identity can differ.
IdentityKept == ~raced => Cardinality(shown) <= 1

\* A ready service listens on the two ports it shows, and discovery announces
\* the one that is open, whoever else looks for ports (start, ControlServer).
ReadyServes ==
  \A i \in Instances : app[i].service = "Ready" /\ app[i].stop = "No" =>
    /\ \A k \in Kinds : app[i].port[k] # 0 /\ held[k][app[i].port[k]] = i
    /\ app[i].discovery = "Running" => app[i].announced = app[i].port["control"]

\* A start fails for a reason: something it called failed, or enough other
\* programs and instances were there to have had every port (a port given back
\* behind the search is not looked at again, so instances that are gone count
\* too).  Files cut off by a process that ended are no reason.
FailsForAReason ==
  \A i \in Instances : app[i].service = "Failed" /\ ~app[i].mishap /\ ~raced =>
    \E k \in Kinds : Cardinality({p \in Ports : held[k][p] = Other}) + starts > LastPort

\* stop closes whatever the start had opened, also when it had failed half-way.
\* A start that is still going on opens the rest after stop.
ClosedAfterStop ==
  \A i \in Instances : app[i].stop = "Ended" /\ ~app[i].cutShort =>
    /\ \A k \in Kinds, p \in Ports : held[k][p] # i
    /\ app[i].discovery # "Running"

\* Once the start has ended the window shows what is: every change is followed
\* by a notification.  Only the clearing of an error may be seen later, when
\* the operation that cleared it ends or after disconnect was refused.
WindowCurrent ==
  \A i \in Instances :
    LET a == app[i] IN
    a.step = "Ended" /\ a.stop = "No" /\ a.view # NoView =>
      \/ a.view = Snapshot(a)
      \/ /\ a.error = "None" /\ (a.pending > 0 \/ a.dismissed)
         /\ [a.view EXCEPT !.error = "None"] = Snapshot(a)

\* A service that failed says so with an error, whatever its user tries in
\* vain, until disconnect clears the error and is refused.
FailedSaysWhy ==
  \A i \in Instances :
    app[i].service = "Failed" /\ ~app[i].dismissed => app[i].error # "None"

\* The user is told what goes on, and why when nothing does.
UserIsTold == WindowCurrent /\ FailedSaysWhy

=============================================================================
