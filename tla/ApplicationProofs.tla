------------------------- MODULE ApplicationProofs -------------------------
(***************************************************************************)
(* The application from start to end, for any number of instances, ports,  *)
(* starts and operations: what a ready service holds, what stop leaves     *)
(* behind, what the window is told, which identity is used and when a      *)
(* start may fail.                                                         *)
(*                                                                         *)
(* A step changes the record of one instance.  The first part says what    *)
(* each update of such a record keeps and what it changes; the invariants  *)
(* are then proved from these descriptions.                                *)
(***************************************************************************)
EXTENDS Application, AtomicJsonStoreProofs

-----------------------------------------------------------------------------
(* Records of instances                                                    *)

LEMMA PortFacts ==
  /\ LastPort \in Nat /\ LastPort \in Ports /\ 1 \in Ports /\ 0 \notin Ports
  /\ Ports \subseteq Nat
  /\ \A p \in Ports : p # LastPort => p + 1 \in Ports
  /\ \A p \in Ports : 1 <= p /\ p <= LastPort
  BY ApplicationAssumption DEF Ports

LEMMA HolderFacts ==
  \A i \in Instances : i # Nobody /\ i # Other
  BY HolderAssumption

LEMMA KindFacts ==
  "control" \in Kinds /\ "diagnostics" \in Kinds
  BY DEF Kinds

Steppings ==
  {"Off", "ReadIdentity", "WriteIdentity", "LoadTrust", "control", "diagnostics",
   "Bind", "Ended", "Stuck"}

\* One field at a time a record keeps its type.
LEMMA FieldTypes ==
  ASSUME NEW a \in AppStates
  PROVE  /\ \A x \in Steppings : [a EXCEPT !.step = x] \in AppStates
         /\ \A x \in Services : [a EXCEPT !.service = x] \in AppStates
         /\ \A x \in Errors : [a EXCEPT !.error = x] \in AppStates
         /\ \A x \in Value : [a EXCEPT !.identity = x] \in AppStates
         /\ \A x \in {0} \cup Ports : [a EXCEPT !.trial = x] \in AppStates
         /\ \A x \in {0} \cup Ports : [a EXCEPT !.announced = x] \in AppStates
         /\ \A x \in [Kinds -> {0} \cup Ports] : [a EXCEPT !.port = x] \in AppStates
         /\ \A x \in {"None", "Binding", "Running", "Stopped"} :
              [a EXCEPT !.discovery = x] \in AppStates
         /\ \A x \in 0 .. MaxOperations : [a EXCEPT !.pending = x] \in AppStates
         /\ \A x \in Views : [a EXCEPT !.view = x] \in AppStates
         /\ \A x \in {"No", "Closing", "Ended"} : [a EXCEPT !.stop = x] \in AppStates
         /\ \A x \in BOOLEAN : [a EXCEPT !.cutShort = x] \in AppStates
         /\ \A x \in BOOLEAN : [a EXCEPT !.dismissed = x] \in AppStates
         /\ \A x \in BOOLEAN : [a EXCEPT !.mishap = x] \in AppStates
<1>1. \A x \in Steppings : [a EXCEPT !.step = x] \in AppStates
  BY DEF AppStates, Steppings
<1>2. \A x \in Services : [a EXCEPT !.service = x] \in AppStates
  BY DEF AppStates
<1>3. \A x \in Errors : [a EXCEPT !.error = x] \in AppStates
  BY DEF AppStates
<1>4. \A x \in Value : [a EXCEPT !.identity = x] \in AppStates
  BY DEF AppStates
<1>5. \A x \in {0} \cup Ports : [a EXCEPT !.trial = x] \in AppStates
  BY DEF AppStates
<1>6. \A x \in {0} \cup Ports : [a EXCEPT !.announced = x] \in AppStates
  BY DEF AppStates
<1>7. \A x \in [Kinds -> {0} \cup Ports] : [a EXCEPT !.port = x] \in AppStates
  BY DEF AppStates
<1>8. \A x \in {"None", "Binding", "Running", "Stopped"} :
        [a EXCEPT !.discovery = x] \in AppStates
  BY DEF AppStates
<1>9. \A x \in 0 .. MaxOperations : [a EXCEPT !.pending = x] \in AppStates
  BY DEF AppStates
<1>10. \A x \in Views : [a EXCEPT !.view = x] \in AppStates
  BY DEF AppStates
<1>11. \A x \in {"No", "Closing", "Ended"} : [a EXCEPT !.stop = x] \in AppStates
  BY DEF AppStates
<1>12. \A x \in BOOLEAN : [a EXCEPT !.cutShort = x] \in AppStates
  BY DEF AppStates
<1>13. \A x \in BOOLEAN : [a EXCEPT !.dismissed = x] \in AppStates
  BY DEF AppStates
<1>14. \A x \in BOOLEAN : [a EXCEPT !.mishap = x] \in AppStates
  BY DEF AppStates
<1> QED
  BY <1>1, <1>2, <1>3, <1>4, <1>5, <1>6, <1>7, <1>8, <1>9, <1>10, <1>11, <1>12, <1>13, <1>14

\* The types of the fields.
LEMMA FieldsOf ==
  ASSUME NEW a \in AppStates
  PROVE  /\ a.step \in Steppings /\ a.service \in Services /\ a.error \in Errors
         /\ a.trial \in {0} \cup Ports /\ a.announced \in {0} \cup Ports
         /\ a.port \in [Kinds -> {0} \cup Ports]
         /\ a.discovery \in {"None", "Binding", "Running", "Stopped"}
         /\ a.pending \in 0 .. MaxOperations /\ a.view \in Views
         /\ a.stop \in {"No", "Closing", "Ended"}
         /\ a.cutShort \in BOOLEAN /\ a.dismissed \in BOOLEAN /\ a.mishap \in BOOLEAN
  BY DEF AppStates, Steppings

LEMMA NewType ==
  /\ New \in AppStates
  /\ [New EXCEPT !.step = "ReadIdentity"] \in AppStates
<1>1. NoView \in Views
  BY DEF Views
<1>2. New \in AppStates
  BY <1>1, PortFacts, ApplicationAssumption DEF AppStates, New, Services, Errors
<1> QED
  BY <1>2, FieldTypes DEF Steppings

LEMMA SnapshotType ==
  ASSUME NEW a \in AppStates
  PROVE  Snapshot(a) \in Views /\ Snapshot(a) # NoView
<1>1. Snapshot(a) \in Views
  BY KindFacts, FieldsOf DEF Snapshot, Views
<1>2. Snapshot(a).service # "None"
  BY FieldsOf DEF Snapshot, Services
<1> QED
  BY <1>1, <1>2 DEF NoView

\* What happens to an instance, where it is not a matter of what it shows.
SamePlace(a, b) ==
  /\ b.step = a.step /\ b.trial = a.trial /\ b.port = a.port /\ b.announced = a.announced
  /\ b.stop = a.stop /\ b.cutShort = a.cutShort /\ b.mishap = a.mishap
SameTalk(a, b) ==
  b.error = a.error /\ b.pending = a.pending /\ b.view = a.view /\ b.dismissed = a.dismissed

\* A notification changes the view alone.
Tells(a, b) ==
  /\ a.view = NoView => b.view = NoView
  /\ a.view # NoView /\ a.stop = "No" => b.view = Snapshot(b)

LEMMA NotifiedKeeps ==
  ASSUME NEW a \in AppStates
  PROVE  LET b == Notified(a) IN
         /\ b \in AppStates /\ SamePlace(a, b) /\ Tells(a, b)
         /\ b.service = a.service /\ b.discovery = a.discovery
         /\ b.error = a.error /\ b.pending = a.pending /\ b.dismissed = a.dismissed
         /\ Snapshot(b) = Snapshot(a)
<1>1. CASE a.view = NoView \/ a.stop # "No"
  BY <1>1 DEF Notified, SamePlace, Tells
<1>2. CASE ~(a.view = NoView \/ a.stop # "No")
  <2> DEFINE b == [a EXCEPT !.view = Snapshot(a)]
  <2>1. Notified(a) = b
    BY <1>2 DEF Notified
  <2>2. b \in AppStates
    BY SnapshotType, FieldTypes
  <2>3. /\ b.view = Snapshot(a)
        /\ b.step = a.step /\ b.trial = a.trial /\ b.port = a.port /\ b.announced = a.announced
        /\ b.stop = a.stop /\ b.cutShort = a.cutShort /\ b.mishap = a.mishap
        /\ b.service = a.service /\ b.discovery = a.discovery
        /\ b.error = a.error /\ b.pending = a.pending /\ b.dismissed = a.dismissed
    BY DEF AppStates
  <2> HIDE DEF b
  <2>4. Snapshot(b) = Snapshot(a)
    BY <2>3 DEF Snapshot
  <2> QED
    BY <1>2, <2>1, <2>2, <2>3, <2>4 DEF SamePlace, Tells
<1> QED
  BY <1>1, <1>2

\* The catch of start.
LEMMA FailedKeeps ==
  ASSUME NEW a \in AppStates
  PROVE  LET b == Failed(a) IN
         /\ b \in AppStates /\ Tells(a, b)
         /\ b.step = "Ended" /\ b.service = "Failed" /\ b.error = "Start"
         /\ b.port = a.port /\ b.announced = a.announced /\ b.discovery = a.discovery
         /\ b.stop = a.stop /\ b.cutShort = a.cutShort /\ b.mishap = a.mishap
         /\ b.pending = a.pending /\ b.dismissed = a.dismissed
<1> DEFINE c == [a EXCEPT !.step = "Ended", !.service = "Failed", !.error = "Start"]
<1>1. /\ c.step = "Ended" /\ c.service = "Failed" /\ c.error = "Start"
      /\ c.port = a.port /\ c.announced = a.announced /\ c.discovery = a.discovery
      /\ c.stop = a.stop /\ c.cutShort = a.cutShort /\ c.mishap = a.mishap
      /\ c.pending = a.pending /\ c.dismissed = a.dismissed /\ c.view = a.view
  BY DEF AppStates
<1>2. c \in AppStates
  <2>1. [a EXCEPT !.step = "Ended"] \in AppStates
    BY FieldTypes DEF Steppings
  <2>2. [[a EXCEPT !.step = "Ended"] EXCEPT !.service = "Failed"] \in AppStates
    BY <2>1, FieldTypes DEF Services
  <2>3. [[[a EXCEPT !.step = "Ended"] EXCEPT !.service = "Failed"] EXCEPT !.error = "Start"]
          \in AppStates
    BY <2>2, FieldTypes DEF Errors
  <2>4. c = [[[a EXCEPT !.step = "Ended"] EXCEPT !.service = "Failed"] EXCEPT !.error = "Start"]
    OBVIOUS
  <2> QED
    BY <2>3, <2>4
<1>3. Failed(a) = Notified(c)
  BY DEF Failed
<1> HIDE DEF c
<1> QED
  BY <1>1, <1>2, <1>3, NotifiedKeeps DEF SamePlace, Tells

-----------------------------------------------------------------------------
(* Actions                                                                 *)

\* The record of i alone has changed.
Only(i) ==
  /\ app' \in [Instances -> AppStates]
  /\ \A j \in Instances \ {i} : app'[j] = app[j]

LEMMA Moves ==
  ASSUME app \in [Instances -> AppStates], NEW i \in Instances, NEW b \in AppStates,
         app' = [app EXCEPT ![i] = b]
  PROVE  Only(i) /\ app'[i] = b /\ app[i] \in AppStates
  BY DEF Only

\* What the window and the operations of a user do.
Talks(a, b) ==
  /\ SamePlace(a, b) /\ b.service = a.service /\ b.discovery \in {a.discovery, "Stopped"}
  /\ \/ /\ Tells(a, b) /\ b.dismissed = a.dismissed
        /\ b.error \in {a.error, "Operation"} \/ a.service = "Ready"
     \/ b.view = Snapshot(b) /\ b.error = a.error /\ b.dismissed = a.dismissed
     \/ /\ b.error = "None" /\ b.view = a.view
        /\ \/ a.service = "Ready" /\ b.pending > 0 /\ b.dismissed = a.dismissed
           \/ b.dismissed

\* A start that fails.
Fails(a, b) ==
  /\ b.step = "Ended" /\ b.service = "Failed" /\ b.error = "Start" /\ Tells(a, b)
  /\ b.port = a.port /\ b.announced = a.announced /\ b.stop = a.stop
  /\ b.cutShort = a.cutShort /\ b.pending = a.pending /\ b.dismissed = a.dismissed
  /\ b.discovery \in {a.discovery, "Stopped"}

\* A start that goes on, with nothing opened.
Proceeds(a, b) ==
  /\ b.service = a.service /\ b.port = a.port /\ b.announced = a.announced
  /\ b.stop = a.stop /\ b.cutShort = a.cutShort /\ b.discovery = a.discovery
  /\ SameTalk(a, b)

LEMMA MountEffect ==
  ASSUME TypeOK, NEW i \in Instances, Mount(i)
  PROVE  Only(i) /\ Talks(app[i], app'[i]) /\ app'[i].pending = app[i].pending
<1> DEFINE a == app[i]
           b == [a EXCEPT !.view = Snapshot(a)]
<1>1. app \in [Instances -> AppStates] /\ a \in AppStates
  BY DEF TypeOK
<1>2. app' = [app EXCEPT ![i] = b]
  BY DEF Mount
<1>3. b \in AppStates
  BY <1>1, SnapshotType, FieldTypes
<1>4. /\ b.view = Snapshot(a) /\ SamePlace(a, b) /\ b.service = a.service
      /\ b.discovery = a.discovery /\ b.error = a.error /\ b.pending = a.pending
      /\ b.dismissed = a.dismissed
  BY <1>1 DEF AppStates, SamePlace
<1> HIDE DEF b
<1>5. Snapshot(b) = Snapshot(a)
  BY <1>4 DEF Snapshot, SamePlace
<1>6. Only(i) /\ app'[i] = b
  BY <1>1, <1>2, <1>3, Moves
<1> QED
  BY <1>4, <1>5, <1>6 DEF Talks

LEMMA SocketErrorEffect ==
  ASSUME TypeOK, NEW i \in Instances, SocketError(i)
  PROVE  Only(i) /\ Talks(app[i], app'[i]) /\ app'[i].pending = app[i].pending
<1> DEFINE a == app[i]
           c == [a EXCEPT !.discovery = "Stopped"]
           b == Notified(c)
<1>1. app \in [Instances -> AppStates] /\ a \in AppStates
  BY DEF TypeOK
<1>2. app' = [app EXCEPT ![i] = b]
  BY DEF SocketError
<1>3. c \in AppStates
  BY <1>1, FieldTypes
<1>4. /\ SamePlace(a, c) /\ SameTalk(a, c) /\ c.service = a.service
      /\ c.discovery = "Stopped"
  BY <1>1 DEF AppStates, SamePlace, SameTalk
<1> HIDE DEF c
<1>5. /\ b \in AppStates /\ SamePlace(c, b) /\ Tells(c, b)
      /\ b.service = c.service /\ b.discovery = c.discovery
      /\ b.error = c.error /\ b.pending = c.pending /\ b.dismissed = c.dismissed
  BY <1>3, NotifiedKeeps
<1> HIDE DEF b
<1>6. Only(i) /\ app'[i] = b
  BY <1>1, <1>2, <1>5, Moves
<1> QED
  BY <1>4, <1>5, <1>6 DEF Talks, Tells, SamePlace, SameTalk

LEMMA PerformEffect ==
  ASSUME TypeOK, NEW i \in Instances, app[i].pending <= operations, Perform(i)
  PROVE  Only(i) /\ Talks(app[i], app'[i]) /\ app'[i].pending <= operations'
<1> DEFINE a == app[i]
<1>1. app \in [Instances -> AppStates] /\ a \in AppStates /\ operations \in Nat
      /\ a.pending \in Nat
  BY FieldsOf DEF TypeOK
<1>2. operations' = operations + 1 /\ operations < MaxOperations /\ MaxOperations \in Nat
  BY ApplicationAssumption DEF Perform, Operates
<1>3. CASE app' = [app EXCEPT ![i] = Refused(a)]
  <2> DEFINE c == [a EXCEPT !.error = "Operation"]
             b == Notified(c)
  <2>1. c \in AppStates
    BY <1>1, FieldTypes DEF Errors
  <2>2. /\ SamePlace(a, c) /\ c.view = a.view /\ c.service = a.service
        /\ c.discovery = a.discovery /\ c.error = "Operation" /\ c.pending = a.pending
        /\ c.dismissed = a.dismissed
    BY <1>1 DEF AppStates, SamePlace
  <2>0. app' = [app EXCEPT ![i] = b]
    BY <1>3 DEF Refused
  <2> HIDE DEF c
  <2>3. /\ b \in AppStates /\ SamePlace(c, b) /\ Tells(c, b)
        /\ b.service = c.service /\ b.discovery = c.discovery
        /\ b.error = c.error /\ b.pending = c.pending /\ b.dismissed = c.dismissed
    BY <2>1, NotifiedKeeps
  <2> HIDE DEF b
  <2>4. Only(i) /\ app'[i] = b
    BY <1>1, <2>0, <2>3, Moves
  <2> QED
    BY <1>1, <1>2, <2>2, <2>3, <2>4 DEF Talks, Tells, SamePlace
<1>4. CASE a.service = "Ready" /\ app' = [app EXCEPT ![i] = Notified([a EXCEPT !.error = "None"])]
  <2> DEFINE c == [a EXCEPT !.error = "None"]
             b == Notified(c)
  <2>1. c \in AppStates
    BY <1>1, FieldTypes DEF Errors
  <2>2. /\ SamePlace(a, c) /\ c.view = a.view /\ c.service = a.service
        /\ c.discovery = a.discovery /\ c.pending = a.pending
        /\ c.dismissed = a.dismissed
    BY <1>1 DEF AppStates, SamePlace
  <2>0. app' = [app EXCEPT ![i] = b]
    BY <1>4
  <2> HIDE DEF c
  <2>3. /\ b \in AppStates /\ SamePlace(c, b) /\ Tells(c, b)
        /\ b.service = c.service /\ b.discovery = c.discovery
        /\ b.pending = c.pending /\ b.dismissed = c.dismissed
    BY <2>1, NotifiedKeeps
  <2> HIDE DEF b
  <2>4. Only(i) /\ app'[i] = b
    BY <1>1, <2>0, <2>3, Moves
  <2> QED
    BY <1>1, <1>2, <1>4, <2>2, <2>3, <2>4 DEF Talks, Tells, SamePlace
<1>5. CASE /\ a.service = "Ready"
           /\ app' = [app EXCEPT ![i] = [a EXCEPT !.error = "None", !.pending = @ + 1]]
  <2> DEFINE c == [a EXCEPT !.error = "None"]
             b == [c EXCEPT !.pending = a.pending + 1]
  <2>1. c \in AppStates
    BY <1>1, FieldTypes DEF Errors
  <2>2. a.pending + 1 \in 0 .. MaxOperations
    BY <1>1, <1>2
  <2>3. b \in AppStates
    <3> HIDE DEF c
    <3> QED
      BY <2>1, <2>2, FieldTypes
  <2>4. /\ SamePlace(a, b) /\ b.view = a.view /\ b.service = a.service
        /\ b.discovery = a.discovery /\ b.pending = a.pending + 1
        /\ b.dismissed = a.dismissed /\ b.error = "None"
    BY <1>1 DEF AppStates, SamePlace
  <2>0. app' = [app EXCEPT ![i] = b]
    BY <1>5
  <2> HIDE DEF b, c
  <2>5. Only(i) /\ app'[i] = b
    BY <1>1, <2>0, <2>3, Moves
  <2> QED
    BY <1>1, <1>2, <1>5, <2>4, <2>5 DEF Talks
<1> QED
  BY <1>3, <1>4, <1>5 DEF Perform

LEMMA OperationEndsEffect ==
  ASSUME TypeOK, NEW i \in Instances, app[i].pending <= operations, OperationEnds(i)
  PROVE  Only(i) /\ Talks(app[i], app'[i]) /\ app'[i].pending <= operations
<1> DEFINE a == app[i]
           d == [a EXCEPT !.pending = a.pending - 1]
           e == [d EXCEPT !.error = "Operation"]
<1>1. app \in [Instances -> AppStates] /\ a \in AppStates /\ operations \in Nat
      /\ a.pending \in Nat /\ a.pending \in 0 .. MaxOperations /\ a.pending > 0
  BY FieldsOf DEF TypeOK, OperationEnds
<1>2. a.pending - 1 \in 0 .. MaxOperations /\ MaxOperations \in Nat
  BY <1>1, ApplicationAssumption
<1>3. d \in AppStates
  BY <1>1, <1>2, FieldTypes
<1>4. e \in AppStates
  <2> HIDE DEF d
  <2> QED
    BY <1>3, FieldTypes DEF Errors
<1>5. /\ SamePlace(a, d) /\ d.view = a.view /\ d.service = a.service
      /\ d.discovery = a.discovery /\ d.error = a.error /\ d.pending = a.pending - 1
      /\ d.dismissed = a.dismissed
  BY <1>1 DEF AppStates, SamePlace
<1>6. /\ SamePlace(a, e) /\ e.view = a.view /\ e.service = a.service
      /\ e.discovery = a.discovery /\ e.error = "Operation" /\ e.pending = a.pending - 1
      /\ e.dismissed = a.dismissed
  BY <1>1 DEF AppStates, SamePlace
<1>7. PICK c \in {d, e} : app' = [app EXCEPT ![i] = Notified(c)]
  BY DEF OperationEnds, Success
<1> HIDE DEF d, e
<1>8. /\ c \in AppStates /\ SamePlace(a, c) /\ c.view = a.view /\ c.service = a.service
      /\ c.discovery = a.discovery /\ c.error \in {a.error, "Operation"}
      /\ c.pending = a.pending - 1 /\ c.dismissed = a.dismissed
  BY <1>3, <1>4, <1>5, <1>6
<1> DEFINE b == Notified(c)
<1>9. /\ b \in AppStates /\ SamePlace(c, b) /\ Tells(c, b)
      /\ b.service = c.service /\ b.discovery = c.discovery
      /\ b.error = c.error /\ b.pending = c.pending /\ b.dismissed = c.dismissed
  BY <1>8, NotifiedKeeps
<1> HIDE DEF b
<1>10. Only(i) /\ app'[i] = b
  BY <1>1, <1>7, <1>9, Moves DEF b
<1> QED
  BY <1>1, <1>8, <1>9, <1>10 DEF Talks, Tells, SamePlace

LEMMA DisconnectEffect ==
  ASSUME TypeOK, NEW i \in Instances, app[i].pending <= operations, Disconnect(i)
  PROVE  Only(i) /\ Talks(app[i], app'[i]) /\ app'[i].pending <= operations'
<1> DEFINE a == app[i]
           c == [a EXCEPT !.error = "None"]
<1>1. app \in [Instances -> AppStates] /\ a \in AppStates /\ operations \in Nat
      /\ a.pending \in Nat /\ operations' = operations + 1
  BY FieldsOf DEF TypeOK, Disconnect, Operates
<1>2. c \in AppStates
  BY <1>1, FieldTypes DEF Errors
<1>3. /\ SamePlace(a, c) /\ c.view = a.view /\ c.service = a.service
      /\ c.discovery = a.discovery /\ c.pending = a.pending
      /\ c.dismissed = a.dismissed /\ c.error = "None"
  BY <1>1 DEF AppStates, SamePlace
<1>4. CASE a.service = "Ready"
  <2> DEFINE b == Notified(c)
  <2>0. app' = [app EXCEPT ![i] = b]
    BY <1>4 DEF Disconnect
  <2> HIDE DEF c
  <2>1. /\ b \in AppStates /\ SamePlace(c, b) /\ Tells(c, b)
        /\ b.service = c.service /\ b.discovery = c.discovery
        /\ b.pending = c.pending /\ b.dismissed = c.dismissed
    BY <1>2, NotifiedKeeps
  <2> HIDE DEF b
  <2>2. Only(i) /\ app'[i] = b
    BY <1>1, <2>0, <2>1, Moves
  <2> QED
    BY <1>1, <1>3, <1>4, <2>1, <2>2 DEF Talks, Tells, SamePlace
<1>5. CASE a.service # "Ready"
  <2> DEFINE b == [c EXCEPT !.dismissed = TRUE]
  <2>0. app' = [app EXCEPT ![i] = b]
    BY <1>5 DEF Disconnect
  <2>1. b \in AppStates
    <3> HIDE DEF c
    <3> QED
      BY <1>2, FieldTypes
  <2>2. /\ SamePlace(a, b) /\ b.view = a.view /\ b.service = a.service
        /\ b.discovery = a.discovery /\ b.pending = a.pending
        /\ b.dismissed /\ b.error = "None"
    BY <1>1 DEF AppStates, SamePlace
  <2> HIDE DEF b, c
  <2>3. Only(i) /\ app'[i] = b
    BY <1>1, <2>0, <2>1, Moves
  <2> QED
    BY <1>1, <2>2, <2>3 DEF Talks
<1> QED
  BY <1>4, <1>5

\* A user's doings leave the start and the end alone.
Talk(i) == Mount(i) \/ SocketError(i) \/ Perform(i) \/ OperationEnds(i) \/ Disconnect(i)

LEMMA TalkEffect ==
  ASSUME TypeOK, NEW i \in Instances, \A j \in Instances : app[j].pending <= operations, Talk(i)
  PROVE  /\ Only(i) /\ Talks(app[i], app'[i]) /\ app'[i].pending <= operations'
         /\ operations' \in 0 .. MaxOperations /\ operations <= operations'
         /\ UNCHANGED <<storeVars, held, keys, starts, shown, raced>>
<1>1. operations \in 0 .. MaxOperations /\ MaxOperations \in Nat /\ app[i].pending <= operations
  BY ApplicationAssumption DEF TypeOK
<1>2. CASE Mount(i) \/ SocketError(i) \/ OperationEnds(i)
  <2>1. UNCHANGED <<storeVars, rest>>
    BY <1>2 DEF Mount, SocketError, OperationEnds
  <2> QED
    BY <1>1, <1>2, <2>1, MountEffect, SocketErrorEffect, OperationEndsEffect DEF rest
<1>3. CASE Perform(i) \/ Disconnect(i)
  <2>1. /\ operations < MaxOperations /\ operations' = operations + 1
        /\ UNCHANGED <<storeVars, held, keys, starts, shown, raced>>
    BY <1>3 DEF Perform, Disconnect, Operates
  <2> QED
    BY <1>1, <1>3, <2>1, PerformEffect, DisconnectEffect
<1> QED
  BY <1>2, <1>3 DEF Talk

\* A new process, and the end of one.
LEMMA LaunchEffect ==
  ASSUME TypeOK, NEW i \in Instances, Launch(i)
  PROVE  /\ Only(i) /\ app[i].step = "Off"
         /\ app'[i] = [New EXCEPT !.step = "ReadIdentity"]
  BY NewType, Moves DEF TypeOK, Launch

LEMMA ExitEffect ==
  ASSUME TypeOK, NEW i \in Instances, Exit(i)
  PROVE  Only(i) /\ app'[i] = New
  BY NewType, Moves DEF TypeOK, Exit

LEMMA IdentifiedKeeps ==
  ASSUME NEW a \in AppStates, NEW v \in Value
  PROVE  LET b == Identified(a, v) IN
         /\ b \in AppStates /\ Proceeds(a, b)
         /\ b.step = "LoadTrust" /\ b.trial = a.trial /\ b.mishap = a.mishap
<1> DEFINE c == [a EXCEPT !.identity = v]
           b == [c EXCEPT !.step = "LoadTrust"]
<1>1. c \in AppStates
  BY FieldTypes
<1>2. b \in AppStates
  <2> HIDE DEF c
  <2> QED
    BY <1>1, FieldTypes DEF Steppings
<1>3. /\ Proceeds(a, b)
      /\ b.step = "LoadTrust" /\ b.trial = a.trial /\ b.mishap = a.mishap
  BY DEF AppStates, Proceeds, SameTalk
<1> QED
  BY <1>2, <1>3 DEF Identified

\* Reading the identity: the key pair is made, found, or not to be read.
LEMMA CreateEffect ==
  ASSUME TypeOK, NEW i \in Instances, NEW v, Create(i, v)
  PROVE  /\ Only(i) /\ Proceeds(app[i], app'[i])
         /\ app'[i].step = "WriteIdentity" /\ app'[i].mishap = app[i].mishap
<1> DEFINE a == app[i]
           b == [a EXCEPT !.step = "WriteIdentity"]
<1>1. app \in [Instances -> AppStates] /\ a \in AppStates
  BY DEF TypeOK
<1>2. app' = [app EXCEPT ![i] = b]
  BY DEF Create
<1>3. b \in AppStates
  BY <1>1, FieldTypes DEF Steppings
<1>4. Proceeds(a, b) /\ b.step = "WriteIdentity" /\ b.mishap = a.mishap
  BY <1>1 DEF AppStates, Proceeds, SameTalk
<1> HIDE DEF b
<1> QED
  BY <1>1, <1>2, <1>3, <1>4, Moves

LEMMA IdentifiedEffect ==
  ASSUME TypeOK, NEW i \in Instances, NEW v \in Value,
         app' = [app EXCEPT ![i] = Identified(app[i], v)]
  PROVE  /\ Only(i) /\ Proceeds(app[i], app'[i])
         /\ app'[i].step = "LoadTrust" /\ app'[i].mishap = app[i].mishap
<1>1. app \in [Instances -> AppStates] /\ app[i] \in AppStates
  BY DEF TypeOK
<1> QED
  BY <1>1, IdentifiedKeeps, Moves

LEMMA FailedEffect ==
  ASSUME TypeOK, NEW i \in Instances, app' = [app EXCEPT ![i] = Failed(app[i])]
  PROVE  Only(i) /\ Fails(app[i], app'[i]) /\ app'[i].mishap = app[i].mishap
<1>1. app \in [Instances -> AppStates] /\ app[i] \in AppStates
  BY DEF TypeOK
<1>2. Only(i) /\ app'[i] = Failed(app[i])
  BY <1>1, FailedKeeps, Moves
<1> QED
  BY <1>1, <1>2, FailedKeeps DEF Fails

LEMMA ReadIdentityEffect ==
  ASSUME TypeOK, NEW i \in Instances, ReadIdentity(i)
  PROVE  /\ Only(i) /\ app[i].step = "ReadIdentity"
         /\ app'[i].mishap = app[i].mishap /\ UNCHANGED <<held, starts, operations>>
         /\ \/ /\ Found.state = "Missing" /\ Write(i, keys + 1) /\ keys' = keys + 1
               /\ Proceeds(app[i], app'[i]) /\ app'[i].step = "WriteIdentity"
               /\ shown' = shown
               /\ raced' = (raced \/ \E j \in Instances : app[j].step = "WriteIdentity")
            \/ /\ Found.state = "Whole" /\ UNCHANGED <<storeVars, keys, raced>>
               /\ Proceeds(app[i], app'[i]) /\ app'[i].step = "LoadTrust"
               /\ shown' = shown \cup {Found.value}
            \/ /\ Found.state \in {"Empty", "Torn"} /\ UNCHANGED <<storeVars, keys, raced, shown>>
               /\ Fails(app[i], app'[i])
<1>0. StoreTypeOK
  BY DEF TypeOK
<1>1. app[i].step = "ReadIdentity" /\ UNCHANGED <<held, starts, operations>>
  BY DEF ReadIdentity
<1>2. CASE /\ Found.state = "Missing" /\ keys' = keys + 1 /\ Create(i, keys')
           /\ raced' = (raced \/ \E j \in Instances : app[j].step = "WriteIdentity")
  <2>1. Write(i, keys + 1) /\ shown' = shown
    BY <1>2 DEF Create
  <2> QED
    BY <1>1, <1>2, <2>1, CreateEffect
<1>3. CASE /\ Found.state = "Whole" /\ app' = [app EXCEPT ![i] = Identified(@, Found.value)]
           /\ shown' = shown \cup {Found.value} /\ UNCHANGED <<storeVars, keys, raced>>
  BY <1>0, <1>1, <1>3, IdentifiedEffect, Findings
<1>4. CASE /\ Found.state \in {"Empty", "Torn"} /\ app' = [app EXCEPT ![i] = Failed(@)]
           /\ UNCHANGED <<storeVars, keys, shown, raced>>
  BY <1>1, <1>4, FailedEffect
<1> QED
  BY <1>2, <1>3, <1>4 DEF ReadIdentity

LEMMA IdentityWrittenEffect ==
  ASSUME TypeOK, NEW i \in Instances, IdentityWritten(i)
  PROVE  /\ Only(i) /\ app[i].step = "WriteIdentity" /\ Return(i)
         /\ app'[i].mishap = app[i].mishap /\ UNCHANGED <<held, keys, starts, operations, raced>>
         /\ \/ /\ call[i] = "Done" /\ shown' = shown \cup {value[i]}
               /\ Proceeds(app[i], app'[i]) /\ app'[i].step = "LoadTrust"
            \/ /\ call[i] = "Failed" /\ shown' = shown /\ Fails(app[i], app'[i])
<1>1. /\ app[i].step = "WriteIdentity" /\ Return(i)
      /\ UNCHANGED <<held, keys, starts, operations, raced>>
  BY DEF IdentityWritten
<1>2. call[i] \in {"Done", "Failed"}
  BY <1>1 DEF Return
<1>3. CASE call[i] = "Done"
  <2>1. app' = [app EXCEPT ![i] = Identified(app[i], value[i])] /\ shown' = shown \cup {value[i]}
    BY <1>3 DEF IdentityWritten
  <2>2. value[i] \in Value
    BY DEF TypeOK, StoreTypeOK, Instances
  <2> QED
    BY <1>1, <1>3, <2>1, <2>2, IdentifiedEffect
<1>4. CASE call[i] = "Failed"
  <2>1. app' = [app EXCEPT ![i] = Failed(app[i])] /\ shown' = shown
    BY <1>4 DEF IdentityWritten
  <2> QED
    BY <1>1, <1>4, <2>1, FailedEffect
<1> QED
  BY <1>2, <1>3, <1>4

LEMMA LoadTrustEffect ==
  ASSUME TypeOK, NEW i \in Instances, LoadTrust(i)
  PROVE  /\ Only(i) /\ app[i].step = "LoadTrust" /\ Proceeds(app[i], app'[i])
         /\ app'[i].step = "control" /\ app'[i].trial = 1 /\ app'[i].mishap = app[i].mishap
         /\ UNCHANGED <<storeVars, rest>>
<1> DEFINE a == app[i]
           c == [a EXCEPT !.step = "control"]
           b == [c EXCEPT !.trial = 1]
<1>1. app \in [Instances -> AppStates] /\ a \in AppStates
  BY DEF TypeOK
<1>2. app' = [app EXCEPT ![i] = b] /\ app[i].step = "LoadTrust" /\ UNCHANGED <<storeVars, rest>>
  BY DEF LoadTrust
<1>3. c \in AppStates
  BY <1>1, FieldTypes DEF Steppings
<1>4. b \in AppStates
  <2> HIDE DEF c
  <2> QED
    BY <1>3, PortFacts, FieldTypes
<1>5. Proceeds(a, b) /\ b.step = "control" /\ b.trial = 1 /\ b.mishap = a.mishap
  BY <1>1 DEF AppStates, Proceeds, SameTalk
<1> HIDE DEF b, c
<1> QED
  BY <1>1, <1>2, <1>4, <1>5, Moves

\* A server that listens.
OpenedAs(a, b, k, p) ==
  /\ b.port[k] = p /\ \A l \in Kinds \ {k} : b.port[l] = a.port[l]
  /\ b.service = a.service /\ b.stop = a.stop /\ b.cutShort = a.cutShort
  /\ SameTalk(a, b) /\ ~b.mishap
  /\ k = "control" => /\ b.announced = p /\ b.step = "diagnostics" /\ b.trial = 1
                      /\ b.discovery = a.discovery
  /\ k # "control" => b.announced = a.announced /\ b.step = "Bind" /\ b.discovery = "Binding"

LEMMA OpenedKeeps ==
  ASSUME NEW a \in AppStates, NEW k \in Kinds, NEW p \in Ports
  PROVE  LET b == Opened([a EXCEPT !.mishap = FALSE], k, p) IN
         b \in AppStates /\ OpenedAs(a, b, k, p)
<1> DEFINE c == [a EXCEPT !.mishap = FALSE]
           q == [a.port EXCEPT ![k] = p]
           d == [c EXCEPT !.port = q]
           bc == [[[d EXCEPT !.announced = p] EXCEPT !.step = "diagnostics"] EXCEPT !.trial = 1]
           bd == [[[d EXCEPT !.discovery = "Binding"] EXCEPT !.step = "Bind"] EXCEPT !.trial = 0]
<1>0. c \in AppStates
  BY FieldTypes
<1>1. c \in AppStates /\ c.port = a.port
  BY <1>0 DEF AppStates
<1>2. q \in [Kinds -> {0} \cup Ports] /\ q[k] = p /\ \A l \in Kinds \ {k} : q[l] = a.port[l]
  BY FieldsOf
<1>3. d \in AppStates
  <2> HIDE DEF c, q
  <2> QED
    BY <1>1, <1>2, FieldTypes
<1>4. CASE k = "control"
  <2>1. Opened(c, k, p) = bc
    <3>1. Opened(c, k, p) = [c EXCEPT !.port = q, !.announced = p, !.step = "diagnostics", !.trial = 1]
      BY <1>4, <1>1 DEF Opened
    <3> HIDE DEF c, q
    <3> QED
      BY <3>1
  <2>2. bc \in AppStates
    <3> HIDE DEF d
    <3>1. [d EXCEPT !.announced = p] \in AppStates
      BY <1>3, FieldTypes
    <3>2. [[d EXCEPT !.announced = p] EXCEPT !.step = "diagnostics"] \in AppStates
      BY <3>1, FieldTypes DEF Steppings
    <3> QED
      BY <3>2, FieldTypes, PortFacts
  <2>3. /\ bc.port = q /\ bc.service = a.service /\ bc.stop = a.stop /\ bc.cutShort = a.cutShort
        /\ SameTalk(a, bc) /\ ~bc.mishap
        /\ bc.announced = p /\ bc.step = "diagnostics" /\ bc.trial = 1
        /\ bc.discovery = a.discovery
    <3> HIDE DEF q
    <3> QED
      BY DEF AppStates, SameTalk
  <2> HIDE DEF bc, q
  <2> QED
    BY <1>2, <1>4, <2>1, <2>2, <2>3 DEF OpenedAs
<1>5. CASE k # "control"
  <2>1. Opened(c, k, p) = bd
    <3>1. Opened(c, k, p) = [c EXCEPT !.port = q, !.discovery = "Binding", !.step = "Bind", !.trial = 0]
      BY <1>5, <1>1 DEF Opened
    <3> HIDE DEF c, q
    <3> QED
      BY <3>1
  <2>2. bd \in AppStates
    <3> HIDE DEF d
    <3>1. [d EXCEPT !.discovery = "Binding"] \in AppStates
      BY <1>3, FieldTypes
    <3>2. [[d EXCEPT !.discovery = "Binding"] EXCEPT !.step = "Bind"] \in AppStates
      BY <3>1, FieldTypes DEF Steppings
    <3> QED
      BY <3>2, FieldTypes
  <2>3. /\ bd.port = q /\ bd.service = a.service /\ bd.stop = a.stop /\ bd.cutShort = a.cutShort
        /\ SameTalk(a, bd) /\ ~bd.mishap
        /\ bd.announced = a.announced /\ bd.step = "Bind" /\ bd.discovery = "Binding"
    <3> HIDE DEF q
    <3> QED
      BY DEF AppStates, SameTalk
  <2> HIDE DEF bd, q
  <2> QED
    BY <1>2, <1>5, <2>1, <2>2, <2>3 DEF OpenedAs
<1> QED
  BY <1>4, <1>5

\* One trial of a server: it listens, tries the next port, or has failed.
LEMMA ListenEffect ==
  ASSUME TypeOK, NEW i \in Instances, NEW k \in Kinds, Listen(i, k), app[i].trial \in Ports
  PROVE  LET a == app[i]  b == app'[i] IN
         /\ Only(i) /\ a.step = k /\ UNCHANGED <<storeVars, keys, starts, operations, shown, raced>>
         /\ \/ /\ held[k][a.trial] = Nobody
               /\ held' = [held EXCEPT ![k] = [@ EXCEPT ![a.trial] = i]]
               /\ OpenedAs(a, b, k, a.trial)
            \/ /\ held' = held /\ a.trial # LastPort
               /\ Proceeds(a, b) /\ b.step = a.step /\ b.trial = a.trial + 1
               /\ ~b.mishap => ~a.mishap /\ held[k][a.trial] # Nobody
            \/ /\ held' = held /\ a.trial = LastPort /\ Fails(a, b)
               /\ ~b.mishap => ~a.mishap /\ held[k][a.trial] # Nobody
<1> DEFINE a == app[i]
           m == a.mishap \/ held[k][a.trial] = Nobody
           d == [a EXCEPT !.mishap = m]
<1>1. /\ app \in [Instances -> AppStates] /\ a \in AppStates
      /\ a.step = k /\ UNCHANGED <<storeVars, keys, starts, operations, shown, raced>>
  BY DEF TypeOK, Listen
<1>2. CASE /\ held[k][a.trial] = Nobody
           /\ held' = [held EXCEPT ![k] = [@ EXCEPT ![a.trial] = i]]
           /\ app' = [app EXCEPT ![i] = Opened([a EXCEPT !.mishap = FALSE], k, a.trial)]
  <2> DEFINE b == Opened([a EXCEPT !.mishap = FALSE], k, a.trial)
  <2>1. b \in AppStates /\ OpenedAs(a, b, k, a.trial)
    BY <1>1, OpenedKeeps
  <2>2. app' = [app EXCEPT ![i] = b]
    BY <1>2
  <2> HIDE DEF b
  <2>3. Only(i) /\ app'[i] = b
    BY <1>1, <2>1, <2>2, Moves
  <2> QED
    BY <1>1, <1>2, <2>1, <2>3
<1>3. m \in BOOLEAN /\ (~m => ~a.mishap /\ held[k][a.trial] # Nobody)
  OBVIOUS
<1>4. d \in AppStates
  <2> HIDE DEF m
  <2> QED
    BY <1>1, <1>3, FieldTypes
<1>5. Proceeds(a, d) /\ d.step = a.step /\ d.trial = a.trial /\ d.mishap = m
  <2> HIDE DEF m
  <2> QED
    BY <1>1 DEF AppStates, Proceeds, SameTalk
<1>6. CASE /\ held' = held
           /\ app' = [app EXCEPT ![i] = IF LastTrial(a) THEN Failed(d) ELSE TriesNext(d)]
  <2> HIDE DEF m, d
  <2>1. CASE LastTrial(a)
    <3>1. app' = [app EXCEPT ![i] = Failed(d)] /\ a.trial = LastPort
      BY <1>6, <2>1 DEF LastTrial
    <3>2. Failed(d) \in AppStates
      BY <1>4, FailedKeeps
    <3>3. Only(i) /\ app'[i] = Failed(d)
      BY <1>1, <3>1, <3>2, Moves
    <3>4. Fails(a, Failed(d)) /\ Failed(d).mishap = m
      BY <1>4, <1>5, FailedKeeps DEF Fails, Proceeds, SameTalk, Tells
    <3> QED
      BY <1>1, <1>3, <1>6, <3>1, <3>3, <3>4
  <2>2. CASE ~LastTrial(a)
    <3> DEFINE b == [d EXCEPT !.trial = a.trial + 1]
    <3>1. app' = [app EXCEPT ![i] = b] /\ a.trial # LastPort
      BY <1>5, <1>6, <2>2 DEF LastTrial, TriesNext
    <3>2. a.trial + 1 \in Ports
      BY <3>1, PortFacts
    <3>3. b \in AppStates
      BY <1>4, <3>2, FieldTypes
    <3>4. /\ Proceeds(d, b) /\ b.step = d.step /\ b.trial = a.trial + 1 /\ b.mishap = d.mishap
      BY <1>4 DEF AppStates, Proceeds, SameTalk
    <3> HIDE DEF b
    <3>5. Only(i) /\ app'[i] = b
      BY <1>1, <3>1, <3>3, Moves
    <3>6. Proceeds(a, b)
      BY <1>5, <3>4 DEF Proceeds, SameTalk
    <3> QED
      BY <1>1, <1>3, <1>5, <1>6, <3>1, <3>4, <3>5, <3>6
  <2> QED
    BY <2>1, <2>2
<1> QED
  BY <1>2, <1>6 DEF Listen

LEMMA BindEffect ==
  ASSUME TypeOK, NEW i \in Instances, Bind(i)
  PROVE  LET a == app[i]  b == app'[i] IN
         /\ Only(i) /\ a.step = "Bind" /\ b.step = "Ended" /\ b.service = "Ready"
         /\ Tells(a, b) /\ b.port = a.port /\ b.announced = a.announced /\ b.stop = a.stop
         /\ b.cutShort = a.cutShort /\ b.error = a.error /\ b.pending = a.pending
         /\ b.dismissed = a.dismissed
         /\ UNCHANGED <<storeVars, rest>>
<1> DEFINE a == app[i]
           c == [[[a EXCEPT !.discovery = "Running"] EXCEPT !.step = "Ended"]
                  EXCEPT !.service = "Ready"]
           b == Notified(c)
<1>1. app \in [Instances -> AppStates] /\ a \in AppStates
  BY DEF TypeOK
<1>2. app' = [app EXCEPT ![i] = b] /\ a.step = "Bind" /\ UNCHANGED <<storeVars, rest>>
  BY DEF Bind
<1>3. c \in AppStates
  <2>1. [a EXCEPT !.discovery = "Running"] \in AppStates
    BY <1>1, FieldTypes
  <2>2. [[a EXCEPT !.discovery = "Running"] EXCEPT !.step = "Ended"] \in AppStates
    BY <2>1, FieldTypes DEF Steppings
  <2> QED
    BY <2>2, FieldTypes DEF Services
<1>4. /\ c.step = "Ended" /\ c.service = "Ready" /\ c.view = a.view
      /\ c.port = a.port /\ c.announced = a.announced /\ c.stop = a.stop
      /\ c.cutShort = a.cutShort /\ SameTalk(a, c)
  BY <1>1 DEF AppStates, SameTalk
<1> HIDE DEF c
<1>5. /\ b \in AppStates /\ SamePlace(c, b) /\ Tells(c, b) /\ b.service = c.service
      /\ b.error = c.error /\ b.pending = c.pending /\ b.dismissed = c.dismissed
  BY <1>3, NotifiedKeeps
<1> HIDE DEF b
<1>6. Only(i) /\ app'[i] = b
  BY <1>1, <1>2, <1>5, Moves
<1> QED
  BY <1>2, <1>4, <1>5, <1>6 DEF SamePlace, SameTalk, Tells

LEMMA StartMishapEffect ==
  ASSUME TypeOK, NEW i \in Instances, StartMishap(i)
  PROVE  /\ Only(i) /\ app[i].step \in {"LoadTrust", "Bind"} /\ Fails(app[i], app'[i])
         /\ app'[i].mishap /\ UNCHANGED <<storeVars, rest>>
<1> DEFINE a == app[i]
           e == IF a.discovery = "Binding" THEN "Stopped" ELSE a.discovery
           c == [[a EXCEPT !.discovery = e] EXCEPT !.mishap = TRUE]
           b == Failed(c)
<1>1. app \in [Instances -> AppStates] /\ a \in AppStates
  BY DEF TypeOK
<1>2. app' = [app EXCEPT ![i] = b] /\ a.step \in {"LoadTrust", "Bind"} /\ UNCHANGED <<storeVars, rest>>
  BY DEF StartMishap
<1>3. e \in {"None", "Binding", "Running", "Stopped"} /\ e \in {a.discovery, "Stopped"}
  BY <1>1, FieldsOf
<1> HIDE DEF e
<1>4. c \in AppStates
  <2>1. [a EXCEPT !.discovery = e] \in AppStates
    BY <1>1, <1>3, FieldTypes
  <2> QED
    BY <2>1, FieldTypes
<1>5. /\ c.port = a.port /\ c.announced = a.announced /\ c.stop = a.stop /\ c.view = a.view
      /\ c.cutShort = a.cutShort /\ c.pending = a.pending /\ c.dismissed = a.dismissed
      /\ c.mishap /\ c.discovery = e
  BY <1>1 DEF AppStates
<1> HIDE DEF c
<1>6. /\ b \in AppStates /\ Tells(c, b)
      /\ b.step = "Ended" /\ b.service = "Failed" /\ b.error = "Start"
      /\ b.port = c.port /\ b.announced = c.announced /\ b.discovery = c.discovery
      /\ b.stop = c.stop /\ b.cutShort = c.cutShort /\ b.mishap = c.mishap
      /\ b.pending = c.pending /\ b.dismissed = c.dismissed
  BY <1>4, FailedKeeps
<1> HIDE DEF b
<1>7. Only(i) /\ app'[i] = b
  BY <1>1, <1>2, <1>6, Moves
<1> QED
  BY <1>2, <1>3, <1>5, <1>6, <1>7 DEF Fails, Tells

\* The second half of stop, from the record that its first half left.
Stopped(a, b) ==
  /\ b.port["diagnostics"] = 0 /\ b.port["control"] = a.port["control"]
  /\ b.service = "Starting" /\ b.stop = "Ended"
  /\ b.step = a.step /\ b.trial = a.trial /\ b.announced = a.announced
  /\ b.discovery = a.discovery /\ b.cutShort = a.cutShort /\ b.mishap = a.mishap
  /\ SameTalk(a, b)

LEMMA DiagnosticsClosedEffect ==
  ASSUME TypeOK, NEW i \in Instances, NEW a \in AppStates, DiagnosticsClosed(i, a)
  PROVE  Only(i) /\ Stopped(a, app'[i]) /\ held' = Released(i, Kinds)
<1> DEFINE q == [a.port EXCEPT !["diagnostics"] = 0]
           b == [[[a EXCEPT !.port = q] EXCEPT !.service = "Starting"] EXCEPT !.stop = "Ended"]
<1>1. app \in [Instances -> AppStates]
  BY DEF TypeOK
<1>2. app' = [app EXCEPT ![i] = b] /\ held' = Released(i, Kinds)
  <2>1. app' = [app EXCEPT ![i] = [a EXCEPT !.port = q, !.service = "Starting", !.stop = "Ended"]]
    BY DEF DiagnosticsClosed
  <2> HIDE DEF q
  <2> QED
    BY <2>1 DEF DiagnosticsClosed
<1>3. /\ q \in [Kinds -> {0} \cup Ports] /\ q["diagnostics"] = 0
      /\ q["control"] = a.port["control"]
  BY FieldsOf, KindFacts
<1> HIDE DEF q
<1>4. b \in AppStates
  <2>1. [a EXCEPT !.port = q] \in AppStates
    BY <1>3, FieldTypes
  <2>2. [[a EXCEPT !.port = q] EXCEPT !.service = "Starting"] \in AppStates
    BY <2>1, FieldTypes DEF Services
  <2> QED
    BY <2>2, FieldTypes
<1>5. /\ b.port = q /\ b.service = "Starting" /\ b.stop = "Ended"
      /\ b.step = a.step /\ b.trial = a.trial /\ b.announced = a.announced
      /\ b.discovery = a.discovery /\ b.cutShort = a.cutShort /\ b.mishap = a.mishap
      /\ SameTalk(a, b)
  BY DEF AppStates, SameTalk
<1> HIDE DEF b
<1> QED
  BY <1>1, <1>2, <1>3, <1>4, <1>5, Moves DEF Stopped

\* The first half of stop.
Quits(a, c) ==
  /\ c.discovery \in {"None", "Stopped"}
  /\ c.step = (IF a.step = "Bind" THEN "Stuck" ELSE a.step)
  /\ c.cutShort = (a.step # "Ended")
  /\ c.service = a.service /\ c.trial = a.trial /\ c.port = a.port
  /\ c.announced = a.announced /\ c.mishap = a.mishap /\ c.stop = a.stop
  /\ SameTalk(a, c)

LEMMA QuitEffect ==
  ASSUME TypeOK, NEW i \in Instances, Quit(i)
  PROVE  LET a == app[i]  b == app'[i] IN
         /\ Only(i) /\ a.step # "Off" /\ a.stop = "No"
         /\ UNCHANGED <<storeVars, keys, starts, operations, shown, raced>>
         /\ \/ /\ a.port["control"] = 0 /\ held' = Released(i, Kinds)
               /\ \E c \in AppStates : Quits(a, c) /\ Stopped(c, b)
            \/ /\ a.port["control"] # 0 /\ held' = Released(i, {"control"})
               /\ \E c \in AppStates :
                    /\ Quits(a, c)
                    /\ b.port["control"] = 0 /\ b.port["diagnostics"] = c.port["diagnostics"]
                    /\ b.stop = "Closing" /\ b.service = c.service
                    /\ b.step = c.step /\ b.trial = c.trial /\ b.announced = c.announced
                    /\ b.discovery = c.discovery /\ b.cutShort = c.cutShort
                    /\ b.mishap = c.mishap /\ SameTalk(c, b)
<1> DEFINE a == app[i]
           e == IF a.discovery = "None" THEN "None" ELSE "Stopped"
           s == IF a.step = "Bind" THEN "Stuck" ELSE a.step
           t == (a.step # "Ended")
           c == [[[a EXCEPT !.discovery = e] EXCEPT !.step = s] EXCEPT !.cutShort = t]
           q == [c.port EXCEPT !["control"] = 0]
           d == [[c EXCEPT !.port = q] EXCEPT !.stop = "Closing"]
<1>1. app \in [Instances -> AppStates] /\ a \in AppStates
  BY DEF TypeOK
<1>2. e \in {"None", "Stopped"} /\ s \in Steppings /\ t \in BOOLEAN
  BY <1>1, FieldsOf DEF Steppings
<1>3. /\ a.step # "Off" /\ a.stop = "No"
      /\ UNCHANGED <<storeVars, keys, starts, operations, shown, raced>>
  BY DEF Quit
<1>4. /\ c.port["control"] = 0 => DiagnosticsClosed(i, c)
      /\ c.port["control"] # 0 => /\ app' = [app EXCEPT ![i] = d]
                                  /\ held' = Released(i, {"control"})
  BY DEF Quit
<1>5. c \in AppStates /\ Quits(a, c)
  <2>1. Quits(a, [[[a EXCEPT !.discovery = e] EXCEPT !.step = s] EXCEPT !.cutShort = t])
    <3>1. /\ c.discovery = e /\ c.step = s /\ c.cutShort = t
          /\ c.service = a.service /\ c.trial = a.trial /\ c.port = a.port
          /\ c.announced = a.announced /\ c.mishap = a.mishap /\ c.stop = a.stop
          /\ SameTalk(a, c)
      <4> HIDE DEF e, s, t
      <4> QED
        BY <1>1 DEF AppStates, SameTalk
    <3>2. e \in {"None", "Stopped"} /\ s = (IF a.step = "Bind" THEN "Stuck" ELSE a.step) /\ t = (a.step # "Ended")
      OBVIOUS
    <3> HIDE DEF c, e, s, t
    <3>3. Quits(a, c)
      BY <3>1, <3>2 DEF Quits
    <3> QED
      BY <3>3 DEF c
  <2> HIDE DEF e, s, t
  <2>2. [a EXCEPT !.discovery = e] \in AppStates
    BY <1>1, <1>2, FieldTypes
  <2>3. [[a EXCEPT !.discovery = e] EXCEPT !.step = s] \in AppStates
    BY <1>2, <2>2, FieldTypes
  <2> QED
    BY <1>2, <2>1, <2>3, FieldTypes
<1> HIDE DEF c
<1>6. c.port["control"] = a.port["control"] /\ c.port = a.port
  BY <1>5 DEF Quits
<1>7. CASE a.port["control"] = 0
  BY <1>3, <1>4, <1>5, <1>6, <1>7, DiagnosticsClosedEffect
<1>8. CASE a.port["control"] # 0
  <2>1. /\ q \in [Kinds -> {0} \cup Ports] /\ q["control"] = 0
        /\ q["diagnostics"] = c.port["diagnostics"]
    BY <1>5, FieldsOf, KindFacts
  <2>2. app' = [app EXCEPT ![i] = d] /\ held' = Released(i, {"control"})
    BY <1>4, <1>6, <1>8
  <2> HIDE DEF q
  <2>3. d \in AppStates
    <3>1. [c EXCEPT !.port = q] \in AppStates
      BY <1>5, <2>1, FieldTypes
    <3> QED
      BY <3>1, FieldTypes
  <2>4. /\ d.port = q /\ d.stop = "Closing" /\ d.service = c.service
        /\ d.step = c.step /\ d.trial = c.trial /\ d.announced = c.announced
        /\ d.discovery = c.discovery /\ d.cutShort = c.cutShort
        /\ d.mishap = c.mishap /\ SameTalk(c, d)
    BY <1>5 DEF AppStates, SameTalk
  <2> HIDE DEF d
  <2>5. Only(i) /\ app'[i] = d
    BY <1>1, <2>2, <2>3, Moves
  <2> QED
    BY <1>3, <1>5, <1>8, <2>1, <2>2, <2>4, <2>5
<1> QED
  BY <1>7, <1>8

LEMMA ControlClosedEffect ==
  ASSUME TypeOK, NEW i \in Instances, ControlClosed(i)
  PROVE  /\ Only(i) /\ app[i].stop = "Closing" /\ Stopped(app[i], app'[i])
         /\ held' = Released(i, Kinds)
         /\ UNCHANGED <<storeVars, keys, starts, operations, shown, raced>>
<1>1. app[i] \in AppStates
  BY DEF TypeOK
<1> QED
  BY <1>1, DiagnosticsClosedEffect DEF ControlClosed

LEMMA FileFailsEffect ==
  ASSUME TypeOK, NEW i \in Instances, FileFails(i)
  PROVE  /\ Only(i) /\ FailFileOperation(i) /\ UNCHANGED rest
         /\ Proceeds(app[i], app'[i]) /\ app'[i].mishap
         /\ app'[i].step = app[i].step /\ app'[i].trial = app[i].trial
<1> DEFINE a == app[i]
           b == [a EXCEPT !.mishap = TRUE]
<1>1. app \in [Instances -> AppStates] /\ a \in AppStates
  BY DEF TypeOK
<1>2. app' = [app EXCEPT ![i] = b] /\ FailFileOperation(i) /\ UNCHANGED rest
  BY DEF FileFails
<1>3. b \in AppStates
  BY <1>1, FieldTypes
<1>4. Proceeds(a, b) /\ b.mishap /\ b.step = a.step /\ b.trial = a.trial
  BY <1>1 DEF AppStates, Proceeds, SameTalk
<1> HIDE DEF b
<1> QED
  BY <1>1, <1>2, <1>3, <1>4, Moves

\* What is given back, and what stays.
LEMMA ReleasedHolds ==
  ASSUME TypeOK, NEW i \in Instances, NEW K \in SUBSET Kinds
  PROVE  LET h == Released(i, K) IN
         /\ h \in [Kinds -> [Ports -> Instances \cup {Nobody, Other}]]
         /\ \A k \in Kinds, p \in Ports : (k \in K => h[k][p] # i)
         /\ \A k \in Kinds, p \in Ports : (k \notin K => h[k][p] = held[k][p])
         /\ \A k \in Kinds, p \in Ports, j \in (Instances \cup {Other}) \ {i} :
              (h[k][p] = j <=> held[k][p] = j)
<1>1. i # Nobody /\ Nobody \notin Instances /\ Nobody # Other /\ i # Other
  BY HolderAssumption DEF Nobody, Other
<1> QED
  BY <1>1 DEF Released, TypeOK

-----------------------------------------------------------------------------
(* Steps                                                                   *)

\* The steps of an instance, a user's doings taken together.
Doing(i) ==
  \/ Talk(i) \/ Launch(i) \/ ReadIdentity(i) \/ IdentityWritten(i) \/ LoadTrust(i)
  \/ Listen(i, "control") \/ Listen(i, "diagnostics") \/ Bind(i) \/ StartMishap(i)
  \/ Quit(i) \/ ControlClosed(i) \/ Exit(i)
  \/ FileOperation(i) /\ UNCHANGED <<app, rest>>
  \/ FileFails(i)

LEMMA Doings ==
  ASSUME Next
  PROVE  \E i \in Instances : Doing(i)
  BY DEF Next, Doing, Talk

\* A server that looks for a port has one to try.
Trials == \A i \in Instances : app[i].step \in Kinds => app[i].trial \in Ports

-----------------------------------------------------------------------------
(* Numbers                                                                 *)

Live == {i \in Instances : app[i].step # "Off"}
Reading == {i \in Instances : app[i].step = "ReadIdentity"}

\* A key pair is made by a start that has not read the identity before.
CountInv ==
  /\ keys + Cardinality(Reading) <= starts
  /\ Cardinality(Live) <= starts
  /\ \A i \in Instances : app[i].pending <= operations

LEMMA FiniteInstances ==
  ASSUME NEW S, S \subseteq Instances
  PROVE  IsFiniteSet(S) /\ Cardinality(S) \in Nat
  BY CallsAssumption, FS_Subset, FS_CardinalityType DEF Instances

LEMMA FewerInstances ==
  ASSUME NEW S, NEW T, T \subseteq Instances, S \subseteq T
  PROVE  /\ IsFiniteSet(S) /\ IsFiniteSet(T) /\ Cardinality(S) \in Nat /\ Cardinality(T) \in Nat
         /\ Cardinality(S) <= Cardinality(T)
  BY FiniteInstances, FS_Subset

\* One key pair more, and the instance no longer reads.
LEMMA KeysCounted ==
  ASSUME TypeOK, CountInv, NEW i \in Instances, app[i].step = "ReadIdentity"
  PROVE  keys + 1 <= starts /\ keys + 1 \in 0 .. MaxStarts /\ keys + 1 \in Value
<1>1. IsFiniteSet(Reading) /\ Cardinality(Reading) \in Nat
  BY FiniteInstances DEF Reading
<1>2. Cardinality(Reading) # 0
  BY <1>1, FS_EmptySet DEF Reading
<1>3. keys + Cardinality(Reading) <= starts /\ keys \in Nat /\ starts \in 0 .. MaxStarts
      /\ MaxStarts \in Nat
  BY ApplicationAssumption DEF CountInv, TypeOK
<1>4. keys + 1 <= starts
  BY <1>1, <1>2, <1>3
<1>5. keys + 1 \in 1 .. MaxStarts
  BY <1>3, <1>4
<1> QED
  BY <1>3, <1>4, <1>5, ApplicationAssumption

LEMMA CountStep ==
  ASSUME TypeOK, CountInv, Trials, NEW i \in Instances, Doing(i)
  PROVE  CountInv'
<1> DEFINE a == app[i]
           b == app'[i]
<1>0. /\ IsFiniteSet(Live) /\ Cardinality(Live) \in Nat
      /\ IsFiniteSet(Reading) /\ Cardinality(Reading) \in Nat
  BY FiniteInstances DEF Live, Reading
<1>1. /\ keys \in Nat /\ starts \in Nat /\ operations \in Nat
      /\ keys + Cardinality(Reading) <= starts /\ Cardinality(Live) <= starts
      /\ \A j \in Instances : app[j].pending <= operations
      /\ \A j \in Instances : app[j].pending \in Nat
  <2>1. /\ keys \in Nat /\ starts \in Nat /\ operations \in Nat
        /\ app \in [Instances -> AppStates]
    BY ApplicationAssumption DEF TypeOK
  <2>2. \A j \in Instances : app[j].pending \in 0 .. MaxOperations
    BY <2>1, FieldsOf
  <2> QED
    BY <2>1, <2>2, ApplicationAssumption DEF CountInv
<1>2. ASSUME Only(i), b.pending <= operations', operations <= operations', operations' \in Nat
      PROVE  \A j \in Instances : app'[j].pending <= operations'
  BY <1>1, <1>2 DEF Only
\* Most steps.
<1>3. ASSUME Only(i), b.pending <= operations', operations <= operations', operations' \in Nat,
             keys' = keys, starts' = starts,
             b.step = "Off" \/ b.step = a.step \/ (a.step # "Off" /\ b.step # "ReadIdentity")
      PROVE  CountInv'
  <2>1. Live' \subseteq Live /\ Reading' \subseteq Reading
    BY <1>3 DEF Live, Reading, Only
  <2>2. /\ Cardinality(Live') <= Cardinality(Live) /\ Cardinality(Live') \in Nat
        /\ Cardinality(Reading') <= Cardinality(Reading) /\ Cardinality(Reading') \in Nat
    <3>1. Live \subseteq Instances /\ Reading \subseteq Instances
      BY DEF Live, Reading
    <3> QED
      BY <2>1, <3>1, FewerInstances
  <2>3. \A j \in Instances : app'[j].pending <= operations'
    BY <1>2, <1>3
  <2> QED
    BY <1>0, <1>1, <1>3, <2>2, <2>3 DEF CountInv
<1>4. CASE Talk(i)
  <2>1. /\ Only(i) /\ Talks(a, b) /\ b.pending <= operations'
        /\ operations' \in Nat /\ operations <= operations' /\ keys' = keys /\ starts' = starts
    BY <1>1, <1>4, TalkEffect
  <2> QED
    BY <1>3, <2>1 DEF Talks, SamePlace
<1>5. CASE Launch(i)
  <2>1. /\ Only(i) /\ a.step = "Off" /\ b = [New EXCEPT !.step = "ReadIdentity"]
        /\ starts' = starts + 1 /\ UNCHANGED <<keys, operations>>
    BY <1>5, LaunchEffect DEF Launch
  <2>2. b.step = "ReadIdentity" /\ b.pending = 0
    BY <2>1 DEF New
  <2>3. Live' = Live \cup {i} /\ Reading' = Reading \cup {i}
    <3>1. b.step # "Off" /\ \A j \in Instances : j # i => app'[j] = app[j]
      BY <2>1, <2>2 DEF Only
    <3>2. Live' = Live \cup {i}
      BY <3>1 DEF Live
    <3>3. Reading' = Reading \cup {i}
      BY <2>2, <3>1 DEF Reading
    <3> QED
      BY <3>2, <3>3
  <2>4. /\ Cardinality(Live') <= Cardinality(Live) + 1 /\ Cardinality(Live') \in Nat
        /\ Cardinality(Reading') <= Cardinality(Reading) + 1 /\ Cardinality(Reading') \in Nat
    BY <1>0, <2>3, AddOne
  <2>5. \A j \in Instances : app'[j].pending <= operations'
    BY <1>1, <1>2, <2>1, <2>2
  <2> QED
    BY <1>0, <1>1, <2>1, <2>4, <2>5 DEF CountInv
<1>6. CASE ReadIdentity(i)
  <2>1. /\ Only(i) /\ a.step = "ReadIdentity" /\ starts' = starts /\ operations' = operations
        /\ b.step # "ReadIdentity" /\ b.step # "Off" /\ b.pending = a.pending
        /\ keys' = keys \/ keys' = keys + 1
    BY <1>6, ReadIdentityEffect DEF Proceeds, Fails, SameTalk
  <2>2. Live' \subseteq Live /\ Reading' = Reading \ {i} /\ i \in Reading
    BY <2>1 DEF Live, Reading, Only
  <2>3. Cardinality(Live') <= Cardinality(Live) /\ Cardinality(Live') \in Nat
    <3>1. Live \subseteq Instances
      BY DEF Live
    <3> QED
      BY <2>2, <3>1, FewerInstances
  <2>4. Cardinality(Reading') = Cardinality(Reading) - 1
    BY <1>0, <2>2, FS_RemoveElement
  <2>5. \A j \in Instances : app'[j].pending <= operations'
    BY <1>1, <1>2, <2>1
  <2> QED
    BY <1>0, <1>1, <2>1, <2>3, <2>4, <2>5 DEF CountInv
<1>7. CASE IdentityWritten(i)
  <2>1. /\ Only(i) /\ a.step = "WriteIdentity" /\ UNCHANGED <<keys, starts, operations>>
        /\ b.step # "ReadIdentity" /\ b.pending = a.pending
    BY <1>7, IdentityWrittenEffect DEF Proceeds, Fails, SameTalk
  <2> QED
    BY <1>1, <1>3, <2>1
<1>8. CASE LoadTrust(i)
  <2>1. /\ Only(i) /\ a.step = "LoadTrust" /\ UNCHANGED <<keys, starts, operations>>
        /\ b.step # "ReadIdentity" /\ b.pending = a.pending
    BY <1>8, LoadTrustEffect DEF Proceeds, SameTalk, rest
  <2> QED
    BY <1>1, <1>3, <2>1
<1>9. ASSUME NEW k \in Kinds, Listen(i, k) PROVE CountInv'
  <2>0. a.step = k /\ k # "Off" /\ k # "ReadIdentity" /\ a.trial \in Ports
    BY <1>9 DEF Listen, Kinds, Trials
  <2>1. /\ Only(i) /\ UNCHANGED <<keys, starts, operations>>
        /\ b.step # "ReadIdentity" /\ b.pending = a.pending
    <3>1. /\ Only(i) /\ UNCHANGED <<keys, starts, operations>>
          /\ OpenedAs(a, b, k, a.trial) \/ (Proceeds(a, b) /\ b.step = a.step) \/ Fails(a, b)
      BY <1>9, <2>0, ListenEffect
    <3>2. OpenedAs(a, b, k, a.trial) => b.step # "ReadIdentity" /\ b.pending = a.pending
      BY DEF OpenedAs, SameTalk
    <3> QED
      BY <2>0, <3>1, <3>2 DEF Proceeds, Fails, SameTalk
  <2> QED
    BY <1>1, <1>3, <2>0, <2>1
<1>10. CASE Bind(i)
  <2>1. /\ Only(i) /\ a.step = "Bind" /\ UNCHANGED <<keys, starts, operations>>
        /\ b.step # "ReadIdentity" /\ b.pending = a.pending
    BY <1>10, BindEffect DEF rest
  <2> QED
    BY <1>1, <1>3, <2>1
<1>11. CASE StartMishap(i)
  <2>1. /\ Only(i) /\ a.step # "Off" /\ UNCHANGED <<keys, starts, operations>>
        /\ b.step # "ReadIdentity" /\ b.pending = a.pending
    BY <1>11, StartMishapEffect DEF Fails, rest
  <2> QED
    BY <1>1, <1>3, <2>1
<1>12. CASE Quit(i)
  <2>1. /\ Only(i) /\ a.step # "Off" /\ UNCHANGED <<keys, starts, operations>>
        /\ b.step = a.step \/ b.step = "Stuck"
        /\ b.pending = a.pending
    BY <1>12, QuitEffect DEF Quits, Stopped, SameTalk
  <2> QED
    BY <1>1, <1>3, <2>1
<1>13. CASE ControlClosed(i)
  <2>1. /\ Only(i) /\ UNCHANGED <<keys, starts, operations>>
        /\ b.step = a.step /\ b.pending = a.pending
    BY <1>13, ControlClosedEffect DEF Stopped, SameTalk
  <2> QED
    BY <1>1, <1>3, <2>1
<1>14. CASE Exit(i)
  <2>1. Only(i) /\ b = New /\ UNCHANGED <<keys, starts, operations>>
    BY <1>14, ExitEffect DEF Exit
  <2> QED
    BY <1>1, <1>3, <2>1 DEF New
<1>15. CASE FileOperation(i) /\ UNCHANGED <<app, rest>>
  <2>1. Live' = Live /\ Reading' = Reading
    BY <1>15 DEF Live, Reading
  <2> QED
    BY <1>15, <2>1 DEF CountInv, rest
<1>16. CASE FileFails(i)
  <2>1. /\ Only(i) /\ UNCHANGED <<keys, starts, operations>>
        /\ b.step = a.step /\ b.pending = a.pending
    BY <1>16, FileFailsEffect DEF Proceeds, SameTalk, rest
  <2> QED
    BY <1>1, <1>3, <2>1
<1> QED
  BY <1>4, <1>5, <1>6, <1>7, <1>8, <1>9, <1>10, <1>11, <1>12, <1>13, <1>14, <1>15, <1>16, KindFacts
     DEF Doing

-----------------------------------------------------------------------------
(* Types                                                                   *)

LEMMA TypeInit == Init => TypeOK
<1> SUFFICES ASSUME Init PROVE TypeOK
  OBVIOUS
<1>1. StoreTypeOK
  BY StoreInitType DEF Init
<1>2. app \in [Instances -> AppStates]
  BY NewType DEF Init
<1>3. held \in [Kinds -> [Ports -> Instances \cup {Nobody, Other}]]
  BY DEF Init
<1>4. keys = 0 /\ starts = 0 /\ operations = 0 /\ shown = {} /\ raced = FALSE
  BY DEF Init
<1>5. 0 \in 0 .. MaxStarts /\ 0 \in 0 .. MaxOperations
  BY ApplicationAssumption
<1> QED
  BY <1>1, <1>2, <1>3, <1>4, <1>5 DEF TypeOK

LEMMA TypeStep ==
  ASSUME TypeOK, CountInv, Trials, NEW i \in Instances, Doing(i)
  PROVE  TypeOK'
<1>1. /\ StoreTypeOK /\ held \in [Kinds -> [Ports -> Instances \cup {Nobody, Other}]]
      /\ keys \in 0 .. MaxStarts /\ starts \in 0 .. MaxStarts /\ operations \in 0 .. MaxOperations
      /\ shown \subseteq Value /\ raced \in BOOLEAN /\ i \in Calls
      /\ MaxStarts \in Nat /\ MaxOperations \in Nat
  BY ApplicationAssumption DEF TypeOK, Instances
<1>2. UNCHANGED storeVars => StoreTypeOK'
  BY <1>1 DEF storeVars, StoreTypeOK
<1>3. \A j \in Instances : app[j].pending <= operations
  BY DEF CountInv
<1>4. ASSUME Only(i), StoreTypeOK',
             held' \in [Kinds -> [Ports -> Instances \cup {Nobody, Other}]],
             keys' \in 0 .. MaxStarts, starts' \in 0 .. MaxStarts,
             operations' \in 0 .. MaxOperations,
             shown' \subseteq Value, raced' \in BOOLEAN
      PROVE  TypeOK'
  BY <1>4 DEF TypeOK, Only
<1>5. CASE Talk(i)
  <2>1. /\ Only(i) /\ operations' \in 0 .. MaxOperations
        /\ UNCHANGED <<storeVars, held, keys, starts, shown, raced>>
    BY <1>3, <1>5, TalkEffect
  <2> QED
    BY <1>1, <1>2, <1>4, <2>1
<1>6. CASE Launch(i)
  <2>1. Only(i)
    BY <1>6, LaunchEffect
  <2>2. /\ starts' \in 0 .. MaxStarts
        /\ UNCHANGED <<storeVars, held, keys, operations, shown, raced>>
    BY <1>1, <1>6 DEF Launch
  <2> QED
    BY <1>1, <1>2, <1>4, <2>1, <2>2
<1>7. CASE ReadIdentity(i)
  <2>1. Only(i) /\ app[i].step = "ReadIdentity" /\ UNCHANGED <<held, starts, operations>>
    BY <1>7, ReadIdentityEffect
  <2>2. keys + 1 \in 0 .. MaxStarts /\ keys + 1 \in Value
    BY <2>1, KeysCounted
  <2>3. CASE /\ Write(i, keys + 1) /\ keys' = keys + 1 /\ shown' = shown
             /\ raced' = (raced \/ \E j \in Instances : app[j].step = "WriteIdentity")
    <3>1. StoreTypeOK'
      BY <1>1, <2>2, <2>3, WriteType
    <3> QED
      BY <1>1, <1>4, <2>1, <2>2, <2>3, <3>1
  <2>4. CASE /\ Found.state = "Whole" /\ UNCHANGED <<storeVars, keys, raced>>
             /\ shown' = shown \cup {Found.value}
    <3>1. Found.value \in Value
      BY <1>1, <2>4, Findings
    <3>2. StoreTypeOK'
      BY <1>2, <2>4
    <3> QED
      BY <1>1, <1>4, <2>1, <2>4, <3>1, <3>2
  <2>5. CASE UNCHANGED <<storeVars, keys, raced, shown>>
    BY <1>1, <1>2, <1>4, <2>1, <2>5
  <2> QED
    BY <1>7, <2>3, <2>4, <2>5, ReadIdentityEffect
<1>8. CASE IdentityWritten(i)
  <2>1. /\ Only(i) /\ Return(i) /\ UNCHANGED <<held, keys, starts, operations, raced>>
        /\ shown' = shown \/ shown' = shown \cup {value[i]}
    BY <1>8, IdentityWrittenEffect
  <2>2. value[i] \in Value
    BY <1>1 DEF StoreTypeOK
  <2>3. StoreTypeOK'
    BY <1>1, <2>1, ReturnType
  <2> QED
    BY <1>1, <1>4, <2>1, <2>2, <2>3
<1>9. CASE LoadTrust(i) \/ Bind(i) \/ StartMishap(i)
  <2>1. Only(i) /\ UNCHANGED <<storeVars, rest>>
    BY <1>9, LoadTrustEffect, BindEffect, StartMishapEffect
  <2> QED
    BY <1>1, <1>2, <1>4, <2>1 DEF rest
<1>10. ASSUME NEW k \in Kinds, Listen(i, k) PROVE TypeOK'
  <2>1. app[i].trial \in Ports
    BY <1>10 DEF Listen, Trials
  <2>2. /\ Only(i) /\ UNCHANGED <<storeVars, keys, starts, operations, shown, raced>>
        /\ \/ held' = [held EXCEPT ![k] = [@ EXCEPT ![app[i].trial] = i]]
           \/ held' = held
    BY <1>10, <2>1, ListenEffect
  <2>3. held' \in [Kinds -> [Ports -> Instances \cup {Nobody, Other}]]
    BY <1>1, <2>1, <2>2
  <2> QED
    BY <1>1, <1>2, <1>4, <2>2, <2>3
<1>11. CASE Quit(i) \/ ControlClosed(i)
  <2>1. Only(i) /\ UNCHANGED <<storeVars, keys, starts, operations, shown, raced>>
    BY <1>11, QuitEffect, ControlClosedEffect
  <2>2. held' = Released(i, Kinds) \/ held' = Released(i, {"control"})
    BY <1>11, QuitEffect, ControlClosedEffect
  <2>3. held' \in [Kinds -> [Ports -> Instances \cup {Nobody, Other}]]
    BY <2>2, ReleasedHolds, KindFacts
  <2> QED
    BY <1>1, <1>2, <1>4, <2>1, <2>3
<1>12. CASE Exit(i)
  <2>1. /\ Only(i) /\ held' = Released(i, Kinds) /\ EndCallsOf({i})
        /\ UNCHANGED <<keys, starts, operations, shown, raced>>
    BY <1>12, ExitEffect DEF Exit
  <2>2. held' \in [Kinds -> [Ports -> Instances \cup {Nobody, Other}]]
    BY <2>1, ReleasedHolds
  <2>3. StoreTypeOK'
    BY <1>1, <2>1, EndCallsType
  <2> QED
    BY <1>1, <1>4, <2>1, <2>2, <2>3
<1>13. CASE FileOperation(i) /\ UNCHANGED <<app, rest>>
  <2>1. StoreTypeOK'
    BY <1>1, <1>13, FileOperationType
  <2> QED
    BY <1>13, <2>1 DEF TypeOK, rest
<1>14. CASE FileFails(i)
  <2>1. Only(i) /\ FailFileOperation(i) /\ UNCHANGED rest
    BY <1>14, FileFailsEffect
  <2>2. StoreTypeOK'
    BY <1>1, <2>1, FileOperationType
  <2> QED
    BY <1>1, <1>4, <2>1, <2>2 DEF rest
<1> QED
  BY <1>5, <1>6, <1>7, <1>8, <1>9, <1>10, <1>11, <1>12, <1>13, <1>14, KindFacts DEF Doing

-----------------------------------------------------------------------------
(* Ports, the end, and what the window shows                               *)

\* Awaits of the start before the server of the kind k listens.
Before(k) ==
  {"ReadIdentity", "WriteIdentity", "LoadTrust", "control"}
    \cup (IF k = "diagnostics" THEN {"diagnostics"} ELSE {})

\* The ports of a start, by where it is.
Placed(a) ==
  /\ a.step \in Kinds => a.trial \in Ports
  /\ \A k \in Kinds : a.step \in Before(k) \cup {"Off"} => a.port[k] = 0
  /\ a.step \in Before("control") => a.announced = 0
  /\ a.stop = "Closing" =>
       /\ a.port["control"] = 0
       /\ a.step \in {"diagnostics", "Bind", "Ended", "Stuck"}
  /\ a.stop = "No" /\ a.step \in {"diagnostics", "Bind"} => a.port["control"] # 0
  /\ a.stop = "No" /\ a.step = "Bind" => a.port["diagnostics"] # 0
  /\ a.stop = "No" => a.announced = a.port["control"]
  /\ a.stop = "No" /\ a.service = "Ready" => \A k \in Kinds : a.port[k] # 0
  /\ a.service # "Starting" => a.step = "Ended"

\* After a stop that came once the start had ended.
Closed(a) ==
  a.stop # "No" /\ ~a.cutShort =>
    /\ a.step = "Ended" /\ a.discovery \in {"None", "Stopped"}
    /\ a.stop = "Ended" => \A k \in Kinds : a.port[k] = 0

\* The record's share of UserIsTold.
Told(a) ==
  /\ a.step = "Ended" /\ a.stop = "No" /\ a.view # NoView =>
       \/ a.view = Snapshot(a)
       \/ /\ a.error = "None" /\ (a.pending > 0 \/ a.dismissed)
          /\ [a.view EXCEPT !.error = "None"] = Snapshot(a)
  /\ a.service = "Failed" /\ ~a.dismissed => a.error # "None"

\* What is so of the record of each instance.
Sound(a) == Placed(a) /\ Closed(a) /\ Told(a)

LEMMA SoundTrials == (\A i \in Instances : Sound(app[i])) => Trials
  BY DEF Sound, Placed, Trials

LEMMA StepNames ==
  /\ "Ended" \notin Kinds /\ "Bind" \notin Kinds /\ "Stuck" \notin Kinds /\ "Off" \notin Kinds
  /\ \A k \in Kinds : k \in Before(k)
  /\ \A k \in Kinds : k = "control" \/ k = "diagnostics"
  /\ "control" # "diagnostics"
  BY DEF Kinds, Before

LEMMA NewSound == Sound(New) /\ Sound([New EXCEPT !.step = "ReadIdentity"])
<1>1. Placed(New) /\ Placed([New EXCEPT !.step = "ReadIdentity"])
  BY DEF Placed, New, Kinds
<1>2. Closed(New) /\ Closed([New EXCEPT !.step = "ReadIdentity"])
  BY DEF Closed, New
<1>3. Told(New) /\ Told([New EXCEPT !.step = "ReadIdentity"])
  BY DEF Told, New
<1> QED
  BY <1>1, <1>2, <1>3 DEF Sound

\* A cleared error is all that a snapshot may lack.
LEMMA ClearedError ==
  ASSUME NEW a \in AppStates, NEW b \in AppStates, SamePlace(a, b), b.service = a.service,
         b.error = "None", NEW v,
         \/ v = Snapshot(a)
         \/ [v EXCEPT !.error = "None"] = Snapshot(a) /\ a.error = "None"
  PROVE  [v EXCEPT !.error = "None"] = Snapshot(b)
<1>1. CASE v = Snapshot(a)
  BY <1>1 DEF Snapshot, SamePlace
<1>2. CASE [v EXCEPT !.error = "None"] = Snapshot(a) /\ a.error = "None"
  <2>1. Snapshot(a) = Snapshot(b)
    BY <1>2 DEF Snapshot, SamePlace
  <2> QED
    BY <1>2, <2>1
<1> QED
  BY <1>1, <1>2

LEMMA TalkSound ==
  ASSUME NEW a \in AppStates, NEW b \in AppStates, Sound(a), Talks(a, b)
  PROVE  Sound(b)
<1>1. Placed(b)
  BY DEF Sound, Placed, Talks, SamePlace
<1>2. Closed(b)
  BY DEF Sound, Closed, Talks, SamePlace
<1>3. SamePlace(a, b) /\ b.service = a.service
  BY DEF Talks
<1>0. a.service = "Failed" /\ ~a.dismissed => a.error # "None"
  BY DEF Sound, Told
<1>4. CASE /\ Tells(a, b) /\ b.dismissed = a.dismissed
           /\ b.error \in {a.error, "Operation"} \/ a.service = "Ready"
  <2>1. b.stop = "No" /\ b.view # NoView => b.view = Snapshot(b)
    BY <1>3, <1>4 DEF Tells, SamePlace
  <2>2. b.service = "Failed" /\ ~b.dismissed => b.error # "None"
    BY <1>3, <1>4, <1>0
  <2> QED
    BY <1>1, <1>2, <2>1, <2>2 DEF Sound, Told
<1>5. CASE b.view = Snapshot(b) /\ b.error = a.error /\ b.dismissed = a.dismissed
  <2>1. b.service = "Failed" /\ ~b.dismissed => b.error # "None"
    BY <1>3, <1>5, <1>0
  <2> QED
    BY <1>1, <1>2, <1>5, <2>1 DEF Sound, Told
<1>6. CASE /\ b.error = "None" /\ b.view = a.view
           /\ \/ a.service = "Ready" /\ b.pending > 0 /\ b.dismissed = a.dismissed
              \/ b.dismissed
  <2>1. ASSUME b.step = "Ended", b.stop = "No", b.view # NoView
        PROVE  [b.view EXCEPT !.error = "None"] = Snapshot(b)
    <3>1. \/ a.view = Snapshot(a)
          \/ [a.view EXCEPT !.error = "None"] = Snapshot(a) /\ a.error = "None"
      BY <1>3, <1>6, <2>1 DEF Sound, Told, SamePlace
    <3> QED
      BY <1>3, <1>6, <3>1, ClearedError
  <2>2. b.service = "Failed" /\ ~b.dismissed => b.error # "None"
    BY <1>3, <1>6
  <2>3. b.pending > 0 \/ b.dismissed
    BY <1>6
  <2>4. b.error = "None"
    BY <1>6
  <2> QED
    BY <1>1, <1>2, <2>1, <2>2, <2>3, <2>4 DEF Sound, Told
<1> QED
  BY <1>1, <1>2, <1>4, <1>5, <1>6 DEF Sound, Talks

\* A start that fails on its way.
LEMMA FailSound ==
  ASSUME NEW a \in AppStates, NEW b \in AppStates, Sound(a), Fails(a, b), a.step # "Ended"
  PROVE  Sound(b)
<1>1. Placed(b)
  <2>1. \A k \in Kinds : b.step \notin Before(k) \cup {"Off"}
    BY DEF Fails, Before
  <2>2. "control" \in Kinds
    BY KindFacts
  <2> QED
    BY <2>1, <2>2, StepNames DEF Sound, Placed, Fails
<1>2. Closed(b)
  BY DEF Sound, Closed, Fails
<1>3. Told(b)
  BY DEF Told, Fails, Tells
<1> QED
  BY <1>1, <1>2, <1>3 DEF Sound

\* A start that goes on before its first server listens, or from port to port.
LEMMA ProceedSound ==
  ASSUME NEW a \in AppStates, NEW b \in AppStates, Sound(a), Proceeds(a, b),
         \/ a.step \in Before("control") /\ b.step \in Before("control")
         \/ b.step = a.step,
         b.step \in Kinds => b.trial \in Ports
  PROVE  Sound(b)
<1>1. CASE b.step = a.step
  <2>1. Placed(b)
    BY <1>1 DEF Sound, Placed, Proceeds
  <2>2. Closed(b)
    BY <1>1 DEF Sound, Closed, Proceeds
  <2>3. Snapshot(b) = Snapshot(a)
    BY DEF Snapshot, Proceeds, SameTalk
  <2>4. Told(b)
    BY <1>1, <2>3 DEF Sound, Told, Proceeds, SameTalk
  <2> QED
    BY <2>1, <2>2, <2>4 DEF Sound
<1>2. CASE a.step \in Before("control") /\ b.step \in Before("control")
  <2>1. /\ \A k \in Kinds : a.step \in Before(k)
        /\ a.step \notin {"diagnostics", "Bind", "Ended", "Stuck"}
        /\ b.step \notin {"diagnostics", "Bind", "Ended", "Stuck"}
    BY <1>2 DEF Before, Kinds
  <2>2. Placed(b)
    BY <1>2, <2>1 DEF Sound, Placed, Proceeds
  <2>3. Closed(b)
    BY <2>1 DEF Sound, Closed, Proceeds
  <2>4. Told(b)
    BY <2>1 DEF Sound, Told, Proceeds, SameTalk
  <2> QED
    BY <2>2, <2>3, <2>4 DEF Sound
<1> QED
  BY <1>1, <1>2

LEMMA OpenedSound ==
  ASSUME NEW a \in AppStates, NEW b \in AppStates, Sound(a), NEW k \in Kinds, a.step = k,
         NEW p \in Ports, OpenedAs(a, b, k, p)
  PROVE  Sound(b)
<1>1. a.step # "Ended" /\ a.service = "Starting" /\ b.service = "Starting"
      /\ p # 0 /\ 1 \in Ports
  BY StepNames, PortFacts DEF Sound, Placed, OpenedAs
<1>2. b.step \in {"diagnostics", "Bind"} /\ b.stop = a.stop /\ b.cutShort = a.cutShort
  BY DEF OpenedAs
<1>3. Closed(b)
  BY <1>1, <1>2 DEF Sound, Closed
<1>4. Told(b)
  BY <1>1, <1>2 DEF Told
<1>5. CASE k = "control"
  <2>1. /\ b.port["control"] = p /\ b.port["diagnostics"] = a.port["diagnostics"]
        /\ b.announced = p /\ b.step = "diagnostics" /\ b.trial = 1
    BY <1>5, KindFacts, StepNames DEF OpenedAs
  <2>2. a.port["diagnostics"] = 0 /\ a.stop # "Closing"
    BY <1>5, KindFacts DEF Sound, Placed, Before
  <2>3. \A l \in Kinds : b.step \in Before(l) \cup {"Off"} => b.port[l] = 0
    BY <2>1, <2>2, StepNames DEF Before
  <2>4. Placed(b)
    BY <1>1, <1>2, <2>1, <2>2, <2>3 DEF Placed, Before
  <2> QED
    BY <1>3, <1>4, <2>4 DEF Sound
<1>6. CASE k = "diagnostics"
  <2>1. /\ b.port["diagnostics"] = p /\ b.port["control"] = a.port["control"]
        /\ b.announced = a.announced /\ b.step = "Bind"
    BY <1>6, KindFacts, StepNames DEF OpenedAs
  <2>2. \A l \in Kinds : b.step \notin Before(l) \cup {"Off"}
    BY <2>1 DEF Before
  <2>3. /\ a.stop = "Closing" => a.port["control"] = 0
        /\ a.stop = "No" => a.port["control"] # 0 /\ a.announced = a.port["control"]
    BY <1>6 DEF Sound, Placed
  <2>4. b.step \notin Kinds /\ b.step \notin Before("control")
    BY <2>1, StepNames DEF Before
  <2>5. Placed(b)
    BY <1>1, <1>2, <2>1, <2>2, <2>3, <2>4 DEF Placed
  <2> QED
    BY <1>3, <1>4, <2>5 DEF Sound
<1> QED
  BY <1>5, <1>6, StepNames

\* The start has ended well.
LEMMA BindSound ==
  ASSUME TypeOK, NEW i \in Instances, Sound(app[i]), Bind(i)
  PROVE  Sound(app'[i])
<1> DEFINE a == app[i]
           b == app'[i]
<1>1. /\ a.step = "Bind" /\ b.step = "Ended" /\ b.service = "Ready"
      /\ Tells(a, b) /\ b.port = a.port /\ b.announced = a.announced /\ b.stop = a.stop
      /\ b.cutShort = a.cutShort
  BY BindEffect
<1> HIDE DEF a, b
<1>2. /\ a.stop = "Closing" => a.port["control"] = 0
      /\ a.stop = "No" => /\ a.port["control"] # 0 /\ a.port["diagnostics"] # 0
                          /\ a.announced = a.port["control"]
  BY <1>1 DEF Sound, Placed, a
<1>3. b.step \notin Kinds /\ \A k \in Kinds : b.step \notin Before(k) \cup {"Off"}
  BY <1>1, StepNames DEF Before
<1>4. b.step \notin Before("control")
  BY <1>1 DEF Before
<1>5. Placed(b)
  BY <1>1, <1>2, <1>3, <1>4, StepNames DEF Placed
<1>6. Closed(b)
  BY <1>1 DEF Sound, Closed, a
<1>7. Told(b)
  BY <1>1 DEF Told, Tells
<1> QED
  BY <1>5, <1>6, <1>7 DEF Sound, b

LEMMA StoppedSound ==
  ASSUME NEW a \in AppStates, NEW b \in AppStates, Placed(a), Stopped(a, b),
         a.port["control"] = 0,
         ~a.cutShort => a.step = "Ended" /\ a.discovery \in {"None", "Stopped"}
  PROVE  Sound(b)
<1>1. \A k \in Kinds : b.port[k] = 0
  BY StepNames DEF Stopped
<1>2. Placed(b)
  BY <1>1 DEF Placed, Stopped
<1>3. Closed(b)
  BY <1>1 DEF Closed, Stopped
<1>4. Told(b)
  BY DEF Told, Stopped
<1> QED
  BY <1>2, <1>3, <1>4 DEF Sound

LEMMA QuitSound ==
  ASSUME TypeOK, NEW i \in Instances, Sound(app[i]), Quit(i)
  PROVE  Sound(app'[i])
<1> DEFINE a == app[i]
           b == app'[i]
<1>1. a \in AppStates /\ b \in AppStates
  BY QuitEffect DEF TypeOK, Only
<1>2. \A c \in AppStates : Quits(a, c) =>
        /\ c.service # "Starting" => c.step = "Ended"
        /\ ~c.cutShort => c.step = "Ended" /\ c.discovery \in {"None", "Stopped"}
  BY DEF Sound, Placed, Quits
<1>3. ASSUME NEW c \in AppStates, Quits(a, c), a.stop = "No" PROVE Placed(c) \/ a.step = "Bind"
  BY <1>3 DEF Sound, Placed, Quits
<1>4. CASE a.port["control"] = 0
  <2>1. PICK c \in AppStates : Quits(a, c) /\ Stopped(c, b)
    BY <1>4, QuitEffect
  <2>2. a.stop = "No" /\ a.step # "Bind" /\ c.port["control"] = 0
    BY <1>4, <2>1, QuitEffect DEF Sound, Placed, Quits
  <2>3. Placed(c)
    BY <1>3, <2>1, <2>2
  <2> QED
    BY <1>1, <1>2, <2>1, <2>2, <2>3, StoppedSound
<1>5. CASE a.port["control"] # 0
  <2>1. PICK c \in AppStates :
               /\ Quits(a, c)
               /\ b.port["control"] = 0 /\ b.port["diagnostics"] = c.port["diagnostics"]
               /\ b.stop = "Closing" /\ b.service = c.service
               /\ b.step = c.step /\ b.trial = c.trial /\ b.announced = c.announced
               /\ b.discovery = c.discovery /\ b.cutShort = c.cutShort
               /\ b.mishap = c.mishap /\ SameTalk(c, b)
    BY <1>5, QuitEffect
  <2> HIDE DEF b
  <2>2. /\ c.step = (IF a.step = "Bind" THEN "Stuck" ELSE a.step) /\ c.port = a.port
        /\ c.announced = a.announced /\ c.trial = a.trial /\ c.service = a.service
        /\ SameTalk(a, c) /\ a.step \in Steppings
    BY <1>1, <2>1, FieldsOf DEF Quits
  <2> HIDE DEF a
  <2>3. a.step \notin Before("control") \cup {"Off"}
    BY <1>5, KindFacts DEF Sound, Placed, a
  <2>4. b.step \in {"diagnostics", "Ended", "Stuck"}
    BY <2>1, <2>2, <2>3 DEF Before, Steppings
  <2>5. a.step = "diagnostics" => a.port["diagnostics"] = 0 /\ a.trial \in Ports
    BY KindFacts DEF Sound, Placed, Before, a
  <2>6. b.step = "diagnostics" => b.port["diagnostics"] = 0 /\ b.trial \in Ports
    BY <2>1, <2>2, <2>5
  <2>7. \A k \in Kinds : b.step \in Before(k) \cup {"Off"} => b.port[k] = 0
    BY <2>1, <2>4, <2>6, StepNames DEF Before
  <2>8. b.service # "Starting" => b.step = "Ended"
    BY <1>2, <2>1 DEF a
  <2>9. b.step \notin Before("control") /\ (b.step \in Kinds => b.trial \in Ports)
    BY <2>4, <2>6, StepNames DEF Before
  <2>10. Placed(b)
    BY <2>1, <2>4, <2>7, <2>8, <2>9 DEF Placed
  <2>11. Closed(b)
    BY <1>2, <2>1 DEF Closed, a
  <2>12. Told(b)
    BY <2>1, <2>2 DEF Sound, Told, SameTalk, a
  <2> QED
    BY <2>10, <2>11, <2>12 DEF Sound, b
<1> QED
  BY <1>4, <1>5

LEMMA ControlClosedSound ==
  ASSUME TypeOK, NEW i \in Instances, Sound(app[i]), ControlClosed(i)
  PROVE  Sound(app'[i])
<1>1. app[i] \in AppStates /\ app'[i] \in AppStates
  BY ControlClosedEffect DEF TypeOK, Only
<1>2. app[i].stop = "Closing" /\ Stopped(app[i], app'[i])
  BY ControlClosedEffect
<1>3. /\ Placed(app[i]) /\ app[i].port["control"] = 0
      /\ ~app[i].cutShort => app[i].step = "Ended" /\ app[i].discovery \in {"None", "Stopped"}
  BY <1>2 DEF Sound, Placed, Closed
<1> QED
  BY <1>1, <1>2, <1>3, StoppedSound

\* What is held is what the records say.
Holds(i, a, h) == \A k \in Kinds, p \in Ports : h[k][p] = i <=> a.port[k] = p

PortInv ==
  \A i \in Instances : Sound(app[i]) /\ Holds(i, app[i], held)

LEMMA PortInit == Init => PortInv
<1> SUFFICES ASSUME Init, NEW i \in Instances
             PROVE  Sound(app[i]) /\ Holds(i, app[i], held)
  BY DEF PortInv
<1>1. app[i] = New
  BY DEF Init
<1>2. Holds(i, New, held)
  <2>1. \A k \in Kinds : New.port[k] = 0
    BY DEF New
  <2>2. \A k \in Kinds, p \in Ports : held[k][p] \in {Nobody, Other}
    BY DEF Init
  <2>3. held \in [Kinds -> [Ports -> {Nobody, Other}]]
    BY DEF Init
  <2> QED
    BY <2>1, <2>2, HolderFacts, PortFacts DEF Holds
<1> QED
  BY <1>1, <1>2, NewSound

\* Ports an instance takes or gives back change nothing for another.
LEMMA Apart ==
  ASSUME PortInv, NEW i \in Instances, Only(i), Sound(app'[i]), Holds(i, app'[i], held'),
         \A j \in Instances \ {i}, k \in Kinds, p \in Ports : held'[k][p] = j <=> held[k][p] = j
  PROVE  PortInv'
<1> SUFFICES ASSUME NEW j \in Instances
             PROVE  Sound(app'[j]) /\ Holds(j, app'[j], held')
  BY DEF PortInv
<1>1. CASE j = i
  BY <1>1
<1>2. CASE j # i
  <2>1. app'[j] = app[j] /\ Sound(app[j]) /\ Holds(j, app[j], held)
    BY <1>2 DEF Only, PortInv
  <2> QED
    BY <1>2, <2>1 DEF Holds
<1> QED
  BY <1>1, <1>2

LEMMA PortStep ==
  ASSUME TypeOK, CountInv, PortInv, NEW i \in Instances, Doing(i)
  PROVE  PortInv'
<1> DEFINE a == app[i]
           b == app'[i]
<1>0. /\ app \in [Instances -> AppStates] /\ a \in AppStates
      /\ Sound(a) /\ Holds(i, a, held) /\ Trials
      /\ \A j \in Instances : app[j].pending <= operations
  BY SoundTrials DEF TypeOK, PortInv, CountInv
\* Steps that leave the ports alone.
<1>1. ASSUME Only(i), held' = held, Sound(b), b.port = a.port PROVE PortInv'
  <2>1. Holds(i, b, held')
    BY <1>0, <1>1 DEF Holds
  <2> QED
    BY <1>1, <2>1, Apart
<1>2. Only(i) => b \in AppStates
  BY DEF Only
\* Steps that fail.
<1>3. ASSUME Only(i), held' = held, Fails(a, b), a.step # "Ended" PROVE PortInv'
  BY <1>0, <1>1, <1>2, <1>3, FailSound DEF Fails
\* Steps that go on.
<1>4. ASSUME Only(i), held' = held, Proceeds(a, b),
             \/ a.step \in Before("control") /\ b.step \in Before("control")
             \/ b.step = a.step,
             b.step \in Kinds => b.trial \in Ports
      PROVE  PortInv'
  BY <1>0, <1>1, <1>2, <1>4, ProceedSound DEF Proceeds
<1>5. CASE Talk(i)
  <2>1. Only(i) /\ Talks(a, b) /\ held' = held
    BY <1>0, <1>5, TalkEffect
  <2> QED
    BY <1>0, <1>1, <1>2, <2>1, TalkSound DEF Talks, SamePlace
<1>6. CASE Launch(i)
  <2>1. Only(i) /\ a.step = "Off" /\ b = [New EXCEPT !.step = "ReadIdentity"] /\ held' = held
    BY <1>6, LaunchEffect DEF Launch
  <2>2. \A k \in Kinds : a.port[k] = 0 /\ b.port[k] = 0
    BY <1>0, <2>1 DEF Sound, Placed, New
  <2>3. Holds(i, b, held')
    BY <1>0, <2>1, <2>2 DEF Holds
  <2> QED
    BY <2>1, <2>3, NewSound, Apart
<1>7. CASE ReadIdentity(i)
  <2>1. /\ Only(i) /\ a.step = "ReadIdentity" /\ held' = held
        /\ \/ Proceeds(a, b) /\ b.step \in {"WriteIdentity", "LoadTrust"}
           \/ Fails(a, b)
    BY <1>7, ReadIdentityEffect
  <2> QED
    BY <1>3, <1>4, <2>1 DEF Before, Kinds
<1>8. CASE IdentityWritten(i)
  <2>1. /\ Only(i) /\ a.step = "WriteIdentity" /\ held' = held
        /\ \/ Proceeds(a, b) /\ b.step = "LoadTrust"
           \/ Fails(a, b)
    BY <1>8, IdentityWrittenEffect
  <2> QED
    BY <1>3, <1>4, <2>1 DEF Before, Kinds
<1>9. CASE LoadTrust(i)
  <2>1. /\ Only(i) /\ a.step = "LoadTrust" /\ held' = held
        /\ Proceeds(a, b) /\ b.step = "control" /\ b.trial = 1
    BY <1>9, LoadTrustEffect DEF rest
  <2> QED
    BY <1>4, <2>1, PortFacts DEF Before
<1>10. ASSUME NEW k \in Kinds, Listen(i, k) PROVE PortInv'
  <2>1. a.step = k /\ a.trial \in Ports /\ a.step # "Ended"
    BY <1>0, <1>10, StepNames DEF Listen, Trials
  <2> DEFINE p == a.trial
  <2>2. CASE /\ held[k][p] = Nobody
             /\ held' = [held EXCEPT ![k] = [@ EXCEPT ![p] = i]]
             /\ OpenedAs(a, b, k, p)
    <3>1. Only(i) /\ b \in AppStates
      BY <1>2, <1>10, <2>1, ListenEffect
    <3>2. Sound(b)
      BY <1>0, <2>1, <2>2, <3>1, OpenedSound
    <3>3. a.port[k] = 0
      BY <1>0, <2>1, StepNames DEF Sound, Placed
    <3>4. /\ held'[k][p] = i /\ held[k][p] = Nobody
          /\ \A l \in Kinds, q \in Ports : l # k \/ q # p => held'[l][q] = held[l][q]
      BY <2>1, <2>2 DEF TypeOK
    <3>5. /\ b.port[k] = p /\ \A l \in Kinds \ {k} : b.port[l] = a.port[l]
      BY <2>2 DEF OpenedAs
    <3> HIDE DEF a, b, p
    <3>6. \A q \in Ports : held[k][q] # i
      <4>1. \A q \in Ports : held[k][q] = i <=> a.port[k] = q
        BY <1>0 DEF Holds
      <4>2. \A q \in Ports : q # 0
        BY PortFacts
      <4> QED
        BY <3>3, <4>1, <4>2
    <3>7. Holds(i, b, held')
      <4> SUFFICES ASSUME NEW l \in Kinds, NEW q \in Ports
                   PROVE  held'[l][q] = i <=> b.port[l] = q
        BY DEF Holds
      <4>1. CASE l = k
        BY <3>4, <3>5, <3>6, <4>1
      <4>2. CASE l # k
        BY <1>0, <3>4, <3>5, <4>2 DEF Holds
      <4> QED
        BY <4>1, <4>2
    <3>8. \A j \in Instances \ {i}, l \in Kinds, q \in Ports : held'[l][q] = j <=> held[l][q] = j
      BY <3>4, HolderFacts
    <3> QED
      BY <3>1, <3>2, <3>7, <3>8, Apart DEF b
  <2>3. CASE /\ held' = held /\ p # LastPort
             /\ Proceeds(a, b) /\ b.step = a.step /\ b.trial = p + 1
    <3>1. Only(i) /\ p + 1 \in Ports
      BY <1>10, <2>1, <2>3, ListenEffect, PortFacts
    <3> QED
      BY <1>4, <2>3, <3>1
  <2>4. CASE held' = held /\ Fails(a, b)
    <3>1. Only(i)
      BY <1>10, <2>1, ListenEffect
    <3> QED
      BY <1>3, <2>1, <2>4, <3>1
  <2> QED
    BY <1>10, <2>1, <2>2, <2>3, <2>4, ListenEffect
<1>11. CASE Bind(i)
  <2>1. Only(i) /\ held' = held /\ b.port = a.port
    BY <1>11, BindEffect DEF rest
  <2> QED
    BY <1>0, <1>1, <1>11, <2>1, BindSound
<1>12. CASE StartMishap(i)
  <2>1. Only(i) /\ a.step # "Ended" /\ held' = held /\ Fails(a, b)
    BY <1>12, StartMishapEffect DEF rest
  <2> QED
    BY <1>3, <2>1
<1>13. ASSUME Only(i), Sound(b), NEW K \in SUBSET Kinds, held' = Released(i, K),
              \A k \in Kinds : b.port[k] = (IF k \in K THEN 0 ELSE a.port[k])
       PROVE  PortInv'
  <2>1. Holds(i, b, held')
    <3> SUFFICES ASSUME NEW k \in Kinds, NEW p \in Ports
                 PROVE  held'[k][p] = i <=> b.port[k] = p
      BY DEF Holds
    <3>1. CASE k \in K
      <4>1. held'[k][p] # i /\ b.port[k] = 0
        BY <1>13, <3>1, ReleasedHolds
      <4> QED
        BY <4>1, PortFacts
    <3>2. CASE k \notin K
      <4>1. held'[k][p] = held[k][p] /\ b.port[k] = a.port[k]
        BY <1>13, <3>2, ReleasedHolds
      <4> QED
        BY <1>0, <4>1 DEF Holds
    <3> QED
      BY <3>1, <3>2
  <2>2. \A j \in Instances \ {i}, k \in Kinds, p \in Ports : held'[k][p] = j <=> held[k][p] = j
    BY <1>13, ReleasedHolds
  <2> QED
    BY <1>13, <2>1, <2>2, Apart
<1>14. CASE Quit(i)
  <2>1. Only(i) /\ Sound(b)
    BY <1>0, <1>14, QuitEffect, QuitSound
  <2>2. CASE a.port["control"] = 0
    <3>1. PICK c \in AppStates : Quits(a, c) /\ Stopped(c, b)
      BY <1>14, <2>2, QuitEffect
    <3>2. held' = Released(i, Kinds)
      BY <1>14, <2>2, QuitEffect
    <3>3. \A k \in Kinds : b.port[k] = 0
      BY <2>2, <3>1, StepNames DEF Quits, Stopped
    <3> QED
      BY <1>13, <2>1, <3>2, <3>3
  <2>3. CASE a.port["control"] # 0
    <3>1. PICK c \in AppStates :
               /\ Quits(a, c)
               /\ b.port["control"] = 0 /\ b.port["diagnostics"] = c.port["diagnostics"]
      BY <1>14, <2>3, QuitEffect
    <3>2. held' = Released(i, {"control"})
      BY <1>14, <2>3, QuitEffect
    <3>3. \A k \in Kinds : b.port[k] = (IF k \in {"control"} THEN 0 ELSE a.port[k])
      BY <3>1, StepNames DEF Quits
    <3> QED
      BY <1>13, <2>1, <3>2, <3>3, KindFacts
  <2> QED
    BY <2>2, <2>3
<1>15. CASE ControlClosed(i)
  <2>1. Only(i) /\ Sound(b) /\ held' = Released(i, Kinds) /\ Stopped(a, b) /\ a.stop = "Closing"
    BY <1>0, <1>15, ControlClosedEffect, ControlClosedSound
  <2>2. \A k \in Kinds : b.port[k] = 0
    BY <1>0, <2>1, StepNames DEF Stopped, Sound, Placed
  <2> QED
    BY <1>13, <2>1, <2>2
<1>16. CASE Exit(i)
  <2>1. Only(i) /\ b = New /\ held' = Released(i, Kinds)
    BY <1>16, ExitEffect DEF Exit
  <2>2. \A k \in Kinds : b.port[k] = 0
    BY <2>1 DEF New
  <2> QED
    BY <1>13, <2>1, <2>2, NewSound
<1>17. CASE FileOperation(i) /\ UNCHANGED <<app, rest>>
  BY <1>17 DEF PortInv, rest
<1>18. CASE FileFails(i)
  <2>1. Only(i) /\ held' = held /\ Proceeds(a, b) /\ b.step = a.step /\ b.trial = a.trial
    BY <1>18, FileFailsEffect DEF rest
  <2> QED
    BY <1>0, <1>4, <2>1 DEF Trials
<1> QED
  BY <1>5, <1>6, <1>7, <1>8, <1>9, <1>10, <1>11, <1>12, <1>14, <1>15, <1>16, <1>17, <1>18, KindFacts
     DEF Doing

-----------------------------------------------------------------------------
(* Ports, the end and the window: theorems                                 *)

BaseInv == TypeOK /\ CountInv /\ PortInv

LEMMA BaseInit == Init => BaseInv
<1> SUFFICES ASSUME Init PROVE CountInv
  BY TypeInit, PortInit DEF BaseInv
<1>1. \A i \in Instances : app[i] = New
  BY DEF Init
<1>2. Live = {} /\ Reading = {} /\ \A i \in Instances : app[i].pending = 0
  BY <1>1 DEF Live, Reading, New
<1>3. Cardinality({}) = 0
  BY FS_EmptySet
<1>4. keys = 0 /\ starts = 0 /\ operations = 0
  BY DEF Init
<1> QED
  BY <1>2, <1>3, <1>4 DEF CountInv

LEMMA BaseStep == BaseInv /\ [Next]_vars => BaseInv'
<1> SUFFICES ASSUME BaseInv, [Next]_vars PROVE BaseInv'
  OBVIOUS
<1>1. ASSUME NEW i \in Instances, Doing(i) PROVE BaseInv'
  <2>1. Trials
    BY SoundTrials DEF BaseInv, PortInv
  <2> QED
    BY <1>1, <2>1, TypeStep, CountStep, PortStep DEF BaseInv
<1>2. CASE UNCHANGED vars
  <2>1. TypeOK'
    BY <1>2 DEF BaseInv, TypeOK, StoreTypeOK, vars, storeVars, rest
  <2>2. CountInv'
    BY <1>2 DEF BaseInv, CountInv, Live, Reading, vars, rest
  <2>3. PortInv'
    BY <1>2 DEF BaseInv, PortInv, vars, rest
  <2> QED
    BY <2>1, <2>2, <2>3 DEF BaseInv
<1> QED
  BY <1>1, <1>2, Doings

LEMMA BaseHolds == Spec => []BaseInv
  BY BaseInit, BaseStep, PTL DEF Spec

\* Every variable stays in its set: in particular there are never more key
\* pairs than starts, and a port that is tried exists.
THEOREM TypeCorrect == Spec => []TypeOK
<1>1. BaseInv => TypeOK
  BY DEF BaseInv
<1> QED
  BY <1>1, BaseHolds, PTL

LEMMA ServesHolds == BaseInv => ReadyServes
<1> SUFFICES ASSUME BaseInv, NEW i \in Instances, app[i].service = "Ready", app[i].stop = "No"
             PROVE  /\ \A k \in Kinds : app[i].port[k] # 0 /\ held[k][app[i].port[k]] = i
                    /\ app[i].discovery = "Running" => app[i].announced = app[i].port["control"]
  BY DEF ReadyServes
<1>1. Placed(app[i]) /\ Holds(i, app[i], held)
  BY DEF BaseInv, PortInv, Sound
<1>2. app[i].port \in [Kinds -> {0} \cup Ports]
  BY FieldsOf DEF BaseInv, TypeOK
<1>3. \A k \in Kinds : app[i].port[k] # 0
  BY <1>1 DEF Placed
<1>4. \A k \in Kinds : held[k][app[i].port[k]] = i
  BY <1>1, <1>2, <1>3 DEF Holds
<1> QED
  BY <1>1, <1>3, <1>4 DEF Placed

\* A ready service listens on the two ports it shows, and discovery announces
\* the one that is open (start, ControlServer), for any number of instances
\* and ports.
THEOREM ReadyServesHolds == Spec => []ReadyServes
  BY ServesHolds, BaseHolds, PTL

LEMMA ClosesHolds == BaseInv => ClosedAfterStop
<1> SUFFICES ASSUME BaseInv, NEW i \in Instances, app[i].stop = "Ended", ~app[i].cutShort
             PROVE  /\ \A k \in Kinds, p \in Ports : held[k][p] # i
                    /\ app[i].discovery # "Running"
  BY DEF ClosedAfterStop
<1>1. Closed(app[i]) /\ Holds(i, app[i], held)
  BY DEF BaseInv, PortInv, Sound
<1>2. (\A k \in Kinds : app[i].port[k] = 0) /\ app[i].discovery # "Running"
  BY <1>1 DEF Closed
<1> QED
  BY <1>1, <1>2, PortFacts DEF Holds

\* stop closes whatever the start had opened, also when the start had failed
\* half-way (stop, before-quit).
THEOREM ClosedAfterStopHolds == Spec => []ClosedAfterStop
  BY ClosesHolds, BaseHolds, PTL

LEMMA TellsHolds == BaseInv => UserIsTold
  BY DEF BaseInv, PortInv, Sound, Told, UserIsTold, WindowCurrent, FailedSaysWhy

\* The window shows what is once the start has ended, and a service that failed
\* says why (notifyListeners, performOperation, disconnect).
THEOREM UserIsToldHolds == Spec => []UserIsTold
  BY TellsHolds, BaseHolds, PTL

-----------------------------------------------------------------------------
(* The identity                                                            *)

\* Why every start works under one identity: as long as nobody has found no
\* file while another was writing the first one, there is one writer, it
\* writes only while there is no file, and nothing has been shown before.
FileInv ==
  /\ \A i \in Instances : call[i] # "Idle" => app[i].step = "WriteIdentity"
  /\ overlapped => raced
  /\ ~raced =>
       /\ \A i, j \in Instances :
            app[i].step = "WriteIdentity" /\ app[j].step = "WriteIdentity" => i = j
       /\ file = 0 => shown = {}
       /\ file # 0 => shown \subseteq {Found.value}
       /\ \A i \in Instances :
            /\ Pending(i) => file = 0
            /\ call[i] = "Done" => file # 0 /\ value[i] = Found.value
            /\ call[i] = "Failed" => app[i].mishap

IdentityInv == WholeInv /\ FileInv

LEMMA FileInit == Init => IdentityInv
<1> SUFFICES ASSUME Init PROVE FileInv
  BY WholeInit DEF Init, IdentityInv
<1>1. /\ \A i \in Instances : call[i] = "Idle"
      /\ \A i \in Instances : app[i].step = "Off"
      /\ overlapped = FALSE /\ file = 0 /\ shown = {}
  BY DEF Init, StoreInit, Instances, New
<1> QED
  BY <1>1 DEF FileInv, Pending

\* A rename by the only writer finds its temporary file.
LEMMA RenameSucceeds ==
  ASSUME StoreTypeOK, OneWriter, NEW c \in Calls, FileOperation(c)
  PROVE  call'[c] # "Failed"
<1>1. call[c] = "Rename" => tmp # 0
  BY DEF OneWriter
<1> QED
  BY <1>1 DEF FileOperation, MakeDirectory, OpenTemporary, WriteTemporary, Rename, StoreTypeOK

\* Steps that leave the file and the writing of the identity alone.
LEMMA FileKeeps ==
  ASSUME IdentityInv, NEW i \in Instances, Only(i), UNCHANGED <<storeVars, shown, raced>>,
         app'[i].step = "WriteIdentity" <=> app[i].step = "WriteIdentity",
         app'[i].step = "WriteIdentity" => (app[i].mishap => app'[i].mishap)
  PROVE  IdentityInv'
<1>1. WholeInv'
  BY WholeStutters DEF IdentityInv
<1>2. /\ UNCHANGED <<call, value, file, data, overlapped, shown, raced>>
      /\ Found' = Found /\ \A c \in Calls : Pending(c)' <=> Pending(c)
  BY DEF storeVars, Found, Pending
<1>3. \A j \in Instances :
        /\ app'[j].step = "WriteIdentity" <=> app[j].step = "WriteIdentity"
        /\ app'[j].step = "WriteIdentity" => (app[j].mishap => app'[j].mishap)
  BY DEF Only
<1>4. /\ \A j \in Instances : call[j] # "Idle" => app[j].step = "WriteIdentity"
      /\ overlapped => raced
  BY DEF IdentityInv, FileInv
<1>5. ASSUME ~raced
      PROVE /\ \A j, k \in Instances :
                 app[j].step = "WriteIdentity" /\ app[k].step = "WriteIdentity" => j = k
            /\ file = 0 => shown = {}
            /\ file # 0 => shown \subseteq {Found.value}
            /\ \A j \in Instances :
                 /\ Pending(j) => file = 0
                 /\ call[j] = "Done" => file # 0 /\ value[j] = Found.value
                 /\ call[j] = "Failed" => app[j].mishap
  BY <1>5 DEF IdentityInv, FileInv
<1>6. FileInv'
  <2>1. \A j \in Instances : call'[j] # "Idle" => app'[j].step = "WriteIdentity"
    BY <1>2, <1>3, <1>4
  <2>2. \A j \in Instances : Pending(j)' <=> Pending(j)
    BY <1>2 DEF Instances
  <2>3. ASSUME ~raced' PROVE \A j \in Instances : call'[j] = "Failed" => app'[j].mishap
    BY <1>2, <1>3, <1>5, <2>1, <2>3
  <2>4. ASSUME ~raced'
        PROVE  \A j, k \in Instances :
                 app'[j].step = "WriteIdentity" /\ app'[k].step = "WriteIdentity" => j = k
    BY <1>2, <1>3, <1>5, <2>4
  <2> QED
    BY <1>2, <1>4, <1>5, <2>1, <2>2, <2>3, <2>4 DEF FileInv
<1> QED
  BY <1>1, <1>6 DEF IdentityInv

\* The calls of the other instances go on as they were, and the file stays.
LEMMA FileApart ==
  ASSUME IdentityInv, NEW i \in Instances, Only(i), raced => raced',
         UNCHANGED <<file, data, overlapped>>,
         \A j \in Instances \ {i} : call'[j] = call[j] /\ value'[j] = value[j],
         WholeInv', overlapped' => raced',
         call'[i] # "Idle" => app'[i].step = "WriteIdentity",
         ~raced' => /\ app'[i].step = "WriteIdentity" =>
                         \A j \in Instances \ {i} : app[j].step # "WriteIdentity"
                    /\ file = 0 => shown' = {}
                    /\ file # 0 => shown' \subseteq {Found.value}
                    /\ Pending(i)' => file = 0
                    /\ call'[i] \notin {"Done", "Failed"}
  PROVE  IdentityInv'
<1>1. Found' = Found
  BY DEF Found
<1>2. \A j \in Instances \ {i} : (Pending(j)' <=> Pending(j)) /\ app'[j] = app[j]
  BY DEF Pending, Only
<1>3. /\ \A j \in Instances : call[j] # "Idle" => app[j].step = "WriteIdentity"
      /\ ~raced =>
           /\ \A j, k \in Instances :
                app[j].step = "WriteIdentity" /\ app[k].step = "WriteIdentity" => j = k
           /\ \A j \in Instances :
                /\ Pending(j) => file = 0
                /\ call[j] = "Done" => file # 0 /\ value[j] = Found.value
                /\ call[j] = "Failed" => app[j].mishap
  BY DEF IdentityInv, FileInv
<1>4. \A j \in Instances : call'[j] # "Idle" => app'[j].step = "WriteIdentity"
  BY <1>2, <1>3
<1>5. ASSUME ~raced'
      PROVE /\ \A j, k \in Instances :
                 app'[j].step = "WriteIdentity" /\ app'[k].step = "WriteIdentity" => j = k
            /\ \A j \in Instances :
                /\ Pending(j)' => file' = 0
                /\ call'[j] = "Done" => file' # 0 /\ value'[j] = Found'.value
                /\ call'[j] = "Failed" => app'[j].mishap
  <2>1. ~raced
    BY <1>5
  <2>2. \A j, k \in Instances :
          app'[j].step = "WriteIdentity" /\ app'[k].step = "WriteIdentity" => j = k
    BY <1>2, <1>3, <1>5, <2>1
  <2>3. ASSUME NEW j \in Instances
        PROVE  /\ Pending(j)' => file' = 0
               /\ call'[j] = "Done" => file' # 0 /\ value'[j] = Found'.value
               /\ call'[j] = "Failed" => app'[j].mishap
    <3>1. CASE j = i
      BY <1>5, <3>1
    <3>2. CASE j # i
      BY <1>1, <1>2, <1>3, <2>1, <3>2
    <3> QED
      BY <3>1, <3>2
  <2> QED
    BY <2>2, <2>3
<1>6. ~raced' => /\ file' = 0 => shown' = {}
                 /\ file' # 0 => shown' \subseteq {Found'.value}
  BY <1>1
<1>7. FileInv'
  BY <1>4, <1>5, <1>6 DEF FileInv
<1> QED
  BY <1>7 DEF IdentityInv

LEMMA FileStep ==
  ASSUME BaseInv, IdentityInv, NEW i \in Instances, Doing(i)
  PROVE  IdentityInv'
<1> DEFINE a == app[i]
           b == app'[i]
<1>0. /\ TypeOK /\ StoreTypeOK /\ Trials /\ i \in Calls /\ WholeInv
      /\ \A j \in Instances : app[j].pending <= operations
  BY SoundTrials DEF BaseInv, TypeOK, PortInv, CountInv, Instances, IdentityInv
<1>1. /\ \A j \in Instances : call[j] # "Idle" => app[j].step = "WriteIdentity"
      /\ overlapped => raced
      /\ ~raced =>
           /\ \A j, k \in Instances :
                app[j].step = "WriteIdentity" /\ app[k].step = "WriteIdentity" => j = k
           /\ file = 0 => shown = {}
           /\ file # 0 => shown \subseteq {Found.value}
           /\ \A j \in Instances :
                /\ Pending(j) => file = 0
                /\ call[j] = "Done" => file # 0 /\ value[j] = Found.value
                /\ call[j] = "Failed" => app[j].mishap
  BY DEF IdentityInv, FileInv
<1>2. CASE Talk(i)
  <2>1. Only(i) /\ Talks(a, b) /\ UNCHANGED <<storeVars, shown, raced>>
    BY <1>0, <1>2, TalkEffect
  <2> QED
    BY <2>1, FileKeeps DEF Talks, SamePlace
<1>3. CASE Launch(i)
  <2>0. [New EXCEPT !.step = "ReadIdentity"].step = "ReadIdentity"
    BY DEF New
  <2>1. /\ Only(i) /\ a.step = "Off" /\ b.step = "ReadIdentity"
        /\ UNCHANGED <<storeVars, shown, raced>>
    BY <1>0, <1>3, <2>0, LaunchEffect DEF Launch
  <2> QED
    BY <2>1, FileKeeps
<1>4. CASE ReadIdentity(i)
  <2>1. Only(i) /\ a.step = "ReadIdentity"
    BY <1>0, <1>4, ReadIdentityEffect
  <2>2. CASE /\ Found.state = "Missing" /\ Write(i, keys + 1) /\ b.step = "WriteIdentity"
             /\ shown' = shown
             /\ raced' = (raced \/ \E j \in Instances : app[j].step = "WriteIdentity")
    <3>1. keys + 1 \in Value
      BY <1>0, <2>1, KeysCounted DEF BaseInv
    <3>2. WholeInv'
      BY <1>0, <2>2, WholeWrite
    <3>3. /\ Pending(i)' /\ call'[i] = "MakeDirectory"
          /\ \A j \in Calls : j # i => call'[j] = call[j] /\ value'[j] = value[j]
          /\ UNCHANGED <<file, data>>
          /\ overlapped' = (overlapped \/ \E j \in Calls : Pending(j))
      BY <1>0, <2>2, Writes DEF Write
    <3>4. file = 0
      BY <1>0, <2>2, Findings
    <3>5. overlapped' => raced'
      BY <1>1, <2>2, <3>3 DEF Pending, Instances
    <3>6. FileInv'
      <4>1. \A j \in Instances : j # i => app'[j] = app[j] /\ call'[j] = call[j] /\ value'[j] = value[j]
        BY <2>1, <3>3 DEF Only, Instances
      <4>2. \A j \in Instances : call'[j] # "Idle" => app'[j].step = "WriteIdentity"
        BY <1>1, <2>2, <4>1
      <4>3. ASSUME ~raced'
            PROVE /\ \A j, k \in Instances :
                       app'[j].step = "WriteIdentity" /\ app'[k].step = "WriteIdentity" => j = k
                  /\ file' = 0 => shown' = {}
                  /\ file' # 0 => shown' \subseteq {Found'.value}
                  /\ \A j \in Instances :
                       /\ Pending(j)' => file' = 0
                       /\ call'[j] \notin {"Done", "Failed"}
        <5>1. ~raced /\ \A j \in Instances : app[j].step # "WriteIdentity"
          BY <2>2, <4>3
        <5>2. \A j \in Instances : j # i => call'[j] = "Idle"
          BY <1>1, <4>1, <5>1
        <5>3. \A j \in Instances : j # i => app'[j].step # "WriteIdentity"
          BY <4>1, <5>1
        <5> QED
          BY <1>1, <2>2, <3>3, <3>4, <5>1, <5>2, <5>3
      <4> QED
        BY <3>5, <4>2, <4>3 DEF FileInv
    <3> QED
      BY <3>2, <3>6 DEF IdentityInv
  <2>3. CASE /\ Found.state = "Whole" /\ UNCHANGED <<storeVars, raced>>
             /\ b.step = "LoadTrust" /\ shown' = shown \cup {Found.value}
    <3>1. /\ UNCHANGED <<call, value, file, data, overlapped, raced>> /\ WholeInv'
          /\ call[i] = "Idle" /\ file # 0
      BY <1>0, <1>1, <2>1, <2>3, Findings, WholeStutters DEF storeVars
    <3>2. ~raced => shown' \subseteq {Found.value}
      BY <1>1, <2>3, <3>1
    <3>3. \A j \in Instances \ {i} : call'[j] = call[j] /\ value'[j] = value[j]
      BY <3>1
    <3> QED
      BY <1>1, <2>1, <2>3, <3>1, <3>2, <3>3, FileApart DEF Pending
  <2>4. CASE UNCHANGED <<storeVars, raced, shown>> /\ Fails(a, b)
    BY <2>1, <2>4, FileKeeps DEF Fails
  <2> QED
    BY <1>0, <1>4, <2>2, <2>3, <2>4, ReadIdentityEffect
<1>5. CASE IdentityWritten(i)
  <2>1. /\ Only(i) /\ a.step = "WriteIdentity" /\ Return(i) /\ raced' = raced
        /\ \/ /\ call[i] = "Done" /\ shown' = shown \cup {value[i]} /\ b.step = "LoadTrust"
           \/ shown' = shown /\ Fails(a, b)
    BY <1>0, <1>5, IdentityWrittenEffect
  <2>2. /\ UNCHANGED <<file, data, overlapped>> /\ WholeInv' /\ call'[i] = "Idle"
        /\ \A j \in Instances \ {i} : call'[j] = call[j] /\ value'[j] = value[j]
    BY <1>0, <2>1, WholeReturn DEF Return, StoreTypeOK, Instances
  <2>3. b.step # "WriteIdentity" /\ ~Pending(i)'
    BY <2>1, <2>2 DEF Fails, Pending
  <2>4. ASSUME ~raced
        PROVE  /\ file = 0 => shown' = {}
               /\ file # 0 => shown' \subseteq {Found.value}
    BY <1>1, <2>1, <2>4
  <2> QED
    BY <1>1, <2>1, <2>2, <2>3, <2>4, FileApart
<1>6. CASE LoadTrust(i) \/ Bind(i) \/ StartMishap(i)
  <2>1. /\ Only(i) /\ a.step # "WriteIdentity" /\ b.step # "WriteIdentity"
        /\ UNCHANGED <<storeVars, shown, raced>>
    BY <1>0, <1>6, LoadTrustEffect, BindEffect, StartMishapEffect DEF rest, Fails
  <2> QED
    BY <2>1, FileKeeps
<1>7. ASSUME NEW k \in Kinds, Listen(i, k) PROVE IdentityInv'
  <2>0. a.step = k /\ k # "WriteIdentity" /\ a.trial \in Ports
    BY <1>0, <1>7 DEF Listen, Kinds, Trials
  <2>1. /\ Only(i) /\ UNCHANGED <<storeVars, shown, raced>>
        /\ OpenedAs(a, b, k, a.trial) \/ b.step = a.step \/ Fails(a, b)
    BY <1>0, <1>7, <2>0, ListenEffect
  <2>2. b.step # "WriteIdentity"
    BY <2>0, <2>1 DEF OpenedAs, Fails
  <2> QED
    BY <2>0, <2>1, <2>2, FileKeeps
<1>8. CASE Quit(i)
  <2>1. /\ Only(i) /\ UNCHANGED <<storeVars, shown, raced>>
        /\ b.step = (IF a.step = "Bind" THEN "Stuck" ELSE a.step) /\ b.mishap = a.mishap
    BY <1>0, <1>8, QuitEffect DEF Quits, Stopped
  <2> QED
    BY <2>1, FileKeeps
<1>9. CASE ControlClosed(i)
  <2>1. /\ Only(i) /\ UNCHANGED <<storeVars, shown, raced>>
        /\ b.step = a.step /\ b.mishap = a.mishap
    BY <1>0, <1>9, ControlClosedEffect DEF Stopped
  <2> QED
    BY <2>1, FileKeeps
<1>10. CASE Exit(i)
  <2>0. New.step = "Off"
    BY DEF New
  <2>1. /\ Only(i) /\ b.step = "Off" /\ EndCallsOf({i}) /\ UNCHANGED <<shown, raced>>
    BY <1>0, <1>10, <2>0, ExitEffect DEF Exit
  <2>2. /\ UNCHANGED <<file, data, overlapped>> /\ WholeInv' /\ call'[i] = "Idle"
        /\ \A j \in Instances \ {i} : call'[j] = call[j] /\ value'[j] = value[j]
    BY <1>0, <2>1, WholeEndCalls DEF EndCallsOf, Instances
  <2>3. ~Pending(i)'
    BY <2>2 DEF Pending
  <2> QED
    BY <1>1, <2>1, <2>2, <2>3, FileApart
\* The writer writes on, and its value comes to be the file's.
<1>11. ASSUME FileOperation(i) \/ (FailFileOperation(i) /\ app'[i].mishap),
              UNCHANGED <<shown, raced>>, \A j \in Instances : app'[j].step = app[j].step
       PROVE  IdentityInv'
  <2>1. WholeInv'
    BY <1>0, <1>11, WholeFileOperation
  <2>2. Pending(i) /\ UNCHANGED <<value, overlapped>>
        /\ \A j \in Calls : j # i => call'[j] = call[j]
    BY <1>0, <1>11 DEF FileOperation, MakeDirectory, OpenTemporary, WriteTemporary, Rename,
         FailFileOperation, Pending, StoreTypeOK
  <2>3. \A j \in Instances : call'[j] # "Idle" => app'[j].step = "WriteIdentity"
    BY <1>1, <1>11, <2>2 DEF Pending, Instances
  <2>4. overlapped' => raced'
    BY <1>1, <1>11, <2>2
  <2>5. ASSUME ~raced'
        PROVE /\ \A j, k \in Instances :
                   app'[j].step = "WriteIdentity" /\ app'[k].step = "WriteIdentity" => j = k
              /\ file' = 0 => shown' = {}
              /\ file' # 0 => shown' \subseteq {Found'.value}
              /\ \A j \in Instances :
                   /\ Pending(j)' => file' = 0
                   /\ call'[j] = "Done" => file' # 0 /\ value'[j] = Found'.value
                   /\ call'[j] = "Failed" => app'[j].mishap
    <3>1. ~raced /\ ~overlapped /\ OneWriter
      BY <1>0, <1>1, <1>11, <2>5 DEF WholeInv
    <3>2. file = 0 /\ shown' = {}
      BY <1>1, <1>11, <2>2, <3>1
    <3>3. \A j, k \in Instances :
            app'[j].step = "WriteIdentity" /\ app'[k].step = "WriteIdentity" => j = k
      BY <1>1, <1>11, <3>1
    <3>4. \A j \in Instances : j # i => call'[j] = "Idle"
      BY <1>1, <2>2, <3>1 DEF Pending, Instances
    <3>5. /\ \/ /\ call'[i] = "Failed" \/ Pending(i)'
                /\ call'[i] # "Done" /\ file' = 0
             \/ /\ call'[i] = "Done"
                /\ file' # 0 /\ data'[file'] = Whole(value[i])
      BY <1>0, <1>11, <3>1, <3>2, FileChanges
    <3>6. call'[i] = "Failed" => app'[i].mishap
      BY <1>0, <1>11, <3>1, RenameSucceeds
    <3>7. call'[i] = "Done" => Found'.value = value'[i]
      BY <2>2, <3>5 DEF Found, Whole
    <3>8. Pending(i)' => file' = 0
      BY <3>5 DEF Pending
    <3>9. \A j \in Instances :
            /\ Pending(j)' => file' = 0
            /\ call'[j] = "Done" => file' # 0 /\ value'[j] = Found'.value
            /\ call'[j] = "Failed" => app'[j].mishap
      BY <3>4, <3>5, <3>6, <3>7, <3>8 DEF Pending
    <3> QED
      BY <3>2, <3>3, <3>9
  <2>6. FileInv'
    BY <2>3, <2>4, <2>5 DEF FileInv
  <2> QED
    BY <2>1, <2>6 DEF IdentityInv
<1>12. CASE FileOperation(i) /\ UNCHANGED <<app, rest>>
  <2>1. \A j \in Instances : app'[j].step = app[j].step
    BY <1>12
  <2> QED
    BY <1>11, <1>12, <2>1 DEF rest
<1>13. CASE FileFails(i)
  <2>1. /\ Only(i) /\ FailFileOperation(i) /\ UNCHANGED rest
        /\ b.step = a.step /\ b.mishap
    BY <1>0, <1>13, FileFailsEffect
  <2>2. \A j \in Instances : app'[j].step = app[j].step
    BY <2>1 DEF Only
  <2> QED
    BY <1>11, <2>1, <2>2 DEF rest
<1> QED
  BY <1>2, <1>3, <1>4, <1>5, <1>6, <1>7, <1>8, <1>9, <1>10, <1>12, <1>13, KindFacts DEF Doing

LEMMA IdentityStep == BaseInv /\ IdentityInv /\ [Next]_vars => IdentityInv'
<1> SUFFICES ASSUME BaseInv, IdentityInv, [Next]_vars PROVE IdentityInv'
  OBVIOUS
<1>1. ASSUME NEW i \in Instances, Doing(i) PROVE IdentityInv'
  BY <1>1, FileStep
<1>2. CASE UNCHANGED vars
  <2>1. UNCHANGED <<call, value, fd, tmp, file, data, overlapped, app, shown, raced>>
    BY <1>2 DEF vars, storeVars, rest
  <2>2. WholeInv'
    BY <2>1, WholeStutters DEF IdentityInv, storeVars
  <2>3. FileInv'
    BY <2>1 DEF IdentityInv, FileInv, Found, Pending
  <2> QED
    BY <2>2, <2>3 DEF IdentityInv
<1> QED
  BY <1>1, <1>2, Doings

LEMMA IdentityHolds == Spec => [](BaseInv /\ IdentityInv)
<1>1. Init => BaseInv /\ IdentityInv
  BY BaseInit, FileInit
<1>2. BaseInv /\ IdentityInv /\ [Next]_vars => (BaseInv /\ IdentityInv)'
  BY BaseStep, IdentityStep
<1> QED
  BY <1>1, <1>2, PTL DEF Spec

LEMMA OneIdentity == IdentityInv => IdentityKept
<1> SUFFICES ASSUME IdentityInv, ~raced PROVE Cardinality(shown) <= 1
  BY DEF IdentityKept
<1>1. shown \subseteq {Found.value}
  BY DEF IdentityInv, FileInv
<1>2. IsFiniteSet({Found.value}) /\ Cardinality({Found.value}) = 1
  BY FS_Singleton
<1>3. Cardinality(shown) <= Cardinality({Found.value})
  BY <1>1, <1>2, FS_Subset
<1> QED
  BY <1>2, <1>3

\* Every start works under the identity of the first one, however processes
\* end and file operations fail, unless two instances were both started on a
\* computer without an identity (loadOrCreate).
THEOREM IdentityKeptHolds == Spec => []IdentityKept
<1>1. BaseInv /\ IdentityInv => IdentityKept
  BY OneIdentity
<1> QED
  BY <1>1, IdentityHolds, PTL

-----------------------------------------------------------------------------
(* The search for a port                                                   *)

\* Ports before the trial t that another program does not hold, and instances
\* that may yet have, or have, a port from t on: together they are fewer than
\* the starts, because an instance for each of the former was started too.
Blocked(k, t) == {p \in 1 .. t - 1 : held[k][p] # Other}
May(a, k, t) == a.step \in Before(k) \/ a.port[k] >= t
Able(i, k, t) == {j \in Instances \ {i} : May(app[j], k, t)}

SearchInv ==
  \A i \in Instances, k \in Kinds, t \in Ports :
    app[i].step = k /\ app[i].trial = t /\ ~app[i].mishap =>
      Cardinality(Blocked(k, t)) + Cardinality(Able(i, k, t)) < starts

Others(k) == {p \in Ports : held[k][p] = Other}

LEMMA TrialFacts ==
  ASSUME NEW t \in Ports
  PROVE  /\ t \in Nat /\ t - 1 \in Nat /\ 1 <= t /\ t <= LastPort
         /\ 1 .. t - 1 \subseteq Ports
         /\ IsFiniteSet(1 .. t - 1) /\ Cardinality(1 .. t - 1) = t - 1
<1>1. t \in Nat /\ 1 <= t /\ t <= LastPort
  BY PortFacts
<1>2. t - 1 \in Nat /\ 1 .. t - 1 \subseteq Ports
  BY <1>1, PortFacts DEF Ports
<1>3. \A n \in Nat : IsFiniteSet(1 .. n) /\ Cardinality(1 .. n) = n
  BY FS_Interval
<1> QED
  BY <1>1, <1>2, <1>3

LEMMA BlockedCounts ==
  ASSUME NEW k, NEW t \in Ports
  PROVE  IsFiniteSet(Blocked(k, t)) /\ Cardinality(Blocked(k, t)) \in Nat
<1>1. Blocked(k, t) \subseteq 1 .. t - 1
  BY DEF Blocked
<1> QED
  BY <1>1, TrialFacts, FS_Subset, FS_CardinalityType

LEMMA AbleCounts ==
  ASSUME NEW i, NEW k, NEW t
  PROVE  /\ Able(i, k, t) \subseteq Instances
         /\ IsFiniteSet(Able(i, k, t)) /\ Cardinality(Able(i, k, t)) \in Nat
<1>1. Able(i, k, t) \subseteq Instances
  BY DEF Able
<1> QED
  BY <1>1, FiniteInstances

\* A search that begins: every other instance was started too.
LEMMA SearchBegins ==
  ASSUME BaseInv, NEW i \in Instances, app[i].step # "Off", NEW k \in Kinds
  PROVE  Cardinality(Blocked(k, 1)) + Cardinality(Able(i, k, 1)) < starts
<1>1. Blocked(k, 1) = {}
  BY DEF Blocked
<1>2. Cardinality(Blocked(k, 1)) = 0
  BY <1>1, FS_EmptySet
<1>3. Able(i, k, 1) \subseteq Live \ {i}
  <2> SUFFICES ASSUME NEW j \in Instances \ {i}, May(app[j], k, 1) PROVE app[j].step # "Off"
    BY DEF Able, Live
  <2>1. app[j].step = "Off" => app[j].port[k] = 0
    BY DEF BaseInv, PortInv, Sound, Placed
  <2>2. "Off" \notin Before(k)
    BY DEF Before
  <2> QED
    BY <2>1, <2>2 DEF May
<1>4. IsFiniteSet(Live) /\ Cardinality(Live) \in Nat /\ i \in Live
  BY FiniteInstances DEF Live
<1>5. IsFiniteSet(Live \ {i}) /\ Cardinality(Live \ {i}) = Cardinality(Live) - 1
  BY <1>4, FS_RemoveElement
<1>6. Cardinality(Able(i, k, 1)) <= Cardinality(Live \ {i})
  BY <1>3, <1>5, FS_Subset
<1>7. Cardinality(Live) <= starts /\ starts \in Nat
  BY ApplicationAssumption DEF BaseInv, CountInv, TypeOK
<1> QED
  BY <1>2, <1>4, <1>5, <1>6, <1>7, AbleCounts

\* A search that goes on: the port was another program's, or it takes an
\* instance out of those that can still block the search.
LEMMA SearchGoesOn ==
  ASSUME BaseInv, NEW i \in Instances, NEW k \in Kinds, app[i].step = k,
         NEW t \in Ports, t + 1 \in Ports, held[k][t] # Nobody
  PROVE  Cardinality(Blocked(k, t + 1)) + Cardinality(Able(i, k, t + 1))
           <= Cardinality(Blocked(k, t)) + Cardinality(Able(i, k, t))
<1>1. held[k][t] \in Instances \cup {Other}
  BY DEF BaseInv, TypeOK
<1>2. t \in Nat /\ 1 <= t
  BY TrialFacts
<1>3. /\ IsFiniteSet(Blocked(k, t)) /\ Cardinality(Blocked(k, t)) \in Nat
      /\ Cardinality(Blocked(k, t + 1)) \in Nat
      /\ IsFiniteSet(Able(i, k, t)) /\ Cardinality(Able(i, k, t)) \in Nat
      /\ IsFiniteSet(Able(i, k, t + 1)) /\ Cardinality(Able(i, k, t + 1)) \in Nat
  BY BlockedCounts, AbleCounts
<1>p. \A j \in Instances : app[j].port[k] \in Nat
  <2>1. \A j \in Instances : app[j] \in AppStates
    BY DEF BaseInv, TypeOK
  <2>2. \A j \in Instances : app[j].port[k] \in {0} \cup Ports
    BY <2>1, FieldsOf
  <2>3. {0} \cup Ports \subseteq Nat
    BY PortFacts
  <2> QED
    BY <2>2, <2>3
<1>4. Able(i, k, t + 1) \subseteq Able(i, k, t)
  BY <1>2, <1>p DEF Able, May
<1>5. CASE held[k][t] = Other
  <2>1. Blocked(k, t + 1) = Blocked(k, t)
    BY <1>2, <1>5 DEF Blocked
  <2>2. Cardinality(Able(i, k, t + 1)) <= Cardinality(Able(i, k, t))
    BY <1>3, <1>4, FS_Subset
  <2> QED
    BY <1>3, <2>1, <2>2
<1>6. CASE held[k][t] \in Instances
  <2> DEFINE j == held[k][t]
  <2>1. app[j].port[k] = t
    BY <1>6 DEF BaseInv, PortInv, Holds
  <2>2. app[i].port[k] = 0
    BY StepNames DEF BaseInv, PortInv, Sound, Placed
  <2>3. j # i /\ app[j].step \notin Before(k)
    BY <1>2, <1>6, <2>1, <2>2 DEF BaseInv, PortInv, Sound, Placed
  <2>4. j \in Able(i, k, t) /\ j \notin Able(i, k, t + 1)
    BY <1>2, <1>6, <2>1, <2>3 DEF Able, May
  <2>5. Blocked(k, t + 1) \subseteq Blocked(k, t) \cup {t}
    BY <1>2 DEF Blocked
  <2>6. /\ IsFiniteSet(Blocked(k, t) \cup {t})
        /\ Cardinality(Blocked(k, t) \cup {t}) \in Nat
        /\ Cardinality(Blocked(k, t) \cup {t}) <= Cardinality(Blocked(k, t)) + 1
    BY <1>3, AddOne
  <2>7. Cardinality(Blocked(k, t + 1)) <= Cardinality(Blocked(k, t) \cup {t})
    BY <2>5, <2>6, FS_Subset
  <2>8. Able(i, k, t + 1) \subseteq Able(i, k, t) \ {j}
    BY <1>4, <2>4
  <2>9. /\ IsFiniteSet(Able(i, k, t) \ {j})
        /\ Cardinality(Able(i, k, t) \ {j}) = Cardinality(Able(i, k, t)) - 1
    BY <1>3, <2>4, FS_RemoveElement
  <2>10. Cardinality(Able(i, k, t + 1)) <= Cardinality(Able(i, k, t) \ {j})
    BY <2>8, <2>9, FS_Subset
  <2> QED
    BY <1>3, <2>6, <2>7, <2>9, <2>10
<1> QED
  BY <1>1, <1>5, <1>6 DEF Other

\* A search that has failed: what blocked it were other programs and starts.
LEMMA SearchFails ==
  ASSUME BaseInv, NEW i \in Instances, NEW k \in Kinds, app[i].step = k,
         held[k][LastPort] # Nobody,
         Cardinality(Blocked(k, LastPort)) + Cardinality(Able(i, k, LastPort)) < starts
  PROVE  Cardinality(Others(k)) + starts > LastPort
<1> DEFINE before == Others(k) \ {LastPort}
           B == Blocked(k, LastPort)
           R == 1 .. LastPort - 1
<1>1. /\ LastPort \in Ports /\ LastPort \in Nat
      /\ IsFiniteSet(R) /\ Cardinality(R) = LastPort - 1
  BY PortFacts, TrialFacts
<1>2. /\ IsFiniteSet(B) /\ Cardinality(B) \in Nat /\ starts \in Nat
      /\ Cardinality(Able(i, k, LastPort)) \in Nat /\ IsFiniteSet(Able(i, k, LastPort))
  BY <1>1, BlockedCounts, AbleCounts, ApplicationAssumption DEF BaseInv, TypeOK
<1>3. before \cup B = R /\ before \cap B = {}
  BY <1>1 DEF Others, Blocked, Ports
<1>4. IsFiniteSet(before) /\ Cardinality(before) \in Nat
  <2>1. before \subseteq R
    BY <1>3
  <2> QED
    BY <1>1, <2>1, FS_Subset, FS_CardinalityType
<1>5. Cardinality(before) + Cardinality(B) = LastPort - 1
  <2>1. IsFiniteSet(before \cap B) /\ Cardinality(before \cap B) = 0
    BY <1>3, FS_EmptySet
  <2>2. Cardinality(before \cup B)
          = Cardinality(before) + Cardinality(B) - Cardinality(before \cap B)
    <3> HIDE DEF before, B
    <3> QED
      BY <1>2, <1>4, FS_Union
  <2>3. Cardinality(before \cup B) = LastPort - 1
    BY <1>1, <1>3, Zenon
  <2> HIDE DEF before, B, R
  <2> QED
    BY <1>2, <1>4, <2>1, <2>2, <2>3
<1>6. held[k][LastPort] \in Instances \cup {Other}
  BY <1>1 DEF BaseInv, TypeOK
<1>7. CASE held[k][LastPort] = Other
  <2>1. Others(k) = before \cup {LastPort} /\ LastPort \notin before
    BY <1>1, <1>7 DEF Others
  <2>2. Cardinality(Others(k)) = Cardinality(before) + 1
    <3> HIDE DEF before
    <3>1. Cardinality(before \cup {LastPort}) = IF LastPort \in before THEN Cardinality(before)
                                              ELSE Cardinality(before) + 1
      BY <1>4, FS_AddElement
    <3> QED
      BY <2>1, <3>1
  <2> HIDE DEF before, B
  <2> QED
    BY <1>1, <1>2, <1>4, <1>5, <2>2 DEF B
<1>8. CASE held[k][LastPort] \in Instances
  <2> DEFINE j == held[k][LastPort]
  <2>1. j # Other
    BY <1>8, HolderFacts
  <2>2. Others(k) = before
    BY <2>1 DEF Others
  <2>3. app[j].port[k] = LastPort
    BY <1>1, <1>8 DEF BaseInv, PortInv, Holds
  <2>4. app[i].port[k] = 0
    BY StepNames DEF BaseInv, PortInv, Sound, Placed
  <2>5. j \in Able(i, k, LastPort)
    BY <1>1, <1>8, <2>3, <2>4, PortFacts DEF Able, May
  <2>6. Cardinality(Able(i, k, LastPort)) # 0
    BY <1>2, <2>5, FS_EmptySet
  <2> HIDE DEF before, B
  <2> QED
    BY <1>1, <1>2, <1>4, <1>5, <2>2, <2>6 DEF B
<1> QED
  BY <1>6, <1>7, <1>8 DEF Other

\* What other instances may yet have only shrinks as they go on.
Behind(a, b) == \A k \in Kinds, t \in Ports : May(b, k, t) => May(a, k, t)

LEMMA BehindSame ==
  ASSUME NEW a, NEW b, \A k \in Kinds : b.port[k] = a.port[k] \/ b.port[k] = 0,
         b.step \notin Before("diagnostics") \/ b.step = a.step
  PROVE  Behind(a, b)
<1>1. \A k \in Kinds : b.step \in Before(k) => a.step \in Before(k)
  BY StepNames DEF Before
<1>2. \A t \in Ports : ~(0 >= t)
  BY PortFacts
<1> QED
  BY <1>1, <1>2 DEF Behind, May

LEMMA BehindEarly ==
  ASSUME NEW a, NEW b, a.step \in Before("control"), b.port = a.port
  PROVE  Behind(a, b)
  BY DEF Behind, May, Before

\* What the search needs of a step of i: what other programs hold stays, i can
\* block others no more than before unless it is a start, and its own search,
\* if it is in one, counts enough starts.
LEMMA SearchKeeps ==
  ASSUME BaseInv, SearchInv, NEW i \in Instances, Only(i),
         \A k \in Kinds, p \in Ports : held'[k][p] = Other <=> held[k][p] = Other,
         (starts' = starts /\ Behind(app[i], app'[i])) \/ starts' = starts + 1,
         \A k \in Kinds, t \in Ports :
           app'[i].step = k /\ app'[i].trial = t /\ ~app'[i].mishap =>
             Cardinality(Blocked(k, t)) + Cardinality(Able(i, k, t)) < starts
  PROVE  SearchInv'
<1> SUFFICES ASSUME NEW j \in Instances, NEW k \in Kinds, NEW t \in Ports,
                    app'[j].step = k, app'[j].trial = t, ~app'[j].mishap
             PROVE  Cardinality(Blocked(k, t)') + Cardinality(Able(j, k, t)') < starts'
  BY DEF SearchInv
<1> DEFINE A == Able(j, k, t)
           B == Blocked(k, t)
           C == Able(j, k, t)'
<1>1. /\ starts \in Nat /\ starts' \in Nat /\ starts <= starts'
      /\ Cardinality(B) \in Nat /\ Cardinality(A) \in Nat /\ IsFiniteSet(A)
  BY BlockedCounts, AbleCounts, ApplicationAssumption DEF BaseInv, TypeOK
<1>2. Blocked(k, t)' = B
  BY TrialFacts DEF Blocked
<1>3. CASE j = i
  <2>1. C = A
    BY <1>3 DEF Able, Only
  <2>2. Cardinality(B) + Cardinality(A) < starts
    BY <1>3
  <2> HIDE DEF A, B, C
  <2> QED
    BY <1>1, <1>2, <2>1, <2>2 DEF C
<1>4. CASE j # i
  <2>1. app'[j] = app[j]
    BY <1>4 DEF Only
  <2>2. Cardinality(B) + Cardinality(A) < starts
    BY <2>1 DEF SearchInv
  <2>3. C \subseteq A \cup {i}
    BY DEF Able, Only
  <2>4. Behind(app[i], app'[i]) => C \subseteq A
    BY DEF Able, Only, Behind
  <2>5. /\ IsFiniteSet(A \cup {i}) /\ Cardinality(A \cup {i}) \in Nat
        /\ Cardinality(A \cup {i}) <= Cardinality(A) + 1
    BY <1>1, AddOne
  <2>6. Cardinality(C) <= Cardinality(A \cup {i}) /\ Cardinality(C) \in Nat
    BY <2>3, <2>5, FS_Subset, FS_CardinalityType
  <2>7. Behind(app[i], app'[i]) => Cardinality(C) <= Cardinality(A)
    BY <1>1, <2>4, FS_Subset
  <2> HIDE DEF A, B, C
  <2> QED
    BY <1>1, <1>2, <2>2, <2>5, <2>6, <2>7 DEF C
<1> QED
  BY <1>3, <1>4

\* What other programs hold stays theirs, starts and races are not undone.
LEMMA OthersStay ==
  ASSUME BaseInv, NEW i \in Instances, Doing(i)
  PROVE  /\ \A k \in Kinds, p \in Ports : held'[k][p] = Other <=> held[k][p] = Other
         /\ starts' \in Nat /\ starts \in Nat /\ starts <= starts' /\ (raced => raced')
<1>0. /\ TypeOK /\ Trials /\ starts \in Nat /\ raced \in BOOLEAN /\ i # Other /\ Other # Nobody
      /\ \A j \in Instances : app[j].pending <= operations
  BY SoundTrials, HolderFacts, ApplicationAssumption
     DEF BaseInv, PortInv, CountInv, TypeOK, Other, Nobody
<1>1. CASE UNCHANGED <<held, starts>> /\ (raced => raced')
  BY <1>0, <1>1
<1>2. CASE Talk(i)
  BY <1>0, <1>1, <1>2, TalkEffect
<1>3. CASE Launch(i)
  BY <1>0, <1>3 DEF Launch
<1>4. CASE ReadIdentity(i) \/ IdentityWritten(i)
  BY <1>0, <1>1, <1>4, ReadIdentityEffect, IdentityWrittenEffect
<1>5. CASE LoadTrust(i) \/ Bind(i) \/ StartMishap(i)
  BY <1>0, <1>1, <1>5, LoadTrustEffect, BindEffect, StartMishapEffect DEF rest
<1>6. ASSUME NEW k \in Kinds, Listen(i, k)
      PROVE  /\ \A l \in Kinds, p \in Ports : held'[l][p] = Other <=> held[l][p] = Other
             /\ starts' = starts /\ raced' = raced
  <2>1. app[i].trial \in Ports
    BY <1>0, <1>6 DEF Listen, Trials
  <2>2. /\ starts' = starts /\ raced' = raced
        /\ \/ /\ held[k][app[i].trial] = Nobody
              /\ held' = [held EXCEPT ![k] = [@ EXCEPT ![app[i].trial] = i]]
           \/ held' = held
    BY <1>0, <1>6, <2>1, ListenEffect
  <2>3. held \in [Kinds -> [Ports -> Instances \cup {Nobody, Other}]]
    BY <1>0 DEF TypeOK
  <2> QED
    BY <1>0, <2>1, <2>2, <2>3
<1>7. ASSUME Quit(i) \/ ControlClosed(i) \/ Exit(i)
      PROVE  /\ \A l \in Kinds, p \in Ports : held'[l][p] = Other <=> held[l][p] = Other
             /\ starts' = starts /\ raced' = raced
  <2>1. starts' = starts /\ raced' = raced
    BY <1>0, <1>7, QuitEffect, ControlClosedEffect DEF Exit
  <2>2. held' = Released(i, Kinds) \/ held' = Released(i, {"control"})
    BY <1>0, <1>7, QuitEffect, ControlClosedEffect DEF Exit
  <2>3. PICK K \in SUBSET Kinds : held' = Released(i, K)
    BY <2>2, KindFacts
  <2>4. \A k \in Kinds, p \in Ports, j \in (Instances \cup {Other}) \ {i} :
          Released(i, K)[k][p] = j <=> held[k][p] = j
    BY <1>0, ReleasedHolds
  <2>5. Other \in (Instances \cup {Other}) \ {i}
    BY <1>0
  <2> QED
    BY <2>1, <2>3, <2>4, <2>5
<1>8. CASE FileOperation(i) /\ UNCHANGED <<app, rest>>
  BY <1>1, <1>8 DEF rest
<1>9. CASE FileFails(i)
  BY <1>0, <1>1, <1>9, FileFailsEffect DEF rest
<1> QED
  BY <1>0, <1>2, <1>3, <1>4, <1>5, <1>6, <1>7, <1>8, <1>9, KindFacts DEF Doing

LEMMA SearchStep ==
  ASSUME BaseInv, SearchInv, NEW i \in Instances, Doing(i)
  PROVE  SearchInv'
<1> DEFINE a == app[i]
           b == app'[i]
<1>0. /\ TypeOK /\ Trials /\ \A j \in Instances : app[j].pending <= operations
      /\ \A k \in Kinds, p \in Ports : held'[k][p] = Other <=> held[k][p] = Other
  BY SoundTrials, OthersStay DEF BaseInv, PortInv, CountInv
\* The instance searches on as before, or does not search.
<1>1. ASSUME Only(i), (starts' = starts /\ Behind(a, b)) \/ starts' = starts + 1,
             b.step \notin Kinds \/ b.mishap
               \/ (b.step = a.step /\ b.trial = a.trial /\ b.mishap = a.mishap)
      PROVE  SearchInv'
  BY <1>0, <1>1, SearchKeeps DEF SearchInv
<1>2. /\ "Ended" \notin Before("diagnostics") /\ "Bind" \notin Before("diagnostics")
      /\ "Stuck" \notin Before("diagnostics") /\ "Off" \notin Before("diagnostics")
  BY DEF Before
<1>3. CASE Talk(i)
  <2>1. Only(i) /\ SamePlace(a, b) /\ starts' = starts
    BY <1>0, <1>3, TalkEffect DEF Talks
  <2> QED
    BY <1>1, <2>1, BehindSame DEF SamePlace
<1>4. CASE Launch(i)
  <2>0. [New EXCEPT !.step = "ReadIdentity"].step = "ReadIdentity" /\ "ReadIdentity" \notin Kinds
    BY DEF New, Kinds
  <2>1. Only(i) /\ b.step \notin Kinds /\ starts' = starts + 1
    BY <1>0, <1>4, <2>0, LaunchEffect DEF Launch
  <2> QED
    BY <1>1, <2>1
<1>5. CASE ReadIdentity(i)
  <2>1. /\ Only(i) /\ a.step = "ReadIdentity" /\ starts' = starts /\ b.port = a.port
        /\ b.step \in {"WriteIdentity", "LoadTrust", "Ended"}
    BY <1>0, <1>5, ReadIdentityEffect DEF Proceeds, Fails
  <2>2. a.step \in Before("control") /\ b.step \notin Kinds
    BY <2>1 DEF Before, Kinds
  <2> QED
    BY <1>1, <2>1, <2>2, BehindEarly
<1>6. CASE IdentityWritten(i)
  <2>1. /\ Only(i) /\ a.step = "WriteIdentity" /\ starts' = starts /\ b.port = a.port
        /\ b.step \in {"LoadTrust", "Ended"}
    BY <1>0, <1>6, IdentityWrittenEffect DEF Proceeds, Fails
  <2>2. a.step \in Before("control") /\ b.step \notin Kinds
    BY <2>1 DEF Before, Kinds
  <2> QED
    BY <1>1, <2>1, <2>2, BehindEarly
<1>7. CASE LoadTrust(i)
  <2>1. /\ Only(i) /\ a.step = "LoadTrust" /\ starts' = starts /\ b.port = a.port
        /\ b.step = "control" /\ b.trial = 1
    BY <1>0, <1>7, LoadTrustEffect DEF Proceeds, rest
  <2>2. Behind(a, b)
    BY <2>1, BehindEarly DEF Before
  <2>3. Cardinality(Blocked("control", 1)) + Cardinality(Able(i, "control", 1)) < starts
    BY <2>1, SearchBegins, KindFacts
  <2> QED
    BY <1>0, <2>1, <2>2, <2>3, SearchKeeps
<1>8. ASSUME NEW k \in Kinds, Listen(i, k) PROVE SearchInv'
  <2> DEFINE p == a.trial
  <2>1. a.step = k /\ p \in Ports
    BY <1>0, <1>8 DEF Listen, Trials
  <2>2. /\ Only(i) /\ starts' = starts
        /\ \/ OpenedAs(a, b, k, p)
           \/ /\ p # LastPort /\ Proceeds(a, b) /\ b.step = a.step /\ b.trial = p + 1
              /\ ~b.mishap => ~a.mishap /\ held[k][p] # Nobody
           \/ Fails(a, b)
    BY <1>0, <1>8, <2>1, ListenEffect
  <2>3. CASE OpenedAs(a, b, k, p)
    <3>1. Behind(a, b)
      <4>1. /\ k \in Before(k)
            /\ \A l \in Kinds : b.step \in Before(l) => a.step \in Before(l)
        BY <2>1, <2>3, StepNames DEF Before, OpenedAs
      <4>2. \A l \in Kinds \ {k} : b.port[l] = a.port[l]
        BY <2>3 DEF OpenedAs
      <4> QED
        BY <2>1, <4>1, <4>2 DEF Behind, May
    <3>2. ASSUME NEW l \in Kinds, b.step = l PROVE l = "diagnostics" /\ b.trial = 1
      BY <2>3, <3>2, StepNames DEF OpenedAs
    <3>3. Cardinality(Blocked("diagnostics", 1)) + Cardinality(Able(i, "diagnostics", 1)) < starts
      BY <2>1, SearchBegins, StepNames, KindFacts
    <3> QED
      BY <1>0, <2>2, <3>1, <3>2, <3>3, SearchKeeps
  <2>4. CASE /\ p # LastPort /\ Proceeds(a, b) /\ b.step = a.step /\ b.trial = p + 1
             /\ ~b.mishap => ~a.mishap /\ held[k][p] # Nobody
    <3>1. Behind(a, b)
      BY <2>4, BehindSame DEF Proceeds
    <3>2. p + 1 \in Ports
      BY <2>1, <2>4, PortFacts
    <3>3. ~b.mishap =>
            Cardinality(Blocked(k, p + 1)) + Cardinality(Able(i, k, p + 1)) < starts
      <4> SUFFICES ASSUME ~b.mishap
                   PROVE  Cardinality(Blocked(k, p + 1)) + Cardinality(Able(i, k, p + 1)) < starts
        OBVIOUS
      <4>1. Cardinality(Blocked(k, p)) + Cardinality(Able(i, k, p)) < starts
        BY <2>1, <2>4 DEF SearchInv
      <4>2. Cardinality(Blocked(k, p + 1)) + Cardinality(Able(i, k, p + 1))
              <= Cardinality(Blocked(k, p)) + Cardinality(Able(i, k, p))
        BY <2>1, <2>4, <3>2, SearchGoesOn
      <4>3. /\ Cardinality(Blocked(k, p)) \in Nat /\ Cardinality(Able(i, k, p)) \in Nat
            /\ Cardinality(Blocked(k, p + 1)) \in Nat /\ Cardinality(Able(i, k, p + 1)) \in Nat
            /\ starts \in Nat
        BY <2>1, <3>2, BlockedCounts, AbleCounts, OthersStay
      <4> QED
        BY <4>1, <4>2, <4>3
    <3> QED
      BY <1>0, <2>1, <2>2, <2>4, <3>1, <3>2, <3>3, SearchKeeps
  <2>5. CASE Fails(a, b)
    <3>1. b.step = "Ended" /\ b.port = a.port
      BY <2>5 DEF Fails
    <3>2. Behind(a, b) /\ b.step \notin Kinds
      BY <1>2, <3>1, BehindSame, StepNames
    <3> QED
      BY <1>1, <2>2, <3>2
  <2> QED
    BY <2>2, <2>3, <2>4, <2>5
<1>9. CASE Bind(i) \/ StartMishap(i)
  <2>1. Only(i) /\ starts' = starts /\ b.step = "Ended" /\ b.port = a.port
    BY <1>0, <1>9, BindEffect, StartMishapEffect DEF rest, Fails
  <2> QED
    BY <1>1, <1>2, <2>1, BehindSame, StepNames
<1>10. CASE Quit(i)
  <2>1. /\ Only(i) /\ starts' = starts
        /\ b.step = (IF a.step = "Bind" THEN "Stuck" ELSE a.step)
        /\ b.trial = a.trial /\ b.mishap = a.mishap
    BY <1>0, <1>10, QuitEffect DEF Quits, Stopped
  <2>2. \A k \in Kinds : b.port[k] = a.port[k] \/ b.port[k] = 0
    BY <1>0, <1>10, QuitEffect, StepNames DEF Quits, Stopped
  <2> QED
    BY <1>1, <1>2, <2>1, <2>2, BehindSame, StepNames
<1>11. CASE ControlClosed(i)
  <2>1. /\ Only(i) /\ starts' = starts /\ Stopped(a, b)
    BY <1>0, <1>11, ControlClosedEffect
  <2>2. \A k \in Kinds : b.port[k] = a.port[k] \/ b.port[k] = 0
    BY <2>1, StepNames DEF Stopped
  <2> QED
    BY <1>1, <2>1, <2>2, BehindSame DEF Stopped
<1>12. CASE Exit(i)
  <2>0. New.step = "Off" /\ \A k \in Kinds : New.port[k] = 0
    BY DEF New
  <2>1. Only(i) /\ starts' = starts /\ b.step = "Off" /\ \A k \in Kinds : b.port[k] = 0
    BY <1>0, <1>12, <2>0, ExitEffect DEF Exit
  <2> QED
    BY <1>1, <1>2, <2>1, BehindSame, StepNames
<1>13. CASE FileOperation(i) /\ UNCHANGED <<app, rest>>
  BY <1>13 DEF SearchInv, Blocked, Able, rest
<1>14. CASE FileFails(i)
  <2>1. /\ Only(i) /\ starts' = starts /\ b.step = a.step /\ b.port = a.port /\ b.mishap
    BY <1>0, <1>14, FileFailsEffect DEF rest, Proceeds
  <2> QED
    BY <1>1, <2>1, BehindSame
<1> QED
  BY <1>3, <1>4, <1>5, <1>6, <1>7, <1>8, <1>9, <1>10, <1>11, <1>12, <1>13, <1>14, KindFacts DEF Doing

-----------------------------------------------------------------------------
(* Failures                                                                *)

Reason(k) == Cardinality(Others(k)) + starts > LastPort

\* An instance that has failed without a reason of another kind.
Unexplained(i) == app[i].service = "Failed" /\ ~app[i].mishap /\ ~raced

LEMMA ReasonStays ==
  ASSUME BaseInv, NEW i \in Instances, Doing(i), NEW k \in Kinds, Reason(k)
  PROVE  Reason(k)'
<1>1. Others(k)' = Others(k)
  BY OthersStay DEF Others
<1>2. Others(k) \subseteq Ports
  BY DEF Others
<1>3. Cardinality(Others(k)) \in Nat
  <2>1. IsFiniteSet(Ports)
    BY PortFacts, FS_Interval DEF Ports
  <2> QED
    BY <1>2, <2>1, FS_Subset, FS_CardinalityType
<1> QED
  BY <1>1, <1>3, OthersStay, PortFacts DEF Reason

\* A step after which i has failed is the last trial of a search, or i had
\* failed before.
LEMMA FailStep ==
  ASSUME BaseInv, IdentityInv, SearchInv, NEW i \in Instances, Doing(i),
         NEW j \in Instances, Unexplained(j)'
  PROVE  Unexplained(j) \/ \E k \in Kinds : Reason(k)
<1> DEFINE a == app[i]
           b == app'[i]
<1>0. /\ TypeOK /\ StoreTypeOK /\ Trials /\ \A l \in Instances : app[l].pending <= operations
      /\ ~raced /\ app'[j].service = "Failed" /\ ~app'[j].mishap
  BY SoundTrials, OthersStay DEF BaseInv, PortInv, CountInv, TypeOK, Unexplained
<1>1. ASSUME Only(i), j # i PROVE Unexplained(j)
  BY <1>0, <1>1 DEF Only, Unexplained
<1>2. ASSUME Only(i), b.service = a.service, ~b.mishap => ~a.mishap PROVE Unexplained(j)
  BY <1>0, <1>1, <1>2 DEF Unexplained
<1>3. ASSUME Only(i), b.service # "Failed" \/ b.mishap PROVE Unexplained(j)
  BY <1>0, <1>1, <1>3
<1>4. CASE Talk(i)
  BY <1>0, <1>2, <1>4, TalkEffect DEF Talks, SamePlace
<1>5. CASE Launch(i)
  <2>0. [New EXCEPT !.step = "ReadIdentity"].service = "Starting"
    BY DEF New
  <2> QED
    BY <1>0, <1>3, <1>5, <2>0, LaunchEffect
<1>6. CASE ReadIdentity(i)
  <2>1. Found.state \in {"Missing", "Whole"}
    BY <1>0, WholeReads DEF IdentityInv, FileInv, FileIsWhole
  <2>2. Only(i) /\ b.mishap = a.mishap /\ Proceeds(a, b)
    BY <1>0, <1>6, <2>1, ReadIdentityEffect
  <2> QED
    BY <1>2, <2>2 DEF Proceeds
<1>7. CASE IdentityWritten(i)
  <2>1. /\ Only(i) /\ b.mishap = a.mishap
        /\ Proceeds(a, b) \/ call[i] = "Failed"
    BY <1>0, <1>7, IdentityWrittenEffect
  <2>2. call[i] = "Failed" => a.mishap
    BY <1>0 DEF IdentityInv, FileInv
  <2> QED
    BY <1>2, <1>3, <2>1, <2>2 DEF Proceeds
<1>8. CASE LoadTrust(i)
  BY <1>0, <1>2, <1>8, LoadTrustEffect DEF Proceeds
<1>9. ASSUME NEW k \in Kinds, Listen(i, k) PROVE Unexplained(j) \/ Reason(k)
  <2> DEFINE p == a.trial
  <2>1. a.step = k /\ p \in Ports
    BY <1>0, <1>9 DEF Listen, Trials
  <2>2. /\ Only(i)
        /\ \/ OpenedAs(a, b, k, p)
           \/ Proceeds(a, b) /\ (~b.mishap => ~a.mishap)
           \/ p = LastPort /\ (~b.mishap => ~a.mishap /\ held[k][p] # Nobody)
    BY <1>0, <1>9, <2>1, ListenEffect
  <2>3. a.service = "Starting"
    BY <2>1, StepNames DEF BaseInv, PortInv, Sound, Placed
  <2>4. CASE OpenedAs(a, b, k, p)
    BY <1>3, <2>2, <2>3, <2>4 DEF OpenedAs
  <2>5. CASE Proceeds(a, b) /\ (~b.mishap => ~a.mishap)
    BY <1>2, <2>2, <2>5 DEF Proceeds
  <2>6. CASE p = LastPort /\ (~b.mishap => ~a.mishap /\ held[k][p] # Nobody)
    <3>1. CASE b.mishap
      BY <1>3, <2>2, <3>1
    <3>2. CASE ~b.mishap
      <4>1. held[k][LastPort] # Nobody
        BY <2>6, <3>2
      <4>2. Cardinality(Blocked(k, LastPort)) + Cardinality(Able(i, k, LastPort)) < starts
        BY <2>1, <2>6, <3>2 DEF SearchInv
      <4> QED
        BY <2>1, <4>1, <4>2, SearchFails DEF Reason
    <3> QED
      BY <3>1, <3>2
  <2> QED
    BY <2>2, <2>4, <2>5, <2>6
<1>10. CASE Bind(i)
  BY <1>0, <1>3, <1>10, BindEffect
<1>11. CASE StartMishap(i)
  BY <1>0, <1>3, <1>11, StartMishapEffect
<1>12. CASE Quit(i)
  <2>1. /\ Only(i) /\ b.mishap = a.mishap
        /\ b.service = a.service \/ b.service = "Starting"
    BY <1>0, <1>12, QuitEffect DEF Quits, Stopped
  <2> QED
    BY <1>2, <1>3, <2>1
<1>13. CASE ControlClosed(i)
  BY <1>0, <1>3, <1>13, ControlClosedEffect DEF Stopped
<1>14. CASE Exit(i)
  <2>0. New.service = "Starting"
    BY DEF New
  <2> QED
    BY <1>0, <1>3, <1>14, <2>0, ExitEffect
<1>15. CASE FileOperation(i) /\ UNCHANGED <<app, rest>>
  BY <1>0, <1>15 DEF Unexplained
<1>16. CASE FileFails(i)
  BY <1>0, <1>3, <1>16, FileFailsEffect
<1> QED
  BY <1>4, <1>5, <1>6, <1>7, <1>8, <1>9, <1>10, <1>11, <1>12, <1>13, <1>14, <1>15, <1>16, KindFacts
     DEF Doing

ApplicationInv == BaseInv /\ IdentityInv /\ SearchInv /\ FailsForAReason

LEMMA ApplicationInit == Init => ApplicationInv
<1> SUFFICES ASSUME Init PROVE ApplicationInv
  OBVIOUS
<1>1. \A i \in Instances : app[i].step = "Off" /\ app[i].service = "Starting"
  BY DEF Init, New
<1>2. SearchInv
  BY <1>1, StepNames DEF SearchInv
<1>3. FailsForAReason
  BY <1>1 DEF FailsForAReason
<1> QED
  BY <1>2, <1>3, BaseInit, FileInit DEF ApplicationInv

LEMMA ApplicationStep == ApplicationInv /\ [Next]_vars => ApplicationInv'
<1> SUFFICES ASSUME ApplicationInv, [Next]_vars PROVE ApplicationInv'
  OBVIOUS
<1>1. BaseInv' /\ IdentityInv'
  BY BaseStep, IdentityStep DEF ApplicationInv
<1>2. ASSUME NEW i \in Instances, Doing(i) PROVE SearchInv' /\ FailsForAReason'
  <2>1. SearchInv'
    BY <1>2, SearchStep DEF ApplicationInv
  <2>2. ASSUME NEW j \in Instances, Unexplained(j)' PROVE \E k \in Kinds : Reason(k)'
    <3>1. PICK k \in Kinds : Reason(k)
      BY <1>2, <2>2, FailStep DEF ApplicationInv, FailsForAReason, Unexplained, Reason, Others
    <3> QED
      BY <1>2, <3>1, ReasonStays DEF ApplicationInv
  <2>3. FailsForAReason'
    BY <2>2 DEF FailsForAReason, Unexplained, Reason, Others
  <2> QED
    BY <2>1, <2>3
<1>3. CASE UNCHANGED vars
  <2>1. SearchInv'
    BY <1>3 DEF ApplicationInv, SearchInv, Blocked, Able, vars, rest
  <2>2. FailsForAReason'
    BY <1>3 DEF ApplicationInv, FailsForAReason, vars, rest
  <2> QED
    BY <1>1, <2>1, <2>2 DEF ApplicationInv
<1> QED
  BY <1>1, <1>2, <1>3, Doings DEF ApplicationInv

\* A start fails for a reason: something it called failed, or other programs
\* and starts together were enough to have had every port of one kind (the
\* loops of ControlServer.start and DiagnosticsHttpServer.start).
THEOREM FailsForAReasonHolds == Spec => []FailsForAReason
<1>1. ApplicationInv => FailsForAReason
  BY DEF ApplicationInv
<1> QED
  BY <1>1, ApplicationInit, ApplicationStep, PTL DEF Spec
=============================================================================
