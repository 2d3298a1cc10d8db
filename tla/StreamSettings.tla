---------------------------- MODULE StreamSettings ----------------------------
(***************************************************************************)
(* The streaming configuration on its way between the file, the main       *)
(* process and the window: StreamConfigurationService.ts keeps it in       *)
(* memory and in an AtomicJsonStore, App.tsx edits a copy of it in its     *)
(* React state, saves it over IPC, and hands it to the media session       *)
(* together with the connection.                                           *)
(*                                                                         *)
(* A call of setState takes effect when React renders, after the handler   *)
(* that made it and perhaps after the handler of the next IPC message:     *)
(* "state" is what this.state says, "next" what it will say once rendered. *)
(* Only what the user does is rendered at once.                            *)
(*                                                                         *)
(* A configuration has two of its numbers, and whether its list of names   *)
(* is as the validator leaves it.                                          *)
(***************************************************************************)
EXTENDS AtomicJsonStore, Sequences

CONSTANTS
  Rates,          \* frame rates on offer
  Default,        \* StreamingConfigurationDefaults.stableGaming
  RecoveryLimit,  \* how often a window that crashed is loaded again (3 in the code)
  MaxEdits,       \* bound: changes the user makes
  MaxSnapshots,   \* bound: snapshots sent of their own accord
  MaxStarts,      \* bound: starts of the application
  MayFail         \* bound: whether file operations may fail

Configuration == [target : Rates, minimum : Rates, tidy : BOOLEAN]

ASSUME SettingsAssumption ==
  /\ Rates \subseteq Nat
  /\ Default \in Configuration /\ Default.tidy /\ Default.minimum <= Default.target
  /\ Value = Configuration
  /\ RecoveryLimit \in Nat

VARIABLES
  application, \* state of the main process
  memory,      \* #configuration of the service
  connected,   \* whether the main process has a connected session
  asker,       \* asker[c]: the load of the window that made the write c, 0 for none
  window,      \* "None", "Loading", "Loaded" or "Gone"
  load,        \* how often the window has been loaded
  state,       \* this.state of App, as rendered
  next,        \* the same with the updates React has not rendered yet
  applied,     \* #configuration of the media session, None while it is stopped
  outbox,      \* requests on their way to the main process
  inbox,       \* answers and snapshots on their way to the window
  edits, snapshots, starts,
  historyOf    \* history, see the fields below

\* raced: an edit was made while an answer was awaited that will replace it.
\* mixed: a message was handled while another's update was not rendered.
\* lost:  a write has failed or was cut off.

windowVars == <<window, load, state, next, applied, edits>>
mainVars == <<application, memory, connected, asker, snapshots, starts>>
vars == <<storeVars, windowVars, mainVars, outbox, inbox, historyOf>>

None == [state |-> "None"]
NewState == [configuration |-> Default, dirty |-> FALSE, busy |-> FALSE, connected |-> FALSE]

Requests ==
  [type : {"GetConfiguration", "GetSnapshot"}, load : Nat]
  \cup [type : {"Update"}, load : Nat, configuration : Configuration]

Messages ==
  [type : {"Configuration", "Saved"}, configuration : Configuration]
  \cup [type : {"Snapshot"}, connected : BOOLEAN]
  \cup [type : {"SaveFailed"}]

Init ==
  /\ StoreInit
  /\ application = "Stopped" /\ memory = Default /\ connected = FALSE
  /\ asker = [c \in Calls |-> 0]
  /\ window = "None" /\ load = 0
  /\ state = NewState /\ next = NewState /\ applied = None
  /\ outbox = <<>> /\ inbox = <<>>
  /\ edits = 0 /\ snapshots = 0 /\ starts = 0
  /\ historyOf = [raced |-> FALSE, mixed |-> FALSE, lost |-> FALSE]
-----------------------------------------------------------------------------
(* The service                                                             *)

\* StreamConfigurationValidator, for what it refuses and what it changes.
Valid(v) == v.minimum <= v.target

Validated(v) == [v EXCEPT !.tidy = TRUE]

\* The mount of App: its requests, in their order.
Mounted ==
  /\ window' = "Loaded" /\ load' = load + 1
  /\ state' = NewState /\ next' = NewState /\ applied' = None
  /\ outbox' = outbox \o <<[type |-> "GetSnapshot", load |-> load + 1],
                           [type |-> "GetConfiguration", load |-> load + 1]>>
  /\ inbox' = <<>>

\* load and start: a file that is no JSON leaves the application without a window.
Start ==
  /\ application = "Stopped" /\ starts < MaxStarts
  /\ starts' = starts + 1
  /\ IF Found.state \in {"Empty", "Torn"}
     THEN /\ application' = "Failed"
          /\ UNCHANGED <<memory, window, load, state, next, applied, outbox, inbox>>
     ELSE /\ application' = "Running"
          /\ memory' = IF Found.state = "Whole" /\ Valid(Found.value)
                       THEN Validated(Found.value) ELSE Default
          /\ Mounted
  /\ UNCHANGED <<storeVars, connected, asker, edits, snapshots, historyOf>>

\* The application ends; a write in progress is cut off.
Stop ==
  /\ application # "Stopped"
  /\ application' = "Stopped" /\ window' = "None" /\ connected' = FALSE
  /\ memory' = Default /\ load' = 0
  /\ EndCalls
  /\ asker' = [c \in Calls |-> 0]
  /\ state' = NewState /\ next' = NewState /\ applied' = None
  /\ outbox' = <<>> /\ inbox' = <<>>
  /\ historyOf' = [raced |-> FALSE, mixed |-> FALSE,
                   lost |-> historyOf.lost \/ \E c \in Calls : call[c] # "Idle"]
  /\ UNCHANGED <<edits, snapshots, starts>>

\* An answer reaches the load of the window that asked, if it is still there.
Answer(asked, message) ==
  inbox' = IF window = "Loaded" /\ asked = load THEN Append(inbox, message) ELSE inbox

Snapshot(c) == [type |-> "Snapshot", connected |-> c]
ConfigurationMessage(type, v) == [type |-> type, configuration |-> v]

NextRequest == Head(outbox)

HandleGet ==
  /\ outbox # <<>> /\ NextRequest.type \in {"GetSnapshot", "GetConfiguration"}
  /\ outbox' = Tail(outbox)
  /\ Answer(NextRequest.load,
            IF NextRequest.type = "GetSnapshot" THEN Snapshot(connected)
            ELSE ConfigurationMessage("Configuration", memory))
  /\ UNCHANGED <<storeVars, windowVars, mainVars, historyOf>>

\* Slip: the memory keeps the old configuration until the next start.
UpdateFileOnly(v, c) == memory' = memory /\ Write(c, Validated(v))

\* The memory changes before the file does.
UpdateMemory(v, c) == memory' = Validated(v) /\ Write(c, Validated(v))

\* update, up to the write it awaits; a refused configuration changes nothing.
HandleUpdate ==
  /\ outbox # <<>> /\ NextRequest.type = "Update"
  /\ \E c \in Calls : call[c] = "Idle"
  /\ outbox' = Tail(outbox)
  /\ IF Valid(NextRequest.configuration)
     THEN /\ LET c == CHOOSE d \in Calls : call[d] = "Idle" IN
               /\ UpdateMemory(NextRequest.configuration, c)
               /\ asker' = [asker EXCEPT ![c] = NextRequest.load]
          /\ UNCHANGED inbox
     ELSE /\ Answer(NextRequest.load, [type |-> "SaveFailed"])
          /\ UNCHANGED <<storeVars, memory, asker>>
  /\ UNCHANGED <<windowVars, application, connected, snapshots, starts, historyOf>>

\* The awaited write is over; the answer is what the memory says now.
FinishUpdate(c) ==
  /\ Return(c)
  /\ Answer(asker[c], IF call[c] = "Done" THEN ConfigurationMessage("Saved", memory)
                      ELSE [type |-> "SaveFailed"])
  /\ asker' = [asker EXCEPT ![c] = 0]
  /\ historyOf' = [historyOf EXCEPT !.lost = @ \/ call[c] = "Failed"]
  /\ UNCHANGED <<windowVars, application, memory, connected, snapshots, starts, outbox>>

\* A session connects or ends, or a ping has come back: every window gets a
\* snapshot, also of what it knows already.
SendSnapshot ==
  /\ application = "Running" /\ snapshots < MaxSnapshots
  /\ \E c \in BOOLEAN : connected' = c
  /\ snapshots' = snapshots + 1
  /\ Answer(load, Snapshot(connected'))
  /\ UNCHANGED <<storeVars, windowVars, application, memory, asker, starts, outbox, historyOf>>
-----------------------------------------------------------------------------
(* The window                                                              *)

\* An answer is on its way that will replace the configuration shown.
AwaitingGet ==
  \/ \E i \in 1 .. Len(outbox) : outbox[i].type = "GetConfiguration" /\ outbox[i].load = load
  \/ \E i \in 1 .. Len(inbox) : inbox[i].type = "Configuration"

\* React renders what is queued.
Render ==
  /\ window = "Loaded" /\ state # next
  /\ state' = next
  /\ historyOf' = [historyOf EXCEPT !.raced = @ /\ next.dirty]
  /\ UNCHANGED <<storeVars, mainVars, window, load, next, applied, edits, outbox, inbox>>

\* The user changes one field of the configuration shown: updateTargetFps keeps
\* the minimum below the target, updateMinimumFps does not keep it below, and
\* updateProtectedApplications leaves what the validator will trim.
Edited(v) ==
  {[v EXCEPT !.target = r, !.minimum = IF v.minimum < r THEN v.minimum ELSE r] : r \in Rates}
  \cup {[v EXCEPT !.minimum = r] : r \in Rates}
  \cup {[v EXCEPT !.tidy = FALSE]}

\* The fields stay enabled while a request is pending.
Edit ==
  /\ window = "Loaded" /\ edits < MaxEdits
  /\ \E v \in Edited(state.configuration) \ {state.configuration} :
       next' = [next EXCEPT !.configuration = v, !.dirty = TRUE]
  /\ state' = next'
  /\ edits' = edits + 1
  /\ historyOf' = [historyOf EXCEPT !.raced = @ \/ next.busy \/ AwaitingGet]
  /\ UNCHANGED <<storeVars, mainVars, window, load, applied, outbox, inbox>>

\* saveConfiguration: the button is enabled while nothing is pending.
Save ==
  /\ window = "Loaded" /\ state.dirty /\ ~state.busy
  /\ next' = [next EXCEPT !.busy = TRUE]
  /\ state' = next'
  /\ outbox' = Append(outbox,
       [type |-> "Update", load |-> load, configuration |-> state.configuration])
  /\ UNCHANGED <<storeVars, mainVars, window, load, applied, edits, inbox, historyOf>>

\* synchronize of the media session, for what it keeps of its arguments.
Synchronized(c, v) == IF c THEN [state |-> "Started", configuration |-> v] ELSE None

Receives(type) ==
  /\ window = "Loaded" /\ inbox # <<>> /\ Head(inbox).type = type
  /\ inbox' = Tail(inbox)
  /\ UNCHANGED <<storeVars, mainVars, window, load, state, edits, outbox>>

\* Slip: the new connection is shown and not passed on.
SynchronizeLater(c) == UNCHANGED applied

SynchronizeConnection(c) == applied' = Synchronized(c, state.configuration)

\* acceptSnapshot: the configuration is the one rendered, saved or not.
AcceptSnapshot ==
  /\ Receives("Snapshot")
  /\ next' = [next EXCEPT !.connected = Head(inbox).connected]
  /\ SynchronizeConnection(Head(inbox).connected)
  /\ historyOf' = [historyOf EXCEPT !.mixed = state # next]

\* The connection is the one rendered.
SynchronizeConfiguration(v) ==
  /\ applied' = Synchronized(state.connected, v)
  /\ historyOf' = [historyOf EXCEPT !.mixed = @ \/ state # next]

\* The answer to the mount's request.
AcceptConfiguration ==
  /\ Receives("Configuration")
  /\ next' = [next EXCEPT !.configuration = Head(inbox).configuration, !.dirty = FALSE]
  /\ SynchronizeConfiguration(Head(inbox).configuration)

\* The answer to a save, and the end of perform.
AcceptSaved ==
  /\ Receives("Saved")
  /\ next' = [next EXCEPT !.configuration = Head(inbox).configuration,
                          !.dirty = FALSE, !.busy = FALSE]
  /\ SynchronizeConfiguration(Head(inbox).configuration)

\* Slip: an answer is taken for a success.
ClearBusyAndDirty == next' = [next EXCEPT !.busy = FALSE, !.dirty = FALSE]

ClearBusy == next' = [next EXCEPT !.busy = FALSE]

\* perform shows the error and clears busy; the draft stays.
AcceptSaveFailed ==
  /\ Receives("SaveFailed")
  /\ ClearBusy
  /\ UNCHANGED <<applied, historyOf>>

\* render-process-gone: the page, its requests in flight excepted, is lost.
WindowCrashes ==
  /\ window = "Loaded" /\ load <= RecoveryLimit + 1
  /\ window' = IF load <= RecoveryLimit THEN "Loading" ELSE "Gone"
  /\ state' = NewState /\ next' = NewState /\ applied' = None
  /\ inbox' = <<>>
  /\ historyOf' = [historyOf EXCEPT !.raced = FALSE, !.mixed = FALSE]
  /\ UNCHANGED <<storeVars, mainVars, load, edits, outbox>>

\* recoverRenderer, a second later.
Reload ==
  /\ window = "Loading"
  /\ Mounted
  /\ UNCHANGED <<storeVars, mainVars, edits, historyOf>>

Rest == <<windowVars, mainVars, outbox, inbox, historyOf>>

Next ==
  \/ Start \/ Stop \/ HandleGet \/ HandleUpdate \/ SendSnapshot
  \/ Render \/ Edit \/ Save
  \/ AcceptSnapshot \/ AcceptConfiguration \/ AcceptSaved \/ AcceptSaveFailed
  \/ WindowCrashes \/ Reload
  \/ \E c \in Calls :
       \/ FinishUpdate(c)
       \/ FileOperation(c) /\ UNCHANGED Rest
       \/ MayFail /\ FailFileOperation(c) /\ UNCHANGED Rest

Spec == Init /\ [][Next]_vars

-----------------------------------------------------------------------------
(* Properties                                                              *)

States == [configuration : Configuration, dirty : BOOLEAN, busy : BOOLEAN, connected : BOOLEAN]

\* The types; requests and messages are of the kinds the handlers know.
TypeOK ==
  /\ StoreTypeOK
  /\ application \in {"Stopped", "Running", "Failed"}
  /\ memory \in Configuration /\ memory.tidy /\ Valid(memory)
  /\ connected \in BOOLEAN
  /\ asker \in [Calls -> 0 .. load]
  /\ window \in {"None", "Loading", "Loaded", "Gone"}
  /\ load \in Nat
  /\ state \in States /\ next \in States
  /\ applied \in {None} \cup [state : {"Started"}, configuration : Configuration]
  /\ outbox \in Seq(Requests) /\ inbox \in Seq(Messages)
  /\ historyOf \in [raced : BOOLEAN, mixed : BOOLEAN, lost : BOOLEAN]

\* The file never stops a start, whatever write was cut off or failed, as long
\* as no two writes overlapped (load, AtomicJsonStore.read).
StartsAgain == application = "Failed" => overlapped

\* The button says "Configuration saved" and nothing is pending: then the file
\* holds what is shown, so that the next start shows the same.  Only a write
\* that failed, or was cut off, or overlapped another, breaks this.
SavedSurvives ==
  /\ window = "Loaded" /\ ~state.dirty /\ state = next /\ ~AwaitingGet /\ ~state.busy
  /\ ~overlapped /\ ~historyOf.lost
  /\ \A c \in Calls : call[c] = "Idle"
  => \/ Found = Whole(state.configuration)
     \/ Found.state = "Missing" /\ state.configuration = Default

\* The next start finds the file it can use and the settings that were saved.
SettingsSurvive == StartsAgain /\ SavedSurvives

\* A draft leaves the screen only by becoming what is saved, unless the user
\* went on editing while an answer was awaited, which replaces the draft.
DraftKept ==
  [][/\ state.dirty /\ ~state'.dirty /\ window' = "Loaded"
     => state'.configuration = Validated(state.configuration) \/ historyOf.raced]_vars

\* Once React has rendered, the media session runs exactly for the connection
\* shown, and with the configuration shown unless that is a draft.
\* Two messages handled before React rendered the first can break this: each
\* call of synchronize then combines its own news with an old other half.
MediaFollowsState ==
  window = "Loaded" /\ state = next /\ ~historyOf.mixed
  => /\ applied # None <=> state.connected
     /\ state.connected /\ ~state.dirty => applied.configuration = state.configuration

=============================================================================
