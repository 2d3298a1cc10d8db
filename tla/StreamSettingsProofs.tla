------------------------ MODULE StreamSettingsProofs ------------------------
(***************************************************************************)
(* The streaming configuration on its way between file, memory and window, *)
(* for any set of frame rates, any number of edits, snapshots, windows and *)
(* starts, and any number of writes.                                       *)
(*                                                                         *)
(* Requests and answers are queues, of which the proofs use what is at the *)
(* head, what is appended and the order of the rest.                       *)
(***************************************************************************)
EXTENDS StreamSettings, AtomicJsonStoreProofs

-----------------------------------------------------------------------------
(* Data                                                                    *)

Good(v) == Valid(v) /\ v.tidy

LEMMA ConfigurationFacts ==
  /\ Value = Configuration /\ Default \in Configuration /\ Good(Default)
  /\ \A v \in Configuration :
       /\ Validated(v) \in Configuration /\ Validated(v).tidy
       /\ Valid(Validated(v)) <=> Valid(v)
       /\ v.tidy => Validated(v) = v
<1>1. Value = Configuration /\ Default \in Configuration /\ Good(Default)
  BY SettingsAssumption DEF Good, Valid
<1>2. ASSUME NEW v \in Configuration
      PROVE  /\ Validated(v) \in Configuration /\ Validated(v).tidy
             /\ Valid(Validated(v)) <=> Valid(v)
             /\ v.tidy => Validated(v) = v
  <2>1. Validated(v) \in Configuration /\ Validated(v).tidy
    BY DEF Validated, Configuration
  <2>2. Validated(v).target = v.target /\ Validated(v).minimum = v.minimum
    BY DEF Validated, Configuration
  <2>3. ASSUME v.tidy PROVE Validated(v) = v
    <3>1. v.tidy = TRUE
      BY <2>3 DEF Configuration
    <3> QED
      BY <3>1 DEF Validated, Configuration
  <2> QED
    BY <2>1, <2>2, <2>3 DEF Valid
<1> QED
  BY <1>1, <1>2

LEMMA EditedType ==
  ASSUME NEW v \in Configuration, NEW w \in Edited(v)
  PROVE  w \in Configuration
<1>1. CASE \E r \in Rates :
             w = [v EXCEPT !.target = r, !.minimum = IF v.minimum < r THEN v.minimum ELSE r]
  <2>1. PICK r \in Rates :
          w = [v EXCEPT !.target = r, !.minimum = IF v.minimum < r THEN v.minimum ELSE r]
    BY <1>1
  <2>2. PICK n \in Rates : n = IF v.minimum < r THEN v.minimum ELSE r
    BY DEF Configuration
  <2>3. w = [v EXCEPT !.target = r, !.minimum = n]
    BY <2>1, <2>2
  <2> QED
    BY <2>3 DEF Configuration
<1>2. CASE \E r \in Rates : w = [v EXCEPT !.minimum = r]
  BY <1>2 DEF Configuration
<1>3. CASE w = [v EXCEPT !.tidy = FALSE]
  BY <1>3 DEF Configuration
<1> QED
  BY <1>1, <1>2, <1>3 DEF Edited

LEMMA StateFacts ==
  /\ NewState \in States /\ NewState.configuration = Default
  /\ ~NewState.dirty /\ ~NewState.busy /\ ~NewState.connected
  BY ConfigurationFacts DEF NewState, States

\* One field of the window's state at a time.
LEMMA StateTypes ==
  ASSUME NEW s \in States
  PROVE  /\ s.configuration \in Configuration /\ s.dirty \in BOOLEAN
         /\ s.busy \in BOOLEAN /\ s.connected \in BOOLEAN
         /\ \A v \in Configuration : [s EXCEPT !.configuration = v] \in States
         /\ \A x \in BOOLEAN : [s EXCEPT !.dirty = x] \in States
         /\ \A x \in BOOLEAN : [s EXCEPT !.busy = x] \in States
         /\ \A x \in BOOLEAN : [s EXCEPT !.connected = x] \in States
  BY DEF States

LEMMA RequestFacts ==
  /\ \A l \in Nat : /\ [type |-> "GetSnapshot", load |-> l] \in Requests
                    /\ [type |-> "GetConfiguration", load |-> l] \in Requests
  /\ \A l \in Nat, v \in Configuration :
       [type |-> "Update", load |-> l, configuration |-> v] \in Requests
  /\ \A r \in Requests :
       /\ r.load \in Nat /\ r.type \in {"GetConfiguration", "GetSnapshot", "Update"}
       /\ r.type = "Update" => r.configuration \in Configuration
  BY DEF Requests

LEMMA MessageFacts ==
  /\ \A c \in BOOLEAN : Snapshot(c) \in Messages
  /\ \A v \in Configuration : /\ ConfigurationMessage("Configuration", v) \in Messages
                              /\ ConfigurationMessage("Saved", v) \in Messages
  /\ [type |-> "SaveFailed"] \in Messages
  /\ \A m \in Messages :
       /\ m.type \in {"Configuration", "Saved"} => m.configuration \in Configuration
       /\ m.type = "Snapshot" => m.connected \in BOOLEAN
  BY DEF Messages, Snapshot, ConfigurationMessage

\* t is s without its head; t is s with m at its end.
Popped(s, t) ==
  Len(s) > 0 /\ Len(t) = Len(s) - 1 /\ \A i \in 1 .. Len(t) : t[i] = s[i + 1]
Pushed(s, t, m) ==
  Len(t) = Len(s) + 1 /\ t[Len(s) + 1] = m /\ \A i \in 1 .. Len(s) : t[i] = s[i]

LEMMA PopFacts ==
  ASSUME NEW S, NEW s \in Seq(S), s # <<>>
  PROVE  /\ Tail(s) \in Seq(S) /\ Popped(s, Tail(s)) /\ Head(s) = s[1] /\ Head(s) \in S
         /\ Len(s) \in Nat /\ Len(s) > 0
  BY DEF Popped

LEMMA PushFacts ==
  ASSUME NEW S, NEW s \in Seq(S), NEW m \in S
  PROVE  Append(s, m) \in Seq(S) /\ Pushed(s, Append(s, m), m) /\ Len(s) \in Nat
  BY DEF Pushed

LEMMA EmptyFacts ==
  ASSUME NEW S
  PROVE  <<>> \in Seq(S) /\ Len(<<>>) = 0
  OBVIOUS

-----------------------------------------------------------------------------
(* What each action does                                                   *)

\* The queues, for the steps that leave them alone or work on one end.
Ask(r) == Pushed(outbox, outbox', r)
Handled == Popped(outbox, outbox')
Receive(m) == Pushed(inbox, inbox', m)
Accepted == Popped(inbox, inbox')

\* An answer is added for the load that asked, and only for that.
Reaches(asked, m) ==
  \/ window = "Loaded" /\ asked = load /\ Receive(m)
  \/ ~(window = "Loaded" /\ asked = load) /\ inbox' = inbox

LEMMA AnswerFacts ==
  ASSUME TypeOK, NEW asked, NEW m \in Messages, Answer(asked, m)
  PROVE  inbox' \in Seq(Messages) /\ Reaches(asked, m)
<1>1. inbox \in Seq(Messages)
  BY DEF TypeOK
<1>2. CASE window = "Loaded" /\ asked = load
  <2>1. inbox' = Append(inbox, m)
    BY <1>2 DEF Answer
  <2> QED
    BY <1>1, <1>2, <2>1, PushFacts DEF Reaches, Receive
<1>3. CASE ~(window = "Loaded" /\ asked = load)
  BY <1>1, <1>3 DEF Answer, Reaches
<1> QED
  BY <1>2, <1>3

LEMMA HeadFacts ==
  ASSUME TypeOK, outbox # <<>>, outbox' = Tail(outbox)
  PROVE  /\ outbox' \in Seq(Requests) /\ Handled
         /\ NextRequest = outbox[1] /\ NextRequest \in Requests
         /\ Len(outbox) \in Nat /\ Len(outbox) > 0
  BY PopFacts DEF TypeOK, Handled, NextRequest

LEMMA ReceiveFacts ==
  ASSUME TypeOK, NEW t, Receives(t)
  PROVE  /\ inbox' \in Seq(Messages) /\ Accepted
         /\ Head(inbox) = inbox[1] /\ inbox[1] \in Messages /\ inbox[1].type = t
         /\ Len(inbox) \in Nat /\ Len(inbox) > 0 /\ window = "Loaded"
<1>1. inbox \in Seq(Messages) /\ inbox # <<>> /\ Head(inbox).type = t /\ inbox' = Tail(inbox)
      /\ window = "Loaded"
  BY DEF TypeOK, Receives
<1>2. /\ Tail(inbox) \in Seq(Messages) /\ Popped(inbox, Tail(inbox)) /\ Head(inbox) = inbox[1]
      /\ Head(inbox) \in Messages /\ Len(inbox) \in Nat /\ Len(inbox) > 0
  BY <1>1, PopFacts
<1> QED
  BY <1>1, <1>2 DEF Accepted

LEMMA SizeFacts ==
  ASSUME TypeOK
  PROVE  /\ Len(outbox) \in Nat /\ Len(inbox) \in Nat
         /\ \A i \in 1 .. Len(outbox) : outbox[i] \in Requests
         /\ \A k \in 1 .. Len(inbox) : inbox[k] \in Messages
  BY DEF TypeOK

\* The requests of a window that has just been loaded.
LEMMA MountFacts ==
  ASSUME TypeOK, Mounted
  PROVE  /\ outbox' \in Seq(Requests) /\ Len(outbox) \in Nat /\ Len(outbox') = Len(outbox) + 2
         /\ \A i \in 1 .. Len(outbox) : outbox'[i] = outbox[i]
         /\ outbox'[Len(outbox) + 1] = [type |-> "GetSnapshot", load |-> load + 1]
         /\ outbox'[Len(outbox) + 2] = [type |-> "GetConfiguration", load |-> load + 1]
         /\ window' = "Loaded" /\ load' = load + 1 /\ load \in Nat
         /\ state' = NewState /\ next' = NewState /\ applied' = None
         /\ inbox' = <<>> /\ inbox' \in Seq(Messages) /\ Len(inbox') = 0
<1> DEFINE a == [type |-> "GetSnapshot", load |-> load + 1]
           b == [type |-> "GetConfiguration", load |-> load + 1]
<1>1. outbox \in Seq(Requests) /\ load \in Nat
  BY DEF TypeOK
<1>2. a \in Requests /\ b \in Requests
  BY <1>1, RequestFacts
<1>3. outbox' = outbox \o <<a, b>>
  BY DEF Mounted
<1>4. window' = "Loaded" /\ load' = load + 1 /\ state' = NewState /\ next' = NewState
      /\ applied' = None /\ inbox' = <<>>
  BY DEF Mounted
<1> HIDE DEF a, b
<1>5. /\ outbox \o <<a, b>> \in Seq(Requests) /\ Len(outbox \o <<a, b>>) = Len(outbox) + 2
      /\ Len(outbox) \in Nat
      /\ \A i \in 1 .. Len(outbox) : (outbox \o <<a, b>>)[i] = outbox[i]
      /\ (outbox \o <<a, b>>)[Len(outbox) + 1] = a /\ (outbox \o <<a, b>>)[Len(outbox) + 2] = b
  BY <1>1, <1>2
<1>6. <<>> \in Seq(Messages) /\ Len(<<>>) = 0
  BY EmptyFacts
<1> QED
  BY <1>1, <1>3, <1>4, <1>5, <1>6 DEF a, b

\* One step of the window's state, field by field.
LEMMA Updates ==
  ASSUME NEW s \in States, NEW v \in Configuration, NEW x \in BOOLEAN
  PROVE  /\ LET t == [s EXCEPT !.configuration = v, !.dirty = x]
            IN  /\ t \in States /\ t.configuration = v /\ t.dirty = x
                /\ t.busy = s.busy /\ t.connected = s.connected
         /\ LET t == [s EXCEPT !.configuration = v, !.dirty = FALSE, !.busy = FALSE]
            IN  /\ t \in States /\ t.configuration = v /\ ~t.dirty
                /\ ~t.busy /\ t.connected = s.connected
         /\ LET t == [s EXCEPT !.busy = x]
            IN  /\ t \in States /\ t.configuration = s.configuration /\ t.dirty = s.dirty
                /\ t.busy = x /\ t.connected = s.connected
         /\ LET t == [s EXCEPT !.connected = x]
            IN  /\ t \in States /\ t.configuration = s.configuration /\ t.dirty = s.dirty
                /\ t.busy = s.busy /\ t.connected = x
<1>1. LET t == [s EXCEPT !.configuration = v, !.dirty = x]
      IN  /\ t \in States /\ t.configuration = v /\ t.dirty = x
          /\ t.busy = s.busy /\ t.connected = s.connected
  BY DEF States
<1>2. LET t == [s EXCEPT !.configuration = v, !.dirty = FALSE, !.busy = FALSE]
      IN  /\ t \in States /\ t.configuration = v /\ ~t.dirty
          /\ ~t.busy /\ t.connected = s.connected
  BY DEF States
<1>3. LET t == [s EXCEPT !.busy = x]
      IN  /\ t \in States /\ t.configuration = s.configuration /\ t.dirty = s.dirty
          /\ t.busy = x /\ t.connected = s.connected
  BY DEF States
<1>4. LET t == [s EXCEPT !.connected = x]
      IN  /\ t \in States /\ t.configuration = s.configuration /\ t.dirty = s.dirty
          /\ t.busy = s.busy /\ t.connected = x
  BY DEF States
<1> QED
  BY <1>1, <1>2, <1>3, <1>4

Histories == [raced : BOOLEAN, mixed : BOOLEAN, lost : BOOLEAN]

LEMMA HistoryFacts ==
  ASSUME NEW h \in Histories, NEW x \in BOOLEAN
  PROVE  /\ h.raced \in BOOLEAN /\ h.mixed \in BOOLEAN /\ h.lost \in BOOLEAN
         /\ LET g == [h EXCEPT !.raced = x]
            IN  g \in Histories /\ g.raced = x /\ g.mixed = h.mixed /\ g.lost = h.lost
         /\ LET g == [h EXCEPT !.mixed = x]
            IN  g \in Histories /\ g.raced = h.raced /\ g.mixed = x /\ g.lost = h.lost
         /\ LET g == [h EXCEPT !.lost = x]
            IN  g \in Histories /\ g.raced = h.raced /\ g.mixed = h.mixed /\ g.lost = x
         /\ LET g == [h EXCEPT !.raced = FALSE, !.mixed = FALSE]
            IN  g \in Histories /\ ~g.raced /\ ~g.mixed /\ g.lost = h.lost
  BY DEF Histories

LEMMA TypeFacts ==
  ASSUME TypeOK
  PROVE  /\ StoreTypeOK /\ load \in Nat /\ asker \in [Calls -> 0 .. load]
         /\ memory \in Configuration /\ Good(memory) /\ connected \in BOOLEAN
         /\ state \in States /\ next \in States /\ historyOf \in Histories
         /\ outbox \in Seq(Requests) /\ inbox \in Seq(Messages)
         /\ application \in {"Stopped", "Running", "Failed"}
         /\ window \in {"None", "Loading", "Loaded", "Gone"}
         /\ applied \in {None} \cup [state : {"Started"}, configuration : Configuration]
  BY DEF TypeOK, Histories, Good

LEMMA SynchronizedType ==
  ASSUME NEW c \in BOOLEAN, NEW v \in Configuration
  PROVE  /\ Synchronized(c, v) \in {None} \cup [state : {"Started"}, configuration : Configuration]
         /\ c => Synchronized(c, v).configuration = v /\ Synchronized(c, v) # None
         /\ ~c => Synchronized(c, v) = None
  BY DEF Synchronized, None

LEMMA StartEffect ==
  ASSUME TypeOK, Start
  PROVE  /\ application = "Stopped"
         /\ UNCHANGED <<storeVars, connected, asker, edits, snapshots, historyOf>>
         /\ \/ /\ Found.state \in {"Empty", "Torn"} /\ application' = "Failed"
               /\ UNCHANGED <<memory, window, load, state, next, applied, outbox, inbox>>
            \/ /\ Found.state \in {"Missing", "Whole"} /\ application' = "Running" /\ Mounted
               /\ memory' \in Configuration /\ Good(memory')
               /\ Found.state = "Whole" /\ Good(Found.value) => memory' = Found.value
               /\ Found.state = "Missing" => memory' = Default
<1>1. Found.state = "Whole" => Found.value \in Configuration
  BY Findings, TypeFacts, SettingsAssumption
<1>2. /\ application = "Stopped"
      /\ UNCHANGED <<storeVars, connected, asker, edits, snapshots, historyOf>>
  BY DEF Start
<1>3. CASE Found.state \in {"Empty", "Torn"}
  BY <1>2, <1>3 DEF Start
<1>4. CASE Found.state \notin {"Empty", "Torn"}
  <2>1. application' = "Running" /\ Mounted
        /\ memory' = IF Found.state = "Whole" /\ Valid(Found.value)
                     THEN Validated(Found.value) ELSE Default
    BY <1>4 DEF Start
  <2>2. Found.state \in {"Missing", "Whole"}
    BY <1>4, Findings, TypeFacts
  <2>3. CASE Found.state = "Whole" /\ Valid(Found.value)
    <3>1. memory' = Validated(Found.value)
      BY <2>1, <2>3
    <3>2. /\ memory' \in Configuration /\ Good(memory')
          /\ Good(Found.value) => memory' = Found.value
      BY <1>1, <2>3, <3>1, ConfigurationFacts DEF Good
    <3> QED
      BY <1>2, <2>1, <2>2, <2>3, <3>2
  <2>4. CASE ~(Found.state = "Whole" /\ Valid(Found.value))
    <3>1. memory' = Default
      BY <2>1, <2>4
    <3>2. memory' \in Configuration /\ Good(memory')
      BY <3>1, ConfigurationFacts
    <3>3. ~(Found.state = "Whole" /\ Good(Found.value))
      BY <2>4 DEF Good
    <3> QED
      BY <1>2, <2>1, <2>2, <3>1, <3>2, <3>3
  <2> QED
    BY <2>3, <2>4
<1> QED
  BY <1>3, <1>4

LEMMA StopEffect ==
  ASSUME TypeOK, Stop
  PROVE  /\ application' = "Stopped" /\ window' = "None" /\ load' = 0 /\ connected' = FALSE
         /\ memory' = Default /\ EndCalls /\ asker' = [c \in Calls |-> 0]
         /\ state' = NewState /\ next' = NewState /\ applied' = None
         /\ outbox' = <<>> /\ inbox' = <<>> /\ historyOf' \in Histories
         /\ ~historyOf'.raced /\ ~historyOf'.mixed
         /\ ~historyOf'.lost => ~historyOf.lost /\ \A c \in Calls : call[c] = "Idle"
<1>1. historyOf.lost \in BOOLEAN
  BY TypeFacts, HistoryFacts DEF Histories
<1>2. (historyOf.lost \/ \E c \in Calls : call[c] # "Idle") \in BOOLEAN
  BY <1>1
<1>3. historyOf' = [raced |-> FALSE, mixed |-> FALSE,
                    lost |-> historyOf.lost \/ \E c \in Calls : call[c] # "Idle"]
  BY DEF Stop
<1>4. historyOf' \in Histories
  BY <1>2, <1>3 DEF Histories
<1>5. /\ ~historyOf'.raced /\ ~historyOf'.mixed
      /\ ~historyOf'.lost => ~historyOf.lost /\ \A c \in Calls : call[c] = "Idle"
  BY <1>3
<1>6. /\ application' = "Stopped" /\ window' = "None" /\ load' = 0 /\ connected' = FALSE
      /\ memory' = Default /\ EndCalls /\ asker' = [c \in Calls |-> 0]
      /\ state' = NewState /\ next' = NewState /\ applied' = None
      /\ outbox' = <<>> /\ inbox' = <<>>
  BY DEF Stop
<1> QED
  BY <1>4, <1>5, <1>6

LEMMA HandleGetEffect ==
  ASSUME TypeOK, HandleGet
  PROVE  /\ UNCHANGED <<storeVars, windowVars, mainVars, historyOf>>
         /\ outbox' \in Seq(Requests) /\ Handled /\ inbox' \in Seq(Messages)
         /\ Len(outbox) \in Nat /\ Len(outbox) > 0
         /\ \/ outbox[1].type = "GetSnapshot" /\ Reaches(outbox[1].load, Snapshot(connected))
            \/ /\ outbox[1].type = "GetConfiguration"
               /\ Reaches(outbox[1].load, ConfigurationMessage("Configuration", memory))
<1>1. outbox # <<>> /\ outbox' = Tail(outbox)
      /\ UNCHANGED <<storeVars, windowVars, mainVars, historyOf>>
      /\ NextRequest.type \in {"GetSnapshot", "GetConfiguration"}
  BY DEF HandleGet
<1>2. /\ outbox' \in Seq(Requests) /\ Handled /\ NextRequest = outbox[1]
      /\ Len(outbox) \in Nat /\ Len(outbox) > 0
  BY <1>1, HeadFacts
<1>3. CASE NextRequest.type = "GetSnapshot"
  <2>1. Answer(NextRequest.load, Snapshot(connected))
    BY <1>3 DEF HandleGet
  <2> QED
    BY <1>1, <1>2, <1>3, <2>1, AnswerFacts, MessageFacts, TypeFacts
<1>4. CASE NextRequest.type = "GetConfiguration"
  <2>1. Answer(NextRequest.load, ConfigurationMessage("Configuration", memory))
    BY <1>4 DEF HandleGet
  <2> QED
    BY <1>1, <1>2, <1>4, <2>1, AnswerFacts, MessageFacts, TypeFacts
<1> QED
  BY <1>1, <1>3, <1>4

LEMMA HandleUpdateEffect ==
  ASSUME TypeOK, HandleUpdate
  PROVE  /\ UNCHANGED <<windowVars, application, connected, snapshots, starts, historyOf>>
         /\ outbox' \in Seq(Requests) /\ Handled /\ outbox[1].type = "Update"
         /\ Len(outbox) \in Nat /\ Len(outbox) > 0
         /\ outbox[1].configuration \in Configuration
         /\ \/ /\ inbox' = inbox
               /\ memory' = Validated(outbox[1].configuration) /\ Good(memory')
               /\ memory' \in Configuration
               /\ \E c \in Calls :
                    /\ call[c] = "Idle" /\ Write(c, memory')
                    /\ asker' = [asker EXCEPT ![c] = outbox[1].load]
            \/ /\ UNCHANGED <<storeVars, memory, asker>> /\ inbox' \in Seq(Messages)
               /\ Reaches(outbox[1].load, [type |-> "SaveFailed"])
<1>1. outbox # <<>> /\ outbox' = Tail(outbox) /\ NextRequest.type = "Update"
      /\ UNCHANGED <<windowVars, application, connected, snapshots, starts, historyOf>>
  BY DEF HandleUpdate
<1>2. /\ outbox' \in Seq(Requests) /\ Handled /\ NextRequest = outbox[1]
      /\ Len(outbox) \in Nat /\ Len(outbox) > 0 /\ NextRequest \in Requests
  BY <1>1, HeadFacts
<1>3. outbox[1].configuration \in Configuration
  BY <1>1, <1>2, RequestFacts
<1>4. CASE Valid(NextRequest.configuration)
  <2> DEFINE d == CHOOSE e \in Calls : call[e] = "Idle"
             v == NextRequest.configuration
  <2>1. d \in Calls /\ call[d] = "Idle"
    BY DEF HandleUpdate
  <2>2. UpdateMemory(v, d) /\ asker' = [asker EXCEPT ![d] = NextRequest.load] /\ inbox' = inbox
    BY <1>4 DEF HandleUpdate
  <2>3. memory' = Validated(v) /\ Write(d, memory')
    BY <2>2 DEF UpdateMemory
  <2>4. memory' \in Configuration /\ Good(memory')
    BY <1>2, <1>3, <1>4, <2>3, ConfigurationFacts DEF Good
  <2> HIDE DEF d
  <2> QED
    BY <1>1, <1>2, <1>3, <2>1, <2>2, <2>3, <2>4
<1>5. CASE ~Valid(NextRequest.configuration)
  <2>1. Answer(NextRequest.load, [type |-> "SaveFailed"]) /\ UNCHANGED <<storeVars, memory, asker>>
    BY <1>5 DEF HandleUpdate
  <2> QED
    BY <1>1, <1>2, <1>3, <2>1, AnswerFacts, MessageFacts
<1> QED
  BY <1>4, <1>5

LEMMA FinishEffect ==
  ASSUME TypeOK, NEW c \in Calls, FinishUpdate(c)
  PROVE  /\ Return(c) /\ asker' = [asker EXCEPT ![c] = 0]
         /\ UNCHANGED <<windowVars, application, memory, connected, snapshots, starts, outbox>>
         /\ historyOf' \in Histories /\ UNCHANGED <<historyOf.raced, historyOf.mixed>>
         /\ ~historyOf'.lost => ~historyOf.lost /\ call[c] = "Done"
         /\ inbox' \in Seq(Messages)
         /\ \/ call[c] = "Done" /\ Reaches(asker[c], ConfigurationMessage("Saved", memory))
            \/ call[c] = "Failed" /\ Reaches(asker[c], [type |-> "SaveFailed"])
<1>1. /\ Return(c) /\ asker' = [asker EXCEPT ![c] = 0] /\ call[c] \in {"Done", "Failed"}
      /\ UNCHANGED <<windowVars, application, memory, connected, snapshots, starts, outbox>>
  BY DEF FinishUpdate, Return
<1>2. historyOf' = [historyOf EXCEPT !.lost = historyOf.lost \/ call[c] = "Failed"]
  BY DEF FinishUpdate
<1>3. (historyOf.lost \/ call[c] = "Failed") \in BOOLEAN
  BY TypeFacts, HistoryFacts DEF Histories
<1>4. /\ historyOf' \in Histories /\ UNCHANGED <<historyOf.raced, historyOf.mixed>>
      /\ ~historyOf'.lost => ~historyOf.lost /\ call[c] = "Done"
  <2> DEFINE x == historyOf.lost \/ call[c] = "Failed"
             g == [historyOf EXCEPT !.lost = x]
  <2>1. x \in BOOLEAN /\ historyOf' = g /\ historyOf \in Histories
    BY <1>2, <1>3, TypeFacts
  <2>2. ~x => ~historyOf.lost /\ call[c] = "Done"
    BY <1>1
  <2> HIDE DEF x
  <2>3. g \in Histories /\ g.raced = historyOf.raced /\ g.mixed = historyOf.mixed /\ g.lost = x
    BY <2>1 DEF Histories
  <2> QED
    BY <2>1, <2>2, <2>3
<1>5. CASE call[c] = "Done"
  <2>1. Answer(asker[c], ConfigurationMessage("Saved", memory))
    BY <1>5 DEF FinishUpdate
  <2> QED
    BY <1>1, <1>4, <1>5, <2>1, AnswerFacts, MessageFacts, TypeFacts
<1>6. CASE call[c] = "Failed"
  <2>1. Answer(asker[c], [type |-> "SaveFailed"])
    BY <1>6 DEF FinishUpdate
  <2> QED
    BY <1>1, <1>4, <1>6, <2>1, AnswerFacts, MessageFacts
<1> QED
  BY <1>1, <1>5, <1>6

LEMMA SendSnapshotEffect ==
  ASSUME TypeOK, SendSnapshot
  PROVE  /\ application = "Running" /\ connected' \in BOOLEAN
         /\ UNCHANGED <<storeVars, windowVars, application, memory, asker, starts, outbox, historyOf>>
         /\ inbox' \in Seq(Messages) /\ Reaches(load, Snapshot(connected'))
<1>1. /\ application = "Running" /\ connected' \in BOOLEAN /\ Answer(load, Snapshot(connected'))
      /\ UNCHANGED <<storeVars, windowVars, application, memory, asker, starts, outbox, historyOf>>
  BY DEF SendSnapshot
<1> QED
  BY <1>1, AnswerFacts, MessageFacts

LEMMA RenderEffect ==
  ASSUME TypeOK, Render
  PROVE  /\ UNCHANGED <<storeVars, mainVars, window, load, next, applied, edits, outbox, inbox>>
         /\ window = "Loaded" /\ state' = next /\ historyOf' \in Histories
         /\ UNCHANGED <<historyOf.mixed, historyOf.lost>>
         /\ ~historyOf'.raced => ~historyOf.raced \/ ~next.dirty
<1> DEFINE x == historyOf.raced /\ next.dirty
           g == [historyOf EXCEPT !.raced = x]
<1>1. x \in BOOLEAN /\ historyOf' = g /\ historyOf \in Histories
  BY TypeFacts DEF Histories, Render
<1>2. g \in Histories /\ g.raced = x /\ g.mixed = historyOf.mixed /\ g.lost = historyOf.lost
  <2> HIDE DEF x
  <2> QED
    BY <1>1 DEF Histories
<1>3. /\ UNCHANGED <<storeVars, mainVars, window, load, next, applied, edits, outbox, inbox>>
      /\ window = "Loaded" /\ state' = next
  BY DEF Render
<1> QED
  BY <1>1, <1>2, <1>3

LEMMA EditEffect ==
  ASSUME TypeOK, Edit
  PROVE  /\ UNCHANGED <<storeVars, mainVars, window, load, applied, outbox, inbox>>
         /\ window = "Loaded" /\ state' = next' /\ next' \in States /\ historyOf' \in Histories
         /\ next'.dirty /\ next'.busy = next.busy /\ next'.connected = next.connected
         /\ UNCHANGED <<historyOf.mixed, historyOf.lost>>
         /\ ~historyOf'.raced => ~historyOf.raced /\ ~next.busy /\ ~AwaitingGet
<1> DEFINE x == historyOf.raced \/ next.busy \/ AwaitingGet
           g == [historyOf EXCEPT !.raced = x]
<1>1. x \in BOOLEAN /\ historyOf' = g /\ historyOf \in Histories
  <2>1. AwaitingGet \in BOOLEAN
    BY DEF AwaitingGet
  <2>2. historyOf.raced \in BOOLEAN /\ next.busy \in BOOLEAN /\ historyOf \in Histories
    BY TypeFacts DEF Histories, States
  <2>3. historyOf' = g
    BY DEF Edit
  <2> QED
    BY <2>1, <2>2, <2>3
<1>2. g \in Histories /\ g.raced = x /\ g.mixed = historyOf.mixed /\ g.lost = historyOf.lost
  <2> HIDE DEF x
  <2> QED
    BY <1>1 DEF Histories
<1>3. /\ UNCHANGED <<storeVars, mainVars, window, load, applied, outbox, inbox>>
      /\ window = "Loaded" /\ state' = next'
  BY DEF Edit
<1>4. PICK v \in Edited(state.configuration) :
        next' = [next EXCEPT !.configuration = v, !.dirty = TRUE]
  BY DEF Edit
<1>5. state.configuration \in Configuration /\ next \in States
  BY TypeFacts, StateTypes
<1>6. v \in Configuration
  BY <1>5, EditedType
<1>7. /\ next' \in States /\ next'.dirty
      /\ next'.busy = next.busy /\ next'.connected = next.connected
  BY <1>4, <1>5, <1>6 DEF States
<1> HIDE DEF g
<1> QED
  BY <1>1, <1>2, <1>3, <1>7

LEMMA SaveEffect ==
  ASSUME TypeOK, Save
  PROVE  /\ UNCHANGED <<storeVars, mainVars, window, load, applied, edits, inbox, historyOf>>
         /\ window = "Loaded" /\ state.dirty /\ ~state.busy /\ state' = next' /\ next' \in States
         /\ next'.configuration = next.configuration /\ next'.dirty = next.dirty
         /\ next'.busy /\ next'.connected = next.connected
         /\ outbox' \in Seq(Requests) /\ state.configuration \in Configuration
         /\ Ask([type |-> "Update", load |-> load, configuration |-> state.configuration])
<1> DEFINE r == [type |-> "Update", load |-> load, configuration |-> state.configuration]
<1>1. /\ UNCHANGED <<storeVars, mainVars, window, load, applied, edits, inbox, historyOf>>
      /\ window = "Loaded" /\ state.dirty /\ ~state.busy /\ state' = next'
      /\ next' = [next EXCEPT !.busy = TRUE] /\ outbox' = Append(outbox, r)
  BY DEF Save
<1>2. state.configuration \in Configuration /\ load \in Nat /\ next \in States
      /\ outbox \in Seq(Requests)
  BY TypeFacts, StateTypes
<1>3. r \in Requests
  BY <1>2, RequestFacts
<1>4. outbox' \in Seq(Requests) /\ Ask(r)
  <2> HIDE DEF r
  <2> QED
    BY <1>1, <1>2, <1>3, PushFacts DEF Ask
<1>5. /\ next' \in States /\ next'.configuration = next.configuration
      /\ next'.dirty = next.dirty /\ next'.busy /\ next'.connected = next.connected
  BY <1>1, <1>2 DEF States
<1> QED
  BY <1>1, <1>2, <1>4, <1>5

\* What the handlers of messages have in common.
Takes ==
  /\ UNCHANGED <<storeVars, mainVars, window, load, state, edits, outbox>>
  /\ window = "Loaded" /\ inbox' \in Seq(Messages) /\ Accepted
  /\ inbox[1] \in Messages /\ Len(inbox) \in Nat /\ Len(inbox) > 0
  /\ next' \in States
  /\ applied' \in {None} \cup [state : {"Started"}, configuration : Configuration]
  /\ historyOf' \in Histories /\ UNCHANGED <<historyOf.raced, historyOf.lost>>

\* synchronize runs for the connection c, with the configuration v.
Synchronizes(c, v) ==
  /\ c => applied' # None /\ applied'.configuration = v
  /\ ~c => applied' = None

LEMMA MixedFacts ==
  ASSUME TypeOK, NEW x \in BOOLEAN, historyOf' = [historyOf EXCEPT !.mixed = x]
  PROVE  /\ historyOf' \in Histories /\ UNCHANGED <<historyOf.raced, historyOf.lost>>
         /\ historyOf'.mixed = x
<1>1. historyOf \in Histories
  BY TypeFacts
<1> QED
  BY <1>1 DEF Histories

LEMMA AcceptSnapshotEffect ==
  ASSUME TypeOK, AcceptSnapshot
  PROVE  /\ Takes /\ inbox[1].type = "Snapshot"
         /\ next'.configuration = next.configuration /\ next'.dirty = next.dirty
         /\ next'.busy = next.busy /\ next'.connected = inbox[1].connected
         /\ Synchronizes(inbox[1].connected, state.configuration)
         /\ historyOf'.mixed <=> ~(state = next)
<1> DEFINE c == inbox[1].connected
<1>1. /\ inbox' \in Seq(Messages) /\ Accepted /\ inbox[1] \in Messages
      /\ inbox[1].type = "Snapshot" /\ Head(inbox) = inbox[1]
      /\ Len(inbox) \in Nat /\ Len(inbox) > 0 /\ window = "Loaded"
  BY ReceiveFacts DEF AcceptSnapshot
<1>2. c \in BOOLEAN /\ state.configuration \in Configuration /\ next \in States
  BY <1>1, MessageFacts, TypeFacts, StateTypes
<1>3. /\ next' = [next EXCEPT !.connected = c] /\ applied' = Synchronized(c, state.configuration)
      /\ historyOf' = [historyOf EXCEPT !.mixed = state # next]
      /\ UNCHANGED <<storeVars, mainVars, window, load, state, edits, outbox>>
  BY <1>1 DEF AcceptSnapshot, Receives, SynchronizeConnection
<1>4. historyOf' \in Histories /\ UNCHANGED <<historyOf.raced, historyOf.lost>>
      /\ (historyOf'.mixed <=> ~(state = next))
  BY <1>3, MixedFacts
<1> HIDE DEF c
<1>5. /\ next' \in States
      /\ next'.configuration = next.configuration /\ next'.dirty = next.dirty
      /\ next'.busy = next.busy /\ next'.connected = c
  BY <1>2, <1>3 DEF States
<1>6. /\ applied' \in {None} \cup [state : {"Started"}, configuration : Configuration]
      /\ Synchronizes(c, state.configuration)
  BY <1>2, <1>3, SynchronizedType DEF Synchronizes
<1> QED
  BY <1>1, <1>3, <1>4, <1>5, <1>6 DEF Takes, c

LEMMA AcceptConfigurationEffect ==
  ASSUME TypeOK, AcceptConfiguration
  PROVE  /\ Takes /\ inbox[1].type = "Configuration"
         /\ next'.configuration = inbox[1].configuration /\ ~next'.dirty
         /\ next'.busy = next.busy /\ next'.connected = next.connected
         /\ Synchronizes(state.connected, inbox[1].configuration)
         /\ ~historyOf'.mixed => ~historyOf.mixed /\ state = next
<1> DEFINE v == inbox[1].configuration
           x == historyOf.mixed \/ state # next
<1>1. /\ inbox' \in Seq(Messages) /\ Accepted /\ inbox[1] \in Messages
      /\ inbox[1].type = "Configuration" /\ Head(inbox) = inbox[1]
      /\ Len(inbox) \in Nat /\ Len(inbox) > 0 /\ window = "Loaded"
  BY ReceiveFacts DEF AcceptConfiguration
<1>2. v \in Configuration /\ state.connected \in BOOLEAN /\ next \in States
  BY <1>1, MessageFacts, TypeFacts, StateTypes
<1>3. /\ next' = [next EXCEPT !.configuration = v, !.dirty = FALSE]
      /\ applied' = Synchronized(state.connected, v)
      /\ historyOf' = [historyOf EXCEPT !.mixed = x]
      /\ UNCHANGED <<storeVars, mainVars, window, load, state, edits, outbox>>
  BY <1>1 DEF AcceptConfiguration, Receives, SynchronizeConfiguration
<1>4. x \in BOOLEAN
  BY TypeFacts DEF Histories
<1> HIDE DEF v
<1>5. historyOf' \in Histories /\ UNCHANGED <<historyOf.raced, historyOf.lost>>
      /\ historyOf'.mixed = x
  <2> HIDE DEF x
  <2> QED
    BY <1>3, <1>4, MixedFacts
<1>6. /\ next' \in States /\ next'.configuration = v /\ ~next'.dirty
      /\ next'.busy = next.busy /\ next'.connected = next.connected
  BY <1>2, <1>3 DEF States
<1>7. /\ applied' \in {None} \cup [state : {"Started"}, configuration : Configuration]
      /\ Synchronizes(state.connected, v)
  BY <1>2, <1>3, SynchronizedType DEF Synchronizes
<1> QED
  BY <1>1, <1>3, <1>5, <1>6, <1>7 DEF Takes, v

LEMMA AcceptSavedEffect ==
  ASSUME TypeOK, AcceptSaved
  PROVE  /\ Takes /\ inbox[1].type = "Saved"
         /\ next'.configuration = inbox[1].configuration /\ ~next'.dirty
         /\ ~next'.busy /\ next'.connected = next.connected
         /\ Synchronizes(state.connected, inbox[1].configuration)
         /\ ~historyOf'.mixed => ~historyOf.mixed /\ state = next
<1> DEFINE v == inbox[1].configuration
           x == historyOf.mixed \/ state # next
<1>1. /\ inbox' \in Seq(Messages) /\ Accepted /\ inbox[1] \in Messages
      /\ inbox[1].type = "Saved" /\ Head(inbox) = inbox[1]
      /\ Len(inbox) \in Nat /\ Len(inbox) > 0 /\ window = "Loaded"
  BY ReceiveFacts DEF AcceptSaved
<1>2. v \in Configuration /\ state.connected \in BOOLEAN /\ next \in States
  BY <1>1, MessageFacts, TypeFacts, StateTypes
<1>3. /\ next' = [next EXCEPT !.configuration = v, !.dirty = FALSE, !.busy = FALSE]
      /\ applied' = Synchronized(state.connected, v)
      /\ historyOf' = [historyOf EXCEPT !.mixed = x]
      /\ UNCHANGED <<storeVars, mainVars, window, load, state, edits, outbox>>
  BY <1>1 DEF AcceptSaved, Receives, SynchronizeConfiguration
<1>4. x \in BOOLEAN
  BY TypeFacts DEF Histories
<1> HIDE DEF v
<1>5. historyOf' \in Histories /\ UNCHANGED <<historyOf.raced, historyOf.lost>>
      /\ historyOf'.mixed = x
  <2> HIDE DEF x
  <2> QED
    BY <1>3, <1>4, MixedFacts
<1>6. /\ next' \in States /\ next'.configuration = v /\ ~next'.dirty
      /\ ~next'.busy /\ next'.connected = next.connected
  BY <1>2, <1>3 DEF States
<1>7. /\ applied' \in {None} \cup [state : {"Started"}, configuration : Configuration]
      /\ Synchronizes(state.connected, v)
  BY <1>2, <1>3, SynchronizedType DEF Synchronizes
<1> QED
  BY <1>1, <1>3, <1>5, <1>6, <1>7 DEF Takes, v

LEMMA AcceptSaveFailedEffect ==
  ASSUME TypeOK, AcceptSaveFailed
  PROVE  /\ Takes /\ inbox[1].type = "SaveFailed"
         /\ next'.configuration = next.configuration /\ next'.dirty = next.dirty
         /\ ~next'.busy /\ next'.connected = next.connected
         /\ UNCHANGED <<applied, historyOf>>
<1>1. /\ inbox' \in Seq(Messages) /\ Accepted /\ inbox[1] \in Messages
      /\ inbox[1].type = "SaveFailed"
      /\ Len(inbox) \in Nat /\ Len(inbox) > 0 /\ window = "Loaded"
  BY ReceiveFacts DEF AcceptSaveFailed
<1>2. /\ next' = [next EXCEPT !.busy = FALSE] /\ UNCHANGED <<applied, historyOf>>
      /\ UNCHANGED <<storeVars, mainVars, window, load, state, edits, outbox>>
  BY DEF AcceptSaveFailed, Receives, ClearBusy
<1>3. next \in States /\ historyOf \in Histories
      /\ applied \in {None} \cup [state : {"Started"}, configuration : Configuration]
  BY TypeFacts
<1>4. /\ next' \in States
      /\ next'.configuration = next.configuration /\ next'.dirty = next.dirty
      /\ ~next'.busy /\ next'.connected = next.connected
  BY <1>2, <1>3 DEF States
<1> QED
  BY <1>1, <1>2, <1>3, <1>4 DEF Takes

LEMMA CrashEffect ==
  ASSUME TypeOK, WindowCrashes
  PROVE  /\ UNCHANGED <<storeVars, mainVars, load, edits, outbox>>
         /\ window = "Loaded" /\ window' \in {"Loading", "Gone"}
         /\ state' = NewState /\ next' = NewState /\ applied' = None
         /\ inbox' = <<>> /\ historyOf' \in Histories
         /\ ~historyOf'.raced /\ ~historyOf'.mixed /\ UNCHANGED historyOf.lost
<1>1. historyOf' = [historyOf EXCEPT !.raced = FALSE, !.mixed = FALSE]
  BY DEF WindowCrashes
<1>2. historyOf' \in Histories /\ ~historyOf'.raced /\ ~historyOf'.mixed /\ UNCHANGED historyOf.lost
  BY <1>1, TypeFacts DEF Histories
<1>3. /\ UNCHANGED <<storeVars, mainVars, load, edits, outbox>>
      /\ window = "Loaded" /\ window' \in {"Loading", "Gone"}
      /\ state' = NewState /\ next' = NewState /\ applied' = None /\ inbox' = <<>>
  BY DEF WindowCrashes
<1> QED
  BY <1>2, <1>3

LEMMA ReloadEffect ==
  ASSUME Reload
  PROVE  window = "Loading" /\ Mounted /\ UNCHANGED <<storeVars, mainVars, edits, historyOf>>
  BY DEF Reload

-----------------------------------------------------------------------------
(* Types                                                                   *)

\* The types, one conjunct for each part of a step.
LEMMA TypeParts ==
  ASSUME StoreTypeOK', application' \in {"Stopped", "Running", "Failed"},
         memory' \in Configuration, Good(memory'), connected' \in BOOLEAN,
         asker' \in [Calls -> 0 .. load'],
         window' \in {"None", "Loading", "Loaded", "Gone"}, load' \in Nat,
         state' \in States, next' \in States,
         applied' \in {None} \cup [state : {"Started"}, configuration : Configuration],
         outbox' \in Seq(Requests), inbox' \in Seq(Messages), historyOf' \in Histories
  PROVE  TypeOK'
  BY DEF TypeOK, Histories, Good

LEMMA StoreStutters == StoreTypeOK /\ UNCHANGED storeVars => StoreTypeOK'
  BY DEF StoreTypeOK, storeVars

LEMMA TypeInit == Init => TypeOK
<1> SUFFICES ASSUME Init PROVE TypeOK
  OBVIOUS
<1>1. StoreTypeOK
  BY StoreInitType DEF Init
<1>2. memory \in Configuration /\ Good(memory)
  BY ConfigurationFacts DEF Init
<1>3. state \in States /\ next \in States
  BY StateFacts DEF Init
<1>4. outbox \in Seq(Requests) /\ inbox \in Seq(Messages)
  BY EmptyFacts DEF Init
<1>5. historyOf \in Histories
  BY DEF Init, Histories
<1>6. /\ application = "Stopped" /\ connected = FALSE /\ window = "None" /\ load = 0
      /\ applied = None /\ asker = [c \in Calls |-> 0]
  BY DEF Init
<1>7. asker \in [Calls -> 0 .. load] /\ load \in Nat
  BY <1>6
<1> QED
  BY <1>1, <1>2, <1>3, <1>4, <1>5, <1>6, <1>7 DEF TypeOK, Good, Histories

LEMMA TypeTakes ==
  ASSUME TypeOK, Takes
  PROVE  TypeOK'
<1>1. StoreTypeOK'
  BY TypeFacts, StoreStutters DEF Takes
<1>2. /\ UNCHANGED <<application, memory, connected, asker, window, load, state, outbox>>
      /\ inbox' \in Seq(Messages) /\ next' \in States /\ historyOf' \in Histories
      /\ applied' \in {None} \cup [state : {"Started"}, configuration : Configuration]
  BY DEF Takes, mainVars
<1> QED
  BY <1>1, <1>2, TypeFacts, TypeParts

\* The loads of the window are numbered, and requests carry such a number.
Numbered == \A i \in 1 .. Len(outbox) : outbox[i].load \in 1 .. load

LEMMA TypeStep == TypeOK /\ Numbered /\ [Next]_vars => TypeOK'
<1> SUFFICES ASSUME TypeOK, Numbered, [Next]_vars PROVE TypeOK'
  OBVIOUS
<1> USE TypeFacts
<1>m. Mounted => /\ outbox' \in Seq(Requests) /\ inbox' \in Seq(Messages)
                 /\ window' = "Loaded" /\ load' = load + 1
                 /\ state' \in States /\ next' \in States /\ applied' = None
  BY MountFacts, StateFacts
<1>s. UNCHANGED storeVars => StoreTypeOK'
  BY StoreStutters
<1>1. CASE Start
  <2>1. StoreTypeOK' /\ UNCHANGED <<connected, asker, historyOf>>
    BY <1>1, <1>s, StartEffect
  <2>2. CASE application' = "Failed" /\ UNCHANGED <<memory, window, load, state, next, applied,
                                                    outbox, inbox>>
    BY <2>1, <2>2, TypeParts
  <2>3. CASE application' = "Running" /\ Mounted /\ memory' \in Configuration /\ Good(memory')
    <3>1. asker' \in [Calls -> 0 .. load'] /\ load' \in Nat
      BY <1>m, <2>1, <2>3
    <3> QED
      BY <1>m, <2>1, <2>3, <3>1, TypeParts
  <2> QED
    BY <1>1, <2>2, <2>3, StartEffect
<1>2. CASE Stop
  <2>1. StoreTypeOK'
    BY <1>2, StopEffect, EndCallsType DEF EndCalls
  <2>2. state' \in States /\ next' \in States /\ memory' \in Configuration /\ Good(memory')
    BY <1>2, StopEffect, StateFacts, ConfigurationFacts
  <2>3. outbox' \in Seq(Requests) /\ inbox' \in Seq(Messages)
    BY <1>2, StopEffect, EmptyFacts
  <2>4. asker' \in [Calls -> 0 .. load'] /\ load' \in Nat
    BY <1>2, StopEffect
  <2> QED
    BY <1>2, <2>1, <2>2, <2>3, <2>4, StopEffect, TypeParts
<1>3. CASE HandleGet
  <2>1. /\ StoreTypeOK' /\ UNCHANGED <<application, memory, connected, asker, window, load, state,
                                       next, applied, historyOf>>
    BY <1>3, <1>s, HandleGetEffect DEF mainVars, windowVars
  <2>2. outbox' \in Seq(Requests) /\ inbox' \in Seq(Messages)
    BY <1>3, HandleGetEffect
  <2> QED
    BY <2>1, <2>2, TypeParts
<1>4. CASE HandleUpdate
  <2>1. /\ UNCHANGED <<application, connected, window, load, state, next, applied, historyOf>>
        /\ outbox' \in Seq(Requests)
    BY <1>4, HandleUpdateEffect DEF windowVars
  <2>2. outbox[1].load \in 0 .. load
    BY <1>4, HandleUpdateEffect DEF Numbered
  <2>3. CASE /\ inbox' = inbox /\ memory' \in Configuration /\ Good(memory')
             /\ \E c \in Calls : /\ Write(c, memory')
                                /\ asker' = [asker EXCEPT ![c] = outbox[1].load]
    <3>1. PICK c \in Calls : Write(c, memory') /\ asker' = [asker EXCEPT ![c] = outbox[1].load]
      BY <2>3
    <3>2. StoreTypeOK'
      BY <2>3, <3>1, ConfigurationFacts, WriteType
    <3>3. asker' \in [Calls -> 0 .. load']
      BY <2>1, <2>2, <3>1
    <3> QED
      BY <2>1, <2>3, <3>2, <3>3, TypeParts
  <2>4. CASE UNCHANGED <<storeVars, memory, asker>> /\ inbox' \in Seq(Messages)
    BY <1>s, <2>1, <2>4, TypeParts
  <2> QED
    BY <1>4, <2>3, <2>4, HandleUpdateEffect
<1>5. CASE SendSnapshot
  <2>1. /\ StoreTypeOK' /\ UNCHANGED <<application, memory, asker, window, load, state,
                                       next, applied, outbox, historyOf>>
        /\ connected' \in BOOLEAN /\ inbox' \in Seq(Messages)
    BY <1>5, <1>s, SendSnapshotEffect DEF mainVars, windowVars
  <2> QED
    BY <2>1, TypeParts
<1>6. CASE Render
  <2>1. /\ StoreTypeOK' /\ UNCHANGED <<application, memory, connected, asker, window, load,
                                       next, applied, outbox, inbox>>
        /\ state' \in States /\ historyOf' \in Histories
    BY <1>6, <1>s, RenderEffect DEF mainVars
  <2> QED
    BY <2>1, TypeParts
<1>7. CASE Edit
  <2>1. /\ StoreTypeOK' /\ UNCHANGED <<application, memory, connected, asker, window, load,
                                       applied, outbox, inbox>>
        /\ state' \in States /\ next' \in States /\ historyOf' \in Histories
    BY <1>7, <1>s, EditEffect DEF mainVars
  <2> QED
    BY <2>1, TypeParts
<1>8. CASE Save
  <2>1. /\ StoreTypeOK' /\ UNCHANGED <<application, memory, connected, asker, window, load,
                                       applied, inbox, historyOf>>
        /\ state' \in States /\ next' \in States /\ outbox' \in Seq(Requests)
    BY <1>8, <1>s, SaveEffect DEF mainVars
  <2> QED
    BY <2>1, TypeParts
<1>9. CASE AcceptSnapshot
  BY <1>9, AcceptSnapshotEffect, TypeTakes
<1>10. CASE AcceptConfiguration
  BY <1>10, AcceptConfigurationEffect, TypeTakes
<1>11. CASE AcceptSaved
  BY <1>11, AcceptSavedEffect, TypeTakes
<1>12. CASE AcceptSaveFailed
  BY <1>12, AcceptSaveFailedEffect, TypeTakes
<1>13. CASE WindowCrashes
  <2>1. /\ StoreTypeOK' /\ UNCHANGED <<application, memory, connected, asker, load, outbox>>
        /\ window' \in {"Loading", "Gone"} /\ applied' = None /\ historyOf' \in Histories
        /\ state' \in States /\ next' \in States
    BY <1>13, <1>s, CrashEffect, StateFacts DEF mainVars
  <2>2. inbox' \in Seq(Messages)
    BY <1>13, CrashEffect, EmptyFacts
  <2> QED
    BY <2>1, <2>2, TypeParts
<1>14. CASE Reload
  <2>1. /\ StoreTypeOK' /\ Mounted
        /\ UNCHANGED <<application, memory, connected, asker, historyOf>>
    BY <1>14, <1>s, ReloadEffect DEF mainVars
  <2>2. asker' \in [Calls -> 0 .. load'] /\ load' \in Nat
    BY <1>m, <2>1
  <2> QED
    BY <1>m, <2>1, <2>2, TypeParts
<1>15. ASSUME NEW c \in Calls, FinishUpdate(c) PROVE TypeOK'
  <2>1. StoreTypeOK'
    BY <1>15, FinishEffect, ReturnType
  <2>2. /\ UNCHANGED <<application, memory, connected, window, load, state, next, applied, outbox>>
        /\ historyOf' \in Histories /\ inbox' \in Seq(Messages) /\ asker' = [asker EXCEPT ![c] = 0]
    BY <1>15, FinishEffect DEF windowVars
  <2>3. asker' \in [Calls -> 0 .. load']
    BY <2>2
  <2> QED
    BY <2>1, <2>2, <2>3, TypeParts
<1>16. ASSUME NEW c \in Calls, FileOperation(c) \/ FailFileOperation(c), UNCHANGED Rest
       PROVE  TypeOK'
  <2>1. StoreTypeOK'
    BY <1>16, FileOperationType
  <2> QED
    BY <1>16, <2>1, TypeParts DEF Rest, windowVars, mainVars
<1>17. CASE UNCHANGED vars
  <2>1. StoreTypeOK'
    BY <1>17, <1>s DEF vars
  <2> QED
    BY <1>17, <2>1, TypeParts DEF vars, windowVars, mainVars
<1> QED
  BY <1>1, <1>2, <1>3, <1>4, <1>5, <1>6, <1>7, <1>8, <1>9, <1>10, <1>11, <1>12, <1>13, <1>14,
     <1>15, <1>16, <1>17 DEF Next

-----------------------------------------------------------------------------
(* The order of the requests                                               *)

Gets(i) == outbox[i].type = "GetConfiguration" /\ outbox[i].load = load
Saves(i) == outbox[i].type = "Update" /\ outbox[i].load = load
Asked == \E i \in 1 .. Len(outbox) : Gets(i)

\* Every load asks once for the configuration, before it saves anything, and
\* requests are handled in the order of the loads: while a request to save of
\* an earlier load is waiting, that of the present load is waiting behind it.
OrderInv ==
  /\ Numbered
  /\ \A i, j \in 1 .. Len(outbox) : i < j => outbox[i].load <= outbox[j].load
  /\ \A i, j \in 1 .. Len(outbox) :
       i < j /\ outbox[i].type = "Update" /\ outbox[j].type = "GetConfiguration"
         => outbox[i].load < outbox[j].load
  /\ \A i, j \in 1 .. Len(outbox) : Gets(i) /\ Gets(j) => i = j
  /\ window = "Loaded" =>
       \A i \in 1 .. Len(outbox) : outbox[i].type = "Update" /\ outbox[i].load < load => Asked

LEMMA OrderSame ==
  ASSUME OrderInv, UNCHANGED <<outbox, load>>, window' = window \/ window' # "Loaded"
  PROVE  OrderInv'
  BY DEF OrderInv, Numbered, Gets, Asked

LEMMA OrderEmpty ==
  ASSUME outbox' = <<>>
  PROVE  OrderInv'
<1>1. Len(outbox') = 0
  BY EmptyFacts
<1>2. 1 .. Len(outbox') = {}
  BY <1>1
<1> QED
  BY <1>2 DEF OrderInv, Numbered

LEMMA OrderPop ==
  ASSUME TypeOK, TypeOK', OrderInv, Handled, UNCHANGED <<window, load>>
  PROVE  OrderInv'
<1> DEFINE n == Len(outbox)
           m == Len(outbox')
<1>1. n \in Nat /\ m \in Nat /\ n = m + 1 /\ \A i \in 1 .. m : outbox'[i] = outbox[i + 1]
  BY SizeFacts DEF Handled, Popped, TypeOK
<1>2. /\ load \in Nat
      /\ \A i \in 1 .. n : outbox[i].load \in Nat
  BY SizeFacts, TypeFacts, RequestFacts
<1>3. \A i \in 1 .. m : i + 1 \in 1 .. n
  BY <1>1
<1> HIDE DEF n, m
<1>4. /\ \A i \in 1 .. n : outbox[i].load \in 1 .. load
      /\ \A i, j \in 1 .. n : i < j => outbox[i].load <= outbox[j].load
      /\ \A i, j \in 1 .. n :
           i < j /\ outbox[i].type = "Update" /\ outbox[j].type = "GetConfiguration"
             => outbox[i].load < outbox[j].load
      /\ \A i, j \in 1 .. n : Gets(i) /\ Gets(j) => i = j
      /\ window = "Loaded" =>
           \A i \in 1 .. n : outbox[i].type = "Update" /\ outbox[i].load < load =>
             \E j \in 1 .. n : Gets(j)
  BY DEF OrderInv, Numbered, Asked, n
<1>5. \A i \in 1 .. m : outbox'[i].load \in 1 .. load
  BY <1>1, <1>3, <1>4
<1>6. \A i, j \in 1 .. m : i < j => outbox'[i].load <= outbox'[j].load
  BY <1>1, <1>3, <1>4
<1>7. \A i, j \in 1 .. m :
        i < j /\ outbox'[i].type = "Update" /\ outbox'[j].type = "GetConfiguration"
          => outbox'[i].load < outbox'[j].load
  BY <1>1, <1>3, <1>4
<1>8. \A i, j \in 1 .. m : Gets(i)' /\ Gets(j)' => i = j
  BY <1>1, <1>3, <1>4 DEF Gets
<1>9. ASSUME window = "Loaded", NEW i \in 1 .. m, outbox'[i].type = "Update", outbox'[i].load < load
      PROVE  \E j \in 1 .. m : Gets(j)'
  <2>1. outbox[i + 1].type = "Update" /\ outbox[i + 1].load < load /\ i + 1 \in 1 .. n
    BY <1>1, <1>3, <1>9
  <2>2. PICK j \in 1 .. n : Gets(j)
    BY <1>4, <1>9, <2>1
  <2>3. j # 1
    BY <1>2, <1>4, <2>1, <2>2 DEF Gets
  <2>4. j - 1 \in 1 .. m /\ outbox'[j - 1] = outbox[j]
    BY <1>1, <2>2, <2>3
  <2> QED
    BY <2>2, <2>4 DEF Gets
<1> QED
  BY <1>5, <1>6, <1>7, <1>8, <1>9 DEF OrderInv, Numbered, Asked, m

LEMMA OrderPush ==
  ASSUME TypeOK, TypeOK', OrderInv, UNCHANGED <<window, load>>, load > 0,
         NEW r, Ask(r), r.load = load, r.type = "Update"
  PROVE  OrderInv'
<1> DEFINE n == Len(outbox)
           m == Len(outbox')
<1>1. /\ n \in Nat /\ m \in Nat /\ m = n + 1 /\ outbox'[m] = r
      /\ \A i \in 1 .. n : outbox'[i] = outbox[i]
  BY SizeFacts DEF Ask, Pushed, TypeOK
<1>2. /\ load \in Nat
      /\ \A i \in 1 .. n : outbox[i].load \in Nat
  BY SizeFacts, TypeFacts, RequestFacts
<1>3. \A i \in 1 .. m : i \in 1 .. n \/ i = m
  BY <1>1
<1> HIDE DEF n, m
<1>4. /\ \A i \in 1 .. n : outbox[i].load \in 1 .. load
      /\ \A i, j \in 1 .. n : i < j => outbox[i].load <= outbox[j].load
      /\ \A i, j \in 1 .. n :
           i < j /\ outbox[i].type = "Update" /\ outbox[j].type = "GetConfiguration"
             => outbox[i].load < outbox[j].load
      /\ \A i, j \in 1 .. n : Gets(i) /\ Gets(j) => i = j
      /\ window = "Loaded" =>
           \A i \in 1 .. n : outbox[i].type = "Update" /\ outbox[i].load < load =>
             \E j \in 1 .. n : Gets(j)
  BY DEF OrderInv, Numbered, Asked, n
<1>5. \A i \in 1 .. m : outbox'[i].load \in 1 .. load
  BY <1>1, <1>2, <1>3, <1>4
<1>6. \A i, j \in 1 .. m : i < j => outbox'[i].load <= outbox'[j].load
  BY <1>1, <1>2, <1>3, <1>4
<1>7. \A i, j \in 1 .. m :
        i < j /\ outbox'[i].type = "Update" /\ outbox'[j].type = "GetConfiguration"
          => outbox'[i].load < outbox'[j].load
  BY <1>1, <1>3, <1>4
<1>8. \A i, j \in 1 .. m : Gets(i)' /\ Gets(j)' => i = j
  BY <1>1, <1>3, <1>4 DEF Gets
<1>9. ASSUME window = "Loaded", NEW i \in 1 .. m, outbox'[i].type = "Update", outbox'[i].load < load
      PROVE  \E j \in 1 .. m : Gets(j)'
  <2>1. i \in 1 .. n /\ outbox[i].type = "Update" /\ outbox[i].load < load
    BY <1>1, <1>2, <1>3, <1>9
  <2>2. PICK j \in 1 .. n : Gets(j)
    BY <1>4, <1>9, <2>1
  <2>3. j \in 1 .. m /\ outbox'[j] = outbox[j]
    BY <1>1, <2>2
  <2> QED
    BY <2>2, <2>3 DEF Gets
<1> QED
  BY <1>5, <1>6, <1>7, <1>8, <1>9 DEF OrderInv, Numbered, Asked, m

LEMMA OrderMount ==
  ASSUME TypeOK, OrderInv, Mounted
  PROVE  OrderInv' /\ Asked'
<1> DEFINE n == Len(outbox)
           m == Len(outbox')
<1>1. /\ n \in Nat /\ m = n + 2 /\ load \in Nat /\ load' = load + 1
      /\ outbox'[n + 1].type = "GetSnapshot" /\ outbox'[n + 1].load = load + 1
      /\ outbox'[n + 2].type = "GetConfiguration" /\ outbox'[n + 2].load = load + 1
      /\ \A i \in 1 .. n : outbox'[i] = outbox[i]
  BY MountFacts
<1>2. \A i \in 1 .. m : i \in 1 .. n \/ i = n + 1 \/ i = n + 2
  BY <1>1
<1>3. /\ \A i \in 1 .. n : outbox[i].load \in 1 .. load
      /\ \A i, j \in 1 .. n : i < j => outbox[i].load <= outbox[j].load
      /\ \A i, j \in 1 .. n :
           i < j /\ outbox[i].type = "Update" /\ outbox[j].type = "GetConfiguration"
             => outbox[i].load < outbox[j].load
  BY DEF OrderInv, Numbered
<1> HIDE DEF n, m
<1>4. \A i \in 1 .. m : outbox'[i].load \in 1 .. load'
  BY <1>1, <1>2, <1>3
<1>5. \A i, j \in 1 .. m : i < j => outbox'[i].load <= outbox'[j].load
  BY <1>1, <1>2, <1>3
<1>6. \A i, j \in 1 .. m :
        i < j /\ outbox'[i].type = "Update" /\ outbox'[j].type = "GetConfiguration"
          => outbox'[i].load < outbox'[j].load
  BY <1>1, <1>2, <1>3
<1>7. PICK k \in Nat : k = n + 2
  BY <1>1
<1>8. \A i \in 1 .. m : Gets(i)' => i = k
  BY <1>1, <1>2, <1>3, <1>7 DEF Gets
<1>9. k \in 1 .. m /\ Gets(k)'
  BY <1>1, <1>7 DEF Gets
<1>10. Asked'
  BY <1>9 DEF Asked, m
<1>11. \A i \in 1 .. m : outbox'[i].type = "Update" /\ outbox'[i].load < load' => Asked'
  BY <1>10
<1> QED
  BY <1>4, <1>5, <1>6, <1>8, <1>10, <1>11 DEF OrderInv, Numbered, m

-----------------------------------------------------------------------------
(* The main process and its window                                         *)

\* No window, no request and no write outlives the process; a start fails only
\* over a file that two writes have torn; each write is for one request.
LifeInv ==
  /\ window = "Loaded" => application = "Running" /\ load > 0
  /\ application # "Running" => window = "None" /\ outbox = <<>> /\ load = 0
  /\ application # "Running" => \A c \in Calls : call[c] = "Idle"
  /\ window # "Loaded" => inbox = <<>> /\ state = NewState /\ next = NewState
  /\ application = "Failed" => overlapped
  /\ \A c \in Calls : asker[c] = 0 => call[c] = "Idle"
  /\ \A c \in Calls : call[c] = "Idle" => asker[c] = 0

BaseInv == TypeOK /\ WholeInv /\ LifeInv /\ OrderInv

LEMMA BaseInit == Init => BaseInv
<1> SUFFICES ASSUME Init PROVE BaseInv
  OBVIOUS
<1>1. TypeOK /\ WholeInv
  BY TypeInit, WholeInit DEF Init
<1>2. LifeInv
  BY DEF Init, StoreInit, LifeInv
<1>3. Len(outbox) = 0
  BY EmptyFacts DEF Init
<1>4. 1 .. Len(outbox) = {}
  BY <1>3
<1> QED
  BY <1>1, <1>2, <1>4 DEF BaseInv, OrderInv, Numbered

\* A window that runs on, with the writes and the requests it has.
LEMMA LifeSame ==
  ASSUME LifeInv, window = "Loaded", UNCHANGED <<storeVars, mainVars, window, load>>
  PROVE  LifeInv'
  BY DEF LifeInv, storeVars, mainVars

LEMMA LifeStep == BaseInv /\ [Next]_vars => LifeInv'
<1> SUFFICES ASSUME BaseInv, [Next]_vars PROVE LifeInv'
  OBVIOUS
<1> USE DEF BaseInv
<1>m. Mounted => window' = "Loaded" /\ load' > 0
  BY MountFacts
<1>1. CASE Start
  <2>1. /\ application = "Stopped" /\ UNCHANGED <<call, overlapped, asker>>
    BY <1>1, StartEffect DEF storeVars
  <2>2. CASE /\ Found.state \in {"Empty", "Torn"} /\ application' = "Failed"
             /\ UNCHANGED <<window, load, state, next, outbox, inbox>>
    <3>1. overlapped
      BY <2>2, WholeReads DEF FileIsWhole
    <3> QED
      BY <2>1, <2>2, <3>1 DEF LifeInv
  <2>3. CASE application' = "Running" /\ Mounted
    BY <1>m, <2>1, <2>3 DEF LifeInv
  <2> QED
    BY <1>1, <2>2, <2>3, StartEffect
<1>2. CASE Stop
  <2>1. \A c \in Calls : call'[c] = "Idle" /\ asker'[c] = 0
    BY <1>2, StopEffect DEF EndCalls, EndCallsOf
  <2> QED
    BY <1>2, <2>1, StopEffect DEF LifeInv
<1>3. CASE HandleGet
  <2>1. UNCHANGED <<call, overlapped, application, asker, window, load, state, next>>
    BY <1>3, HandleGetEffect DEF storeVars, mainVars, windowVars
  <2>2. application = "Running"
    BY <1>3, HandleGetEffect, EmptyFacts DEF LifeInv
  <2>3. window # "Loaded" => inbox' = inbox
    BY <1>3, HandleGetEffect DEF Reaches
  <2> QED
    BY <2>1, <2>2, <2>3 DEF LifeInv
<1>4. CASE HandleUpdate
  <2>1. UNCHANGED <<application, window, load, state, next>>
    BY <1>4, HandleUpdateEffect DEF windowVars
  <2>2. application = "Running" /\ outbox[1].load > 0
    BY <1>4, HandleUpdateEffect, EmptyFacts, TypeFacts DEF LifeInv, OrderInv, Numbered
  <2>3. window # "Loaded" => inbox' = inbox
    BY <1>4, HandleUpdateEffect DEF Reaches
  <2>4. ASSUME NEW c \in Calls, Write(c, memory'), asker' = [asker EXCEPT ![c] = outbox[1].load]
        PROVE  \A d \in Calls : asker'[d] = 0 <=> call'[d] = "Idle"
    BY <2>2, <2>4, TypeFacts DEF LifeInv, Write, StoreTypeOK
  <2>5. \A d \in Calls : asker'[d] = 0 <=> call'[d] = "Idle"
    BY <1>4, <2>4, HandleUpdateEffect DEF LifeInv, storeVars
  <2> QED
    BY <2>1, <2>2, <2>3, <2>5 DEF LifeInv
<1>5. CASE SendSnapshot
  <2>1. UNCHANGED <<call, overlapped, application, asker, window, load, state, next, outbox>>
    BY <1>5, SendSnapshotEffect DEF storeVars, windowVars
  <2>2. window # "Loaded" => inbox' = inbox
    BY <1>5, SendSnapshotEffect DEF Reaches
  <2> QED
    BY <1>5, <2>1, <2>2, SendSnapshotEffect DEF LifeInv
<1>6. CASE Render \/ Edit \/ Save
  BY <1>6, RenderEffect, EditEffect, SaveEffect, LifeSame
<1>7. CASE AcceptSnapshot \/ AcceptConfiguration \/ AcceptSaved \/ AcceptSaveFailed
  <2>1. Takes
    BY <1>7, AcceptSnapshotEffect, AcceptConfigurationEffect, AcceptSavedEffect,
       AcceptSaveFailedEffect
  <2> QED
    BY <2>1, LifeSame DEF Takes
<1>8. CASE WindowCrashes
  <2>1. UNCHANGED <<call, overlapped, application, asker, load, outbox>>
    BY <1>8, CrashEffect DEF storeVars, mainVars
  <2> QED
    BY <1>8, <2>1, CrashEffect DEF LifeInv
<1>9. CASE Reload
  <2>1. UNCHANGED <<call, overlapped, application, asker>> /\ window = "Loading" /\ Mounted
    BY <1>9, ReloadEffect DEF storeVars, mainVars
  <2> QED
    BY <1>m, <2>1 DEF LifeInv
<1>10. ASSUME NEW c \in Calls, FinishUpdate(c) PROVE LifeInv'
  <2>1. UNCHANGED <<application, window, load, state, next, outbox, overlapped>>
    BY <1>10, FinishEffect DEF windowVars, Return
  <2>2. call[c] # "Idle" /\ \A d \in Calls : asker'[d] = 0 <=> call'[d] = "Idle"
    <3>1. /\ call[c] \in {"Done", "Failed"} /\ call' = [call EXCEPT ![c] = "Idle"]
          /\ asker' = [asker EXCEPT ![c] = 0]
      BY <1>10, FinishEffect DEF Return
    <3>2. call \in [Calls -> Steps] /\ asker \in [Calls -> 0 .. load]
      BY TypeFacts DEF StoreTypeOK
    <3>3. \A d \in Calls : asker[d] = 0 <=> call[d] = "Idle"
      BY DEF LifeInv
    <3>4. /\ call'[c] = "Idle" /\ asker'[c] = 0
          /\ \A d \in Calls \ {c} : call'[d] = call[d] /\ asker'[d] = asker[d]
      BY <3>1, <3>2
    <3> QED
      BY <3>1, <3>3, <3>4
  <2>3. window # "Loaded" => inbox' = inbox
    BY <1>10, FinishEffect DEF Reaches
  <2> QED
    BY <2>1, <2>2, <2>3 DEF LifeInv
<1>11. ASSUME NEW c \in Calls, FileOperation(c) \/ FailFileOperation(c), UNCHANGED Rest
       PROVE  LifeInv'
  <2>1. /\ UNCHANGED <<application, asker, window, load, state, next, outbox, inbox, overlapped>>
        /\ call[c] # "Idle" /\ call' = [call EXCEPT ![c] = call'[c]] /\ call'[c] # "Idle"
    <3>1. UNCHANGED <<application, asker, window, load, state, next, outbox, inbox>>
      BY <1>11 DEF Rest, windowVars, mainVars
    <3>2. UNCHANGED overlapped /\ call[c] # "Idle" /\ call' = [call EXCEPT ![c] = call'[c]]
          /\ call'[c] # "Idle"
      BY <1>11, TypeFacts DEF FileOperation, MakeDirectory, OpenTemporary, WriteTemporary, Rename,
         FailFileOperation, Pending, StoreTypeOK
    <3> QED
      BY <3>1, <3>2
  <2>2. \A d \in Calls : call'[d] = "Idle" <=> call[d] = "Idle"
    BY <2>1, TypeFacts DEF StoreTypeOK
  <2> QED
    BY <2>1, <2>2 DEF LifeInv
<1>12. CASE UNCHANGED vars
  BY <1>12 DEF vars, storeVars, windowVars, mainVars, LifeInv
<1> QED
  BY <1>1, <1>2, <1>3, <1>4, <1>5, <1>6, <1>7, <1>8, <1>9, <1>10, <1>11, <1>12 DEF Next

LEMMA OrderStep == BaseInv /\ [Next]_vars => OrderInv'
<1> SUFFICES ASSUME BaseInv, [Next]_vars PROVE OrderInv'
  OBVIOUS
<1> USE DEF BaseInv
<1>t. TypeOK'
  BY TypeStep DEF OrderInv
<1>1. CASE Start
  BY <1>1, StartEffect, OrderSame, OrderMount
<1>2. CASE Stop
  BY <1>2, StopEffect, OrderEmpty
<1>3. CASE HandleGet \/ HandleUpdate
  BY <1>3, <1>t, HandleGetEffect, HandleUpdateEffect, OrderPop DEF windowVars
<1>4. CASE Save
  BY <1>4, <1>t, SaveEffect, OrderPush DEF LifeInv
<1>5. CASE WindowCrashes \/ SendSnapshot \/ Render \/ Edit
  BY <1>5, CrashEffect, SendSnapshotEffect, RenderEffect, EditEffect, OrderSame DEF windowVars
<1>6. CASE AcceptSnapshot \/ AcceptConfiguration \/ AcceptSaved \/ AcceptSaveFailed
  BY <1>6, AcceptSnapshotEffect, AcceptConfigurationEffect, AcceptSavedEffect,
     AcceptSaveFailedEffect, OrderSame DEF Takes
<1>7. CASE Reload
  BY <1>7, ReloadEffect, OrderMount
<1>8. ASSUME NEW c \in Calls, FinishUpdate(c) PROVE OrderInv'
  BY <1>8, FinishEffect, OrderSame DEF windowVars
<1>9. CASE UNCHANGED <<windowVars, outbox>>
  BY <1>9, OrderSame DEF windowVars
<1> QED
  BY <1>1, <1>2, <1>3, <1>4, <1>5, <1>6, <1>7, <1>8, <1>9 DEF Next, Rest, vars

LEMMA WholeStep == BaseInv /\ [Next]_vars => WholeInv'
<1> SUFFICES ASSUME BaseInv, [Next]_vars PROVE WholeInv'
  OBVIOUS
<1> USE DEF BaseInv
<1>1. CASE UNCHANGED storeVars
  BY <1>1, WholeStutters
<1>2. CASE Stop
  BY <1>2, StopEffect, TypeFacts, WholeEndCalls DEF EndCalls
<1>3. CASE HandleUpdate
  BY <1>1, <1>3, HandleUpdateEffect, TypeFacts, WholeWrite
<1>4. ASSUME NEW c \in Calls, FinishUpdate(c) PROVE WholeInv'
  BY <1>4, FinishEffect, TypeFacts, WholeReturn
<1>5. ASSUME NEW c \in Calls, FileOperation(c) \/ FailFileOperation(c) PROVE WholeInv'
  BY <1>5, TypeFacts, WholeFileOperation
<1>6. Start \/ HandleGet \/ SendSnapshot \/ Render \/ Edit \/ Save \/ AcceptSnapshot
      \/ AcceptConfiguration \/ AcceptSaved \/ AcceptSaveFailed \/ WindowCrashes \/ Reload
        => UNCHANGED storeVars
  BY DEF Start, HandleGet, SendSnapshot, Render, Edit, Save, AcceptSnapshot,
     AcceptConfiguration, AcceptSaved, AcceptSaveFailed, Receives, WindowCrashes, Reload
<1> QED
  BY <1>1, <1>2, <1>3, <1>4, <1>5, <1>6 DEF Next, vars

LEMMA BaseStep == BaseInv /\ [Next]_vars => BaseInv'
<1> SUFFICES ASSUME BaseInv, [Next]_vars PROVE BaseInv'
  OBVIOUS
<1>1. TypeOK'
  BY TypeStep DEF BaseInv, OrderInv
<1>2. WholeInv' /\ LifeInv' /\ OrderInv'
  BY WholeStep, LifeStep, OrderStep
<1> QED
  BY <1>1, <1>2 DEF BaseInv

-----------------------------------------------------------------------------
(* The media session follows the window                                    *)

MediaInv ==
  window = "Loaded" /\ ~historyOf.mixed =>
    /\ next.connected => applied # None
    /\ applied # None => next.connected
    /\ next.connected /\ ~next.dirty => applied.configuration = next.configuration

LEMMA MediaInit == Init => MediaInv
  BY DEF Init, MediaInv

LEMMA MediaStep == BaseInv /\ MediaInv /\ [Next]_vars => MediaInv'
<1> SUFFICES ASSUME BaseInv, MediaInv, [Next]_vars PROVE MediaInv'
  OBVIOUS
<1> USE DEF BaseInv
<1>1. CASE Start \/ Reload
  <2>1. ASSUME Mounted PROVE MediaInv'
    BY <2>1, MountFacts, StateFacts DEF MediaInv
  <2>2. ASSUME UNCHANGED <<window, next, applied, historyOf>> PROVE MediaInv'
    BY <2>2 DEF MediaInv
  <2> QED
    BY <1>1, <2>1, <2>2, StartEffect, ReloadEffect
<1>2. CASE Stop \/ WindowCrashes
  BY <1>2, StopEffect, CrashEffect DEF MediaInv
<1>3. CASE HandleGet \/ HandleUpdate \/ SendSnapshot
  BY <1>3, HandleGetEffect, HandleUpdateEffect, SendSnapshotEffect DEF MediaInv, windowVars
<1>4. CASE Render \/ Edit \/ Save
  BY <1>4, RenderEffect, EditEffect, SaveEffect DEF MediaInv
<1>5. CASE AcceptSnapshot
  <2>1. state.connected \in BOOLEAN /\ inbox[1].connected \in BOOLEAN
    BY <1>5, AcceptSnapshotEffect, TypeFacts, StateTypes, MessageFacts DEF Takes
  <2> QED
    BY <1>5, <2>1, AcceptSnapshotEffect DEF MediaInv, Synchronizes
<1>6. CASE AcceptConfiguration
  <2>1. state.connected \in BOOLEAN
    BY TypeFacts, StateTypes
  <2> QED
    BY <1>6, <2>1, AcceptConfigurationEffect DEF MediaInv, Synchronizes
<1>7. CASE AcceptSaved
  <2>1. state.connected \in BOOLEAN
    BY TypeFacts, StateTypes
  <2> QED
    BY <1>7, <2>1, AcceptSavedEffect DEF MediaInv, Synchronizes
<1>8. CASE AcceptSaveFailed
  BY <1>8, AcceptSaveFailedEffect DEF MediaInv, Takes
<1>9. ASSUME NEW c \in Calls, FinishUpdate(c) PROVE MediaInv'
  BY <1>9, FinishEffect DEF MediaInv, windowVars
<1>10. CASE UNCHANGED <<windowVars, historyOf>>
  BY <1>10 DEF MediaInv, windowVars
<1> QED
  BY <1>1, <1>2, <1>3, <1>4, <1>5, <1>6, <1>7, <1>8, <1>9, <1>10 DEF Next, Rest, vars

-----------------------------------------------------------------------------
(* Requests and their answers                                              *)

Mine(c) == asker[c] = load
Config(k) == inbox[k].type = "Configuration"
Saved(k) == inbox[k].type = "Saved"
Reply(k) == inbox[k].type \in {"Saved", "SaveFailed"}

LEMMA HandledShift ==
  ASSUME TypeOK, TypeOK', OrderInv, Handled, UNCHANGED load
  PROVE  /\ \A i \in 1 .. Len(outbox') :
              /\ i + 1 \in 1 .. Len(outbox) /\ outbox'[i] = outbox[i + 1]
              /\ Gets(i)' <=> Gets(i + 1)
              /\ Saves(i)' <=> Saves(i + 1)
         /\ 1 \in 1 .. Len(outbox)
         /\ Asked' => Asked
         /\ Asked => Asked' \/ Gets(1)
         /\ Gets(1) => ~Asked'
         /\ Saves(1) => ~Asked
         /\ outbox[1].type = "Update" /\ ~Saves(1) /\ window = "Loaded" => Asked
<1> DEFINE n == Len(outbox)
           m == Len(outbox')
<1>1. n \in Nat /\ m \in Nat /\ n = m + 1 /\ \A i \in 1 .. m : outbox'[i] = outbox[i + 1]
  BY SizeFacts DEF Handled, Popped, TypeOK
<1>2. \A i \in 1 .. m : i + 1 \in 1 .. n /\ outbox'[i] = outbox[i + 1] /\ i + 1 # 1
  BY <1>1
<1>3. \A i \in 2 .. n : i - 1 \in 1 .. m /\ outbox'[i - 1] = outbox[i]
  BY <1>1
<1>4. \A i \in 1 .. n : i = 1 \/ i \in 2 .. n
  BY <1>1
<1>5. 1 \in 1 .. n
  BY <1>1
<1> HIDE DEF n, m
<1>6. \A i \in 1 .. m : (Gets(i)' <=> Gets(i + 1)) /\ (Saves(i)' <=> Saves(i + 1))
  BY <1>2 DEF Gets, Saves
<1>7. /\ Asked <=> \E i \in 1 .. n : Gets(i)
      /\ Asked' <=> \E i \in 1 .. m : Gets(i)'
      /\ \A i, j \in 1 .. n : Gets(i) /\ Gets(j) => i = j
      /\ \A i, j \in 1 .. n :
           i < j /\ outbox[i].type = "Update" /\ outbox[j].type = "GetConfiguration"
             => outbox[i].load < outbox[j].load
      /\ \A i \in 1 .. n : outbox[i].load \in Nat /\ outbox[i].load <= load
      /\ window = "Loaded" =>
           \A i \in 1 .. n : outbox[i].type = "Update" /\ outbox[i].load < load => Asked
      /\ load \in Nat
  BY TypeFacts DEF Asked, OrderInv, Numbered, n, m
<1>8. Asked' => Asked
  BY <1>2, <1>6, <1>7
<1>9. Asked => Asked' \/ Gets(1)
  <2>1. \A i \in 2 .. n : Gets(i) => Gets(i - 1)'
    BY <1>3 DEF Gets
  <2> QED
    BY <1>3, <1>4, <1>7, <2>1
<1>10. Gets(1) => ~Asked'
  BY <1>2, <1>5, <1>6, <1>7
<1>11. Saves(1) => ~Asked
  <2>1. \A i \in 2 .. n : Saves(1) => ~Gets(i)
    BY <1>1, <1>5, <1>7 DEF Gets, Saves, n
  <2> QED
    BY <1>4, <1>7, <2>1 DEF Gets, Saves
<1>12. outbox[1].type = "Update" /\ ~Saves(1) /\ window = "Loaded" => Asked
  BY <1>5, <1>7 DEF Saves
<1> QED
  BY <1>2, <1>5, <1>6, <1>8, <1>9, <1>10, <1>11, <1>12 DEF n, m

LEMMA AskShift ==
  ASSUME TypeOK, UNCHANGED load, NEW r, Ask(r), r.type = "Update", r.load = load
  PROVE  /\ Asked' <=> Asked
         /\ \A i \in 1 .. Len(outbox') :
              \/ i \in 1 .. Len(outbox) /\ outbox'[i] = outbox[i] /\ (Saves(i)' <=> Saves(i))
              \/ i = Len(outbox) + 1 /\ outbox'[i] = r
<1> DEFINE n == Len(outbox)
           m == Len(outbox')
<1>1. n \in Nat /\ m = n + 1 /\ outbox'[n + 1] = r /\ \A i \in 1 .. n : outbox'[i] = outbox[i]
  BY SizeFacts DEF Ask, Pushed
<1>2. /\ \A i \in 1 .. m : i \in 1 .. n \/ i = n + 1
      /\ \A i \in 1 .. n : i \in 1 .. m
  BY <1>1
<1> HIDE DEF n, m
<1>3. \A i \in 1 .. n : (Saves(i)' <=> Saves(i)) /\ (Gets(i)' <=> Gets(i))
  BY <1>1 DEF Saves, Gets
<1>4. \A i \in 1 .. m : Gets(i)' => i \in 1 .. n
  BY <1>1, <1>2 DEF Gets
<1>5. Asked' <=> Asked
  BY <1>2, <1>3, <1>4 DEF Asked, n, m
<1> QED
  BY <1>1, <1>2, <1>3, <1>5 DEF n, m

LEMMA AcceptedShift ==
  ASSUME TypeOK, TypeOK', Accepted
  PROVE  /\ 1 \in 1 .. Len(inbox)
         /\ \A k \in 1 .. Len(inbox') :
              /\ k + 1 \in 1 .. Len(inbox) /\ k + 1 # 1 /\ inbox'[k] = inbox[k + 1]
              /\ Config(k)' <=> Config(k + 1)
              /\ Reply(k)' <=> Reply(k + 1)
              /\ Saved(k)' <=> Saved(k + 1)
         /\ \A k \in 1 .. Len(inbox) : k = 1 \/ (k - 1 \in 1 .. Len(inbox') /\ inbox'[k - 1] = inbox[k])
<1> DEFINE n == Len(inbox)
           m == Len(inbox')
<1>1. n \in Nat /\ m \in Nat /\ n = m + 1 /\ \A i \in 1 .. m : inbox'[i] = inbox[i + 1]
  BY SizeFacts DEF Accepted, Popped, TypeOK
<1>2. /\ 1 \in 1 .. n
      /\ \A i \in 1 .. m : i + 1 \in 1 .. n /\ i + 1 # 1 /\ inbox'[i] = inbox[i + 1]
      /\ \A k \in 1 .. n : k = 1 \/ (k - 1 \in 1 .. m /\ inbox'[k - 1] = inbox[k])
  BY <1>1
<1> HIDE DEF n, m
<1> QED
  BY <1>2 DEF n, m, Config, Reply, Saved

LEMMA ReceiveShift ==
  ASSUME TypeOK, NEW r, Receive(r)
  PROVE  \A k \in 1 .. Len(inbox') :
           \/ /\ k \in 1 .. Len(inbox) /\ inbox'[k] = inbox[k] /\ k < Len(inbox) + 1
              /\ (Config(k)' <=> Config(k)) /\ (Reply(k)' <=> Reply(k)) /\ (Saved(k)' <=> Saved(k))
           \/ k = Len(inbox) + 1 /\ inbox'[k] = r
<1> DEFINE n == Len(inbox)
           m == Len(inbox')
<1>1. n \in Nat /\ m = n + 1 /\ inbox'[n + 1] = r /\ \A i \in 1 .. n : inbox'[i] = inbox[i]
  BY SizeFacts DEF Receive, Pushed
<1>2. \A i \in 1 .. m : (i \in 1 .. n /\ i < n + 1) \/ i = n + 1
  BY <1>1
<1> HIDE DEF n, m
<1>3. \A i \in 1 .. n : inbox'[i] = inbox[i] /\ (Config(i)' <=> Config(i))
                        /\ (Reply(i)' <=> Reply(i)) /\ (Saved(i)' <=> Saved(i))
  BY <1>1 DEF Config, Reply, Saved
<1> QED
  BY <1>1, <1>2, <1>3 DEF n, m

\* A request to save is in one place at a time, in the outbox, as a write or as
\* an answer, and the window is busy until it has the answer; the answer to the
\* request of the mount comes before it.
Pipeline ==
  /\ \A i, j \in 1 .. Len(outbox) : Saves(i) /\ Saves(j) => i = j
  /\ \A c, d \in Calls : Mine(c) /\ Mine(d) => c = d
  /\ \A k, l \in 1 .. Len(inbox) : Reply(k) /\ Reply(l) => k = l
  /\ \A i \in 1 .. Len(outbox) : Saves(i) => next.busy
  /\ \A i \in 1 .. Len(outbox), c \in Calls : ~(Saves(i) /\ Mine(c))
  /\ \A i \in 1 .. Len(outbox), k \in 1 .. Len(inbox) : ~(Saves(i) /\ Reply(k))
  /\ \A c \in Calls : Mine(c) => next.busy /\ ~Asked
  /\ \A c \in Calls, k \in 1 .. Len(inbox) : ~(Mine(c) /\ Reply(k))
  /\ \A k \in 1 .. Len(inbox) : Reply(k) => next.busy /\ ~Asked
  /\ \A k \in 1 .. Len(inbox) : Config(k) => ~Asked
  /\ \A k, l \in 1 .. Len(inbox) : Config(k) /\ Config(l) => k = l
  /\ \A k, l \in 1 .. Len(inbox) : Config(k) /\ Reply(l) => k < l

AnswerInv ==
  /\ next.busy => state.busy
  /\ window = "Loaded" => Pipeline

\* Nothing moves.
LEMMA PipelineSame ==
  ASSUME Pipeline, UNCHANGED <<outbox, inbox, asker, load>>, next.busy => next'.busy
  PROVE  Pipeline'
  BY DEF Pipeline, Saves, Gets, Asked, Mine, Reply, Config

\* A window that has just been loaded has asked for nothing but its start.
LEMMA PipelineMount ==
  ASSUME BaseInv, Mounted, UNCHANGED asker
  PROVE  Pipeline'
<1>1. /\ load \in Nat /\ load' = load + 1 /\ asker \in [Calls -> 0 .. load]
      /\ \A i \in 1 .. Len(outbox) : outbox[i].load \in 1 .. load
  BY TypeFacts, MountFacts DEF BaseInv, OrderInv, Numbered
<1>2. \A c \in Calls : ~Mine(c)'
  BY <1>1 DEF Mine
<1>3. \A i \in 1 .. Len(outbox') : ~Saves(i)'
  <2> DEFINE n == Len(outbox)
  <2>1. /\ n \in Nat /\ Len(outbox') = n + 2 /\ \A i \in 1 .. n : outbox'[i] = outbox[i]
        /\ outbox'[n + 1].type = "GetSnapshot" /\ outbox'[n + 2].type = "GetConfiguration"
    BY MountFacts DEF BaseInv
  <2>2. \A i \in 1 .. n : ~Saves(i)'
    BY <1>1, <2>1 DEF Saves
  <2>3. \A i \in 1 .. Len(outbox') : i \in 1 .. n \/ i = n + 1 \/ i = n + 2
    BY <2>1
  <2> HIDE DEF n
  <2> QED
    BY <2>1, <2>2, <2>3 DEF Saves
<1>4. 1 .. Len(inbox') = {}
  BY MountFacts DEF BaseInv
<1> QED
  BY <1>2, <1>3, <1>4 DEF Pipeline

\* The head of the outbox is handled and nothing else moves.
LEMMA PipelineHandled ==
  ASSUME BaseInv, TypeOK', Pipeline, Handled, UNCHANGED <<load, inbox, asker>>,
         next.busy => next'.busy
  PROVE  Pipeline'
<1>1. /\ \A i \in 1 .. Len(outbox') : i + 1 \in 1 .. Len(outbox) /\ (Saves(i)' <=> Saves(i + 1))
      /\ Asked' => Asked
  BY HandledShift DEF BaseInv
<1>2. /\ \A c \in Calls : Mine(c)' <=> Mine(c)
      /\ \A k \in 1 .. Len(inbox) : (Reply(k)' <=> Reply(k)) /\ (Config(k)' <=> Config(k))
  BY DEF Mine, Reply, Config
<1>3. \A i, j \in 1 .. Len(outbox') : Saves(i)' /\ Saves(j)' => i = j
  BY <1>1 DEF Pipeline
<1> QED
  BY <1>1, <1>2, <1>3 DEF Pipeline

\* The same with an answer r for this load.
LEMMA PipelineAnswered ==
  ASSUME BaseInv, TypeOK', Pipeline, Handled, UNCHANGED <<window, load, asker, next>>,
         window = "Loaded", NEW r, Receive(r),
         \/ r.type = "Snapshot"
         \/ r.type = "Configuration" /\ Gets(1)
         \/ r.type = "SaveFailed" /\ Saves(1)
  PROVE  Pipeline'
<1>1. /\ \A i \in 1 .. Len(outbox') : i + 1 \in 1 .. Len(outbox) /\ i + 1 # 1 /\ (Saves(i)' <=> Saves(i + 1))
      /\ Asked' => Asked
      /\ Gets(1) => Asked /\ ~Asked'
      /\ Saves(1) => ~Asked
      /\ 1 \in 1 .. Len(outbox)
  <2>1. Len(outbox') \in Nat
    BY DEF TypeOK
  <2>2. \A i \in 1 .. Len(outbox') : i + 1 # 1
    BY <2>1
  <2> QED
    BY <2>2, HandledShift DEF BaseInv, Asked
<1>2. \A k \in 1 .. Len(inbox') :
        \/ /\ k \in 1 .. Len(inbox) /\ inbox'[k] = inbox[k] /\ k < Len(inbox) + 1
           /\ (Config(k)' <=> Config(k)) /\ (Reply(k)' <=> Reply(k)) /\ (Saved(k)' <=> Saved(k))
        \/ k = Len(inbox) + 1 /\ inbox'[k] = r
  BY ReceiveShift DEF BaseInv
<1>3. \A c \in Calls : Mine(c)' <=> Mine(c)
  BY DEF Mine
<1>4. \A i, j \in 1 .. Len(outbox') : Saves(i)' /\ Saves(j)' => i = j
  BY <1>1 DEF Pipeline
<1>5. CASE r.type = "Snapshot"
  <2>1. \A k \in 1 .. Len(inbox') :
          (Config(k)' \/ Reply(k)') =>
            k \in 1 .. Len(inbox) /\ (Config(k)' <=> Config(k)) /\ (Reply(k)' <=> Reply(k))
    BY <1>2, <1>5 DEF Config, Reply
  <2> QED
    BY <1>1, <1>3, <1>4, <2>1 DEF Pipeline
<1>6. CASE r.type = "Configuration" /\ Gets(1)
  <2>1. \A k \in 1 .. Len(inbox) : ~Config(k) /\ ~Reply(k)
    BY <1>1, <1>6 DEF Pipeline
  <2>2. \A k \in 1 .. Len(inbox') : ~Reply(k)' /\ (Config(k)' => k = Len(inbox) + 1)
    BY <1>2, <1>6, <2>1 DEF Config, Reply
  <2> QED
    BY <1>1, <1>3, <1>4, <1>6, <2>2 DEF Pipeline
<1>7. CASE r.type = "SaveFailed" /\ Saves(1)
  <2>1. /\ \A k \in 1 .. Len(inbox) : ~Reply(k)
        /\ \A c \in Calls : ~Mine(c)
        /\ next.busy /\ ~Asked'
        /\ \A i \in 1 .. Len(outbox') : ~Saves(i)'
    BY <1>1, <1>7 DEF Pipeline
  <2>2. \A k \in 1 .. Len(inbox') :
          /\ Reply(k)' => k = Len(inbox) + 1
          /\ Config(k)' => k \in 1 .. Len(inbox) /\ k < Len(inbox) + 1 /\ Config(k)
    BY <1>2, <1>7, <2>1 DEF Config, Reply
  <2> QED
    BY <1>1, <1>3, <2>1, <2>2 DEF Pipeline
<1> QED
  BY <1>5, <1>6, <1>7

\* A request to save becomes a write.
LEMMA PipelineWrite ==
  ASSUME BaseInv, TypeOK', Pipeline, Handled, outbox[1].type = "Update",
         UNCHANGED <<load, inbox, next>>,
         NEW c \in Calls, asker' = [asker EXCEPT ![c] = outbox[1].load]
  PROVE  Pipeline'
<1>1. /\ \A i \in 1 .. Len(outbox') : i + 1 \in 1 .. Len(outbox) /\ i + 1 # 1 /\ (Saves(i)' <=> Saves(i + 1))
      /\ Asked' => Asked
      /\ Saves(1) => ~Asked
      /\ 1 \in 1 .. Len(outbox)
  <2>1. Len(outbox') \in Nat
    BY DEF TypeOK
  <2>2. \A i \in 1 .. Len(outbox') : i + 1 # 1
    BY <2>1
  <2> QED
    BY <2>2, HandledShift DEF BaseInv
<1>2. \A k \in 1 .. Len(inbox) : (Reply(k)' <=> Reply(k)) /\ (Config(k)' <=> Config(k))
  BY DEF Reply, Config
<1>3. \A i, j \in 1 .. Len(outbox') : Saves(i)' /\ Saves(j)' => i = j
  BY <1>1 DEF Pipeline
<1>4. /\ asker'[c] = outbox[1].load
      /\ \A d \in Calls : d # c => asker'[d] = asker[d]
  BY TypeFacts DEF BaseInv
<1>5. CASE outbox[1].load = load
  <2>1. Saves(1)
    BY <1>5 DEF Saves
  <2>2. /\ \A k \in 1 .. Len(inbox) : ~Reply(k)
        /\ \A d \in Calls : ~Mine(d)
        /\ next.busy /\ ~Asked'
        /\ \A i \in 1 .. Len(outbox') : ~Saves(i)'
    BY <1>1, <2>1 DEF Pipeline
  <2>3. \A d \in Calls : Mine(d)' => d = c
    BY <1>4, <2>2 DEF Mine
  <2> QED
    BY <1>1, <1>2, <2>2, <2>3 DEF Pipeline
<1>6. CASE outbox[1].load # load
  <2>1. \A d \in Calls : Mine(d)' => Mine(d)
    BY <1>4, <1>6 DEF Mine
  <2> QED
    BY <1>1, <1>2, <1>3, <2>1 DEF Pipeline
<1> QED
  BY <1>5, <1>6

\* An answer to nobody, or a snapshot nobody asked for.
LEMMA PipelineSnapshot ==
  ASSUME BaseInv, Pipeline, UNCHANGED <<load, outbox, asker, next>>,
         NEW r, Receive(r), r.type = "Snapshot"
  PROVE  Pipeline'
<1>1. \A k \in 1 .. Len(inbox') :
        (Config(k)' \/ Reply(k)') =>
          k \in 1 .. Len(inbox) /\ (Config(k)' <=> Config(k)) /\ (Reply(k)' <=> Reply(k))
  BY ReceiveShift DEF BaseInv, Config, Reply
<1>2. /\ \A c \in Calls : Mine(c)' <=> Mine(c)
      /\ \A i \in 1 .. Len(outbox) : Saves(i)' <=> Saves(i)
      /\ Asked' <=> Asked
  BY DEF Mine, Saves, Asked, Gets
<1> QED
  BY <1>1, <1>2 DEF Pipeline

\* A write becomes an answer.
LEMMA PipelineFinish ==
  ASSUME BaseInv, Pipeline, window = "Loaded",
         UNCHANGED <<load, outbox, next>>,
         NEW c \in Calls, \A d \in Calls : Mine(d)' => Mine(d) /\ d # c,
         NEW r, r.type \in {"Saved", "SaveFailed"},
         (asker[c] = load /\ Receive(r)) \/ inbox' = inbox
  PROVE  Pipeline'
<1>1. /\ \A i \in 1 .. Len(outbox) : Saves(i)' <=> Saves(i)
      /\ Asked' <=> Asked
  BY DEF Saves, Asked, Gets
<1>2. \A d \in Calls : Mine(d)' => Mine(d) /\ d # c
  OBVIOUS
<1>3. CASE asker[c] = load /\ Receive(r)
  <2>1. /\ \A d \in Calls : ~Mine(d)'
        /\ \A k \in 1 .. Len(inbox) : ~Reply(k)
        /\ \A i \in 1 .. Len(outbox) : ~Saves(i)
        /\ next.busy /\ ~Asked
    BY <1>2, <1>3 DEF Pipeline, Mine
  <2>2. \A k \in 1 .. Len(inbox') :
          /\ Reply(k)' => k = Len(inbox) + 1
          /\ Config(k)' => k \in 1 .. Len(inbox) /\ k < Len(inbox) + 1 /\ Config(k)
    BY <1>3, <2>1, ReceiveShift DEF BaseInv, Config, Reply
  <2> QED
    BY <1>1, <2>1, <2>2 DEF Pipeline
<1>4. CASE inbox' = inbox
  <2>1. \A k \in 1 .. Len(inbox) : (Reply(k)' <=> Reply(k)) /\ (Config(k)' <=> Config(k))
    BY <1>4 DEF Reply, Config
  <2> QED
    BY <1>1, <1>2, <1>4, <2>1 DEF Pipeline
<1> QED
  BY <1>3, <1>4

\* The button is pressed while nothing is pending.
LEMMA PipelineSave ==
  ASSUME BaseInv, Pipeline, UNCHANGED <<load, inbox, asker>>, ~next.busy, next'.busy,
         NEW r, Ask(r), r.type = "Update", r.load = load
  PROVE  Pipeline'
<1>1. /\ Asked' <=> Asked
      /\ \A i \in 1 .. Len(outbox') :
           \/ i \in 1 .. Len(outbox) /\ outbox'[i] = outbox[i] /\ (Saves(i)' <=> Saves(i))
           \/ i = Len(outbox) + 1 /\ outbox'[i] = r
  BY AskShift DEF BaseInv
<1>2. /\ \A i \in 1 .. Len(outbox) : ~Saves(i)
      /\ \A d \in Calls : ~Mine(d)
      /\ \A k \in 1 .. Len(inbox) : ~Reply(k)
  BY DEF Pipeline
<1>3. /\ \A c \in Calls : ~Mine(c)'
      /\ \A k \in 1 .. Len(inbox') : ~Reply(k)' /\ (Config(k)' <=> Config(k))
  BY <1>2 DEF Mine, Reply, Config
<1>4. \A i \in 1 .. Len(outbox') : Saves(i)' => i = Len(outbox) + 1
  BY <1>1, <1>2
<1> QED
  BY <1>1, <1>3, <1>4 DEF Pipeline

\* The window takes a message; only a reply ends what is pending.
LEMMA PipelineTakes ==
  ASSUME BaseInv, TypeOK', Pipeline, Takes, next'.busy = next.busy \/ Reply(1)
  PROVE  Pipeline'
<1>1. /\ 1 \in 1 .. Len(inbox)
      /\ \A k \in 1 .. Len(inbox') :
           /\ k + 1 \in 1 .. Len(inbox) /\ k + 1 # 1 /\ k \in Nat
           /\ Config(k)' <=> Config(k + 1)
           /\ Reply(k)' <=> Reply(k + 1)
  BY AcceptedShift DEF BaseInv, Takes
<1>2. UNCHANGED <<load, outbox, asker>>
  BY DEF Takes, mainVars
<1>3. /\ \A c \in Calls : Mine(c)' <=> Mine(c)
      /\ \A i \in 1 .. Len(outbox) : Saves(i)' <=> Saves(i)
      /\ Asked' <=> Asked
  BY <1>2 DEF Mine, Saves, Asked, Gets
<1>4. /\ \A k, l \in 1 .. Len(inbox') : Reply(k)' /\ Reply(l)' => k = l
      /\ \A k, l \in 1 .. Len(inbox') : Config(k)' /\ Config(l)' => k = l
  BY <1>1 DEF Pipeline
<1>5. \A k, l \in 1 .. Len(inbox') : Config(k)' /\ Reply(l)' => k < l
  BY <1>1 DEF Pipeline
<1>6. CASE Reply(1)
  <2>1. /\ \A d \in Calls : ~Mine(d)'
        /\ \A k \in 1 .. Len(inbox') : ~Reply(k)'
        /\ \A i \in 1 .. Len(outbox) : ~Saves(i)'
    BY <1>1, <1>3, <1>6 DEF Pipeline
  <2> QED
    BY <1>1, <1>2, <1>3, <1>4, <2>1 DEF Pipeline
<1>7. CASE next'.busy = next.busy
  <2>1. /\ \A k \in 1 .. Len(inbox') : Reply(k)' => next'.busy /\ ~Asked'
        /\ \A k \in 1 .. Len(inbox') : Config(k)' => ~Asked'
        /\ \A i \in 1 .. Len(outbox), k \in 1 .. Len(inbox') : ~(Saves(i)' /\ Reply(k)')
        /\ \A c \in Calls, k \in 1 .. Len(inbox') : ~(Mine(c)' /\ Reply(k)')
    BY <1>1, <1>3, <1>7 DEF Pipeline
  <2>2. /\ \A i, j \in 1 .. Len(outbox) : Saves(i)' /\ Saves(j)' => i = j
        /\ \A c, d \in Calls : Mine(c)' /\ Mine(d)' => c = d
        /\ \A i \in 1 .. Len(outbox) : Saves(i)' => next'.busy
        /\ \A i \in 1 .. Len(outbox), c \in Calls : ~(Saves(i)' /\ Mine(c)')
        /\ \A c \in Calls : Mine(c)' => next'.busy /\ ~Asked'
    BY <1>3, <1>7 DEF Pipeline
  <2> QED
    BY <1>2, <1>4, <1>5, <2>1, <2>2 DEF Pipeline
<1> QED
  BY <1>6, <1>7

LEMMA AnswerInit == Init => AnswerInv
  BY StateFacts DEF Init, AnswerInv

LEMMA AnswerStep == BaseInv /\ AnswerInv /\ [Next]_vars => AnswerInv'
<1> SUFFICES ASSUME BaseInv, AnswerInv, [Next]_vars PROVE AnswerInv'
  OBVIOUS
<1>b. TypeOK /\ LifeInv /\ TypeOK'
  BY BaseStep DEF BaseInv
<1>n. ~NewState.busy
  BY StateFacts
<1>1. CASE Start \/ Reload
  <2>1. CASE Mounted /\ UNCHANGED asker
    <3>1. Pipeline'
      BY <2>1, PipelineMount
    <3> QED
      BY <1>b, <1>n, <2>1, <3>1, MountFacts DEF AnswerInv
  <2>2. CASE Start /\ UNCHANGED <<window, state, next>>
    BY <1>b, <2>2, StartEffect DEF AnswerInv, LifeInv
  <2> QED
    BY <1>1, <1>b, <2>1, <2>2, StartEffect, ReloadEffect DEF mainVars
<1>2. CASE Stop \/ WindowCrashes
  BY <1>2, <1>b, <1>n, StopEffect, CrashEffect DEF AnswerInv
<1>3. CASE HandleGet
  <2>1. /\ UNCHANGED <<window, load, asker, state, next>> /\ Handled
    BY <1>3, <1>b, HandleGetEffect DEF windowVars, mainVars
  <2>2. CASE inbox' = inbox
    BY <1>b, <2>1, <2>2, PipelineHandled DEF AnswerInv
  <2>3. CASE window = "Loaded" /\ outbox[1].type = "GetSnapshot" /\ Receive(Snapshot(connected))
    BY <1>b, <2>1, <2>3, PipelineAnswered DEF AnswerInv, Snapshot
  <2>4. CASE /\ window = "Loaded" /\ outbox[1].type = "GetConfiguration" /\ outbox[1].load = load
             /\ Receive(ConfigurationMessage("Configuration", memory))
    <3>1. Gets(1)
      BY <2>4 DEF Gets
    <3> QED
      BY <1>b, <2>1, <2>4, <3>1, PipelineAnswered DEF AnswerInv, ConfigurationMessage
  <2> QED
    BY <1>3, <1>b, <2>2, <2>3, <2>4, HandleGetEffect DEF Reaches
<1>4. CASE HandleUpdate
  <2>1. UNCHANGED <<window, load, state, next>> /\ Handled /\ outbox[1].type = "Update"
    BY <1>4, <1>b, HandleUpdateEffect DEF windowVars
  <2>2. ASSUME inbox' = inbox, NEW c \in Calls, asker' = [asker EXCEPT ![c] = outbox[1].load]
        PROVE  AnswerInv'
    BY <1>b, <2>1, <2>2, PipelineWrite DEF AnswerInv
  <2>3. CASE inbox' = inbox /\ asker' = asker
    BY <1>b, <2>1, <2>3, PipelineHandled DEF AnswerInv
  <2>4. CASE /\ window = "Loaded" /\ outbox[1].load = load /\ asker' = asker
             /\ Receive([type |-> "SaveFailed"])
    <3>1. Saves(1)
      BY <2>1, <2>4 DEF Saves
    <3> QED
      BY <1>b, <2>1, <2>4, <3>1, PipelineAnswered DEF AnswerInv
  <2> QED
    BY <1>4, <1>b, <2>2, <2>3, <2>4, HandleUpdateEffect DEF Reaches
<1>5. CASE SendSnapshot
  <2>1. UNCHANGED <<window, load, state, next, outbox, asker>>
    BY <1>5, <1>b, SendSnapshotEffect DEF windowVars
  <2>2. CASE inbox' = inbox
    BY <2>1, <2>2, PipelineSame DEF AnswerInv
  <2>3. CASE Receive(Snapshot(connected'))
    BY <2>1, <2>3, PipelineSnapshot DEF AnswerInv, Snapshot
  <2> QED
    BY <1>5, <1>b, <2>2, <2>3, SendSnapshotEffect DEF Reaches
<1>6. CASE Render \/ Edit
  BY <1>6, <1>b, RenderEffect, EditEffect, PipelineSame DEF AnswerInv, mainVars
<1>7. CASE Save
  <2>1. ~next.busy
    BY <1>7, <1>b, SaveEffect DEF AnswerInv
  <2> QED
    BY <1>7, <1>b, <2>1, SaveEffect, PipelineSave DEF AnswerInv, mainVars
<1>8. CASE AcceptSnapshot \/ AcceptConfiguration
  <2>1. Takes /\ next'.busy = next.busy /\ UNCHANGED <<window, state>>
    BY <1>8, <1>b, AcceptSnapshotEffect, AcceptConfigurationEffect DEF Takes
  <2> QED
    BY <1>b, <2>1, PipelineTakes DEF AnswerInv
<1>9. CASE AcceptSaved \/ AcceptSaveFailed
  <2>1. Takes /\ ~next'.busy /\ UNCHANGED <<window, state>> /\ Reply(1)
    BY <1>9, <1>b, AcceptSavedEffect, AcceptSaveFailedEffect DEF Takes, Reply
  <2> QED
    BY <1>b, <2>1, PipelineTakes DEF AnswerInv
<1>10. ASSUME NEW c \in Calls, FinishUpdate(c) PROVE AnswerInv'
  <2>1. UNCHANGED <<window, load, state, next, outbox>> /\ asker' = [asker EXCEPT ![c] = 0]
    BY <1>10, <1>b, FinishEffect DEF windowVars
  <2>2. PICK r : r.type \in {"Saved", "SaveFailed"} /\ Reaches(asker[c], r)
    BY <1>10, <1>b, FinishEffect DEF ConfigurationMessage
  <2>3. ASSUME window = "Loaded" PROVE Pipeline'
    <3>1. Pipeline /\ UNCHANGED <<load, outbox, next>>
      BY <2>1, <2>3 DEF AnswerInv
    <3>2. \A d \in Calls : Mine(d)' => Mine(d) /\ d # c
      BY <1>b, <2>1, <2>3, TypeFacts DEF Mine, LifeInv
    <3>3. (asker[c] = load /\ Receive(r)) \/ inbox' = inbox
      BY <2>2 DEF Reaches
    <3> QED
      BY <1>b, <2>2, <2>3, <3>1, <3>2, <3>3, PipelineFinish
  <2> QED
    BY <2>1, <2>3 DEF AnswerInv
<1>11. CASE UNCHANGED <<windowVars, outbox, inbox, asker>>
  BY <1>11, PipelineSame DEF AnswerInv, windowVars
<1> QED
  BY <1>1, <1>2, <1>3, <1>4, <1>5, <1>6, <1>7, <1>8, <1>9, <1>10, <1>11 DEF Next, Rest, vars, mainVars

-----------------------------------------------------------------------------
(* The file, the memory and the screen                                     *)

FileIs(v) == Found = Whole(v) \/ (Found.state = "Missing" /\ v = Default)

\* Without writes side by side and without a loss, the one pending write, or
\* else the file, has what the memory has.
MemoryInv ==
  /\ \A c \in Calls : Pending(c) => Good(value[c])
  /\ ~overlapped /\ Found.state = "Whole" => Good(Found.value)
  /\ /\ application = "Running" /\ ~overlapped /\ ~historyOf.lost
     /\ \A c \in Calls : call[c] # "Failed"
     => \/ \E c \in Calls : Pending(c) /\ value[c] = memory
        \/ (\A c \in Calls : ~Pending(c)) /\ FileIs(memory)

LEMMA MemoryInit == Init => MemoryInv
  BY DEF Init, StoreInit, MemoryInv, Pending, Found

LEMMA MemorySame ==
  ASSUME MemoryInv, UNCHANGED <<storeVars, application, memory>>, UNCHANGED historyOf.lost
  PROVE  MemoryInv'
  BY DEF MemoryInv, storeVars, Found, Pending, FileIs

LEMMA MemoryStep == BaseInv /\ MemoryInv /\ [Next]_vars => MemoryInv'
<1> SUFFICES ASSUME BaseInv, MemoryInv, [Next]_vars PROVE MemoryInv'
  OBVIOUS
<1>b. TypeOK /\ StoreTypeOK /\ WholeInv /\ LifeInv
  BY TypeFacts DEF BaseInv
<1>1. CASE Start
  <2>1. UNCHANGED storeVars /\ UNCHANGED historyOf.lost /\ application = "Stopped"
        /\ UNCHANGED <<call, value, overlapped>> /\ Found' = Found
    BY <1>1, <1>b, StartEffect DEF storeVars, Found
  <2>2. \A c \in Calls : ~Pending(c)'
    BY <1>b, <2>1 DEF LifeInv, Pending
  <2>3. application' = "Running" /\ ~overlapped => FileIs(memory')
    <3>1. CASE Found.state = "Whole"
      <4>1. ~overlapped => Good(Found.value)
        BY <3>1 DEF MemoryInv
      <4>2. Found = Whole(Found.value)
        BY <1>b, <3>1, Findings
      <4>3. application' = "Running" /\ ~overlapped => memory' = Found.value
        BY <1>1, <1>b, <3>1, <4>1, StartEffect
      <4> QED
        BY <4>2, <4>3 DEF FileIs
    <3>2. CASE Found.state = "Missing"
      BY <1>1, <1>b, <3>2, StartEffect DEF FileIs
    <3>3. CASE Found.state \notin {"Missing", "Whole"}
      BY <1>1, <1>b, <3>3, StartEffect
    <3> QED
      BY <3>1, <3>2, <3>3
  <2>4. application' = "Running" /\ ~overlapped' => (Found' = Whole(memory') \/ (Found'.state = "Missing" /\ memory' = Default))
    BY <2>1, <2>3 DEF FileIs
  <2> QED
    BY <2>1, <2>2, <2>4 DEF MemoryInv, FileIs
<1>2. CASE Stop
  <2>1. /\ application' = "Stopped" /\ UNCHANGED overlapped /\ Found' = Found
        /\ \A c \in Calls : ~Pending(c)'
    BY <1>2, <1>b, StopEffect DEF EndCalls, EndCallsOf, Found, Pending
  <2> QED
    BY <2>1 DEF MemoryInv
<1>3. CASE UNCHANGED <<storeVars, application, memory>> /\ UNCHANGED historyOf.lost
  BY <1>3, MemorySame
<1>4. CASE HandleUpdate
  <2>1. UNCHANGED application /\ UNCHANGED historyOf.lost
    BY <1>4, <1>b, HandleUpdateEffect
  <2>2. ASSUME NEW c \in Calls, Write(c, memory'), Good(memory')
        PROVE  MemoryInv'
    <3>1. /\ Pending(c)' /\ value'[c] = memory'
          /\ \A d \in Calls : d # c => call'[d] = call[d] /\ value'[d] = value[d]
          /\ Found' = Found
          /\ ~overlapped' => ~overlapped
      BY <1>b, <2>2, Writes DEF Found
    <3>2. \A d \in Calls : Pending(d)' => Good(value'[d])
      BY <2>2, <3>1 DEF MemoryInv, Pending
    <3> QED
      BY <3>1, <3>2 DEF MemoryInv
  <2> QED
    BY <1>3, <1>4, <1>b, <2>1, <2>2, HandleUpdateEffect
<1>5. ASSUME NEW c \in Calls, FinishUpdate(c) PROVE MemoryInv'
  <2>1. /\ UNCHANGED <<application, memory, overlapped>> /\ Return(c) /\ Found' = Found
        /\ ~historyOf'.lost => ~historyOf.lost /\ call[c] = "Done"
    BY <1>5, <1>b, FinishEffect DEF Return, Found
  <2>2. /\ ~Pending(c) /\ ~Pending(c)' /\ call'[c] = "Idle"
        /\ \A d \in Calls : d # c => call'[d] = call[d] /\ value'[d] = value[d]
    BY <1>b, <2>1 DEF Return, StoreTypeOK, Pending
  <2>3. \A d \in Calls : (Pending(d)' <=> Pending(d)) /\ (Pending(d) => value'[d] = value[d])
    BY <2>2 DEF Pending
  <2>4. ASSUME \A d \in Calls : call'[d] # "Failed", call[c] = "Done"
        PROVE  \A d \in Calls : call[d] # "Failed"
    BY <2>2, <2>4
  <2>5. FileIs(memory) => FileIs(memory)'
    BY <2>1 DEF FileIs
  <2> QED
    BY <2>1, <2>3, <2>4, <2>5 DEF MemoryInv
<1>6. ASSUME NEW c \in Calls, FileOperation(c) \/ FailFileOperation(c), UNCHANGED Rest
      PROVE  MemoryInv'
  <2>1. UNCHANGED <<application, memory, historyOf, value, overlapped>>
    BY <1>6 DEF Rest, mainVars, FileOperation, MakeDirectory, OpenTemporary, WriteTemporary, Rename,
       FailFileOperation
  <2>2. \A d \in Calls : Pending(d)' => Pending(d)
    <3>1. Pending(c) /\ \A d \in Calls : d # c => call'[d] = call[d]
      BY <1>6, <1>b DEF FileOperation, MakeDirectory, OpenTemporary, WriteTemporary, Rename,
         FailFileOperation, Pending, StoreTypeOK
    <3> QED
      BY <3>1 DEF Pending
  <2>3. \A d \in Calls : Pending(d)' => Good(value'[d])
    BY <2>1, <2>2 DEF MemoryInv
  <2>4. CASE overlapped
    BY <2>1, <2>3, <2>4 DEF MemoryInv
  <2>5. CASE ~overlapped
    <3>1. OneWriter
      BY <1>b, <2>5 DEF WholeInv
    <3>2. /\ Pending(c) /\ \A d \in Calls : d # c => ~Pending(d) /\ call'[d] = call[d]
          /\ \/ /\ call'[c] = "Failed" \/ Pending(c)'
                /\ file' = file /\ (file # 0 => data'[file] = data[file])
             \/ /\ call'[c] = "Done"
                /\ file' # 0 /\ data'[file'] = Whole(value[c])
      BY <1>6, <1>b, <3>1, FileChanges
    <3>3. \A d \in Calls : d # c => ~Pending(d)'
      BY <3>2 DEF Pending
    <3>4. Good(value[c]) /\ value[c] \in Value
      BY <1>b, <3>2 DEF MemoryInv, StoreTypeOK
    <3>5. ASSUME application = "Running", ~historyOf.lost, \A d \in Calls : call'[d] # "Failed"
          PROVE  value[c] = memory
      <4>1. \A d \in Calls : call[d] # "Failed"
        BY <3>2, <3>5 DEF Pending
      <4> QED
        BY <2>5, <3>2, <3>5, <4>1 DEF MemoryInv
    <3>6. CASE /\ call'[c] = "Failed" \/ Pending(c)'
               /\ file' = file /\ (file # 0 => data'[file] = data[file])
      <4>1. Found' = Found
        BY <3>6 DEF Found
      <4>2. ASSUME application' = "Running", ~historyOf'.lost, \A d \in Calls : call'[d] # "Failed"
            PROVE  Pending(c)' /\ value'[c] = memory'
        BY <2>1, <3>5, <3>6, <4>2
      <4> QED
        BY <2>1, <2>3, <4>1, <4>2 DEF MemoryInv
    <3>7. CASE call'[c] = "Done" /\ file' # 0 /\ data'[file'] = Whole(value[c])
      <4>1. Found' = Whole(value[c])
        BY <3>7 DEF Found
      <4>2. Found'.state = "Whole" /\ Good(Found'.value)
        BY <3>4, <4>1, Contents
      <4>3. \A d \in Calls : ~Pending(d)'
        BY <3>3, <3>7 DEF Pending
      <4>4. ASSUME application' = "Running", ~historyOf'.lost, \A d \in Calls : call'[d] # "Failed"
            PROVE  FileIs(memory)'
        BY <2>1, <3>5, <4>1, <4>4 DEF FileIs
      <4> QED
        BY <2>3, <4>2, <4>3, <4>4 DEF MemoryInv
    <3> QED
      BY <3>2, <3>6, <3>7
  <2> QED
    BY <2>4, <2>5
<1>7. CASE HandleGet \/ SendSnapshot
  BY <1>3, <1>7, <1>b, HandleGetEffect, SendSnapshotEffect DEF mainVars
<1>8. CASE Render \/ Edit \/ Save \/ WindowCrashes \/ Reload
  BY <1>3, <1>8, <1>b, RenderEffect, EditEffect, SaveEffect, CrashEffect, ReloadEffect DEF mainVars
<1>9. CASE AcceptSnapshot \/ AcceptConfiguration \/ AcceptSaved \/ AcceptSaveFailed
  <2>1. Takes
    BY <1>9, <1>b, AcceptSnapshotEffect, AcceptConfigurationEffect, AcceptSavedEffect,
       AcceptSaveFailedEffect
  <2> QED
    BY <1>3, <2>1 DEF Takes, mainVars
<1>10. CASE UNCHANGED vars
  BY <1>3, <1>10 DEF vars, mainVars
<1> QED
  BY <1>1, <1>2, <1>4, <1>5, <1>6, <1>7, <1>8, <1>9, <1>10 DEF Next

\* No configuration is added to the inbox or taken from it.
SameNews ==
  /\ \A k \in 1 .. Len(inbox') : Saved(k)' \/ Config(k)' =>
       \E l \in 1 .. Len(inbox) : inbox[l] = inbox'[k]
  /\ \A l \in 1 .. Len(inbox) : Saved(l) \/ Config(l) =>
       \E k \in 1 .. Len(inbox') : inbox'[k] = inbox[l]

LEMMA NewsSame ==
  ASSUME inbox' = inbox
  PROVE  SameNews
  BY DEF SameNews

LEMMA NewsReceived ==
  ASSUME TypeOK, NEW r, Receive(r), r.type \in {"Snapshot", "SaveFailed"}
  PROVE  SameNews
<1>1. \A k \in 1 .. Len(inbox') :
        \/ k \in 1 .. Len(inbox) /\ inbox'[k] = inbox[k]
        \/ inbox'[k] = r
  BY ReceiveShift
<1>2. \A l \in 1 .. Len(inbox) : l \in 1 .. Len(inbox') /\ inbox'[l] = inbox[l]
  BY SizeFacts DEF Receive, Pushed
<1> QED
  BY <1>1, <1>2 DEF SameNews, Saved, Config

LEMMA NewsTaken ==
  ASSUME TypeOK, TypeOK', Takes, ~Saved(1), ~Config(1)
  PROVE  SameNews
  BY AcceptedShift DEF Takes, SameNews

Settled == (\A c \in Calls : ~Mine(c)) /\ \A k \in 1 .. Len(inbox) : ~Saved(k)

\* What the window shows, or is about to, unless it is a draft, is what the
\* memory has, once no request to save is in the hands of the main process.
Screen ==
  /\ \A k \in 1 .. Len(inbox) : Saved(k) => inbox[k].configuration = memory
  /\ Settled => \A k \in 1 .. Len(inbox) : Config(k) => inbox[k].configuration = memory
  /\ Settled /\ (\A k \in 1 .. Len(inbox) : ~Config(k)) /\ ~next.dirty =>
       next.configuration = memory

ScreenInv == window = "Loaded" /\ ~historyOf.lost /\ ~Asked => Screen

LEMMA ScreenInit == Init => ScreenInv
  BY DEF Init, ScreenInv

\* Steps that change neither the memory nor what is shown nor any news of it.
LEMMA ScreenKeeps ==
  ASSUME ScreenInv, memory' = memory, SameNews,
         window' = "Loaded" => window = "Loaded", historyOf.lost => historyOf'.lost,
         Asked => Asked', \A c \in Calls : Mine(c) => Mine(c)',
         ~next'.dirty => ~next.dirty /\ next'.configuration = next.configuration
  PROVE  ScreenInv'
<1> SUFFICES ASSUME window' = "Loaded", ~historyOf'.lost, ~Asked' PROVE Screen'
  BY DEF ScreenInv
<1>1. Screen
  BY DEF ScreenInv
<1>2. /\ \A k \in 1 .. Len(inbox') : Saved(k)' =>
           \E l \in 1 .. Len(inbox) : inbox[l] = inbox'[k] /\ Saved(l)
      /\ \A k \in 1 .. Len(inbox') : Config(k)' =>
           \E l \in 1 .. Len(inbox) : inbox[l] = inbox'[k] /\ Config(l)
      /\ \A l \in 1 .. Len(inbox) : Saved(l) => \E k \in 1 .. Len(inbox') : Saved(k)'
      /\ \A l \in 1 .. Len(inbox) : Config(l) => \E k \in 1 .. Len(inbox') : Config(k)'
  BY DEF SameNews, Saved, Config
<1>3. Settled' => Settled
  BY <1>2 DEF Settled
<1>4. (\A k \in 1 .. Len(inbox') : ~Config(k)') => \A k \in 1 .. Len(inbox) : ~Config(k)
  BY <1>2
<1>5. \A k \in 1 .. Len(inbox') : Saved(k)' => inbox'[k].configuration = memory'
  BY <1>1, <1>2 DEF Screen
<1>6. Settled' => \A k \in 1 .. Len(inbox') : Config(k)' => inbox'[k].configuration = memory'
  BY <1>1, <1>2, <1>3 DEF Screen
<1>7. Settled' /\ (\A k \in 1 .. Len(inbox') : ~Config(k)') /\ ~next'.dirty =>
        next'.configuration = memory'
  BY <1>1, <1>3, <1>4 DEF Screen
<1> QED
  BY <1>5, <1>6, <1>7 DEF Screen

LEMMA ScreenStep == BaseInv /\ AnswerInv /\ ScreenInv /\ [Next]_vars => ScreenInv'
<1> SUFFICES ASSUME BaseInv, AnswerInv, ScreenInv, [Next]_vars PROVE ScreenInv'
  OBVIOUS
<1>b. TypeOK /\ LifeInv /\ OrderInv /\ TypeOK'
  BY BaseStep DEF BaseInv
<1>w. window = "Loaded" => Pipeline
  BY DEF AnswerInv
<1>1. CASE Start \/ Reload
  <2>1. CASE Mounted
    BY <1>b, <2>1, OrderMount DEF ScreenInv
  <2>2. CASE Start /\ UNCHANGED window
    BY <1>b, <2>2, StartEffect DEF ScreenInv, LifeInv
  <2> QED
    BY <1>1, <1>b, <2>1, <2>2, StartEffect, ReloadEffect
<1>2. CASE Stop \/ WindowCrashes
  BY <1>2, <1>b, StopEffect, CrashEffect DEF ScreenInv
<1>3. CASE HandleGet
  <2>1. /\ UNCHANGED <<window, load, asker, next, memory, historyOf>> /\ Handled
        /\ \A c \in Calls : Mine(c)' <=> Mine(c)
    BY <1>3, <1>b, HandleGetEffect DEF windowVars, mainVars, Mine
  <2>2. (Asked => Asked' \/ Gets(1)) /\ (Gets(1) => ~Asked') /\ (Gets(1) => Asked)
    BY <1>b, <2>1, HandledShift DEF Asked
  <2>3. CASE ~Gets(1) /\ SameNews
    BY <2>1, <2>2, <2>3, ScreenKeeps
  <2>4. CASE ~(window = "Loaded")
    BY <2>1, <2>4 DEF ScreenInv
  <2>5. CASE window = "Loaded" /\ Gets(1) /\ Receive(ConfigurationMessage("Configuration", memory))
    <3>1. /\ \A k \in 1 .. Len(inbox) : ~Config(k) /\ ~Reply(k)
      BY <1>w, <2>2, <2>5 DEF Pipeline
    <3>2. ASSUME NEW k \in 1 .. Len(inbox')
          PROVE  ~Saved(k)' /\ (Config(k)' => inbox'[k].configuration = memory')
      <4> DEFINE r == ConfigurationMessage("Configuration", memory)
      <4>1. CASE k \in 1 .. Len(inbox) /\ (Config(k)' <=> Config(k)) /\ (Saved(k)' <=> Saved(k))
        BY <3>1, <4>1 DEF Reply, Saved
      <4>2. CASE inbox'[k] = r
        BY <2>1, <4>2 DEF Config, Saved, ConfigurationMessage
      <4>3. Receive(r)
        BY <2>5
      <4> HIDE DEF r
      <4> QED
        BY <1>b, <4>1, <4>2, <4>3, ReceiveShift
    <3>3. \E k \in 1 .. Len(inbox') : Config(k)'
      <4>1. Len(inbox) + 1 \in 1 .. Len(inbox')
            /\ inbox'[Len(inbox) + 1] = ConfigurationMessage("Configuration", memory)
        BY <1>b, <2>5, SizeFacts DEF Receive, Pushed
      <4>2. PICK k \in 1 .. Len(inbox') : inbox'[k] = ConfigurationMessage("Configuration", memory)
        BY <4>1
      <4> QED
        BY <4>2 DEF Config, ConfigurationMessage
    <3> QED
      BY <3>2, <3>3 DEF ScreenInv, Screen
  <2>6. outbox[1].type = "GetSnapshot" => ~Gets(1)
    BY DEF Gets
  <2>7. outbox[1].type = "GetSnapshot" => SameNews
    BY <1>3, <1>b, HandleGetEffect, NewsSame, NewsReceived DEF Reaches, Snapshot
  <2>8. CASE outbox[1].type = "GetSnapshot"
    BY <2>3, <2>6, <2>7, <2>8
  <2>9. CASE outbox[1].type = "GetConfiguration"
    <3>1. CASE outbox[1].load = load
      BY <1>3, <1>b, <2>4, <2>5, <2>9, <3>1, HandleGetEffect DEF Reaches, Gets
    <3>2. CASE outbox[1].load # load
      BY <1>3, <1>b, <2>3, <2>9, <3>2, HandleGetEffect, NewsSame DEF Reaches, Gets
    <3> QED
      BY <3>1, <3>2
  <2> QED
    BY <1>3, <1>b, <2>8, <2>9, HandleGetEffect
<1>4. CASE HandleUpdate
  <2>1. UNCHANGED <<window, load, next, historyOf>> /\ Handled /\ outbox[1].type = "Update"
    BY <1>4, <1>b, HandleUpdateEffect DEF windowVars
  <2>2. /\ Asked => Asked'
        /\ ~Saves(1) /\ window = "Loaded" => Asked
        /\ 1 \in 1 .. Len(outbox)
    BY <1>b, <2>1, HandledShift DEF Gets
  <2>3. CASE inbox' = inbox /\ \E c \in Calls : asker' = [asker EXCEPT ![c] = outbox[1].load]
    <3>1. PICK c \in Calls : asker' = [asker EXCEPT ![c] = outbox[1].load]
      BY <2>3
    <3>2. CASE window = "Loaded" /\ Saves(1)
      <4>1. Mine(c)'
        BY <1>b, <2>1, <3>1, <3>2, TypeFacts DEF Mine, Saves
      <4>2. \A k \in 1 .. Len(inbox') : ~Saved(k)'
        BY <1>w, <2>2, <2>3, <3>2 DEF Pipeline, Reply, Saved
      <4> QED
        BY <4>1, <4>2 DEF ScreenInv, Screen, Settled
    <3>3. CASE ~(window = "Loaded" /\ Saves(1))
      BY <2>1, <2>2, <3>3 DEF ScreenInv
    <3> QED
      BY <3>2, <3>3
  <2>4. CASE UNCHANGED <<memory, asker>> /\ Reaches(outbox[1].load, [type |-> "SaveFailed"])
    <3>1. SameNews
      BY <1>b, <2>4, NewsSame, NewsReceived DEF Reaches
    <3>2. \A c \in Calls : Mine(c)' <=> Mine(c)
      BY <2>1, <2>4 DEF Mine
    <3> QED
      BY <2>1, <2>2, <2>4, <3>1, <3>2, ScreenKeeps
  <2> QED
    BY <1>4, <1>b, <2>3, <2>4, HandleUpdateEffect
<1>5. CASE SendSnapshot
  <2>1. /\ UNCHANGED <<window, next, memory, historyOf>>
        /\ Asked' <=> Asked
        /\ \A c \in Calls : Mine(c)' <=> Mine(c)
    BY <1>5, <1>b, SendSnapshotEffect DEF windowVars, Asked, Gets, Mine
  <2>2. SameNews
    BY <1>5, <1>b, SendSnapshotEffect, NewsSame, NewsReceived DEF Reaches, Snapshot
  <2> QED
    BY <2>1, <2>2, ScreenKeeps
<1>6. CASE Render \/ Edit
  <2>1. /\ UNCHANGED <<window, memory, inbox, load, outbox, asker>> /\ UNCHANGED historyOf.lost
        /\ next'.dirty \/ next' = next
    BY <1>6, <1>b, RenderEffect, EditEffect DEF mainVars
  <2>2. (Asked' <=> Asked) /\ \A c \in Calls : Mine(c)' <=> Mine(c)
    BY <2>1 DEF Asked, Gets, Mine
  <2> QED
    BY <2>1, <2>2, NewsSame, ScreenKeeps
<1>7. CASE Save
  <2>1. /\ UNCHANGED <<window, memory, inbox, load, asker, historyOf>>
        /\ next'.dirty = next.dirty /\ next'.configuration = next.configuration
    BY <1>7, <1>b, SaveEffect DEF mainVars
  <2>2. (Asked' <=> Asked) /\ \A c \in Calls : Mine(c)' <=> Mine(c)
    BY <1>7, <1>b, <2>1, SaveEffect, AskShift DEF Mine
  <2> QED
    BY <2>1, <2>2, NewsSame, ScreenKeeps
<1>8. ASSUME Takes
      PROVE  /\ UNCHANGED <<window, memory>> /\ UNCHANGED historyOf.lost
             /\ Asked' <=> Asked
             /\ \A c \in Calls : Mine(c)' <=> Mine(c)
  BY <1>8 DEF Takes, mainVars, Asked, Gets, Mine
<1>9. CASE AcceptSnapshot \/ AcceptSaveFailed
  <2>1. /\ Takes /\ ~Saved(1) /\ ~Config(1)
        /\ next'.dirty = next.dirty /\ next'.configuration = next.configuration
    BY <1>9, <1>b, AcceptSnapshotEffect, AcceptSaveFailedEffect DEF Saved, Config
  <2> QED
    BY <1>b, <1>8, <2>1, NewsTaken, ScreenKeeps
<1>10. CASE AcceptConfiguration
  <2>1. Takes /\ Config(1) /\ ~Saved(1) /\ next'.configuration = inbox[1].configuration
    BY <1>10, <1>b, AcceptConfigurationEffect DEF Config, Saved
  <2>2. window = "Loaded"
    BY <2>1 DEF Takes
  <2>3. /\ 1 \in 1 .. Len(inbox)
        /\ \A k \in 1 .. Len(inbox') :
             /\ k + 1 \in 1 .. Len(inbox) /\ k + 1 # 1 /\ inbox'[k] = inbox[k + 1]
             /\ Config(k)' <=> Config(k + 1)
             /\ Saved(k)' <=> Saved(k + 1)
        /\ \A k \in 1 .. Len(inbox) : k = 1 \/ (k - 1 \in 1 .. Len(inbox') /\ inbox'[k - 1] = inbox[k])
    BY <1>b, <2>1, AcceptedShift DEF Takes
  <2>4. \A k \in 1 .. Len(inbox') : ~Config(k)'
    BY <1>w, <2>1, <2>2, <2>3 DEF Pipeline
  <2>5. ASSUME ~historyOf'.lost, ~Asked' PROVE Screen'
    <3>1. Screen
      BY <1>8, <2>1, <2>2, <2>5 DEF ScreenInv
    <3>2. \A k \in 1 .. Len(inbox') : Saved(k)' => inbox'[k].configuration = memory'
      BY <1>8, <2>1, <2>3, <3>1 DEF Screen
    <3>3. \A l \in 1 .. Len(inbox) : Saved(l) => \E k \in 1 .. Len(inbox') : Saved(k)'
      BY <2>1, <2>3 DEF Saved
    <3>4. Settled' => Settled
      BY <1>8, <2>1, <3>3 DEF Settled
    <3>5. Settled' => next'.configuration = memory'
      BY <1>8, <2>1, <2>3, <3>1, <3>4 DEF Screen
    <3> QED
      BY <2>4, <3>2, <3>5 DEF Screen
  <2> QED
    BY <2>5 DEF ScreenInv
<1>11. CASE AcceptSaved
  <2>1. Takes /\ Saved(1) /\ Reply(1) /\ next'.configuration = inbox[1].configuration
    BY <1>11, <1>b, AcceptSavedEffect DEF Reply, Saved
  <2>2. window = "Loaded"
    BY <2>1 DEF Takes
  <2>3. /\ 1 \in 1 .. Len(inbox)
        /\ \A k \in 1 .. Len(inbox') :
             /\ k + 1 \in 1 .. Len(inbox) /\ k + 1 # 1 /\ k + 1 > 1
             /\ Config(k)' <=> Config(k + 1)
             /\ Saved(k)' <=> Saved(k + 1)
    BY <1>b, <2>1, AcceptedShift DEF Takes
  <2>4. \A k \in 1 .. Len(inbox') : ~Config(k)' /\ ~Saved(k)'
    BY <1>w, <2>1, <2>2, <2>3 DEF Pipeline, Reply, Saved
  <2>5. ASSUME ~historyOf'.lost, ~Asked' PROVE Screen'
    <3>1. Screen
      BY <1>8, <2>1, <2>2, <2>5 DEF ScreenInv
    <3>2. next'.configuration = memory'
      BY <1>8, <2>1, <2>3, <3>1 DEF Screen
    <3> QED
      BY <2>4, <3>2 DEF Screen
  <2> QED
    BY <2>5 DEF ScreenInv
<1>12. ASSUME NEW c \in Calls, FinishUpdate(c) PROVE ScreenInv'
  <2>1. /\ UNCHANGED <<window, load, next, memory, outbox>> /\ asker' = [asker EXCEPT ![c] = 0]
        /\ ~historyOf'.lost => ~historyOf.lost /\ call[c] = "Done"
    BY <1>12, <1>b, FinishEffect DEF windowVars
  <2>2. Asked' <=> Asked
    BY <2>1 DEF Asked, Gets
  <2>3. CASE window = "Loaded" /\ asker[c] = load /\ call[c] = "Done"
    <3>1. Receive(ConfigurationMessage("Saved", memory))
      BY <1>12, <1>b, <2>3, FinishEffect DEF Reaches
    <3>2. \A k \in 1 .. Len(inbox') : Saved(k)' => inbox'[k].configuration = memory'
      BY <1>b, <1>w, <2>1, <2>3, <3>1, ReceiveShift
         DEF Saved, ConfigurationMessage, Pipeline, Mine, Reply
    <3>3. \E k \in 1 .. Len(inbox') : Saved(k)'
      <4>1. Len(inbox) + 1 \in 1 .. Len(inbox')
            /\ inbox'[Len(inbox) + 1] = ConfigurationMessage("Saved", memory)
        BY <1>b, <3>1, SizeFacts DEF Receive, Pushed
      <4>2. PICK k \in 1 .. Len(inbox') : inbox'[k] = ConfigurationMessage("Saved", memory)
        BY <4>1
      <4> QED
        BY <4>2 DEF Saved, ConfigurationMessage
    <3> QED
      BY <3>2, <3>3 DEF ScreenInv, Screen, Settled
  <2>4. CASE historyOf'.lost \/ window # "Loaded"
    BY <2>1, <2>4 DEF ScreenInv
  <2>5. CASE asker[c] # load /\ ~historyOf'.lost
    <3>1. inbox' = inbox
      BY <1>12, <1>b, <2>5, FinishEffect DEF Reaches
    <3>2. \A d \in Calls : Mine(d) => Mine(d)'
      <4>1. \A d \in Calls : d # c => asker'[d] = asker[d]
        BY <1>b, <2>1, TypeFacts
      <4> QED
        BY <2>1, <2>5, <4>1 DEF Mine
    <3> QED
      BY <2>1, <2>2, <2>5, <3>1, <3>2, NewsSame, ScreenKeeps
  <2> QED
    BY <2>1, <2>3, <2>4, <2>5
<1>13. CASE UNCHANGED Rest
  <2>1. UNCHANGED <<window, next, memory, historyOf, inbox>>
        /\ (Asked' <=> Asked) /\ \A c \in Calls : Mine(c)' <=> Mine(c)
    BY <1>13 DEF Rest, windowVars, mainVars, Asked, Gets, Mine
  <2> QED
    BY <2>1, NewsSame, ScreenKeeps
<1> QED
  BY <1>1, <1>2, <1>3, <1>4, <1>5, <1>6, <1>7, <1>9, <1>10, <1>11, <1>12, <1>13 DEF Next, Rest, vars

-----------------------------------------------------------------------------
(* The draft                                                               *)

\* As long as nothing was edited while an answer was awaited, everything on
\* its way between the window and the file is the draft, or about to be.
Draft ==
  /\ ~next.dirty => next.configuration = Validated(state.configuration)
  /\ ~Asked
  /\ \A k \in 1 .. Len(inbox) : ~Config(k)
  /\ \A i \in 1 .. Len(outbox) : Saves(i) => outbox[i].configuration = state.configuration
  /\ \A c \in Calls : Mine(c) => memory = Validated(state.configuration)
  /\ \A k \in 1 .. Len(inbox) : Saved(k) => inbox[k].configuration = Validated(state.configuration)

DraftInv ==
  /\ next.dirty => state.dirty /\ next.configuration = state.configuration
  /\ window = "Loaded" /\ state.dirty /\ ~historyOf.raced => Draft

LEMMA DraftInit == Init => DraftInv
  BY StateFacts DEF Init, DraftInv

\* Steps of the main process and of the queues that add nothing to the draft.
LEMMA DraftKeeps ==
  ASSUME DraftInv, memory' = memory, SameNews,
         window' = "Loaded" => window = "Loaded", UNCHANGED <<load, state>>,
         historyOf.raced => historyOf'.raced,
         Asked' => Asked, \A c \in Calls : Mine(c)' => Mine(c),
         \A i \in 1 .. Len(outbox') : Saves(i)' =>
           \E j \in 1 .. Len(outbox) : outbox'[i] = outbox[j],
         next'.dirty <=> next.dirty, next'.configuration = next.configuration
  PROVE  DraftInv'
<1>1. next'.dirty => state'.dirty /\ next'.configuration = state'.configuration
  BY DEF DraftInv
<1>2. ASSUME window' = "Loaded", state'.dirty, ~historyOf'.raced PROVE Draft'
  <2>1. Draft
    BY <1>2 DEF DraftInv
  <2>2. ASSUME NEW k \in 1 .. Len(inbox'), Saved(k)' \/ Config(k)'
        PROVE  \E l \in 1 .. Len(inbox) :
                 /\ inbox[l] = inbox'[k]
                 /\ (Saved(k)' <=> Saved(l)) /\ (Config(k)' <=> Config(l))
    <3>1. PICK l \in 1 .. Len(inbox) : inbox[l] = inbox'[k]
      BY <2>2 DEF SameNews
    <3>2. (Saved(k)' <=> Saved(l)) /\ (Config(k)' <=> Config(l))
      BY <3>1 DEF Saved, Config
    <3> QED
      BY <3>1, <3>2
  <2>3. \A i \in 1 .. Len(outbox') : Saves(i)' =>
          \E j \in 1 .. Len(outbox) : outbox'[i] = outbox[j] /\ Saves(j)
    BY DEF Saves
  <2>4. \A k \in 1 .. Len(inbox') : ~Config(k)'
    BY <2>1, <2>2 DEF Draft
  <2>5. \A k \in 1 .. Len(inbox') : Saved(k)' => inbox'[k].configuration = Validated(state'.configuration)
    BY <2>1, <2>2 DEF Draft
  <2>6. \A i \in 1 .. Len(outbox') : Saves(i)' => outbox'[i].configuration = state'.configuration
    BY <2>1, <2>3 DEF Draft
  <2> QED
    BY <2>1, <2>4, <2>5, <2>6 DEF Draft
<1> QED
  BY <1>1, <1>2 DEF DraftInv

LEMMA DraftStep == BaseInv /\ AnswerInv /\ DraftInv /\ [Next]_vars => DraftInv'
<1> SUFFICES ASSUME BaseInv, AnswerInv, DraftInv, [Next]_vars PROVE DraftInv'
  OBVIOUS
<1>b. TypeOK /\ LifeInv /\ OrderInv /\ TypeOK'
  BY BaseStep DEF BaseInv
<1>w. window = "Loaded" => Pipeline
  BY DEF AnswerInv
<1>n. ~NewState.dirty
  BY StateFacts
<1>1. CASE Start \/ Reload
  <2>1. CASE Mounted
    BY <1>b, <1>n, <2>1, MountFacts DEF DraftInv
  <2>2. CASE Start /\ UNCHANGED <<window, state, next>>
    BY <1>b, <1>n, <2>2, StartEffect DEF DraftInv, LifeInv
  <2> QED
    BY <1>1, <1>b, <2>1, <2>2, StartEffect, ReloadEffect
<1>2. CASE Stop \/ WindowCrashes
  BY <1>2, <1>b, <1>n, StopEffect, CrashEffect DEF DraftInv
<1>h. ASSUME Handled, UNCHANGED load
      PROVE  /\ Asked' => Asked
             /\ \A i \in 1 .. Len(outbox') : Saves(i)' =>
                  \E j \in 1 .. Len(outbox) : outbox'[i] = outbox[j]
  BY <1>b, <1>h, HandledShift
<1>3. CASE HandleGet
  <2>1. /\ UNCHANGED <<window, load, asker, state, next, memory, historyOf>> /\ Handled
        /\ \A c \in Calls : Mine(c)' <=> Mine(c)
    BY <1>3, <1>b, HandleGetEffect DEF windowVars, mainVars, Mine
  <2>2. CASE SameNews
    BY <1>h, <2>1, <2>2, DraftKeeps
  <2>3. CASE window = "Loaded" /\ Gets(1)
    <3>1. Asked
      BY <1>b, <2>1, <2>3, HandledShift DEF Asked
    <3> QED
      BY <2>1, <2>3, <3>1 DEF DraftInv, Draft
  <2>4. SameNews \/ (window = "Loaded" /\ Gets(1))
    <3>1. CASE outbox[1].type = "GetSnapshot"
      BY <1>3, <1>b, <3>1, HandleGetEffect, NewsSame, NewsReceived DEF Reaches, Snapshot
    <3>2. CASE outbox[1].type = "GetConfiguration"
      BY <1>3, <1>b, <3>2, HandleGetEffect, NewsSame DEF Reaches, Gets
    <3> QED
      BY <1>3, <1>b, <3>1, <3>2, HandleGetEffect
  <2> QED
    BY <2>2, <2>3, <2>4
<1>4. CASE HandleUpdate
  <2>1. /\ UNCHANGED <<window, load, state, next, historyOf>> /\ Handled
        /\ outbox[1].type = "Update"
    BY <1>4, <1>b, HandleUpdateEffect DEF windowVars
  <2>2. /\ ~Saves(1) /\ window = "Loaded" => Asked
        /\ 1 \in 1 .. Len(outbox)
        /\ \A i \in 1 .. Len(outbox') : /\ i + 1 \in 1 .. Len(outbox) /\ outbox'[i] = outbox[i + 1]
                                        /\ Saves(i)' <=> Saves(i + 1)
    BY <1>b, <2>1, HandledShift
  <2>3. CASE inbox' = inbox /\ memory' = Validated(outbox[1].configuration)
    <3>1. ASSUME window = "Loaded", state.dirty, ~historyOf.raced PROVE Draft'
      <4>1. Draft
        BY <3>1 DEF DraftInv
      <4>2. Saves(1)
        BY <2>2, <3>1, <4>1 DEF Draft
      <4>3. memory' = Validated(state'.configuration)
        BY <2>1, <2>2, <2>3, <4>1, <4>2 DEF Draft
      <4>4. ~Asked'
        BY <1>h, <2>1, <4>1 DEF Draft
      <4>5. \A k \in 1 .. Len(inbox') : (Saved(k)' <=> Saved(k)) /\ ~Config(k)'
        BY <2>3, <4>1 DEF Saved, Config, Draft
      <4>6. \A i \in 1 .. Len(outbox') : Saves(i)' => outbox'[i].configuration = state'.configuration
        BY <2>1, <2>2, <4>1 DEF Draft
      <4>7. \A k \in 1 .. Len(inbox') : Saved(k)' => inbox'[k].configuration = Validated(state'.configuration)
        BY <2>1, <2>3, <4>1, <4>5 DEF Draft
      <4> QED
        BY <2>1, <4>1, <4>3, <4>4, <4>5, <4>6, <4>7 DEF Draft
    <3> QED
      BY <2>1, <3>1 DEF DraftInv
  <2>4. CASE UNCHANGED <<memory, asker>> /\ Reaches(outbox[1].load, [type |-> "SaveFailed"])
    <3>1. SameNews
      BY <1>b, <2>4, NewsSame, NewsReceived DEF Reaches
    <3>2. \A c \in Calls : Mine(c)' <=> Mine(c)
      BY <2>1, <2>4 DEF Mine
    <3> QED
      BY <1>h, <2>1, <2>4, <3>1, <3>2, DraftKeeps
  <2> QED
    BY <1>4, <1>b, <2>3, <2>4, HandleUpdateEffect
<1>5. CASE SendSnapshot
  <2>1. /\ UNCHANGED <<window, load, state, next, memory, historyOf, outbox>>
        /\ Asked' <=> Asked
        /\ \A c \in Calls : Mine(c)' <=> Mine(c)
    BY <1>5, <1>b, SendSnapshotEffect DEF windowVars, Asked, Gets, Mine
  <2>2. SameNews
    BY <1>5, <1>b, SendSnapshotEffect, NewsSame, NewsReceived DEF Reaches, Snapshot
  <2> QED
    BY <2>1, <2>2, DraftKeeps
<1>6. CASE Render
  <2>1. /\ UNCHANGED <<window, load, next, memory, outbox, inbox, asker>> /\ state' = next
        /\ ~historyOf'.raced => ~historyOf.raced \/ ~next.dirty
    BY <1>6, <1>b, RenderEffect DEF mainVars
  <2>2. ASSUME window' = "Loaded", state'.dirty, ~historyOf'.raced PROVE Draft'
    <3>1. Draft /\ state'.configuration = state.configuration
      BY <2>1, <2>2 DEF DraftInv
    <3> QED
      BY <2>1, <2>2, <3>1 DEF Draft, Asked, Gets, Saves, Mine, Config, Saved
  <2> QED
    BY <2>1, <2>2 DEF DraftInv
<1>7. CASE Edit
  <2>1. /\ UNCHANGED <<window, load, memory, outbox, inbox, asker>> /\ state' = next'
        /\ window = "Loaded" /\ next'.dirty
        /\ ~historyOf'.raced => ~historyOf.raced /\ ~next.busy /\ ~AwaitingGet
    BY <1>7, <1>b, EditEffect DEF mainVars
  <2>2. ASSUME ~historyOf'.raced PROVE Draft'
    <3>1. /\ ~Asked /\ \A k \in 1 .. Len(inbox) : ~Config(k)
      BY <2>1, <2>2 DEF AwaitingGet, Asked, Gets, Config
    <3>2. /\ \A i \in 1 .. Len(outbox) : ~Saves(i)
          /\ \A c \in Calls : ~Mine(c)
          /\ \A k \in 1 .. Len(inbox) : ~Reply(k)
      BY <1>w, <2>1, <2>2 DEF Pipeline
    <3> QED
      BY <2>1, <3>1, <3>2 DEF Draft, Asked, Gets, Saves, Mine, Config, Saved, Reply
  <2> QED
    BY <2>1, <2>2 DEF DraftInv
<1>8. CASE Save
  <2>1. /\ UNCHANGED <<window, load, memory, inbox, asker, historyOf>> /\ state' = next'
        /\ window = "Loaded" /\ state.dirty
        /\ next'.dirty = next.dirty /\ next'.configuration = next.configuration
        /\ Ask([type |-> "Update", load |-> load, configuration |-> state.configuration])
    BY <1>8, <1>b, SaveEffect DEF mainVars
  <2>2. ASSUME state'.dirty, ~historyOf'.raced PROVE Draft'
    <3>1. Draft /\ state'.configuration = state.configuration
      BY <2>1, <2>2 DEF DraftInv
    <3>2. /\ Asked' <=> Asked
          /\ \A i \in 1 .. Len(outbox') :
               \/ i \in 1 .. Len(outbox) /\ outbox'[i] = outbox[i] /\ (Saves(i)' <=> Saves(i))
               \/ outbox'[i] = [type |-> "Update", load |-> load, configuration |-> state.configuration]
      BY <1>b, <2>1, AskShift
    <3>3. \A i \in 1 .. Len(outbox') : Saves(i)' => outbox'[i].configuration = state'.configuration
      BY <3>1, <3>2 DEF Draft
    <3> QED
      BY <2>1, <2>2, <3>1, <3>2, <3>3 DEF Draft, Mine, Config, Saved
  <2> QED
    BY <2>1, <2>2 DEF DraftInv
<1>9. ASSUME Takes
      PROVE  /\ UNCHANGED <<window, load, state, memory, outbox>> /\ UNCHANGED historyOf.raced
             /\ window = "Loaded"
             /\ Asked' <=> Asked
             /\ \A c \in Calls : Mine(c)' <=> Mine(c)
  BY <1>9 DEF Takes, mainVars, Asked, Gets, Mine
<1>10. CASE AcceptSnapshot \/ AcceptSaveFailed
  <2>1. /\ Takes /\ ~Saved(1) /\ ~Config(1)
        /\ next'.dirty = next.dirty /\ next'.configuration = next.configuration
    BY <1>10, <1>b, AcceptSnapshotEffect, AcceptSaveFailedEffect DEF Saved, Config
  <2> QED
    BY <1>b, <1>9, <2>1, NewsTaken, DraftKeeps
<1>11. CASE AcceptConfiguration \/ AcceptSaved
  <2>1. /\ Takes /\ next'.configuration = inbox[1].configuration /\ ~next'.dirty
        /\ Config(1) \/ Saved(1)
    BY <1>11, <1>b, AcceptConfigurationEffect, AcceptSavedEffect DEF Config, Saved
  <2>2. /\ 1 \in 1 .. Len(inbox)
        /\ \A k \in 1 .. Len(inbox') :
             /\ k + 1 \in 1 .. Len(inbox) /\ inbox'[k] = inbox[k + 1]
             /\ Config(k)' <=> Config(k + 1)
             /\ Saved(k)' <=> Saved(k + 1)
    BY <1>b, <2>1, AcceptedShift DEF Takes
  <2>3. ASSUME state'.dirty, ~historyOf'.raced PROVE Draft'
    <3>1. Draft
      BY <1>9, <2>1, <2>3 DEF DraftInv
    <3>2. next'.configuration = Validated(state'.configuration)
      BY <1>9, <2>1, <2>2, <3>1 DEF Draft
    <3>3. /\ \A k \in 1 .. Len(inbox') : ~Config(k)'
          /\ \A k \in 1 .. Len(inbox') : Saved(k)' => inbox'[k].configuration = Validated(state'.configuration)
      BY <1>9, <2>1, <2>2, <3>1 DEF Draft
    <3>4. \A i \in 1 .. Len(outbox') : Saves(i)' => outbox'[i].configuration = state'.configuration
      BY <1>9, <2>1, <3>1 DEF Draft, Saves
    <3> QED
      BY <1>9, <2>1, <3>1, <3>2, <3>3, <3>4 DEF Draft
  <2> QED
    BY <2>1, <2>3 DEF DraftInv
<1>12. ASSUME NEW c \in Calls, FinishUpdate(c) PROVE DraftInv'
  <2>1. /\ UNCHANGED <<window, load, state, next, memory, outbox>> /\ UNCHANGED historyOf.raced
        /\ asker' = [asker EXCEPT ![c] = 0]
    BY <1>12, <1>b, FinishEffect DEF windowVars
  <2>2. (Asked' <=> Asked) /\ \A i \in 1 .. Len(outbox) : Saves(i)' <=> Saves(i)
    BY <2>1 DEF Asked, Gets, Saves
  <2>3. window = "Loaded" => \A d \in Calls : Mine(d)' => Mine(d)
    BY <1>b, <2>1, TypeFacts DEF Mine, LifeInv
  <2>4. ASSUME window = "Loaded", state.dirty, ~historyOf.raced PROVE Draft'
    <3>1. Draft
      BY <2>4 DEF DraftInv
    <3>2. /\ \A k \in 1 .. Len(inbox') : ~Config(k)'
          /\ \A k \in 1 .. Len(inbox') : Saved(k)' => inbox'[k].configuration = Validated(state'.configuration)
      <4>1. CASE inbox' = inbox
        BY <2>1, <3>1, <4>1 DEF Draft, Config, Saved
      <4>2. ASSUME asker[c] = load, NEW r, Receive(r),
                   r = ConfigurationMessage("Saved", memory) \/ r.type = "SaveFailed"
            PROVE  /\ \A k \in 1 .. Len(inbox') : ~Config(k)'
                   /\ \A k \in 1 .. Len(inbox') :
                        Saved(k)' => inbox'[k].configuration = Validated(state'.configuration)
        <5>1. r.type \in {"Saved", "SaveFailed"}
              /\ (r.type = "Saved" => r.configuration = Validated(state'.configuration))
          BY <2>1, <3>1, <4>2 DEF Draft, Mine, ConfigurationMessage
        <5>2. \A k \in 1 .. Len(inbox') :
                \/ k \in 1 .. Len(inbox) /\ inbox'[k] = inbox[k]
                \/ inbox'[k] = r
          BY <1>b, <4>2, ReceiveShift
        <5> QED
          BY <2>1, <3>1, <5>1, <5>2 DEF Draft, Config, Saved
      <4> QED
        BY <1>12, <1>b, <4>1, <4>2, FinishEffect DEF Reaches
    <3>3. \A i \in 1 .. Len(outbox') : Saves(i)' => outbox'[i].configuration = state'.configuration
      BY <2>1, <2>2, <3>1 DEF Draft
    <3>4. \A d \in Calls : Mine(d)' => memory' = Validated(state'.configuration)
      BY <2>1, <2>3, <2>4, <3>1 DEF Draft
    <3> QED
      BY <2>1, <2>2, <3>1, <3>2, <3>3, <3>4 DEF Draft
  <2> QED
    BY <2>1, <2>4 DEF DraftInv
<1>13. CASE UNCHANGED Rest
  <2>1. UNCHANGED <<window, load, state, next, memory, historyOf, inbox, outbox>>
        /\ (Asked' <=> Asked) /\ \A c \in Calls : Mine(c)' <=> Mine(c)
    BY <1>13 DEF Rest, windowVars, mainVars, Asked, Gets, Mine
  <2> QED
    BY <2>1, NewsSame, DraftKeeps
<1> QED
  BY <1>1, <1>2, <1>3, <1>4, <1>5, <1>6, <1>7, <1>8, <1>10, <1>11, <1>12, <1>13 DEF Next, Rest, vars

-----------------------------------------------------------------------------
(* The theorems                                                            *)

SettingsInv ==
  BaseInv /\ AnswerInv /\ MemoryInv /\ ScreenInv /\ DraftInv /\ MediaInv

LEMMA SettingsInvariant == Spec => []SettingsInv
<1>1. Init => SettingsInv
  BY BaseInit, AnswerInit, MemoryInit, ScreenInit, DraftInit, MediaInit DEF SettingsInv
<1>2. SettingsInv /\ [Next]_vars => SettingsInv'
  BY BaseStep, AnswerStep, MemoryStep, ScreenStep, DraftStep, MediaStep DEF SettingsInv
<1> QED
  BY <1>1, <1>2, PTL DEF Spec

\* The types, with requests and messages of the kinds their handlers know.
THEOREM TypeCorrect == Spec => []TypeOK
<1>1. SettingsInv => TypeOK
  BY DEF SettingsInv, BaseInv
<1> QED
  BY <1>1, SettingsInvariant, PTL

\* The next start finds a file it can use, unless writes overlapped; and what
\* the window shows as saved is in the file, unless they did or one was lost.
THEOREM SettingsSurviveHolds == Spec => []SettingsSurvive
<1>1. SettingsInv => SettingsSurvive
  <2> SUFFICES ASSUME SettingsInv PROVE SettingsSurvive
    OBVIOUS
  <2>b. TypeOK /\ LifeInv
    BY DEF SettingsInv, BaseInv
  <2>1. StartsAgain
    BY <2>b DEF LifeInv, StartsAgain
  <2>2. ASSUME window = "Loaded", ~state.dirty, state = next, ~AwaitingGet, ~state.busy,
               ~overlapped, ~historyOf.lost, \A c \in Calls : call[c] = "Idle"
        PROVE  \/ Found = Whole(state.configuration)
               \/ Found.state = "Missing" /\ state.configuration = Default
    <3>1. /\ ~Asked /\ \A k \in 1 .. Len(inbox) : ~Config(k)
      BY <2>2 DEF AwaitingGet, Asked, Gets, Config
    <3>2. Pipeline /\ Screen
      BY <2>2, <3>1 DEF SettingsInv, AnswerInv, ScreenInv
    <3>3. /\ \A c \in Calls : ~Mine(c)
          /\ \A k \in 1 .. Len(inbox) : ~Reply(k)
      BY <2>2, <3>2 DEF Pipeline
    <3>4. Settled
      BY <3>3 DEF Settled, Reply, Saved
    <3>5. state.configuration = memory
      BY <2>2, <3>1, <3>2, <3>4 DEF Screen
    <3>6. application = "Running"
      BY <2>b, <2>2 DEF LifeInv
    <3>7. FileIs(memory)
      BY <2>2, <3>6 DEF SettingsInv, MemoryInv, Pending
    <3> QED
      BY <3>5, <3>7 DEF FileIs
  <2>3. SavedSurvives
    BY <2>2 DEF SavedSurvives
  <2> QED
    BY <2>1, <2>3 DEF SettingsSurvive
<1> QED
  BY <1>1, SettingsInvariant, PTL

\* Once React has rendered, the media session runs for the connection shown,
\* with the configuration shown unless that is a draft, as long as no message
\* was handled while the update of another was not rendered.
THEOREM MediaFollowsStateHolds == Spec => []MediaFollowsState
<1>1. SettingsInv => MediaFollowsState
  BY DEF SettingsInv, MediaInv, MediaFollowsState
<1> QED
  BY <1>1, SettingsInvariant, PTL

\* A draft leaves the screen only by becoming what is saved, unless the user
\* went on editing while an answer was awaited.
THEOREM DraftKeptHolds == Spec => DraftKept
<1> DEFINE Kept == state.dirty /\ ~state'.dirty /\ window' = "Loaded"
                     => state'.configuration = Validated(state.configuration) \/ historyOf.raced
<1>1. SettingsInv /\ [Next]_vars => [Kept]_vars
  <2> SUFFICES ASSUME SettingsInv, Next, state.dirty, ~state'.dirty, window' = "Loaded",
                      ~historyOf.raced
               PROVE  state'.configuration = Validated(state.configuration)
    OBVIOUS
  <2>b. TypeOK /\ LifeInv /\ DraftInv
    BY DEF SettingsInv, BaseInv
  <2>1. window = "Loaded" /\ application = "Running"
    BY <2>b, StateFacts DEF LifeInv
  <2>2. ~next.dirty => next.configuration = Validated(state.configuration)
    BY <2>1, <2>b DEF DraftInv, Draft
  <2>3. CASE Render \/ Edit \/ Save
    BY <2>b, <2>2, <2>3, RenderEffect, EditEffect, SaveEffect
  <2>4. CASE Stop \/ WindowCrashes
    BY <2>b, <2>4, StopEffect, CrashEffect
  <2>5. CASE Start \/ Reload
    BY <2>b, <2>1, <2>5, StartEffect, ReloadEffect
  <2>6. CASE UNCHANGED state
    BY <2>6
  <2>7. HandleGet \/ HandleUpdate \/ SendSnapshot \/ AcceptSnapshot \/ AcceptConfiguration
        \/ AcceptSaved \/ AcceptSaveFailed \/ (\E c \in Calls : FinishUpdate(c)) \/ UNCHANGED Rest
          => UNCHANGED state
    BY <2>b, HandleGetEffect, HandleUpdateEffect, SendSnapshotEffect, AcceptSnapshotEffect,
       AcceptConfigurationEffect, AcceptSavedEffect, AcceptSaveFailedEffect, FinishEffect
       DEF windowVars, Takes, Rest
  <2> QED
    BY <2>3, <2>4, <2>5, <2>6, <2>7 DEF Next
<1> QED
  BY <1>1, SettingsInvariant, PTL DEF Spec, DraftKept
=============================================================================
