---------------------------- MODULE MediaSession ----------------------------
(***************************************************************************)
(* The media session of two connected IStream computers                    *)
(* (src/renderer/src/media/WebRtcMediaSession.ts, driven by App.tsx): the  *)
(* side that shares captures its screen and offers it, the side that views *)
(* answers, and both exchange candidates, until a reversal, a disconnect,  *)
(* an interrupted path or a reloaded window changes the picture.           *)
(*                                                                         *)
(* Each computer has a main process, which appears here only as far as the *)
(* window depends on it, and a window, a record of the private fields of   *)
(* WebRtcMediaSession.  A handler of the window is a function from the     *)
(* window before it to the window after it; what it hands to the main      *)
(* process collects in "out".  An await ends the handler, and its          *)
(* continuation is a handler of its own.                                   *)
(***************************************************************************)
EXTENDS Naturals, Sequences, FiniteSets

CONSTANTS
  Sides,           \* the two computers
  MaxConnections,  \* bound: connections established between the two
  MaxReversals,    \* bound: reversals accepted
  MaxOutages,      \* bound: interruptions of the media path
  MaxSaves,        \* bound: streaming configurations saved
  MaxReloads,      \* bound: windows that crash and are loaded again
  MayFail          \* bound: whether captures and WebRTC operations may fail

ASSUME MediaBoundsAssumption ==
  /\ {MaxConnections, MaxReversals, MaxOutages, MaxSaves, MaxReloads} \subseteq Nat
  /\ MayFail \in BOOLEAN

ASSUME SidesAssumption == \E a, b \in Sides : a # b /\ Sides = {a, b}

Peer(s) == CHOOSE t \in Sides : t # s

VARIABLES
  mainRole,     \* role of each session in the main process, "None" unless connected
  net,          \* what the control connection carries to each side
  down,         \* what the main process of each side has sent to its window
  window,       \* the window of each side
  generations,  \* how many generations have been drawn, each a fresh UUID
  described,    \* history: generations whose description each window handed over
  spent         \* how much of each bound is used up

mediaVars == <<mainRole, net, down, window, generations, described, spent>>

Roles == {"None", "Sharer", "Viewer"}
OppositeRole(r) == IF r = "Viewer" THEN "Sharer" ELSE "Viewer"

(***************************************************************************)
(* Data.  Generations are numbered in the order they are drawn, 0 is null. *)
(* A peer connection is named by the generation it was created for; "by"   *)
(* in an offer names the connection that made it, and the answer repeats   *)
(* it.  A description or candidate is reduced to its generation.  "refused" *)
(* is history: the generations whose description could not be applied.     *)
(***************************************************************************)
Offer(g, b) == [kind |-> "Offer", gen |-> g, by |-> b]
Answer(g, b) == [kind |-> "Answer", gen |-> g, by |-> b]
Candidate(g) == [kind |-> "Candidate", gen |-> g, by |-> 0]

Closed == [open |-> FALSE, born |-> 0, local |-> 0, remote |-> 0, by |-> 0,
           added |-> {}, refused |-> {}, gathering |-> FALSE, tracks |-> FALSE]

\* A window just loaded.  "rtc" holds the pending operations of the open peer
\* connection, which WebRTC chains, "waiting" the pending getDisplayMedia calls,
\* each with whether the connection it was made for is still open, and "leaked"
\* whether a capture runs that #localStream does not refer to.  "accepted" is
\* the connection last handed to setState and "shown" the one in this.state.
Loaded ==
  [role |-> "None", generation |-> 0, pc |-> Closed, announced |-> FALSE,
   local |-> FALSE, leaked |-> FALSE, waiting |-> <<>>, rtc |-> <<>>,
   signals |-> <<>>, candidates |-> {}, locals |-> <<>>, timer |-> FALSE,
   state |-> "Idle", accepted |-> "None", shown |-> "None", out |-> <<>>]

(***************************************************************************)
(* The methods of WebRtcMediaSession.                                      *)
(***************************************************************************)
Fail(w) == [w EXCEPT !.state = "Failed"]

Hand(w, signal) == [w EXCEPT !.out = Append(@, signal)]

\* Operations pending on a closed connection never settle.
ClosePeerConnection(w) ==
  [w EXCEPT !.pc = Closed, !.rtc = <<>>,
            !.waiting = [i \in DOMAIN @ |-> FALSE]]

CreatePeerConnection(w) ==
  [ClosePeerConnection(w) EXCEPT
     !.pc = [Closed EXCEPT !.open = TRUE, !.born = w.generation],
     !.locals = <<>>, !.announced = FALSE]

\* Slip: the restart timer is left running.
StopMediaResourcesButTimer(w) ==
  [ClosePeerConnection(w) EXCEPT
     !.local = FALSE, !.candidates = {}, !.locals = <<>>, !.announced = FALSE]

StopMediaResources(w) ==
  [ClosePeerConnection(w) EXCEPT
     !.timer = FALSE, !.local = FALSE, !.candidates = {}, !.locals = <<>>,
     !.announced = FALSE]

StopSession(w) ==
  IF w.role = "None" /\ ~w.pc.open THEN w
  ELSE [StopMediaResources(w) EXCEPT
          !.role = "None", !.generation = 0, !.signals = <<>>, !.state = "Idle"]

\* startSharing up to the await of getDisplayMedia; g is a fresh generation.
StartSharing(w, g) ==
  [CreatePeerConnection([w EXCEPT !.generation = g]) EXCEPT
     !.state = "Capturing", !.waiting = Append(@, TRUE)]

\* Slip: candidates still count as announced while the next offer is made.
SendOfferAnnounced(w) ==
  [w EXCEPT !.locals = <<>>,
            !.rtc = Append(@, [op |-> "Offer", gen |-> w.generation, by |-> 0])]

\* sendOffer up to the await of createOffer, for the current generation.
SendOffer(w) ==
  [w EXCEPT !.announced = FALSE, !.locals = <<>>,
            !.rtc = Append(@, [op |-> "Offer", gen |-> w.generation, by |-> 0])]

RestartIce(w, g) ==
  SendOffer([w EXCEPT !.timer = FALSE, !.generation = g, !.candidates = {}])

Pending(w, op, signal) ==
  [w EXCEPT !.rtc = Append(@, [op |-> op, gen |-> signal.gen, by |-> signal.by])]

\* Slip: the candidates that wait are kept for the next generation.
ConsumeOfferOnly(w, signal) ==
  IF w.role # "Viewer" THEN w
  ELSE IF w.generation = signal.gen THEN Pending(w, "ApplyOffer", signal)
  ELSE Pending(CreatePeerConnection([w EXCEPT !.generation = signal.gen]),
               "ApplyOffer", signal)

ConsumeOffer(w, signal) ==
  IF w.role # "Viewer" THEN w
  ELSE IF w.generation = signal.gen THEN Pending(w, "ApplyOffer", signal)
  ELSE Pending(CreatePeerConnection([w EXCEPT !.generation = signal.gen,
                                              !.candidates = {}]),
               "ApplyOffer", signal)

\* Slip: signals of any generation are consumed.
OutdatedNever(w, signal) == FALSE

Outdated(w, signal) == signal.gen # w.generation

ConsumeSignal(w, signal) ==
  CASE signal.kind = "Offer" -> ConsumeOffer(w, signal)
    [] signal.kind # "Offer" /\ Outdated(w, signal) -> w
    [] signal.kind = "Answer" /\ ~Outdated(w, signal) ->
         IF w.role = "Sharer" THEN Pending(w, "ApplyAnswer", signal) ELSE w
    [] signal.kind = "Candidate" /\ ~Outdated(w, signal) ->
         IF w.pc.remote = 0
         THEN [w EXCEPT !.candidates = @ \cup {signal.gen}]
         ELSE Pending(w, "AddCandidate", signal)

\* Slip: a candidate that comes before its description is thrown away.
ReceiveSignalInOrder(w, signal) ==
  IF w.role = "None" THEN [w EXCEPT !.signals = Append(@, signal)]
  ELSE IF signal.kind = "Candidate" /\ w.pc.remote = 0 THEN w
  ELSE ConsumeSignal(w, signal)

\* Slip: a window without a role has no use for signals.
ReceiveSignalWithRole(w, signal) ==
  IF w.role = "None" THEN w ELSE ConsumeSignal(w, signal)

ReceiveSignal(w, signal) ==
  IF w.role = "None" THEN [w EXCEPT !.signals = Append(@, signal)]
  ELSE ConsumeSignal(w, signal)

FlushPendingSignals(w) ==
  LET f[i \in 0 .. Len(w.signals)] ==
        IF i = 0 THEN [w EXCEPT !.signals = <<>>]
        ELSE ReceiveSignal(f[i - 1], w.signals[i])
  IN  f[Len(w.signals)]

Synchronize(w, r, g) ==
  LET cleared == [StopMediaResources(w) EXCEPT !.role = r]
  IN  CASE r = "None" -> StopSession(w)
        [] r # "None" /\ r = w.role -> w
        [] r = "Viewer" /\ r # w.role ->
             FlushPendingSignals([CreatePeerConnection(cleared) EXCEPT
                                    !.state = "Negotiating"])
        [] r = "Sharer" /\ r # w.role -> StartSharing(cleared, g)

SendOrQueueLocalSignal(w) ==
  IF w.announced THEN Hand(w, Candidate(w.generation))
  ELSE [w EXCEPT !.locals = Append(@, Candidate(w.generation))]

\* The continuation after a description was sent.
Announced(w) ==
  [w EXCEPT !.announced = TRUE, !.locals = <<>>,
            !.out = @ \o w.locals]

\* sendOffer goes on to the senders and needs the configuration for them, which
\* a stop has taken away.
OfferAnnounced(w) == IF w.role = "None" THEN Fail(Announced(w)) ELSE Announced(w)

\* Slip: the capture goes to whichever connection is open when it arrives.
CapturedByCurrent(w) ==
  LET held == [w EXCEPT !.waiting = Tail(@), !.local = TRUE,
                        !.leaked = @ \/ w.local]
  IN  IF w.pc.open
      THEN SendOffer([held EXCEPT !.pc.tracks = TRUE, !.state = "Negotiating"])
      ELSE Fail(held)

\* The continuation after getDisplayMedia: the capture takes the place of the
\* one before, and addTrack throws when the connection was closed meanwhile.
Captured(w) ==
  LET held == [w EXCEPT !.waiting = Tail(@), !.local = TRUE,
                        !.leaked = @ \/ w.local]
  IN  IF Head(w.waiting)
      THEN SendOffer([held EXCEPT !.pc.tracks = TRUE, !.state = "Negotiating"])
      ELSE Fail(held)

\* The continuations after the operations of the peer connection.
SetRemote(w, op) ==
  [w EXCEPT !.pc.remote = op.gen, !.pc.by = op.by, !.pc.added = w.candidates,
            !.candidates = {}]
Refused(w, op) ==
  IF op.op \in {"ApplyOffer", "ApplyAnswer"}
  THEN [w EXCEPT !.pc.refused = @ \cup {op.gen}] ELSE w
SetLocal(w, g) == [w EXCEPT !.pc.local = g, !.pc.gathering = TRUE]

Settled(w, op) ==
  CASE op.op = "Offer" ->
         Hand(SetLocal(w, op.gen), Offer(op.gen, w.pc.born))
    [] op.op = "ApplyOffer" ->
         Pending([SetRemote(w, op) EXCEPT !.state = "Streaming"], "Answer", op)
    [] op.op = "Answer" ->
         Hand(SetLocal(w, op.gen), Answer(op.gen, op.by))
    [] op.op = "ApplyAnswer" -> SetRemote(w, op)
    [] op.op = "AddCandidate" -> [w EXCEPT !.pc.added = @ \cup {op.gen}]

(***************************************************************************)
(* The main process as the window sees it: it passes signals on while its  *)
(* session is connected and answers every call.  One ordered pipe leads to *)
(* the window; an accepted candidate needs no answer, nobody waits for it. *)
(***************************************************************************)
Snapshot(r) == [kind |-> "Snapshot", role |-> r]
Reply(ok, offer) == [kind |-> "Reply", ok |-> ok, offer |-> offer]
Grant(ok) == [kind |-> "Grant", ok |-> ok]

Describing(out) == {i \in DOMAIN out : out[i].kind \in {"Offer", "Answer"}}

\* One run of a handler hands over at most one description.
Replies(s, out) ==
  IF mainRole[s] = "None" THEN [i \in DOMAIN out |-> Reply(FALSE, out[i].kind = "Offer")]
  ELSE IF Describing(out) = {} THEN <<>>
  ELSE <<Reply(TRUE, \E i \in DOMAIN out : out[i].kind = "Offer")>>

\* What is written without a session, or to a peer that has closed its end, is
\* lost.
Writes(s, messages) ==
  net' = IF "None" \in {mainRole[s], mainRole[Peer(s)]} THEN net
         ELSE [net EXCEPT ![Peer(s)] = @ \o messages]

\* The window of s has become w, after it read what is missing from rest.
Commit(s, w, rest) ==
  /\ window' = [window EXCEPT ![s] = [w EXCEPT !.out = <<>>]]
  /\ down' = [down EXCEPT ![s] = rest \o Replies(s, w.out)]
  /\ Writes(s, w.out)
  /\ described' = [described EXCEPT
       ![s] = @ \cup {w.out[i].gen : i \in Describing(w.out)}]
  /\ generations' = IF w.generation > generations THEN w.generation ELSE generations

Fresh == generations + 1

\* A read of the next message of the given kind.
Reads(s, kind) == down[s] # <<>> /\ Head(down[s]).kind = kind
Does(s, w) == Commit(s, w, Tail(down[s])) /\ UNCHANGED <<mainRole, spent>>

ReadSnapshot(s) ==
  /\ Reads(s, "Snapshot")
  /\ LET r == Head(down[s]).role
     IN  Does(s, Synchronize([window[s] EXCEPT !.accepted = r], r, Fresh))

\* React commits what setState was given within milliseconds, before the other
\* computer or a capture answers; a lag matters while a save is to come.
Rendered(s) == window[s].shown = window[s].accepted \/ spent.saves = MaxSaves

ReadSignal(s) ==
  /\ Reads(s, "Signal")
  /\ Rendered(s)
  /\ Does(s, ReceiveSignal(window[s], Head(down[s]).signal))

ReadReply(s) ==
  /\ Reads(s, "Reply")
  /\ Does(s, IF ~Head(down[s]).ok THEN Fail(window[s])
             ELSE IF Head(down[s]).offer THEN OfferAnnounced(window[s])
             ELSE Announced(window[s]))

ReadGrant(s) ==
  /\ Reads(s, "Grant")
  /\ Rendered(s)
  /\ Does(s, IF Head(down[s]).ok THEN Captured(window[s])
             ELSE Fail([window[s] EXCEPT !.waiting = Tail(@)]))

(***************************************************************************)
(* What else happens in a window.                                          *)
(***************************************************************************)
Acts(s, w) == Commit(s, w, down[s]) /\ UNCHANGED mainRole
Uses(f) == spent' = [spent EXCEPT ![f] = @ + 1]

OperationSettles(s) ==
  /\ window[s].rtc # <<>>
  /\ Acts(s, Settled([window[s] EXCEPT !.rtc = Tail(@)], Head(window[s].rtc)))
  /\ UNCHANGED spent

OperationFails(s) ==
  /\ MayFail
  /\ window[s].rtc # <<>>
  /\ Acts(s, Fail(Refused([window[s] EXCEPT !.rtc = Tail(@)], Head(window[s].rtc))))
  /\ UNCHANGED spent

\* onicecandidate: one candidate stands for all of a description.
GatherCandidate(s) ==
  /\ window[s].pc.gathering
  /\ Acts(s, SendOrQueueLocalSignal([window[s] EXCEPT !.pc.gathering = FALSE]))
  /\ UNCHANGED spent

\* Each connection holds the description the other one made for it.
Matched(s) ==
  LET mine == window[s].pc
      theirs == window[Peer(s)].pc
  IN  /\ mine.local # 0
      /\ {mine.remote, theirs.local, theirs.remote} = {mine.local}
      /\ mine.by \in {mine.born, theirs.born}
      /\ theirs.by = mine.by

\* onconnectionstatechange.
PathConnects(s) ==
  /\ Matched(s)
  /\ window[s].state # "Streaming"
  /\ Acts(s, [window[s] EXCEPT !.state = "Streaming"])
  /\ UNCHANGED spent

PathBreaks(s) ==
  /\ spent.outages < MaxOutages
  /\ window[s].pc.local # 0 /\ window[s].pc.remote # 0
  /\ Acts(s, [window[s] EXCEPT !.state = "Reconnecting",
                               !.timer = @ \/ window[s].role = "Sharer"])
  /\ Uses("outages")

\* The restart timer takes 1.5 s, by then all that was pending is done.
RestartTimeout(s) ==
  /\ window[s].timer
  /\ window[s].rtc = <<>>
  /\ down[s] = <<>>
  /\ Acts(s, RestartIce(window[s], Fresh))
  /\ UNCHANGED spent

\* React commits the state in a task of its own, some time after setState.
Render(s) ==
  /\ ~Rendered(s)
  /\ Acts(s, [window[s] EXCEPT !.shown = window[s].accepted])
  /\ UNCHANGED spent

\* The continuation after a configuration was saved or first read.
SaveConfiguration(s) ==
  /\ spent.saves < MaxSaves
  /\ Acts(s, Synchronize(window[s], window[s].shown, Fresh))
  /\ Uses("saves")

\* The window crashed and was loaded again; the captures ended with it.
ReloadWindow(s) ==
  /\ spent.reloads < MaxReloads
  /\ Commit(s, Loaded, <<>>)
  /\ Uses("reloads")
  /\ UNCHANGED mainRole

(***************************************************************************)
(* What the main process does (PeerSession.tla has its protocol).          *)
(***************************************************************************)
Tells(s, messages) == down' = [down EXCEPT ![s] = @ \o messages]

\* Both ends become connected, after snapshots of the earlier phases.
Connect(sharer) ==
  /\ spent.connections < MaxConnections
  /\ \A s \in Sides : mainRole[s] = "None" /\ net[s] = <<>>
  /\ mainRole' = [s \in Sides |-> IF s = sharer THEN "Sharer" ELSE "Viewer"]
  /\ down' = [s \in Sides |-> down[s] \o <<Snapshot("None"), Snapshot(mainRole'[s])>>]
  /\ Uses("connections")
  /\ UNCHANGED <<net, window, generations, described>>

Disconnect(s) ==
  /\ mainRole[s] # "None"
  /\ mainRole' = [mainRole EXCEPT ![s] = "None"]
  /\ net' = [net EXCEPT ![s] = <<>>, ![Peer(s)] =
                IF mainRole[Peer(s)] = "None" THEN @ ELSE Append(@, [kind |-> "Close"])]
  /\ Tells(s, <<Snapshot("None")>>)
  /\ UNCHANGED <<window, generations, described, spent>>

Toggle(s) ==
  /\ mainRole' = [mainRole EXCEPT ![s] = OppositeRole(@)]
  /\ Tells(s, <<Snapshot(mainRole'[s])>>)

\* The user of s grants a reversal; a peer awaits one decision at a time.
AcceptReversal(s) ==
  /\ spent.reversals < MaxReversals
  /\ mainRole[s] # "None"
  /\ \A i \in DOMAIN net[Peer(s)] : net[Peer(s)][i].kind \notin {"Decision", "Close"}
  /\ Toggle(s)
  /\ Writes(s, <<[kind |-> "Decision"]>>)
  /\ Uses("reversals")
  /\ UNCHANGED <<window, generations, described>>

\* A message of the control connection; a closed session reads none.
Arrives(s) ==
  /\ mainRole[s] # "None"
  /\ net[s] # <<>>
  /\ net' = [net EXCEPT ![s] = Tail(@)]
  /\ UNCHANGED <<window, generations, described, spent>>

HandleReversalDecision(s) ==
  /\ Arrives(s)
  /\ Head(net[s]).kind = "Decision"
  /\ Toggle(s)

HandleMediaSignal(s) ==
  /\ Arrives(s)
  /\ Head(net[s]).kind \in {"Offer", "Answer", "Candidate"}
  /\ Tells(s, <<[kind |-> "Signal", signal |-> Head(net[s])]>>)
  /\ UNCHANGED mainRole

HandleClose(s) ==
  /\ Arrives(s)
  /\ Head(net[s]).kind = "Close"
  /\ mainRole' = [mainRole EXCEPT ![s] = "None"]
  /\ Tells(s, <<Snapshot("None")>>)

\* The other events a snapshot is published for: a pong, a peer discovered;
\* also the answer to the getSnapshot of a loaded window.
PublishSnapshot(s) ==
  /\ down[s] = <<>>
  /\ window[s].accepted # mainRole[s] \/ window[s].role # mainRole[s]
  /\ Tells(s, <<Snapshot(mainRole[s])>>)
  /\ UNCHANGED <<mainRole, net, window, generations, described, spent>>

Grants(posts) == {i \in DOMAIN posts : posts[i].kind = "Grant"}

GrantCapture(s, ok) ==
  /\ Cardinality(Grants(down[s])) < Len(window[s].waiting)
  /\ Tells(s, <<Grant(ok)>>)
  /\ UNCHANGED <<mainRole, net, window, generations, described, spent>>

MediaInit ==
  /\ mainRole = [s \in Sides |-> "None"]
  /\ net = [s \in Sides |-> <<>>]
  /\ down = [s \in Sides |-> <<>>]
  /\ window = [s \in Sides |-> Loaded]
  /\ generations = 0
  /\ described = [s \in Sides |-> {}]
  /\ spent = [f \in {"connections", "reversals", "outages", "saves", "reloads"} |-> 0]

Reading(s) == ReadSnapshot(s) \/ ReadSignal(s) \/ ReadReply(s) \/ ReadGrant(s)
Handling(s) == HandleReversalDecision(s) \/ HandleMediaSignal(s) \/ HandleClose(s)

MediaNext ==
  \E s \in Sides :
    \/ Reading(s) \/ Handling(s)
    \/ OperationSettles(s) \/ OperationFails(s) \/ GatherCandidate(s)
    \/ PathConnects(s) \/ PathBreaks(s) \/ RestartTimeout(s)
    \/ Render(s) \/ SaveConfiguration(s) \/ ReloadWindow(s)
    \/ Connect(s) \/ Disconnect(s) \/ AcceptReversal(s) \/ PublishSnapshot(s)
    \/ GrantCapture(s, TRUE) \/ (MayFail /\ GrantCapture(s, FALSE))

MediaSpec == MediaInit /\ [][MediaNext]_mediaVars

\* The event loops, the control connection and WebRTC get on with what they
\* have begun; users, failures, outages and crashes are not bound to happen.
Fairness ==
  \A s \in Sides :
    /\ WF_mediaVars(Reading(s)) /\ WF_mediaVars(Handling(s))
    /\ WF_mediaVars(OperationSettles(s)) /\ WF_mediaVars(GatherCandidate(s))
    /\ WF_mediaVars(RestartTimeout(s)) /\ WF_mediaVars(Render(s))
    /\ WF_mediaVars(PublishSnapshot(s)) /\ WF_mediaVars(GrantCapture(s, TRUE))

FairSpec == MediaSpec /\ Fairness

(***************************************************************************)
(* Properties.                                                             *)
(***************************************************************************)
Signals == [kind : {"Offer", "Answer", "Candidate"}, gen : Nat, by : Nat]
Operations ==
  [op : {"Offer", "ApplyOffer", "Answer", "ApplyAnswer", "AddCandidate"},
   gen : Nat, by : Nat]
Connections ==
  [open : BOOLEAN, born : Nat, local : Nat, remote : Nat, by : Nat,
   added : SUBSET Nat, refused : SUBSET Nat, gathering : BOOLEAN, tracks : BOOLEAN]
States == {"Idle", "Capturing", "Negotiating", "Streaming", "Reconnecting", "Failed"}
Windows ==
  [role : Roles, generation : Nat, pc : Connections, announced : BOOLEAN,
   local : BOOLEAN, leaked : BOOLEAN, waiting : Seq(BOOLEAN), rtc : Seq(Operations),
   signals : Seq(Signals), candidates : SUBSET Nat, locals : Seq(Signals),
   timer : BOOLEAN, state : States, accepted : Roles, shown : Roles, out : {<<>>}]
Posts ==
  [kind : {"Snapshot"}, role : Roles] \cup [kind : {"Grant"}, ok : BOOLEAN]
    \cup [kind : {"Reply"}, ok : BOOLEAN, offer : BOOLEAN]
    \cup [kind : {"Signal"}, signal : Signals]

\* Every variable has its type.
MediaTypeOK ==
  /\ mainRole \in [Sides -> Roles]
  /\ net \in [Sides -> Seq(Signals \cup [kind : {"Decision", "Close"}])]
  /\ down \in [Sides -> Seq(Posts)]
  /\ window \in [Sides -> Windows]
  /\ generations \in Nat
  /\ described \in [Sides -> SUBSET Nat]
  /\ spent \in [{"connections", "reversals", "outages", "saves", "reloads"} -> Nat]

\* The answer a sharing side applies was given to an offer of the very peer
\* connection it is applied to, whatever connections, reversals and restarts
\* have come between (the generation check of consumeSignal, line 185).
AnswersOwnOffer ==
  \A s \in Sides :
    LET w == window[s]
    IN  w.role = "Sharer" /\ w.pc.remote # 0 =>
          w.pc.by = w.pc.born /\ w.pc.remote <= w.pc.local

\* No candidate reaches a peer connection before the remote description it
\* belongs to, or after another one took its place (pendingCandidates, the
\* generation checks and the order in which the other side sends).  A window
\* that could not apply the answer to a restart keeps the description of before
\* it and goes on adding candidates (lines 198-202).
CandidatesMatch ==
  \A s \in Sides :
    LET pc == window[s].pc
    IN  pc.added \ pc.refused \subseteq {pc.remote}

\* A candidate is never sent ahead of the description of its generation: the
\* other side would throw it away (#localDescriptionAnnounced,
\* #pendingLocalSignals, lines 235-245 and 274-280).  A description that found
\* no session counts as sent.
DescribedFirst ==
  \A s \in Sides : \A i \in DOMAIN net[Peer(s)] :
    LET m == net[Peer(s)][i]
    IN  m.kind = "Candidate" => m.gen \in described[s]

\* Whatever is under way when a window is loaded again or an operation fails,
\* descriptions and candidates of different generations are never mixed.
SignalsInOrder == AnswersOwnOffer /\ CandidatesMatch /\ DescribedFirst

\* A peer connection carries a capture only while its window has the role of
\* the sharer, although getDisplayMedia may resolve under another role.
OnlySharersSend ==
  \A s \in Sides : window[s].pc.tracks => window[s].role = "Sharer"

\* A restart timer never outlives the connection and the role it was set for:
\* what it would restart is the connection of another session (lines 320-325
\* and stopMediaResources).
RestartsOwnConnection ==
  \A s \in Sides :
    LET w == window[s]
    IN  w.timer => w.role = "Sharer" /\ w.pc.open /\ w.pc.remote # 0

\* "Direction reversal tears down the old media role"
\* (docs/implementation-baseline.md:39): a viewer captures nothing.  The code does
\* not keep this: a capture may be granted after the reversal.
OldRoleTornDown ==
  \A s \in Sides : window[s].role = "Viewer" => ~window[s].local /\ ~window[s].leaked

\* The connection of s has the candidates of the description it applied.
Joined(s) == Matched(s) /\ window[s].pc.added # {}

\* Two connected computers end up with matching descriptions and each other's
\* candidates, unless a window reports a failure: "streaming starts
\* automatically" (README.md:79), also after reversals and interruptions.
MediaSettles ==
  []<>(\/ \E s \in Sides : mainRole[s] = "None" \/ window[s].state = "Failed"
       \/ \A s \in Sides : Joined(s))
=============================================================================
