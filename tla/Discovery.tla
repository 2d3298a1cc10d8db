----------------------------- MODULE Discovery -----------------------------
(***************************************************************************)
(* How computers find each other (DiscoveryService.ts): each one that runs *)
(* sends a beacon by UDP multicast every two seconds, lists whom it hears, *)
(* and drops who was not heard for seven seconds.  A refresh empties the   *)
(* list and asks everybody to answer at once, which each does only so      *)
(* often.                                                                  *)
(*                                                                         *)
(* Time passes in ticks; a tick waits for the timers that are due and for  *)
(* the datagrams that have been under way for MaxDelay, which is all that  *)
(* is assumed of the network besides a bounded number of losses.  Instants *)
(* such as lastSeenAt are kept as ticks that have passed since.            *)
(* A refresh while the socket is still being bound, which is sent with the *)
(* first beacon, is left out, and so are datagrams that arrive twice.      *)
(***************************************************************************)
EXTENDS Naturals, FiniteSets

CONSTANTS
  Computers,
  BeaconInterval,  \* beaconIntervalMs, the period of both timers
  PeerExpiry,      \* peerExpiryMs
  ProbeInterval,   \* time between answers to probes
  MaxDelay,        \* ticks a datagram may be under way
  MaxEvents        \* bound: starts, refreshes and lost datagrams together

ASSUME TimesAssumption ==
  /\ {BeaconInterval, ProbeInterval} \subseteq Nat \ {0}
  /\ {PeerExpiry, MaxDelay} \subseteq Nat

ASSUME BoundsAssumption == MaxEvents \in Nat

VARIABLES
  state,     \* whether each computer has a bound socket
  port,      \* #controlPort, another one at each start
  timer,     \* ticks until beacon and expiry timer fire, set at the same time
  peers,     \* #peers: the port listed for each computer, 0 if it is not listed
  seen,      \* ticks since lastSeenAt
  answered,  \* ticks since #lastProbeResponseAt, no more than are told apart
  air,       \* datagrams under way, one for each receiver
  since,     \* history: ticks since each computer began to run or ceased to
  missing,   \* history: ticks m has been missing at n, with nothing lost
  lost,      \* history: beacons of m to n lost in a row, while both run
  asked,     \* history: who has to answer the last refresh of n at once
  used       \* how much of the bound is used up

serviceVars == <<state, port, timer, peers, seen, answered>>
historyVars == <<since, missing, lost, asked>>
vars == <<serviceVars, air, historyVars, used>>

Running(n) == state[n] = "Running"
Listed(n, m) == peers[n][m] # 0
Nobody == [m \in Computers |-> 0]

\* Longer times are not told apart.
Horizon == PeerExpiry + BeaconInterval + MaxDelay + 1
Later(t, horizon) == IF t < horizon THEN t + 1 ELSE t

(***************************************************************************)
(* Datagrams.  The multicast loopback also brings a computer its own, which *)
(* handleMessage drops; they are never put under way.                      *)
(***************************************************************************)
Multicast(n, kind) ==
  {[kind |-> kind, from |-> n, to |-> m, port |-> port[n], age |-> 0] :
     m \in Computers \ {n}}

Beacon(n) == Multicast(n, "Beacon")
Probe(n) == Multicast(n, "Probe")

(***************************************************************************)
(* Start and end of the service.                                           *)
(***************************************************************************)
\* start, up to the await of bind, in a new process.
Start(n) ==
  /\ state[n] = "Stopped"
  /\ used < MaxEvents
  /\ state' = [state EXCEPT ![n] = "Binding"]
  /\ port' = [port EXCEPT ![n] = @ + 1]
  /\ answered' = [answered EXCEPT ![n] = ProbeInterval]
  /\ used' = used + 1
  /\ UNCHANGED <<timer, peers, seen, air, historyVars>>

\* The rest of start.
Bound(n) ==
  /\ state[n] = "Binding"
  /\ state' = [state EXCEPT ![n] = "Running"]
  /\ timer' = [timer EXCEPT ![n] = BeaconInterval]
  /\ air' = air \cup Beacon(n)
  /\ since' = [since EXCEPT ![n] = 0]
  /\ UNCHANGED <<port, peers, seen, answered, missing, lost, asked, used>>

Forget(f, n) ==
  [k \in Computers |-> IF k = n THEN Nobody ELSE [f[k] EXCEPT ![n] = 0]]

\* stop, also when the socket or its bind reports an error, or the process ends.
Stop(n) ==
  /\ state[n] # "Stopped"
  /\ state' = [state EXCEPT ![n] = "Stopped"]
  /\ timer' = [timer EXCEPT ![n] = 0]
  /\ peers' = [peers EXCEPT ![n] = Nobody]
  /\ seen' = [seen EXCEPT ![n] = Nobody]
  /\ since' = [since EXCEPT ![n] = IF Running(n) THEN 0 ELSE @]
  /\ missing' = Forget(missing, n)
  /\ lost' = Forget(lost, n)
  /\ asked' = [k \in Computers |-> IF k = n THEN {} ELSE asked[k] \ {n}]
  /\ UNCHANGED <<port, answered, air, used>>

(***************************************************************************)
(* The timers and the user.                                                *)
(***************************************************************************)
\* Slip: once everybody is known, nothing is sent.
BeaconUntilFound(n) == IF \E m \in Computers : Listed(n, m) THEN {} ELSE Beacon(n)

PeriodicBeacon(n) == Beacon(n)

\* Slip: only who never sent a second beacon expires.
ExpiredNever(n, m) == FALSE

Expired(n, m) == seen[n][m] > PeerExpiry

\* sendBeacon and expirePeers, whose timers are set together and fire in turn.
IntervalFires(n) ==
  LET dropped == {m \in Computers : Listed(n, m) /\ Expired(n, m)}
      Without(f) == [m \in Computers |-> IF m \in dropped THEN 0 ELSE f[m]]
  IN  /\ Running(n) /\ timer[n] = 0
      /\ timer' = [timer EXCEPT ![n] = BeaconInterval]
      /\ air' = air \cup PeriodicBeacon(n)
      /\ peers' = [peers EXCEPT ![n] = Without(@)]
      /\ seen' = [seen EXCEPT ![n] = Without(@)]
      /\ UNCHANGED <<state, port, answered, historyVars, used>>

\* Slip: the user only gets an empty list, and a beacon is sent.
RefreshWithoutProbe(n) == Beacon(n)

RefreshSends(n) == Beacon(n) \cup Probe(n)

Refresh(n) ==
  /\ used < MaxEvents
  /\ Running(n)
  /\ peers' = [peers EXCEPT ![n] = Nobody]
  /\ seen' = [seen EXCEPT ![n] = Nobody]
  /\ air' = air \cup RefreshSends(n)
  /\ missing' = [missing EXCEPT ![n] = Nobody]
  /\ asked' = [asked EXCEPT ![n] = {m \in Computers \ {n} : Running(m)}]
  /\ used' = used + 1
  /\ UNCHANGED <<state, port, timer, answered, since, lost>>

(***************************************************************************)
(* handleMessage.                                                          *)
(***************************************************************************)
\* Slip: a known peer is kept as it was first seen.
DescriptorOnce(d) ==
  IF Listed(d.to, d.from) THEN peers[d.to][d.from] ELSE d.port

Descriptor(d) == d.port

\* Slip: lastSeenAt is the time a peer was listed.
SeenOnce(d) == IF Listed(d.to, d.from) THEN seen[d.to][d.from] ELSE 0

\* lastSeenAt is set whenever a beacon comes.
SeenNow(d) == 0

ReceiveBeacon(d) ==
  /\ d.kind = "Beacon"
  /\ peers' = [peers EXCEPT ![d.to][d.from] = Descriptor(d)]
  /\ seen' = [seen EXCEPT ![d.to][d.from] = SeenNow(d)]
  /\ air' = air \ {d}
  /\ missing' = [missing EXCEPT ![d.to][d.from] = 0]
  /\ lost' = [lost EXCEPT ![d.to][d.from] = 0]
  /\ asked' = [asked EXCEPT ![d.to] = @ \ {d.from}]
  /\ UNCHANGED answered

\* Probes are answered to everybody, once in ProbeInterval.
ReceiveProbe(d) ==
  LET throttled == answered[d.to] < ProbeInterval
  IN  /\ d.kind = "Probe"
      /\ air' = (air \ {d}) \cup (IF throttled THEN {} ELSE Beacon(d.to))
      /\ answered' = IF throttled THEN answered ELSE [answered EXCEPT ![d.to] = 0]
      /\ asked' = IF throttled
                  THEN [asked EXCEPT ![d.from] = @ \ {d.to}] ELSE asked
      /\ UNCHANGED <<peers, seen, missing, lost>>

Receive(d) ==
  /\ d \in air
  /\ Running(d.to)
  /\ ReceiveBeacon(d) \/ ReceiveProbe(d)
  /\ UNCHANGED <<state, port, timer, since, used>>

(***************************************************************************)
(* The network and the clock.                                              *)
(***************************************************************************)
\* Nobody receives what comes to a closed socket.
Miss(d) ==
  /\ d \in air
  /\ ~Running(d.to)
  /\ air' = air \ {d}
  /\ UNCHANGED <<serviceVars, historyVars, used>>

Lose(d) ==
  /\ used < MaxEvents
  /\ d \in air
  /\ Running(d.to)
  /\ air' = air \ {d}
  /\ used' = used + 1
  /\ asked' = [asked EXCEPT ![d.to] = @ \ {d.from}, ![d.from] = @ \ {d.to}]
  /\ IF d.kind = "Beacon"
     THEN /\ lost' = [lost EXCEPT ![d.to][d.from] = @ + 1]
          /\ missing' = [missing EXCEPT ![d.to][d.from] = 0]
     ELSE UNCHANGED <<lost, missing>>
  /\ UNCHANGED <<serviceVars, since>>

Tick ==
  /\ \A n \in Computers : Running(n) => timer[n] > 0
  /\ \A d \in air : d.age < MaxDelay
  /\ timer' = [n \in Computers |-> IF Running(n) THEN timer[n] - 1 ELSE 0]
  /\ seen' = [n \in Computers |-> [m \in Computers |->
                IF Listed(n, m) THEN seen[n][m] + 1 ELSE 0]]
  /\ answered' = [n \in Computers |-> Later(answered[n], ProbeInterval)]
  /\ air' = {[d EXCEPT !.age = @ + 1] : d \in air}
  /\ since' = [n \in Computers |->
       Later(since[n], IF Running(n) THEN PeerExpiry + 1 ELSE Horizon)]
  /\ missing' = [n \in Computers |-> [m \in Computers |->
       IF n # m /\ Running(n) /\ Running(m) /\ ~Listed(n, m)
       THEN Later(missing[n][m], BeaconInterval + MaxDelay + 1) ELSE 0]]
  /\ UNCHANGED <<state, port, peers, lost, asked, used>>

Init ==
  /\ state = [n \in Computers |-> "Stopped"]
  /\ port = [n \in Computers |-> 0]
  /\ timer = [n \in Computers |-> 0]
  /\ peers = [n \in Computers |-> Nobody]
  /\ seen = [n \in Computers |-> Nobody]
  /\ answered = [n \in Computers |-> ProbeInterval]
  /\ air = {}
  /\ since = [n \in Computers |-> Horizon]
  /\ missing = [n \in Computers |-> Nobody]
  /\ lost = [n \in Computers |-> Nobody]
  /\ asked = [n \in Computers |-> {}]
  /\ used = 0

Arrival(d) == Receive(d) \/ Miss(d)

Next ==
  \/ \E n \in Computers :
       Start(n) \/ Bound(n) \/ Stop(n) \/ IntervalFires(n) \/ Refresh(n)
  \/ \E d \in air : Arrival(d) \/ Lose(d)
  \/ Tick

Spec == Init /\ [][Next]_vars

-----------------------------------------------------------------------------
(* Properties                                                              *)

Datagrams ==
  [kind : {"Beacon", "Probe"}, from : Computers, to : Computers,
   port : 1 .. MaxEvents, age : 0 .. MaxDelay]

\* Every variable has its type; no peer is kept longer than one period beyond
\* its expiry.
TypeOK ==
  /\ state \in [Computers -> {"Stopped", "Binding", "Running"}]
  /\ port \in [Computers -> 0 .. MaxEvents]
  /\ timer \in [Computers -> 0 .. BeaconInterval]
  /\ peers \in [Computers -> [Computers -> 0 .. MaxEvents]]
  /\ seen \in [Computers -> [Computers -> 0 .. PeerExpiry + BeaconInterval]]
  /\ answered \in [Computers -> 0 .. ProbeInterval]
  /\ air \subseteq Datagrams
  /\ since \in [Computers -> 0 .. Horizon]
  /\ missing \in [Computers -> [Computers -> 0 .. BeaconInterval + MaxDelay + 1]]
  /\ lost \in [Computers -> [Computers -> 0 .. MaxEvents]]
  /\ asked \in [Computers -> SUBSET Computers]
  /\ used \in 0 .. MaxEvents

\* "Seven-second offline expiry" (README.md:8): a computer that does not run is
\* listed nowhere once the expiry, one period of the timer that looks and the
\* delay of its last beacon have passed, whatever crossed its end.
OfflineForgotten ==
  \A n, m \in Computers :
    Listed(n, m) /\ ~Running(m) => since[m] < Horizon

\* A computer that runs is found within one period and the delay of a beacon,
\* counted from its start, from the start of the one that looks, from a refresh
\* or from the last beacon lost, although probes may go unanswered.
FoundByBeacon ==
  \A n, m \in Computers : missing[n][m] <= BeaconInterval + MaxDelay

\* A refresh asks "an immediate multicast probe" (docs/implementation-baseline.md:16):
\* whoever runs is listed again as soon as a probe and its answer can have come,
\* unless one of them was lost or the probe met the throttle.
FoundByProbe ==
  \A n \in Computers : \A m \in asked[n] : missing[n][m] <= 2 * MaxDelay

\* The two ways in which a peer is found, with the throttle between them.
FoundInTime == FoundByBeacon /\ FoundByProbe

\* The list leads to the port of the last start, although beacons of earlier
\* starts may still be under way and overtake newer ones.
PortCurrent ==
  \A n, m \in Computers :
    Running(m) /\ since[m] > BeaconInterval + MaxDelay /\ lost[n][m] = 0 =>
      peers[n][m] \in {0, port[m]}

\* The expiry drops nobody who has run all the time, until as many beacons in a
\* row are lost as can be due before it: three, with the times of the program.
PeersStay ==
  [][\A n, m \in Computers :
       IntervalFires(n) /\ Listed(n, m) /\ peers'[n][m] = 0 =>
         lost[n][m] >= (PeerExpiry - MaxDelay) \div BeaconInterval \/ ~Running(m) \/ since[m] <= PeerExpiry]_vars
=============================================================================
