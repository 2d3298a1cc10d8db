--------------------------- MODULE DiscoveryProofs ---------------------------
(***************************************************************************)
(* What holds of discovery for any number of computers, any times and any  *)
(* number of starts, refreshes and losses: who has gone is forgotten, who  *)
(* runs is found in time, the port listed is that of the last start, and   *)
(* nobody who runs is dropped but after a row of losses.                   *)
(*                                                                         *)
(* Each of these is about ages: how long ago something was sent, heard or  *)
(* begun.  A tick makes them all older alike; the invariants say which age *)
(* bounds which other one.                                                 *)
(*                                                                         *)
(* The second half is about media sessions, for any bounds: types, who     *)
(* sends, whose connection is restarted, and that descriptions and         *)
(* candidates of different generations are never mixed.  First come the    *)
(* handlers of one window, then what is on the way to a window, the        *)
(* inductive invariant MediaInv, and the steps of windows and of the main  *)
(* processes.                                                              *)
(***************************************************************************)
EXTENDS Discovery, MediaSession, Integers, FiniteSetTheorems, WellFoundedInduction, TLAPS

LEMMA Constants ==
  /\ BeaconInterval \in Nat /\ BeaconInterval > 0
  /\ ProbeInterval \in Nat /\ ProbeInterval > 0
  /\ PeerExpiry \in Nat /\ MaxDelay \in Nat /\ MaxEvents \in Nat
  /\ Horizon = PeerExpiry + BeaconInterval + MaxDelay + 1
BY TimesAssumption, BoundsAssumption DEF Horizon

-----------------------------------------------------------------------------
(* Datagrams                                                               *)

\* A multicast reaches everybody else, at age zero and with the current port.
LEMMA Sent ==
  ASSUME NEW n \in Computers, NEW kind
  PROVE  /\ \A d \in Multicast(n, kind) :
              /\ d.kind = kind /\ d.from = n /\ d.to \in Computers /\ d.to # n
              /\ d.port = port[n] /\ d.age = 0
         /\ kind \in {"Beacon", "Probe"} /\ port[n] \in 1 .. MaxEvents =>
              Multicast(n, kind) \subseteq Datagrams
         /\ \A m \in Computers : m # n => \E d \in Multicast(n, kind) : d.to = m
<1> DEFINE D(m) == [kind |-> kind, from |-> n, to |-> m, port |-> port[n], age |-> 0]
<1>1. \A m : /\ D(m).kind = kind /\ D(m).from = n /\ D(m).to = m
             /\ D(m).port = port[n] /\ D(m).age = 0
  OBVIOUS
<1>2. kind \in {"Beacon", "Probe"} /\ port[n] \in 1 .. MaxEvents =>
        \A m \in Computers : D(m) \in Datagrams
  BY Constants DEF Datagrams
<1>3. Multicast(n, kind) = {D(m) : m \in Computers \ {n}}
  BY DEF Multicast
<1> HIDE DEF D
<1> QED
  BY <1>1, <1>2, <1>3

\* A datagram a tick later.
Aged(d) == [d EXCEPT !.age = @ + 1]

LEMMA AgedFields ==
  ASSUME NEW d \in Datagrams
  PROVE  /\ Aged(d).kind = d.kind /\ Aged(d).from = d.from /\ Aged(d).to = d.to
         /\ Aged(d).port = d.port /\ Aged(d).age = d.age + 1
         /\ d.age < MaxDelay => Aged(d) \in Datagrams
BY Constants DEF Datagrams, Aged

LEMMA Fields ==
  ASSUME NEW d \in Datagrams
  PROVE  /\ d.kind \in {"Beacon", "Probe"} /\ d.from \in Computers /\ d.to \in Computers
         /\ d.port \in Nat /\ 1 <= d.port /\ d.port <= MaxEvents
         /\ d.age \in Nat /\ d.age <= MaxDelay
BY Constants DEF Datagrams

-----------------------------------------------------------------------------
(* Types                                                                   *)

\* Ports and losses are counted against the bound, only a computer that runs
\* lists others, and nobody is listed longer than until the timer after the
\* expiry.
BaseInv ==
  /\ TypeOK
  /\ \A n \in Computers : port[n] <= used /\ (state[n] # "Stopped" => port[n] >= 1)
  /\ \A n, m \in Computers : lost[n][m] <= used
  /\ \A n, m \in Computers :
       Listed(n, m) =>
         n # m /\ Running(n) /\ seen[n][m] + timer[n] <= PeerExpiry + BeaconInterval
  /\ \A d \in air : d.from # d.to

\* Whoever runs puts datagrams under way.
LEMMA SentTypes ==
  ASSUME BaseInv, NEW n \in Computers, state[n] # "Stopped", NEW kind \in {"Beacon", "Probe"}
  PROVE  Multicast(n, kind) \subseteq Datagrams /\ \A d \in Multicast(n, kind) : d.from # d.to
<1>1. port[n] \in 1 .. MaxEvents
  BY Constants DEF BaseInv, TypeOK
<1> QED
  BY <1>1, Sent

LEMMA BaseInit == Init => BaseInv
BY Constants DEF Init, BaseInv, TypeOK, Nobody, Listed, Running, Horizon

LEMMA BaseStart ==
  ASSUME BaseInv, NEW n \in Computers, Start(n)
  PROVE  BaseInv'
BY Constants DEF BaseInv, TypeOK, Start, Listed, Running, serviceVars, historyVars, Datagrams

LEMMA BaseBound ==
  ASSUME BaseInv, NEW n \in Computers, Bound(n)
  PROVE  BaseInv'
<1>1. Beacon(n) \subseteq Datagrams /\ \A d \in Beacon(n) : d.from # d.to
  BY SentTypes DEF Beacon, Bound
<1>2. air' \subseteq Datagrams' /\ \A d \in air' : d.from # d.to
  BY <1>1 DEF Bound, BaseInv, TypeOK, Datagrams
<1> QED
  BY <1>2, Constants DEF BaseInv, TypeOK, Bound, Listed, Running, Horizon

LEMMA BaseStop ==
  ASSUME BaseInv, NEW n \in Computers, Stop(n)
  PROVE  BaseInv'
BY Constants DEF BaseInv, TypeOK, Stop, Listed, Running, Nobody, Forget, Datagrams, Horizon

\* What firing timers do to the lists.
LEMMA FiresPeers ==
  ASSUME BaseInv, NEW n \in Computers, IntervalFires(n)
  PROVE  /\ peers' \in [Computers -> [Computers -> 0 .. MaxEvents]]
         /\ seen' \in [Computers -> [Computers -> 0 .. PeerExpiry + BeaconInterval]]
         /\ \A k, m \in Computers :
              \/ peers'[k][m] = peers[k][m] /\ seen'[k][m] = seen[k][m]
              \/ k = n /\ Listed(n, m) /\ seen[n][m] > PeerExpiry /\ peers'[k][m] = 0
         /\ \A m \in Computers : peers'[n][m] # 0 => seen'[n][m] <= PeerExpiry
BY Constants DEF BaseInv, TypeOK, IntervalFires, Listed, Expired

LEMMA BaseFires ==
  ASSUME BaseInv, NEW n \in Computers, IntervalFires(n)
  PROVE  BaseInv'
<1>1. Beacon(n) \subseteq Datagrams /\ \A d \in Beacon(n) : d.from # d.to
  BY SentTypes DEF Beacon, IntervalFires, Running
<1>2. air' = air \cup Beacon(n) /\ timer' = [timer EXCEPT ![n] = BeaconInterval]
  BY DEF IntervalFires, PeriodicBeacon
<1>3. UNCHANGED <<state, port, answered, since, missing, lost, asked, used>> /\ Running(n)
  BY DEF IntervalFires, historyVars
<1>4. TypeOK'
  BY <1>1, <1>2, <1>3, FiresPeers, Constants DEF BaseInv, TypeOK, Datagrams
<1>5. \A d \in air' : d.from # d.to
  BY <1>1, <1>2 DEF BaseInv
<1>6. \A k, m \in Computers : peers'[k][m] # 0 =>
        k # m /\ state'[k] = "Running" /\ seen'[k][m] + timer'[k] <= PeerExpiry + BeaconInterval
  BY <1>2, <1>3, FiresPeers, Constants DEF BaseInv, TypeOK, Listed, Running
<1> QED
  BY <1>3, <1>4, <1>5, <1>6 DEF BaseInv, Listed, Running

LEMMA BaseRefresh ==
  ASSUME BaseInv, NEW n \in Computers, Refresh(n)
  PROVE  BaseInv'
<1>1. RefreshSends(n) \subseteq Datagrams /\ \A d \in RefreshSends(n) : d.from # d.to
  BY SentTypes DEF RefreshSends, Beacon, Probe, Refresh, Running
<1>2. air' \subseteq Datagrams' /\ \A d \in air' : d.from # d.to
  BY <1>1 DEF Refresh, BaseInv, TypeOK, Datagrams
<1> QED
  BY <1>2, Constants DEF BaseInv, TypeOK, Refresh, Listed, Running, Nobody

LEMMA BaseHears ==
  ASSUME BaseInv, NEW d \in air, Running(d.to), ReceiveBeacon(d),
         UNCHANGED <<state, port, timer, since, used>>
  PROVE  BaseInv'
<1>1. d \in Datagrams /\ d.from # d.to
  BY DEF BaseInv, TypeOK
<1>2. PICK n \in Computers, m \in Computers, p \in 1 .. MaxEvents :
        d.to = n /\ d.from = m /\ d.port = p /\ n # m
  BY <1>1, Fields, Constants
<1>3. /\ peers' = [peers EXCEPT ![n][m] = p] /\ seen' = [seen EXCEPT ![n][m] = 0]
      /\ air' = air \ {d} /\ missing' = [missing EXCEPT ![n][m] = 0]
      /\ lost' = [lost EXCEPT ![n][m] = 0] /\ asked' = [asked EXCEPT ![n] = @ \ {m}]
      /\ answered' = answered
  BY <1>2 DEF ReceiveBeacon, Descriptor, SeenNow
<1>4. TypeOK'
  BY <1>3, Constants DEF BaseInv, TypeOK, Datagrams
<1>5. \A k, l \in Computers : peers'[k][l] # 0 =>
        k # l /\ state'[k] = "Running" /\ seen'[k][l] + timer'[k] <= PeerExpiry + BeaconInterval
  BY <1>2, <1>3, Constants DEF BaseInv, TypeOK, Listed, Running
<1>6. \A k, l \in Computers : lost'[k][l] <= used'
  BY <1>3, Constants DEF BaseInv, TypeOK
<1> QED
  BY <1>3, <1>4, <1>5, <1>6 DEF BaseInv, Listed, Running

LEMMA BaseProbed ==
  ASSUME BaseInv, NEW d \in air, Running(d.to), ReceiveProbe(d),
         UNCHANGED <<state, port, timer, since, used>>
  PROVE  BaseInv'
<1>1. d \in Datagrams /\ d.from \in Computers /\ d.to \in Computers
  BY Fields DEF BaseInv, TypeOK
<1>2. Beacon(d.to) \subseteq Datagrams /\ \A e \in Beacon(d.to) : e.from # e.to
  BY <1>1, SentTypes DEF Beacon, Running
<1>3. air' \subseteq Datagrams' /\ \A e \in air' : e.from # e.to
  BY <1>2 DEF ReceiveProbe, BaseInv, TypeOK, Datagrams
<1>4. asked' \in [Computers -> SUBSET Computers] /\ answered' \in [Computers -> 0 .. ProbeInterval]
  BY <1>1, Constants DEF ReceiveProbe, BaseInv, TypeOK
<1>5. UNCHANGED <<peers, seen, missing, lost>>
  BY DEF ReceiveProbe
<1> QED
  BY <1>3, <1>4, <1>5 DEF BaseInv, TypeOK, Listed, Running

LEMMA BaseMiss ==
  ASSUME BaseInv, NEW d \in air, Miss(d)
  PROVE  BaseInv'
BY DEF BaseInv, TypeOK, Miss, serviceVars, historyVars, Listed, Running, Datagrams

LEMMA BaseLose ==
  ASSUME BaseInv, NEW d \in air, Lose(d)
  PROVE  BaseInv'
<1>1. d \in Datagrams /\ d.from \in Computers /\ d.to \in Computers
  BY Fields DEF BaseInv, TypeOK
<1>2. used' = used + 1 /\ used < MaxEvents /\ air' = air \ {d} /\ UNCHANGED <<serviceVars, since>>
  BY DEF Lose
<1>3. /\ lost' \in [Computers -> [Computers -> 0 .. MaxEvents]]
      /\ missing' \in [Computers -> [Computers -> 0 .. BeaconInterval + MaxDelay + 1]]
      /\ \A k, l \in Computers : lost'[k][l] <= used'
  <2>1. /\ lost \in [Computers -> [Computers -> 0 .. MaxEvents]] /\ used \in Nat
        /\ missing \in [Computers -> [Computers -> 0 .. BeaconInterval + MaxDelay + 1]]
        /\ \A k, l \in Computers : lost[k][l] <= used
    BY Constants DEF BaseInv, TypeOK
  <2>2. CASE lost' = lost /\ missing' = missing
    BY <1>2, <2>1, <2>2, Constants
  <2>3. CASE /\ lost' = [lost EXCEPT ![d.to][d.from] = @ + 1]
             /\ missing' = [missing EXCEPT ![d.to][d.from] = 0]
    <3>1. PICK n \in Computers, m \in Computers : n = d.to /\ m = d.from
      BY <1>1
    <3>2. /\ lost' = [lost EXCEPT ![n][m] = @ + 1]
          /\ missing' = [missing EXCEPT ![n][m] = 0]
      BY <2>3, <3>1
    <3>3. \A k, l \in Computers : lost'[k][l] \in {lost[k][l], lost[k][l] + 1}
      BY <2>1, <3>2
    <3>4. \A k, l \in Computers : lost'[k][l] \in 0 .. MaxEvents /\ lost'[k][l] <= used'
      BY <1>2, <2>1, <3>3, Constants
    <3>5. lost' \in [Computers -> [Computers -> 0 .. MaxEvents]]
      <4>1. lost[n][m] + 1 \in 0 .. MaxEvents
        BY <1>2, <2>1, Constants
      <4> QED
        BY <2>1, <3>2, <4>1
    <3>6. missing' \in [Computers -> [Computers -> 0 .. BeaconInterval + MaxDelay + 1]]
      BY <2>1, <3>2, Constants
    <3> QED
      BY <3>4, <3>5, <3>6
  <2> QED
    BY <2>2, <2>3 DEF Lose
<1>4. asked' \in [Computers -> SUBSET Computers]
  BY <1>1 DEF Lose, BaseInv, TypeOK
<1> QED
  BY <1>2, <1>3, <1>4, Constants DEF BaseInv, TypeOK, serviceVars, Listed, Running, Datagrams

\* A tick pointwise.
LEMMA TickTimes ==
  ASSUME BaseInv, Tick
  PROVE  /\ \A n \in Computers : Running(n) => timer[n] > 0 /\ timer'[n] = timer[n] - 1
         /\ \A n \in Computers : ~Running(n) => timer'[n] = 0
         /\ \A n, m \in Computers : Listed(n, m) => seen'[n][m] = seen[n][m] + 1
         /\ \A n, m \in Computers : ~Listed(n, m) => seen'[n][m] = 0
         /\ \A n \in Computers : since'[n] \in {since[n], since[n] + 1}
         /\ \A n \in Computers : since'[n] = since[n] => 
              since[n] >= IF Running(n) THEN PeerExpiry + 1 ELSE Horizon
         /\ \A n, m \in Computers : missing'[n][m] \in {0, missing[n][m], missing[n][m] + 1}
         /\ \A n, m \in Computers :
              missing'[n][m] # 0 => n # m /\ Running(n) /\ Running(m) /\ ~Listed(n, m)
         /\ \A n, m \in Computers : missing'[n][m] <= missing[n][m] + 1
         /\ UNCHANGED <<state, port, peers, lost, asked, used>>
BY Constants DEF BaseInv, TypeOK, Tick, Later

\* Datagrams grow older and none is added or taken away.
LEMMA TickAir ==
  ASSUME BaseInv, Tick
  PROVE  /\ air' = {Aged(d) : d \in air}
         /\ \A d \in air : /\ Aged(d) \in air' /\ Aged(d) \in Datagrams
                           /\ Aged(d).kind = d.kind /\ Aged(d).from = d.from /\ Aged(d).to = d.to
                           /\ Aged(d).port = d.port /\ Aged(d).age = d.age + 1
<1>1. air' = {Aged(d) : d \in air} /\ \A d \in air : d.age < MaxDelay
  BY DEF Tick, Aged
<1>2. \A d \in air : d \in Datagrams
  BY DEF BaseInv, TypeOK
<1> QED
  BY <1>1, <1>2, AgedFields

LEMMA BaseTick ==
  ASSUME BaseInv, Tick
  PROVE  BaseInv'
<1>1. air' \subseteq Datagrams' /\ \A d \in air' : d.from # d.to
  BY TickAir DEF BaseInv, Datagrams
<1>2. timer' \in [Computers -> 0 .. BeaconInterval] /\ answered' \in [Computers -> 0 .. ProbeInterval]
  BY Constants DEF Tick, BaseInv, TypeOK, Later
<1>3. seen' \in [Computers -> [Computers -> 0 .. PeerExpiry + BeaconInterval]]
  <2>1. \A n, m \in Computers : seen'[n][m] \in 0 .. PeerExpiry + BeaconInterval
    <3>1. \A n \in Computers : timer[n] \in Nat
      BY Constants DEF BaseInv, TypeOK
    <3>2. \A n, m \in Computers : seen[n][m] \in Nat
      BY Constants DEF BaseInv, TypeOK
    <3>3. ASSUME NEW n \in Computers, NEW m \in Computers, Listed(n, m)
          PROVE  seen[n][m] + 1 <= PeerExpiry + BeaconInterval
      BY <3>1, <3>2, <3>3, TickTimes, Constants DEF BaseInv
    <3> QED
      BY <3>2, <3>3, TickTimes, Constants
  <2>2. seen' = [n \in Computers |-> [m \in Computers |-> seen'[n][m]]]
    BY DEF Tick
  <2> QED
    BY <2>1, <2>2
<1>4. since' \in [Computers -> 0 .. Horizon]
  BY Constants DEF Tick, BaseInv, TypeOK, Later
<1>5. missing' \in [Computers -> [Computers -> 0 .. BeaconInterval + MaxDelay + 1]]
  BY Constants DEF Tick, BaseInv, TypeOK, Later
<1>6. UNCHANGED <<state, port, peers, lost, asked, used>>
  BY DEF Tick
<1>7. TypeOK'
  BY <1>1, <1>2, <1>3, <1>4, <1>5, <1>6 DEF BaseInv, TypeOK
<1>8. \A n, m \in Computers : peers'[n][m] # 0 =>
        n # m /\ state'[n] = "Running" /\ seen'[n][m] + timer'[n] <= PeerExpiry + BeaconInterval
  BY <1>6, TickTimes, Constants DEF BaseInv, TypeOK, Listed, Running
<1> QED
  BY <1>1, <1>6, <1>7, <1>8 DEF BaseInv, Listed, Running

LEMMA BaseNext ==
  ASSUME BaseInv, Next
  PROVE  BaseInv'
<1>1. ASSUME NEW d \in air, Receive(d) PROVE BaseInv'
  BY <1>1, BaseHears, BaseProbed DEF Receive
<1> QED
  BY <1>1, BaseStart, BaseBound, BaseStop, BaseFires, BaseRefresh, BaseMiss, BaseLose,
     BaseTick
  DEF Next, Arrival

\* The numbers of a state.
LEMMA Ages ==
  ASSUME BaseInv
  PROVE  /\ \A n, m \in Computers : /\ missing[n][m] \in Nat /\ seen[n][m] \in Nat
                                    /\ lost[n][m] \in Nat /\ peers[n][m] \in Nat
         /\ \A n \in Computers : /\ timer[n] \in Nat /\ timer[n] <= BeaconInterval
                                 /\ since[n] \in Nat /\ port[n] \in Nat
                                 /\ asked[n] \subseteq Computers
         /\ \A d \in air : d \in Datagrams
BY Constants DEF BaseInv, TypeOK

-----------------------------------------------------------------------------
(* What happens between two ticks                                          *)

\* Who is missing is so at a computer that runs, runs itself and is not listed;
\* who has to answer runs as well.
HistoryInv ==
  /\ \A n, m \in Computers :
       missing[n][m] > 0 => n # m /\ Running(n) /\ Running(m) /\ ~Listed(n, m)
  /\ \A n \in Computers : \A m \in asked[n] : n # m /\ Running(n) /\ Running(m)

\* The beacons under way from m to n.
Beacons(n, m) == {d \in air : d.kind = "Beacon" /\ d.from = m /\ d.to = n}

Probes(n, m) == {d \in air : d.kind = "Probe" /\ d.from = m /\ d.to = n}

\* n takes in a beacon of m.
Heard(n, m) ==
  /\ \E d \in Beacons(n, m) : peers'[n][m] = d.port
  /\ seen'[n][m] = 0 /\ missing'[n][m] = 0 /\ lost'[n][m] = 0 /\ m \notin asked'[n]

\* A beacon of m to n is lost.
Lost(n, m) ==
  /\ lost'[n][m] = lost[n][m] + 1 /\ missing'[n][m] = 0 /\ m \notin asked'[n]
  /\ timer' = timer
  /\ \E d \in Beacons(n, m) : air' = air \ {d}

\* n puts a datagram to m under way.
Sends(n, m, kind) ==
  \E d \in air' : /\ d.kind = kind /\ d.from = n /\ d.to = m
                  /\ d.age = 0 /\ d.port = port'[n]

\* m goes on as before, or else its times start anew.
GoesOn(m) ==
  \/ /\ since'[m] = since[m]
     /\ state'[m] = "Running" <=> Running(m)
     /\ Running(m) => port'[m] = port[m]
  \/ since'[m] = 0

\* The timers of m go on, or else m has sent a beacon to everybody.
TimerGoesOn(m) ==
  state'[m] = "Running" =>
    \/ Running(m) /\ timer'[m] = timer[m] /\ since'[m] = since[m]
    \/ /\ timer'[m] = BeaconInterval
       /\ \/ Running(m) /\ timer[m] = 0 /\ since'[m] = since[m]
          \/ since'[m] = 0
       /\ \A n \in Computers : n # m => Sends(m, n, "Beacon")

\* m stays on the list of n as it is, is heard, or is not listed.
ListGoesOn(n, m) ==
  \/ peers'[n][m] = 0
  \/ peers'[n][m] = peers[n][m] /\ seen'[n][m] = seen[n][m]
  \/ Heard(n, m)

\* What is kept of the pair is kept while both run, unless a beacon came or was lost.
PairGoesOn(n, m) ==
  /\ missing'[n][m] \in {0, missing[n][m]}
  /\ missing'[n][m] # 0 => state'[n] = "Running" /\ state'[m] = "Running"
  /\ state'[n] = "Running" /\ state'[m] = "Running" =>
       Lost(n, m) \/ Heard(n, m) \/ (lost'[n][m] = lost[n][m] /\ Beacons(n, m) \subseteq air')

\* Who has to answer n at once was asked before, or is asked now.
AskedGoesOn(n, m) ==
  m \in asked'[n] =>
    \/ /\ m \in asked[n] /\ state'[n] = "Running" /\ state'[m] = "Running"
       /\ Probes(m, n) \subseteq air' \/ Sends(m, n, "Beacon")
    \/ /\ m # n /\ state'[n] = "Running" /\ state'[m] = "Running"
       /\ missing'[n][m] = 0 /\ Sends(n, m, "Probe")

Moves ==
  /\ \A d \in air' : \/ d \in air
                     \/ /\ d.age = 0 /\ d.port = port'[d.from]
                        /\ state'[d.from] = "Running"
  /\ \A m \in Computers : GoesOn(m) /\ TimerGoesOn(m)
  /\ \A n, m \in Computers : ListGoesOn(n, m) /\ PairGoesOn(n, m) /\ AskedGoesOn(n, m)

LEMMA MovesStart ==
  ASSUME BaseInv, HistoryInv, NEW k \in Computers, Start(k)
  PROVE  Moves
<1>1. /\ state' = [state EXCEPT ![k] = "Binding"] /\ state[k] = "Stopped"
      /\ port' = [port EXCEPT ![k] = @ + 1]
      /\ UNCHANGED <<timer, peers, seen, air, since, missing, lost, asked>>
  BY DEF Start, historyVars
<1>2. \A m \in Computers : m # k => state'[m] = state[m] /\ port'[m] = port[m]
  BY <1>1 DEF BaseInv, TypeOK
<1>3. state'[k] = "Binding"
  BY <1>1 DEF BaseInv, TypeOK
<1>4. \A n, m \in Computers : missing[n][m] \in Nat /\ asked[n] \subseteq Computers
  BY Constants DEF BaseInv, TypeOK
<1>5. \A m \in Computers : GoesOn(m) /\ TimerGoesOn(m)
  BY <1>1, <1>2, <1>3 DEF GoesOn, TimerGoesOn, Running
<1>6. \A n, m \in Computers : ListGoesOn(n, m)
  BY <1>1 DEF ListGoesOn
<1>7. \A n, m \in Computers : PairGoesOn(n, m)
  BY <1>1, <1>2, <1>3, <1>4 DEF PairGoesOn, HistoryInv, Running, Beacons
<1>8. \A n, m \in Computers : AskedGoesOn(n, m)
  BY <1>1, <1>2, <1>3, <1>4 DEF AskedGoesOn, HistoryInv, Running, Probes
<1> QED
  BY <1>1, <1>5, <1>6, <1>7, <1>8 DEF Moves

\* A multicast is put under way.
LEMMA Sending ==
  ASSUME BaseInv, NEW n \in Computers, NEW kind, port'[n] = port[n],
         Multicast(n, kind) \subseteq air'
  PROVE  \A m \in Computers : m # n => Sends(n, m, kind)
BY Sent DEF Sends

LEMMA MovesBound ==
  ASSUME BaseInv, HistoryInv, NEW k \in Computers, Bound(k)
  PROVE  Moves
<1>1. /\ state' = [state EXCEPT ![k] = "Running"] /\ state[k] = "Binding"
      /\ timer' = [timer EXCEPT ![k] = BeaconInterval] /\ air' = air \cup Beacon(k)
      /\ since' = [since EXCEPT ![k] = 0]
      /\ UNCHANGED <<port, peers, seen, missing, lost, asked>>
  BY DEF Bound
<1>2. \A m \in Computers : m # k =>
        state'[m] = state[m] /\ timer'[m] = timer[m] /\ since'[m] = since[m]
  BY <1>1 DEF BaseInv, TypeOK
<1>3. state'[k] = "Running" /\ timer'[k] = BeaconInterval /\ since'[k] = 0
  BY <1>1 DEF BaseInv, TypeOK
<1>4. \A n, m \in Computers : missing[n][m] \in Nat /\ asked[n] \subseteq Computers
  BY Constants DEF BaseInv, TypeOK
<1>5. \A n \in Computers : n # k => Sends(k, n, "Beacon")
  BY <1>1, Sending DEF Beacon
<1>6. \A d \in air' : d \in air \/ (d.age = 0 /\ d.port = port'[d.from] /\ state'[d.from] = "Running")
  BY <1>1, <1>3, Sent DEF Beacon
<1>7. \A m \in Computers : GoesOn(m) /\ TimerGoesOn(m)
  BY <1>1, <1>2, <1>3, <1>5 DEF GoesOn, TimerGoesOn, Running
<1>8. \A n, m \in Computers : ListGoesOn(n, m)
  BY <1>1 DEF ListGoesOn
<1>9. \A n, m \in Computers : PairGoesOn(n, m)
  BY <1>1, <1>2, <1>3, <1>4 DEF PairGoesOn, HistoryInv, Running, Beacons
<1>10. \A n, m \in Computers : AskedGoesOn(n, m)
  BY <1>1, <1>2, <1>3, <1>4 DEF AskedGoesOn, HistoryInv, Running, Probes
<1> QED
  BY <1>6, <1>7, <1>8, <1>9, <1>10 DEF Moves

LEMMA MovesStop ==
  ASSUME BaseInv, HistoryInv, NEW k \in Computers, Stop(k)
  PROVE  Moves
<1>1. /\ state' = [state EXCEPT ![k] = "Stopped"] /\ timer' = [timer EXCEPT ![k] = 0]
      /\ since' = [since EXCEPT ![k] = IF Running(k) THEN 0 ELSE @]
      /\ peers' = [peers EXCEPT ![k] = Nobody] /\ seen' = [seen EXCEPT ![k] = Nobody]
      /\ UNCHANGED <<port, air>>
  BY DEF Stop
<1>2. \A m \in Computers : m # k =>
        /\ state'[m] = state[m] /\ timer'[m] = timer[m] /\ since'[m] = since[m]
        /\ peers'[m] = peers[m] /\ seen'[m] = seen[m]
  BY <1>1 DEF BaseInv, TypeOK
<1>3. /\ state'[k] = "Stopped" /\ \A m \in Computers : peers'[k][m] = 0
      /\ since'[k] = IF Running(k) THEN 0 ELSE since[k]
  BY <1>1 DEF BaseInv, TypeOK, Nobody
<1>4. \A n, m \in Computers : missing[n][m] \in Nat /\ asked[n] \subseteq Computers
  BY Constants DEF BaseInv, TypeOK
<1>5. \A n, m \in Computers :
        /\ missing'[n][m] = IF k \in {n, m} THEN 0 ELSE missing[n][m]
        /\ lost'[n][m] = IF k \in {n, m} THEN 0 ELSE lost[n][m]
        /\ m \in asked'[n] => m \in asked[n] /\ k \notin {n, m}
  BY DEF Stop, Forget, Nobody, BaseInv, TypeOK
<1>6. \A m \in Computers : GoesOn(m) /\ TimerGoesOn(m)
  BY <1>1, <1>2, <1>3 DEF GoesOn, TimerGoesOn, Running
<1>7. \A n, m \in Computers : ListGoesOn(n, m)
  BY <1>2, <1>3 DEF ListGoesOn
<1>8. \A n, m \in Computers : PairGoesOn(n, m)
  BY <1>1, <1>2, <1>3, <1>4, <1>5 DEF PairGoesOn, HistoryInv, Running, Beacons
<1>9. \A n, m \in Computers : AskedGoesOn(n, m)
  BY <1>1, <1>2, <1>3, <1>4, <1>5 DEF AskedGoesOn, HistoryInv, Running, Probes
<1> QED
  BY <1>1, <1>6, <1>7, <1>8, <1>9 DEF Moves

LEMMA MovesFires ==
  ASSUME BaseInv, HistoryInv, NEW k \in Computers, IntervalFires(k)
  PROVE  Moves
<1>1. /\ Running(k) /\ timer[k] = 0 /\ timer' = [timer EXCEPT ![k] = BeaconInterval]
      /\ air' = air \cup Beacon(k)
      /\ UNCHANGED <<state, port, since, missing, lost, asked>>
  BY DEF IntervalFires, PeriodicBeacon, historyVars
<1>2. \A m \in Computers : timer'[m] = IF m = k THEN BeaconInterval ELSE timer[m]
  BY <1>1 DEF BaseInv, TypeOK
<1>3. \A n, m \in Computers : missing[n][m] \in Nat /\ asked[n] \subseteq Computers
  BY Constants DEF BaseInv, TypeOK
<1>4. \A n \in Computers : n # k => Sends(k, n, "Beacon")
  BY <1>1, Sending DEF Beacon
<1>5. \A d \in air' : d \in air \/ (d.age = 0 /\ d.port = port'[d.from] /\ state'[d.from] = "Running")
  BY <1>1, Sent DEF Beacon, Running
<1>6. \A m \in Computers : GoesOn(m) /\ TimerGoesOn(m)
  BY <1>1, <1>2, <1>4 DEF GoesOn, TimerGoesOn, Running
<1>7. \A n, m \in Computers : ListGoesOn(n, m)
  BY FiresPeers DEF ListGoesOn
<1>8. \A n, m \in Computers : PairGoesOn(n, m)
  BY <1>1, <1>3 DEF PairGoesOn, HistoryInv, Running, Beacons
<1>9. \A n, m \in Computers : AskedGoesOn(n, m)
  BY <1>1, <1>3 DEF AskedGoesOn, HistoryInv, Running, Probes
<1> QED
  BY <1>5, <1>6, <1>7, <1>8, <1>9 DEF Moves

LEMMA MovesRefresh ==
  ASSUME BaseInv, HistoryInv, NEW k \in Computers, Refresh(k)
  PROVE  Moves
<1>1. /\ Running(k) /\ air' = air \cup Beacon(k) \cup Probe(k)
      /\ peers' = [peers EXCEPT ![k] = Nobody] /\ seen' = [seen EXCEPT ![k] = Nobody]
      /\ missing' = [missing EXCEPT ![k] = Nobody]
      /\ asked' = [asked EXCEPT ![k] = {m \in Computers \ {k} : Running(m)}]
      /\ UNCHANGED <<state, port, timer, since, lost>>
  BY DEF Refresh, RefreshSends
<1>2. \A m \in Computers :
        /\ peers'[k][m] = 0 /\ missing'[k][m] = 0
        /\ m # k => /\ peers'[m] = peers[m] /\ seen'[m] = seen[m]
                    /\ missing'[m] = missing[m] /\ asked'[m] = asked[m]
  BY <1>1 DEF BaseInv, TypeOK, Nobody
<1>3. \A n, m \in Computers : missing[n][m] \in Nat /\ asked[n] \subseteq Computers
  BY Constants DEF BaseInv, TypeOK
<1>4. \A n \in Computers : n # k => Sends(k, n, "Probe")
  BY <1>1, Sending DEF Probe
<1>5. \A d \in air' : d \in air \/ (d.age = 0 /\ d.port = port'[d.from] /\ state'[d.from] = "Running")
  BY <1>1, Sent DEF Beacon, Probe, Running
<1>6. \A m \in Computers : GoesOn(m) /\ TimerGoesOn(m)
  BY <1>1 DEF GoesOn, TimerGoesOn, Running
<1>7. \A n, m \in Computers : ListGoesOn(n, m)
  BY <1>2 DEF ListGoesOn
<1>8. ASSUME NEW n \in Computers, NEW m \in Computers
      PROVE  PairGoesOn(n, m)
  <2>1. missing'[n][m] \in {0, missing[n][m]}
    BY <1>2
  <2>2. missing'[n][m] # 0 => state'[n] = "Running" /\ state'[m] = "Running"
    BY <1>1, <1>3, <2>1 DEF HistoryInv, Running
  <2> QED
    BY <1>1, <2>1, <2>2 DEF PairGoesOn, Beacons
<1>9. asked'[k] = {m \in Computers \ {k} : Running(m)}
  BY <1>1 DEF BaseInv, TypeOK
<1>10. ASSUME NEW n \in Computers, NEW m \in Computers, m \in asked'[n]
       PROVE  AskedGoesOn(n, m)
  <2>1. CASE n = k
    BY <1>1, <1>2, <1>4, <1>9, <1>10, <2>1 DEF AskedGoesOn, Running
  <2>2. CASE n # k
    BY <1>1, <1>2, <1>10, <2>2 DEF AskedGoesOn, HistoryInv, Running, Probes
  <2> QED
    BY <2>1, <2>2
<1>11. \A n, m \in Computers : AskedGoesOn(n, m)
  BY <1>10 DEF AskedGoesOn
<1> QED
  BY <1>5, <1>6, <1>7, <1>8, <1>11 DEF Moves

LEMMA MovesHears ==
  ASSUME BaseInv, HistoryInv, NEW d \in air, Running(d.to), ReceiveBeacon(d),
         UNCHANGED <<state, port, timer, since, used>>
  PROVE  Moves
<1>1. d \in Datagrams /\ d.from # d.to
  BY DEF BaseInv, TypeOK
<1>2. PICK n \in Computers, m \in Computers : d.to = n /\ d.from = m /\ n # m
  BY <1>1, Fields, Constants
<1>3. /\ peers' = [peers EXCEPT ![n][m] = d.port] /\ seen' = [seen EXCEPT ![n][m] = 0]
      /\ air' = air \ {d} /\ missing' = [missing EXCEPT ![n][m] = 0]
      /\ lost' = [lost EXCEPT ![n][m] = 0] /\ asked' = [asked EXCEPT ![n] = @ \ {m}]
      /\ d.kind = "Beacon"
  BY <1>2 DEF ReceiveBeacon, Descriptor, SeenNow
<1>4. d \in Beacons(n, m) /\ peers'[n][m] = d.port /\ seen'[n][m] = 0
      /\ missing'[n][m] = 0 /\ lost'[n][m] = 0 /\ m \notin asked'[n]
  BY <1>2, <1>3 DEF Beacons, BaseInv, TypeOK
<1>5. \A k, l \in Computers : k # n \/ l # m =>
        /\ peers'[k][l] = peers[k][l] /\ seen'[k][l] = seen[k][l]
        /\ missing'[k][l] = missing[k][l] /\ lost'[k][l] = lost[k][l]
        /\ l \in asked'[k] => l \in asked[k]
        /\ Beacons(k, l) \subseteq air'
  BY <1>2, <1>3 DEF BaseInv, TypeOK, Beacons
<1>6. Heard(n, m)
  BY <1>4 DEF Heard
<1>7. \A k, l \in Computers : missing[k][l] \in Nat /\ asked[k] \subseteq Computers
  BY Constants DEF BaseInv, TypeOK
<1>8. \A k \in Computers : GoesOn(k) /\ TimerGoesOn(k)
  BY DEF GoesOn, TimerGoesOn, Running
<1>9. \A k, l \in Computers : ListGoesOn(k, l)
  BY <1>5, <1>6 DEF ListGoesOn
<1>10. \A k, l \in Computers : PairGoesOn(k, l)
  BY <1>4, <1>5, <1>6, <1>7 DEF PairGoesOn, HistoryInv, Running
<1>11. \A k, l \in Computers : Probes(k, l) \subseteq air'
  BY <1>3 DEF Probes
<1>12. \A k, l \in Computers : AskedGoesOn(k, l)
  BY <1>4, <1>5, <1>7, <1>11 DEF AskedGoesOn, HistoryInv, Running
<1> QED
  BY <1>3, <1>8, <1>9, <1>10, <1>12 DEF Moves

LEMMA MovesProbed ==
  ASSUME BaseInv, HistoryInv, NEW d \in air, Running(d.to), ReceiveProbe(d),
         UNCHANGED <<state, port, timer, since, used>>
  PROVE  Moves
<1>1. d \in Datagrams /\ d.from # d.to
  BY DEF BaseInv, TypeOK
<1>2. PICK n \in Computers, m \in Computers : d.to = n /\ d.from = m /\ n # m
  BY <1>1, Fields, Constants
<1>3. d.kind = "Probe" /\ UNCHANGED <<peers, seen, missing, lost>>
  BY DEF ReceiveProbe
<1>4. \/ air' = air \ {d} /\ asked' = [asked EXCEPT ![m] = @ \ {n}]
      \/ air' = (air \ {d}) \cup Beacon(n) /\ asked' = asked
  BY <1>2 DEF ReceiveProbe
<1>5. \A k, l \in Computers : missing[k][l] \in Nat /\ asked[k] \subseteq Computers
  BY Constants DEF BaseInv, TypeOK
<1>6. \A k, l \in Computers : l \in asked'[k] =>
        /\ l \in asked[k]
        /\ k = m /\ l = n => Beacon(n) \subseteq air'
  BY <1>4 DEF BaseInv, TypeOK
<1>7. \A k, l \in Computers :
        /\ Beacons(k, l) \subseteq air'
        /\ k # n \/ l # m => Probes(k, l) \subseteq air'
  BY <1>2, <1>3, <1>4 DEF Beacons, Probes
<1>8. \A e \in air' : e \in air \/ (e.age = 0 /\ e.port = port'[e.from] /\ state'[e.from] = "Running")
  BY <1>2, <1>4, Sent DEF Beacon, Running
<1>9. \A k \in Computers : GoesOn(k) /\ TimerGoesOn(k)
  BY DEF GoesOn, TimerGoesOn, Running
<1>10. \A k, l \in Computers : ListGoesOn(k, l)
  BY <1>3 DEF ListGoesOn
<1>11. ASSUME NEW k \in Computers, NEW l \in Computers
       PROVE  PairGoesOn(k, l)
  <2>1. missing'[k][l] # 0 => state'[k] = "Running" /\ state'[l] = "Running"
    BY <1>3, <1>5 DEF HistoryInv, Running
  <2> QED
    BY <1>3, <1>7, <2>1 DEF PairGoesOn
<1>12. n \in asked'[m] => Sends(n, m, "Beacon")
  BY <1>2, <1>6, Sending DEF Beacon
<1>13. ASSUME NEW k \in Computers, NEW l \in Computers
       PROVE  AskedGoesOn(k, l)
  <2>1. l \in asked[k] => state'[k] = "Running" /\ state'[l] = "Running"
    BY DEF HistoryInv, Running
  <2>2. l \in asked'[k] => l \in asked[k] /\ (Probes(l, k) \subseteq air' \/ Sends(l, k, "Beacon"))
    BY <1>6, <1>7, <1>12
  <2> QED
    BY <2>1, <2>2 DEF AskedGoesOn
<1> QED
  BY <1>8, <1>9, <1>10, <1>11, <1>13 DEF Moves

LEMMA MovesMiss ==
  ASSUME BaseInv, HistoryInv, NEW d \in air, Miss(d)
  PROVE  Moves
<1>1. /\ ~Running(d.to)
      /\ air' = air \ {d} /\ UNCHANGED <<serviceVars, historyVars>>
  BY DEF Miss
<1>2. \A k, l \in Computers : missing[k][l] \in Nat /\ asked[k] \subseteq Computers
  BY Constants DEF BaseInv, TypeOK
<1>3. \A k, l \in Computers : Running(k) => Beacons(k, l) \subseteq air' /\ Probes(k, l) \subseteq air'
  BY <1>1 DEF Beacons, Probes
<1>4. \A k \in Computers : GoesOn(k) /\ TimerGoesOn(k)
  BY <1>1 DEF GoesOn, TimerGoesOn, Running, serviceVars, historyVars
<1>5. \A k, l \in Computers : ListGoesOn(k, l)
  BY <1>1 DEF ListGoesOn, serviceVars
<1>6. \A k, l \in Computers : PairGoesOn(k, l)
  BY <1>1, <1>2, <1>3 DEF PairGoesOn, HistoryInv, Running, serviceVars, historyVars
<1>7. \A k, l \in Computers : AskedGoesOn(k, l)
  BY <1>1, <1>2, <1>3 DEF AskedGoesOn, HistoryInv, Running, serviceVars, historyVars
<1> QED
  BY <1>1, <1>4, <1>5, <1>6, <1>7 DEF Moves

LEMMA MovesLose ==
  ASSUME BaseInv, HistoryInv, NEW d \in air, Lose(d)
  PROVE  Moves
<1>1. d \in Datagrams /\ d.from # d.to
  BY DEF BaseInv, TypeOK
<1>2. PICK n \in Computers, m \in Computers : d.to = n /\ d.from = m /\ n # m
  BY <1>1, Fields, Constants
<1>3. /\ air' = air \ {d} /\ UNCHANGED <<serviceVars, since>>
      /\ asked' = [asked EXCEPT ![n] = @ \ {m}, ![m] = @ \ {n}]
  BY <1>2 DEF Lose
<1>4. \/ /\ d.kind = "Beacon" /\ lost' = [lost EXCEPT ![n][m] = @ + 1]
         /\ missing' = [missing EXCEPT ![n][m] = 0]
      \/ d.kind # "Beacon" /\ UNCHANGED <<lost, missing>>
  BY <1>2 DEF Lose
<1>5. \A k, l \in Computers : missing[k][l] \in Nat /\ asked[k] \subseteq Computers
  BY Constants DEF BaseInv, TypeOK
<1>6. \A k, l \in Computers : l \in asked'[k] =>
        l \in asked[k] /\ (k # n \/ l # m) /\ (k # m \/ l # n)
  BY <1>3 DEF BaseInv, TypeOK
<1>7. \A k, l \in Computers : k # n \/ l # m =>
        /\ missing'[k][l] = missing[k][l] /\ lost'[k][l] = lost[k][l]
        /\ Beacons(k, l) \subseteq air' /\ Probes(k, l) \subseteq air'
  BY <1>2, <1>3, <1>4 DEF BaseInv, TypeOK, Beacons, Probes
<1>8. d.kind = "Beacon" => Lost(n, m) /\ missing'[n][m] = 0
  BY <1>2, <1>3, <1>4, <1>6 DEF Lost, BaseInv, TypeOK, Beacons, serviceVars
<1>9. d.kind # "Beacon" => /\ lost'[n][m] = lost[n][m] /\ missing'[n][m] = missing[n][m]
                          /\ Beacons(n, m) \subseteq air'
  BY <1>3, <1>4 DEF Beacons
<1>10. \A k \in Computers : GoesOn(k) /\ TimerGoesOn(k)
  BY <1>3 DEF GoesOn, TimerGoesOn, Running, serviceVars
<1>11. \A k, l \in Computers : ListGoesOn(k, l)
  BY <1>3 DEF ListGoesOn, serviceVars
<1>12. \A k, l \in Computers : PairGoesOn(k, l)
  BY <1>3, <1>5, <1>7, <1>8, <1>9 DEF PairGoesOn, HistoryInv, Running, serviceVars
<1>13. \A k, l \in Computers : AskedGoesOn(k, l)
  BY <1>3, <1>5, <1>6, <1>7 DEF AskedGoesOn, HistoryInv, Running, serviceVars
<1> QED
  BY <1>3, <1>10, <1>11, <1>12, <1>13 DEF Moves

\* A step is a tick or lies between two.
LEMMA NextMoves ==
  ASSUME BaseInv, HistoryInv, Next
  PROVE  Moves \/ Tick
<1>1. ASSUME NEW d \in air, Receive(d) PROVE Moves
  BY <1>1, MovesHears, MovesProbed DEF Receive
<1> QED
  BY <1>1, MovesStart, MovesBound, MovesStop, MovesFires, MovesRefresh, MovesMiss, MovesLose
  DEF Next, Arrival

-----------------------------------------------------------------------------
(* The histories                                                           *)

LEMMA HistoryInit == Init => HistoryInv
BY Constants DEF Init, HistoryInv, Nobody

LEMMA HistoryMoves ==
  ASSUME BaseInv, BaseInv', HistoryInv, Moves
  PROVE  HistoryInv'
<1>1. ASSUME NEW n \in Computers, NEW m \in Computers, missing'[n][m] > 0
      PROVE  n # m /\ state'[n] = "Running" /\ state'[m] = "Running" /\ peers'[n][m] = 0
  <2>1. missing'[n][m] = missing[n][m] /\ missing'[n][m] # 0 /\ missing'[n][m] \in Nat
    BY <1>1, Constants DEF Moves, PairGoesOn, BaseInv, TypeOK
  <2>2. n # m /\ ~Listed(n, m)
    BY <1>1, <2>1 DEF HistoryInv
  <2>3. peers'[n][m] = 0
    BY <2>1, <2>2 DEF Moves, ListGoesOn, Heard, Listed
  <2> QED
    BY <2>1, <2>2, <2>3 DEF Moves, PairGoesOn
<1>2. ASSUME NEW n \in Computers, NEW m \in asked'[n]
      PROVE  n # m /\ state'[n] = "Running" /\ state'[m] = "Running"
  <2>1. m \in Computers
    BY DEF BaseInv, TypeOK
  <2> QED
    BY <1>2, <2>1 DEF Moves, AskedGoesOn, HistoryInv
<1> QED
  BY <1>1, <1>2 DEF HistoryInv, Listed, Running

LEMMA HistoryTick ==
  ASSUME BaseInv, HistoryInv, Tick
  PROVE  HistoryInv'
<1>1. \A n, m \in Computers : missing'[n][m] > 0 =>
        n # m /\ Running(n) /\ Running(m) /\ ~Listed(n, m)
  BY TickTimes
<1>2. UNCHANGED <<state, peers, asked>>
  BY DEF Tick
<1> QED
  BY <1>1, <1>2 DEF HistoryInv, Listed, Running

-----------------------------------------------------------------------------
(* Who has gone                                                            *)

\* What is still under way from a computer that has gone is as old as its end,
\* and it was heard last when the last of it came.
OfflineInv ==
  \A m \in Computers : ~Running(m) =>
    /\ \A d \in air : d.from = m => since[m] <= d.age
    /\ \A n \in Computers : Listed(n, m) => since[m] <= MaxDelay + seen[n][m]

LEMMA OfflineInit == Init => OfflineInv
BY Constants DEF Init, OfflineInv, Nobody, Listed

LEMMA OfflineMoves ==
  ASSUME BaseInv, BaseInv', OfflineInv, Moves
  PROVE  OfflineInv'
<1> SUFFICES ASSUME NEW m \in Computers, state'[m] # "Running"
             PROVE  /\ \A d \in air' : d.from = m => since'[m] <= d.age
                    /\ \A n \in Computers : peers'[n][m] # 0 => since'[m] <= MaxDelay + seen'[n][m]
  BY DEF OfflineInv, Listed, Running
<1>1. /\ \A d \in air' : d.age \in Nat
      /\ \A n \in Computers : seen'[n][m] \in Nat
      /\ MaxDelay \in Nat
  BY Fields, Constants DEF BaseInv, TypeOK
<1>2. CASE since'[m] = 0
  BY <1>1, <1>2
<1>3. CASE since'[m] = since[m] /\ ~Running(m)
  <2>1. ASSUME NEW d \in air', d.from = m PROVE since'[m] <= d.age
    BY <1>3, <2>1 DEF Moves, OfflineInv
  <2>2. ASSUME NEW n \in Computers, peers'[n][m] # 0
        PROVE  since'[m] <= MaxDelay + seen'[n][m]
    <3>1. CASE peers'[n][m] = peers[n][m] /\ seen'[n][m] = seen[n][m]
      BY <1>3, <2>2, <3>1 DEF OfflineInv, Listed
    <3>2. CASE Heard(n, m)
      <4>1. PICK d \in air : d.from = m /\ d.age <= MaxDelay /\ d.age \in Nat
        BY <3>2, Fields DEF Heard, Beacons, BaseInv, TypeOK
      <4>2. since[m] <= d.age /\ since[m] \in Nat
        BY <1>3, <4>1, Constants DEF OfflineInv, BaseInv, TypeOK
      <4> QED
        BY <1>1, <1>3, <3>2, <4>1, <4>2 DEF Heard
    <3> QED
      BY <2>2, <3>1, <3>2 DEF Moves, ListGoesOn
  <2> QED
    BY <2>1, <2>2
<1> QED
  BY <1>2, <1>3 DEF Moves, GoesOn

LEMMA OfflineTick ==
  ASSUME BaseInv, OfflineInv, Tick
  PROVE  OfflineInv'
<1> SUFFICES ASSUME NEW m \in Computers, state'[m] # "Running"
             PROVE  /\ \A d \in air' : d.from = m => since'[m] <= d.age
                    /\ \A n \in Computers : peers'[n][m] # 0 => since'[m] <= MaxDelay + seen'[n][m]
  BY DEF OfflineInv, Listed, Running
<1>1. ~Running(m) /\ peers' = peers
  BY DEF Tick, Running
<1>2. since[m] \in Nat /\ since'[m] \in {since[m], since[m] + 1}
  BY Ages, TickTimes
<1>3. since'[m] \in Nat /\ since'[m] <= since[m] + 1
  BY <1>2
<1>4. ASSUME NEW d \in air, d.from = m PROVE since'[m] <= Aged(d).age
  <2>1. since[m] <= d.age /\ d.age \in Nat
    BY <1>1, <1>4, Fields DEF OfflineInv, BaseInv, TypeOK
  <2> QED
    BY <1>2, <1>3, <2>1, TickAir
<1>5. \A d \in air' : d.from = m => since'[m] <= d.age
  BY <1>4, TickAir
<1>6. ASSUME NEW n \in Computers, Listed(n, m)
      PROVE  since'[m] <= MaxDelay + seen'[n][m]
  <2>1. since[m] <= MaxDelay + seen[n][m] /\ seen[n][m] \in Nat /\ MaxDelay \in Nat
    BY <1>1, <1>6, Constants DEF OfflineInv, BaseInv, TypeOK
  <2>2. seen'[n][m] = seen[n][m] + 1
    BY <1>6, TickTimes
  <2> QED
    BY <1>2, <1>3, <2>1, <2>2
<1> QED
  BY <1>1, <1>5, <1>6 DEF Listed

LEMMA OfflineImplies ==
  ASSUME BaseInv, OfflineInv
  PROVE  OfflineForgotten
<1> SUFFICES ASSUME NEW n \in Computers, NEW m \in Computers, Listed(n, m), ~Running(m)
             PROVE  since[m] < Horizon
  BY DEF OfflineForgotten
<1>1. since[m] <= MaxDelay + seen[n][m]
  BY DEF OfflineInv
<1>2. seen[n][m] + timer[n] <= PeerExpiry + BeaconInterval
  BY DEF BaseInv
<1>3. since[m] \in Nat /\ seen[n][m] \in Nat /\ timer[n] \in Nat
  BY Constants DEF BaseInv, TypeOK
<1> QED
  BY <1>1, <1>2, <1>3, Constants

-----------------------------------------------------------------------------
(* Who is found                                                            *)

\* Who is missing has yet to send a beacon, or a beacon is under way.
BeaconInv ==
  \A n, m \in Computers : n # m /\ Running(n) /\ Running(m) /\ ~Listed(n, m) =>
    \/ missing[n][m] + timer[m] <= BeaconInterval
    \/ \E d \in Beacons(n, m) : missing[n][m] <= BeaconInterval + d.age

\* Who has to answer at once has yet to receive the probe, or its answer is
\* under way.
AskedInv ==
  \A n \in Computers : \A m \in asked[n] :
    \/ \E d \in Probes(m, n) : missing[n][m] <= d.age
    \/ \E d \in Beacons(n, m) : missing[n][m] <= MaxDelay + d.age

LEMMA FoundInit == Init => BeaconInv /\ AskedInv
BY Constants DEF Init, BeaconInv, AskedInv, Running

LEMMA BeaconMoves ==
  ASSUME BaseInv, BaseInv', HistoryInv, BeaconInv, Moves
  PROVE  BeaconInv'
<1> SUFFICES ASSUME NEW n \in Computers, NEW m \in Computers, n # m,
                    state'[n] = "Running", state'[m] = "Running", peers'[n][m] = 0
             PROVE  \/ missing'[n][m] + timer'[m] <= BeaconInterval
                    \/ \E d \in air' : /\ d.kind = "Beacon" /\ d.from = m /\ d.to = n
                                       /\ missing'[n][m] <= BeaconInterval + d.age
  BY DEF BeaconInv, Listed, Running, Beacons
<1>1. /\ missing'[n][m] \in Nat /\ missing[n][m] \in Nat /\ timer[m] \in Nat
      /\ timer'[m] \in Nat /\ timer'[m] <= BeaconInterval
  BY Ages, Constants DEF BaseInv, TypeOK
<1>2. CASE missing'[n][m] = 0
  BY <1>1, <1>2, Constants
<1>3. CASE missing'[n][m] # 0
  <2>1. missing'[n][m] = missing[n][m]
    BY <1>3 DEF Moves, PairGoesOn
  <2>2. Running(n) /\ Running(m) /\ ~Listed(n, m)
    BY <1>1, <1>3, <2>1 DEF HistoryInv
  <2>3. Beacons(n, m) \subseteq air'
    BY <1>3 DEF Moves, PairGoesOn, Lost, Heard
  <2>4. CASE \E d \in Beacons(n, m) : missing[n][m] <= BeaconInterval + d.age
    BY <2>1, <2>3, <2>4 DEF Beacons
  <2>5. CASE missing[n][m] + timer[m] <= BeaconInterval
    <3>1. CASE timer'[m] = timer[m]
      BY <2>1, <2>5, <3>1
    <3>2. CASE Sends(m, n, "Beacon")
      BY <1>1, <2>1, <2>5, <3>2, Constants DEF Sends
    <3> QED
      BY <3>1, <3>2 DEF Moves, TimerGoesOn
  <2> QED
    BY <2>2, <2>4, <2>5 DEF BeaconInv
<1> QED
  BY <1>2, <1>3

LEMMA BeaconTick ==
  ASSUME BaseInv, HistoryInv, BeaconInv, Tick
  PROVE  BeaconInv'
<1> SUFFICES ASSUME NEW n \in Computers, NEW m \in Computers, n # m,
                    Running(n), Running(m), ~Listed(n, m)
             PROVE  \/ missing'[n][m] + timer'[m] <= BeaconInterval
                    \/ \E d \in air' : /\ d.kind = "Beacon" /\ d.from = m /\ d.to = n
                                       /\ missing'[n][m] <= BeaconInterval + d.age
  <2>1. UNCHANGED <<state, peers>>
    BY DEF Tick
  <2> QED
    BY <2>1 DEF BeaconInv, Listed, Running, Beacons
<1>1. missing[n][m] \in Nat /\ timer[m] \in Nat
  BY Ages
<1>2. /\ missing'[n][m] \in Nat /\ missing'[n][m] <= missing[n][m] + 1
      /\ timer[m] > 0 /\ timer'[m] = timer[m] - 1
  BY <1>1, TickTimes
<1>3. CASE missing[n][m] + timer[m] <= BeaconInterval
  BY <1>1, <1>2, <1>3, Constants
<1>4. ASSUME NEW d \in Beacons(n, m), missing[n][m] <= BeaconInterval + d.age
      PROVE  /\ Aged(d) \in air' /\ Aged(d).kind = "Beacon" /\ Aged(d).from = m /\ Aged(d).to = n
             /\ missing'[n][m] <= BeaconInterval + Aged(d).age
  <2>1. d \in air /\ d.kind = "Beacon" /\ d.from = m /\ d.to = n /\ d.age \in Nat
    BY Ages, Fields DEF Beacons
  <2> QED
    BY <1>1, <1>2, <1>4, <2>1, TickAir, Constants
<1> QED
  BY <1>3, <1>4 DEF BeaconInv

LEMMA AskedMoves ==
  ASSUME BaseInv, BaseInv', HistoryInv, AskedInv, Moves
  PROVE  AskedInv'
<1> SUFFICES ASSUME NEW n \in Computers, NEW m \in asked'[n]
             PROVE  \E d \in air' :
                      \/ /\ d.kind = "Probe" /\ d.from = n /\ d.to = m
                         /\ missing'[n][m] <= d.age
                      \/ /\ d.kind = "Beacon" /\ d.from = m /\ d.to = n
                         /\ missing'[n][m] <= MaxDelay + d.age
  BY DEF AskedInv, Probes, Beacons
<1>1. m \in Computers /\ MaxDelay \in Nat
  BY Constants DEF BaseInv, TypeOK
<1>2. missing'[n][m] \in Nat /\ missing[n][m] \in Nat /\ missing'[n][m] \in {0, missing[n][m]}
  BY <1>1, Ages, Constants DEF BaseInv, TypeOK, Moves, PairGoesOn
<1>3. missing'[n][m] <= missing[n][m]
  BY <1>2
<1>4. CASE missing'[n][m] = 0 /\ Sends(n, m, "Probe")
  BY <1>4, <1>1 DEF Sends
<1>5. CASE /\ m \in asked[n] /\ state'[n] = "Running" /\ state'[m] = "Running"
           /\ Probes(m, n) \subseteq air' \/ Sends(m, n, "Beacon")
  <2>1. Beacons(n, m) \subseteq air'
    BY <1>1, <1>5 DEF Moves, PairGoesOn, Lost, Heard
  <2>2. ASSUME NEW d \in Beacons(n, m), missing[n][m] <= MaxDelay + d.age
        PROVE  missing'[n][m] <= MaxDelay + d.age /\ d \in air'
    <3>1. d.age \in Nat
      BY Ages, Fields DEF Beacons
    <3> QED
      BY <1>1, <1>2, <1>3, <2>1, <2>2, <3>1
  <2>3. ASSUME NEW d \in Probes(m, n), missing[n][m] <= d.age
        PROVE  /\ missing'[n][m] <= d.age /\ d.age \in Nat
               /\ missing'[n][m] <= MaxDelay
               /\ d \in air' \/ Sends(m, n, "Beacon")
    <3>1. d.age \in Nat /\ d.age <= MaxDelay
      BY Ages, Fields DEF Probes
    <3> QED
      BY <1>1, <1>2, <1>3, <1>5, <2>3, <3>1
  <2>4. Sends(m, n, "Beacon") /\ missing'[n][m] <= MaxDelay =>
          \E d \in air' : /\ d.kind = "Beacon" /\ d.from = m /\ d.to = n
                          /\ missing'[n][m] <= MaxDelay + d.age
    BY <1>1, <1>2 DEF Sends
  <2> QED
    BY <1>5, <2>2, <2>3, <2>4 DEF AskedInv, Probes, Beacons
<1> QED
  BY <1>1, <1>4, <1>5 DEF Moves, AskedGoesOn

LEMMA AskedTick ==
  ASSUME BaseInv, HistoryInv, AskedInv, Tick
  PROVE  AskedInv'
<1> SUFFICES ASSUME NEW n \in Computers, NEW m \in asked[n]
             PROVE  \E d \in air' :
                      \/ /\ d.kind = "Probe" /\ d.from = n /\ d.to = m
                         /\ missing'[n][m] <= d.age
                      \/ /\ d.kind = "Beacon" /\ d.from = m /\ d.to = n
                         /\ missing'[n][m] <= MaxDelay + d.age
  BY DEF AskedInv, Probes, Beacons, Tick
<1>1. m \in Computers /\ MaxDelay \in Nat /\ missing[n][m] \in Nat
  BY Ages, Constants
<1>2. missing'[n][m] \in Nat /\ missing'[n][m] <= missing[n][m] + 1
  BY <1>1, TickTimes
<1>3. ASSUME NEW d \in air
      PROVE  /\ Aged(d) \in air' /\ Aged(d).age = d.age + 1 /\ d.age \in Nat
             /\ Aged(d).kind = d.kind /\ Aged(d).from = d.from /\ Aged(d).to = d.to
  BY Ages, Fields, TickAir
<1>4. CASE \E d \in Probes(m, n) : missing[n][m] <= d.age
  <2>1. PICK d \in air : d.kind = "Probe" /\ d.from = n /\ d.to = m /\ missing[n][m] <= d.age
    BY <1>4 DEF Probes
  <2>2. missing'[n][m] <= Aged(d).age
    BY <1>1, <1>2, <1>3, <2>1
  <2> QED
    BY <1>3, <2>1, <2>2
<1>5. CASE \E d \in Beacons(n, m) : missing[n][m] <= MaxDelay + d.age
  <2>1. PICK d \in air : /\ d.kind = "Beacon" /\ d.from = m /\ d.to = n
                         /\ missing[n][m] <= MaxDelay + d.age
    BY <1>5 DEF Beacons
  <2>2. missing'[n][m] <= MaxDelay + Aged(d).age
    BY <1>1, <1>2, <1>3, <2>1
  <2> QED
    BY <1>3, <2>1, <2>2
<1> QED
  BY <1>4, <1>5 DEF AskedInv

LEMMA FoundImplies ==
  ASSUME BaseInv, HistoryInv, BeaconInv, AskedInv
  PROVE  FoundInTime
<1>1. ASSUME NEW n \in Computers, NEW m \in Computers
      PROVE  missing[n][m] <= BeaconInterval + MaxDelay
  <2>1. missing[n][m] \in Nat /\ timer[m] \in Nat
    BY Ages
  <2>2. CASE missing[n][m] = 0
    BY <2>2, Constants
  <2>3. CASE missing[n][m] + timer[m] <= BeaconInterval
    BY <2>1, <2>3, Constants
  <2>4. ASSUME NEW d \in Beacons(n, m), missing[n][m] <= BeaconInterval + d.age
        PROVE  missing[n][m] <= BeaconInterval + MaxDelay
    <3>1. d.age \in Nat /\ d.age <= MaxDelay
      BY Ages, Fields DEF Beacons
    <3> QED
      BY <2>1, <2>4, <3>1, Constants
  <2> QED
    BY <2>1, <2>2, <2>3, <2>4 DEF BeaconInv, HistoryInv
<1>2. ASSUME NEW n \in Computers, NEW m \in asked[n]
      PROVE  missing[n][m] <= 2 * MaxDelay
  <2>1. m \in Computers /\ missing[n][m] \in Nat /\ MaxDelay \in Nat
    BY Ages, Constants
  <2>2. ASSUME NEW d \in Probes(m, n) \cup Beacons(n, m), missing[n][m] <= MaxDelay + d.age
        PROVE  missing[n][m] <= 2 * MaxDelay
    <3>1. d.age \in Nat /\ d.age <= MaxDelay
      BY Ages, Fields DEF Beacons, Probes
    <3> QED
      BY <2>1, <2>2, <3>1
  <2>3. ASSUME NEW d \in Probes(m, n), missing[n][m] <= d.age
        PROVE  missing[n][m] <= MaxDelay + d.age
    <3>1. d.age \in Nat /\ d.age <= MaxDelay
      BY Ages, Fields DEF Beacons, Probes
    <3> QED
      BY <2>1, <2>3, <3>1
  <2> QED
    BY <2>2, <2>3 DEF AskedInv
<1> QED
  BY <1>1, <1>2 DEF FoundInTime, FoundByBeacon, FoundByProbe

-----------------------------------------------------------------------------
(* Which port is listed                                                    *)

\* A datagram of an earlier start is as old as the present one, while its first
\* period lasts; who lists an old port in spite of later beacons that were not
\* lost has the first of them before it.
PortInv ==
  /\ \A m \in Computers : Running(m) =>
       since[m] + timer[m] = BeaconInterval \/ since[m] >= BeaconInterval
  /\ \A d \in air : Running(d.from) /\ d.port # port[d.from] => since[d.from] <= d.age
  /\ \A n, m \in Computers :
       Running(m) /\ peers[n][m] \notin {0, port[m]} /\ lost[n][m] = 0 =>
         \/ since[m] + timer[m] = BeaconInterval
         \/ \E d \in Beacons(n, m) :
              d.port = port[m] /\ since[m] <= BeaconInterval + d.age

LEMMA PortInit == Init => PortInv
BY Constants DEF Init, PortInv, Running

LEMMA PortMoves ==
  ASSUME BaseInv, BaseInv', PortInv, Moves, MaxDelay < BeaconInterval
  PROVE  PortInv'
<1>1. ASSUME NEW m \in Computers
      PROVE  /\ since'[m] \in Nat /\ timer'[m] \in Nat /\ since[m] \in Nat /\ timer[m] \in Nat
             /\ BeaconInterval \in Nat /\ BeaconInterval > 0 /\ MaxDelay \in Nat
  BY Ages, Constants DEF BaseInv, TypeOK
<1>2. ASSUME NEW m \in Computers, state'[m] = "Running"
      PROVE  since'[m] + timer'[m] = BeaconInterval \/ since'[m] >= BeaconInterval
  <2>1. CASE Running(m) /\ timer'[m] = timer[m] /\ since'[m] = since[m]
    BY <2>1 DEF PortInv
  <2>2. CASE Running(m) /\ timer[m] = 0 /\ since'[m] = since[m]
    BY <1>1, <2>2 DEF PortInv
  <2>3. CASE timer'[m] = BeaconInterval /\ since'[m] = 0
    BY <1>1, <2>3
  <2> QED
    BY <1>2, <2>1, <2>2, <2>3 DEF Moves, TimerGoesOn
<1>3. ASSUME NEW d \in air', state'[d.from] = "Running", d.port # port'[d.from]
      PROVE  since'[d.from] <= d.age
  <2>1. d.from \in Computers /\ d.age \in Nat
    BY Fields DEF BaseInv, TypeOK, Datagrams
  <2>2. d \in air
    BY <1>3 DEF Moves
  <2>3. CASE /\ since'[d.from] = since[d.from] /\ Running(d.from)
             /\ port'[d.from] = port[d.from]
    BY <1>3, <2>2, <2>3 DEF PortInv
  <2>4. CASE since'[d.from] = 0
    BY <2>1, <2>4
  <2> QED
    BY <1>3, <2>1, <2>3, <2>4 DEF Moves, GoesOn
<1>4. ASSUME NEW n \in Computers, NEW m \in Computers, state'[m] = "Running",
             peers'[n][m] \notin {0, port'[m]}, lost'[n][m] = 0
      PROVE  \/ since'[m] + timer'[m] = BeaconInterval
             \/ \E d \in air' :
                  /\ d.kind = "Beacon" /\ d.from = m /\ d.to = n /\ d.port = port'[m]
                  /\ since'[m] <= BeaconInterval + d.age
  <2>1. CASE since'[m] < BeaconInterval
    BY <1>1, <1>2, <1>4, <2>1
  <2>2. CASE since'[m] >= BeaconInterval
    <3>1. since'[m] = since[m] /\ Running(m) /\ port'[m] = port[m]
      BY <1>1, <1>4, <2>2 DEF Moves, GoesOn
    <3>2. ~Heard(n, m)
      <4> SUFFICES ASSUME Heard(n, m) PROVE FALSE
        OBVIOUS
      <4>1. PICK d \in air : d.from = m /\ peers'[n][m] = d.port /\ d \in Datagrams
        BY Ages DEF Heard, Beacons
      <4>2. since[m] <= d.age
        BY <1>4, <3>1, <4>1 DEF PortInv
      <4> QED
        BY <1>1, <2>2, <3>1, <4>1, <4>2, Fields
    <3>3. peers'[n][m] = peers[n][m]
      BY <1>4, <3>2 DEF Moves, ListGoesOn
    <3>4. state'[n] = "Running"
      BY <1>4 DEF BaseInv, Listed, Running
    <3>5. lost[n][m] = 0 /\ Beacons(n, m) \subseteq air'
      <4>1. ~Lost(n, m)
        BY <1>4, Ages DEF Lost
      <4> QED
        BY <1>4, <3>2, <3>4, <4>1 DEF Moves, PairGoesOn
    <3>6. CASE \E d \in Beacons(n, m) : d.port = port[m] /\ since[m] <= BeaconInterval + d.age
      BY <3>1, <3>5, <3>6 DEF Beacons
    <3>7. CASE since[m] + timer[m] = BeaconInterval /\ timer'[m] # timer[m]
      <4>1. n # m
        BY <1>4 DEF BaseInv, Listed
      <4>2. Sends(m, n, "Beacon")
        BY <1>4, <3>7, <4>1 DEF Moves, TimerGoesOn
      <4>3. since'[m] <= BeaconInterval
        BY <1>1, <3>1, <3>7
      <4> QED
        BY <1>1, <4>2, <4>3 DEF Sends
    <3> QED
      BY <1>4, <3>1, <3>3, <3>5, <3>6, <3>7 DEF PortInv
  <2> QED
    BY <1>1, <2>1, <2>2
<1> QED
  BY <1>2, <1>3, <1>4 DEF PortInv, Running, Beacons

LEMMA PortTick ==
  ASSUME BaseInv, PortInv, Tick, BeaconInterval + MaxDelay <= PeerExpiry
  PROVE  PortInv'
<1>1. UNCHANGED <<state, port, peers, lost>>
  BY DEF Tick
<1>2. ASSUME NEW m \in Computers, Running(m)
      PROVE  /\ since'[m] \in Nat /\ since[m] \in Nat /\ timer[m] \in Nat /\ timer'[m] = timer[m] - 1
             /\ since'[m] <= since[m] + 1 /\ since[m] <= since'[m] /\ timer[m] > 0
             /\ since'[m] = since[m] => since[m] > BeaconInterval
             /\ BeaconInterval \in Nat
  <2>1. /\ since[m] \in Nat /\ timer[m] \in Nat
        /\ BeaconInterval \in Nat /\ PeerExpiry \in Nat /\ MaxDelay \in Nat
    BY Ages, Constants
  <2>2. /\ since'[m] \in {since[m], since[m] + 1}
        /\ since'[m] = since[m] => since[m] >= PeerExpiry + 1
        /\ timer[m] > 0 /\ timer'[m] = timer[m] - 1
    BY <1>2, TickTimes
  <2> QED
    BY <2>1, <2>2
<1>3. ASSUME NEW m \in Computers, Running(m), since[m] + timer[m] = BeaconInterval
      PROVE  since'[m] + timer'[m] = BeaconInterval
  BY <1>2, <1>3
<1>4. ASSUME NEW m \in Computers, Running(m), since[m] >= BeaconInterval
      PROVE  since'[m] >= BeaconInterval
  BY <1>2, <1>4
<1>5. ASSUME NEW d \in air
      PROVE  /\ Aged(d) \in air' /\ Aged(d).age = d.age + 1 /\ d.age \in Nat /\ Aged(d).port = d.port
             /\ Aged(d).kind = d.kind /\ Aged(d).from = d.from /\ Aged(d).to = d.to
             /\ d.from \in Computers
  BY Ages, Fields, TickAir
<1>6. ASSUME NEW d \in air, Running(d.from), d.port # port[d.from]
      PROVE  since'[d.from] <= Aged(d).age
  BY <1>2, <1>5, <1>6 DEF PortInv
<1>7. \A d \in air' : state'[d.from] = "Running" /\ d.port # port'[d.from] => since'[d.from] <= d.age
  BY <1>1, <1>5, <1>6, TickAir DEF Running
<1>8. ASSUME NEW n \in Computers, NEW m \in Computers, Running(m),
             peers[n][m] \notin {0, port[m]}, lost[n][m] = 0
      PROVE  \/ since'[m] + timer'[m] = BeaconInterval
             \/ \E d \in air' :
                  /\ d.kind = "Beacon" /\ d.from = m /\ d.to = n /\ d.port = port[m]
                  /\ since'[m] <= BeaconInterval + d.age
  <2>1. CASE since[m] + timer[m] = BeaconInterval
    BY <1>3, <1>8, <2>1
  <2>2. CASE \E d \in Beacons(n, m) : d.port = port[m] /\ since[m] <= BeaconInterval + d.age
    <3>1. PICK d \in air : /\ d.kind = "Beacon" /\ d.from = m /\ d.to = n
                           /\ d.port = port[m] /\ since[m] <= BeaconInterval + d.age
      BY <2>2 DEF Beacons
    <3>2. since'[m] <= BeaconInterval + Aged(d).age
      BY <1>2, <1>5, <1>8, <3>1
    <3> QED
      BY <1>5, <3>1, <3>2
  <2> QED
    BY <1>8, <2>1, <2>2 DEF PortInv
<1>9. \A m \in Computers : Running(m) =>
        since'[m] + timer'[m] = BeaconInterval \/ since'[m] >= BeaconInterval
  BY <1>3, <1>4 DEF PortInv
<1> QED
  BY <1>1, <1>7, <1>8, <1>9 DEF PortInv, Running, Beacons

LEMMA PortImplies ==
  ASSUME BaseInv, PortInv
  PROVE  PortCurrent
<1> SUFFICES ASSUME NEW n \in Computers, NEW m \in Computers, Running(m),
                    since[m] > BeaconInterval + MaxDelay, lost[n][m] = 0,
                    peers[n][m] \notin {0, port[m]}
             PROVE  FALSE
  BY DEF PortCurrent
<1>1. since[m] \in Nat /\ timer[m] \in Nat
  BY Ages
<1>2. CASE since[m] + timer[m] = BeaconInterval
  BY <1>1, <1>2, Constants
<1>3. ASSUME NEW d \in Beacons(n, m), since[m] <= BeaconInterval + d.age
      PROVE  FALSE
  <2>1. d.age \in Nat /\ d.age <= MaxDelay
    BY Ages, Fields DEF Beacons
  <2> QED
    BY <1>1, <1>3, <2>1, Constants
<1> QED
  BY <1>2, <1>3 DEF PortInv

-----------------------------------------------------------------------------
(* Who stays                                                               *)

\* The beacons from m to n in a set of datagrams that are at least so old.
OldIn(S, n, m, age) ==
  {d \in S : d.kind = "Beacon" /\ d.from = m /\ d.to = n /\ d.age >= age}

LEMMA SameFields ==
  ASSUME NEW d \in Datagrams, NEW e \in Datagrams,
         d.kind = e.kind, d.from = e.from, d.to = e.to, d.port = e.port, d.age = e.age
  PROVE  d = e
BY DEF Datagrams

\* There are only so many ports and ages.
LEMMA OldFinite ==
  ASSUME NEW S \in SUBSET Datagrams, NEW n, NEW m, NEW age
  PROVE  /\ IsFiniteSet(OldIn(S, n, m, age))
         /\ Cardinality(OldIn(S, n, m, age)) \in Nat
<1> DEFINE O == OldIn(S, n, m, age)
           P == (0 .. MaxEvents) \X (0 .. MaxDelay)
           f == [d \in O |-> <<d.port, d.age>>]
<1>1. IsFiniteSet(P)
  <2>1. IsFiniteSet(0 .. MaxEvents) /\ IsFiniteSet(0 .. MaxDelay)
    BY FS_Interval, Constants
  <2> QED
    BY <2>1, FS_Product
<1>2. \A d \in O : d \in Datagrams /\ d.kind = "Beacon" /\ d.from = m /\ d.to = n
  BY DEF OldIn
<1>3. \A d \in O : <<d.port, d.age>> \in P
  BY <1>2, Fields, Constants
<1>4. ASSUME NEW d \in O, NEW e \in O, f[d] = f[e] PROVE d = e
  <2>1. d.port = e.port /\ d.age = e.age
    BY <1>4
  <2> QED
    BY <1>2, <2>1, SameFields
<1>5. f \in Injection(O, P)
  <2>1. f \in [O -> P]
    BY <1>3
  <2> HIDE DEF O, P, f
  <2> QED
    BY <1>4, <2>1 DEF Injection, IsInjective
<1>6. IsFiniteSet(O)
  BY <1>1, <1>5, FS_Injection
<1> QED
  BY <1>6, FS_CardinalityType

\* A tick makes as many beacons a tick older.
LEMMA OldAged ==
  ASSUME BaseInv, BaseInv', Tick, NEW n, NEW m, NEW age \in Nat
  PROVE  Cardinality(OldIn(air, n, m, age)) <= Cardinality(OldIn(air', n, m, age + 1))
<1> DEFINE O == OldIn(air, n, m, age)
           A == OldIn(air', n, m, age + 1)
           f == [d \in O |-> Aged(d)]
<1>1. air \in SUBSET Datagrams /\ air' \in SUBSET Datagrams
  BY DEF BaseInv, TypeOK, Datagrams
<1>2. \A d \in O : /\ d \in air /\ d \in Datagrams /\ d.age \in Nat /\ d.age >= age
                  /\ d.kind = "Beacon" /\ d.from = m /\ d.to = n
  BY <1>1, Fields DEF OldIn
<1>3. \A d \in O : Aged(d) \in A
  BY <1>2, TickAir DEF OldIn
<1>4. ASSUME NEW d \in O, NEW e \in O, Aged(d) = Aged(e) PROVE d = e
  <2>1. d.port = e.port /\ d.age = e.age
    BY <1>2, <1>4, TickAir
  <2> QED
    BY <1>2, <2>1, SameFields
<1>5. f \in Injection(O, A)
  <2>1. f \in [O -> A]
    BY <1>3
  <2>2. \A d, e \in O : f[d] = f[e] => d = e
    BY <1>4
  <2> HIDE DEF O, A, f
  <2> QED
    BY <2>1, <2>2 DEF Injection, IsInjective
<1>6. IsFiniteSet(A)
  BY <1>1, OldFinite
<1> HIDE DEF f, O, A
<1>7. Cardinality(O) <= Cardinality(A)
  BY <1>5, <1>6, FS_Injection
<1> QED
  BY <1>7 DEF O, A

\* The beacons of m to n since the last that came which are lost, or under way
\* for so long.
Spent(n, m, age) == lost[n][m] + Cardinality(OldIn(air, n, m, age))

\* Since m was heard, or began to run, it has sent a beacon every period: those
\* older than an age are as many as periods fit before it.
StayInv ==
  \A n, m \in Computers : Running(m) /\ Listed(n, m) =>
    \A r \in Nat : r <= seen[n][m] /\ r <= since[m] =>
      /\ \A age \in 1 .. MaxDelay + 1 :
           r <= BeaconInterval * Spent(n, m, age) + age + BeaconInterval - 1
      /\ r + timer[m] <= BeaconInterval * Spent(n, m, 0) + BeaconInterval

LEMMA StayInit == Init => StayInv
BY DEF Init, StayInv, Running

\* Periods.
LEMMA Periods ==
  ASSUME NEW a \in Nat, NEW b \in Nat, a <= b
  PROVE  /\ BeaconInterval * a \in Nat
         /\ BeaconInterval * a <= BeaconInterval * b
         /\ BeaconInterval * (a + 1) = BeaconInterval * a + BeaconInterval
<1>1. BeaconInterval \in Nat
  BY Constants
<1>2. PICK c \in Nat : b = a + c
  <2>1. b - a \in Nat /\ b = a + (b - a)
    OBVIOUS
  <2> QED
    BY <2>1
<1>3. BeaconInterval * b = BeaconInterval * a + BeaconInterval * c
  BY <1>1, <1>2
<1>4. BeaconInterval * a \in Nat /\ BeaconInterval * c \in Nat
  BY <1>1
<1>5. BeaconInterval * (a + 1) = BeaconInterval * a + BeaconInterval
  BY <1>1
<1> QED
  BY <1>3, <1>4, <1>5

LEMMA SpentType ==
  ASSUME BaseInv, NEW n \in Computers, NEW m \in Computers, NEW age
  PROVE  Spent(n, m, age) \in Nat /\ Cardinality(OldIn(air, n, m, age)) \in Nat
<1>1. air \in SUBSET Datagrams
  BY DEF BaseInv, TypeOK
<1> QED
  BY <1>1, OldFinite, Ages DEF Spent

\* Nothing that was spent between two ticks is spent no more, unless m is heard.
LEMMA SpentMoves ==
  ASSUME BaseInv, BaseInv', Moves, NEW n \in Computers, NEW m \in Computers,
         state'[n] = "Running", state'[m] = "Running", ~Heard(n, m), NEW age
  PROVE  Spent(n, m, age) <= lost'[n][m] + Cardinality(OldIn(air', n, m, age))
<1> DEFINE O == OldIn(air, n, m, age)
           A == OldIn(air', n, m, age)
<1>1. IsFiniteSet(O) /\ IsFiniteSet(A) /\ Cardinality(O) \in Nat /\ Cardinality(A) \in Nat
  <2>1. air \in SUBSET Datagrams /\ air' \in SUBSET Datagrams
    BY DEF BaseInv, TypeOK, Datagrams
  <2> QED
    BY <2>1, OldFinite
<1>2. lost[n][m] \in Nat
  BY Ages
<1>3. CASE Lost(n, m)
  <2>1. PICK d \in Beacons(n, m) : air' = air \ {d}
    BY <1>3 DEF Lost
  <2>2. A = O \ {d}
    BY <2>1 DEF OldIn
  <2>3. Cardinality(O) <= Cardinality(A) + 1
    BY <1>1, <2>2, FS_RemoveElement
  <2>4. lost'[n][m] = lost[n][m] + 1
    BY <1>3 DEF Lost
  <2> QED
    BY <1>1, <1>2, <2>3, <2>4 DEF Spent
<1>4. CASE lost'[n][m] = lost[n][m] /\ Beacons(n, m) \subseteq air'
  <2>1. O \subseteq A
    BY <1>4 DEF OldIn, Beacons
  <2>2. Cardinality(O) <= Cardinality(A)
    BY <1>1, <2>1, FS_Subset
  <2> QED
    BY <1>1, <1>2, <1>4, <2>2 DEF Spent
<1> QED
  BY <1>3, <1>4 DEF Moves, PairGoesOn

\* A new beacon comes on top of those a tick old.
LEMMA SpentSends ==
  ASSUME BaseInv, BaseInv', Moves, NEW n \in Computers, NEW m \in Computers,
         state'[n] = "Running", state'[m] = "Running", ~Heard(n, m),
         timer' # timer, Sends(m, n, "Beacon")
  PROVE  Spent(n, m, 1) + 1 <= lost'[n][m] + Cardinality(OldIn(air', n, m, 0))
<1> DEFINE O == OldIn(air, n, m, 1)
           A == OldIn(air', n, m, 0)
<1>1. /\ IsFiniteSet(O) /\ IsFiniteSet(A) /\ Cardinality(O) \in Nat /\ Cardinality(A) \in Nat
      /\ air \subseteq Datagrams
  <2>1. air \in SUBSET Datagrams /\ air' \in SUBSET Datagrams
    BY DEF BaseInv, TypeOK, Datagrams
  <2> QED
    BY <2>1, OldFinite
<1>2. lost[n][m] \in Nat
  BY Ages
<1>3. lost'[n][m] = lost[n][m] /\ Beacons(n, m) \subseteq air'
  BY DEF Moves, PairGoesOn, Lost
<1>4. PICK d \in air' : d.kind = "Beacon" /\ d.from = m /\ d.to = n /\ d.age = 0
  BY DEF Sends
<1>5. d \notin O /\ O \cup {d} \subseteq A
  <2>1. \A e \in O : e.age \in Nat /\ e.age >= 1 /\ e \in Beacons(n, m)
    BY <1>1, Fields DEF OldIn, Beacons
  <2> QED
    BY <1>3, <1>4, <2>1 DEF OldIn, Beacons
<1>6. IsFiniteSet(O \cup {d}) /\ Cardinality(O \cup {d}) = Cardinality(O) + 1
  BY <1>1, <1>5, FS_AddElement
<1>7. Cardinality(O) + 1 <= Cardinality(A)
  BY <1>1, <1>5, <1>6, FS_Subset
<1> QED
  BY <1>1, <1>2, <1>3, <1>7 DEF Spent

LEMMA StayMoves ==
  ASSUME BaseInv, BaseInv', StayInv, Moves
  PROVE  StayInv'
<1> SUFFICES ASSUME NEW n \in Computers, NEW m \in Computers,
                    state'[m] = "Running", peers'[n][m] # 0,
                    NEW r \in Nat, r <= seen'[n][m], r <= since'[m]
             PROVE  /\ \A age \in 1 .. MaxDelay + 1 :
                         r <= BeaconInterval * (lost'[n][m] + Cardinality(OldIn(air', n, m, age)))
                                + age + BeaconInterval - 1
                    /\ r + timer'[m] <=
                         BeaconInterval * (lost'[n][m] + Cardinality(OldIn(air', n, m, 0)))
                           + BeaconInterval
  BY DEF StayInv, Spent, Running, Listed
<1> DEFINE after(age) == lost'[n][m] + Cardinality(OldIn(air', n, m, age))
<1>1. /\ BeaconInterval \in Nat /\ BeaconInterval > 0 /\ MaxDelay \in Nat
      /\ timer'[m] \in Nat /\ timer'[m] <= BeaconInterval
      /\ timer[m] \in Nat
  BY Ages, Constants DEF BaseInv, TypeOK
<1>2. \A age : after(age) \in Nat
  <2>1. air' \in SUBSET Datagrams /\ lost'[n][m] \in Nat
    BY Constants DEF BaseInv, TypeOK, Datagrams
  <2> QED
    BY <2>1, OldFinite
<1>3. \A age : BeaconInterval * after(age) \in Nat
  BY <1>2, Periods
<1>4. CASE r = 0
  <2> HIDE DEF after
  <2>1. \A age \in 1 .. MaxDelay + 1 : r <= BeaconInterval * after(age) + age + BeaconInterval - 1
    BY <1>1, <1>3, <1>4
  <2>2. r + timer'[m] <= BeaconInterval * after(0) + BeaconInterval
    BY <1>1, <1>3, <1>4
  <2> QED
    BY <2>1, <2>2 DEF after
<1>5. CASE r # 0
  <2>1. since'[m] = since[m] /\ Running(m)
    BY <1>5 DEF Moves, GoesOn
  <2>2. ~Heard(n, m)
    BY <1>5 DEF Heard
  <2>3. peers'[n][m] = peers[n][m] /\ seen'[n][m] = seen[n][m]
    BY <2>2 DEF Moves, ListGoesOn
  <2>4. state'[n] = "Running" /\ n # m
    BY DEF BaseInv, Listed, Running
  <2>5. /\ \A age \in 1 .. MaxDelay + 1 :
             r <= BeaconInterval * Spent(n, m, age) + age + BeaconInterval - 1
        /\ r + timer[m] <= BeaconInterval * Spent(n, m, 0) + BeaconInterval
    BY <2>1, <2>3 DEF StayInv, Listed
  <2>6. ASSUME NEW age
        PROVE  /\ Spent(n, m, age) \in Nat /\ BeaconInterval * Spent(n, m, age) \in Nat
               /\ BeaconInterval * Spent(n, m, age) <= BeaconInterval * after(age)
    <3>1. Spent(n, m, age) \in Nat /\ Spent(n, m, age) <= after(age)
      BY <2>2, <2>4, SpentType, SpentMoves
    <3> HIDE DEF after
    <3> QED
      BY <1>2, <3>1, Periods
  <2> HIDE DEF after
  <2>7. \A age \in 1 .. MaxDelay + 1 : r <= BeaconInterval * after(age) + age + BeaconInterval - 1
    <3> TAKE age \in 1 .. MaxDelay + 1
    <3>1. age \in Nat
      BY <1>1
    <3> QED
      BY <1>1, <1>3, <2>5, <2>6, <3>1
  <2>8. r + timer'[m] <= BeaconInterval * after(0) + BeaconInterval
    <3>1. CASE timer'[m] = timer[m]
      BY <1>1, <1>3, <2>5, <2>6, <3>1
    <3>2. CASE timer'[m] # timer[m]
      <4>1. timer'[m] = BeaconInterval /\ Sends(m, n, "Beacon")
        BY <2>4, <3>2 DEF Moves, TimerGoesOn
      <4>2. Spent(n, m, 1) + 1 <= after(0)
        BY <2>2, <2>4, <3>2, <4>1, SpentSends DEF after
      <4>3. BeaconInterval * (Spent(n, m, 1) + 1) <= BeaconInterval * after(0)
        BY <1>2, <2>6, <4>2, Periods
      <4>4. BeaconInterval * (Spent(n, m, 1) + 1) = BeaconInterval * Spent(n, m, 1) + BeaconInterval
        BY <2>6, Periods
      <4>5. r <= BeaconInterval * Spent(n, m, 1) + BeaconInterval
        <5>1. r <= BeaconInterval * Spent(n, m, 1) + 1 + BeaconInterval - 1
          BY <1>1, <2>5
        <5> QED
          BY <1>1, <2>6, <5>1
      <4> QED
        BY <1>1, <1>3, <2>6, <4>1, <4>3, <4>4, <4>5
    <3> QED
      BY <3>1, <3>2
  <2> QED
    BY <2>7, <2>8 DEF after
<1> QED
  BY <1>4, <1>5

LEMMA StayTick ==
  ASSUME BaseInv, BaseInv', StayInv, Tick
  PROVE  StayInv'
<1> SUFFICES ASSUME NEW n \in Computers, NEW m \in Computers,
                    state'[m] = "Running", peers'[n][m] # 0,
                    NEW r \in Nat, r <= seen'[n][m], r <= since'[m]
             PROVE  /\ \A age \in 1 .. MaxDelay + 1 :
                         r <= BeaconInterval * (lost'[n][m] + Cardinality(OldIn(air', n, m, age)))
                                + age + BeaconInterval - 1
                    /\ r + timer'[m] <=
                         BeaconInterval * (lost'[n][m] + Cardinality(OldIn(air', n, m, 0)))
                           + BeaconInterval
  BY DEF StayInv, Spent, Running, Listed
<1> DEFINE after(age) == lost'[n][m] + Cardinality(OldIn(air', n, m, age))
<1>1. Running(m) /\ Listed(n, m) /\ lost' = lost
  BY DEF Tick, Running, Listed
<1>2. /\ BeaconInterval \in Nat /\ BeaconInterval > 0 /\ MaxDelay \in Nat
      /\ timer[m] \in Nat /\ timer[m] > 0 /\ timer[m] <= BeaconInterval
      /\ timer'[m] = timer[m] - 1
      /\ seen[n][m] \in Nat /\ seen'[n][m] = seen[n][m] + 1
      /\ since[m] \in Nat /\ since'[m] \in {since[m], since[m] + 1}
  BY <1>1, Ages, Constants, TickTimes
<1>3. \A age : after(age) \in Nat
  <2>1. air' \in SUBSET Datagrams /\ lost'[n][m] \in Nat
    BY Constants DEF BaseInv, TypeOK, Datagrams
  <2> QED
    BY <2>1, OldFinite
<1>4. \A age : BeaconInterval * after(age) \in Nat
  BY <1>3, Periods
<1>5. CASE r = 0
  <2> HIDE DEF after
  <2>1. \A age \in 1 .. MaxDelay + 1 : r <= BeaconInterval * after(age) + age + BeaconInterval - 1
    BY <1>2, <1>4, <1>5
  <2>2. r + timer'[m] <= BeaconInterval * after(0) + BeaconInterval
    BY <1>2, <1>4, <1>5
  <2> QED
    BY <2>1, <2>2 DEF after
<1>6. CASE r # 0
  <2>1. PICK q \in Nat : r = q + 1
    <3>1. r - 1 \in Nat /\ r = (r - 1) + 1
      BY <1>6
    <3> QED
      BY <3>1
  <2>2. q <= seen[n][m] /\ q <= since[m]
    BY <1>2, <2>1
  <2>3. /\ \A age \in 1 .. MaxDelay + 1 :
             q <= BeaconInterval * Spent(n, m, age) + age + BeaconInterval - 1
        /\ q + timer[m] <= BeaconInterval * Spent(n, m, 0) + BeaconInterval
    BY <1>1, <2>2 DEF StayInv
  <2>4. ASSUME NEW age \in Nat
        PROVE  /\ BeaconInterval * Spent(n, m, age) \in Nat
               /\ BeaconInterval * Spent(n, m, age) <= BeaconInterval * after(age + 1)
    <3>1. Spent(n, m, age) \in Nat /\ Cardinality(OldIn(air, n, m, age)) \in Nat
      BY SpentType
    <3>2. Cardinality(OldIn(air, n, m, age)) <= Cardinality(OldIn(air', n, m, age + 1))
      BY OldAged
    <3>3. Cardinality(OldIn(air', n, m, age + 1)) \in Nat /\ lost[n][m] \in Nat
      <4>1. air' \in SUBSET Datagrams
        BY DEF BaseInv, TypeOK, Datagrams
      <4> QED
        BY <4>1, OldFinite, Ages
    <3>4. Spent(n, m, age) <= after(age + 1)
      BY <1>1, <3>1, <3>2, <3>3 DEF Spent
    <3> HIDE DEF after
    <3> QED
      BY <1>3, <3>1, <3>4, Periods
  <2>5. BeaconInterval * after(1) <= BeaconInterval * after(0)
    <3>1. OldIn(air', n, m, 1) \subseteq OldIn(air', n, m, 0)
      <4>1. \A d \in air' : d.age \in Nat
        BY Fields DEF BaseInv, TypeOK, Datagrams
      <4> QED
        BY <4>1 DEF OldIn
    <3>2. air' \in SUBSET Datagrams /\ lost'[n][m] \in Nat
      BY Constants DEF BaseInv, TypeOK, Datagrams
    <3>3. /\ IsFiniteSet(OldIn(air', n, m, 0))
          /\ Cardinality(OldIn(air', n, m, 0)) \in Nat /\ Cardinality(OldIn(air', n, m, 1)) \in Nat
      BY <3>2, OldFinite
    <3>4. Cardinality(OldIn(air', n, m, 1)) <= Cardinality(OldIn(air', n, m, 0))
      BY <3>1, <3>3, FS_Subset
    <3>5. after(1) <= after(0)
      BY <3>2, <3>3, <3>4
    <3> HIDE DEF after
    <3> QED
      BY <1>3, <3>5, Periods
  <2> HIDE DEF after
  <2>6. \A age \in 1 .. MaxDelay + 1 : r <= BeaconInterval * after(age) + age + BeaconInterval - 1
    <3> TAKE age \in 1 .. MaxDelay + 1
    <3>1. PICK a \in Nat : age = a + 1 /\ a <= MaxDelay
      <4>1. age - 1 \in Nat /\ age = (age - 1) + 1 /\ age - 1 <= MaxDelay
        BY <1>2
      <4> QED
        BY <4>1
    <3>2. /\ BeaconInterval * Spent(n, m, a) \in Nat
          /\ BeaconInterval * Spent(n, m, a) <= BeaconInterval * after(age)
      BY <2>4, <3>1
    <3>3. q <= BeaconInterval * Spent(n, m, a) + a + BeaconInterval - 1
      <4>1. CASE a = 0
        BY <1>2, <2>3, <3>2, <4>1
      <4>2. CASE a # 0
        <5>1. a \in 1 .. MaxDelay + 1
          BY <1>2, <3>1, <4>2
        <5> QED
          BY <2>3, <5>1
      <4> QED
        BY <4>1, <4>2
    <3> QED
      BY <1>2, <1>4, <2>1, <3>1, <3>2, <3>3
  <2>7. r + timer'[m] <= BeaconInterval * after(0) + BeaconInterval
    <3>1. /\ BeaconInterval * Spent(n, m, 0) \in Nat
          /\ BeaconInterval * Spent(n, m, 0) <= BeaconInterval * after(1)
      BY <2>4
    <3> QED
      BY <1>2, <1>4, <2>1, <2>3, <2>5, <3>1
  <2> QED
    BY <2>6, <2>7 DEF after
<1> QED
  BY <1>5, <1>6

\* Losses in proportion.
LEMMA Losses ==
  ASSUME NEW k \in Nat, PeerExpiry + 1 <= BeaconInterval * k + (MaxDelay + 1) + BeaconInterval - 1
  PROVE  k >= (PeerExpiry - MaxDelay) \div BeaconInterval
<1>1. /\ BeaconInterval \in Nat /\ BeaconInterval > 0 /\ PeerExpiry \in Nat /\ MaxDelay \in Nat
  BY Constants
<1>2. PICK q \in Int : q = (PeerExpiry - MaxDelay) \div BeaconInterval
  BY <1>1
<1>3. BeaconInterval * q <= PeerExpiry - MaxDelay
  BY <1>1, <1>2
<1>4. BeaconInterval * k \in Nat /\ BeaconInterval * (k + 1) = BeaconInterval * k + BeaconInterval
  BY Periods
<1>5. CASE q >= k + 1
  <2>1. q \in Nat
    BY <1>5
  <2>2. BeaconInterval * (k + 1) <= BeaconInterval * q
    BY <1>5, <2>1, Periods
  <2>3. BeaconInterval * q \in Nat
    BY <2>1, Periods
  <2> QED
    BY <1>1, <1>3, <1>4, <2>2, <2>3
<1> QED
  BY <1>2, <1>5

LEMMA StayImplies ==
  ASSUME BaseInv, StayInv, NEW n \in Computers, NEW m \in Computers, IntervalFires(n),
         Listed(n, m), peers'[n][m] = 0, Running(m), since[m] > PeerExpiry
  PROVE  lost[n][m] >= (PeerExpiry - MaxDelay) \div BeaconInterval
<1>1. seen[n][m] > PeerExpiry /\ seen[n][m] \in Nat /\ since[m] \in Nat
  BY FiresPeers, Ages DEF Listed
<1>2. PeerExpiry + 1 \in Nat /\ PeerExpiry + 1 <= seen[n][m] /\ PeerExpiry + 1 <= since[m]
  BY <1>1, Constants
<1>3. MaxDelay + 1 \in 1 .. MaxDelay + 1
  BY Constants
<1>4. PeerExpiry + 1 <=
        BeaconInterval * Spent(n, m, MaxDelay + 1) + (MaxDelay + 1) + BeaconInterval - 1
  BY <1>2, <1>3 DEF StayInv
<1>5. OldIn(air, n, m, MaxDelay + 1) = {}
  <2>1. \A d \in air : d.age \in Nat /\ d.age <= MaxDelay
    BY Ages, Fields
  <2> QED
    BY <2>1, Constants DEF OldIn
<1>6. Spent(n, m, MaxDelay + 1) = lost[n][m] /\ lost[n][m] \in Nat
  <2>1. Cardinality({}) = 0
    BY FS_EmptySet
  <2>2. Cardinality(OldIn(air, n, m, MaxDelay + 1)) = 0
    BY <1>5, <2>1
  <2>3. lost[n][m] \in Nat
    BY Ages
  <2> QED
    BY <2>2, <2>3 DEF Spent
<1> QED
  BY <1>4, <1>6, Losses

-----------------------------------------------------------------------------
(* Theorems                                                                *)

\* What every state satisfies, whatever the times.
IInv == BaseInv /\ HistoryInv /\ OfflineInv /\ BeaconInv /\ AskedInv /\ StayInv

LEMMA IInvNext ==
  ASSUME IInv, [Next]_vars
  PROVE  IInv'
<1>1. CASE UNCHANGED vars
  <2>1. /\ UNCHANGED <<state, port, timer, peers, seen, answered, air>>
        /\ UNCHANGED <<since, missing, lost, asked, used>>
    BY <1>1 DEF vars, serviceVars, historyVars
  <2>2. BaseInv'
    BY <2>1 DEF IInv, BaseInv, TypeOK, Listed, Running, Datagrams
  <2>3. HistoryInv' /\ OfflineInv'
    BY <2>1 DEF IInv, HistoryInv, OfflineInv, Listed, Running
  <2>4. BeaconInv' /\ AskedInv'
    BY <2>1 DEF IInv, BeaconInv, AskedInv, Beacons, Probes, Listed, Running
  <2>5. StayInv'
    BY <2>1 DEF IInv, StayInv, Spent, Listed, Running
  <2> QED
    BY <2>2, <2>3, <2>4, <2>5 DEF IInv
<1>2. CASE Next
  <2>1. BaseInv'
    BY <1>2, BaseNext DEF IInv
  <2>2. CASE Moves
    BY <2>1, <2>2, HistoryMoves, OfflineMoves, BeaconMoves, AskedMoves, StayMoves DEF IInv
  <2>3. CASE Tick
    BY <2>1, <2>3, HistoryTick, OfflineTick, BeaconTick, AskedTick, StayTick DEF IInv
  <2> QED
    BY <1>2, <2>2, <2>3, NextMoves DEF IInv
<1> QED
  BY <1>1, <1>2

LEMMA IInvAlways == Spec => []IInv
<1>1. Init => IInv
  BY BaseInit, HistoryInit, OfflineInit, FoundInit, StayInit DEF IInv
<1>2. IInv /\ [Next]_vars => IInv'
  BY IInvNext
<1> QED
  BY <1>1, <1>2, PTL DEF Spec

\* The variables keep their types; nobody is listed longer than one period
\* beyond the expiry.
THEOREM TypeCorrect == Spec => []TypeOK
<1>1. IInv => TypeOK
  BY DEF IInv, BaseInv
<1> QED
  BY <1>1, IInvAlways, PTL

\* Who does not run is forgotten everywhere in time, whatever crossed its end.
THEOREM OfflineForgottenHolds == Spec => []OfflineForgotten
<1>1. IInv => OfflineForgotten
  BY OfflineImplies DEF IInv
<1> QED
  BY <1>1, IInvAlways, PTL

\* Who runs is found within a period and the delay of a beacon, and after a
\* refresh within two delays unless a datagram is lost or the throttle met.
THEOREM FoundInTimeHolds == Spec => []FoundInTime
<1>1. IInv => FoundInTime
  BY FoundImplies DEF IInv
<1> QED
  BY <1>1, IInvAlways, PTL

\* The list leads to the port of the last start, when datagrams are faster than
\* a period and the expiry leaves time for a late beacon.  Both hold of two and
\* seven seconds on a local network; of slower datagrams the property is false.
THEOREM PortCurrentHolds ==
  ASSUME MaxDelay < BeaconInterval, BeaconInterval + MaxDelay <= PeerExpiry
  PROVE  Spec => []PortCurrent
<1>1. Init => PortInv
  BY PortInit
<1>2. IInv /\ IInv' /\ PortInv /\ [Next]_vars => PortInv'
  <2> SUFFICES ASSUME IInv, IInv', PortInv, [Next]_vars PROVE PortInv'
    OBVIOUS
  <2>1. CASE UNCHANGED vars
    <3>1. UNCHANGED <<state, port, timer, peers, seen, air, since, missing, lost>>
      BY <2>1 DEF vars, serviceVars, historyVars
    <3> QED
      BY <3>1 DEF PortInv, Beacons, Running
  <2>2. CASE Next
    BY <2>2, NextMoves, PortMoves, PortTick DEF IInv
  <2> QED
    BY <2>1, <2>2
<1>3. IInv /\ PortInv => PortCurrent
  BY PortImplies DEF IInv
<1> QED
  BY <1>1, <1>2, <1>3, IInvAlways, PTL DEF Spec

\* The expiry drops nobody who has run all the time but after as many losses in
\* a row as there are beacons due before it.
THEOREM PeersStayHolds == Spec => PeersStay
<1>1. IInv /\ [Next]_vars =>
        [\A n, m \in Computers :
           IntervalFires(n) /\ Listed(n, m) /\ peers'[n][m] = 0 =>
             lost[n][m] >= (PeerExpiry - MaxDelay) \div BeaconInterval
               \/ ~Running(m) \/ since[m] <= PeerExpiry]_vars
  <2> SUFFICES ASSUME IInv, NEW n \in Computers, NEW m \in Computers, IntervalFires(n),
                      Listed(n, m), peers'[n][m] = 0, Running(m), ~(since[m] <= PeerExpiry)
               PROVE  lost[n][m] >= (PeerExpiry - MaxDelay) \div BeaconInterval
    OBVIOUS
  <2>1. since[m] > PeerExpiry
    BY Ages, Constants DEF IInv
  <2> QED
    BY <2>1, StayImplies DEF IInv
<1> QED
  BY <1>1, IInvAlways, PTL DEF Spec, PeersStay

-----------------------------------------------------------------------------
(* Media sessions: the two sides                                           *)

LEMMA Pair ==
  /\ \A s \in Sides : Peer(s) \in Sides /\ Peer(s) # s /\ Peer(Peer(s)) = s
  /\ \A s, t \in Sides : s = t \/ t = Peer(s)
<1>1. PICK a, b \in Sides : a # b /\ Sides = {a, b}
  BY SidesAssumption
<1>2. Peer(a) = b
  BY <1>1, Zenon DEF Peer
<1>3. Peer(b) = a
  BY <1>1, Zenon DEF Peer
<1> QED
  BY <1>1, <1>2, <1>3

-----------------------------------------------------------------------------
(* Queues                                                                  *)

LEMMA AppendFacts ==
  ASSUME NEW S, NEW q \in Seq(S), NEW e \in S
  PROVE  /\ Append(q, e) \in Seq(S) /\ Len(Append(q, e)) = Len(q) + 1 /\ Len(q) \in Nat
         /\ DOMAIN Append(q, e) = 1 .. Len(q) + 1 /\ DOMAIN q = 1 .. Len(q)
         /\ Append(q, e)[Len(q) + 1] = e
         /\ \A i \in 1 .. Len(q) : Append(q, e)[i] = q[i]
OBVIOUS

LEMMA TailFacts ==
  ASSUME NEW S, NEW q \in Seq(S), q # <<>>
  PROVE  /\ Tail(q) \in Seq(S) /\ Len(Tail(q)) = Len(q) - 1 /\ Len(q) \in Nat
         /\ Head(q) \in S /\ Head(q) = q[1] /\ 1 \in DOMAIN q
         /\ DOMAIN Tail(q) = 1 .. Len(q) - 1 /\ DOMAIN q = 1 .. Len(q)
         /\ \A i \in 1 .. Len(q) - 1 : Tail(q)[i] = q[i + 1]
OBVIOUS

LEMMA ConcatFacts ==
  ASSUME NEW S, NEW q \in Seq(S), NEW r \in Seq(S)
  PROVE  /\ q \o r \in Seq(S) /\ Len(q \o r) = Len(q) + Len(r)
         /\ Len(q) \in Nat /\ Len(r) \in Nat
         /\ DOMAIN (q \o r) = 1 .. Len(q) + Len(r)
         /\ DOMAIN q = 1 .. Len(q) /\ DOMAIN r = 1 .. Len(r)
         /\ \A i \in 1 .. Len(q) : (q \o r)[i] = q[i]
         /\ \A i \in 1 .. Len(r) : (q \o r)[Len(q) + i] = r[i]
OBVIOUS

-----------------------------------------------------------------------------
(* Windows, one handler at a time                                          *)

\* A window while one of its handlers runs.
ActiveWindows ==
  [role : Roles, generation : Nat, pc : Connections, announced : BOOLEAN,
   local : BOOLEAN, leaked : BOOLEAN, waiting : Seq(BOOLEAN), rtc : Seq(Operations),
   signals : Seq(Signals), candidates : SUBSET Nat, locals : Seq(Signals),
   timer : BOOLEAN, state : States, accepted : Roles, shown : Roles,
   out : Seq(Signals)]

LEMMA WindowFields ==
  ASSUME NEW w \in ActiveWindows
  PROVE  /\ w.role \in Roles /\ w.generation \in Nat /\ w.pc \in Connections
         /\ w.announced \in BOOLEAN /\ w.waiting \in Seq(BOOLEAN)
         /\ w.rtc \in Seq(Operations) /\ w.signals \in Seq(Signals)
         /\ w.candidates \in SUBSET Nat /\ w.locals \in Seq(Signals)
         /\ w.timer \in BOOLEAN /\ w.local \in BOOLEAN /\ w.leaked \in BOOLEAN
         /\ w.state \in States /\ w.accepted \in Roles
         /\ w.shown \in Roles /\ w.out \in Seq(Signals)
BY DEF ActiveWindows

LEMMA ConnectionFields ==
  ASSUME NEW c \in Connections
  PROVE  /\ c.open \in BOOLEAN /\ c.born \in Nat /\ c.local \in Nat
         /\ c.remote \in Nat /\ c.by \in Nat /\ c.added \in SUBSET Nat
         /\ c.refused \in SUBSET Nat /\ c.gathering \in BOOLEAN
         /\ c.tracks \in BOOLEAN
BY DEF Connections

LEMMA ClosedFacts ==
  /\ Closed \in Connections
  /\ ~Closed.open /\ Closed.born = 0 /\ Closed.local = 0 /\ Closed.remote = 0
  /\ Closed.by = 0 /\ Closed.added = {} /\ Closed.refused = {}
  /\ ~Closed.gathering /\ ~Closed.tracks
BY DEF Closed, Connections

NoneWaits(w) == [i \in DOMAIN w.waiting |-> FALSE]

LEMMA NoneWaitsFacts ==
  ASSUME NEW w \in ActiveWindows
  PROVE  /\ NoneWaits(w) \in Seq(BOOLEAN) /\ Len(NoneWaits(w)) = Len(w.waiting)
         /\ \A i \in DOMAIN NoneWaits(w) : ~NoneWaits(w)[i]
<1> DEFINE q == w.waiting
           r == [i \in 1 .. Len(q) |-> FALSE]
<1>1. q \in Seq(BOOLEAN)
  BY WindowFields
<1> HIDE DEF q
<1>2. DOMAIN q = 1 .. Len(q) /\ Len(q) \in Nat
  BY <1>1
<1>3. NoneWaits(w) = r
  BY <1>2, Zenon DEF NoneWaits, q
<1>4. r \in Seq(BOOLEAN) /\ Len(r) = Len(q) /\ DOMAIN r = 1 .. Len(q)
  BY <1>2
<1>5. \A i \in 1 .. Len(q) : ~r[i]
  OBVIOUS
<1> HIDE DEF r
<1> QED
  BY <1>3, <1>4, <1>5 DEF q

LEMMA ClosesFields ==
  ASSUME NEW w \in ActiveWindows
  PROVE  LET v == ClosePeerConnection(w)
         IN  /\ v \in ActiveWindows
             /\ v.pc = Closed /\ v.rtc = <<>> /\ v.waiting = NoneWaits(w)
             /\ v.role = w.role /\ v.generation = w.generation
             /\ v.announced = w.announced /\ v.signals = w.signals
             /\ v.candidates = w.candidates /\ v.locals = w.locals
             /\ v.timer = w.timer /\ v.out = w.out
             /\ v.local = w.local /\ v.leaked = w.leaked /\ v.state = w.state
             /\ v.accepted = w.accepted /\ v.shown = w.shown
<1>1. <<>> \in Seq(Operations)
  OBVIOUS
<1> QED
  BY ClosedFacts, NoneWaitsFacts, <1>1 DEF ClosePeerConnection, ActiveWindows, NoneWaits

LEMMA CreatesFields ==
  ASSUME NEW w \in ActiveWindows
  PROVE  LET v == CreatePeerConnection(w)
         IN  /\ v \in ActiveWindows
             /\ v.pc = [Closed EXCEPT !.open = TRUE, !.born = w.generation]
             /\ v.rtc = <<>> /\ v.waiting = NoneWaits(w)
             /\ v.role = w.role /\ v.generation = w.generation
             /\ ~v.announced /\ v.signals = w.signals
             /\ v.candidates = w.candidates /\ v.locals = <<>>
             /\ v.timer = w.timer /\ v.out = w.out
             /\ v.local = w.local /\ v.leaked = w.leaked /\ v.state = w.state
             /\ v.accepted = w.accepted /\ v.shown = w.shown
<1> DEFINE u == ClosePeerConnection(w)
           c == [Closed EXCEPT !.open = TRUE, !.born = w.generation]
<1>1. c \in Connections
  BY WindowFields DEF Closed, Connections
<1>2. CreatePeerConnection(w) = [u EXCEPT !.pc = c, !.locals = <<>>, !.announced = FALSE]
  BY DEF CreatePeerConnection
<1>3. <<>> \in Seq(Signals)
  OBVIOUS
<1>4. /\ u \in ActiveWindows
      /\ u.pc = Closed /\ u.rtc = <<>> /\ u.waiting = NoneWaits(w)
      /\ u.role = w.role /\ u.generation = w.generation
      /\ u.announced = w.announced /\ u.signals = w.signals
      /\ u.candidates = w.candidates /\ u.locals = w.locals
      /\ u.timer = w.timer /\ u.out = w.out
      /\ u.local = w.local /\ u.leaked = w.leaked /\ u.state = w.state
      /\ u.accepted = w.accepted /\ u.shown = w.shown
  BY ClosesFields
<1> HIDE DEF u, c
<1> DEFINE v == [u EXCEPT !.pc = c, !.locals = <<>>, !.announced = FALSE]
<1>5. /\ v.pc = c /\ v.locals = <<>> /\ v.announced = FALSE
      /\ v.rtc = u.rtc /\ v.waiting = u.waiting /\ v.role = u.role
      /\ v.generation = u.generation /\ v.signals = u.signals
      /\ v.candidates = u.candidates /\ v.timer = u.timer /\ v.out = u.out
      /\ v.local = u.local /\ v.leaked = u.leaked /\ v.state = u.state
      /\ v.accepted = u.accepted /\ v.shown = u.shown
  BY <1>4 DEF ActiveWindows
<1>6. v \in ActiveWindows
  BY <1>1, <1>3, <1>4 DEF ActiveWindows
<1> HIDE DEF v
<1> QED
  BY <1>2, <1>4, <1>5, <1>6 DEF v, c

\* The answer to the present generation has been applied, or will be, or could
\* not be.
Answered(w) ==
  \/ w.pc.remote = w.generation
  \/ w.generation \in w.pc.refused
  \/ \E i \in DOMAIN w.rtc : w.rtc[i].op = "ApplyAnswer"

Idle(w) ==
  w.role = "None" =>
    /\ w.pc = Closed /\ w.rtc = <<>> /\ w.generation = 0
    /\ w.locals = <<>> /\ w.candidates = {} /\ ~w.timer

Viewing(w) ==
  w.role = "Viewer" =>
    w.pc.open /\ ~w.pc.tracks /\ ~w.timer /\ w.pc.remote \in {0, w.generation}

Sharing(w) ==
  w.role = "Sharer" =>
    /\ w.pc.open /\ w.generation # 0 /\ w.pc.local <= w.generation
    /\ w.pc.remote # 0 => w.pc.by = w.pc.born /\ w.pc.remote <= w.pc.local
    /\ w.timer => w.pc.remote # 0

\* Only the last capture asked for can be for the open connection.
Waits(w) ==
  \A i \in DOMAIN w.waiting : w.waiting[i] => i = Len(w.waiting) /\ w.role = "Sharer"

OpsOf(role) ==
  IF role = "Sharer" THEN {"Offer", "ApplyAnswer", "AddCandidate"}
  ELSE {"ApplyOffer", "Answer", "AddCandidate"}

\* What is pending on the open connection is of its present generation; an
\* answer is to the offer it made, and candidates have or follow one.
Operates(w) ==
  \A i \in DOMAIN w.rtc :
    LET o == w.rtc[i]
    IN  /\ o.gen = w.generation /\ o.gen # 0 /\ o.op \in OpsOf(w.role)
        /\ o.op = "ApplyAnswer" => o.by = w.pc.born /\ w.pc.local = w.generation
        /\ o.op = "AddCandidate" =>
             \/ w.pc.remote = w.generation \/ w.generation \in w.pc.refused
             \/ \E j \in 1 .. i - 1 : w.rtc[j].op = "ApplyAnswer"

Labels(w) ==
  /\ w.candidates \subseteq {w.generation}
  /\ \A i \in DOMAIN w.locals : w.locals[i] = Candidate(w.generation)
  /\ w.pc.added \subseteq {w.pc.remote} \cup w.pc.refused

Sound(w) ==
  /\ w \in ActiveWindows
  /\ Idle(w) /\ Viewing(w) /\ Sharing(w) /\ Waits(w) /\ Operates(w) /\ Labels(w)

LEMMA LoadedSound ==
  Sound(Loaded) /\ Loaded.out = <<>>
<1>1. Loaded \in ActiveWindows
  <2>1. /\ <<>> \in Seq(BOOLEAN) /\ <<>> \in Seq(Operations) /\ <<>> \in Seq(Signals)
    OBVIOUS
  <2> QED
    BY <2>1, ClosedFacts DEF Loaded, ActiveWindows, Roles, States
<1>2. Idle(Loaded) /\ Viewing(Loaded) /\ Sharing(Loaded)
  BY DEF Loaded, Idle, Viewing, Sharing
<1>3. Waits(Loaded) /\ Operates(Loaded)
  BY DEF Loaded, Waits, Operates
<1>4. Labels(Loaded)
  BY DEF Loaded, Labels, Closed
<1>5. Loaded.out = <<>>
  BY DEF Loaded
<1> QED
  BY <1>1, <1>2, <1>3, <1>4, <1>5 DEF Sound

\* Only what the user sees of a window changes.
Quiet(w, v) ==
  /\ v \in ActiveWindows
  /\ v.role = w.role /\ v.generation = w.generation /\ v.pc = w.pc
  /\ v.waiting = w.waiting /\ v.rtc = w.rtc /\ v.signals = w.signals
  /\ v.announced = w.announced /\ v.candidates = w.candidates
  /\ v.locals = w.locals /\ v.out = w.out

LEMMA QuietSound ==
  ASSUME NEW w, NEW v, Sound(w), Quiet(w, v), v.timer = w.timer
  PROVE  Sound(v)
<1>1. Idle(v) /\ Viewing(v) /\ Sharing(v)
  BY DEF Sound, Quiet, Idle, Viewing, Sharing
<1>2. Waits(v)
  BY DEF Sound, Quiet, Waits
<1>3. Operates(v)
  BY DEF Sound, Quiet, Operates
<1>4. Labels(v)
  BY Zenon DEF Sound, Quiet, Labels
<1> QED
  BY <1>1, <1>2, <1>3, <1>4 DEF Sound, Quiet

\* States of the presentation, and what React was given.
LEMMA QuietUpdates ==
  ASSUME NEW w \in ActiveWindows, NEW x \in States, NEW r \in Roles
  PROVE  /\ Quiet(w, [w EXCEPT !.state = x]) /\ [w EXCEPT !.state = x].timer = w.timer
         /\ Quiet(w, [w EXCEPT !.accepted = r]) /\ [w EXCEPT !.accepted = r].timer = w.timer
         /\ Quiet(w, [w EXCEPT !.shown = r]) /\ [w EXCEPT !.shown = r].timer = w.timer
         /\ Quiet(w, Fail(w)) /\ Fail(w).timer = w.timer
<1>1. "Failed" \in States
  BY DEF States
<1> QED
  BY <1>1 DEF Quiet, ActiveWindows, Fail

LEMMA FailSound ==
  ASSUME NEW w, Sound(w)
  PROVE  Sound(Fail(w)) /\ Quiet(w, Fail(w))
<1>1. w \in ActiveWindows
  BY DEF Sound
<1>2. PICK x \in States, r \in Roles : TRUE
  BY DEF States, Roles
<1> QED
  BY <1>1, <1>2, QuietUpdates, QuietSound

\* A connection just made, with nothing pending.
LEMMA FreshSound ==
  ASSUME NEW w \in ActiveWindows, NEW r \in {"Viewer", "Sharer"}, NEW v \in ActiveWindows,
         v.role = r, v.pc = [Closed EXCEPT !.open = TRUE, !.born = w.generation],
         v.rtc = <<>>, v.locals = <<>>, v.candidates \subseteq {v.generation}, ~v.timer,
         r = "Sharer" => v.generation # 0,
         \A i \in DOMAIN v.waiting : v.waiting[i] => i = Len(v.waiting) /\ r = "Sharer"
  PROVE  Sound(v)
<1>1. /\ v.pc.open /\ v.pc.local = 0 /\ v.pc.remote = 0 /\ ~v.pc.tracks /\ v.pc.added = {}
  BY DEF Closed
<1>2. Idle(v) /\ Viewing(v)
  BY <1>1 DEF Idle, Viewing
<1>3. Sharing(v)
  <2>1. v.generation \in Nat
    BY WindowFields
  <2> QED
    BY <1>1, <2>1 DEF Sharing
<1>4. Waits(v) /\ Operates(v)
  BY DEF Waits, Operates
<1>5. Labels(v)
  BY <1>1 DEF Labels
<1> QED
  BY <1>2, <1>3, <1>4, <1>5 DEF Sound

\* What a window knows of the signals of others.
Queued(w) == {w.signals[i] : i \in DOMAIN w.signals}

IsFrom(w, M, gen, by) ==
  \/ \E i \in DOMAIN w.rtc : /\ w.rtc[i].op \in {"ApplyOffer", "Answer"}
                             /\ w.rtc[i].gen = gen /\ w.rtc[i].by = by
  \/ \E m \in M \cup Queued(w) : m.kind = "Offer" /\ m.gen = gen /\ m.by = by

\* A window learns generations and offers from signals, those in M or queued.
Learns(w, v, M, f) ==
  /\ v.generation \in {0, w.generation, f} \cup {m.gen : m \in M \cup Queued(w)}
  /\ Queued(v) \subseteq M \cup Queued(w)
  /\ \A i \in DOMAIN v.rtc : v.rtc[i].op \in {"ApplyOffer", "Answer"} =>
       IsFrom(w, M, v.rtc[i].gen, v.rtc[i].by)

\* A window that shares has begun to, or goes on for the same generation.
Shares(w, v, M, f) ==
  v.role = "Sharer" =>
    \/ v.generation = f
    \/ /\ w.role = "Sharer" /\ v.generation = w.generation
       /\ v.pc.born = w.pc.born
       /\ v.pc.local \in {w.pc.local, w.generation}
       /\ Answered(w) => Answered(v)
       /\ \A m \in M : m.kind = "Answer" /\ m.gen = w.generation => Answered(v)

LEMMA LearnsNothing ==
  ASSUME NEW w \in ActiveWindows, NEW v \in ActiveWindows, NEW M, NEW f,
         v.generation \in {0, w.generation, f}, v.signals = w.signals,
         \A i \in DOMAIN v.rtc : \E j \in DOMAIN w.rtc : v.rtc[i] = w.rtc[j]
  PROVE  Learns(w, v, M, f)
<1>1. Queued(v) = Queued(w)
  BY DEF Queued
<1>2. ASSUME NEW i \in DOMAIN v.rtc, v.rtc[i].op \in {"ApplyOffer", "Answer"}
      PROVE  IsFrom(w, M, v.rtc[i].gen, v.rtc[i].by)
  <2>1. PICK j \in DOMAIN w.rtc : v.rtc[i] = w.rtc[j]
    OBVIOUS
  <2> QED
    BY <1>2, <2>1, Zenon DEF IsFrom
<1> QED
  BY <1>1, <1>2 DEF Learns

LEMMA QuietLearns ==
  ASSUME NEW w \in ActiveWindows, NEW v, Quiet(w, v), NEW M, NEW f,
         \A m \in M : m.kind = "Answer" /\ m.gen = w.generation => w.role # "Sharer"
  PROVE  Learns(w, v, M, f) /\ Shares(w, v, M, f)
<1>1. Learns(w, v, M, f)
  BY LearnsNothing DEF Quiet
<1>2. Answered(w) => Answered(v)
  BY DEF Quiet, Answered
<1>3. Shares(w, v, M, f)
  BY <1>2 DEF Quiet, Shares
<1> QED
  BY <1>1, <1>3

-----------------------------------------------------------------------------
(* The handlers                                                            *)

LEMMA StopResources ==
  ASSUME NEW w \in ActiveWindows
  PROVE  LET v == StopMediaResources(w)
         IN  /\ v \in ActiveWindows
             /\ v.pc = Closed /\ v.rtc = <<>> /\ v.waiting = NoneWaits(w)
             /\ v.role = w.role /\ v.generation = w.generation
             /\ v.signals = w.signals
             /\ v.candidates = {} /\ v.locals = <<>> /\ ~v.timer
             /\ v.out = w.out
<1> DEFINE u == ClosePeerConnection(w)
           v == [u EXCEPT !.timer = FALSE, !.local = FALSE, !.candidates = {},
                          !.locals = <<>>, !.announced = FALSE]
<1>1. StopMediaResources(w) = v
  BY DEF StopMediaResources
<1>2. /\ u \in ActiveWindows
      /\ u.pc = Closed /\ u.rtc = <<>> /\ u.waiting = NoneWaits(w)
      /\ u.role = w.role /\ u.generation = w.generation
      /\ u.signals = w.signals /\ u.out = w.out
  BY ClosesFields
<1> HIDE DEF u
<1>3. /\ v.pc = u.pc /\ v.rtc = u.rtc /\ v.waiting = u.waiting /\ v.role = u.role
      /\ v.generation = u.generation /\ v.signals = u.signals /\ v.out = u.out
      /\ v.candidates = {} /\ v.locals = <<>> /\ v.timer = FALSE
  BY <1>2 DEF ActiveWindows
<1>4. v \in ActiveWindows
  <2>1. <<>> \in Seq(Signals)
    OBVIOUS
  <2> QED
    BY <1>2, <2>1 DEF ActiveWindows
<1> HIDE DEF v
<1> QED
  BY <1>1, <1>2, <1>3, <1>4

LEMMA StopKeeps ==
  ASSUME NEW w, Sound(w), w.out = <<>>, NEW M, NEW f,
         \A m \in M : m.kind = "Answer" /\ m.gen = w.generation => w.role # "Sharer"
  PROVE  LET v == StopSession(w)
         IN  /\ Sound(v) /\ v.out = <<>> /\ v.role = "None"
             /\ Learns(w, v, M, f) /\ Shares(w, v, M, f)
             /\ v.generation = 0 /\ ~v.pc.gathering /\ v.locals = <<>>
             /\ Len(v.waiting) = Len(w.waiting)
<1> DEFINE v == StopSession(w)
<1>0. w \in ActiveWindows
  BY DEF Sound
<1>1. CASE w.role = "None" /\ ~w.pc.open
  <2>1. v = w
    BY <1>1 DEF StopSession
  <2>2. Quiet(w, w)
    BY <1>0 DEF Quiet
  <2>3. Learns(w, w, M, f) /\ Shares(w, w, M, f)
    BY <1>0, <2>2, QuietLearns
  <2>4. w.generation = 0 /\ ~w.pc.gathering /\ w.locals = <<>>
    BY <1>1, ClosedFacts DEF Sound, Idle
  <2> QED
    BY <1>1, <2>1, <2>3, <2>4
<1>2. CASE ~(w.role = "None" /\ ~w.pc.open)
  <2> DEFINE u == StopMediaResources(w)
             x == [u EXCEPT !.role = "None", !.generation = 0, !.signals = <<>>,
                            !.state = "Idle"]
  <2>1. v = x
    BY <1>2 DEF StopSession
  <2>2. /\ u \in ActiveWindows
        /\ u.pc = Closed /\ u.rtc = <<>> /\ u.waiting = NoneWaits(w)
        /\ u.role = w.role /\ u.generation = w.generation
        /\ u.signals = w.signals
        /\ u.candidates = {} /\ u.locals = <<>> /\ ~u.timer
        /\ u.out = w.out
    BY <1>0, StopResources
  <2> HIDE DEF u
  <2>3. x \in ActiveWindows
    <3>1. <<>> \in Seq(Signals) /\ "Idle" \in States /\ "None" \in Roles /\ 0 \in Nat
      BY DEF States, Roles
    <3> QED
      BY <2>2, <3>1 DEF ActiveWindows
  <2>4. /\ x.pc = Closed /\ x.rtc = <<>> /\ x.waiting = NoneWaits(w)
        /\ x.role = "None" /\ x.generation = 0 /\ x.signals = <<>>
        /\ x.candidates = {} /\ x.locals = <<>> /\ ~x.timer /\ x.out = <<>>
    BY <2>2 DEF ActiveWindows
  <2> HIDE DEF x
  <2>5. Idle(x) /\ Viewing(x) /\ Sharing(x)
    BY <2>4 DEF Idle, Viewing, Sharing
  <2>6. Waits(x)
    BY <1>0, <2>4, NoneWaitsFacts DEF Waits
  <2>7. Operates(x)
    BY <2>4 DEF Operates
  <2>8. Labels(x)
    BY <2>4, ClosedFacts DEF Labels
  <2>9. Learns(w, x, M, f)
    <3>1. Queued(x) = {}
      BY <2>4 DEF Queued
    <3>2. DOMAIN x.rtc = {}
      BY <2>4
    <3> QED
      BY <2>4, <3>1, <3>2 DEF Learns
  <2>10. Shares(w, x, M, f)
    BY <2>4 DEF Shares
  <2>11. Sound(x)
    BY <2>3, <2>5, <2>6, <2>7, <2>8 DEF Sound
  <2>12. Len(x.waiting) = Len(w.waiting)
    BY <1>0, <2>4, NoneWaitsFacts
  <2> QED
    BY <2>1, <2>4, <2>9, <2>10, <2>11, <2>12, ClosedFacts
<1> QED
  BY <1>1, <1>2

\* startSharing up to the request for a capture.
LEMMA StartKeeps ==
  ASSUME NEW w, Sound(w), w.out = <<>>, NEW M, NEW f \in Nat, f # 0
  PROVE  LET v == StartSharing([StopMediaResources(w) EXCEPT !.role = "Sharer"], f)
         IN  /\ Sound(v) /\ v.out = <<>> /\ v.role = "Sharer" /\ v.generation = f
             /\ Learns(w, v, M, f) /\ Shares(w, v, M, f)
             /\ ~v.pc.gathering /\ v.locals = <<>>
             /\ Len(v.waiting) = Len(w.waiting) + 1
<1>0. w \in ActiveWindows
  BY DEF Sound
<1> DEFINE t == StopMediaResources(w)
           u == [t EXCEPT !.role = "Sharer"]
           c == [u EXCEPT !.generation = f]
           d == CreatePeerConnection(c)
           q == Append(d.waiting, TRUE)
           v == [d EXCEPT !.state = "Capturing", !.waiting = Append(@, TRUE)]
<1>1. StartSharing([StopMediaResources(w) EXCEPT !.role = "Sharer"], f) = v
  BY DEF StartSharing
<1>2. /\ t \in ActiveWindows
      /\ t.pc = Closed /\ t.rtc = <<>> /\ t.waiting = NoneWaits(w)
      /\ t.signals = w.signals
      /\ t.candidates = {} /\ t.locals = <<>> /\ ~t.timer
      /\ t.out = w.out
  BY <1>0, StopResources
<1> HIDE DEF t
<1>3. "Sharer" \in Roles /\ "Capturing" \in States
  BY DEF Roles, States
<1>4. /\ u \in ActiveWindows /\ u.role = "Sharer"
      /\ u.pc = t.pc /\ u.rtc = t.rtc /\ u.waiting = t.waiting
      /\ u.signals = t.signals
      /\ u.candidates = t.candidates /\ u.locals = t.locals /\ u.timer = t.timer
      /\ u.out = t.out
  BY <1>2, <1>3 DEF ActiveWindows
<1> HIDE DEF u
<1>5. /\ c \in ActiveWindows /\ c.role = "Sharer" /\ c.generation = f
      /\ c.pc = u.pc /\ c.rtc = u.rtc /\ c.waiting = u.waiting
      /\ c.signals = u.signals
      /\ c.candidates = u.candidates /\ c.locals = u.locals /\ c.timer = u.timer
      /\ c.out = u.out
  BY <1>4 DEF ActiveWindows
<1> HIDE DEF c
<1>6. /\ d \in ActiveWindows
      /\ d.pc = [Closed EXCEPT !.open = TRUE, !.born = c.generation]
      /\ d.rtc = <<>> /\ d.waiting = NoneWaits(c)
      /\ d.role = c.role /\ d.generation = c.generation
      /\ d.signals = c.signals
      /\ d.candidates = c.candidates /\ d.locals = <<>>
      /\ d.timer = c.timer /\ d.out = c.out
  BY <1>5, CreatesFields
<1> HIDE DEF d
<1>7. d.waiting \in Seq(BOOLEAN)
  BY <1>6, WindowFields
<1>8. /\ q \in Seq(BOOLEAN) /\ Len(q) = Len(d.waiting) + 1 /\ Len(d.waiting) \in Nat
      /\ DOMAIN q = 1 .. Len(d.waiting) + 1
      /\ \A i \in 1 .. Len(d.waiting) : q[i] = d.waiting[i]
  <2> DEFINE b == d.waiting
  <2>1. b \in Seq(BOOLEAN)
    BY <1>7
  <2> HIDE DEF b
  <2>2. /\ Append(b, TRUE) \in Seq(BOOLEAN) /\ Len(Append(b, TRUE)) = Len(b) + 1
        /\ Len(b) \in Nat /\ DOMAIN Append(b, TRUE) = 1 .. Len(b) + 1
        /\ \A i \in 1 .. Len(b) : Append(b, TRUE)[i] = b[i]
    BY <2>1
  <2> QED
    BY <2>2, Zenon DEF b
<1>9. v = [d EXCEPT !.state = "Capturing", !.waiting = q]
  OBVIOUS
<1> HIDE DEF q
<1>10. /\ v \in ActiveWindows /\ v.waiting = q
       /\ v.pc = d.pc /\ v.rtc = d.rtc /\ v.role = d.role /\ v.generation = d.generation
       /\ v.signals = d.signals /\ v.candidates = d.candidates /\ v.locals = d.locals
       /\ v.timer = d.timer /\ v.out = d.out
  BY <1>3, <1>6, <1>8, <1>9 DEF ActiveWindows
<1> HIDE DEF v
<1>11. \A i \in DOMAIN v.waiting : v.waiting[i] => i = Len(v.waiting)
  <2>1. \A i \in DOMAIN d.waiting : ~d.waiting[i]
    BY <1>5, <1>6, NoneWaitsFacts
  <2>2. DOMAIN d.waiting = 1 .. Len(d.waiting)
    BY <1>7
  <2> QED
    BY <1>8, <1>10, <2>1, <2>2
<1>12. Len(v.waiting) = Len(w.waiting) + 1
  <2>1. Len(d.waiting) = Len(c.waiting)
    BY <1>5, <1>6, NoneWaitsFacts
  <2>2. Len(t.waiting) = Len(w.waiting)
    BY <1>0, <1>2, NoneWaitsFacts
  <2> QED
    BY <1>4, <1>5, <1>8, <1>10, <2>1, <2>2
<1>13. v.pc = [Closed EXCEPT !.open = TRUE, !.born = c.generation] /\ v.role = "Sharer"
       /\ v.generation = f /\ v.rtc = <<>> /\ v.locals = <<>> /\ v.candidates = {}
       /\ ~v.timer /\ v.out = <<>> /\ v.signals = w.signals
  BY <1>2, <1>4, <1>5, <1>6, <1>10
<1>14. Sound(v)
  BY <1>5, <1>10, <1>11, <1>13, FreshSound
<1>15. Learns(w, v, M, f)
  <2>1. DOMAIN v.rtc = {}
    BY <1>13
  <2> QED
    BY <1>0, <1>10, <1>13, <2>1, LearnsNothing
<1>16. Shares(w, v, M, f)
  BY <1>13 DEF Shares
<1>17. ~v.pc.gathering
  BY <1>13 DEF Closed
<1> QED
  BY <1>1, <1>12, <1>13, <1>14, <1>15, <1>16, <1>17

\* Nothing that decides about sending candidates has changed, or the connection
\* has nothing to send yet.
Orders(w, v) ==
  \/ /\ v.generation = w.generation /\ v.announced = w.announced
     /\ v.pc.gathering = w.pc.gathering /\ v.locals = w.locals
  \/ ~v.pc.gathering /\ v.locals = <<>>

\* An answer to the present generation is to the offer of this connection, and
\* a candidate of it comes after that answer.
Fits(w, m) ==
  w.role = "Sharer" /\ m.gen = w.generation =>
    /\ m.kind = "Answer" => m.by = w.pc.born /\ w.pc.local = w.generation
    /\ m.kind = "Candidate" => Answered(w)

Operation(op, m) == [op |-> op, gen |-> m.gen, by |-> m.by]

LEMMA PendingKeeps ==
  ASSUME NEW w, Sound(w), w.role # "None", NEW m, m.gen \in Nat, m.by \in Nat,
         m.gen = w.generation, m.gen # 0,
         NEW op \in OpsOf(w.role),
         op = "ApplyAnswer" => m.by = w.pc.born /\ w.pc.local = w.generation,
         op = "AddCandidate" => Answered(w)
  PROVE  LET v == Pending(w, op, m)
         IN  /\ Sound(v) /\ v.rtc = Append(w.rtc, Operation(op, m))
             /\ v.role = w.role /\ v.generation = w.generation /\ v.pc = w.pc
             /\ v.waiting = w.waiting /\ v.signals = w.signals
             /\ v.announced = w.announced /\ v.candidates = w.candidates
             /\ v.locals = w.locals /\ v.out = w.out /\ v.timer = w.timer
<1> DEFINE o == Operation(op, m)
           q == Append(w.rtc, o)
           v == [w EXCEPT !.rtc = q]
<1>1. Pending(w, op, m) = v
  BY DEF Pending, Operation
<1>2. w \in ActiveWindows /\ w.rtc \in Seq(Operations)
  BY WindowFields DEF Sound
<1>3. o \in Operations /\ o.op = op /\ o.gen = m.gen /\ o.by = m.by
  BY DEF Operation, Operations, OpsOf
<1> HIDE DEF o
<1>4. /\ q \in Seq(Operations) /\ Len(q) = Len(w.rtc) + 1 /\ Len(w.rtc) \in Nat
      /\ DOMAIN q = 1 .. Len(w.rtc) + 1 /\ DOMAIN w.rtc = 1 .. Len(w.rtc)
      /\ q[Len(w.rtc) + 1] = o
      /\ \A i \in 1 .. Len(w.rtc) : q[i] = w.rtc[i]
  BY <1>2, <1>3, AppendFacts
<1> HIDE DEF q
<1>5. /\ v \in ActiveWindows /\ v.rtc = q
      /\ v.role = w.role /\ v.generation = w.generation /\ v.pc = w.pc
      /\ v.waiting = w.waiting /\ v.signals = w.signals
      /\ v.announced = w.announced /\ v.candidates = w.candidates
      /\ v.locals = w.locals /\ v.out = w.out /\ v.timer = w.timer
  BY <1>2, <1>4 DEF ActiveWindows
<1> HIDE DEF v
<1>6. Idle(v) /\ Viewing(v) /\ Sharing(v)
  BY <1>5 DEF Sound, Idle, Viewing, Sharing
<1>7. Waits(v) /\ Labels(v)
  BY <1>5 DEF Sound, Waits, Labels
<1>8. Operates(v)
  <2> SUFFICES ASSUME NEW i \in DOMAIN q
               PROVE  /\ q[i].gen = w.generation /\ q[i].gen # 0 /\ q[i].op \in OpsOf(w.role)
                      /\ q[i].op = "ApplyAnswer" => q[i].by = w.pc.born /\ w.pc.local = w.generation
                      /\ q[i].op = "AddCandidate" =>
                           \/ w.pc.remote = w.generation \/ w.generation \in w.pc.refused
                           \/ \E j \in 1 .. i - 1 : q[j].op = "ApplyAnswer"
    BY <1>5 DEF Operates
  <2>1. CASE i \in 1 .. Len(w.rtc)
    <3>1. /\ w.rtc[i].gen = w.generation /\ w.rtc[i].gen # 0 /\ w.rtc[i].op \in OpsOf(w.role)
          /\ w.rtc[i].op = "ApplyAnswer" => w.rtc[i].by = w.pc.born /\ w.pc.local = w.generation
          /\ w.rtc[i].op = "AddCandidate" =>
               \/ w.pc.remote = w.generation \/ w.generation \in w.pc.refused
               \/ \E j \in 1 .. i - 1 : w.rtc[j].op = "ApplyAnswer"
      BY <2>1, <1>4 DEF Sound, Operates
    <3>2. \A j \in 1 .. i - 1 : q[j] = w.rtc[j]
      BY <2>1, <1>4
    <3>3. q[i] = w.rtc[i]
      BY <2>1, <1>4
    <3> QED
      BY <3>1, <3>2, <3>3
  <2>2. CASE i = Len(w.rtc) + 1
    <3>1. q[i] = o
      BY <2>2, <1>4
    <3>2. ASSUME op = "AddCandidate"
          PROVE  \/ w.pc.remote = w.generation \/ w.generation \in w.pc.refused
                 \/ \E j \in 1 .. i - 1 : q[j].op = "ApplyAnswer"
      <4>1. CASE \E j \in DOMAIN w.rtc : w.rtc[j].op = "ApplyAnswer"
        <5>1. PICK j \in DOMAIN w.rtc : w.rtc[j].op = "ApplyAnswer"
          BY <4>1
        <5>2. j \in 1 .. i - 1 /\ q[j] = w.rtc[j]
          BY <2>2, <1>4
        <5> QED
          BY <5>1, <5>2
      <4> QED
        BY <3>2, <4>1 DEF Answered
    <3> QED
      BY <1>3, <3>1, <3>2
  <2> QED
    BY <1>4, <2>1, <2>2
<1> QED
  BY <1>1, <1>5, <1>6, <1>7, <1>8 DEF Sound, q, o

\* What a pending operation adds to what the window knows.
LEMMA PendingFrom ==
  ASSUME NEW w \in ActiveWindows, NEW v \in ActiveWindows, NEW m, NEW M, NEW f, NEW op,
         op \in {"ApplyOffer", "Answer"} => IsFrom(w, M, m.gen, m.by),
         NEW u \in ActiveWindows, Learns(w, u, M, f),
         v.rtc = Append(u.rtc, Operation(op, m)),
         v.generation = u.generation, v.signals = u.signals
  PROVE  Learns(w, v, M, f)
<1>1. Queued(v) = Queued(u)
  BY DEF Queued
<1>2. ASSUME NEW i \in DOMAIN v.rtc, v.rtc[i].op \in {"ApplyOffer", "Answer"}
      PROVE  IsFrom(w, M, v.rtc[i].gen, v.rtc[i].by)
  <2>1. u.rtc \in Seq(Operations)
    BY WindowFields
  <2>2. CASE i \in DOMAIN u.rtc /\ v.rtc[i] = u.rtc[i]
    BY <1>2, <2>2 DEF Learns
  <2>3. CASE v.rtc[i] = Operation(op, m)
    <3>1. v.rtc[i].op = op /\ v.rtc[i].gen = m.gen /\ v.rtc[i].by = m.by
      BY <2>3 DEF Operation
    <3> QED
      BY <1>2, <3>1
  <2>4. \/ i \in DOMAIN u.rtc /\ v.rtc[i] = u.rtc[i]
        \/ v.rtc[i] = Operation(op, m)
    <3> DEFINE q == u.rtc
               o == Operation(op, m)
    <3>1. q \in Seq(Operations) /\ v.rtc = Append(q, o)
      BY <2>1
    <3> HIDE DEF q, o
    <3>2. i \in 1 .. Len(q) + 1 /\ DOMAIN q = 1 .. Len(q)
      BY <3>1
    <3>3. i \in 1 .. Len(q) => Append(q, o)[i] = q[i]
      BY <3>1
    <3>4. Append(q, o)[Len(q) + 1] = o /\ Len(q) \in Nat
      BY <3>1
    <3>5. i \in 1 .. Len(q) \/ i = Len(q) + 1
      BY <3>2, <3>4
    <3> QED
      BY <3>1, <3>2, <3>3, <3>4, <3>5 DEF q, o
  <2> QED
    BY <2>2, <2>3, <2>4
<1> QED
  BY <1>1, <1>2 DEF Learns

LEMMA PendingLearns ==
  ASSUME NEW w \in ActiveWindows, NEW v \in ActiveWindows, NEW m, NEW M, NEW f, NEW op,
         m \in M \/ op \notin {"ApplyOffer", "Answer"},
         m.kind = "Offer" \/ op \notin {"ApplyOffer", "Answer"},
         NEW u \in ActiveWindows, Learns(w, u, M, f),
         v.rtc = Append(u.rtc, Operation(op, m)),
         v.generation = u.generation, v.signals = u.signals
  PROVE  Learns(w, v, M, f)
<1>1. op \in {"ApplyOffer", "Answer"} => IsFrom(w, M, m.gen, m.by)
  BY DEF IsFrom
<1> QED
  BY <1>1, PendingFrom

\* What a handler of a signal keeps.
Received(w, v, M, f) ==
  /\ Sound(v) /\ v.out = <<>> /\ v.role = w.role /\ Len(v.waiting) = Len(w.waiting)
  /\ Learns(w, v, M, f) /\ Shares(w, v, M, f) /\ Orders(w, v)

LEMMA SignalTypes ==
  ASSUME NEW m \in Signals
  PROVE  /\ m.kind \in {"Offer", "Answer", "Candidate"} /\ m.gen \in Nat /\ m.by \in Nat
BY DEF Signals

LEMMA SameReceived ==
  ASSUME NEW w, Sound(w), w.out = <<>>, NEW M, NEW f,
         \A m \in M : m.kind = "Answer" /\ m.gen = w.generation => w.role # "Sharer"
  PROVE  Received(w, w, M, f)
<1>1. w \in ActiveWindows
  BY DEF Sound
<1>2. Quiet(w, w)
  BY <1>1 DEF Quiet
<1>3. Learns(w, w, M, f) /\ Shares(w, w, M, f)
  BY <1>1, <1>2, QuietLearns
<1> QED
  BY <1>3 DEF Received, Orders

LEMMA PendingReceived ==
  ASSUME NEW w, Sound(w), w.out = <<>>, w.role # "None",
         NEW m \in Signals, NEW f, m.gen = w.generation, m.gen # 0,
         NEW op \in OpsOf(w.role), m.kind = "Offer" \/ op \notin {"ApplyOffer", "Answer"},
         op = "ApplyAnswer" => m.by = w.pc.born /\ w.pc.local = w.generation,
         op = "AddCandidate" => Answered(w),
         m.kind = "Answer" => op = "ApplyAnswer"
  PROVE  Received(w, Pending(w, op, m), {m}, f)
<1> DEFINE v == Pending(w, op, m)
<1>1. m.gen \in Nat /\ m.by \in Nat
  BY SignalTypes
<1>2. /\ Sound(v) /\ v.rtc = Append(w.rtc, Operation(op, m))
      /\ v.role = w.role /\ v.generation = w.generation /\ v.pc = w.pc
      /\ v.waiting = w.waiting /\ v.signals = w.signals
      /\ v.announced = w.announced /\ v.candidates = w.candidates
      /\ v.locals = w.locals /\ v.out = w.out /\ v.timer = w.timer
  BY <1>1, PendingKeeps
<1> HIDE DEF v
<1>3. w \in ActiveWindows /\ v \in ActiveWindows
  BY <1>2 DEF Sound
<1>4. w.rtc \in Seq(Operations)
  BY <1>3, WindowFields
<1>5. Operation(op, m) \in Operations /\ Operation(op, m).op = op
  BY <1>1 DEF Operation, Operations, OpsOf
<1>6. Learns(w, w, {m}, f)
  BY <1>3, LearnsNothing
<1>7. Learns(w, v, {m}, f)
  BY <1>2, <1>3, <1>6, PendingLearns
<1>8. \A i \in DOMAIN w.rtc : i \in DOMAIN v.rtc /\ v.rtc[i] = w.rtc[i]
  BY <1>2, <1>4, <1>5, AppendFacts
<1>9. Answered(w) => Answered(v)
  BY <1>2, <1>8 DEF Answered
<1>10. ASSUME m.kind = "Answer" PROVE Answered(v)
  <2>1. op = "ApplyAnswer"
    BY <1>10
  <2>2. Len(w.rtc) + 1 \in DOMAIN v.rtc /\ v.rtc[Len(w.rtc) + 1].op = "ApplyAnswer"
    <3>1. /\ DOMAIN Append(w.rtc, Operation(op, m)) = 1 .. Len(w.rtc) + 1
          /\ Append(w.rtc, Operation(op, m))[Len(w.rtc) + 1] = Operation(op, m)
          /\ Len(w.rtc) \in Nat
      BY <1>4, <1>5, AppendFacts
    <3> QED
      BY <1>2, <1>5, <2>1, <3>1
  <2> QED
    BY <2>2 DEF Answered
<1>11. Shares(w, v, {m}, f)
  BY <1>2, <1>9, <1>10 DEF Shares
<1>12. Orders(w, v)
  BY <1>2 DEF Orders
<1> QED
  BY <1>2, <1>7, <1>11, <1>12 DEF Received, v

\* An offer of another generation begins a connection of its own.
LEMMA OfferReceived ==
  ASSUME NEW w, Sound(w), w.out = <<>>, w.role = "Viewer",
         NEW m \in Signals, NEW f, m.gen # 0, m.kind = "Offer"
  PROVE  Received(w, Pending(CreatePeerConnection([w EXCEPT !.generation = m.gen,
                                                            !.candidates = {}]),
                             "ApplyOffer", m), {m}, f)
<1> DEFINE c == [w EXCEPT !.generation = m.gen, !.candidates = {}]
           d == CreatePeerConnection(c)
           v == Pending(d, "ApplyOffer", m)
<1>0. w \in ActiveWindows /\ m.gen \in Nat /\ m.by \in Nat
  BY SignalTypes DEF Sound
<1>1. /\ c \in ActiveWindows /\ c.generation = m.gen /\ c.candidates = {}
      /\ c.role = w.role /\ c.waiting = w.waiting /\ c.signals = w.signals
      /\ c.timer = w.timer /\ c.out = w.out
  BY <1>0 DEF ActiveWindows
<1> HIDE DEF c
<1>2. /\ d \in ActiveWindows
      /\ d.pc = [Closed EXCEPT !.open = TRUE, !.born = c.generation]
      /\ d.rtc = <<>> /\ d.waiting = NoneWaits(c)
      /\ d.role = c.role /\ d.generation = c.generation
      /\ ~d.announced /\ d.signals = c.signals
      /\ d.candidates = c.candidates /\ d.locals = <<>>
      /\ d.timer = c.timer /\ d.out = c.out
  BY <1>1, CreatesFields
<1> HIDE DEF d
<1>3. ~w.timer
  BY DEF Sound, Viewing
<1>4. \A i \in DOMAIN d.waiting : ~d.waiting[i]
  BY <1>1, <1>2, NoneWaitsFacts
<1>5. Sound(d)
  BY <1>1, <1>2, <1>3, <1>4, FreshSound
<1>6. "ApplyOffer" \in OpsOf(d.role) /\ d.role = "Viewer"
  BY <1>1, <1>2 DEF OpsOf
<1>7. /\ Sound(v) /\ v.rtc = Append(d.rtc, Operation("ApplyOffer", m))
      /\ v.role = d.role /\ v.generation = d.generation /\ v.pc = d.pc
      /\ v.waiting = d.waiting /\ v.signals = d.signals
      /\ v.announced = d.announced /\ v.candidates = d.candidates
      /\ v.locals = d.locals /\ v.out = d.out /\ v.timer = d.timer
  <2>1. m.gen = d.generation
    BY <1>1, <1>2
  <2> QED
    BY <1>0, <1>5, <1>6, <2>1, PendingKeeps
<1> HIDE DEF v
<1>8. Learns(w, d, {m}, f)
  <2>1. Queued(d) = Queued(w)
    BY <1>1, <1>2 DEF Queued
  <2>2. DOMAIN d.rtc = {}
    BY <1>2
  <2>3. d.generation = m.gen
    BY <1>1, <1>2
  <2> QED
    BY <2>1, <2>2, <2>3 DEF Learns
<1>9. v \in ActiveWindows
  BY <1>7 DEF Sound
<1>10. Learns(w, v, {m}, f)
  <2>1. /\ v.rtc = Append(d.rtc, Operation("ApplyOffer", m))
        /\ v.generation = d.generation /\ v.signals = d.signals
    BY <1>7
  <2>2. m \in {m} /\ w \in ActiveWindows /\ d \in ActiveWindows
    BY <1>0, <1>2
  <2> QED
    BY <1>8, <1>9, <2>1, <2>2, PendingLearns
<1>11. Shares(w, v, {m}, f)
  BY <1>6, <1>7 DEF Shares
<1>12. Len(v.waiting) = Len(w.waiting)
  BY <1>1, <1>2, <1>7, NoneWaitsFacts
<1>13. Orders(w, v)
  BY <1>2, <1>7, ClosedFacts DEF Orders, Closed
<1> QED
  BY <1>1, <1>2, <1>6, <1>7, <1>10, <1>11, <1>12, <1>13 DEF Received, v, d, c

\* A candidate that is kept until there is a description.
LEMMA CandidateReceived ==
  ASSUME NEW w, Sound(w), w.out = <<>>, w.role # "None",
         NEW m \in Signals, NEW f, m.gen = w.generation, m.kind = "Candidate"
  PROVE  Received(w, [w EXCEPT !.candidates = @ \cup {m.gen}], {m}, f)
<1> DEFINE v == [w EXCEPT !.candidates = @ \cup {m.gen}]
<1>0. w \in ActiveWindows /\ m.gen \in Nat
  BY SignalTypes DEF Sound
<1>1. /\ v \in ActiveWindows /\ v.candidates = w.candidates \cup {m.gen}
      /\ v.role = w.role /\ v.generation = w.generation /\ v.pc = w.pc
      /\ v.waiting = w.waiting /\ v.rtc = w.rtc /\ v.signals = w.signals
      /\ v.announced = w.announced /\ v.locals = w.locals /\ v.out = w.out
      /\ v.timer = w.timer
  BY <1>0 DEF ActiveWindows
<1> HIDE DEF v
<1>2. Idle(v) /\ Viewing(v) /\ Sharing(v)
  BY <1>1 DEF Sound, Idle, Viewing, Sharing
<1>3. Waits(v)
  BY <1>1 DEF Sound, Waits
<1>4. Operates(v)
  BY <1>1 DEF Sound, Operates
<1>5. Labels(v)
  BY <1>1 DEF Sound, Labels
<1>6. Learns(w, v, {m}, f)
  BY <1>0, <1>1, LearnsNothing
<1>7. Answered(w) => Answered(v)
  BY <1>1 DEF Answered
<1>8. Shares(w, v, {m}, f)
  BY <1>1, <1>7 DEF Shares
<1>9. Orders(w, v)
  BY <1>1 DEF Orders
<1> QED
  BY <1>1, <1>2, <1>3, <1>4, <1>5, <1>6, <1>8, <1>9 DEF Received, Sound, v

\* A signal that comes before the window has a role.
LEMMA QueuedReceived ==
  ASSUME NEW w, Sound(w), w.out = <<>>, w.role = "None", NEW m \in Signals, NEW f
  PROVE  Received(w, [w EXCEPT !.signals = Append(@, m)], {m}, f)
<1> DEFINE q == Append(w.signals, m)
           v == [w EXCEPT !.signals = q]
<1>0. w \in ActiveWindows /\ w.signals \in Seq(Signals)
  BY WindowFields DEF Sound
<1>1. /\ q \in Seq(Signals) /\ Len(w.signals) \in Nat
      /\ DOMAIN q = 1 .. Len(w.signals) + 1 /\ DOMAIN w.signals = 1 .. Len(w.signals)
      /\ q[Len(w.signals) + 1] = m
      /\ \A i \in 1 .. Len(w.signals) : q[i] = w.signals[i]
  BY <1>0, AppendFacts
<1> HIDE DEF q
<1>2. /\ v \in ActiveWindows /\ v.signals = q /\ v.candidates = w.candidates
      /\ v.role = w.role /\ v.generation = w.generation /\ v.pc = w.pc
      /\ v.waiting = w.waiting /\ v.rtc = w.rtc
      /\ v.announced = w.announced /\ v.locals = w.locals /\ v.out = w.out
      /\ v.timer = w.timer
  BY <1>0, <1>1 DEF ActiveWindows
<1> HIDE DEF v
<1>3. Idle(v) /\ Viewing(v) /\ Sharing(v)
  BY <1>2 DEF Sound, Idle, Viewing, Sharing
<1>4. Waits(v)
  BY <1>2 DEF Sound, Waits
<1>5. Operates(v)
  BY <1>2 DEF Sound, Operates
<1>6. Labels(v)
  BY <1>2 DEF Sound, Labels
<1>7. Queued(v) \subseteq {m} \cup Queued(w)
  <2> SUFFICES ASSUME NEW i \in DOMAIN q PROVE q[i] \in {m} \cup Queued(w)
    BY <1>2 DEF Queued
  <2>1. i \in 1 .. Len(w.signals) \/ i = Len(w.signals) + 1
    BY <1>1
  <2> QED
    BY <1>1, <2>1 DEF Queued
<1>8. Learns(w, v, {m}, f)
  <2>1. \A i \in DOMAIN v.rtc : v.rtc[i].op \in {"ApplyOffer", "Answer"} =>
          IsFrom(w, {m}, v.rtc[i].gen, v.rtc[i].by)
    BY <1>2 DEF IsFrom
  <2> QED
    BY <1>2, <1>7, <2>1 DEF Learns
<1>9. Shares(w, v, {m}, f)
  BY <1>2 DEF Shares
<1>10. Orders(w, v)
  BY <1>2 DEF Orders
<1> QED
  BY <1>2, <1>3, <1>4, <1>5, <1>6, <1>8, <1>9, <1>10 DEF Received, Sound, v, q

LEMMA ReceiveKeeps ==
  ASSUME NEW w, Sound(w), w.out = <<>>, NEW m \in Signals, NEW f,
         m.gen # 0, Fits(w, m)
  PROVE  Received(w, ReceiveSignal(w, m), {m}, f)
<1>0. /\ w \in ActiveWindows /\ m.kind \in {"Offer", "Answer", "Candidate"}
      /\ w.role \in {"None", "Sharer", "Viewer"}
  BY SignalTypes, WindowFields DEF Sound, Roles
<1>1. CASE w.role = "None"
  BY <1>1, QueuedReceived DEF ReceiveSignal
<1> SUFFICES ASSUME w.role # "None"
             PROVE  Received(w, ConsumeSignal(w, m), {m}, f)
  BY <1>1 DEF ReceiveSignal
<1>2. CASE m.kind = "Offer"
  <2>1. ConsumeSignal(w, m) = ConsumeOffer(w, m)
    BY <1>2 DEF ConsumeSignal
  <2>2. CASE w.role # "Viewer"
    BY <1>2, <2>1, <2>2, SameReceived DEF ConsumeOffer
  <2>3. CASE w.role = "Viewer" /\ w.generation = m.gen
    <3>1. "ApplyOffer" \in OpsOf(w.role)
      BY <2>3 DEF OpsOf
    <3>2. Received(w, Pending(w, "ApplyOffer", m), {m}, f)
      BY <1>2, <2>3, <3>1, PendingReceived
    <3> QED
      BY <2>1, <2>3, <3>2 DEF ConsumeOffer
  <2>4. CASE w.role = "Viewer" /\ w.generation # m.gen
    BY <1>2, <2>1, <2>4, OfferReceived DEF ConsumeOffer
  <2> QED
    BY <2>2, <2>3, <2>4
<1>3. CASE m.kind # "Offer" /\ m.gen # w.generation
  <2>1. ConsumeSignal(w, m) = w
    BY <1>3 DEF ConsumeSignal, Outdated
  <2> QED
    BY <1>3, <2>1, SameReceived
<1>4. CASE m.kind = "Answer" /\ m.gen = w.generation
  <2>1. ConsumeSignal(w, m) = IF w.role = "Sharer" THEN Pending(w, "ApplyAnswer", m) ELSE w
    BY <1>4 DEF ConsumeSignal, Outdated
  <2>2. CASE w.role = "Sharer"
    <3>1. "ApplyAnswer" \in OpsOf(w.role)
      BY <2>2 DEF OpsOf
    <3>2. m.by = w.pc.born /\ w.pc.local = w.generation
      BY <1>4, <2>2 DEF Fits
    <3>3. Received(w, Pending(w, "ApplyAnswer", m), {m}, f)
      BY <1>4, <3>1, <3>2, PendingReceived
    <3> QED
      BY <2>1, <2>2, <3>3
  <2>3. CASE w.role # "Sharer"
    BY <2>1, <2>3, SameReceived
  <2> QED
    BY <2>2, <2>3
<1>5. CASE m.kind = "Candidate" /\ m.gen = w.generation
  <2>1. ConsumeSignal(w, m) =
          IF w.pc.remote = 0 THEN [w EXCEPT !.candidates = @ \cup {m.gen}]
          ELSE Pending(w, "AddCandidate", m)
    BY <1>5 DEF ConsumeSignal, Outdated
  <2>2. CASE w.pc.remote = 0
    BY <1>5, <2>1, <2>2, CandidateReceived
  <2>3. CASE w.pc.remote # 0
    <3>1. "AddCandidate" \in OpsOf(w.role)
      BY DEF OpsOf
    <3>2. Answered(w)
      <4>1. CASE w.role = "Sharer"
        BY <1>5, <4>1 DEF Fits
      <4>2. CASE w.role = "Viewer"
        BY <2>3, <4>2 DEF Sound, Viewing, Answered
      <4> QED
        BY <1>0, <4>1, <4>2
    <3>3. Received(w, Pending(w, "AddCandidate", m), {m}, f)
      BY <1>5, <3>1, <3>2, PendingReceived
    <3> QED
      BY <2>1, <2>3, <3>3
  <2> QED
    BY <2>2, <2>3
<1> QED
  BY <1>0, <1>2, <1>3, <1>4, <1>5

LEMMA LeastOfNat ==
  ASSUME NEW S \in SUBSET Nat, S # {}
  PROVE  \E n \in S : \A m \in S : n <= m
<1> DEFINE R == {s \in Nat \X Nat : s[1] < s[2]}
<1>1. IsWellFoundedOn(R, Nat)
  BY NatLessThanWellFounded, Zenon DEF OpToRel
<1>2. PICK x \in S : \A y \in S : ~(<<y, x>> \in R)
  <2> HIDE DEF R
  <2> QED
    BY <1>1, WFMin
<1>3. \A y \in S : ~(y < x)
  BY <1>2
<1> QED
  BY <1>3

\* The two cases of an induction: a set of numbers without a least one is empty.
LEMMA EveryNumber ==
  ASSUME NEW S \in SUBSET Nat, 0 \notin S,
         \A n \in Nat : n \notin S => n + 1 \notin S
  PROVE  S = {}
<1> SUFFICES ASSUME S # {} PROVE FALSE
  OBVIOUS
<1>1. PICK n \in S : \A m \in S : n <= m
  BY LeastOfNat
<1>2. n - 1 \in Nat /\ n - 1 \notin S
  BY <1>1
<1>3. (n - 1) + 1 \notin S
  BY <1>2
<1> QED
  BY <1>3

\* What FlushPendingSignals has after i signals.
IsFlushing(f, w, n) ==
  f = [i \in 0 .. n |->
         IF i = 0 THEN [w EXCEPT !.signals = <<>>]
         ELSE ReceiveSignal(f[i - 1], w.signals[i])]

LEMMA FlushingAt ==
  ASSUME NEW f, NEW w, NEW n \in Nat, IsFlushing(f, w, n)
  PROVE  /\ f[0] = [w EXCEPT !.signals = <<>>]
         /\ \A i \in 1 .. n : f[i] = ReceiveSignal(f[i - 1], w.signals[i])
<1> DEFINE Step(i) == IF i = 0 THEN [w EXCEPT !.signals = <<>>]
                      ELSE ReceiveSignal(f[i - 1], w.signals[i])
<1>1. f = [i \in 0 .. n |-> Step(i)]
  BY Zenon DEF IsFlushing
<1>2. \A i \in 0 .. n : f[i] = Step(i)
  <2> HIDE DEF Step
  <2> QED
    BY <1>1, Zenon
<1>3. 0 \in 0 .. n /\ \A i \in 1 .. n : i \in 0 .. n /\ i # 0
  OBVIOUS
<1> QED
  BY <1>2, <1>3, Zenon

LEMMA FlushingNext ==
  ASSUME NEW f, NEW w, NEW n \in Nat, IsFlushing(f, w, n), NEW i \in 1 .. n
  PROVE  f[i] = ReceiveSignal(f[i - 1], w.signals[i])
<1> DEFINE F(j) == IF j = 0 THEN [w EXCEPT !.signals = <<>>]
                   ELSE ReceiveSignal(f[j - 1], w.signals[j])
<1>1. f = [j \in 0 .. n |-> F(j)]
  BY Zenon DEF IsFlushing
<1>2. i \in 0 .. n /\ i # 0
  OBVIOUS
<1>3. f[i] = F(i)
  <2> HIDE DEF F
  <2> QED
    BY <1>1, <1>2, Zenon
<1> QED
  BY <1>2, <1>3, Zenon

LEMMA FlushingExists ==
  ASSUME NEW w, NEW n \in Nat
  PROVE  \E f : IsFlushing(f, w, n)
<1> DEFINE S == {k \in Nat : ~ \E f : IsFlushing(f, w, k)}
<1>1. 0 \notin S
  <2> DEFINE g == [i \in 0 .. 0 |-> [w EXCEPT !.signals = <<>>]]
  <2>1. g = [i \in 0 .. 0 |->
               IF i = 0 THEN [w EXCEPT !.signals = <<>>]
               ELSE ReceiveSignal(g[i - 1], w.signals[i])]
    <3>1. \A i \in 0 .. 0 : i = 0
      OBVIOUS
    <3> QED
      BY <3>1, Zenon
  <2>2. IsFlushing(g, w, 0)
    BY <2>1, Zenon DEF IsFlushing
  <2> QED
    BY <2>2
<1>2. ASSUME NEW k \in Nat, k \notin S PROVE k + 1 \notin S
  <2>1. PICK f : IsFlushing(f, w, k)
    BY <1>2
  <2> DEFINE g == [i \in 0 .. k + 1 |->
                     IF i <= k THEN f[i] ELSE ReceiveSignal(f[k], w.signals[i])]
  <2>0. f[0] = [w EXCEPT !.signals = <<>>]
    BY <2>1, FlushingAt, Zenon
  <2>2. ASSUME NEW i \in 0 .. k + 1
        PROVE  g[i] = IF i = 0 THEN [w EXCEPT !.signals = <<>>]
                      ELSE ReceiveSignal(g[i - 1], w.signals[i])
    <3>1. CASE i = 0
      <4>1. g[i] = f[0]
        BY <3>1
      <4> QED
        BY <2>0, <3>1, <4>1, Zenon
    <3>2. CASE i \in 1 .. k
      <4>1. g[i] = f[i] /\ g[i - 1] = f[i - 1] /\ i # 0
        BY <3>2
      <4>2. f[i] = ReceiveSignal(f[i - 1], w.signals[i])
        BY <2>1, <3>2, FlushingNext
      <4> QED
        BY <4>1, <4>2, Zenon
    <3>3. CASE i = k + 1
      <4>1. g[i - 1] = f[k] /\ i # 0 /\ ~(i <= k)
        BY <3>3
      <4>2. g[i] = ReceiveSignal(f[k], w.signals[i])
        BY <4>1, Zenon
      <4> QED
        BY <4>1, <4>2, Zenon
    <3> QED
      BY <3>1, <3>2, <3>3
  <2>3. IsFlushing(g, w, k + 1)
    BY <2>2, Zenon DEF IsFlushing
  <2> QED
    BY <2>3
<1>3. S = {}
  <2> HIDE DEF S
  <2>1. S \in SUBSET Nat
    BY DEF S
  <2> QED
    BY <1>1, <1>2, <2>1, EveryNumber
<1> QED
  BY <1>3

LEMMA FlushIs ==
  ASSUME NEW w, Len(w.signals) \in Nat
  PROVE  \E f : IsFlushing(f, w, Len(w.signals)) /\ FlushPendingSignals(w) = f[Len(w.signals)]
<1>1. \E f : IsFlushing(f, w, Len(w.signals))
  BY FlushingExists
<1> DEFINE f == CHOOSE f : IsFlushing(f, w, Len(w.signals))
<1>2. IsFlushing(f, w, Len(w.signals))
  BY <1>1
<1>3. FlushPendingSignals(w) = f[Len(w.signals)]
  BY Zenon DEF FlushPendingSignals, IsFlushing
<1> QED
  BY <1>2, <1>3

LEMMA LearnsTwice ==
  ASSUME NEW w, NEW u, NEW v, NEW M, NEW N, NEW f,
         Learns(w, u, M, f), Learns(u, v, N, f), N \subseteq M \cup Queued(w)
  PROVE  Learns(w, v, M, f)
<1>1. Queued(u) \subseteq M \cup Queued(w)
  BY DEF Learns
<1>2. v.generation \in {0, w.generation, f} \cup {m.gen : m \in M \cup Queued(w)}
  <2>1. v.generation \in {0, u.generation, f} \cup {m.gen : m \in N \cup Queued(u)}
    BY DEF Learns
  <2>2. u.generation \in {0, w.generation, f} \cup {m.gen : m \in M \cup Queued(w)}
    BY DEF Learns
  <2> QED
    BY <1>1, <2>1, <2>2
<1>3. Queued(v) \subseteq M \cup Queued(w)
  BY <1>1 DEF Learns
<1>4. ASSUME NEW i \in DOMAIN v.rtc, v.rtc[i].op \in {"ApplyOffer", "Answer"}
      PROVE  IsFrom(w, M, v.rtc[i].gen, v.rtc[i].by)
  <2>1. IsFrom(u, N, v.rtc[i].gen, v.rtc[i].by)
    BY <1>4 DEF Learns
  <2>2. CASE \E j \in DOMAIN u.rtc : /\ u.rtc[j].op \in {"ApplyOffer", "Answer"}
                                     /\ u.rtc[j].gen = v.rtc[i].gen
                                     /\ u.rtc[j].by = v.rtc[i].by
    <3>1. PICK j \in DOMAIN u.rtc : /\ u.rtc[j].op \in {"ApplyOffer", "Answer"}
                                    /\ u.rtc[j].gen = v.rtc[i].gen
                                    /\ u.rtc[j].by = v.rtc[i].by
      BY <2>2
    <3>2. IsFrom(w, M, u.rtc[j].gen, u.rtc[j].by)
      BY <3>1 DEF Learns
    <3> QED
      BY <3>1, <3>2
  <2>3. CASE \E m \in N \cup Queued(u) : /\ m.kind = "Offer" /\ m.gen = v.rtc[i].gen
                                         /\ m.by = v.rtc[i].by
    BY <1>1, <2>3 DEF IsFrom
  <2> QED
    BY <2>1, <2>2, <2>3 DEF IsFrom
<1> QED
  BY <1>2, <1>3, <1>4 DEF Learns

\* The signals that waited for the role are received one after the other.
LEMMA FlushKeeps ==
  ASSUME NEW w, Sound(w), w.out = <<>>, w.role = "Viewer", NEW f,
         ~w.pc.gathering, w.locals = <<>>,
         \A m \in Queued(w) : m.gen # 0
  PROVE  LET v == FlushPendingSignals(w)
         IN  /\ Sound(v) /\ v.out = <<>> /\ v.role = "Viewer"
             /\ Len(v.waiting) = Len(w.waiting)
             /\ Learns(w, v, {}, f) /\ ~v.pc.gathering /\ v.locals = <<>>
<1> DEFINE n == Len(w.signals)
           Good(v) == /\ Sound(v) /\ v.out = <<>> /\ v.role = "Viewer"
                      /\ Len(v.waiting) = Len(w.waiting)
                      /\ Learns(w, v, {}, f) /\ ~v.pc.gathering /\ v.locals = <<>>
<1>1. w \in ActiveWindows /\ w.signals \in Seq(Signals) /\ n \in Nat /\ DOMAIN w.signals = 1 .. n
  <2>1. w \in ActiveWindows
    BY DEF Sound
  <2>2. w.signals \in Seq(Signals)
    BY <2>1, WindowFields
  <2> QED
    BY <2>1, <2>2
<1>2. PICK g : IsFlushing(g, w, n) /\ FlushPendingSignals(w) = g[n]
  BY <1>1, FlushIs
<1>3. /\ g[0] = [w EXCEPT !.signals = <<>>]
      /\ \A i \in 1 .. n : g[i] = ReceiveSignal(g[i - 1], w.signals[i])
  BY <1>1, <1>2, FlushingAt
<1>4. Good([w EXCEPT !.signals = <<>>])
  <2> DEFINE v == [w EXCEPT !.signals = <<>>]
  <2>1. <<>> \in Seq(Signals)
    OBVIOUS
  <2>2. /\ v \in ActiveWindows /\ v.signals = <<>> /\ v.candidates = w.candidates
        /\ v.role = w.role /\ v.generation = w.generation /\ v.pc = w.pc
        /\ v.waiting = w.waiting /\ v.rtc = w.rtc
        /\ v.announced = w.announced /\ v.locals = w.locals /\ v.out = w.out
        /\ v.timer = w.timer
    BY <1>1, <2>1 DEF ActiveWindows
  <2> HIDE DEF v
  <2>3. Idle(v) /\ Viewing(v) /\ Sharing(v)
    BY <2>2 DEF Sound, Idle, Viewing, Sharing
  <2>4. Waits(v)
    BY <2>2 DEF Sound, Waits
  <2>5. Operates(v)
    BY <2>2 DEF Sound, Operates
  <2>6. Labels(v)
    BY <2>2 DEF Sound, Labels
  <2>7. Learns(w, v, {}, f)
    <3>1. Queued(v) = {}
      BY <2>2 DEF Queued
    <3>2. \A i \in DOMAIN v.rtc : v.rtc[i].op \in {"ApplyOffer", "Answer"} =>
            IsFrom(w, {}, v.rtc[i].gen, v.rtc[i].by)
      BY <2>2 DEF IsFrom
    <3> QED
      BY <2>2, <3>1, <3>2 DEF Learns
  <2> QED
    BY <2>2, <2>3, <2>4, <2>5, <2>6, <2>7 DEF Sound, v
<1>5. ASSUME NEW i \in 1 .. n, Good(g[i - 1]) PROVE Good(g[i])
  <2> DEFINE u == g[i - 1]
             m == w.signals[i]
  <2>1. g[i] = ReceiveSignal(u, m)
    BY <1>3
  <2>2. m \in Queued(w) /\ m \in Signals
    BY <1>1 DEF Queued
  <2>3. Sound(u) /\ u.out = <<>> /\ u.role = "Viewer"
    BY <1>5
  <2>4. m.gen # 0
    BY <2>2
  <2>5. Fits(u, m)
    BY <2>3 DEF Fits
  <2> HIDE DEF u, m
  <2>6. Received(u, ReceiveSignal(u, m), {m}, f)
    BY <2>2, <2>3, <2>4, <2>5, ReceiveKeeps
  <2> DEFINE v == ReceiveSignal(u, m)
  <2> HIDE DEF v
  <2>7. Learns(w, u, {}, f)
    BY <1>5 DEF u
  <2>8. Learns(u, v, {m}, f)
    BY <2>6 DEF Received, v
  <2>9. Learns(w, v, {}, f)
    BY <2>2, <2>7, <2>8, LearnsTwice
  <2>10. ~u.pc.gathering /\ u.locals = <<>> /\ Len(u.waiting) = Len(w.waiting)
    BY <1>5 DEF u
  <2>11. ~v.pc.gathering /\ v.locals = <<>>
    BY <2>6, <2>10 DEF Received, Orders, v
  <2>12. Good(v)
    BY <2>3, <2>6, <2>9, <2>10, <2>11 DEF Received, v
  <2> QED
    BY <2>1, <2>12 DEF v
<1> HIDE DEF Good
<1> DEFINE S == {k \in Nat : k <= n /\ ~Good(g[k])}
<1>6. 0 \notin S
  BY <1>3, <1>4
<1>7. ASSUME NEW k \in Nat, k \notin S PROVE k + 1 \notin S
  <2> SUFFICES ASSUME k + 1 <= n PROVE Good(g[k + 1])
    OBVIOUS
  <2>1. Good(g[k])
    BY <1>1, <1>7
  <2>2. k + 1 \in 1 .. n /\ (k + 1) - 1 = k
    BY <1>1
  <2> QED
    BY <1>5, <2>1, <2>2
<1>8. S = {}
  <2> HIDE DEF S
  <2>1. S \in SUBSET Nat
    BY DEF S
  <2> QED
    BY <1>6, <1>7, <2>1, EveryNumber
<1>9. Good(g[n])
  <2>1. n \notin S
    BY <1>8
  <2> HIDE DEF n
  <2> QED
    BY <1>1, <2>1
<1> QED
  BY <1>2, <1>9 DEF Good

\* A connection a viewer makes before there is an offer.
LEMMA ViewKeeps ==
  ASSUME NEW w, Sound(w), w.out = <<>>, NEW f, \A m \in Queued(w) : m.gen # 0
  PROVE  LET v == FlushPendingSignals(
                    [CreatePeerConnection([StopMediaResources(w) EXCEPT !.role = "Viewer"])
                       EXCEPT !.state = "Negotiating"])
         IN  /\ Sound(v) /\ v.out = <<>> /\ v.role = "Viewer"
             /\ Learns(w, v, {}, f) /\ ~v.pc.gathering /\ v.locals = <<>>
             /\ Len(v.waiting) = Len(w.waiting)
<1>0. w \in ActiveWindows
  BY DEF Sound
<1> DEFINE t == StopMediaResources(w)
           u == [t EXCEPT !.role = "Viewer"]
           d == CreatePeerConnection(u)
           x == [d EXCEPT !.state = "Negotiating"]
           v == FlushPendingSignals(x)
<1>2. /\ t \in ActiveWindows
      /\ t.pc = Closed /\ t.rtc = <<>> /\ t.waiting = NoneWaits(w)
      /\ t.signals = w.signals /\ t.generation = w.generation
      /\ t.candidates = {} /\ t.locals = <<>> /\ ~t.timer
      /\ t.out = w.out
  BY <1>0, StopResources
<1> HIDE DEF t
<1>3. "Viewer" \in Roles /\ "Negotiating" \in States
  BY DEF Roles, States
<1>4. /\ u \in ActiveWindows /\ u.role = "Viewer" /\ u.generation = t.generation
      /\ u.pc = t.pc /\ u.rtc = t.rtc /\ u.waiting = t.waiting
      /\ u.signals = t.signals
      /\ u.candidates = t.candidates /\ u.locals = t.locals /\ u.timer = t.timer
      /\ u.out = t.out
  BY <1>2, <1>3 DEF ActiveWindows
<1> HIDE DEF u
<1>5. /\ d \in ActiveWindows
      /\ d.pc = [Closed EXCEPT !.open = TRUE, !.born = u.generation]
      /\ d.rtc = <<>> /\ d.waiting = NoneWaits(u)
      /\ d.role = u.role /\ d.generation = u.generation
      /\ d.signals = u.signals
      /\ d.candidates = u.candidates /\ d.locals = <<>>
      /\ d.timer = u.timer /\ d.out = u.out
  BY <1>4, CreatesFields
<1> HIDE DEF d
<1>6. /\ x \in ActiveWindows /\ x.waiting = d.waiting
      /\ x.pc = d.pc /\ x.rtc = d.rtc /\ x.role = d.role /\ x.generation = d.generation
      /\ x.signals = d.signals /\ x.candidates = d.candidates /\ x.locals = d.locals
      /\ x.timer = d.timer /\ x.out = d.out
  BY <1>3, <1>5 DEF ActiveWindows
<1> HIDE DEF x
<1>7. \A i \in DOMAIN x.waiting : ~x.waiting[i]
  BY <1>4, <1>5, <1>6, NoneWaitsFacts
<1>8. /\ x.pc = [Closed EXCEPT !.open = TRUE, !.born = u.generation]
      /\ x.role = "Viewer" /\ x.rtc = <<>> /\ x.locals = <<>> /\ x.candidates = {}
      /\ ~x.timer /\ x.out = <<>> /\ x.signals = w.signals /\ x.generation = w.generation
  BY <1>2, <1>4, <1>5, <1>6
<1>9. Sound(x)
  BY <1>4, <1>6, <1>7, <1>8, FreshSound
<1>10. ~x.pc.gathering
  BY <1>8 DEF Closed
<1>11. Queued(x) = Queued(w)
  BY <1>8 DEF Queued
<1>12. Len(x.waiting) = Len(w.waiting)
  <2>1. Len(d.waiting) = Len(u.waiting)
    BY <1>4, <1>5, NoneWaitsFacts
  <2>2. Len(t.waiting) = Len(w.waiting)
    BY <1>0, <1>2, NoneWaitsFacts
  <2> QED
    BY <1>4, <1>6, <2>1, <2>2
<1>13. /\ Sound(v) /\ v.out = <<>> /\ v.role = "Viewer"
       /\ Len(v.waiting) = Len(x.waiting)
       /\ Learns(x, v, {}, f) /\ ~v.pc.gathering /\ v.locals = <<>>
  BY <1>8, <1>9, <1>10, <1>11, FlushKeeps
<1> HIDE DEF v
<1>14. Learns(w, x, {}, f)
  <2>1. DOMAIN x.rtc = {}
    BY <1>8
  <2> QED
    BY <1>0, <1>6, <1>8, <2>1, LearnsNothing
<1>15. Learns(w, v, {}, f)
  BY <1>13, <1>14, LearnsTwice
<1> QED
  BY <1>12, <1>13, <1>15 DEF v, x, d, u, t

\* What every handler keeps that hands nothing over and may change the role.
Turns(w, v, f) ==
  /\ Sound(v) /\ v.out = <<>>
  /\ Learns(w, v, {}, f) /\ Shares(w, v, {}, f) /\ Orders(w, v)
  /\ Len(v.waiting) >= Len(w.waiting)

LEMMA SynchronizeKeeps ==
  ASSUME NEW w, Sound(w), w.out = <<>>, NEW r \in Roles, NEW f \in Nat, f # 0,
         \A m \in Queued(w) : m.gen # 0
  PROVE  /\ Turns(w, Synchronize(w, r, f), f)
         /\ r = "None" => Synchronize(w, r, f).role = "None"
<1>0. w \in ActiveWindows /\ Len(w.waiting) \in Nat
  <2>1. w \in ActiveWindows
    BY DEF Sound
  <2>2. w.waiting \in Seq(BOOLEAN)
    BY <2>1, WindowFields
  <2> QED
    BY <2>1, <2>2
<1>1. CASE r = "None"
  <2>1. Synchronize(w, r, f) = StopSession(w)
    BY <1>1 DEF Synchronize
  <2> DEFINE v == StopSession(w)
  <2>2. /\ Sound(v) /\ v.out = <<>> /\ v.role = "None"
        /\ Learns(w, v, {}, f) /\ Shares(w, v, {}, f)
        /\ v.generation = 0 /\ ~v.pc.gathering /\ v.locals = <<>>
        /\ Len(v.waiting) = Len(w.waiting)
    BY StopKeeps
  <2> HIDE DEF v
  <2>3. Turns(w, v, f)
    BY <1>0, <2>2 DEF Turns, Orders
  <2> QED
    BY <2>1, <2>2, <2>3 DEF v
<1>2. CASE r # "None" /\ r = w.role
  <2>1. Synchronize(w, r, f) = w
    BY <1>2 DEF Synchronize
  <2>2. Received(w, w, {}, f)
    BY SameReceived
  <2> QED
    BY <1>0, <1>2, <2>1, <2>2 DEF Received, Turns
<1>3. CASE r = "Viewer" /\ r # w.role
  <2> DEFINE v == FlushPendingSignals(
                    [CreatePeerConnection([StopMediaResources(w) EXCEPT !.role = "Viewer"])
                       EXCEPT !.state = "Negotiating"])
  <2>1. Synchronize(w, r, f) = v
    BY <1>3 DEF Synchronize
  <2>2. /\ Sound(v) /\ v.out = <<>> /\ v.role = "Viewer"
        /\ Learns(w, v, {}, f) /\ ~v.pc.gathering /\ v.locals = <<>>
        /\ Len(v.waiting) = Len(w.waiting)
    BY ViewKeeps
  <2> HIDE DEF v
  <2>3. Turns(w, v, f)
    BY <1>0, <2>2 DEF Turns, Orders, Shares
  <2> QED
    BY <1>3, <2>1, <2>3
<1>4. CASE r = "Sharer" /\ r # w.role
  <2> DEFINE v == StartSharing([StopMediaResources(w) EXCEPT !.role = "Sharer"], f)
  <2>1. Synchronize(w, r, f) = v
    BY <1>4 DEF Synchronize
  <2>2. /\ Sound(v) /\ v.out = <<>> /\ v.role = "Sharer" /\ v.generation = f
        /\ Learns(w, v, {}, f) /\ Shares(w, v, {}, f)
        /\ ~v.pc.gathering /\ v.locals = <<>>
        /\ Len(v.waiting) = Len(w.waiting) + 1
    BY StartKeeps
  <2> HIDE DEF v
  <2>3. Turns(w, v, f)
    BY <1>0, <2>2 DEF Turns, Orders
  <2> QED
    BY <1>4, <2>1, <2>3
<1> QED
  BY <1>1, <1>2, <1>3, <1>4 DEF Roles

\* What a handler hands over is of the present generation: an offer is that of
\* the open connection, an answer repeats what it answers, and a candidate comes
\* after a description, the generations of which are in D.
Says(w, v, D, m) ==
  /\ m.gen = w.generation /\ v.generation = w.generation /\ m.gen # 0
  /\ m.kind = "Offer" =>
       v.role = "Sharer" /\ m.by = v.pc.born /\ v.pc.local = m.gen
  /\ m.kind = "Answer" =>
       /\ v.role = "Viewer"
       /\ \E j \in DOMAIN w.rtc : /\ w.rtc[j].op = "Answer"
                                  /\ w.rtc[j].gen = m.gen /\ w.rtc[j].by = m.by
  /\ m.kind = "Candidate" => m.gen \in D

SaysAll(w, v, D) == \A i \in DOMAIN v.out : Says(w, v, D, v.out[i])

Describes(v) == \E i \in DOMAIN v.out : v.out[i].kind \in {"Offer", "Answer"}

\* Whether a window has candidates to send.
Gathers(w) == w.pc.gathering \/ w.locals # <<>>

\* A window that has candidates to send for a description not handed over has
\* not announced it; with "still" nothing is on the way to the window.
Ordered(w, v, D, still) ==
  v.generation \notin D /\ Gathers(v) =>
    \/ v.generation = w.generation /\ Gathers(w) /\ (v.announced => w.announced)
    \/ still /\ ~v.announced
    \/ Describes(v)

Handled(w, v, M, f, D, still) ==
  /\ Sound(v)
  /\ Learns(w, v, M, f) /\ Shares(w, v, M, f)
  /\ SaysAll(w, v, D) /\ Ordered(w, v, D, still)

LEMMA SaysNothing ==
  ASSUME NEW w, NEW v, v.out = <<>>, NEW D
  PROVE  SaysAll(w, v, D)
BY DEF SaysAll

LEMMA OrdersOrdered ==
  ASSUME NEW w, NEW v, Orders(w, v), NEW D, NEW still
  PROVE  Ordered(w, v, D, still)
BY DEF Orders, Ordered, Gathers

\* All that later handlers look at.
Alike(w, u) ==
  /\ u.role = w.role /\ u.generation = w.generation /\ u.rtc = w.rtc
  /\ u.signals = w.signals /\ u.announced = w.announced /\ u.locals = w.locals
  /\ u.pc.born = w.pc.born /\ u.pc.local = w.pc.local /\ u.pc.remote = w.pc.remote
  /\ u.pc.refused = w.pc.refused /\ u.pc.gathering = w.pc.gathering

LEMMA AlikeBefore ==
  ASSUME NEW w, NEW u, Alike(w, u), NEW v, NEW M, NEW f, NEW D, NEW still,
         Handled(u, v, M, f, D, still)
  PROVE  Handled(w, v, M, f, D, still)
<1>1. Queued(u) = Queued(w)
  BY DEF Alike, Queued
<1>2. Answered(w) <=> Answered(u)
  BY DEF Alike, Answered
<1>3. Learns(w, v, M, f)
  <2>1. Learns(u, v, M, f)
    BY DEF Handled
  <2>2. ASSUME NEW i \in DOMAIN v.rtc, v.rtc[i].op \in {"ApplyOffer", "Answer"}
        PROVE  IsFrom(w, M, v.rtc[i].gen, v.rtc[i].by)
    <3>1. IsFrom(u, M, v.rtc[i].gen, v.rtc[i].by)
      BY <2>1, <2>2 DEF Learns
    <3> QED
      BY <1>1, <3>1 DEF IsFrom, Alike
  <2>3. v.generation \in {0, w.generation, f} \cup {m.gen : m \in M \cup Queued(w)}
    BY <1>1, <2>1 DEF Learns, Alike
  <2> QED
    BY <1>1, <2>1, <2>2, <2>3 DEF Learns
<1>4. Shares(w, v, M, f)
  BY <1>2 DEF Handled, Shares, Alike
<1>5. SaysAll(w, v, D)
  <2> SUFFICES ASSUME NEW i \in DOMAIN v.out PROVE Says(w, v, D, v.out[i])
    BY DEF SaysAll
  <2>1. Says(u, v, D, v.out[i])
    BY DEF Handled, SaysAll
  <2> QED
    BY <2>1 DEF Says, Alike
<1>6. Ordered(w, v, D, still)
  BY DEF Handled, Ordered, Gathers, Alike
<1> QED
  BY <1>3, <1>4, <1>5, <1>6 DEF Handled

LEMMA QuietAfter ==
  ASSUME NEW w, NEW v, NEW x, Quiet(v, x), x.timer = v.timer,
         NEW M, NEW f, NEW D, NEW still,
         Handled(w, v, M, f, D, still)
  PROVE  Handled(w, x, M, f, D, still)
<1>1. Sound(x)
  BY QuietSound DEF Handled
<1>2. Queued(x) = Queued(v)
  BY DEF Quiet, Queued
<1>3. Answered(v) <=> Answered(x)
  BY DEF Quiet, Answered
<1>4. Learns(w, x, M, f)
  BY <1>2 DEF Handled, Learns, Quiet
<1>5. Shares(w, x, M, f)
  BY <1>3 DEF Handled, Shares, Quiet
<1>6. SaysAll(w, x, D)
  <2> SUFFICES ASSUME NEW i \in DOMAIN v.out PROVE Says(w, x, D, v.out[i])
    BY DEF SaysAll, Quiet
  <2>1. Says(w, v, D, v.out[i])
    BY DEF Handled, SaysAll
  <2> QED
    BY <2>1 DEF Says, Quiet
<1>7. Ordered(w, x, D, still)
  BY DEF Handled, Ordered, Gathers, Quiet, Describes
<1> QED
  BY <1>1, <1>4, <1>5, <1>6, <1>7 DEF Handled

LEMMA QuietAlike ==
  ASSUME NEW w, NEW u, Quiet(w, u)
  PROVE  Alike(w, u)
BY DEF Quiet, Alike

\* A handler that does what only the user sees.
LEMMA QuietHandled ==
  ASSUME NEW w, Sound(w), w.out = <<>>, NEW v, Quiet(w, v),
         v.timer => w.timer \/ (w.role = "Sharer" /\ w.pc.remote # 0),
         NEW f, NEW D, NEW still
  PROVE  Handled(w, v, {}, f, D, still) /\ v.waiting = w.waiting
<1>0. w \in ActiveWindows
  BY DEF Sound
<1>1. Idle(v) /\ Viewing(v) /\ Sharing(v)
  BY DEF Sound, Quiet, Idle, Viewing, Sharing
<1>2. Waits(v)
  BY DEF Sound, Quiet, Waits
<1>3. Operates(v)
  BY DEF Sound, Quiet, Operates
<1>4. Labels(v)
  BY Zenon DEF Sound, Quiet, Labels
<1>5. Sound(v)
  BY <1>1, <1>2, <1>3, <1>4 DEF Sound, Quiet
<1>6. Learns(w, v, {}, f) /\ Shares(w, v, {}, f)
  BY <1>0, QuietLearns
<1>7. SaysAll(w, v, D)
  BY SaysNothing DEF Quiet
<1>8. Ordered(w, v, D, still)
  BY DEF Ordered, Gathers, Quiet
<1> QED
  BY <1>5, <1>6, <1>7, <1>8 DEF Handled, Quiet

LEMMA ReceivedHandled ==
  ASSUME NEW w, NEW v, NEW M, NEW f, Received(w, v, M, f), NEW D, NEW still
  PROVE  Handled(w, v, M, f, D, still) /\ Len(v.waiting) = Len(w.waiting)
BY SaysNothing, OrdersOrdered DEF Received, Handled

LEMMA TurnsHandled ==
  ASSUME NEW w, NEW v, NEW f, Turns(w, v, f), NEW D, NEW still
  PROVE  Handled(w, v, {}, f, D, still) /\ Len(v.waiting) >= Len(w.waiting)
BY SaysNothing, OrdersOrdered DEF Turns, Handled

\* The snapshot a window reads, or the configuration it saves.
LEMMA SynchronizeHandled ==
  ASSUME NEW w, Sound(w), w.out = <<>>, NEW u, Quiet(w, u), u.timer = w.timer,
         NEW r \in Roles, NEW f \in Nat, f # 0, \A m \in Queued(w) : m.gen # 0,
         NEW D, NEW still
  PROVE  LET v == Synchronize(u, r, f)
         IN  /\ Handled(w, v, {}, f, D, still)
             /\ Len(v.waiting) >= Len(w.waiting)
             /\ r = "None" => v.role = "None"
<1> DEFINE v == Synchronize(u, r, f)
<1>1. Sound(u) /\ u.out = <<>> /\ Queued(u) = Queued(w) /\ u.waiting = w.waiting
  BY QuietSound DEF Quiet, Queued
<1>2. Turns(u, v, f) /\ (r = "None" => v.role = "None")
  BY <1>1, SynchronizeKeeps
<1> HIDE DEF v
<1>3. Handled(u, v, {}, f, D, still) /\ Len(v.waiting) >= Len(u.waiting)
  BY <1>2, TurnsHandled
<1>4. Handled(w, v, {}, f, D, still)
  BY <1>3, QuietAlike, AlikeBefore
<1> QED
  BY <1>1, <1>2, <1>3, <1>4 DEF v

LEMMA LoadedHandled ==
  ASSUME NEW w, NEW f, NEW D, NEW still
  PROVE  Handled(w, Loaded, {}, f, D, still) /\ Loaded.role = "None"
<1>1. Sound(Loaded) /\ Loaded.out = <<>>
  BY LoadedSound
<1>2. /\ Loaded.rtc = <<>> /\ Loaded.signals = <<>> /\ Loaded.generation = 0
      /\ Loaded.role = "None" /\ ~Loaded.pc.gathering /\ Loaded.locals = <<>>
  BY ClosedFacts DEF Loaded
<1>3. Learns(w, Loaded, {}, f)
  <2>1. Queued(Loaded) = {} /\ DOMAIN Loaded.rtc = {}
    BY <1>2 DEF Queued
  <2> QED
    BY <1>2, <2>1 DEF Learns
<1>4. Shares(w, Loaded, {}, f)
  BY <1>2 DEF Shares
<1>5. Ordered(w, Loaded, D, still)
  BY <1>2 DEF Ordered, Gathers
<1> QED
  BY <1>1, <1>2, <1>3, <1>4, <1>5, SaysNothing DEF Handled

\* What is sound of a window that differs only in what it has to send.
LEMMA SendsSound ==
  ASSUME NEW w, Sound(w), NEW v \in ActiveWindows,
         v.role = w.role, v.generation = w.generation, v.rtc = w.rtc,
         v.waiting = w.waiting, v.candidates = w.candidates, v.timer = w.timer,
         v.pc.open = w.pc.open, v.pc.born = w.pc.born, v.pc.local = w.pc.local,
         v.pc.remote = w.pc.remote, v.pc.by = w.pc.by, v.pc.added = w.pc.added,
         v.pc.refused = w.pc.refused, v.pc.tracks => w.pc.tracks \/ w.role = "Sharer",
         w.role = "None" => v.pc = w.pc,
         \A i \in DOMAIN v.locals : v.locals[i] = Candidate(v.generation),
         w.role = "None" => v.locals = <<>>
  PROVE  Sound(v)
<1>1. Idle(v)
  BY DEF Sound, Idle
<1>2. Viewing(v)
  BY DEF Sound, Viewing
<1>3. Sharing(v)
  BY DEF Sound, Sharing
<1>4. Waits(v)
  BY DEF Sound, Waits
<1>5. Operates(v)
  BY DEF Sound, Operates
<1>6. Labels(v)
  BY DEF Sound, Labels
<1> QED
  BY <1>1, <1>2, <1>3, <1>4, <1>5, <1>6 DEF Sound

\* A window that goes on for the same generation.
LEMMA SameShares ==
  ASSUME NEW w, NEW v, v.role = w.role, v.generation = w.generation,
         v.pc.born = w.pc.born, v.pc.local \in {w.pc.local, w.generation},
         Answered(w) => Answered(v), NEW f
  PROVE  Shares(w, v, {}, f)
BY DEF Shares

LEMMA AnnouncedHandled ==
  ASSUME NEW w, Sound(w), w.out = <<>>, NEW f, NEW D, NEW still, 0 \notin D,
         Gathers(w) => w.generation \in D
  PROVE  /\ Handled(w, Announced(w), {}, f, D, still) /\ Announced(w).waiting = w.waiting
         /\ Handled(w, OfferAnnounced(w), {}, f, D, still)
         /\ OfferAnnounced(w).waiting = w.waiting
<1> DEFINE v == [w EXCEPT !.announced = TRUE, !.locals = <<>>, !.out = w.locals]
<1>0. w \in ActiveWindows /\ w.locals \in Seq(Signals)
  BY WindowFields DEF Sound
<1>1. Announced(w) = v
  <2>1. w.out \o w.locals = w.locals
    BY <1>0
  <2>2. Announced(w) = [w EXCEPT !.announced = TRUE, !.locals = <<>>, !.out = w.out \o w.locals]
    BY DEF Announced
  <2> QED
    BY <2>1, <2>2
<1>2. /\ v \in ActiveWindows /\ v.out = w.locals /\ v.locals = <<>>
      /\ v.role = w.role /\ v.generation = w.generation /\ v.rtc = w.rtc
      /\ v.waiting = w.waiting /\ v.candidates = w.candidates /\ v.timer = w.timer
      /\ v.pc = w.pc /\ v.signals = w.signals
  <2>1. <<>> \in Seq(Signals)
    OBVIOUS
  <2> QED
    BY <1>0, <2>1 DEF ActiveWindows
<1> HIDE DEF v
<1>3. Sound(v)
  BY <1>2, SendsSound
<1>4. Learns(w, v, {}, f)
  BY <1>0, <1>2, LearnsNothing
<1>5. Shares(w, v, {}, f)
  <2>1. Answered(w) => Answered(v)
    BY <1>2 DEF Answered
  <2> QED
    BY <1>2, <2>1, SameShares
<1>6. SaysAll(w, v, D)
  <2> SUFFICES ASSUME NEW i \in DOMAIN w.locals PROVE Says(w, v, D, w.locals[i])
    BY <1>2 DEF SaysAll
  <2>1. w.locals[i] = Candidate(w.generation)
    BY DEF Sound, Labels
  <2>2. w.locals # <<>>
    OBVIOUS
  <2>3. w.generation \in D
    BY <2>2 DEF Gathers
  <2> DEFINE m == w.locals[i]
  <2>4. m.kind = "Candidate" /\ m.gen = w.generation
    BY <2>1 DEF Candidate
  <2> HIDE DEF m
  <2>5. Says(w, v, D, m)
    BY <1>2, <2>3, <2>4 DEF Says
  <2> QED
    BY <2>5 DEF m
<1>7. Ordered(w, v, D, still)
  BY <1>2 DEF Ordered, Gathers
<1>8. Handled(w, v, {}, f, D, still)
  BY <1>3, <1>4, <1>5, <1>6, <1>7 DEF Handled
<1>9. Quiet(v, Fail(v)) /\ Fail(v).timer = v.timer
  BY <1>2, QuietUpdates DEF States, Roles
<1>10. Handled(w, Fail(v), {}, f, D, still)
  BY <1>8, <1>9, QuietAfter
<1>11. OfferAnnounced(w) \in {v, Fail(v)}
  BY <1>1 DEF OfferAnnounced
<1> QED
  BY <1>1, <1>2, <1>8, <1>9, <1>10, <1>11 DEF Quiet

LEMMA GatherHandled ==
  ASSUME NEW w, Sound(w), w.out = <<>>, NEW f, NEW D, NEW still, 0 \notin D,
         w.pc.gathering, w.announced => w.generation \in D
  PROVE  LET v == SendOrQueueLocalSignal([w EXCEPT !.pc.gathering = FALSE])
         IN  Handled(w, v, {}, f, D, still) /\ v.waiting = w.waiting
<1> DEFINE c == [w.pc EXCEPT !.gathering = FALSE]
           u == [w EXCEPT !.pc = c]
           e == Candidate(w.generation)
           q == Append(w.locals, e)
<1>0. w \in ActiveWindows /\ w.locals \in Seq(Signals) /\ w.pc \in Connections /\ w.generation \in Nat
  BY WindowFields DEF Sound
<1>1. /\ c \in Connections /\ c.open = w.pc.open /\ c.born = w.pc.born
      /\ c.local = w.pc.local /\ c.remote = w.pc.remote /\ c.by = w.pc.by
      /\ c.added = w.pc.added /\ c.refused = w.pc.refused /\ c.tracks = w.pc.tracks
      /\ ~c.gathering
  BY <1>0 DEF Connections
<1>2. [w EXCEPT !.pc.gathering = FALSE] = u
  OBVIOUS
<1> HIDE DEF c
<1>3. /\ u \in ActiveWindows /\ u.pc = c /\ u.locals = w.locals /\ u.out = w.out
      /\ u.role = w.role /\ u.generation = w.generation /\ u.rtc = w.rtc
      /\ u.waiting = w.waiting /\ u.candidates = w.candidates /\ u.timer = w.timer
      /\ u.signals = w.signals /\ u.announced = w.announced
  BY <1>0, <1>1 DEF ActiveWindows
<1> HIDE DEF u
<1>4. w.role # "None"
  BY ClosedFacts DEF Sound, Idle
<1>5. e \in Signals /\ e.kind = "Candidate" /\ e.gen = w.generation
  BY <1>0 DEF Candidate, Signals
<1>6. /\ q \in Seq(Signals) /\ Len(w.locals) \in Nat
      /\ DOMAIN q = 1 .. Len(w.locals) + 1 /\ DOMAIN w.locals = 1 .. Len(w.locals)
      /\ q[Len(w.locals) + 1] = e
      /\ \A i \in 1 .. Len(w.locals) : q[i] = w.locals[i]
  BY <1>0, <1>5, AppendFacts
<1>7. CASE w.announced
  <2> DEFINE r == <<e>>
             v == [u EXCEPT !.out = r]
  <2>0. r \in Seq(Signals) /\ DOMAIN r = {1} /\ r[1] = e
    BY <1>5
  <2>1. SendOrQueueLocalSignal(u) = v
    <3>1. Append(u.out, Candidate(u.generation)) = r
      BY <1>3
    <3> QED
      BY <1>3, <1>7, <3>1 DEF SendOrQueueLocalSignal, Hand
  <2> HIDE DEF r
  <2>2. /\ v \in ActiveWindows /\ v.out = r /\ v.locals = u.locals /\ v.pc = u.pc
        /\ v.role = u.role /\ v.generation = u.generation /\ v.rtc = u.rtc
        /\ v.waiting = u.waiting /\ v.candidates = u.candidates /\ v.timer = u.timer
        /\ v.signals = u.signals /\ v.announced = u.announced
    BY <1>3, <2>0 DEF ActiveWindows
  <2> HIDE DEF v
  <2>3. \A i \in DOMAIN v.locals : v.locals[i] = Candidate(v.generation)
    BY <1>3, <2>2 DEF Sound, Labels
  <2>4. Sound(v)
    BY <1>1, <1>3, <1>4, <2>2, <2>3, SendsSound
  <2>5. Learns(w, v, {}, f)
    BY <1>0, <1>3, <2>2, LearnsNothing
  <2>6. Answered(w) => Answered(v)
    BY <1>1, <1>3, <2>2 DEF Answered
  <2>7. Shares(w, v, {}, f)
    <3>1. /\ v.role = w.role /\ v.generation = w.generation
          /\ v.pc.born = w.pc.born /\ v.pc.local = w.pc.local
      BY <1>1, <1>3, <2>2
    <3> QED
      BY <2>6, <3>1, SameShares
  <2>8. SaysAll(w, v, D)
    <3>1. w.generation \in D
      BY <1>7
    <3>2. Says(w, v, D, e)
      <4> HIDE DEF e
      <4> QED
        BY <1>3, <1>5, <2>2, <3>1 DEF Says
    <3> QED
      BY <2>0, <2>2, <3>2 DEF SaysAll
  <2>9. Ordered(w, v, D, still)
    BY <1>3, <1>7, <2>2 DEF Ordered
  <2> QED
    BY <1>2, <1>3, <2>1, <2>2, <2>4, <2>5, <2>7, <2>8, <2>9 DEF Handled
<1>8. CASE ~w.announced
  <2> DEFINE v == [u EXCEPT !.locals = q]
  <2>1. SendOrQueueLocalSignal(u) = v
    BY <1>3, <1>8 DEF SendOrQueueLocalSignal
  <2> HIDE DEF q
  <2>2. /\ v \in ActiveWindows /\ v.out = u.out /\ v.locals = q /\ v.pc = u.pc
        /\ v.role = u.role /\ v.generation = u.generation /\ v.rtc = u.rtc
        /\ v.waiting = u.waiting /\ v.candidates = u.candidates /\ v.timer = u.timer
        /\ v.signals = u.signals /\ v.announced = u.announced
    BY <1>3, <1>6 DEF ActiveWindows
  <2> HIDE DEF v
  <2>3. \A i \in DOMAIN v.locals : v.locals[i] = Candidate(v.generation)
    <3> SUFFICES ASSUME NEW i \in DOMAIN q PROVE q[i] = Candidate(w.generation)
      BY <1>3, <2>2
    <3>1. CASE i \in 1 .. Len(w.locals)
      BY <1>6, <3>1 DEF Sound, Labels
    <3>2. CASE i = Len(w.locals) + 1
      BY <1>6, <3>2
    <3> QED
      BY <1>6, <3>1, <3>2
  <2>4. Sound(v)
    BY <1>1, <1>3, <1>4, <2>2, <2>3, SendsSound
  <2>5. Learns(w, v, {}, f)
    BY <1>0, <1>3, <2>2, LearnsNothing
  <2>6. Answered(w) => Answered(v)
    BY <1>1, <1>3, <2>2 DEF Answered
  <2>7. Shares(w, v, {}, f)
    <3>1. /\ v.role = w.role /\ v.generation = w.generation
          /\ v.pc.born = w.pc.born /\ v.pc.local = w.pc.local
      BY <1>1, <1>3, <2>2
    <3> QED
      BY <2>6, <3>1, SameShares
  <2>8. SaysAll(w, v, D)
    BY <1>3, <2>2, SaysNothing
  <2>9. Ordered(w, v, D, still)
    BY <1>3, <1>8, <2>2 DEF Ordered, Gathers
  <2> QED
    BY <1>2, <1>3, <2>1, <2>2, <2>4, <2>5, <2>7, <2>8, <2>9 DEF Handled
<1> QED
  BY <1>7, <1>8

\* sendOffer, for the sharer.
LEMMA OfferHandled ==
  ASSUME NEW w, Sound(w), w.out = <<>>, w.role = "Sharer", NEW f, NEW D, NEW still
  PROVE  Handled(w, SendOffer(w), {}, f, D, still) /\ SendOffer(w).waiting = w.waiting
<1> DEFINE u == [w EXCEPT !.announced = FALSE, !.locals = <<>>]
           m == [gen |-> w.generation, by |-> 0]
           v == Pending(u, "Offer", m)
<1>0. w \in ActiveWindows /\ w.generation \in Nat
  BY WindowFields DEF Sound
<1>1. SendOffer(w) = v
  BY <1>0 DEF SendOffer, Pending, ActiveWindows
<1>2. /\ u \in ActiveWindows /\ u.pc = w.pc /\ u.locals = <<>> /\ u.out = w.out
      /\ u.role = w.role /\ u.generation = w.generation /\ u.rtc = w.rtc
      /\ u.waiting = w.waiting /\ u.candidates = w.candidates /\ u.timer = w.timer
      /\ u.signals = w.signals /\ ~u.announced
  <2>1. <<>> \in Seq(Signals)
    OBVIOUS
  <2> QED
    BY <1>0, <2>1 DEF ActiveWindows
<1> HIDE DEF u
<1>3. Sound(u)
  BY <1>2, SendsSound
<1>4. m.gen \in Nat /\ m.by \in Nat /\ m.gen = u.generation
  BY <1>0, <1>2
<1>5. m.gen # 0
  BY DEF Sound, Sharing
<1>6. "Offer" \in OpsOf(u.role)
  BY <1>2 DEF OpsOf
<1> HIDE DEF m
<1>7. /\ Sound(v) /\ v.rtc = Append(u.rtc, Operation("Offer", m))
      /\ v.role = u.role /\ v.generation = u.generation /\ v.pc = u.pc
      /\ v.waiting = u.waiting /\ v.signals = u.signals
      /\ v.announced = u.announced /\ v.candidates = u.candidates
      /\ v.locals = u.locals /\ v.out = u.out /\ v.timer = u.timer
  BY <1>2, <1>3, <1>4, <1>5, <1>6, PendingKeeps
<1> HIDE DEF v
<1>8. Learns(w, v, {}, f)
  <2>1. Learns(w, u, {}, f)
    BY <1>0, <1>2, LearnsNothing
  <2>2. v \in ActiveWindows
    BY <1>7 DEF Sound
  <2> QED
    BY <1>0, <1>2, <1>7, <2>1, <2>2, PendingLearns
<1>9. Answered(w) => Answered(v)
  <2>1. w.rtc \in Seq(Operations) /\ Operation("Offer", m) \in Operations
    BY <1>0, <1>4, WindowFields DEF Operation, Operations
  <2>2. \A i \in DOMAIN w.rtc : i \in DOMAIN v.rtc /\ v.rtc[i] = w.rtc[i]
    BY <1>2, <1>7, <2>1, AppendFacts
  <2> QED
    BY <1>2, <1>7, <2>2 DEF Answered
<1>10. Shares(w, v, {}, f)
  BY <1>2, <1>7, <1>9, SameShares
<1>11. SaysAll(w, v, D)
  BY <1>2, <1>7, SaysNothing
<1>12. Ordered(w, v, D, still)
  BY <1>2, <1>7 DEF Ordered, Gathers
<1> QED
  BY <1>1, <1>2, <1>7, <1>8, <1>10, <1>11, <1>12 DEF Handled

LEMMA FailHandled ==
  ASSUME NEW w, Sound(w), w.out = <<>>, NEW f, NEW D, NEW still
  PROVE  Handled(w, Fail(w), {}, f, D, still) /\ Fail(w).waiting = w.waiting
<1>1. w \in ActiveWindows
  BY DEF Sound
<1>2. Quiet(w, Fail(w)) /\ Fail(w).timer = w.timer
  BY <1>1, QuietUpdates DEF States, Roles
<1>3. Fail(w).timer => w.timer \/ (w.role = "Sharer" /\ w.pc.remote # 0)
  BY <1>2
<1>4. Handled(w, Fail(w), {}, f, D, still)
  BY <1>2, <1>3, QuietHandled
<1>5. Fail(w).waiting = w.waiting
  BY <1>2 DEF Quiet
<1> QED
  BY <1>4, <1>5

\* The first capture asked for comes or is refused.
LEMMA GrantTaken ==
  ASSUME NEW w, Sound(w), w.waiting # <<>>, NEW u \in ActiveWindows,
         u.waiting = Tail(w.waiting), u.role = w.role, u.generation = w.generation,
         u.rtc = w.rtc, u.candidates = w.candidates, u.timer = w.timer, u.pc = w.pc,
         u.locals = w.locals
  PROVE  Sound(u) /\ Len(u.waiting) = Len(w.waiting) - 1
<1>0. w.waiting \in Seq(BOOLEAN)
  BY WindowFields DEF Sound
<1>1. /\ Len(u.waiting) = Len(w.waiting) - 1 /\ Len(w.waiting) \in Nat
      /\ DOMAIN u.waiting = 1 .. Len(w.waiting) - 1
      /\ DOMAIN w.waiting = 1 .. Len(w.waiting)
      /\ \A i \in 1 .. Len(w.waiting) - 1 : u.waiting[i] = w.waiting[i + 1]
  BY <1>0, TailFacts
<1>2. Waits(u)
  <2> SUFFICES ASSUME NEW i \in DOMAIN u.waiting, u.waiting[i]
               PROVE  i = Len(u.waiting) /\ u.role = "Sharer"
    BY DEF Waits
  <2>1. i + 1 \in DOMAIN w.waiting /\ w.waiting[i + 1]
    BY <1>1
  <2>2. i + 1 = Len(w.waiting) /\ w.role = "Sharer"
    BY <2>1 DEF Sound, Waits
  <2> QED
    BY <1>1, <2>2
<1>3. Idle(u) /\ Viewing(u) /\ Sharing(u)
  BY DEF Sound, Idle, Viewing, Sharing
<1>4. Operates(u)
  BY DEF Sound, Operates
<1>5. Labels(u)
  BY DEF Sound, Labels
<1> QED
  BY <1>1, <1>2, <1>3, <1>4, <1>5 DEF Sound

LEMMA CapturedHandled ==
  ASSUME NEW w, Sound(w), w.out = <<>>, w.waiting # <<>>, NEW f, NEW D, NEW still
  PROVE  LET v == Captured(w)
         IN  Handled(w, v, {}, f, D, still) /\ Len(v.waiting) = Len(w.waiting) - 1
<1> DEFINE q == Tail(w.waiting)
           u == [w EXCEPT !.waiting = q, !.local = TRUE, !.leaked = w.leaked \/ w.local]
<1>0. w \in ActiveWindows /\ w.waiting \in Seq(BOOLEAN) /\ w.pc \in Connections
  BY WindowFields DEF Sound
<1>1. q \in Seq(BOOLEAN)
  BY <1>0, TailFacts
<1>2. Captured(w) = IF Head(w.waiting)
                    THEN SendOffer([u EXCEPT !.pc.tracks = TRUE, !.state = "Negotiating"])
                    ELSE Fail(u)
  BY DEF Captured
<1> HIDE DEF q
<1>3. /\ u \in ActiveWindows /\ u.pc = w.pc /\ u.locals = w.locals /\ u.out = w.out
      /\ u.role = w.role /\ u.generation = w.generation /\ u.rtc = w.rtc
      /\ u.waiting = q /\ u.candidates = w.candidates /\ u.timer = w.timer
      /\ u.signals = w.signals /\ u.announced = w.announced
  <2>1. (w.leaked \/ w.local) \in BOOLEAN
    OBVIOUS
  <2> DEFINE b == w.leaked \/ w.local
  <2> HIDE DEF b
  <2> QED
    BY <1>0, <1>1, <2>1 DEF ActiveWindows, b
<1> HIDE DEF u
<1>4. Sound(u) /\ Len(u.waiting) = Len(w.waiting) - 1
  BY <1>3, GrantTaken DEF q
<1>5. Alike(w, u)
  BY <1>3 DEF Alike
<1>6. CASE ~Head(w.waiting)
  <2>2. Handled(u, Fail(u), {}, f, D, still) /\ Fail(u).waiting = u.waiting
    BY <1>3, <1>4, FailHandled
  <2>3. Handled(w, Fail(u), {}, f, D, still)
    BY <1>5, <2>2, AlikeBefore
  <2> QED
    BY <1>2, <1>4, <1>6, <2>2, <2>3
<1>7. CASE Head(w.waiting)
  <2> DEFINE c == [u.pc EXCEPT !.tracks = TRUE]
             x == [u EXCEPT !.pc = c, !.state = "Negotiating"]
  <2>1. w.role = "Sharer"
    <3>1. 1 \in DOMAIN w.waiting /\ w.waiting[1] = Head(w.waiting)
      BY <1>0, TailFacts
    <3> QED
      BY <1>7, <3>1 DEF Sound, Waits
  <2>2. [u EXCEPT !.pc.tracks = TRUE, !.state = "Negotiating"] = x
    OBVIOUS
  <2>3. /\ c \in Connections /\ c.open = w.pc.open /\ c.born = w.pc.born
        /\ c.local = w.pc.local /\ c.remote = w.pc.remote /\ c.by = w.pc.by
        /\ c.added = w.pc.added /\ c.refused = w.pc.refused
        /\ c.gathering = w.pc.gathering
    BY <1>0, <1>3 DEF Connections
  <2> HIDE DEF c
  <2>4. /\ x \in ActiveWindows /\ x.pc = c /\ x.locals = u.locals /\ x.out = u.out
        /\ x.role = u.role /\ x.generation = u.generation /\ x.rtc = u.rtc
        /\ x.waiting = u.waiting /\ x.candidates = u.candidates /\ x.timer = u.timer
        /\ x.signals = u.signals /\ x.announced = u.announced
    <3>1. "Negotiating" \in States
      BY DEF States
    <3> QED
      BY <1>3, <2>3, <3>1 DEF ActiveWindows
  <2> HIDE DEF x
  <2>5. \A i \in DOMAIN x.locals : x.locals[i] = Candidate(x.generation)
    BY <1>3, <2>4 DEF Sound, Labels
  <2>6. Sound(x)
    BY <1>3, <1>4, <2>1, <2>3, <2>4, <2>5, SendsSound
  <2>7. Alike(w, x)
    BY <1>3, <2>3, <2>4 DEF Alike
  <2>8. Handled(x, SendOffer(x), {}, f, D, still) /\ SendOffer(x).waiting = x.waiting
    BY <1>3, <2>1, <2>4, <2>6, OfferHandled
  <2>9. Handled(w, SendOffer(x), {}, f, D, still)
    BY <2>7, <2>8, AlikeBefore
  <2> QED
    BY <1>2, <1>4, <1>7, <2>2, <2>4, <2>8, <2>9
<1> QED
  BY <1>6, <1>7

LEMMA RefusedHandled ==
  ASSUME NEW w, Sound(w), w.out = <<>>, w.waiting # <<>>, NEW f, NEW D, NEW still
  PROVE  LET v == Fail([w EXCEPT !.waiting = Tail(@)])
         IN  Handled(w, v, {}, f, D, still) /\ Len(v.waiting) = Len(w.waiting) - 1
<1> DEFINE q == Tail(w.waiting)
           u == [w EXCEPT !.waiting = q]
<1>0. w \in ActiveWindows /\ w.waiting \in Seq(BOOLEAN)
  BY WindowFields DEF Sound
<1>1. q \in Seq(BOOLEAN)
  BY <1>0, TailFacts
<1> HIDE DEF q
<1>3. /\ u \in ActiveWindows /\ u.pc = w.pc /\ u.locals = w.locals /\ u.out = w.out
      /\ u.role = w.role /\ u.generation = w.generation /\ u.rtc = w.rtc
      /\ u.waiting = q /\ u.candidates = w.candidates /\ u.timer = w.timer
      /\ u.signals = w.signals /\ u.announced = w.announced
  BY <1>0, <1>1 DEF ActiveWindows
<1>9. [w EXCEPT !.waiting = Tail(@)] = u
  BY DEF q
<1> HIDE DEF u
<1>4. Sound(u) /\ Len(u.waiting) = Len(w.waiting) - 1
  BY <1>3, GrantTaken DEF q
<1>5. Alike(w, u)
  BY <1>3 DEF Alike
<1>7. Handled(u, Fail(u), {}, f, D, still) /\ Fail(u).waiting = u.waiting
  BY <1>3, <1>4, FailHandled
<1>8. Handled(w, Fail(u), {}, f, D, still)
  BY <1>5, <1>7, AlikeBefore
<1> QED
  BY <1>4, <1>7, <1>8, <1>9

\* The timer has run out.
LEMMA RestartHandled ==
  ASSUME NEW w, Sound(w), w.out = <<>>, w.timer, w.rtc = <<>>,
         NEW f \in Nat, w.generation < f, NEW D
  PROVE  LET v == RestartIce(w, f)
         IN  Handled(w, v, {}, f, D, TRUE) /\ v.waiting = w.waiting
<1> DEFINE u == [w EXCEPT !.timer = FALSE, !.generation = f, !.candidates = {},
                          !.announced = FALSE, !.locals = <<>>]
           m == [gen |-> f, by |-> 0]
           v == Pending(u, "Offer", m)
<1>0. w \in ActiveWindows /\ w.generation \in Nat /\ w.pc \in Connections /\ w.role \in Roles
  BY WindowFields DEF Sound
<1>1. RestartIce(w, f) = v
  BY <1>0 DEF RestartIce, SendOffer, Pending, ActiveWindows
<1>2. w.role = "Sharer"
  BY <1>0 DEF Sound, Idle, Viewing, Roles
<1>3. /\ u \in ActiveWindows /\ u.pc = w.pc /\ u.locals = <<>> /\ u.out = w.out
      /\ u.role = w.role /\ u.generation = f /\ u.rtc = w.rtc
      /\ u.waiting = w.waiting /\ u.candidates = {} /\ ~u.timer
      /\ u.signals = w.signals /\ ~u.announced
  <2>1. <<>> \in Seq(Signals)
    OBVIOUS
  <2> QED
    BY <1>0, <2>1 DEF ActiveWindows
<1> HIDE DEF u
<1>4. Sound(u)
  <2>1. Idle(u) /\ Viewing(u)
    BY <1>2, <1>3 DEF Idle, Viewing
  <2>2. Sharing(u)
    <3>1. w.pc.local <= w.generation /\ w.pc.local \in Nat
      BY <1>0, <1>2, ConnectionFields DEF Sound, Sharing
    <3> QED
      BY <1>0, <1>2, <1>3, <3>1 DEF Sound, Sharing
  <2>3. Waits(u)
    BY <1>3 DEF Sound, Waits
  <2>4. Operates(u)
    BY <1>3 DEF Operates
  <2>5. Labels(u)
    BY <1>3 DEF Sound, Labels
  <2> QED
    BY <1>3, <2>1, <2>2, <2>3, <2>4, <2>5 DEF Sound
<1>5. m.gen \in Nat /\ m.by \in Nat /\ m.gen = u.generation /\ m.gen # 0
  BY <1>0, <1>3
<1>6. "Offer" \in OpsOf(u.role)
  BY <1>2, <1>3 DEF OpsOf
<1> HIDE DEF m
<1>7. /\ Sound(v) /\ v.rtc = Append(u.rtc, Operation("Offer", m))
      /\ v.role = u.role /\ v.generation = u.generation /\ v.pc = u.pc
      /\ v.waiting = u.waiting /\ v.signals = u.signals
      /\ v.announced = u.announced /\ v.candidates = u.candidates
      /\ v.locals = u.locals /\ v.out = u.out /\ v.timer = u.timer
  BY <1>2, <1>3, <1>4, <1>5, <1>6, PendingKeeps
<1> HIDE DEF v
<1>8. Learns(w, v, {}, f)
  <2>1. Learns(w, u, {}, f)
    BY <1>0, <1>3, LearnsNothing
  <2>2. v \in ActiveWindows
    BY <1>7 DEF Sound
  <2> QED
    BY <1>0, <1>3, <1>7, <2>1, <2>2, PendingLearns
<1>9. Shares(w, v, {}, f)
  BY <1>3, <1>7 DEF Shares
<1>10. SaysAll(w, v, D)
  BY <1>3, <1>7, SaysNothing
<1>11. Ordered(w, v, D, TRUE)
  BY <1>3, <1>7 DEF Ordered
<1> QED
  BY <1>1, <1>3, <1>7, <1>8, <1>9, <1>10, <1>11 DEF Handled

\* The window goes on with its connection after the first pending operation.
Proceeds(w, v) ==
  /\ v \in ActiveWindows
  /\ v.rtc = Tail(w.rtc) /\ v.role = w.role /\ v.generation = w.generation
  /\ v.waiting = w.waiting /\ v.signals = w.signals /\ v.timer = w.timer
  /\ v.pc.open = w.pc.open /\ v.pc.born = w.pc.born /\ v.pc.tracks = w.pc.tracks
  /\ v.pc.local \in {w.pc.local, w.generation}
  /\ v.pc.remote \in {w.pc.remote, w.generation}
  /\ w.pc.refused \subseteq v.pc.refused
  /\ v.locals = w.locals

LEMMA ProceedsKeeps ==
  ASSUME NEW w, Sound(w), w.rtc # <<>>, NEW v, Proceeds(w, v),
         Head(w.rtc).op = "ApplyAnswer" =>
           v.pc.remote = w.generation \/ w.generation \in v.pc.refused,
         v.role = "Sharer" /\ v.pc.remote # 0 =>
           v.pc.by = v.pc.born /\ v.pc.remote <= v.pc.local,
         Labels(v), NEW f
  PROVE  Sound(v) /\ Learns(w, v, {}, f) /\ Shares(w, v, {}, f)
<1>0. w \in ActiveWindows /\ v \in ActiveWindows /\ w.generation \in Nat /\ w.pc \in Connections
      /\ w.rtc \in Seq(Operations)
  BY WindowFields DEF Sound, Proceeds
<1>1. /\ Len(w.rtc) \in Nat /\ Head(w.rtc) = w.rtc[1] /\ 1 \in DOMAIN w.rtc
      /\ DOMAIN v.rtc = 1 .. Len(w.rtc) - 1 /\ DOMAIN w.rtc = 1 .. Len(w.rtc)
      /\ \A i \in 1 .. Len(w.rtc) - 1 : v.rtc[i] = w.rtc[i + 1]
  BY <1>0, TailFacts DEF Proceeds
<1>2. w.role # "None"
  BY DEF Sound, Idle
<1>3. Idle(v)
  BY <1>2 DEF Idle, Proceeds
<1>4. Viewing(v)
  BY DEF Sound, Viewing, Proceeds
<1>5. Sharing(v)
  <2>1. w.pc.local \in Nat
    BY <1>0, ConnectionFields
  <2> QED
    BY <1>0, <2>1 DEF Sound, Sharing, Proceeds
<1>6. Waits(v)
  BY DEF Sound, Waits, Proceeds
<1>7. Operates(v)
  <2> SUFFICES ASSUME NEW i \in DOMAIN v.rtc
               PROVE  /\ v.rtc[i].gen = v.generation /\ v.rtc[i].gen # 0
                      /\ v.rtc[i].op \in OpsOf(v.role)
                      /\ v.rtc[i].op = "ApplyAnswer" =>
                           v.rtc[i].by = v.pc.born /\ v.pc.local = v.generation
                      /\ v.rtc[i].op = "AddCandidate" =>
                           \/ v.pc.remote = v.generation \/ v.generation \in v.pc.refused
                           \/ \E j \in 1 .. i - 1 : v.rtc[j].op = "ApplyAnswer"
    BY DEF Operates
  <2>1. v.rtc[i] = w.rtc[i + 1] /\ i + 1 \in DOMAIN w.rtc
    BY <1>1
  <2> DEFINE k == i + 1
  <2>2. /\ w.rtc[k].gen = w.generation /\ w.rtc[k].gen # 0
        /\ w.rtc[k].op \in OpsOf(w.role)
        /\ w.rtc[k].op = "ApplyAnswer" =>
             w.rtc[k].by = w.pc.born /\ w.pc.local = w.generation
        /\ w.rtc[k].op = "AddCandidate" =>
             \/ w.pc.remote = w.generation \/ w.generation \in w.pc.refused
             \/ \E j \in 1 .. k - 1 : w.rtc[j].op = "ApplyAnswer"
    BY <2>1 DEF Sound, Operates
  <2>3. ASSUME v.rtc[i].op = "AddCandidate"
        PROVE  \/ v.pc.remote = v.generation \/ v.generation \in v.pc.refused
               \/ \E j \in 1 .. i - 1 : v.rtc[j].op = "ApplyAnswer"
    <3>1. CASE w.pc.remote = w.generation \/ w.generation \in w.pc.refused
      BY <3>1 DEF Proceeds
    <3>2. CASE \E j \in 1 .. k - 1 : w.rtc[j].op = "ApplyAnswer"
      <4>1. PICK j \in 1 .. k - 1 : w.rtc[j].op = "ApplyAnswer"
        BY <3>2
      <4>2. CASE j = 1
        <5>1. Head(w.rtc).op = "ApplyAnswer"
          BY <1>1, <4>1, <4>2
        <5>2. v.pc.remote = w.generation \/ w.generation \in v.pc.refused
          BY <5>1
        <5>3. v.generation = w.generation
          BY DEF Proceeds
        <5> QED
          BY <5>2, <5>3
      <4>3. CASE j # 1
        <5>1. i \in 1 .. Len(w.rtc) - 1 /\ j \in 1 .. i
          BY <1>1
        <5>2. j - 1 \in 1 .. i - 1 /\ j - 1 \in 1 .. Len(w.rtc) - 1
          BY <1>1, <4>3, <5>1
        <5>3. v.rtc[j - 1] = w.rtc[(j - 1) + 1] /\ (j - 1) + 1 = j
          BY <1>1, <5>1, <5>2
        <5> QED
          BY <4>1, <5>2, <5>3
      <4> QED
        BY <4>2, <4>3
    <3> QED
      BY <2>1, <2>2, <2>3, <3>1, <3>2
  <2> HIDE DEF k
  <2> QED
    BY <2>1, <2>2, <2>3 DEF Proceeds, k
<1>8. Sound(v)
  BY <1>0, <1>3, <1>4, <1>5, <1>6, <1>7 DEF Sound
<1>9. Learns(w, v, {}, f)
  <2>1. \A i \in DOMAIN v.rtc : \E j \in DOMAIN w.rtc : v.rtc[i] = w.rtc[j]
    <3> SUFFICES ASSUME NEW i \in DOMAIN v.rtc
                 PROVE  \E j \in DOMAIN w.rtc : v.rtc[i] = w.rtc[j]
      OBVIOUS
    <3>1. i + 1 \in DOMAIN w.rtc /\ v.rtc[i] = w.rtc[i + 1]
      BY <1>1
    <3> QED
      BY <3>1
  <2>2. v.generation = w.generation /\ v.signals = w.signals
    BY DEF Proceeds
  <2> QED
    BY <1>0, <2>1, <2>2, LearnsNothing
<1>10. Answered(w) => Answered(v)
  <2>1. CASE w.pc.remote = w.generation \/ w.generation \in w.pc.refused
    BY <2>1 DEF Proceeds, Answered
  <2>2. CASE \E j \in DOMAIN w.rtc : w.rtc[j].op = "ApplyAnswer"
    <3>1. PICK j \in DOMAIN w.rtc : w.rtc[j].op = "ApplyAnswer"
      BY <2>2
    <3>2. CASE j = 1
      BY <1>1, <3>1, <3>2 DEF Proceeds, Answered
    <3>3. CASE j # 1
      <4>1. j - 1 \in DOMAIN v.rtc /\ v.rtc[j - 1] = w.rtc[j]
        BY <1>1, <3>3
      <4> QED
        BY <3>1, <4>1 DEF Answered
    <3> QED
      BY <3>2, <3>3
  <2> QED
    BY <2>1, <2>2 DEF Answered
<1>11. Shares(w, v, {}, f)
  BY <1>10, SameShares DEF Proceeds
<1> QED
  BY <1>8, <1>9, <1>11

\* What is known of the first pending operation.
LEMMA FirstOperation ==
  ASSUME NEW w, Sound(w), w.rtc # <<>>
  PROVE  LET o == Head(w.rtc)
         IN  /\ o \in Operations /\ o.gen = w.generation /\ o.gen # 0
             /\ o.gen \in Nat /\ o.by \in Nat
             /\ o.op \in OpsOf(w.role) /\ w.role \in {"Sharer", "Viewer"}
             /\ o.op = "ApplyAnswer" => o.by = w.pc.born /\ w.pc.local = w.generation
             /\ o.op = "AddCandidate" => w.pc.remote = w.generation \/ w.generation \in w.pc.refused
             /\ 1 \in DOMAIN w.rtc /\ o = w.rtc[1] /\ Tail(w.rtc) \in Seq(Operations)
<1>1. w.role \in {"Sharer", "Viewer"}
  BY WindowFields DEF Sound, Idle, Roles
<1>2. w.rtc \in Seq(Operations)
  BY WindowFields DEF Sound
<1>3. /\ Head(w.rtc) = w.rtc[1] /\ 1 \in DOMAIN w.rtc /\ w.rtc[1] \in Operations
      /\ Tail(w.rtc) \in Seq(Operations)
  BY <1>2, TailFacts
<1>4. /\ w.rtc[1].gen = w.generation /\ w.rtc[1].gen # 0 /\ w.rtc[1].op \in OpsOf(w.role)
      /\ w.rtc[1].op = "ApplyAnswer" => w.rtc[1].by = w.pc.born /\ w.pc.local = w.generation
      /\ w.rtc[1].op = "AddCandidate" =>
           \/ w.pc.remote = w.generation \/ w.generation \in w.pc.refused
           \/ \E j \in 1 .. 1 - 1 : w.rtc[j].op = "ApplyAnswer"
  BY <1>3 DEF Sound, Operates
<1>5. 1 .. 1 - 1 = {}
  OBVIOUS
<1>6. w.rtc[1].gen \in Nat /\ w.rtc[1].by \in Nat
  BY <1>3 DEF Operations
<1> QED
  BY <1>1, <1>3, <1>4, <1>5, <1>6

\* A description has been set and is handed over.
LEMMA LocalHandled ==
  ASSUME NEW w, Sound(w), w.out = <<>>, w.rtc # <<>>, NEW f, NEW D, NEW still,
         NEW m \in Signals, m.gen = w.generation,
         \/ Head(w.rtc).op = "Offer" /\ m.kind = "Offer" /\ m.by = w.pc.born
         \/ Head(w.rtc).op = "Answer" /\ m.kind = "Answer" /\ m.by = Head(w.rtc).by
  PROVE  LET v == Hand(SetLocal([w EXCEPT !.rtc = Tail(@)], w.generation), m)
         IN  Handled(w, v, {}, f, D, still) /\ v.waiting = w.waiting
<1> DEFINE q == Tail(w.rtc)
           c == [w.pc EXCEPT !.local = w.generation, !.gathering = TRUE]
           r == <<m>>
           v == [w EXCEPT !.rtc = q, !.pc = c, !.out = r]
           o == Head(w.rtc)
<1>0. w \in ActiveWindows /\ w.generation \in Nat /\ w.pc \in Connections
  BY WindowFields DEF Sound
<1>1. /\ o \in Operations /\ o.gen = w.generation /\ o.gen # 0
      /\ o.op \in OpsOf(w.role) /\ w.role \in {"Sharer", "Viewer"}
      /\ 1 \in DOMAIN w.rtc /\ o = w.rtc[1] /\ q \in Seq(Operations)
  BY FirstOperation
<1>2. Hand(SetLocal([w EXCEPT !.rtc = Tail(@)], w.generation), m) = v
  <2>1. Append(w.out, m) = r
    OBVIOUS
  <2>2. SetLocal([w EXCEPT !.rtc = q], w.generation) = [w EXCEPT !.rtc = q, !.pc = c]
    BY <1>0 DEF SetLocal, ActiveWindows
  <2>3. Hand([w EXCEPT !.rtc = q, !.pc = c], m)
          = [w EXCEPT !.rtc = q, !.pc = c, !.out = Append(w.out, m)]
    <3> HIDE DEF q, c
    <3> QED
      BY <1>0 DEF Hand, ActiveWindows
  <2> HIDE DEF c, r
  <2> QED
    BY <2>1, <2>2, <2>3
<1> HIDE DEF q, o
<1>3. /\ c \in Connections /\ c.open = w.pc.open /\ c.born = w.pc.born
      /\ c.local = w.generation /\ c.remote = w.pc.remote /\ c.by = w.pc.by
      /\ c.added = w.pc.added /\ c.refused = w.pc.refused /\ c.tracks = w.pc.tracks
  BY <1>0 DEF Connections
<1> HIDE DEF c
<1>4. r \in Seq(Signals) /\ DOMAIN r = {1} /\ r[1] = m
  OBVIOUS
<1> HIDE DEF r
<1>5. /\ v \in ActiveWindows /\ v.pc = c /\ v.rtc = q /\ v.out = r /\ v.locals = w.locals
      /\ v.role = w.role /\ v.generation = w.generation /\ v.candidates = w.candidates
      /\ v.waiting = w.waiting /\ v.timer = w.timer
      /\ v.signals = w.signals /\ v.announced = w.announced
  BY <1>0, <1>1, <1>3, <1>4 DEF ActiveWindows
<1> HIDE DEF v
<1>6. Proceeds(w, v)
  BY <1>3, <1>5 DEF Proceeds, q
<1>7. Labels(v)
  <2>1. v.pc.added \subseteq {v.pc.remote} \cup v.pc.refused
    BY <1>3, <1>5 DEF Sound, Labels
  <2>2. v.candidates \subseteq {v.generation}
    BY <1>5 DEF Sound, Labels
  <2>3. \A i \in DOMAIN v.locals : v.locals[i] = Candidate(v.generation)
    BY <1>5 DEF Sound, Labels
  <2> QED
    BY <2>1, <2>2, <2>3 DEF Labels
<1>8. v.role = "Sharer" /\ v.pc.remote # 0 =>
        v.pc.by = v.pc.born /\ v.pc.remote <= v.pc.local
  <2>1. w.pc.local \in Nat /\ w.pc.remote \in Nat
    BY <1>0, ConnectionFields
  <2> QED
    BY <1>0, <1>3, <1>5, <2>1 DEF Sound, Sharing
<1>9. Sound(v) /\ Learns(w, v, {}, f) /\ Shares(w, v, {}, f)
  <2>1. o.op # "ApplyAnswer"
    BY DEF o
  <2> QED
    BY <1>6, <1>7, <1>8, <2>1, ProceedsKeeps DEF o
<1>10. Says(w, v, D, m)
  <2>1. m.kind = "Offer" => w.role = "Sharer"
    BY <1>1 DEF OpsOf, o
  <2>2. m.kind = "Answer" => w.role = "Viewer"
    BY <1>1 DEF OpsOf, o
  <2>3. m.kind = "Answer" => \E j \in DOMAIN w.rtc :
          w.rtc[j].op = "Answer" /\ w.rtc[j].gen = m.gen /\ w.rtc[j].by = m.by
    BY <1>1 DEF o
  <2>4. m.kind = "Offer" => m.by = v.pc.born /\ v.pc.local = m.gen
    BY <1>3, <1>5
  <2>5. m.kind # "Candidate" /\ m.gen # 0
    BY <1>1
  <2> QED
    BY <1>5, <2>1, <2>2, <2>3, <2>4, <2>5 DEF Says
<1>11. SaysAll(w, v, D)
  BY <1>4, <1>5, <1>10 DEF SaysAll
<1>12. Ordered(w, v, D, still)
  BY <1>4, <1>5 DEF Ordered, Describes
<1> QED
  BY <1>2, <1>5, <1>9, <1>11, <1>12 DEF Handled

LEMMA ProceedsHandled ==
  ASSUME NEW w, Sound(w), w.rtc # <<>>, NEW v, Proceeds(w, v),
         Head(w.rtc).op = "ApplyAnswer" =>
           v.pc.remote = w.generation \/ w.generation \in v.pc.refused,
         v.role = "Sharer" /\ v.pc.remote # 0 =>
           v.pc.by = v.pc.born /\ v.pc.remote <= v.pc.local,
         Labels(v), v.out = <<>>, v.announced = w.announced,
         v.pc.gathering = w.pc.gathering,
         NEW f, NEW D, NEW still
  PROVE  Handled(w, v, {}, f, D, still) /\ v.waiting = w.waiting
<1>1. Sound(v) /\ Learns(w, v, {}, f) /\ Shares(w, v, {}, f)
  BY ProceedsKeeps
<1>2. SaysAll(w, v, D)
  BY SaysNothing
<1>3. v.generation = w.generation /\ v.locals = w.locals /\ v.waiting = w.waiting
  BY DEF Proceeds
<1>4. Ordered(w, v, D, still)
  BY <1>3 DEF Ordered, Gathers
<1> QED
  BY <1>1, <1>2, <1>3, <1>4 DEF Handled

\* A window whose connection has changed behind its first pending operation.
Moved(w, c, K) ==
  [w EXCEPT !.rtc = Tail(@), !.pc = c, !.candidates = K]

LEMMA MovedProceeds ==
  ASSUME NEW w, Sound(w), w.out = <<>>, w.rtc # <<>>,
         NEW c \in Connections, NEW K \in SUBSET {w.generation},
         c.open = w.pc.open, c.born = w.pc.born, c.tracks = w.pc.tracks,
         c.gathering = w.pc.gathering, c.local = w.pc.local,
         c.remote \in {w.pc.remote, w.generation},
         w.pc.refused \subseteq c.refused,
         c.added \subseteq {c.remote} \cup c.refused,
         Head(w.rtc).op = "ApplyAnswer" =>
           c.remote = w.generation \/ w.generation \in c.refused,
         w.role = "Sharer" /\ c.remote # 0 => c.by = c.born /\ c.remote <= c.local,
         NEW f, NEW D, NEW still
  PROVE  LET v == Moved(w, c, K)
         IN  /\ Handled(w, v, {}, f, D, still) /\ v.waiting = w.waiting
             /\ v.pc = c /\ v.role = w.role /\ v.generation = w.generation
             /\ v.rtc = Tail(w.rtc) /\ v.out = <<>> /\ v \in ActiveWindows
             /\ v.candidates = K
<1> DEFINE q == Tail(w.rtc)
           v == [w EXCEPT !.rtc = q, !.pc = c, !.candidates = K]
<1>0. w \in ActiveWindows /\ w.generation \in Nat
  BY WindowFields DEF Sound
<1>1. q \in Seq(Operations)
  BY FirstOperation
<1>2. Moved(w, c, K) = v
  BY DEF Moved
<1> HIDE DEF q
<1>3. K \in SUBSET Nat
  BY <1>0
<1>4. /\ v \in ActiveWindows /\ v.pc = c /\ v.rtc = q /\ v.out = w.out /\ v.locals = w.locals
      /\ v.role = w.role /\ v.generation = w.generation /\ v.candidates = K
      /\ v.waiting = w.waiting /\ v.timer = w.timer
      /\ v.signals = w.signals /\ v.announced = w.announced
  BY <1>0, <1>1, <1>3 DEF ActiveWindows
<1> HIDE DEF v
<1>5. Proceeds(w, v)
  BY <1>4 DEF Proceeds, q
<1>6. Labels(v)
  <2>1. \A i \in DOMAIN v.locals : v.locals[i] = Candidate(v.generation)
    BY <1>4 DEF Sound, Labels
  <2> QED
    BY <1>4, <2>1 DEF Labels
<1>7. Handled(w, v, {}, f, D, still) /\ v.waiting = w.waiting
  BY <1>4, <1>5, <1>6, ProceedsHandled
<1> QED
  BY <1>2, <1>4, <1>7 DEF q

LEMMA SettledHandled ==
  ASSUME NEW w, Sound(w), w.out = <<>>, w.rtc # <<>>, NEW f, NEW D, NEW still
  PROVE  LET v == Settled([w EXCEPT !.rtc = Tail(@)], Head(w.rtc))
         IN  Handled(w, v, {}, f, D, still) /\ v.waiting = w.waiting
<1> DEFINE o == Head(w.rtc)
           u == [w EXCEPT !.rtc = Tail(@)]
<1>0. w \in ActiveWindows /\ w.generation \in Nat /\ w.pc \in Connections
      /\ w.candidates \in SUBSET Nat
  BY WindowFields DEF Sound
<1>1. /\ o \in Operations /\ o.gen = w.generation /\ o.gen # 0
      /\ o.gen \in Nat /\ o.by \in Nat
      /\ o.op \in OpsOf(w.role) /\ w.role \in {"Sharer", "Viewer"}
      /\ o.op = "ApplyAnswer" => o.by = w.pc.born /\ w.pc.local = w.generation
      /\ o.op = "AddCandidate" => w.pc.remote = w.generation \/ w.generation \in w.pc.refused
      /\ 1 \in DOMAIN w.rtc /\ o = w.rtc[1]
  BY FirstOperation
<1>2. /\ w.pc.born \in Nat /\ w.pc.local \in Nat /\ w.pc.remote \in Nat
      /\ w.pc.added \in SUBSET Nat /\ w.pc.refused \in SUBSET Nat
  BY <1>0, ConnectionFields
<1>3. w.candidates \subseteq {w.generation}
      /\ w.pc.added \subseteq {w.pc.remote} \cup w.pc.refused
  BY DEF Sound, Labels
<1>4. o.op \in {"Offer", "ApplyOffer", "Answer", "ApplyAnswer", "AddCandidate"}
  BY <1>1 DEF Operations
<1>u. u.pc = w.pc /\ u.candidates = w.candidates /\ u.rtc = Tail(w.rtc)
  BY <1>0 DEF ActiveWindows
<1>5. CASE o.op = "Offer"
  <2> DEFINE m == Offer(w.generation, w.pc.born)
  <2>1. m \in Signals /\ m.gen = w.generation /\ m.kind = "Offer" /\ m.by = w.pc.born
    BY <1>0, <1>2 DEF Offer, Signals
  <2>2. Settled(u, o) = Hand(SetLocal(u, w.generation), m)
    BY <1>1, <1>5, <1>u DEF Settled
  <2> HIDE DEF m
  <2> QED
    BY <1>5, <2>1, <2>2, LocalHandled
<1>6. CASE o.op = "Answer"
  <2> DEFINE m == Answer(w.generation, o.by)
  <2>1. m \in Signals /\ m.gen = w.generation /\ m.kind = "Answer" /\ m.by = o.by
    BY <1>0, <1>1 DEF Answer, Signals
  <2>2. Settled(u, o) = Hand(SetLocal(u, w.generation), m)
    BY <1>1, <1>6 DEF Settled
  <2> HIDE DEF m
  <2> QED
    BY <1>6, <2>1, <2>2, LocalHandled
<1> DEFINE c == [w.pc EXCEPT !.remote = o.gen, !.by = o.by, !.added = w.candidates]
<1>7. /\ c \in Connections /\ c.open = w.pc.open /\ c.born = w.pc.born
      /\ c.local = w.pc.local /\ c.remote = w.generation /\ c.by = o.by
      /\ c.added = w.candidates /\ c.refused = w.pc.refused /\ c.tracks = w.pc.tracks
      /\ c.gathering = w.pc.gathering
  <2> HIDE DEF o
  <2> QED
    BY <1>0, <1>1 DEF Connections
<1>8. SetRemote(u, o) = Moved(w, c, {})
  <2>1. SetRemote(u, o) = [u EXCEPT !.pc = [u.pc EXCEPT !.remote = o.gen, !.by = o.by,
                                                        !.added = u.candidates],
                                    !.candidates = {}]
    BY <1>0 DEF SetRemote, ActiveWindows
  <2>2. [u EXCEPT !.pc = c, !.candidates = {}] = Moved(w, c, {})
    <3> HIDE DEF c
    <3> QED
      BY <1>0 DEF Moved, ActiveWindows
  <2> QED
    BY <1>u, <2>1, <2>2
<1>9. CASE o.op = "ApplyAnswer"
  <2> HIDE DEF c
  <2>1. {} \in SUBSET {w.generation}
    OBVIOUS
  <2>2. c.added \subseteq {c.remote} \cup c.refused
    BY <1>3, <1>7
  <2>3. c.by = c.born /\ c.remote <= c.local
    BY <1>0, <1>1, <1>7, <1>9
  <2>4. Handled(w, Moved(w, c, {}), {}, f, D, still) /\ Moved(w, c, {}).waiting = w.waiting
    BY <1>7, <2>1, <2>2, <2>3, MovedProceeds
  <2>5. Settled(u, o) = Moved(w, c, {})
    BY <1>8, <1>9 DEF Settled
  <2> QED
    BY <2>4, <2>5
<1>10. CASE o.op = "ApplyOffer"
  <2> DEFINE x == Moved(w, c, {})
             y == [x EXCEPT !.state = "Streaming"]
             v == Pending(y, "Answer", o)
  <2> HIDE DEF c
  <2>0. w.role = "Viewer"
    BY <1>1, <1>10 DEF OpsOf
  <2>1. {} \in SUBSET {w.generation}
    OBVIOUS
  <2>2. c.added \subseteq {c.remote} \cup c.refused
    BY <1>3, <1>7
  <2>3. /\ Handled(w, x, {}, f, D, still) /\ x.waiting = w.waiting
        /\ x.pc = c /\ x.role = w.role /\ x.generation = w.generation
        /\ x.rtc = Tail(w.rtc) /\ x.out = <<>> /\ x \in ActiveWindows
    BY <1>7, <1>10, <2>0, <2>1, <2>2, MovedProceeds
  <2> HIDE DEF x
  <2>4. Settled(u, o) = v
    BY <1>8, <1>10 DEF Settled, x
  <2>5. Quiet(x, y) /\ y.timer = x.timer
    BY <2>3, QuietUpdates DEF States, Roles
  <2>6. Handled(w, y, {}, f, D, still) /\ y.waiting = w.waiting /\ y.role = "Viewer"
        /\ y.generation = w.generation /\ y.out = <<>> /\ y \in ActiveWindows
    BY <2>0, <2>3, <2>5, QuietAfter DEF Quiet
  <2> HIDE DEF y
  <2>7. "Answer" \in OpsOf(y.role)
    BY <2>6 DEF OpsOf
  <2>8. /\ Sound(v) /\ v.rtc = Append(y.rtc, Operation("Answer", o))
        /\ v.role = y.role /\ v.generation = y.generation /\ v.pc = y.pc
        /\ v.waiting = y.waiting /\ v.signals = y.signals
        /\ v.announced = y.announced /\ v.candidates = y.candidates
        /\ v.locals = y.locals /\ v.out = y.out /\ v.timer = y.timer
    <3> HIDE DEF o
    <3>1. Sound(y) /\ y.role # "None" /\ o.gen = y.generation
      BY <1>1, <2>6 DEF Handled
    <3> QED
      BY <1>1, <2>7, <3>1, PendingKeeps
  <2> HIDE DEF v
  <2>9. IsFrom(w, {}, o.gen, o.by)
    BY <1>1, <1>10 DEF IsFrom
  <2>10. Learns(w, v, {}, f)
    <3>1. Learns(w, y, {}, f) /\ v \in ActiveWindows
      BY <2>6, <2>8 DEF Handled, Sound
    <3> QED
      BY <1>0, <2>6, <2>8, <2>9, <3>1, PendingFrom
  <2>11. Shares(w, v, {}, f)
    BY <2>6, <2>8 DEF Shares
  <2>12. SaysAll(w, v, D)
    BY <2>6, <2>8, SaysNothing
  <2>13. Ordered(w, v, D, still)
    BY <2>6, <2>8 DEF Handled, Ordered, Gathers, Describes
  <2> QED
    BY <2>4, <2>6, <2>8, <2>10, <2>11, <2>12, <2>13 DEF Handled
<1>11. CASE o.op = "AddCandidate"
  <2> DEFINE d == [w.pc EXCEPT !.added = w.pc.added \cup {o.gen}]
  <2>1. /\ d \in Connections /\ d.open = w.pc.open /\ d.born = w.pc.born
        /\ d.local = w.pc.local /\ d.remote = w.pc.remote /\ d.by = w.pc.by
        /\ d.added = w.pc.added \cup {w.generation} /\ d.refused = w.pc.refused
        /\ d.tracks = w.pc.tracks /\ d.gathering = w.pc.gathering
    <3> HIDE DEF o
    <3> QED
      BY <1>0, <1>1, <1>2 DEF Connections
  <2>2. Settled(u, o) = Moved(w, d, w.candidates)
    <3>1. Settled(u, o) = [u EXCEPT !.pc = [u.pc EXCEPT !.added = u.pc.added \cup {o.gen}]]
      BY <1>11 DEF Settled
    <3>2. [u EXCEPT !.pc = d] = Moved(w, d, w.candidates)
      <4> HIDE DEF d
      <4> QED
        BY <1>0 DEF Moved, ActiveWindows
    <3> QED
      BY <1>u, <3>1, <3>2
  <2> HIDE DEF d
  <2>3. d.added \subseteq {d.remote} \cup d.refused
    BY <1>1, <1>3, <1>11, <2>1
  <2>4. w.role = "Sharer" /\ d.remote # 0 => d.by = d.born /\ d.remote <= d.local
    BY <2>1 DEF Sound, Sharing
  <2>5. Handled(w, Moved(w, d, w.candidates), {}, f, D, still)
        /\ Moved(w, d, w.candidates).waiting = w.waiting
    BY <1>3, <1>11, <2>1, <2>3, <2>4, MovedProceeds
  <2> QED
    BY <2>2, <2>5
<1> QED
  BY <1>4, <1>5, <1>6, <1>9, <1>10, <1>11

LEMMA FailsHandled ==
  ASSUME NEW w, Sound(w), w.out = <<>>, w.rtc # <<>>, NEW f, NEW D, NEW still
  PROVE  LET v == Fail(Refused([w EXCEPT !.rtc = Tail(@)], Head(w.rtc)))
         IN  Handled(w, v, {}, f, D, still) /\ v.waiting = w.waiting
<1> DEFINE o == Head(w.rtc)
           u == [w EXCEPT !.rtc = Tail(@)]
           c == IF o.op \in {"ApplyOffer", "ApplyAnswer"}
                THEN [w.pc EXCEPT !.refused = w.pc.refused \cup {o.gen}] ELSE w.pc
           x == Moved(w, c, w.candidates)
<1>0. w \in ActiveWindows /\ w.generation \in Nat /\ w.pc \in Connections
  BY WindowFields DEF Sound
<1>1. o.gen = w.generation /\ o.gen \in Nat
  BY FirstOperation
<1>2. w.pc.refused \in SUBSET Nat
  BY <1>0, ConnectionFields
<1>3. w.candidates \subseteq {w.generation}
      /\ w.pc.added \subseteq {w.pc.remote} \cup w.pc.refused
  BY DEF Sound, Labels
<1>4. /\ c \in Connections /\ c.open = w.pc.open /\ c.born = w.pc.born
      /\ c.local = w.pc.local /\ c.remote = w.pc.remote /\ c.by = w.pc.by
      /\ c.added = w.pc.added /\ w.pc.refused \subseteq c.refused
      /\ c.tracks = w.pc.tracks /\ c.gathering = w.pc.gathering
      /\ o.op = "ApplyAnswer" => w.generation \in c.refused
  <2> HIDE DEF o
  <2> QED
    BY <1>0, <1>1, <1>2 DEF Connections
<1>5. Refused(u, o) = x
  <2>1. CASE o.op \in {"ApplyOffer", "ApplyAnswer"}
    <3>1. Refused(u, o) = [u EXCEPT !.pc = [u.pc EXCEPT !.refused = u.pc.refused \cup {o.gen}]]
      BY <2>1 DEF Refused
    <3>2. u.pc = w.pc
      BY <1>0 DEF ActiveWindows
    <3>3. Refused(u, o) = [u EXCEPT !.pc = c]
      BY <2>1, <3>1, <3>2
    <3>4. [u EXCEPT !.pc = c] = x
      <4> HIDE DEF c
      <4> QED
        BY <1>0 DEF Moved, ActiveWindows
    <3> QED
      BY <3>3, <3>4
  <2>2. CASE o.op \notin {"ApplyOffer", "ApplyAnswer"}
    <3>1. Refused(u, o) = u /\ c = w.pc
      BY <2>2 DEF Refused
    <3>2. u = Moved(w, w.pc, w.candidates)
      BY <1>0 DEF Moved, ActiveWindows
    <3> QED
      BY <3>1, <3>2
  <2> QED
    BY <2>1, <2>2
<1> HIDE DEF c
<1>6. w.role = "Sharer" /\ c.remote # 0 => c.by = c.born /\ c.remote <= c.local
  BY <1>4 DEF Sound, Sharing
<1>7. c.added \subseteq {c.remote} \cup c.refused
  BY <1>3, <1>4
<1>8. Handled(w, x, {}, f, D, still) /\ x.waiting = w.waiting /\ x \in ActiveWindows
  <2>1. w.candidates \in SUBSET {w.generation}
    BY <1>3
  <2>2. Head(w.rtc).op = "ApplyAnswer" => w.generation \in c.refused
    BY <1>4
  <2>3. /\ c \in Connections /\ c.open = w.pc.open /\ c.born = w.pc.born
        /\ c.tracks = w.pc.tracks /\ c.gathering = w.pc.gathering
        /\ c.local = w.pc.local /\ c.remote = w.pc.remote /\ w.pc.refused \subseteq c.refused
    BY <1>4
  <2> HIDE DEF o
  <2> QED
    BY <1>6, <1>7, <2>1, <2>2, <2>3, MovedProceeds
<1> HIDE DEF x
<1>9. Quiet(x, Fail(x)) /\ Fail(x).timer = x.timer
  BY <1>8, QuietUpdates DEF States, Roles
<1>10. Handled(w, Fail(x), {}, f, D, still) /\ Fail(x).waiting = x.waiting
  BY <1>8, <1>9, QuietAfter DEF Quiet
<1> QED
  BY <1>5, <1>8, <1>10

(* What is on the way to a window: posts, and messages of the connection. *)

Ends(p) == p.kind = "Snapshot" /\ p.role = "None"
AnswerTo(m, g) == m.kind = "Answer" /\ m.gen = g
CandidateOf(m, g) == m.kind = "Candidate" /\ m.gen = g

\* What takes away the sharer's generation or the need for its answer.
Leads(p, g) == Ends(p) \/ (p.kind = "Signal" /\ AnswerTo(p.signal, g))
NetLeads(m, g) == m.kind = "Close" \/ AnswerTo(m, g)

HasLead(q, g) == \E j \in DOMAIN q : Leads(q[j], g)
HasNetLead(q, g) == \E j \in DOMAIN q : NetLeads(q[j], g)
HasEnd(q) == \E j \in DOMAIN q : Ends(q[j])
HasClose(q) == \E j \in DOMAIN q : q[j].kind = "Close"

\* No candidate of the generation comes ahead of that.
Led(q, g) ==
  \A k \in DOMAIN q :
    q[k].kind = "Signal" /\ CandidateOf(q[k].signal, g) =>
      \E j \in DOMAIN q : j < k /\ Leads(q[j], g)
NetLed(q, g) ==
  \A k \in DOMAIN q : CandidateOf(q[k], g) => \E j \in DOMAIN q : j < k /\ NetLeads(q[j], g)

Messages == Signals \cup [kind : {"Decision", "Close"}]

LEMMA HasKept ==
  ASSUME NEW S, NEW q \in Seq(S), NEW r \in Seq(S), NEW g
  PROVE  /\ HasLead(q, g) => HasLead(q \o r, g)
         /\ HasNetLead(q, g) => HasNetLead(q \o r, g)
         /\ HasEnd(q) => HasEnd(q \o r)
         /\ HasClose(q) => HasClose(q \o r)
         /\ HasLead(r, g) => HasLead(q \o r, g)
         /\ HasNetLead(r, g) => HasNetLead(q \o r, g)
         /\ HasEnd(r) => HasEnd(q \o r)
         /\ HasClose(r) => HasClose(q \o r)
<1> DEFINE x == q \o r
<1>1. /\ Len(q) \in Nat /\ Len(r) \in Nat
      /\ DOMAIN x = 1 .. Len(q) + Len(r)
      /\ DOMAIN q = 1 .. Len(q) /\ DOMAIN r = 1 .. Len(r)
      /\ \A i \in 1 .. Len(q) : x[i] = q[i]
      /\ \A i \in 1 .. Len(r) : x[Len(q) + i] = r[i]
  BY ConcatFacts
<1> HIDE DEF x
<1>2. \A i \in DOMAIN q : i \in DOMAIN x /\ x[i] = q[i]
  BY <1>1
<1>3. \A i \in DOMAIN r : Len(q) + i \in DOMAIN x /\ x[Len(q) + i] = r[i]
  BY <1>1
<1>4. HasLead(q, g) => HasLead(x, g)
  BY <1>2, Zenon DEF HasLead
<1>5. HasNetLead(q, g) => HasNetLead(x, g)
  BY <1>2, Zenon DEF HasNetLead
<1>6. HasEnd(q) => HasEnd(x)
  BY <1>2, Zenon DEF HasEnd
<1>7. HasClose(q) => HasClose(x)
  BY <1>2, Zenon DEF HasClose
<1>8. HasLead(r, g) => HasLead(x, g)
  BY <1>3, Zenon DEF HasLead
<1>9. HasNetLead(r, g) => HasNetLead(x, g)
  BY <1>3, Zenon DEF HasNetLead
<1>10. HasEnd(r) => HasEnd(x)
  BY <1>3, Zenon DEF HasEnd
<1>11. HasClose(r) => HasClose(x)
  BY <1>3, Zenon DEF HasClose
<1> QED
  BY <1>4, <1>5, <1>6, <1>7, <1>8, <1>9, <1>10, <1>11 DEF x

LEMMA HasInTail ==
  ASSUME NEW S, NEW q \in Seq(S), q # <<>>, NEW g
  PROVE  /\ HasLead(q, g) => Leads(Head(q), g) \/ HasLead(Tail(q), g)
         /\ HasNetLead(q, g) => NetLeads(Head(q), g) \/ HasNetLead(Tail(q), g)
         /\ HasEnd(q) => Ends(Head(q)) \/ HasEnd(Tail(q))
         /\ HasClose(q) => Head(q).kind = "Close" \/ HasClose(Tail(q))
<1> DEFINE x == Tail(q)
           h == Head(q)
<1>1. /\ Len(q) \in Nat /\ h = q[1] /\ 1 \in DOMAIN q
      /\ DOMAIN x = 1 .. Len(q) - 1 /\ DOMAIN q = 1 .. Len(q)
      /\ \A i \in 1 .. Len(q) - 1 : x[i] = q[i + 1]
  BY TailFacts
<1> HIDE DEF x, h
<1>2. \A i \in DOMAIN q : q[i] = h \/ (i - 1 \in DOMAIN x /\ x[i - 1] = q[i])
  <2> SUFFICES ASSUME NEW i \in DOMAIN q, i # 1
               PROVE  i - 1 \in DOMAIN x /\ x[i - 1] = q[i]
    BY <1>1
  <2>1. i - 1 \in 1 .. Len(q) - 1 /\ (i - 1) + 1 = i
    BY <1>1
  <2>2. x[i - 1] = q[(i - 1) + 1]
    BY <1>1, <2>1
  <2> QED
    BY <1>1, <2>1, <2>2
<1>3. HasLead(q, g) => Leads(h, g) \/ HasLead(x, g)
  BY <1>2, Zenon DEF HasLead
<1>4. HasNetLead(q, g) => NetLeads(h, g) \/ HasNetLead(x, g)
  BY <1>2, Zenon DEF HasNetLead
<1>5. HasEnd(q) => Ends(h) \/ HasEnd(x)
  BY <1>2, Zenon DEF HasEnd
<1>6. HasClose(q) => h.kind = "Close" \/ HasClose(x)
  BY <1>2, Zenon DEF HasClose
<1> QED
  BY <1>3, <1>4, <1>5, <1>6 DEF x, h

\* Candidates are added only behind what leads them.
LEMMA LedKept ==
  ASSUME NEW S, NEW q \in Seq(S), NEW r \in Seq(S), NEW g, Led(q, g),
         \/ HasLead(q, g)
         \/ \A i \in DOMAIN r : ~(r[i].kind = "Signal" /\ CandidateOf(r[i].signal, g))
  PROVE  Led(q \o r, g)
<1> DEFINE x == q \o r
           Cand(p) == p.kind = "Signal" /\ CandidateOf(p.signal, g)
<1>1. /\ Len(q) \in Nat /\ Len(r) \in Nat
      /\ DOMAIN x = 1 .. Len(q) + Len(r)
      /\ DOMAIN q = 1 .. Len(q) /\ DOMAIN r = 1 .. Len(r)
      /\ \A i \in 1 .. Len(q) : x[i] = q[i]
      /\ \A i \in 1 .. Len(r) : x[Len(q) + i] = r[i]
  BY ConcatFacts
<1> HIDE DEF x
<1>2. \A i \in DOMAIN q : i \in DOMAIN x /\ x[i] = q[i]
  BY <1>1
<1> SUFFICES ASSUME NEW k \in DOMAIN x, Cand(x[k])
             PROVE  \E j \in DOMAIN x : j < k /\ Leads(x[j], g)
  BY DEF Led, x
<1> HIDE DEF Cand
<1>3. CASE k \in DOMAIN q
  <2>1. Cand(q[k])
    BY <1>2, <1>3
  <2>2. PICK j \in DOMAIN q : j < k /\ Leads(q[j], g)
    BY <1>3, <2>1 DEF Led, Cand
  <2> QED
    BY <1>2, <2>2
<1>4. CASE k \notin DOMAIN q
  <2>1. k - Len(q) \in DOMAIN r /\ x[k] = r[k - Len(q)]
    <3>1. k - Len(q) \in 1 .. Len(r) /\ Len(q) + (k - Len(q)) = k
      BY <1>1, <1>4
    <3>2. x[Len(q) + (k - Len(q))] = r[k - Len(q)]
      BY <1>1, <3>1
    <3> QED
      BY <1>1, <3>1, <3>2
  <2>2. PICK j \in DOMAIN q : Leads(q[j], g)
    BY <2>1 DEF HasLead, Cand
  <2>3. j < k
    BY <1>1, <1>4
  <2> QED
    BY <1>2, <2>2, <2>3
<1> QED
  BY <1>3, <1>4

LEMMA NetLedKept ==
  ASSUME NEW S, NEW q \in Seq(S), NEW r \in Seq(S), NEW g, NetLed(q, g),
         HasNetLead(q, g) \/ \A i \in DOMAIN r : ~CandidateOf(r[i], g)
  PROVE  NetLed(q \o r, g)
<1> DEFINE x == q \o r
<1>1. /\ Len(q) \in Nat /\ Len(r) \in Nat
      /\ DOMAIN x = 1 .. Len(q) + Len(r)
      /\ DOMAIN q = 1 .. Len(q) /\ DOMAIN r = 1 .. Len(r)
      /\ \A i \in 1 .. Len(q) : x[i] = q[i]
      /\ \A i \in 1 .. Len(r) : x[Len(q) + i] = r[i]
  BY ConcatFacts
<1> HIDE DEF x
<1>2. \A i \in DOMAIN q : i \in DOMAIN x /\ x[i] = q[i]
  BY <1>1
<1> SUFFICES ASSUME NEW k \in DOMAIN x, CandidateOf(x[k], g)
             PROVE  \E j \in DOMAIN x : j < k /\ NetLeads(x[j], g)
  BY DEF NetLed, x
<1>3. CASE k \in DOMAIN q
  <2>1. CandidateOf(q[k], g)
    BY <1>2, <1>3
  <2>2. PICK j \in DOMAIN q : j < k /\ NetLeads(q[j], g)
    BY <1>3, <2>1 DEF NetLed
  <2> QED
    BY <1>2, <2>2
<1>4. CASE k \notin DOMAIN q
  <2>1. k - Len(q) \in DOMAIN r /\ x[k] = r[k - Len(q)]
    <3>1. k - Len(q) \in 1 .. Len(r) /\ Len(q) + (k - Len(q)) = k
      BY <1>1, <1>4
    <3>2. x[Len(q) + (k - Len(q))] = r[k - Len(q)]
      BY <1>1, <3>1
    <3> QED
      BY <1>1, <3>1, <3>2
  <2>2. PICK j \in DOMAIN q : NetLeads(q[j], g)
    BY <2>1 DEF HasNetLead
  <2>3. j < k
    BY <1>1, <1>4
  <2> QED
    BY <1>2, <2>2, <2>3
<1> QED
  BY <1>3, <1>4

LEMMA LedTail ==
  ASSUME NEW S, NEW q \in Seq(S), q # <<>>, NEW g, Led(q, g), ~Leads(Head(q), g)
  PROVE  /\ Led(Tail(q), g)
         /\ ~(Head(q).kind = "Signal" /\ CandidateOf(Head(q).signal, g))
<1> DEFINE x == Tail(q)
           Cand(p) == p.kind = "Signal" /\ CandidateOf(p.signal, g)
<1>1. /\ Len(q) \in Nat /\ Head(q) = q[1] /\ 1 \in DOMAIN q
      /\ DOMAIN x = 1 .. Len(q) - 1 /\ DOMAIN q = 1 .. Len(q)
      /\ \A i \in 1 .. Len(q) - 1 : x[i] = q[i + 1]
  BY TailFacts
<1> HIDE DEF x
<1>2. ASSUME NEW k \in DOMAIN q, Cand(q[k])
      PROVE  \E j \in DOMAIN q : j < k /\ j # 1 /\ Leads(q[j], g)
  BY <1>1, <1>2 DEF Led
<1> HIDE DEF Cand
<1>3. ASSUME NEW k \in DOMAIN x, Cand(x[k])
      PROVE  \E j \in DOMAIN x : j < k /\ Leads(x[j], g)
  <2>1. k + 1 \in DOMAIN q /\ x[k] = q[k + 1]
    BY <1>1
  <2>2. PICK j \in DOMAIN q : j < k + 1 /\ j # 1 /\ Leads(q[j], g)
    BY <1>2, <1>3, <2>1
  <2>3. j - 1 \in 1 .. Len(q) - 1 /\ (j - 1) + 1 = j /\ j - 1 < k
    BY <1>1, <2>2
  <2>4. x[j - 1] = q[(j - 1) + 1]
    BY <1>1, <2>3
  <2> QED
    BY <1>1, <2>2, <2>3, <2>4
<1>4. ~Cand(q[1])
  <2>1. ASSUME Cand(q[1]) PROVE FALSE
    <3>1. PICK j \in DOMAIN q : j < 1 /\ j # 1 /\ Leads(q[j], g)
      BY <1>1, <1>2, <2>1
    <3> QED
      BY <1>1, <3>1
  <2> QED
    BY <2>1
<1> QED
  BY <1>1, <1>3, <1>4 DEF Led, Cand, x

LEMMA NetLedTail ==
  ASSUME NEW S, NEW q \in Seq(S), q # <<>>, NEW g, NetLed(q, g), ~NetLeads(Head(q), g)
  PROVE  NetLed(Tail(q), g) /\ ~CandidateOf(Head(q), g)
<1> DEFINE x == Tail(q)
<1>1. /\ Len(q) \in Nat /\ Head(q) = q[1] /\ 1 \in DOMAIN q
      /\ DOMAIN x = 1 .. Len(q) - 1 /\ DOMAIN q = 1 .. Len(q)
      /\ \A i \in 1 .. Len(q) - 1 : x[i] = q[i + 1]
  BY TailFacts
<1> HIDE DEF x
<1>2. ASSUME NEW k \in DOMAIN q, CandidateOf(q[k], g)
      PROVE  \E j \in DOMAIN q : j < k /\ j # 1 /\ NetLeads(q[j], g)
  BY <1>1, <1>2 DEF NetLed
<1>3. ASSUME NEW k \in DOMAIN x, CandidateOf(x[k], g)
      PROVE  \E j \in DOMAIN x : j < k /\ NetLeads(x[j], g)
  <2>1. k + 1 \in DOMAIN q /\ x[k] = q[k + 1]
    BY <1>1
  <2>2. PICK j \in DOMAIN q : j < k + 1 /\ j # 1 /\ NetLeads(q[j], g)
    BY <1>2, <1>3, <2>1
  <2>3. j - 1 \in 1 .. Len(q) - 1 /\ (j - 1) + 1 = j /\ j - 1 < k
    BY <1>1, <2>2
  <2>4. x[j - 1] = q[(j - 1) + 1]
    BY <1>1, <2>3
  <2> QED
    BY <1>1, <2>2, <2>3, <2>4
<1>4. ~CandidateOf(q[1], g)
  <2>1. ASSUME CandidateOf(q[1], g) PROVE FALSE
    <3>1. PICK j \in DOMAIN q : j < 1 /\ j # 1 /\ NetLeads(q[j], g)
      BY <1>1, <1>2, <2>1
    <3> QED
      BY <1>1, <3>1
  <2> QED
    BY <2>1
<1> QED
  BY <1>1, <1>3, <1>4 DEF NetLed, x

(* The inductive invariant *)

\* The signals on the connection, on the way to a window, or waiting in one.
Carried ==
  {m \in Signals : \E t \in Sides :
     \/ \E i \in DOMAIN net[t] : net[t][i] = m
     \/ \E i \in DOMAIN down[t] : down[t][i].kind = "Signal" /\ down[t][i].signal = m
     \/ m \in Queued(window[t])}

SoundWindows == \A t \in Sides : Sound(window[t]) /\ window[t].out = <<>>

GrantsAwaited ==
  \A t \in Sides : Cardinality(Grants(down[t])) <= Len(window[t].waiting)

\* Whatever names a generation names one that was drawn.
Drawn ==
  /\ \A m \in Carried : m.gen \in 1 .. generations
  /\ \A t \in Sides : window[t].generation <= generations
  /\ \A t \in Sides : described[t] \subseteq 1 .. generations

\* Two windows that share have drawn different generations.
Apart ==
  \A t \in Sides :
    window[t].role = "Sharer" /\ window[Peer(t)].role = "Sharer" =>
      window[t].generation # window[Peer(t)].generation

\* Somebody else may know the generation of this window.
Known(t) ==
  \/ window[Peer(t)].generation = window[t].generation
  \/ \E m \in Carried : m.gen = window[t].generation

\* A generation is known only once the offer of it is made, and every description
\* of it stems from the connection it was drawn for.
Owned(t) ==
  window[t].role = "Sharer" =>
    LET w == window[t]
        v == window[Peer(t)]
    IN  /\ Known(t) \/ w.generation \in described[t] => w.pc.local = w.generation
        /\ \A m \in Carried :
             m.gen = w.generation /\ m.kind # "Candidate" => m.by = w.pc.born
        /\ \A i \in DOMAIN v.rtc :
             v.rtc[i].op \in {"ApplyOffer", "Answer"} /\ v.rtc[i].gen = w.generation =>
               v.rtc[i].by = w.pc.born

CloseMeans ==
  \A t \in Sides : HasClose(net[t]) => mainRole[Peer(t)] = "None"

\* A generation that is known is known in a session that lasts, or the window is
\* about to hear of its end.
Lasting(t) ==
  window[t].role = "Sharer" /\ Known(t) =>
    \/ HasEnd(down[t]) \/ HasClose(net[t])
    \/ mainRole[t] # "None" /\ mainRole[Peer(t)] # "None"

\* An answer handed over is on its way, or has come.
AnswerComes(t) ==
  LET w == window[t]
  IN  w.role = "Sharer" /\ w.generation \in described[Peer(t)] =>
        \/ Answered(w)
        \/ HasLead(down[t], w.generation) \/ HasNetLead(net[t], w.generation)

\* The candidates of the other side come behind its answer.
CandidatesFollow(t) ==
  LET w == window[t]
  IN  w.role = "Sharer" =>
        \/ Answered(w)
        \/ /\ Led(down[t], w.generation)
           /\ HasLead(down[t], w.generation) \/ NetLed(net[t], w.generation)

Announces(q) == \E i \in DOMAIN q : q[i].kind = "Reply" /\ q[i].ok

\* While a description is not handed over nothing announces it.
Announcing(t) ==
  LET w == window[t]
  IN  w.generation \notin described[t] /\ Gathers(w) => ~w.announced /\ ~Announces(down[t])

MediaInv ==
  /\ MediaTypeOK /\ SoundWindows /\ GrantsAwaited /\ Drawn /\ Apart /\ CloseMeans
  /\ \A t \in Sides : Owned(t) /\ Lasting(t) /\ AnswerComes(t) /\ CandidatesFollow(t)
  /\ \A t \in Sides : Announcing(t)
  /\ DescribedFirst

LEMMA MediaInvImplies ==
  MediaInv => MediaTypeOK /\ SignalsInOrder /\ OnlySharersSend /\ RestartsOwnConnection
<1> SUFFICES ASSUME MediaInv
             PROVE  SignalsInOrder /\ OnlySharersSend /\ RestartsOwnConnection
  BY DEF MediaInv
<1> USE DEF MediaInv
<1>1. \A t \in Sides : /\ window[t] \in ActiveWindows /\ Idle(window[t]) /\ Viewing(window[t])
                       /\ Sharing(window[t]) /\ Labels(window[t])
  BY DEF SoundWindows, Sound
<1>2. AnswersOwnOffer
  BY <1>1 DEF AnswersOwnOffer, Sharing
<1>3. CandidatesMatch
  BY <1>1 DEF CandidatesMatch, Labels
<1>4. OnlySharersSend
  <2> SUFFICES ASSUME NEW t \in Sides, window[t].pc.tracks PROVE window[t].role = "Sharer"
    BY DEF OnlySharersSend
  <2>1. window[t].role \in Roles
    BY <1>1, WindowFields
  <2> QED
    BY <1>1, <2>1, ClosedFacts DEF Idle, Viewing, Roles
<1>5. RestartsOwnConnection
  <2> SUFFICES ASSUME NEW t \in Sides, window[t].timer
               PROVE  window[t].role = "Sharer" /\ window[t].pc.open /\ window[t].pc.remote # 0
    BY DEF RestartsOwnConnection
  <2>1. window[t].role \in Roles
    BY <1>1, WindowFields
  <2> QED
    BY <1>1, <2>1 DEF Idle, Viewing, Sharing, Roles
<1> QED
  BY <1>2, <1>3, <1>4, <1>5 DEF SignalsInOrder

LEMMA WindowsActive ==
  /\ \A w \in Windows : w \in ActiveWindows /\ w.out = <<>>
  /\ \A w \in ActiveWindows : [w EXCEPT !.out = <<>>] \in Windows
  /\ \A w \in ActiveWindows : w.out = <<>> => w \in Windows
<1>1. ASSUME NEW w \in Windows PROVE w \in ActiveWindows /\ w.out = <<>>
  <2>1. <<>> \in Seq(Signals)
    OBVIOUS
  <2> QED
    BY <2>1 DEF Windows, ActiveWindows
<1>2. ASSUME NEW w \in ActiveWindows PROVE [w EXCEPT !.out = <<>>] \in Windows
  BY DEF Windows, ActiveWindows
<1>3. ASSUME NEW w \in ActiveWindows, w.out = <<>> PROVE w \in Windows
  BY <1>3 DEF Windows, ActiveWindows
<1> QED
  BY <1>1, <1>2, <1>3

LEMMA MediaInitInv ==
  MediaInit => MediaInv
<1> SUFFICES ASSUME MediaInit PROVE MediaInv
  OBVIOUS
<1>1. \A t \in Sides : /\ mainRole[t] = "None" /\ net[t] = <<>> /\ down[t] = <<>>
                       /\ window[t] = Loaded /\ described[t] = {}
  BY DEF MediaInit
<1>2. Sound(Loaded) /\ Loaded.out = <<>> /\ Loaded \in Windows
  <2>1. Loaded.out = <<>>
    BY DEF Loaded
  <2>2. Sound(Loaded) /\ Loaded \in ActiveWindows
    BY LoadedSound DEF Sound
  <2>3. Loaded \in Windows
    BY <2>1, <2>2, WindowsActive
  <2> QED
    BY <2>1, <2>2, <2>3
<1>3. MediaTypeOK
  <2>1. /\ <<>> \in Seq(Signals \cup [kind : {"Decision", "Close"}]) /\ <<>> \in Seq(Posts)
        /\ "None" \in Roles /\ 0 \in Nat
    BY DEF Roles
  <2> QED
    BY <1>2, <2>1 DEF MediaInit, MediaTypeOK
<1>4. /\ Loaded.role = "None" /\ Loaded.generation = 0 /\ Loaded.signals = <<>>
      /\ Loaded.waiting = <<>> /\ ~Loaded.pc.gathering /\ Loaded.locals = <<>>
  BY ClosedFacts DEF Loaded
<1>5. Carried = {}
  <2>1. \A t \in Sides : Queued(window[t]) = {}
    BY <1>1, <1>4 DEF Queued
  <2>2. DOMAIN << >> = {}
    OBVIOUS
  <2> QED
    BY <1>1, <2>1, <2>2 DEF Carried
<1>6. SoundWindows
  BY <1>1, <1>2 DEF SoundWindows
<1>7. GrantsAwaited
  <2>1. ASSUME NEW t \in Sides PROVE Cardinality(Grants(down[t])) <= Len(window[t].waiting)
    <3>1. Grants(down[t]) = {}
      BY <1>1 DEF Grants
    <3>2. Cardinality({}) = 0 /\ Len(<<>>) = 0
      BY FS_EmptySet
    <3> QED
      BY <1>1, <1>4, <3>1, <3>2
  <2> QED
    BY <2>1 DEF GrantsAwaited
<1>8. Drawn
  BY <1>1, <1>4, <1>5 DEF Drawn, MediaInit
<1>9. Apart
  BY <1>1, <1>4 DEF Apart
<1>10. \A t \in Sides : Owned(t) /\ Lasting(t) /\ AnswerComes(t) /\ CandidatesFollow(t)
  BY <1>1, <1>4 DEF Owned, Lasting, AnswerComes, CandidatesFollow
<1>11. \A t \in Sides : Announcing(t)
  BY <1>1, <1>4 DEF Announcing, Gathers
<1>12. CloseMeans
  BY <1>1 DEF CloseMeans, HasClose
<1>13. DescribedFirst
  <2>1. \A t \in Sides : Peer(t) \in Sides
    BY Pair
  <2> QED
    BY <1>1, <2>1 DEF DescribedFirst
<1> QED
  BY <1>3, <1>6, <1>7, <1>8, <1>9, <1>10, <1>11, <1>12, <1>13 DEF MediaInv

LEMMA RepliesFacts ==
  ASSUME NEW s \in Sides, NEW out \in Seq(Signals)
  PROVE  /\ Replies(s, out) \in Seq(Posts)
         /\ \A i \in DOMAIN Replies(s, out) :
              /\ Replies(s, out)[i].kind = "Reply"
              /\ Replies(s, out)[i].ok => \E j \in DOMAIN out : out[j].kind \in {"Offer", "Answer"}
<1> DEFINE q == [i \in DOMAIN out |-> Reply(FALSE, out[i].kind = "Offer")]
           b == \E i \in DOMAIN out : out[i].kind = "Offer"
           e == Reply(TRUE, b)
           r == <<e>>
<1>1. \A x, y \in BOOLEAN : Reply(x, y) \in Posts /\ Reply(x, y).kind = "Reply" /\ Reply(x, y).ok = x
  BY DEF Reply, Posts
<1>2. CASE mainRole[s] = "None"
  <2>1. Replies(s, out) = q
    BY <1>2 DEF Replies
  <2>2. \A i \in DOMAIN out : (out[i].kind = "Offer") \in BOOLEAN
    OBVIOUS
  <2>3. \A i \in DOMAIN out : q[i] \in Posts /\ q[i].kind = "Reply" /\ ~q[i].ok
    BY <1>1, <2>2
  <2>4. DOMAIN q = 1 .. Len(out) /\ Len(out) \in Nat /\ DOMAIN out = 1 .. Len(out)
    OBVIOUS
  <2> HIDE DEF q
  <2>5. q \in Seq(Posts)
    <3>1. q = [i \in 1 .. Len(out) |-> q[i]]
      BY <2>4, Zenon DEF q
    <3>2. \A i \in 1 .. Len(out) : q[i] \in Posts
      BY <2>3, <2>4
    <3> QED
      BY <2>4, <3>1, <3>2
  <2> QED
    BY <2>1, <2>3, <2>4, <2>5
<1>3. CASE mainRole[s] # "None" /\ Describing(out) = {}
  <2>1. Replies(s, out) = <<>>
    BY <1>3 DEF Replies
  <2> QED
    BY <2>1
<1>4. CASE mainRole[s] # "None" /\ Describing(out) # {}
  <2>1. Replies(s, out) = r
    BY <1>4 DEF Replies
  <2>2. b \in BOOLEAN
    OBVIOUS
  <2> HIDE DEF b
  <2>5. e \in Posts /\ e.kind = "Reply"
    BY <1>1, <2>2
  <2> HIDE DEF e
  <2>3. r \in Seq(Posts) /\ DOMAIN r = {1} /\ r[1].kind = "Reply"
    BY <2>5
  <2>4. \E j \in DOMAIN out : out[j].kind \in {"Offer", "Answer"}
    BY <1>4 DEF Describing
  <2> QED
    BY <2>1, <2>3, <2>4
<1> QED
  BY <1>2, <1>3, <1>4

\* What a window has read when it is left with rest, and the signals among it.
Takes(s, u, M, rest) ==
  \/ rest = down[s] /\ M = {}
  \/ /\ down[s] # <<>> /\ rest = Tail(down[s])
     /\ M = IF Head(down[s]).kind = "Signal" THEN {Head(down[s]).signal} ELSE {}
     /\ Ends(Head(down[s])) => u.role = "None"
  \/ rest = <<>> /\ M = {} /\ u.role = "None"

\* One step of the window of s, which becomes u and hands out over.
Steps(s, u, out, M, rest) ==
  LET w == window[s]
      p == Peer(s)
  IN  /\ u \in Windows /\ Sound(u) /\ out \in Seq(Signals) /\ rest \in Seq(Posts)
      /\ Learns(w, u, M, Fresh) /\ Shares(w, u, M, Fresh)
      /\ \A i \in DOMAIN out : Says(w, u, described[s], out[i])
      /\ u.generation \notin described[s] /\ Gathers(u) =>
           \/ u.generation = w.generation /\ Gathers(w) /\ (u.announced => w.announced)
           \/ rest = <<>> /\ ~u.announced
           \/ \E i \in DOMAIN out : out[i].kind \in {"Offer", "Answer"}
      /\ Takes(s, u, M, rest)
      /\ Cardinality(Grants(rest)) <= Len(u.waiting)
      /\ mainRole' = mainRole
      /\ window' \in [Sides -> Windows] /\ window'[s] = u /\ window'[p] = window[p]
      /\ down' \in [Sides -> Seq(Posts)] /\ down'[p] = down[p]
      /\ \E r \in Seq(Posts) :
           /\ down'[s] = rest \o r
           /\ \A i \in DOMAIN r :
                /\ r[i].kind = "Reply"
                /\ r[i].ok => \E j \in DOMAIN out : out[j].kind \in {"Offer", "Answer"}
      /\ net' \in [Sides -> Seq(Messages)] /\ net'[s] = net[s]
      /\ IF mainRole[s] = "None" \/ mainRole[p] = "None" THEN net'[p] = net[p]
         ELSE net'[p] = net[p] \o out
      /\ described' \in [Sides -> SUBSET Nat] /\ described'[p] = described[p]
      /\ described'[s] = described[s] \cup {out[i].gen : i \in Describing(out)}
      /\ generations' = IF u.generation > generations THEN u.generation ELSE generations

\* A window does not change when what it handed over is taken from it.
LEMMA OutTaken ==
  ASSUME NEW v, Sound(v)
  PROVE  LET u == [v EXCEPT !.out = <<>>]
         IN  /\ u \in Windows /\ Sound(u) /\ u.role = v.role /\ u.generation = v.generation
             /\ u.pc = v.pc /\ u.rtc = v.rtc /\ u.signals = v.signals
             /\ u.announced = v.announced /\ u.locals = v.locals /\ u.waiting = v.waiting
<1> DEFINE u == [v EXCEPT !.out = <<>>]
<1>0. v \in ActiveWindows
  BY DEF Sound
<1>1. <<>> \in Seq(Signals)
  OBVIOUS
<1>2. /\ u \in ActiveWindows
      /\ u.role = v.role /\ u.generation = v.generation
      /\ u.pc = v.pc /\ u.rtc = v.rtc /\ u.signals = v.signals
      /\ u.announced = v.announced /\ u.locals = v.locals /\ u.waiting = v.waiting
      /\ u.candidates = v.candidates /\ u.timer = v.timer
  BY <1>0, <1>1 DEF ActiveWindows
<1>3. u \in Windows
  BY <1>0, WindowsActive
<1> HIDE DEF u
<1>4. \A i \in DOMAIN u.locals : u.locals[i] = Candidate(u.generation)
  BY <1>2 DEF Sound, Labels
<1>5. u.role = "None" => u.locals = <<>>
  BY <1>2 DEF Sound, Idle
<1>6. Sound(u)
  BY <1>2, <1>4, <1>5, SendsSound
<1> QED
  BY <1>2, <1>3, <1>6 DEF u

LEMMA StepsFrom ==
  ASSUME MediaTypeOK, NEW s \in Sides, NEW v, NEW M, NEW rest \in Seq(Posts),
         Handled(window[s], v, M, Fresh, described[s], rest = <<>>),
         Takes(s, v, M, rest), Cardinality(Grants(rest)) <= Len(v.waiting),
         Commit(s, v, rest), mainRole' = mainRole
  PROVE  Steps(s, [v EXCEPT !.out = <<>>], v.out, M, rest)
<1> DEFINE u == [v EXCEPT !.out = <<>>]
           out == v.out
           p == Peer(s)
<1>1. /\ u \in Windows /\ Sound(u) /\ u.role = v.role /\ u.generation = v.generation
      /\ u.pc = v.pc /\ u.rtc = v.rtc /\ u.signals = v.signals
      /\ u.announced = v.announced /\ u.locals = v.locals /\ u.waiting = v.waiting
  BY OutTaken DEF Handled
<1>2. out \in Seq(Signals)
  BY WindowFields DEF Handled, Sound
<1>3. p \in Sides /\ p # s /\ \A t \in Sides : t = s \/ t = p
  BY Pair
<1>4. /\ window' = [window EXCEPT ![s] = u]
      /\ down' = [down EXCEPT ![s] = rest \o Replies(s, out)]
      /\ net' = IF "None" \in {mainRole[s], mainRole[p]} THEN net
                ELSE [net EXCEPT ![p] = @ \o out]
      /\ described' = [described EXCEPT ![s] = @ \cup {out[i].gen : i \in Describing(out)}]
      /\ generations' = IF u.generation > generations THEN u.generation ELSE generations
  BY <1>1 DEF Commit, Writes
<1> HIDE DEF u, out, p
<1>5. Queued(u) = Queued(v)
  BY <1>1 DEF Queued
<1>6. Answered(u) <=> Answered(v)
  BY <1>1 DEF Answered
<1>7. Learns(window[s], u, M, Fresh)
  BY <1>1, <1>5 DEF Handled, Learns
<1>8. Shares(window[s], u, M, Fresh)
  BY <1>1, <1>6 DEF Handled, Shares
<1>9. \A i \in DOMAIN out : Says(window[s], u, described[s], out[i])
  <2> SUFFICES ASSUME NEW i \in DOMAIN out PROVE Says(window[s], u, described[s], out[i])
    OBVIOUS
  <2>1. Says(window[s], v, described[s], out[i])
    BY DEF Handled, SaysAll, out
  <2> QED
    BY <1>1, <2>1 DEF Says
<1>10. u.generation \notin described[s] /\ Gathers(u) =>
           \/ /\ u.generation = window[s].generation /\ Gathers(window[s])
              /\ (u.announced => window[s].announced)
           \/ rest = <<>> /\ ~u.announced
           \/ \E i \in DOMAIN out : out[i].kind \in {"Offer", "Answer"}
  BY <1>1 DEF Handled, Ordered, Gathers, Describes, out
<1>11. Takes(s, u, M, rest) /\ Cardinality(Grants(rest)) <= Len(u.waiting)
  BY <1>1 DEF Takes
<1>12. /\ window' \in [Sides -> Windows] /\ window'[s] = u /\ window'[p] = window[p]
  BY <1>1, <1>3, <1>4 DEF MediaTypeOK
<1> DEFINE r == Replies(s, out)
<1>13. /\ r \in Seq(Posts)
       /\ \A i \in DOMAIN r :
                /\ r[i].kind = "Reply"
                /\ r[i].ok => \E j \in DOMAIN out : out[j].kind \in {"Offer", "Answer"}
  BY <1>2, RepliesFacts
<1> HIDE DEF r
<1>14. down' \in [Sides -> Seq(Posts)] /\ down'[p] = down[p] /\ down'[s] = rest \o r
  BY <1>3, <1>4, <1>13 DEF MediaTypeOK, r
<1>15. /\ net' \in [Sides -> Seq(Messages)] /\ net'[s] = net[s]
       /\ IF mainRole[s] = "None" \/ mainRole[p] = "None" THEN net'[p] = net[p]
          ELSE net'[p] = net[p] \o out
  <2>1. net \in [Sides -> Seq(Messages)]
    BY DEF MediaTypeOK, Messages
  <2>2. out \in Seq(Messages)
    BY <1>2 DEF Messages
  <2>3. net[p] \o out \in Seq(Messages)
    BY <1>3, <2>1, <2>2
  <2> QED
    BY <1>3, <1>4, <2>1, <2>3
<1>16. /\ described' \in [Sides -> SUBSET Nat] /\ described'[p] = described[p]
       /\ described'[s] = described[s] \cup {out[i].gen : i \in Describing(out)}
  <2>1. described \in [Sides -> SUBSET Nat]
    BY DEF MediaTypeOK
  <2>2. {out[i].gen : i \in Describing(out)} \subseteq Nat
    BY <1>2, SignalTypes DEF Describing
  <2> DEFINE G == {out[i].gen : i \in Describing(out)}
  <2> HIDE DEF G
  <2> QED
    BY <1>3, <1>4, <2>1, <2>2 DEF G
<1>17. /\ \E x \in Seq(Posts) :
           /\ down'[s] = rest \o x
           /\ \A i \in DOMAIN x :
                /\ x[i].kind = "Reply"
                /\ x[i].ok => \E j \in DOMAIN out : out[j].kind \in {"Offer", "Answer"}
  BY <1>13, <1>14
<1>18. Steps(s, u, out, M, rest)
  BY <1>1, <1>2, <1>4, <1>7, <1>8, <1>9, <1>10, <1>11, <1>12, <1>14, <1>15, <1>16, <1>17, Zenon
     DEF Steps, p
<1> QED
  BY <1>18 DEF u, out

LEMMA QueuedSignals ==
  ASSUME NEW w \in ActiveWindows
  PROVE  Queued(w) \subseteq Signals
BY WindowFields DEF Queued

LEMMA InvFacts ==
  ASSUME MediaInv, NEW t \in Sides
  PROVE  /\ window[t] \in ActiveWindows /\ window[t] \in Windows /\ Sound(window[t])
         /\ window[t].out = <<>> /\ Len(window[t].waiting) \in Nat
         /\ net[t] \in Seq(Messages) /\ down[t] \in Seq(Posts)
         /\ described[t] \subseteq 1 .. generations /\ window[t].generation \in 0 .. generations
         /\ generations \in Nat /\ mainRole[t] \in Roles
         /\ Peer(t) \in Sides /\ Peer(t) # t /\ Peer(Peer(t)) = t
<1>1. /\ window[t] \in Windows /\ net[t] \in Seq(Messages) /\ down[t] \in Seq(Posts)
      /\ generations \in Nat /\ mainRole[t] \in Roles
  BY DEF MediaInv, MediaTypeOK, Messages
<1>2. Sound(window[t]) /\ window[t].out = <<>> /\ window[t] \in ActiveWindows
  BY DEF MediaInv, SoundWindows, Sound
<1>3. described[t] \subseteq 1 .. generations /\ window[t].generation <= generations
  BY DEF MediaInv, Drawn
<1>4. window[t].generation \in Nat /\ window[t].waiting \in Seq(BOOLEAN)
  BY <1>2, WindowFields
<1>5. Len(window[t].waiting) \in Nat
  BY <1>4
<1> QED
  BY <1>1, <1>2, <1>3, <1>4, <1>5, Pair

\* The posts left for the window were on the way to it before.
LEMMA RestFacts ==
  ASSUME MediaInv, NEW s \in Sides, NEW u, NEW M, NEW rest, Takes(s, u, M, rest)
  PROVE  /\ rest \in Seq(Posts)
         /\ \A i \in DOMAIN rest : \E j \in DOMAIN down[s] : rest[i] = down[s][j]
<1> DEFINE q == down[s]
<1>0. q \in Seq(Posts)
  BY InvFacts
<1> HIDE DEF q
<1>1. CASE rest = q
  BY <1>0, <1>1 DEF q
<1>2. CASE q # <<>> /\ rest = Tail(q)
  <2>1. /\ Tail(q) \in Seq(Posts) /\ Len(q) \in Nat
        /\ DOMAIN Tail(q) = 1 .. Len(q) - 1 /\ DOMAIN q = 1 .. Len(q)
        /\ \A i \in 1 .. Len(q) - 1 : Tail(q)[i] = q[i + 1]
    BY <1>0, <1>2, TailFacts
  <2>2. \A i \in DOMAIN rest : i + 1 \in DOMAIN q /\ rest[i] = q[i + 1]
    BY <1>2, <2>1
  <2> QED
    BY <1>2, <2>1, <2>2 DEF q
<1>3. CASE rest = <<>>
  BY <1>3
<1> QED
  BY <1>1, <1>2, <1>3 DEF Takes, q

LEMMA Sources ==
  ASSUME MediaInv, NEW s \in Sides, NEW u, NEW out, NEW M, NEW rest,
         Steps(s, u, out, M, rest)
  PROVE  /\ M \subseteq Carried
         /\ \A t \in Sides : Queued(window[t]) \subseteq Carried
         /\ \A m \in Carried' :
              \/ m \in Carried
              \/ /\ \E i \in DOMAIN out : m = out[i]
                 /\ mainRole[s] # "None" /\ mainRole[Peer(s)] # "None"
<1>0. /\ window[s] \in ActiveWindows /\ down[s] \in Seq(Posts)
      /\ Peer(s) \in Sides /\ \A t \in Sides : t = s \/ t = Peer(s)
  BY InvFacts, Pair
<1>1. \A t \in Sides : Queued(window[t]) \subseteq Carried
  <2>1. \A t \in Sides : Queued(window[t]) \subseteq Signals
    BY InvFacts, QueuedSignals
  <2> QED
    BY <2>1, Zenon DEF Carried
<1>2. M \subseteq Carried
  <2> SUFFICES ASSUME NEW m \in M PROVE m \in Carried
    OBVIOUS
  <2>1. /\ down[s] # <<>> /\ Head(down[s]).kind = "Signal" /\ m = Head(down[s]).signal
    BY DEF Steps, Takes
  <2>2. Head(down[s]) \in Posts /\ 1 \in DOMAIN down[s] /\ Head(down[s]) = down[s][1]
    BY <1>0, <2>1, TailFacts
  <2>3. m \in Signals
    <3> DEFINE h == Head(down[s])
    <3> HIDE DEF h
    <3>1. h \in Posts /\ h.kind = "Signal" => h.signal \in Signals
      BY DEF Posts
    <3> QED
      BY <2>1, <2>2, <3>1 DEF h
  <2>4. \E i \in DOMAIN down[s] : down[s][i].kind = "Signal" /\ down[s][i].signal = m
    BY <2>1, <2>2
  <2> QED
    BY <2>3, <2>4, Zenon DEF Carried
<1>3. ASSUME NEW m \in Carried'
      PROVE  \/ m \in Carried
             \/ /\ \E i \in DOMAIN out : m = out[i]
                /\ mainRole[s] # "None" /\ mainRole[Peer(s)] # "None"
  <2>1. m \in Signals /\ \E t \in Sides :
          \/ \E i \in DOMAIN net'[t] : net'[t][i] = m
          \/ \E i \in DOMAIN down'[t] : down'[t][i].kind = "Signal" /\ down'[t][i].signal = m
          \/ m \in Queued(window'[t])
    BY <1>3 DEF Carried, Queued
  <2>2. PICK t \in Sides :
          \/ \E i \in DOMAIN net'[t] : net'[t][i] = m
          \/ \E i \in DOMAIN down'[t] : down'[t][i].kind = "Signal" /\ down'[t][i].signal = m
          \/ m \in Queued(window'[t])
    BY <2>1
  <2>3. CASE \E i \in DOMAIN net'[t] : net'[t][i] = m
    <3>1. PICK i \in DOMAIN net'[t] : net'[t][i] = m
      BY <2>3
    <3>2. CASE net'[t] = net[t]
      <4>1. \E j \in DOMAIN net[t] : net[t][j] = m
        BY <3>1, <3>2
      <4> QED
        BY <2>1, <4>1, Zenon DEF Carried
    <3>3. CASE /\ net'[t] = net[t] \o out
               /\ mainRole[s] # "None" /\ mainRole[Peer(s)] # "None"
      <4> DEFINE q == net[t]
      <4>1. q \in Seq(Messages) /\ out \in Seq(Messages)
        <5>1. out \in Seq(Signals)
          BY DEF Steps
        <5>2. out \in Seq(Messages)
          BY <5>1 DEF Messages
        <5> QED
          BY <5>2, InvFacts
      <4> HIDE DEF q
      <4>2. /\ Len(q) \in Nat /\ Len(out) \in Nat
            /\ DOMAIN (q \o out) = 1 .. Len(q) + Len(out)
            /\ DOMAIN q = 1 .. Len(q) /\ DOMAIN out = 1 .. Len(out)
            /\ \A k \in 1 .. Len(q) : (q \o out)[k] = q[k]
            /\ \A k \in 1 .. Len(out) : (q \o out)[Len(q) + k] = out[k]
        BY <4>1, ConcatFacts
      <4>3. i \in DOMAIN (q \o out) /\ (q \o out)[i] = m
        BY <3>1, <3>3 DEF q
      <4>4. CASE i \in 1 .. Len(q)
        <5>1. i \in DOMAIN q /\ q[i] = m
          BY <4>2, <4>3, <4>4
        <5> QED
          BY <2>1, <5>1, Zenon DEF Carried, q
      <4>5. CASE i \notin 1 .. Len(q)
        <5>1. i - Len(q) \in 1 .. Len(out) /\ Len(q) + (i - Len(q)) = i
          BY <4>2, <4>3, <4>5
        <5>2. (q \o out)[Len(q) + (i - Len(q))] = out[i - Len(q)]
          BY <4>2, <5>1
        <5> QED
          BY <3>3, <4>2, <4>3, <5>1, <5>2
      <4> QED
        BY <4>4, <4>5
    <3>4. \/ net'[t] = net[t]
          \/ /\ net'[t] = net[t] \o out
             /\ mainRole[s] # "None" /\ mainRole[Peer(s)] # "None"
      BY <1>0 DEF Steps
    <3> QED
      BY <3>2, <3>3, <3>4
  <2>4. CASE \E i \in DOMAIN down'[t] : down'[t][i].kind = "Signal" /\ down'[t][i].signal = m
    <3>1. PICK i \in DOMAIN down'[t] : down'[t][i].kind = "Signal" /\ down'[t][i].signal = m
      BY <2>4
    <3>2. \E j \in DOMAIN down[t] : down[t][j] = down'[t][i]
      <4>1. CASE t = Peer(s)
        BY <4>1 DEF Steps
      <4>2. CASE t = s
        <5>1. PICK r \in Seq(Posts) : /\ down'[s] = rest \o r
                                      /\ \A k \in DOMAIN r : r[k].kind = "Reply"
          BY DEF Steps
        <5>2. rest \in Seq(Posts) /\ Takes(s, u, M, rest)
          BY DEF Steps
        <5>3. /\ Len(rest) \in Nat /\ Len(r) \in Nat
              /\ DOMAIN (rest \o r) = 1 .. Len(rest) + Len(r)
              /\ DOMAIN rest = 1 .. Len(rest) /\ DOMAIN r = 1 .. Len(r)
              /\ \A k \in 1 .. Len(rest) : (rest \o r)[k] = rest[k]
              /\ \A k \in 1 .. Len(r) : (rest \o r)[Len(rest) + k] = r[k]
          BY <5>1, <5>2, ConcatFacts
        <5> DEFINE x == rest \o r
        <5>4. i \in DOMAIN x /\ x[i] = down'[t][i]
          BY <4>2, <5>1
        <5>5. i \in 1 .. Len(rest)
          <6> SUFFICES ASSUME i \notin 1 .. Len(rest) PROVE FALSE
            OBVIOUS
          <6>1. i - Len(rest) \in 1 .. Len(r) /\ Len(rest) + (i - Len(rest)) = i
            BY <5>3, <5>4
          <6>2. x[Len(rest) + (i - Len(rest))] = r[i - Len(rest)]
            BY <5>3, <6>1
          <6>3. x[i].kind = "Reply"
            BY <5>1, <5>3, <6>1, <6>2
          <6> QED
            BY <3>1, <5>4, <6>3
        <5>6. i \in DOMAIN rest /\ rest[i] = down'[t][i]
          BY <5>3, <5>4, <5>5
        <5>7. \E j \in DOMAIN down[s] : rest[i] = down[s][j]
          BY <5>2, <5>6, RestFacts
        <5> QED
          BY <4>2, <5>6, <5>7
      <4> QED
        BY <1>0, <4>1, <4>2
    <3>3. \E j \in DOMAIN down[t] : down[t][j].kind = "Signal" /\ down[t][j].signal = m
      BY <3>1, <3>2
    <3> QED
      BY <2>1, <3>3, Zenon DEF Carried
  <2>5. CASE m \in Queued(window'[t])
    <3>1. CASE t = Peer(s)
      <4>1. m \in Queued(window[t])
        BY <2>5, <3>1 DEF Steps
      <4> QED
        BY <1>1, <4>1
    <3>2. CASE t = s
      <4>1. Queued(u) \subseteq M \cup Queued(window[s]) /\ window'[s] = u
        BY DEF Steps, Learns
      <4> QED
        BY <1>1, <1>2, <2>5, <3>2, <4>1
    <3> QED
      BY <1>0, <3>1, <3>2
  <2> QED
    BY <2>2, <2>3, <2>4, <2>5
<1> QED
  BY <1>1, <1>2, <1>3

LEMMA DrawnKept ==
  ASSUME MediaInv, NEW s \in Sides, NEW u, NEW out, NEW M, NEW rest,
         Steps(s, u, out, M, rest)
  PROVE  Drawn'
<1> DEFINE w == window[s]
<1>0. /\ generations \in Nat /\ w.generation \in 0 .. generations
      /\ \A t \in Sides : t = s \/ t = Peer(s)
      /\ u.generation \in Nat /\ window'[s] = u /\ window'[Peer(s)] = window[Peer(s)]
  <2>1. u \in ActiveWindows
    BY DEF Steps, Sound
  <2> QED
    BY <2>1, InvFacts, Pair, WindowFields DEF Steps
<1> HIDE DEF w
<1>1. /\ generations' \in Nat /\ generations <= generations' /\ u.generation <= generations'
  <2>1. generations' = IF u.generation > generations THEN u.generation ELSE generations
    BY DEF Steps
  <2> QED
    BY <1>0, <2>1
<1>2. \A i \in DOMAIN out : out[i].gen \in 1 .. generations
  <2> SUFFICES ASSUME NEW i \in DOMAIN out PROVE out[i].gen \in 1 .. generations
    OBVIOUS
  <2>1. out[i].gen = w.generation /\ out[i].gen # 0
    BY DEF Steps, Says, w
  <2> QED
    BY <1>0, <2>1
<1>3. \A m \in Carried' : m.gen \in 1 .. generations'
  <2> SUFFICES ASSUME NEW m \in Carried' PROVE m.gen \in 1 .. generations'
    OBVIOUS
  <2>1. m.gen \in 1 .. generations
    <3>1. CASE m \in Carried
      BY <3>1 DEF MediaInv, Drawn
    <3>2. CASE \E i \in DOMAIN out : m = out[i]
      BY <1>2, <3>2
    <3> QED
      BY <3>1, <3>2, Sources
  <2> QED
    BY <1>0, <1>1, <2>1
<1>4. \A t \in Sides : window'[t].generation <= generations'
  <2>1. window[Peer(s)].generation \in 0 .. generations
    BY InvFacts
  <2> QED
    BY <1>0, <1>1, <2>1
<1>5. \A t \in Sides : described'[t] \subseteq 1 .. generations'
  <2>1. described[s] \subseteq 1 .. generations /\ described[Peer(s)] \subseteq 1 .. generations
    BY InvFacts
  <2>2. 1 .. generations \subseteq 1 .. generations'
    BY <1>0, <1>1
  <2>3. described'[Peer(s)] = described[Peer(s)]
        /\ described'[s] = described[s] \cup {out[i].gen : i \in Describing(out)}
    BY DEF Steps
  <2>4. {out[i].gen : i \in Describing(out)} \subseteq 1 .. generations
    BY <1>2 DEF Describing
  <2> QED
    BY <1>0, <2>1, <2>2, <2>3, <2>4
<1> QED
  BY <1>3, <1>4, <1>5 DEF Drawn

\* A window that shares has just drawn its generation, or shared for it before.
LEMMA NewOrOld ==
  ASSUME MediaInv, NEW s \in Sides, NEW u, NEW out, NEW M, NEW rest,
         Steps(s, u, out, M, rest), u.role = "Sharer"
  PROVE  \/ u.generation = generations + 1
         \/ LET w == window[s]
            IN  /\ w.role = "Sharer" /\ u.generation = w.generation
                /\ u.pc.born = w.pc.born /\ u.pc.local \in {w.pc.local, w.generation}
                /\ Answered(w) => Answered(u)
                /\ \A m \in M : m.kind = "Answer" /\ m.gen = w.generation => Answered(u)
BY DEF Steps, Shares, Fresh

LEMMA ApartKept ==
  ASSUME MediaInv, NEW s \in Sides, NEW u, NEW out, NEW M, NEW rest,
         Steps(s, u, out, M, rest)
  PROVE  Apart'
<1> DEFINE p == Peer(s)
<1>0. /\ p \in Sides /\ p # s /\ Peer(p) = s /\ \A t \in Sides : t = s \/ t = p
      /\ window'[s] = u /\ window'[p] = window[p]
      /\ generations \in Nat /\ window[p].generation \in 0 .. generations
  BY InvFacts, Pair DEF Steps
<1> HIDE DEF p
<1>1. ASSUME u.role = "Sharer", window[p].role = "Sharer"
      PROVE  u.generation # window[p].generation
  <2>1. CASE u.generation = generations + 1
    BY <1>0, <2>1
  <2>2. CASE window[s].role = "Sharer" /\ u.generation = window[s].generation
    BY <1>0, <1>1, <2>2 DEF MediaInv, Apart, p
  <2> QED
    BY <1>1, <2>1, <2>2, NewOrOld
<1> QED
  BY <1>0, <1>1 DEF Apart, p

LEMMA FreshOwned ==
  ASSUME MediaInv, NEW s \in Sides, NEW u, NEW out, NEW M, NEW rest,
         Steps(s, u, out, M, rest), u.role = "Sharer", u.generation = generations + 1
  PROVE  /\ Owned(s)' /\ Lasting(s)' /\ AnswerComes(s)'
         /\ ~Known(s)' /\ \A m \in Carried' : m.gen # u.generation
<1> DEFINE p == Peer(s)
           g == generations + 1
<1>0. /\ p \in Sides /\ window'[s] = u /\ window'[p] = window[p]
      /\ generations \in Nat /\ window[p].generation \in 0 .. generations
      /\ window[s].generation \in 0 .. generations
      /\ Sound(window[p]) /\ described[s] \subseteq 1 .. generations
      /\ described[p] \subseteq 1 .. generations
  BY InvFacts DEF Steps
<1>1. \A i \in DOMAIN out : out[i].gen # g
  <2> SUFFICES ASSUME NEW i \in DOMAIN out PROVE out[i].gen # g
    OBVIOUS
  <2>1. out[i].gen = window[s].generation
    BY DEF Steps, Says
  <2> QED
    BY <1>0, <2>1
<1>2. \A m \in Carried' : m.gen # g
  <2> SUFFICES ASSUME NEW m \in Carried' PROVE m.gen # g
    OBVIOUS
  <2>1. CASE m \in Carried
    BY <1>0, <2>1 DEF MediaInv, Drawn
  <2>2. CASE \E i \in DOMAIN out : m = out[i]
    BY <1>1, <2>2
  <2> QED
    BY <2>1, <2>2, Sources
<1>3. g \notin described'[s]
  <2>1. described'[s] = described[s] \cup {out[i].gen : i \in Describing(out)}
    BY DEF Steps
  <2>2. g \notin {out[i].gen : i \in Describing(out)}
    BY <1>1 DEF Describing
  <2> QED
    BY <1>0, <2>1, <2>2
<1>4. \A i \in DOMAIN window[p].rtc : window[p].rtc[i].gen # g
  <2> SUFFICES ASSUME NEW i \in DOMAIN window[p].rtc PROVE window[p].rtc[i].gen # g
    OBVIOUS
  <2>1. window[p].rtc[i].gen = window[p].generation
    BY <1>0 DEF Sound, Operates
  <2> QED
    BY <1>0, <2>1
<1>5. window[p].generation # g /\ g \notin described[p]
  BY <1>0
<1> HIDE DEF g
<1>6. ~Known(s)'
  BY <1>0, <1>2, <1>5 DEF Known, p, g
<1>7. Owned(s)'
  BY <1>0, <1>2, <1>3, <1>4, <1>6 DEF Owned, p, g
<1>8. Lasting(s)'
  BY <1>6 DEF Lasting
<1>9. AnswerComes(s)'
  <2>1. described'[p] = described[p]
    BY DEF Steps, p
  <2> QED
    BY <1>0, <1>5, <2>1 DEF AnswerComes, p, g
<1> QED
  BY <1>2, <1>6, <1>7, <1>8, <1>9 DEF g

LEMMA OldOwned ==
  ASSUME MediaInv, NEW s \in Sides, NEW u, NEW out, NEW M, NEW rest,
         Steps(s, u, out, M, rest), u.role = "Sharer",
         window[s].role = "Sharer", u.generation = window[s].generation,
         u.pc.born = window[s].pc.born,
         u.pc.local \in {window[s].pc.local, window[s].generation}
  PROVE  Owned(s)'
<1> DEFINE p == Peer(s)
           w == window[s]
           g == window[s].generation
<1>0. /\ p \in Sides /\ window'[s] = u /\ window'[p] = window[p]
  BY InvFacts DEF Steps
<1>1. /\ Known(s) \/ g \in described[s] => w.pc.local = g
      /\ \A m \in Carried : m.gen = g /\ m.kind # "Candidate" => m.by = w.pc.born
      /\ \A i \in DOMAIN window[p].rtc :
           window[p].rtc[i].op \in {"ApplyOffer", "Answer"} /\ window[p].rtc[i].gen = g =>
             window[p].rtc[i].by = w.pc.born
  BY DEF MediaInv, Owned
<1>2. ASSUME NEW i \in DOMAIN out
      PROVE  /\ out[i].gen = g /\ out[i].kind # "Answer"
             /\ out[i].kind = "Offer" => out[i].by = u.pc.born /\ u.pc.local = g
             /\ out[i].kind = "Candidate" => g \in described[s]
             /\ out[i].kind \in {"Offer", "Answer", "Candidate"}
  <2>1. Says(w, u, described[s], out[i])
    BY DEF Steps
  <2>2. out[i] \in Signals
    BY DEF Steps
  <2> QED
    BY <2>1, <2>2, SignalTypes DEF Says
<1>3. ASSUME NEW i \in DOMAIN out PROVE u.pc.local = g
  BY <1>1, <1>2
<1>4. Known(s)' => u.pc.local = g
  <2> SUFFICES ASSUME Known(s)' PROVE u.pc.local = g
    OBVIOUS
  <2>1. window[p].generation = g \/ \E m \in Carried' : m.gen = g
    BY <1>0 DEF Known
  <2>2. CASE window[p].generation = g
    BY <1>1, <2>2 DEF Known
  <2>3. CASE \E m \in Carried' : m.gen = g
    <3>1. PICK m \in Carried' : m.gen = g
      BY <2>3
    <3>2. CASE m \in Carried
      BY <1>1, <3>1, <3>2 DEF Known
    <3>3. CASE \E i \in DOMAIN out : m = out[i]
      BY <1>3, <3>3
    <3> QED
      BY <3>2, <3>3, Sources
  <2> QED
    BY <2>1, <2>2, <2>3
<1>5. g \in described'[s] => u.pc.local = g
  <2>1. described'[s] = described[s] \cup {out[i].gen : i \in Describing(out)}
    BY DEF Steps
  <2>2. CASE g \in described[s]
    BY <1>1, <2>2
  <2>3. CASE \E i \in Describing(out) : out[i].gen = g
    BY <1>3, <2>3 DEF Describing
  <2> QED
    BY <2>1, <2>2, <2>3
<1>6. \A m \in Carried' : m.gen = g /\ m.kind # "Candidate" => m.by = u.pc.born
  <2> SUFFICES ASSUME NEW m \in Carried', m.gen = g, m.kind # "Candidate"
               PROVE  m.by = u.pc.born
    OBVIOUS
  <2>1. CASE m \in Carried
    BY <1>1, <2>1
  <2>2. CASE \E i \in DOMAIN out : m = out[i]
    BY <1>2, <2>2
  <2> QED
    BY <2>1, <2>2, Sources
<1> HIDE DEF p, w, g
<1> QED
  BY <1>0, <1>1, <1>4, <1>5, <1>6 DEF Owned, p, w, g

\* A step of one window does not make the generation of the other known.
LEMMA KnownBefore ==
  ASSUME MediaInv, NEW s \in Sides, NEW u, NEW out, NEW M, NEW rest,
         Steps(s, u, out, M, rest), window[Peer(s)].role = "Sharer", Known(Peer(s))'
  PROVE  Known(Peer(s))
<1> DEFINE p == Peer(s)
           g == window[p].generation
           w == window[s]
<1>0. /\ p \in Sides /\ Peer(p) = s /\ window'[s] = u /\ window'[p] = window[p]
      /\ g \in 0 .. generations /\ generations \in Nat
  BY InvFacts DEF Steps
<1>1. g # 0
  BY <1>0 DEF MediaInv, SoundWindows, Sound, Sharing
<1>2. u.generation = g \/ \E m \in Carried' : m.gen = g
  BY <1>0 DEF Known
<1>3. CASE \E m \in Carried' : m.gen = g
  <2>1. PICK m \in Carried' : m.gen = g
    BY <1>3
  <2>2. CASE m \in Carried
    BY <2>1, <2>2 DEF Known
  <2>3. CASE \E i \in DOMAIN out : m = out[i]
    <3>1. m.gen = w.generation
      BY <2>3 DEF Steps, Says
    <3> QED
      BY <1>0, <2>1, <3>1 DEF Known
  <2> QED
    BY <2>2, <2>3, Sources
<1>4. CASE u.generation = g
  <2>1. u.generation \in {0, w.generation, Fresh} \cup {m.gen : m \in M \cup Queued(w)}
    BY DEF Steps, Learns
  <2>2. u.generation # Fresh
    BY <1>0, <1>4 DEF Fresh
  <2>3. CASE g = w.generation
    BY <1>0, <2>3 DEF Known
  <2>4. CASE \E m \in M \cup Queued(w) : m.gen = g
    <3>1. M \cup Queued(w) \subseteq Carried
      BY Sources
    <3> QED
      BY <2>4, <3>1 DEF Known
  <2> QED
    BY <1>1, <1>4, <2>1, <2>2, <2>3, <2>4
<1> QED
  BY <1>2, <1>3, <1>4

LEMMA PeerOwned ==
  ASSUME MediaInv, NEW s \in Sides, NEW u, NEW out, NEW M, NEW rest,
         Steps(s, u, out, M, rest)
  PROVE  Owned(Peer(s))'
<1> DEFINE p == Peer(s)
           w == window[s]
           x == window[p]
           g == x.generation
<1>0. /\ p \in Sides /\ Peer(p) = s /\ window'[s] = u /\ window'[p] = x
      /\ described'[p] = described[p]
  BY InvFacts DEF Steps
<1> SUFFICES ASSUME x.role = "Sharer"
             PROVE  /\ Known(p)' \/ g \in described[p] => x.pc.local = g
                    /\ \A m \in Carried' : m.gen = g /\ m.kind # "Candidate" => m.by = x.pc.born
                    /\ \A i \in DOMAIN u.rtc :
                         u.rtc[i].op \in {"ApplyOffer", "Answer"} /\ u.rtc[i].gen = g =>
                           u.rtc[i].by = x.pc.born
  <2> HIDE DEF p, x, g
  <2> QED
    BY <1>0 DEF Owned, p, x, g
<1>1. /\ Known(p) \/ g \in described[p] => x.pc.local = g
      /\ \A m \in Carried : m.gen = g /\ m.kind # "Candidate" => m.by = x.pc.born
      /\ \A i \in DOMAIN w.rtc :
           w.rtc[i].op \in {"ApplyOffer", "Answer"} /\ w.rtc[i].gen = g =>
             w.rtc[i].by = x.pc.born
  BY <1>0 DEF MediaInv, Owned
<1>2. Known(p)' => Known(p)
  BY KnownBefore
<1>3. \A m \in Carried' : m.gen = g /\ m.kind # "Candidate" => m.by = x.pc.born
  <2> SUFFICES ASSUME NEW m \in Carried', m.gen = g, m.kind # "Candidate"
               PROVE  m.by = x.pc.born
    OBVIOUS
  <2>1. CASE m \in Carried
    BY <1>1, <2>1
  <2>2. CASE \E i \in DOMAIN out : m = out[i]
    <3>1. Says(w, u, described[s], m) /\ m \in Signals
      BY <2>2 DEF Steps
    <3>2. CASE m.kind = "Offer"
      <4>1. u.role = "Sharer" /\ u.generation = g
        BY <3>1, <3>2 DEF Says
      <4>2. window'[s].generation # window'[Peer(s)].generation
        <5>1. Apart'
          BY ApartKept
        <5> QED
          BY <1>0, <4>1, <5>1 DEF Apart
      <4> QED
        BY <1>0, <4>1, <4>2
    <3>3. CASE m.kind = "Answer"
      <4>1. \E j \in DOMAIN w.rtc : /\ w.rtc[j].op = "Answer"
                                    /\ w.rtc[j].gen = m.gen /\ w.rtc[j].by = m.by
        BY <3>1, <3>3 DEF Says
      <4> QED
        BY <1>1, <4>1
    <3> QED
      BY <3>1, <3>2, <3>3, SignalTypes
  <2> QED
    BY <2>1, <2>2, Sources
<1>4. ASSUME NEW i \in DOMAIN u.rtc, u.rtc[i].op \in {"ApplyOffer", "Answer"}, u.rtc[i].gen = g
      PROVE  u.rtc[i].by = x.pc.born
  <2>1. IsFrom(w, M, u.rtc[i].gen, u.rtc[i].by)
    BY <1>4 DEF Steps, Learns
  <2>2. CASE \E j \in DOMAIN w.rtc : /\ w.rtc[j].op \in {"ApplyOffer", "Answer"}
                                     /\ w.rtc[j].gen = u.rtc[i].gen /\ w.rtc[j].by = u.rtc[i].by
    BY <1>1, <1>4, <2>2
  <2>3. CASE \E m \in M \cup Queued(w) : m.kind = "Offer" /\ m.gen = u.rtc[i].gen /\ m.by = u.rtc[i].by
    <3>1. M \cup Queued(w) \subseteq Carried
      BY Sources
    <3> QED
      BY <1>1, <1>4, <2>3, <3>1
  <2> QED
    BY <2>1, <2>2, <2>3 DEF IsFrom
<1> QED
  BY <1>1, <1>2, <1>3, <1>4

\* What leads the candidates stays on the way to a window that is not told of
\* the end, until it is read.
LEMMA RestKeeps ==
  ASSUME MediaInv, NEW s \in Sides, NEW u, NEW M, NEW rest, Takes(s, u, M, rest),
         u.role # "None", NEW g
  PROVE  /\ HasEnd(down[s]) => HasEnd(rest)
         /\ (\A m \in M : ~AnswerTo(m, g)) /\ HasLead(down[s], g) => HasLead(rest, g)
         /\ (\A m \in M : ~AnswerTo(m, g)) /\ Led(down[s], g) => Led(rest, g)
<1> DEFINE q == down[s]
<1>0. q \in Seq(Posts)
  BY InvFacts
<1>1. CASE rest = q
  BY <1>1
<1>2. CASE /\ q # <<>> /\ rest = Tail(q)
           /\ M = IF Head(q).kind = "Signal" THEN {Head(q).signal} ELSE {}
           /\ Ends(Head(q)) => u.role = "None"
  <2>1. ~Ends(Head(q))
    BY <1>2
  <2>2. (\A m \in M : ~AnswerTo(m, g)) => ~Leads(Head(q), g)
    BY <1>2, <2>1 DEF Leads
  <2> HIDE DEF q
  <2>3. HasEnd(q) => HasEnd(Tail(q))
    BY <1>0, <1>2, <2>1, HasInTail
  <2>4. ~Leads(Head(q), g) /\ HasLead(q, g) => HasLead(Tail(q), g)
    BY <1>0, <1>2, HasInTail
  <2>5. ~Leads(Head(q), g) /\ Led(q, g) => Led(Tail(q), g)
    BY <1>0, <1>2, LedTail
  <2> QED
    BY <1>2, <2>2, <2>3, <2>4, <2>5 DEF q
<1> QED
  BY <1>1, <1>2 DEF Takes

\* What is on the way to the window after the step.
LEMMA DownFacts ==
  ASSUME MediaInv, NEW s \in Sides, NEW u, NEW out, NEW M, NEW rest,
         Steps(s, u, out, M, rest), NEW g
  PROVE  /\ HasEnd(rest) => HasEnd(down'[s])
         /\ HasLead(rest, g) => HasLead(down'[s], g)
         /\ Led(rest, g) => Led(down'[s], g)
<1>1. PICK r \in Seq(Posts) : down'[s] = rest \o r /\ \A i \in DOMAIN r : r[i].kind = "Reply"
  BY DEF Steps
<1>2. rest \in Seq(Posts)
  BY DEF Steps
<1>3. /\ HasEnd(rest) => HasEnd(rest \o r)
      /\ HasLead(rest, g) => HasLead(rest \o r, g)
  BY <1>1, <1>2, HasKept
<1>4. \A i \in DOMAIN r : ~(r[i].kind = "Signal" /\ CandidateOf(r[i].signal, g))
  BY <1>1
<1>5. Led(rest, g) => Led(rest \o r, g)
  BY <1>1, <1>2, <1>4, LedKept
<1> QED
  BY <1>1, <1>3, <1>5

LEMMA OldFollows ==
  ASSUME MediaInv, NEW s \in Sides, NEW u, NEW out, NEW M, NEW rest,
         Steps(s, u, out, M, rest), u.role = "Sharer",
         window[s].role = "Sharer", u.generation = window[s].generation,
         Answered(window[s]) => Answered(u),
         \A m \in M : m.kind = "Answer" /\ m.gen = window[s].generation => Answered(u)
  PROVE  Lasting(s)' /\ AnswerComes(s)' /\ CandidatesFollow(s)'
<1> DEFINE p == Peer(s)
           w == window[s]
           g == window[s].generation
<1>0. /\ p \in Sides /\ window'[s] = u /\ window'[p] = window[p]
      /\ net'[s] = net[s] /\ mainRole' = mainRole /\ described'[p] = described[p]
  BY InvFacts DEF Steps
<1>1. Takes(s, u, M, rest) /\ u.role # "None"
  BY DEF Steps
<1>2. HasEnd(down[s]) => HasEnd(down'[s])
  BY <1>1, RestKeeps, DownFacts
<1>3. ~Answered(u) => ~Answered(w) /\ \A m \in M : ~AnswerTo(m, g)
  BY DEF AnswerTo
<1>4. ~Answered(u) /\ HasLead(down[s], g) => HasLead(down'[s], g)
  BY <1>1, <1>3, RestKeeps, DownFacts
<1>5. ~Answered(u) /\ Led(down[s], g) => Led(down'[s], g)
  BY <1>1, <1>3, RestKeeps, DownFacts
<1>6. Lasting(s)'
  <2> SUFFICES ASSUME Known(s)'
               PROVE  \/ HasEnd(down'[s]) \/ HasClose(net'[s])
                      \/ mainRole'[s] # "None" /\ mainRole'[p] # "None"
    BY DEF Lasting, p
  <2>1. window[p].generation = g \/ \E m \in Carried' : m.gen = g
    BY <1>0 DEF Known
  <2>2. Known(s) \/ (mainRole[s] # "None" /\ mainRole[p] # "None")
    <3>1. CASE window[p].generation = g
      BY <3>1 DEF Known
    <3>2. ASSUME NEW m \in Carried', m.gen = g
          PROVE  Known(s) \/ (mainRole[s] # "None" /\ mainRole[p] # "None")
      BY <3>2, Sources DEF Known
    <3> QED
      BY <2>1, <3>1, <3>2
  <2>3. Known(s) => \/ HasEnd(down[s]) \/ HasClose(net[s])
                    \/ mainRole[s] # "None" /\ mainRole[p] # "None"
    BY DEF MediaInv, Lasting
  <2> QED
    BY <1>0, <1>2, <2>2, <2>3
<1>7. AnswerComes(s)'
  <2>1. g \in described[p] => Answered(w) \/ HasLead(down[s], g) \/ HasNetLead(net[s], g)
    BY DEF MediaInv, AnswerComes
  <2>2. g \in described[p] => Answered(u) \/ HasLead(down'[s], g) \/ HasNetLead(net[s], g)
    BY <1>3, <1>4, <2>1
  <2> HIDE DEF p, g
  <2> QED
    BY <1>0, <2>2 DEF AnswerComes, p, g
<1>8. CandidatesFollow(s)'
  <2>1. Answered(w) \/ (Led(down[s], g) /\ (HasLead(down[s], g) \/ NetLed(net[s], g)))
    BY DEF MediaInv, CandidatesFollow
  <2>2. Answered(u) \/ (Led(down'[s], g) /\ (HasLead(down'[s], g) \/ NetLed(net[s], g)))
    BY <1>3, <1>4, <1>5, <2>1
  <2> HIDE DEF p, g
  <2> QED
    BY <1>0, <2>2 DEF CandidatesFollow, g
<1> QED
  BY <1>6, <1>7, <1>8

\* A generation just drawn has no candidates yet.
LEMMA FreshFollows ==
  ASSUME MediaInv, NEW s \in Sides, NEW u, NEW out, NEW M, NEW rest,
         Steps(s, u, out, M, rest), \A m \in Carried' : m.gen # u.generation
  PROVE  CandidatesFollow(s)'
<1> DEFINE g == u.generation
<1>0. window'[s] = u /\ net' \in [Sides -> Seq(Messages)] /\ down' \in [Sides -> Seq(Posts)]
  BY DEF Steps
<1>1. Led(down'[s], g)
  <2> SUFFICES ASSUME NEW k \in DOMAIN down'[s], down'[s][k].kind = "Signal",
                      CandidateOf(down'[s][k].signal, g)
               PROVE  FALSE
    BY DEF Led
  <2> DEFINE e == down'[s][k]
  <2>1. e \in Posts
    BY <1>0
  <2>2. e.signal \in Signals
    <3> HIDE DEF e
    <3> QED
      BY <2>1 DEF Posts, e
  <2>3. e.signal \in Carried'
    BY <2>2 DEF Carried
  <2> QED
    BY <2>3 DEF CandidateOf
<1>2. NetLed(net'[s], g)
  <2> SUFFICES ASSUME NEW k \in DOMAIN net'[s], CandidateOf(net'[s][k], g)
               PROVE  FALSE
    BY DEF NetLed
  <2> DEFINE m == net'[s][k]
  <2>1. m \in Messages /\ m.kind = "Candidate"
    BY <1>0 DEF CandidateOf
  <2>2. m \in Signals
    <3> HIDE DEF m
    <3> QED
      BY <2>1 DEF Messages
  <2>3. m \in Carried'
    BY <2>2 DEF Carried
  <2> QED
    BY <2>3 DEF CandidateOf
<1> QED
  BY <1>0, <1>1, <1>2 DEF CandidatesFollow

LEMMA OwnFollows ==
  ASSUME MediaInv, NEW s \in Sides, NEW u, NEW out, NEW M, NEW rest,
         Steps(s, u, out, M, rest)
  PROVE  Owned(s)' /\ Lasting(s)' /\ AnswerComes(s)' /\ CandidatesFollow(s)'
<1>0. window'[s] = u
  BY DEF Steps
<1>1. CASE u.role # "Sharer"
  BY <1>0, <1>1 DEF Owned, Lasting, AnswerComes, CandidatesFollow
<1>2. CASE u.role = "Sharer" /\ u.generation = generations + 1
  BY <1>2, FreshOwned, FreshFollows
<1>3. CASE /\ u.role = "Sharer"
           /\ window[s].role = "Sharer" /\ u.generation = window[s].generation
           /\ u.pc.born = window[s].pc.born
           /\ u.pc.local \in {window[s].pc.local, window[s].generation}
           /\ Answered(window[s]) => Answered(u)
           /\ \A m \in M : m.kind = "Answer" /\ m.gen = window[s].generation => Answered(u)
  BY <1>3, OldOwned, OldFollows
<1> QED
  BY <1>1, <1>2, <1>3, NewOrOld

\* What a step of one window sends does not disturb the order for the other.
LEMMA NetFacts ==
  ASSUME MediaInv, NEW s \in Sides, NEW u, NEW out, NEW M, NEW rest,
         Steps(s, u, out, M, rest)
  PROVE  /\ out \in Seq(Signals) /\ out \in Seq(Messages)
         /\ \/ net'[Peer(s)] = net[Peer(s)]
            \/ /\ net'[Peer(s)] = net[Peer(s)] \o out
               /\ mainRole[s] # "None" /\ mainRole[Peer(s)] # "None"
         /\ mainRole[s] # "None" /\ mainRole[Peer(s)] # "None" =>
              net'[Peer(s)] = net[Peer(s)] \o out
<1>1. out \in Seq(Signals)
  BY DEF Steps
<1>2. out \in Seq(Messages)
  BY <1>1 DEF Messages
<1> QED
  BY <1>1, <1>2 DEF Steps

LEMMA PeerFollows ==
  ASSUME MediaInv, NEW s \in Sides, NEW u, NEW out, NEW M, NEW rest,
         Steps(s, u, out, M, rest)
  PROVE  LET p == Peer(s) IN Lasting(p)' /\ AnswerComes(p)' /\ CandidatesFollow(p)'
<1> DEFINE p == Peer(s)
           w == window[s]
           x == window[p]
           g == x.generation
<1>0. /\ p \in Sides /\ Peer(p) = s /\ window'[s] = u /\ window'[p] = x
      /\ down'[p] = down[p] /\ mainRole' = mainRole
      /\ described'[s] = described[s] \cup {out[i].gen : i \in Describing(out)}
      /\ net[p] \in Seq(Messages)
  BY InvFacts DEF Steps
<1> SUFFICES ASSUME x.role = "Sharer"
             PROVE  Lasting(p)' /\ AnswerComes(p)' /\ CandidatesFollow(p)'
  <2> HIDE DEF p, x
  <2> QED
    BY <1>0 DEF Lasting, AnswerComes, CandidatesFollow, p
<1>1. /\ HasNetLead(net[p], g) => HasNetLead(net'[p], g)
      /\ HasClose(net[p]) => HasClose(net'[p])
  <2>1. /\ HasNetLead(net[p], g) => HasNetLead(net[p] \o out, g)
        /\ HasClose(net[p]) => HasClose(net[p] \o out)
    BY <1>0, NetFacts, HasKept
  <2> QED
    BY <2>1, NetFacts
<1>2. Known(p) => \/ HasEnd(down[p]) \/ HasClose(net[p])
                  \/ mainRole[p] # "None" /\ mainRole[s] # "None"
  BY <1>0 DEF MediaInv, Lasting
<1>3. Lasting(p)'
  <2>1. Known(p)' => Known(p)
    BY KnownBefore
  <2> HIDE DEF p, x
  <2> QED
    BY <1>0, <1>1, <1>2, <2>1 DEF Lasting
<1>4. g \in described[s] => Answered(x) \/ HasLead(down[p], g) \/ HasNetLead(net[p], g)
  BY <1>0 DEF MediaInv, AnswerComes
<1>5. ASSUME NEW i \in DOMAIN out, out[i].kind \in {"Offer", "Answer"}, out[i].gen = g
      PROVE  HasLead(down[p], g) \/ HasNetLead(net'[p], g)
  <2>1. Says(w, u, described[s], out[i])
    BY DEF Steps
  <2>2. out[i].kind # "Offer"
    <3> SUFFICES ASSUME out[i].kind = "Offer" PROVE FALSE
      OBVIOUS
    <3>1. u.role = "Sharer" /\ u.generation = g
      BY <1>5, <2>1 DEF Says
    <3>2. Apart'
      BY ApartKept
    <3> HIDE DEF p
    <3> QED
      BY <1>0, <3>1, <3>2 DEF Apart
  <2>3. out[i].kind = "Answer" /\ w.generation = g
    BY <1>5, <2>1, <2>2 DEF Says
  <2>4. Known(p)
    BY <1>0, <2>3 DEF Known
  <2>5. CASE HasEnd(down[p])
    BY <2>5 DEF HasEnd, HasLead, Leads
  <2>6. CASE HasClose(net[p])
    BY <1>1, <2>6 DEF HasClose, HasNetLead, NetLeads
  <2>7. CASE mainRole[p] # "None" /\ mainRole[s] # "None"
    <3>1. HasNetLead(out, g)
      BY <1>5, <2>3 DEF HasNetLead, NetLeads, AnswerTo
    <3>2. HasNetLead(net[p] \o out, g)
      BY <1>0, <3>1, NetFacts, HasKept
    <3> QED
      BY <2>7, <3>2, NetFacts
  <2> QED
    BY <1>2, <2>4, <2>5, <2>6, <2>7
<1>6. AnswerComes(p)'
  <2>1. g \in described'[s] =>
          Answered(x) \/ HasLead(down[p], g) \/ HasNetLead(net'[p], g)
    <3> SUFFICES ASSUME g \in described'[s]
                 PROVE  Answered(x) \/ HasLead(down[p], g) \/ HasNetLead(net'[p], g)
      OBVIOUS
    <3>1. CASE g \in described[s]
      BY <1>1, <1>4, <3>1
    <3>2. CASE \E i \in Describing(out) : g = out[i].gen
      BY <1>5, <3>2 DEF Describing
    <3> QED
      BY <1>0, <3>1, <3>2
  <2> HIDE DEF p, x
  <2> QED
    BY <1>0, <2>1 DEF AnswerComes, g
<1>7. CandidatesFollow(p)'
  <2>1. Answered(x) \/ (Led(down[p], g) /\ (HasLead(down[p], g) \/ NetLed(net[p], g)))
    BY <1>0 DEF MediaInv, CandidatesFollow
  <2>2. ASSUME NetLed(net[p], g), ~Answered(x), ~HasLead(down[p], g)
        PROVE  NetLed(net[p] \o out, g)
    <3>1. CASE \A i \in DOMAIN out : ~CandidateOf(out[i], g)
      BY <1>0, <2>2, <3>1, NetFacts, NetLedKept
    <3>2. CASE \E i \in DOMAIN out : CandidateOf(out[i], g)
      <4>1. PICK i \in DOMAIN out : CandidateOf(out[i], g)
        BY <3>2
      <4>2. Says(w, u, described[s], out[i])
        BY DEF Steps
      <4>3. g \in described[s]
        BY <4>1, <4>2 DEF Says, CandidateOf
      <4>4. HasNetLead(net[p], g)
        BY <1>4, <2>2, <4>3
      <4> QED
        BY <1>0, <2>2, <4>4, NetFacts, NetLedKept
    <3> QED
      BY <3>1, <3>2
  <2>3. Answered(x) \/ (Led(down[p], g) /\ (HasLead(down[p], g) \/ NetLed(net'[p], g)))
    BY <2>1, <2>2, NetFacts
  <2> HIDE DEF p, x
  <2> QED
    BY <1>0, <2>3 DEF CandidatesFollow, g
<1> QED
  BY <1>3, <1>6, <1>7

LEMMA AnnouncingKept ==
  ASSUME MediaInv, NEW s \in Sides, NEW u, NEW out, NEW M, NEW rest,
         Steps(s, u, out, M, rest)
  PROVE  Announcing(s)' /\ Announcing(Peer(s))'
<1> DEFINE p == Peer(s)
           w == window[s]
<1>0. /\ p \in Sides /\ window'[s] = u /\ window'[p] = window[p]
      /\ down'[p] = down[p] /\ described'[p] = described[p]
      /\ described'[s] = described[s] \cup {out[i].gen : i \in Describing(out)}
      /\ rest \in Seq(Posts)
  BY InvFacts DEF Steps
<1>1. Announcing(p)'
  <2>1. Announcing(p)
    BY <1>0 DEF MediaInv
  <2> HIDE DEF p
  <2> QED
    BY <1>0, <2>1 DEF Announcing
<1>2. Announcing(s)'
  <2> SUFFICES ASSUME u.generation \notin described'[s], Gathers(u)
               PROVE  ~u.announced /\ ~Announces(down'[s])
    BY <1>0 DEF Announcing
  <2>1. ~ \E i \in DOMAIN out : out[i].kind \in {"Offer", "Answer"}
    <3> SUFFICES ASSUME NEW i \in DOMAIN out, out[i].kind \in {"Offer", "Answer"}
                 PROVE  FALSE
      OBVIOUS
    <3>1. out[i].gen = u.generation
      BY DEF Steps, Says
    <3> QED
      BY <1>0, <3>1 DEF Describing
  <2>2. PICK r \in Seq(Posts) : down'[s] = rest \o r /\ \A i \in DOMAIN r : ~r[i].ok
    BY <2>1 DEF Steps
  <2>3. ~Announces(rest) => ~Announces(down'[s])
    <3>1. /\ Len(rest) \in Nat /\ Len(r) \in Nat
          /\ DOMAIN (rest \o r) = 1 .. Len(rest) + Len(r)
          /\ DOMAIN rest = 1 .. Len(rest) /\ DOMAIN r = 1 .. Len(r)
          /\ \A i \in 1 .. Len(rest) : (rest \o r)[i] = rest[i]
          /\ \A i \in 1 .. Len(r) : (rest \o r)[Len(rest) + i] = r[i]
      BY <1>0, <2>2, ConcatFacts
    <3> DEFINE y == rest \o r
    <3>2. \A i \in DOMAIN y : y[i].kind = "Reply" /\ y[i].ok => i \in DOMAIN rest /\ y[i] = rest[i]
      <4> SUFFICES ASSUME NEW i \in DOMAIN y, y[i].ok, i \notin 1 .. Len(rest) PROVE FALSE
        BY <3>1
      <4>1. i - Len(rest) \in 1 .. Len(r) /\ Len(rest) + (i - Len(rest)) = i
        BY <3>1
      <4>2. y[Len(rest) + (i - Len(rest))] = r[i - Len(rest)]
        BY <3>1, <4>1
      <4> QED
        BY <2>2, <3>1, <4>1, <4>2
    <3> HIDE DEF y
    <3>3. ~Announces(rest) => ~Announces(y)
      BY <3>2 DEF Announces
    <3> QED
      BY <2>2, <3>3 DEF y
  <2>4. CASE u.generation = w.generation /\ Gathers(w) /\ (u.announced => w.announced)
    <3>1. ~w.announced /\ ~Announces(down[s])
      BY <1>0, <2>4 DEF MediaInv, Announcing
    <3>2. Takes(s, u, M, rest)
      BY DEF Steps
    <3>3. \A i \in DOMAIN rest : \E j \in DOMAIN down[s] : rest[i] = down[s][j]
      BY <3>2, RestFacts
    <3>4. ~Announces(rest)
      BY <3>1, <3>3 DEF Announces
    <3> QED
      BY <2>3, <2>4, <3>1, <3>4
  <2>5. CASE rest = <<>> /\ ~u.announced
    <3>1. ~Announces(rest)
      BY <2>5 DEF Announces
    <3> QED
      BY <2>3, <2>5, <3>1
  <2> QED
    BY <1>0, <2>1, <2>4, <2>5 DEF Steps
<1> QED
  BY <1>1, <1>2

LEMMA NetKept ==
  ASSUME MediaInv, NEW s \in Sides, NEW u, NEW out, NEW M, NEW rest,
         Steps(s, u, out, M, rest)
  PROVE  DescribedFirst' /\ CloseMeans'
<1> DEFINE p == Peer(s)
<1>0. /\ p \in Sides /\ Peer(p) = s /\ \A t \in Sides : t = s \/ t = p
      /\ mainRole' = mainRole /\ net'[s] = net[s] /\ described'[p] = described[p]
      /\ described[s] \subseteq described'[s] /\ net[p] \in Seq(Messages)
  BY InvFacts, Pair DEF Steps
<1>1. \A i \in DOMAIN net'[p] :
        \/ \E j \in DOMAIN net[p] : net'[p][i] = net[p][j]
        \/ \E j \in DOMAIN out : net'[p][i] = out[j]
  <2>1. CASE net'[p] = net[p]
    BY <2>1
  <2>2. CASE net'[p] = net[p] \o out
    <3> DEFINE q == net[p]
    <3>1. /\ Len(q) \in Nat /\ Len(out) \in Nat
          /\ DOMAIN (q \o out) = 1 .. Len(q) + Len(out)
          /\ DOMAIN q = 1 .. Len(q) /\ DOMAIN out = 1 .. Len(out)
          /\ \A k \in 1 .. Len(q) : (q \o out)[k] = q[k]
          /\ \A k \in 1 .. Len(out) : (q \o out)[Len(q) + k] = out[k]
      BY <1>0, NetFacts, ConcatFacts
    <3> DEFINE y == q \o out
    <3> SUFFICES ASSUME NEW i \in DOMAIN y
                 PROVE  (\E j \in DOMAIN q : y[i] = q[j]) \/ (\E j \in DOMAIN out : y[i] = out[j])
      BY <2>2
    <3>2. CASE i \in 1 .. Len(q)
      BY <3>1, <3>2
    <3>3. CASE i \notin 1 .. Len(q)
      <4>1. i - Len(q) \in 1 .. Len(out) /\ Len(q) + (i - Len(q)) = i
        BY <3>1, <3>3
      <4>2. y[Len(q) + (i - Len(q))] = out[i - Len(q)]
        BY <3>1, <4>1
      <4> QED
        BY <3>1, <4>1, <4>2
    <3> QED
      BY <3>2, <3>3
  <2> QED
    BY <2>1, <2>2, NetFacts
<1>2. \A j \in DOMAIN out : out[j].kind # "Close" /\ (out[j].kind = "Candidate" => out[j].gen \in described[s])
  <2> SUFFICES ASSUME NEW j \in DOMAIN out
               PROVE  out[j].kind # "Close" /\ (out[j].kind = "Candidate" => out[j].gen \in described[s])
    OBVIOUS
  <2>1. out[j] \in Signals
    BY NetFacts
  <2>2. Says(window[s], u, described[s], out[j])
    BY DEF Steps
  <2> QED
    BY <2>1, <2>2, SignalTypes DEF Says
<1>3. CloseMeans'
  <2>1. HasClose(net'[p]) => HasClose(net[p])
    BY <1>1, <1>2 DEF HasClose
  <2> HIDE DEF p
  <2> QED
    BY <1>0, <2>1 DEF MediaInv, CloseMeans
<1>4. DescribedFirst'
  <2>1. ASSUME NEW i \in DOMAIN net'[p], net'[p][i].kind = "Candidate"
        PROVE  net'[p][i].gen \in described'[s]
    <3>1. CASE \E j \in DOMAIN net[p] : net'[p][i] = net[p][j]
      <4>1. \A j \in DOMAIN net[Peer(s)] :
              net[Peer(s)][j].kind = "Candidate" => net[Peer(s)][j].gen \in described[s]
        BY DEF MediaInv, DescribedFirst
      <4> QED
        BY <1>0, <2>1, <3>1, <4>1
    <3>2. CASE \E j \in DOMAIN out : net'[p][i] = out[j]
      BY <1>0, <1>2, <2>1, <3>2
    <3> QED
      BY <1>1, <3>1, <3>2
  <2>2. ASSUME NEW i \in DOMAIN net'[s], net'[s][i].kind = "Candidate"
        PROVE  net'[s][i].gen \in described'[p]
    BY <1>0, <2>2 DEF MediaInv, DescribedFirst
  <2> HIDE DEF p
  <2>3. \A t \in Sides : \A i \in DOMAIN net'[Peer(t)] :
          net'[Peer(t)][i].kind = "Candidate" => net'[Peer(t)][i].gen \in described'[t]
    <3> SUFFICES ASSUME NEW t \in Sides, NEW i \in DOMAIN net'[Peer(t)],
                        net'[Peer(t)][i].kind = "Candidate"
                 PROVE  net'[Peer(t)][i].gen \in described'[t]
      OBVIOUS
    <3>1. CASE t = s
      BY <2>1, <3>1 DEF p
    <3>2. CASE t = p
      BY <1>0, <2>2, <3>2
    <3> QED
      BY <1>0, <3>1, <3>2
  <2> QED
    BY <2>3 DEF DescribedFirst
<1> QED
  BY <1>3, <1>4

LEMMA GrantsKept ==
  ASSUME NEW q \in Seq(Posts), NEW r \in Seq(Posts), \A i \in DOMAIN r : r[i].kind # "Grant"
  PROVE  Grants(q \o r) = Grants(q)
<1> DEFINE x == q \o r
<1>1. /\ Len(q) \in Nat /\ Len(r) \in Nat
      /\ DOMAIN x = 1 .. Len(q) + Len(r)
      /\ DOMAIN q = 1 .. Len(q) /\ DOMAIN r = 1 .. Len(r)
      /\ \A i \in 1 .. Len(q) : x[i] = q[i]
      /\ \A i \in 1 .. Len(r) : x[Len(q) + i] = r[i]
  BY ConcatFacts
<1> HIDE DEF x
<1>2. \A i \in DOMAIN x : x[i].kind = "Grant" => i \in DOMAIN q
  <2> SUFFICES ASSUME NEW i \in DOMAIN x, i \notin 1 .. Len(q) PROVE x[i].kind # "Grant"
    BY <1>1
  <2>1. i - Len(q) \in 1 .. Len(r) /\ Len(q) + (i - Len(q)) = i
    BY <1>1
  <2>2. x[Len(q) + (i - Len(q))] = r[i - Len(q)]
    BY <1>1, <2>1
  <2> QED
    BY <1>1, <2>1, <2>2
<1>3. \A i \in DOMAIN q : i \in DOMAIN x /\ x[i] = q[i]
  BY <1>1
<1>4. Grants(x) = Grants(q)
  BY <1>2, <1>3 DEF Grants
<1> QED
  BY <1>4 DEF x

LEMMA WindowStepKeeps ==
  ASSUME MediaInv, NEW s \in Sides, NEW u, NEW out, NEW M, NEW rest,
         Steps(s, u, out, M, rest),
         spent' \in [{"connections", "reversals", "outages", "saves", "reloads"} -> Nat]
  PROVE  MediaInv'
<1> DEFINE p == Peer(s)
<1>0. /\ p \in Sides /\ \A t \in Sides : t = s \/ t = p
      /\ window'[s] = u /\ window'[p] = window[p] /\ down'[p] = down[p]
      /\ generations \in Nat
  BY InvFacts, Pair DEF Steps
<1>1. MediaTypeOK'
  <2>1. /\ mainRole' = mainRole /\ window' \in [Sides -> Windows]
        /\ down' \in [Sides -> Seq(Posts)] /\ net' \in [Sides -> Seq(Messages)]
        /\ described' \in [Sides -> SUBSET Nat] /\ u \in Windows
    BY DEF Steps
  <2>2. u.generation \in Nat
    BY <2>1, WindowsActive, WindowFields
  <2>3. generations' \in Nat
    BY <1>0, <2>2 DEF Steps
  <2>4. mainRole \in [Sides -> Roles]
    BY DEF MediaInv, MediaTypeOK
  <2> QED
    BY <2>1, <2>3, <2>4 DEF MediaTypeOK, Messages
<1>2. SoundWindows'
  <2>1. Sound(u) /\ u.out = <<>>
    BY WindowsActive DEF Steps
  <2>2. Sound(window[p]) /\ window[p].out = <<>>
    BY <1>0, InvFacts
  <2> HIDE DEF p
  <2> QED
    BY <1>0, <2>1, <2>2 DEF SoundWindows
<1>3. GrantsAwaited'
  <2>1. PICK r \in Seq(Posts) : down'[s] = rest \o r /\ \A i \in DOMAIN r : r[i].kind = "Reply"
    BY DEF Steps
  <2>2. rest \in Seq(Posts) /\ Cardinality(Grants(rest)) <= Len(u.waiting)
    BY DEF Steps
  <2>3. \A i \in DOMAIN r : r[i].kind # "Grant"
    BY <2>1
  <2>4. Grants(down'[s]) = Grants(rest)
    BY <2>1, <2>2, <2>3, GrantsKept
  <2>5. Cardinality(Grants(down[p])) <= Len(window[p].waiting)
    BY <1>0 DEF MediaInv, GrantsAwaited
  <2> HIDE DEF p
  <2> QED
    BY <1>0, <2>2, <2>4, <2>5 DEF GrantsAwaited
<1>4. Drawn' /\ Apart' /\ CloseMeans' /\ DescribedFirst'
  BY DrawnKept, ApartKept, NetKept
<1>5. /\ Owned(s)' /\ Lasting(s)' /\ AnswerComes(s)' /\ CandidatesFollow(s)'
      /\ Announcing(s)'
  BY OwnFollows, AnnouncingKept
<1>6. /\ Owned(p)' /\ Lasting(p)' /\ AnswerComes(p)' /\ CandidatesFollow(p)'
      /\ Announcing(p)'
  BY PeerOwned, PeerFollows, AnnouncingKept
<1>7. \A t \in Sides : Owned(t)' /\ Lasting(t)' /\ AnswerComes(t)' /\ CandidatesFollow(t)' /\ Announcing(t)'
  <2> SUFFICES ASSUME NEW t \in Sides
               PROVE  Owned(t)' /\ Lasting(t)' /\ AnswerComes(t)' /\ CandidatesFollow(t)' /\ Announcing(t)'
    OBVIOUS
  <2>1. CASE t = s
    BY <1>5, <2>1
  <2>2. CASE t = p
    BY <1>6, <2>2
  <2> QED
    BY <1>0, <2>1, <2>2
<1> QED
  BY <1>1, <1>2, <1>3, <1>4, <1>7 DEF MediaInv

LEMMA GrantsFinite ==
  ASSUME NEW q \in Seq(Posts)
  PROVE  /\ IsFiniteSet(Grants(q)) /\ Cardinality(Grants(q)) \in Nat
         /\ Cardinality(Grants(q)) = 0 <=> Grants(q) = {}
<1>1. Grants(q) \subseteq 1 .. Len(q) /\ Len(q) \in Nat
  BY DEF Grants
<1>2. IsFiniteSet(1 .. Len(q))
  BY <1>1, FS_Interval
<1> QED
  BY <1>1, <1>2, FS_Subset, FS_CardinalityType, FS_EmptySet

\* A post read leaves no more grants, and one less when it was a grant.
LEMMA GrantsTail ==
  ASSUME NEW q \in Seq(Posts), q # <<>>
  PROVE  /\ Cardinality(Grants(Tail(q))) <= Cardinality(Grants(q))
         /\ Head(q).kind = "Grant" =>
              /\ Cardinality(Grants(q)) >= 1
              /\ Cardinality(Grants(Tail(q))) <= Cardinality(Grants(q)) - 1
<1> DEFINE x == Tail(q)
           G == Grants(q)
           H == Grants(x)
           f == [i \in H |-> i + 1]
<1>1. /\ x \in Seq(Posts) /\ Len(q) \in Nat /\ Head(q) = q[1] /\ 1 \in DOMAIN q
      /\ DOMAIN x = 1 .. Len(q) - 1 /\ DOMAIN q = 1 .. Len(q)
      /\ \A i \in 1 .. Len(q) - 1 : x[i] = q[i + 1]
  BY TailFacts
<1>2. IsFiniteSet(G) /\ IsFiniteSet(H) /\ Cardinality(G) \in Nat /\ Cardinality(H) \in Nat
  BY <1>1, GrantsFinite
<1> HIDE DEF x
<1>3. \A i \in H : i \in Nat /\ i + 1 \in G \ {1}
  BY <1>1 DEF Grants
<1> HIDE DEF G, H
<1>4. f \in Injection(H, G \ {1})
  BY <1>3 DEF Injection, IsInjective
<1>5. /\ IsFiniteSet(G \ {1})
      /\ Cardinality(G \ {1}) = IF 1 \in G THEN Cardinality(G) - 1 ELSE Cardinality(G)
  BY <1>2, FS_RemoveElement
<1> HIDE DEF f
<1>6. Cardinality(H) <= Cardinality(G \ {1})
  BY <1>4, <1>5, FS_Injection
<1>7. Head(q).kind = "Grant" => 1 \in G
  BY <1>1 DEF Grants, G
<1> QED
  BY <1>2, <1>5, <1>6, <1>7 DEF G, H, x

LEMMA CarriedFacts ==
  ASSUME MediaInv, NEW t \in Sides
  PROVE  /\ Queued(window[t]) \subseteq Carried
         /\ \A m \in Queued(window[t]) : m.gen # 0
         /\ 0 \notin described[t]
         /\ \A i \in DOMAIN down[t] : down[t][i].kind = "Signal" =>
              /\ down[t][i].signal \in Carried /\ down[t][i].signal \in Signals
              /\ down[t][i].signal.gen # 0
<1>1. Queued(window[t]) \subseteq Signals
  BY InvFacts, QueuedSignals
<1>2. Queued(window[t]) \subseteq Carried
  BY <1>1, Zenon DEF Carried
<1>3. \A m \in Carried : m.gen # 0
  <2>1. \A m \in Carried : m.gen \in 1 .. generations
    BY DEF MediaInv, Drawn
  <2> QED
    BY <2>1, InvFacts
<1>4. 0 \notin described[t]
  BY InvFacts
<1>5. ASSUME NEW i \in DOMAIN down[t], down[t][i].kind = "Signal"
      PROVE  down[t][i].signal \in Carried /\ down[t][i].signal \in Signals
  <2> DEFINE e == down[t][i]
  <2>1. e \in Posts
    BY InvFacts
  <2>2. e.signal \in Signals
    <3> HIDE DEF e
    <3> QED
      BY <1>5, <2>1 DEF Posts, e
  <2>3. e.signal \in Carried
    BY <1>5, <2>2, Zenon DEF Carried
  <2> QED
    BY <2>2, <2>3
<1> QED
  BY <1>2, <1>3, <1>4, <1>5

LEMMA CommitKeeps ==
  ASSUME MediaInv, NEW s \in Sides, NEW v, NEW M, NEW rest \in Seq(Posts),
         Handled(window[s], v, M, Fresh, described[s], rest = <<>>),
         Takes(s, v, M, rest), Cardinality(Grants(rest)) <= Len(v.waiting),
         Commit(s, v, rest), mainRole' = mainRole,
         spent' \in [{"connections", "reversals", "outages", "saves", "reloads"} -> Nat]
  PROVE  MediaInv'
<1> DEFINE u == [v EXCEPT !.out = <<>>]
<1>1. MediaTypeOK
  BY DEF MediaInv
<1>2. Steps(s, u, v.out, M, rest)
  BY <1>1, StepsFrom
<1> HIDE DEF u
<1> QED
  BY <1>2, WindowStepKeeps

\* A handler that reads no post.
LEMMA ActsKeep ==
  ASSUME MediaInv, NEW s \in Sides, NEW v,
         Handled(window[s], v, {}, Fresh, described[s], down[s] = <<>>),
         Len(v.waiting) >= Len(window[s].waiting), Acts(s, v),
         spent' \in [{"connections", "reversals", "outages", "saves", "reloads"} -> Nat]
  PROVE  MediaInv'
<1>1. down[s] \in Seq(Posts) /\ Len(window[s].waiting) \in Nat
  BY InvFacts
<1>2. Takes(s, v, {}, down[s])
  BY DEF Takes
<1>3. Cardinality(Grants(down[s])) <= Len(v.waiting)
  <2>1. Cardinality(Grants(down[s])) <= Len(window[s].waiting) /\ Cardinality(Grants(down[s])) \in Nat
    BY <1>1, GrantsFinite DEF MediaInv, GrantsAwaited
  <2>2. v.waiting \in Seq(BOOLEAN)
    BY WindowFields DEF Handled, Sound
  <2>3. Len(v.waiting) \in Nat
    BY <2>2
  <2> QED
    BY <1>1, <2>1, <2>3
<1>4. Commit(s, v, down[s]) /\ mainRole' = mainRole
  BY DEF Acts
<1> QED
  BY <1>1, <1>2, <1>3, <1>4, CommitKeeps

\* A handler of the first post.
LEMMA DoesKeep ==
  ASSUME MediaInv, NEW s \in Sides, NEW v, down[s] # <<>>,
         Handled(window[s], v,
                 IF Head(down[s]).kind = "Signal" THEN {Head(down[s]).signal} ELSE {},
                 Fresh, described[s], Tail(down[s]) = <<>>),
         Ends(Head(down[s])) => v.role = "None",
         \/ Len(v.waiting) >= Len(window[s].waiting)
         \/ Head(down[s]).kind = "Grant" /\ Len(v.waiting) = Len(window[s].waiting) - 1,
         Does(s, v)
  PROVE  MediaInv'
<1> DEFINE rest == Tail(down[s])
           M == IF Head(down[s]).kind = "Signal" THEN {Head(down[s]).signal} ELSE {}
<1>1. /\ down[s] \in Seq(Posts) /\ Len(window[s].waiting) \in Nat /\ rest \in Seq(Posts)
  BY InvFacts, TailFacts
<1>2. Takes(s, v, M, rest)
  BY DEF Takes
<1>3. Cardinality(Grants(rest)) <= Len(v.waiting)
  <2>1. /\ Cardinality(Grants(down[s])) <= Len(window[s].waiting)
        /\ Cardinality(Grants(down[s])) \in Nat /\ Cardinality(Grants(rest)) \in Nat
    BY <1>1, GrantsFinite DEF MediaInv, GrantsAwaited
  <2>2. v.waiting \in Seq(BOOLEAN)
    BY WindowFields DEF Handled, Sound
  <2>3. Len(v.waiting) \in Nat
    BY <2>2
  <2>4. /\ Cardinality(Grants(rest)) <= Cardinality(Grants(down[s]))
        /\ Head(down[s]).kind = "Grant" =>
             Cardinality(Grants(rest)) <= Cardinality(Grants(down[s])) - 1
    BY <1>1, GrantsTail
  <2> HIDE DEF rest
  <2> QED
    BY <1>1, <2>1, <2>3, <2>4
<1>4. Commit(s, v, rest) /\ mainRole' = mainRole /\ spent' = spent
  BY DEF Does
<1>5. spent' \in [{"connections", "reversals", "outages", "saves", "reloads"} -> Nat]
  BY <1>4 DEF MediaInv, MediaTypeOK
<1> HIDE DEF rest, M
<1>6. Handled(window[s], v, M, Fresh, described[s], rest = <<>>)
  BY DEF rest, M
<1> QED
  BY <1>1, <1>2, <1>3, <1>4, <1>5, <1>6, CommitKeeps

\* What a window is offered to read.
LEMMA FirstPost ==
  ASSUME MediaInv, NEW s \in Sides, down[s] # <<>>
  PROVE  LET e == Head(down[s])
         IN  /\ e \in Posts /\ 1 \in DOMAIN down[s] /\ e = down[s][1]
             /\ e.kind = "Snapshot" => e.role \in Roles
             /\ e.kind # "Snapshot" => ~Ends(e)
<1> DEFINE e == Head(down[s])
<1>1. e \in Posts /\ 1 \in DOMAIN down[s] /\ e = down[s][1]
  BY InvFacts, TailFacts
<1> HIDE DEF e
<1>2. e.kind = "Snapshot" => e.role \in Roles
  BY <1>1 DEF Posts
<1> QED
  BY <1>1, <1>2 DEF Ends, e

LEMMA ReadSnapshotKeeps ==
  ASSUME MediaInv, NEW s \in Sides, ReadSnapshot(s)
  PROVE  MediaInv'
<1> DEFINE w == window[s]
           e == Head(down[s])
           r == e.role
           u == [w EXCEPT !.accepted = r]
           v == Synchronize(u, r, Fresh)
<1>1. down[s] # <<>> /\ e.kind = "Snapshot" /\ Does(s, v)
  BY DEF ReadSnapshot, Reads
<1>2. r \in Roles /\ ~(e.kind = "Signal") /\ ~(e.kind = "Grant")
  BY <1>1, FirstPost
<1>3. Sound(w) /\ w \in ActiveWindows /\ w.out = <<>> /\ Fresh \in Nat /\ Fresh # 0
  BY InvFacts DEF Fresh
<1>4. \A m \in Queued(w) : m.gen # 0
  BY CarriedFacts
<1> HIDE DEF w, e, r
<1>5. Quiet(w, u) /\ u.timer = w.timer
  <2>1. "Idle" \in States
    BY DEF States
  <2> QED
    BY <1>2, <1>3, <2>1, QuietUpdates
<1> HIDE DEF u
<1>6. /\ Handled(w, v, {}, Fresh, described[s], Tail(down[s]) = <<>>)
      /\ Len(v.waiting) >= Len(w.waiting)
      /\ r = "None" => v.role = "None"
  BY <1>2, <1>3, <1>4, <1>5, SynchronizeHandled
<1> HIDE DEF v
<1>7. Handled(w, v, IF e.kind = "Signal" THEN {e.signal} ELSE {},
              Fresh, described[s], Tail(down[s]) = <<>>)
  BY <1>2, <1>6
<1>8. Ends(e) => v.role = "None"
  BY <1>6 DEF Ends, r
<1> QED
  BY <1>1, <1>6, <1>7, <1>8, DoesKeep DEF w, e

LEMMA ReadSignalKeeps ==
  ASSUME MediaInv, NEW s \in Sides, ReadSignal(s)
  PROVE  MediaInv'
<1> DEFINE w == window[s]
           e == Head(down[s])
           m == e.signal
           v == ReceiveSignal(w, m)
<1>1. down[s] # <<>> /\ e.kind = "Signal" /\ Does(s, v)
  BY DEF ReadSignal, Reads
<1>2. e \in Posts /\ 1 \in DOMAIN down[s] /\ e = down[s][1] /\ ~Ends(e)
  BY <1>1, FirstPost
<1>3. m \in Carried /\ m \in Signals /\ m.gen # 0
  BY <1>1, <1>2, CarriedFacts
<1>4. Sound(w) /\ w.out = <<>>
  BY InvFacts
<1>5. Fits(w, m)
  <2> SUFFICES ASSUME w.role = "Sharer", m.gen = w.generation
               PROVE  /\ m.kind = "Answer" => m.by = w.pc.born /\ w.pc.local = w.generation
                      /\ m.kind = "Candidate" => Answered(w)
    BY DEF Fits
  <2>1. /\ Known(s) => w.pc.local = w.generation
        /\ m.kind # "Candidate" => m.by = w.pc.born
    BY <1>3 DEF MediaInv, Owned
  <2>2. Known(s)
    BY <1>3 DEF Known
  <2>3. m.kind = "Candidate" => Answered(w)
    <3> SUFFICES ASSUME m.kind = "Candidate", ~Answered(w) PROVE FALSE
      OBVIOUS
    <3>1. Led(down[s], w.generation)
      BY DEF MediaInv, CandidatesFollow
    <3>2. down[s][1].kind = "Signal" /\ CandidateOf(down[s][1].signal, w.generation)
      BY <1>1, <1>2 DEF CandidateOf
    <3>3. \E j \in DOMAIN down[s] : j < 1
      BY <1>2, <3>1, <3>2 DEF Led
    <3>4. down[s] \in Seq(Posts)
      BY InvFacts
    <3>5. \A j \in DOMAIN down[s] : ~(j < 1)
      BY <3>4
    <3> QED
      BY <3>3, <3>5
  <2> QED
    BY <2>1, <2>2, <2>3
<1> HIDE DEF w, e, m
<1>6. Received(w, v, {m}, Fresh)
  BY <1>3, <1>4, <1>5, ReceiveKeeps
<1> HIDE DEF v
<1>7. /\ Handled(w, v, {m}, Fresh, described[s], Tail(down[s]) = <<>>)
      /\ Len(v.waiting) = Len(w.waiting)
  BY <1>6, ReceivedHandled
<1>8. Handled(w, v, IF e.kind = "Signal" THEN {e.signal} ELSE {},
              Fresh, described[s], Tail(down[s]) = <<>>)
  BY <1>1, <1>7 DEF m
<1>9. Len(v.waiting) >= Len(w.waiting)
  <2>1. Len(w.waiting) \in Nat
    BY InvFacts DEF w
  <2> QED
    BY <1>7, <2>1
<1> QED
  BY <1>1, <1>2, <1>8, <1>9, DoesKeep DEF w, e

LEMMA ReadReplyKeeps ==
  ASSUME MediaInv, NEW s \in Sides, ReadReply(s)
  PROVE  MediaInv'
<1> DEFINE w == window[s]
           e == Head(down[s])
           D == described[s]
           still == Tail(down[s]) = <<>>
           v == IF ~e.ok THEN Fail(w) ELSE IF e.offer THEN OfferAnnounced(w) ELSE Announced(w)
<1>1. down[s] # <<>> /\ e.kind = "Reply" /\ Does(s, v)
  BY DEF ReadReply, Reads
<1>2. e \in Posts /\ 1 \in DOMAIN down[s] /\ e = down[s][1] /\ ~Ends(e)
  BY <1>1, FirstPost
<1>3. Sound(w) /\ w.out = <<>> /\ 0 \notin D /\ Len(w.waiting) \in Nat
  BY InvFacts, CarriedFacts
<1>4. e.ok /\ Gathers(w) => w.generation \in D
  BY <1>1, <1>2 DEF MediaInv, Announcing, Announces
<1> HIDE DEF w, e, D, still
<1>5. Handled(w, v, {}, Fresh, D, still) /\ v.waiting = w.waiting
  <2>1. CASE ~e.ok
    BY <1>3, <2>1, FailHandled
  <2>2. CASE e.ok
    <3>1. /\ Handled(w, Announced(w), {}, Fresh, D, still)
          /\ Announced(w).waiting = w.waiting
          /\ Handled(w, OfferAnnounced(w), {}, Fresh, D, still)
          /\ OfferAnnounced(w).waiting = w.waiting
      BY <1>3, <1>4, <2>2, AnnouncedHandled
    <3> QED
      BY <2>2, <3>1
  <2> QED
    BY <2>1, <2>2
<1> HIDE DEF v
<1>6. Handled(w, v, IF e.kind = "Signal" THEN {e.signal} ELSE {}, Fresh, D, still)
  BY <1>1, <1>5
<1>7. Len(v.waiting) >= Len(w.waiting)
  BY <1>3, <1>5
<1> QED
  BY <1>1, <1>2, <1>6, <1>7, DoesKeep DEF w, e, D, still

LEMMA ReadGrantKeeps ==
  ASSUME MediaInv, NEW s \in Sides, ReadGrant(s)
  PROVE  MediaInv'
<1> DEFINE w == window[s]
           e == Head(down[s])
           D == described[s]
           still == Tail(down[s]) = <<>>
           v == IF e.ok THEN Captured(w) ELSE Fail([w EXCEPT !.waiting = Tail(@)])
<1>1. down[s] # <<>> /\ e.kind = "Grant" /\ Does(s, v)
  BY DEF ReadGrant, Reads
<1>2. ~Ends(e)
  BY <1>1, FirstPost
<1>3. Sound(w) /\ w.out = <<>> /\ Len(w.waiting) \in Nat /\ w \in ActiveWindows
  BY InvFacts
<1>4. w.waiting # <<>>
  <2>1. /\ Cardinality(Grants(down[s])) <= Len(w.waiting)
        /\ Cardinality(Grants(down[s])) >= 1 /\ Cardinality(Grants(down[s])) \in Nat
    BY <1>1, InvFacts, GrantsTail, GrantsFinite DEF MediaInv, GrantsAwaited
  <2>2. w.waiting = <<>> => Len(w.waiting) = 0
    OBVIOUS
  <2> HIDE DEF w
  <2> QED
    BY <1>3, <2>1, <2>2
<1> HIDE DEF w, e, D, still
<1>5. Handled(w, v, {}, Fresh, D, still) /\ Len(v.waiting) = Len(w.waiting) - 1
  <2>1. CASE e.ok
    BY <1>3, <1>4, <2>1, CapturedHandled
  <2>2. CASE ~e.ok
    BY <1>3, <1>4, <2>2, RefusedHandled
  <2> QED
    BY <2>1, <2>2
<1> HIDE DEF v
<1>6. Handled(w, v, IF e.kind = "Signal" THEN {e.signal} ELSE {}, Fresh, D, still)
  BY <1>1, <1>5
<1> QED
  BY <1>1, <1>2, <1>5, <1>6, DoesKeep DEF w, e, D, still

\* The handlers that read nothing.
LEMMA ActingKeeps ==
  ASSUME MediaInv, NEW s \in Sides,
         \/ OperationSettles(s) \/ OperationFails(s) \/ GatherCandidate(s)
         \/ PathConnects(s) \/ PathBreaks(s) \/ RestartTimeout(s)
         \/ Render(s) \/ SaveConfiguration(s)
  PROVE  MediaInv'
<1> DEFINE w == window[s]
           D == described[s]
           still == down[s] = <<>>
           Budgets == {"connections", "reversals", "outages", "saves", "reloads"}
<1>0. /\ Sound(w) /\ w.out = <<>> /\ w \in ActiveWindows /\ w \in Windows /\ 0 \notin D
      /\ Fresh \in Nat /\ Fresh # 0 /\ w.generation < Fresh /\ w.generation \in Nat
      /\ \A m \in Queued(w) : m.gen # 0
      /\ Len(w.waiting) \in Nat /\ spent \in [Budgets -> Nat]
  <2>1. /\ Sound(w) /\ w.out = <<>> /\ w \in ActiveWindows /\ w \in Windows
        /\ w.generation \in 0 .. generations /\ generations \in Nat /\ Len(w.waiting) \in Nat
    BY InvFacts
  <2>2. 0 \notin D /\ \A m \in Queued(w) : m.gen # 0
    BY CarriedFacts
  <2>3. spent \in [Budgets -> Nat]
    BY DEF MediaInv, MediaTypeOK
  <2> HIDE DEF w
  <2>4. Fresh \in Nat /\ Fresh # 0 /\ w.generation < Fresh /\ w.generation \in Nat
    BY <2>1 DEF Fresh
  <2> QED
    BY <2>1, <2>2, <2>3, <2>4
<1>1. ASSUME NEW v, Handled(w, v, {}, Fresh, D, still), v.waiting = w.waiting, Acts(s, v),
             spent' = spent
      PROVE  MediaInv'
  <2>1. Len(v.waiting) >= Len(w.waiting)
    BY <1>0, <1>1
  <2> QED
    BY <1>0, <1>1, <2>1, ActsKeep
<1>2. CASE OperationSettles(s)
  <2> DEFINE v == Settled([w EXCEPT !.rtc = Tail(@)], Head(w.rtc))
  <2>1. w.rtc # <<>> /\ Acts(s, v) /\ spent' = spent
    BY <1>2 DEF OperationSettles
  <2> HIDE DEF w
  <2>2. Handled(w, v, {}, Fresh, D, still) /\ v.waiting = w.waiting
    BY <1>0, <2>1, SettledHandled
  <2> QED
    BY <1>1, <2>1, <2>2
<1>3. CASE OperationFails(s)
  <2> DEFINE v == Fail(Refused([w EXCEPT !.rtc = Tail(@)], Head(w.rtc)))
  <2>1. w.rtc # <<>> /\ Acts(s, v) /\ spent' = spent
    BY <1>3 DEF OperationFails
  <2> HIDE DEF w
  <2>2. Handled(w, v, {}, Fresh, D, still) /\ v.waiting = w.waiting
    BY <1>0, <2>1, FailsHandled
  <2> QED
    BY <1>1, <2>1, <2>2
<1>4. CASE GatherCandidate(s)
  <2> DEFINE v == SendOrQueueLocalSignal([w EXCEPT !.pc.gathering = FALSE])
  <2>1. w.pc.gathering /\ Acts(s, v) /\ spent' = spent
    BY <1>4 DEF GatherCandidate
  <2>2. w.announced => w.generation \in D
    BY <2>1 DEF MediaInv, Announcing, Gathers
  <2> HIDE DEF w
  <2>3. Handled(w, v, {}, Fresh, D, still) /\ v.waiting = w.waiting
    BY <1>0, <2>1, <2>2, GatherHandled
  <2> QED
    BY <1>1, <2>1, <2>3
<1>5. CASE PathConnects(s)
  <2> DEFINE v == [w EXCEPT !.state = "Streaming"]
  <2>1. Acts(s, v) /\ spent' = spent
    BY <1>5 DEF PathConnects
  <2> HIDE DEF w
  <2>2. Quiet(w, v) /\ v.timer = w.timer
    BY <1>0, QuietUpdates DEF States, Roles
  <2>3. v.timer => w.timer \/ (w.role = "Sharer" /\ w.pc.remote # 0)
    BY <2>2
  <2>4. Handled(w, v, {}, Fresh, D, still) /\ v.waiting = w.waiting
    BY <1>0, <2>2, <2>3, QuietHandled
  <2> QED
    BY <1>1, <2>1, <2>4
<1>6. CASE PathBreaks(s)
  <2> DEFINE v == [w EXCEPT !.state = "Reconnecting", !.timer = @ \/ w.role = "Sharer"]
  <2>1. Acts(s, v) /\ spent' = [spent EXCEPT !["outages"] = @ + 1] /\ w.pc.remote # 0
    BY <1>6 DEF PathBreaks, Uses
  <2> HIDE DEF w
  <2>2. Quiet(w, v) /\ v.timer = (w.timer \/ w.role = "Sharer")
    <3>1. (w.timer \/ w.role = "Sharer") \in BOOLEAN
      BY <1>0 DEF ActiveWindows
    <3> QED
      BY <1>0, <3>1 DEF Quiet, ActiveWindows, States
  <2>3. v.timer => w.timer \/ (w.role = "Sharer" /\ w.pc.remote # 0)
    BY <2>1, <2>2
  <2>4. Handled(w, v, {}, Fresh, D, still) /\ v.waiting = w.waiting
    BY <1>0, <2>2, <2>3, QuietHandled
  <2>5. Len(v.waiting) >= Len(w.waiting)
    BY <1>0, <2>4
  <2>6. spent' \in [Budgets -> Nat]
    BY <1>0, <2>1
  <2> HIDE DEF v
  <2> QED
    BY <2>1, <2>4, <2>5, <2>6, ActsKeep DEF w
<1>7. CASE RestartTimeout(s)
  <2> DEFINE v == RestartIce(w, Fresh)
  <2>1. w.timer /\ w.rtc = <<>> /\ down[s] = <<>> /\ Acts(s, v) /\ spent' = spent
    BY <1>7 DEF RestartTimeout
  <2> HIDE DEF w
  <2>2. Handled(w, v, {}, Fresh, D, TRUE) /\ v.waiting = w.waiting
    BY <1>0, <2>1, RestartHandled
  <2>3. Handled(w, v, {}, Fresh, D, still)
    BY <2>1, <2>2
  <2> QED
    BY <1>1, <2>1, <2>2, <2>3
<1>8. CASE Render(s)
  <2> DEFINE r == w.accepted
             v == [w EXCEPT !.shown = r]
  <2>1. Acts(s, v) /\ spent' = spent
    BY <1>8 DEF Render
  <2>2. r \in Roles
    BY <1>0 DEF ActiveWindows
  <2> HIDE DEF w, r
  <2>3. Quiet(w, v) /\ v.timer = w.timer
    BY <1>0, <2>2, QuietUpdates DEF States
  <2>4. v.timer => w.timer \/ (w.role = "Sharer" /\ w.pc.remote # 0)
    BY <2>3
  <2>5. Handled(w, v, {}, Fresh, D, still) /\ v.waiting = w.waiting
    BY <1>0, <2>3, <2>4, QuietHandled
  <2> QED
    BY <1>1, <2>1, <2>5
<1>9. CASE SaveConfiguration(s)
  <2> DEFINE r == w.shown
             v == Synchronize(w, r, Fresh)
  <2>1. Acts(s, v) /\ spent' = [spent EXCEPT !["saves"] = @ + 1]
    BY <1>9 DEF SaveConfiguration, Uses
  <2>2. r \in Roles
    BY <1>0 DEF ActiveWindows
  <2> HIDE DEF w, r
  <2>3. Quiet(w, w)
    BY <1>0 DEF Quiet
  <2>4. Handled(w, v, {}, Fresh, D, still) /\ Len(v.waiting) >= Len(w.waiting)
    BY <1>0, <2>2, <2>3, SynchronizeHandled
  <2>5. spent' \in [Budgets -> Nat]
    BY <1>0, <2>1
  <2> HIDE DEF v
  <2> QED
    BY <2>1, <2>4, <2>5, ActsKeep DEF w
<1> QED
  BY <1>2, <1>3, <1>4, <1>5, <1>6, <1>7, <1>8, <1>9

LEMMA ReloadKeeps ==
  ASSUME MediaInv, NEW s \in Sides, ReloadWindow(s)
  PROVE  MediaInv'
<1> DEFINE e == <<>>
<1>1. /\ Commit(s, Loaded, <<>>) /\ mainRole' = mainRole
      /\ spent' = [spent EXCEPT !["reloads"] = @ + 1]
  BY DEF ReloadWindow, Uses
<1>2. /\ Handled(window[s], Loaded, {}, Fresh, described[s], <<>> = <<>>)
      /\ Loaded.role = "None"
  BY LoadedHandled
<1>3. Takes(s, Loaded, {}, <<>>)
  BY <1>2 DEF Takes
<1>4. Cardinality(Grants(<<>>)) <= Len(Loaded.waiting) /\ <<>> \in Seq(Posts)
  <2>1. Grants(<<>>) = {} /\ Loaded.waiting = <<>> /\ <<>> \in Seq(Posts)
    BY DEF Grants, Loaded
  <2>2. Len(Loaded.waiting) = 0 /\ Cardinality(Grants(<<>>)) = 0
    BY <2>1, FS_EmptySet
  <2> QED
    BY <2>1, <2>2
<1>5. spent' \in [{"connections", "reversals", "outages", "saves", "reloads"} -> Nat]
  BY <1>1 DEF MediaInv, MediaTypeOK
<1> QED
  BY <1>1, <1>2, <1>3, <1>4, <1>5, CommitKeeps

(* The main process *)

\* A message read from the connection becomes a post to the window.
Brings(m, e) ==
  /\ e \in Posts
  /\ m.kind \in {"Offer", "Answer", "Candidate"} => e.kind = "Signal" /\ e.signal = m
  /\ m.kind \notin {"Offer", "Answer", "Candidate"} => e.kind = "Snapshot"
  /\ m.kind = "Close" => Ends(e)

Grows(t) ==
  \E r \in Seq(Posts), d \in Seq([kind : {"Decision", "Close"}]) :
    /\ down'[t] = down[t] \o r /\ net'[t] = net[t] \o d
    /\ \A i \in DOMAIN r : r[i].kind \in {"Snapshot", "Grant"}
Passes(t) ==
  \E e \in Posts :
    /\ net[t] # <<>> /\ net'[t] = Tail(net[t])
    /\ down'[t] = down[t] \o <<e>> /\ Brings(Head(net[t]), e)
Cuts(t) ==
  \E e \in Posts : net'[t] = <<>> /\ down'[t] = down[t] \o <<e>> /\ Ends(e)
Carries(t) == Grows(t) \/ Passes(t) \/ Cuts(t)

LEMMA MessageFacts ==
  /\ \A m \in Messages : /\ m.kind \in {"Offer", "Answer", "Candidate", "Decision", "Close"}
                         /\ m.kind \in {"Offer", "Answer", "Candidate"} <=> m \in Signals
  /\ \A m \in [kind : {"Decision", "Close"}] :
       m \in Messages /\ m.kind \in {"Decision", "Close"}
<1>1. ASSUME NEW m \in Signals PROVE m.kind \in {"Offer", "Answer", "Candidate"}
  BY SignalTypes
<1>2. ASSUME NEW m \in [kind : {"Decision", "Close"}] PROVE m.kind \in {"Decision", "Close"}
  OBVIOUS
<1> QED
  BY <1>1, <1>2 DEF Messages

LEMMA NoSignals ==
  ASSUME NEW d \in Seq([kind : {"Decision", "Close"}])
  PROVE  d \in Seq(Messages) /\ \A i \in DOMAIN d : d[i].kind \in {"Decision", "Close"}
<1> DEFINE K == [kind : {"Decision", "Close"}]
<1>1. /\ \A m \in K : m.kind \in {"Decision", "Close"}
      /\ K \subseteq Messages
  BY MessageFacts
<1>2. d \in Seq(K)
  OBVIOUS
<1> HIDE DEF K
<1>3. \A i \in DOMAIN d : d[i] \in K
  BY <1>2
<1> QED
  BY <1>1, <1>2, <1>3

\* The window still hears of what it was to hear, and in that order.
LEMMA GrowsKeeps ==
  ASSUME MediaInv, NEW t \in Sides, Grows(t), NEW g
  PROVE  /\ HasEnd(down[t]) => HasEnd(down'[t])
         /\ HasClose(net[t]) => HasClose(net'[t])
         /\ HasLead(down[t], g) => HasLead(down'[t], g)
         /\ HasNetLead(net[t], g) => HasNetLead(net'[t], g)
         /\ Led(down[t], g) => Led(down'[t], g)
         /\ NetLed(net[t], g) => NetLed(net'[t], g)
<1>1. PICK r \in Seq(Posts), d \in Seq([kind : {"Decision", "Close"}]) :
        /\ down'[t] = down[t] \o r /\ net'[t] = net[t] \o d
        /\ \A i \in DOMAIN r : r[i].kind \in {"Snapshot", "Grant"}
  BY DEF Grows
<1>2. net[t] \in Seq(Messages) /\ down[t] \in Seq(Posts)
  BY InvFacts
<1>3. d \in Seq(Messages) /\ \A i \in DOMAIN d : d[i].kind \in {"Decision", "Close"}
  BY NoSignals
<1>4. /\ HasEnd(down[t]) => HasEnd(down'[t])
      /\ HasLead(down[t], g) => HasLead(down'[t], g)
  BY <1>1, <1>2, HasKept
<1>5. /\ HasClose(net[t]) => HasClose(net'[t])
      /\ HasNetLead(net[t], g) => HasNetLead(net'[t], g)
  BY <1>1, <1>2, <1>3, HasKept
<1>6. \A i \in DOMAIN r : ~(r[i].kind = "Signal" /\ CandidateOf(r[i].signal, g))
  BY <1>1
<1>7. Led(down[t], g) => Led(down'[t], g)
  BY <1>1, <1>2, <1>6, LedKept
<1>8. \A i \in DOMAIN d : ~CandidateOf(d[i], g)
  BY <1>3 DEF CandidateOf
<1>9. NetLed(net[t], g) => NetLed(net'[t], g)
  BY <1>1, <1>2, <1>3, <1>8, NetLedKept
<1> QED
  BY <1>4, <1>5, <1>7, <1>9

LEMMA OnePost ==
  ASSUME NEW q \in Seq(Posts), NEW e \in Posts, NEW g
  PROVE  /\ <<e>> \in Seq(Posts) /\ q \o <<e>> \in Seq(Posts)
         /\ HasEnd(q) => HasEnd(q \o <<e>>)
         /\ HasLead(q, g) => HasLead(q \o <<e>>, g)
         /\ Ends(e) => HasEnd(q \o <<e>>)
         /\ Leads(e, g) => HasLead(q \o <<e>>, g)
         /\ Led(q, g) /\ (HasLead(q, g) \/ ~(e.kind = "Signal" /\ CandidateOf(e.signal, g)))
              => Led(q \o <<e>>, g)
<1> DEFINE r == <<e>>
<1>1. r \in Seq(Posts) /\ DOMAIN r = {1} /\ r[1] = e
  OBVIOUS
<1> HIDE DEF r
<1>2. Ends(e) => HasEnd(r)
  BY <1>1 DEF HasEnd
<1>3. Leads(e, g) => HasLead(r, g)
  BY <1>1 DEF HasLead
<1>4. /\ HasEnd(q) => HasEnd(q \o r)
      /\ HasLead(q, g) => HasLead(q \o r, g)
      /\ HasEnd(r) => HasEnd(q \o r)
      /\ HasLead(r, g) => HasLead(q \o r, g)
  BY <1>1, HasKept
<1>5. Led(q, g) /\ (HasLead(q, g) \/ ~(e.kind = "Signal" /\ CandidateOf(e.signal, g)))
        => Led(q \o r, g)
  BY <1>1, LedKept
<1>6. q \o r \in Seq(Posts)
  BY <1>1
<1> QED
  BY <1>1, <1>2, <1>3, <1>4, <1>5, <1>6 DEF r

LEMMA PassesKeeps ==
  ASSUME MediaInv, NEW t \in Sides, Passes(t), NEW g
  PROVE  /\ HasEnd(down[t]) => HasEnd(down'[t])
         /\ HasClose(net[t]) => HasEnd(down'[t]) \/ HasClose(net'[t])
         /\ HasLead(down[t], g) => HasLead(down'[t], g)
         /\ HasNetLead(net[t], g) => HasLead(down'[t], g) \/ HasNetLead(net'[t], g)
         /\ Led(down[t], g) /\ (HasLead(down[t], g) \/ NetLed(net[t], g)) =>
              Led(down'[t], g) /\ (HasLead(down'[t], g) \/ NetLed(net'[t], g))
<1> DEFINE q == net[t]
           m == Head(q)
<1>1. PICK e \in Posts : /\ q # <<>> /\ net'[t] = Tail(q)
                         /\ down'[t] = down[t] \o <<e>> /\ Brings(m, e)
  BY DEF Passes
<1>2. q \in Seq(Messages) /\ down[t] \in Seq(Posts) /\ m \in Messages
  BY <1>1, InvFacts, TailFacts
<1> HIDE DEF q, m
<1>3. /\ HasEnd(down[t]) => HasEnd(down'[t])
      /\ HasLead(down[t], g) => HasLead(down'[t], g)
      /\ Ends(e) => HasEnd(down'[t])
      /\ Leads(e, g) => HasLead(down'[t], g)
      /\ Led(down[t], g) /\ (HasLead(down[t], g) \/ ~(e.kind = "Signal" /\ CandidateOf(e.signal, g)))
           => Led(down'[t], g)
  BY <1>1, <1>2, OnePost
<1>4. /\ HasClose(q) => m.kind = "Close" \/ HasClose(Tail(q))
      /\ HasNetLead(q, g) => NetLeads(m, g) \/ HasNetLead(Tail(q), g)
  BY <1>1, <1>2, HasInTail DEF m
<1>5. NetLed(q, g) /\ ~NetLeads(m, g) => NetLed(Tail(q), g) /\ ~CandidateOf(m, g)
  BY <1>1, <1>2, NetLedTail DEF m
<1>6. NetLeads(m, g) => Leads(e, g) /\ ~(e.kind = "Signal" /\ CandidateOf(e.signal, g))
  <2>1. CASE m.kind = "Close"
    BY <1>1, <2>1 DEF Brings, Leads, Ends
  <2>2. CASE AnswerTo(m, g)
    BY <1>1, <2>2 DEF Brings, Leads, AnswerTo, CandidateOf
  <2> QED
    BY <2>1, <2>2 DEF NetLeads
<1>7. m.kind = "Close" => Ends(e)
  BY <1>1 DEF Brings
<1>8. ~CandidateOf(m, g) => ~(e.kind = "Signal" /\ CandidateOf(e.signal, g))
  <2>1. CASE m.kind \in {"Offer", "Answer", "Candidate"}
    BY <1>1, <2>1 DEF Brings
  <2>2. CASE m.kind \notin {"Offer", "Answer", "Candidate"}
    BY <1>1, <2>2 DEF Brings
  <2> QED
    BY <2>1, <2>2
<1>9. /\ HasClose(net[t]) => HasEnd(down'[t]) \/ HasClose(net'[t])
      /\ HasNetLead(net[t], g) => HasLead(down'[t], g) \/ HasNetLead(net'[t], g)
  BY <1>1, <1>3, <1>4, <1>6, <1>7 DEF q
<1>10. Led(down[t], g) /\ HasLead(down[t], g) => Led(down'[t], g) /\ HasLead(down'[t], g)
  BY <1>3
<1>11. Led(down[t], g) /\ NetLed(net[t], g) =>
         Led(down'[t], g) /\ (HasLead(down'[t], g) \/ NetLed(net'[t], g))
  BY <1>1, <1>3, <1>5, <1>6, <1>8 DEF q
<1> QED
  BY <1>3, <1>9, <1>10, <1>11

LEMMA CarriesKeeps ==
  ASSUME MediaInv, NEW t \in Sides, Carries(t), NEW g
  PROVE  /\ HasEnd(down[t]) \/ HasClose(net[t]) => HasEnd(down'[t]) \/ HasClose(net'[t])
         /\ HasLead(down[t], g) \/ HasNetLead(net[t], g) =>
              HasLead(down'[t], g) \/ HasNetLead(net'[t], g)
         /\ Led(down[t], g) /\ (HasLead(down[t], g) \/ NetLed(net[t], g)) =>
              Led(down'[t], g) /\ (HasLead(down'[t], g) \/ NetLed(net'[t], g))
<1>1. CASE Grows(t)
  BY <1>1, GrowsKeeps
<1>2. CASE Passes(t)
  BY <1>2, PassesKeeps
<1>3. CASE Cuts(t)
  <2>1. PICK e \in Posts : net'[t] = <<>> /\ down'[t] = down[t] \o <<e>> /\ Ends(e)
    BY <1>3 DEF Cuts
  <2>2. down[t] \in Seq(Posts)
    BY InvFacts
  <2>3. Leads(e, g) /\ e.kind # "Signal"
    BY <2>1 DEF Leads, Ends
  <2>4. HasEnd(down'[t]) /\ HasLead(down'[t], g) /\ (Led(down[t], g) => Led(down'[t], g))
    BY <2>1, <2>2, <2>3, OnePost
  <2> QED
    BY <2>4
<1> QED
  BY <1>1, <1>2, <1>3 DEF Carries

\* Nothing new is carried.
LEMMA CarriesOld ==
  ASSUME MediaInv, NEW t \in Sides, Carries(t)
  PROVE  /\ net'[t] \in Seq(Messages) /\ down'[t] \in Seq(Posts)
         /\ \A i \in DOMAIN net'[t] :
              \/ \E j \in DOMAIN net[t] : net'[t][i] = net[t][j]
              \/ net'[t][i].kind \in {"Decision", "Close"}
         /\ \A i \in DOMAIN down'[t] :
              \/ \E j \in DOMAIN down[t] : down'[t][i] = down[t][j]
              \/ down'[t][i].kind \in {"Snapshot", "Grant"}
              \/ /\ down'[t][i].kind = "Signal"
                 /\ \E j \in DOMAIN net[t] : down'[t][i].signal = net[t][j]
<1> DEFINE q == net[t]
           p == down[t]
<1>0. q \in Seq(Messages) /\ p \in Seq(Posts)
  BY InvFacts
<1>1. ASSUME NEW S, NEW x \in Seq(S), NEW y \in Seq(S), NEW i \in DOMAIN (x \o y)
      PROVE  \/ \E j \in DOMAIN x : (x \o y)[i] = x[j]
             \/ \E j \in DOMAIN y : (x \o y)[i] = y[j]
  <2> DEFINE z == x \o y
  <2>1. /\ Len(x) \in Nat /\ Len(y) \in Nat
        /\ DOMAIN z = 1 .. Len(x) + Len(y)
        /\ DOMAIN x = 1 .. Len(x) /\ DOMAIN y = 1 .. Len(y)
        /\ \A k \in 1 .. Len(x) : z[k] = x[k]
        /\ \A k \in 1 .. Len(y) : z[Len(x) + k] = y[k]
    BY ConcatFacts
  <2>2. CASE i \in 1 .. Len(x)
    BY <2>1, <2>2
  <2>3. CASE i \notin 1 .. Len(x)
    <3>1. i - Len(x) \in 1 .. Len(y) /\ Len(x) + (i - Len(x)) = i
      BY <2>1, <2>3
    <3>2. z[Len(x) + (i - Len(x))] = y[i - Len(x)]
      BY <2>1, <3>1
    <3> QED
      BY <2>1, <3>1, <3>2
  <2> QED
    BY <2>2, <2>3
<1> HIDE DEF q, p
<1>2. CASE Grows(t)
  <2>1. PICK r \in Seq(Posts), d \in Seq([kind : {"Decision", "Close"}]) :
          /\ down'[t] = p \o r /\ net'[t] = q \o d
          /\ \A i \in DOMAIN r : r[i].kind \in {"Snapshot", "Grant"}
    BY <1>2 DEF Grows, q, p
  <2>2. d \in Seq(Messages) /\ \A i \in DOMAIN d : d[i].kind \in {"Decision", "Close"}
    BY NoSignals
  <2>3. \A i \in DOMAIN (q \o d) : \/ \E j \in DOMAIN q : (q \o d)[i] = q[j]
                                   \/ (q \o d)[i].kind \in {"Decision", "Close"}
    BY <1>0, <1>1, <2>2
  <2>4. \A i \in DOMAIN (p \o r) : \/ \E j \in DOMAIN p : (p \o r)[i] = p[j]
                                   \/ (p \o r)[i].kind \in {"Snapshot", "Grant"}
    BY <1>0, <1>1, <2>1
  <2>5. q \o d \in Seq(Messages) /\ p \o r \in Seq(Posts)
    BY <1>0, <2>2
  <2> QED
    BY <2>1, <2>3, <2>4, <2>5 DEF q, p
<1>3. CASE Passes(t)
  <2>1. PICK e \in Posts : /\ q # <<>> /\ net'[t] = Tail(q)
                           /\ down'[t] = p \o <<e>> /\ Brings(Head(q), e)
    BY <1>3 DEF Passes, q, p
  <2>2. /\ Tail(q) \in Seq(Messages) /\ Head(q) = q[1] /\ 1 \in DOMAIN q /\ Head(q) \in Messages
        /\ DOMAIN Tail(q) = 1 .. Len(q) - 1 /\ DOMAIN q = 1 .. Len(q) /\ Len(q) \in Nat
        /\ \A i \in 1 .. Len(q) - 1 : Tail(q)[i] = q[i + 1]
    BY <1>0, <2>1, TailFacts
  <2>3. \A i \in DOMAIN Tail(q) : i + 1 \in DOMAIN q /\ Tail(q)[i] = q[i + 1]
    BY <2>2
  <2> DEFINE r == <<e>>
  <2>4. r \in Seq(Posts) /\ \A j \in DOMAIN r : r[j] = e
    OBVIOUS
  <2> HIDE DEF r
  <2>5. \A i \in DOMAIN (p \o r) : (\E j \in DOMAIN p : (p \o r)[i] = p[j]) \/ (p \o r)[i] = e
    BY <1>0, <1>1, <2>4
  <2>6. \/ e.kind = "Snapshot"
        \/ e.kind = "Signal" /\ e.signal = q[1]
    BY <2>1, <2>2 DEF Brings
  <2>7. p \o r \in Seq(Posts)
    BY <1>0, <2>4
  <2>8. \A i \in DOMAIN (p \o r) :
              \/ \E j \in DOMAIN p : (p \o r)[i] = p[j]
              \/ (p \o r)[i].kind \in {"Snapshot", "Grant"}
              \/ /\ (p \o r)[i].kind = "Signal"
                 /\ \E j \in DOMAIN q : (p \o r)[i].signal = q[j]
    BY <2>2, <2>5, <2>6
  <2>9. \A i \in DOMAIN Tail(q) : \E j \in DOMAIN q : Tail(q)[i] = q[j]
    BY <2>3
  <2>10. down'[t] = p \o r
    BY <2>1 DEF r
  <2>11. net'[t] = Tail(q) /\ Tail(q) \in Seq(Messages)
    BY <2>1, <2>2
  <2>12. \A i \in DOMAIN net'[t] : \E j \in DOMAIN q : net'[t][i] = q[j]
    BY <2>9, <2>11
  <2>13. /\ down'[t] \in Seq(Posts)
         /\ \A i \in DOMAIN down'[t] :
              \/ \E j \in DOMAIN p : down'[t][i] = p[j]
              \/ down'[t][i].kind \in {"Snapshot", "Grant"}
              \/ /\ down'[t][i].kind = "Signal"
                 /\ \E j \in DOMAIN q : down'[t][i].signal = q[j]
    BY <2>7, <2>8, <2>10
  <2> QED
    BY <2>11, <2>12, <2>13 DEF q, p
<1>4. CASE Cuts(t)
  <2>1. PICK e \in Posts : net'[t] = <<>> /\ down'[t] = p \o <<e>> /\ Ends(e)
    BY <1>4 DEF Cuts, p
  <2> DEFINE r == <<e>>
  <2>2. r \in Seq(Posts) /\ \A j \in DOMAIN r : r[j] = e
    OBVIOUS
  <2> HIDE DEF r
  <2>3. \A i \in DOMAIN (p \o r) : (\E j \in DOMAIN p : (p \o r)[i] = p[j]) \/ (p \o r)[i] = e
    BY <1>0, <1>1, <2>2
  <2>4. e.kind = "Snapshot"
    BY <2>1 DEF Ends
  <2>5. \A i \in DOMAIN (p \o r) : \/ \E j \in DOMAIN p : (p \o r)[i] = p[j]
                                   \/ (p \o r)[i].kind \in {"Snapshot", "Grant"}
    BY <2>3, <2>4
  <2>6. p \o r \in Seq(Posts) /\ <<>> \in Seq(Messages) /\ DOMAIN <<>> = {}
    BY <1>0, <2>2
  <2>7. down'[t] = p \o r
    BY <2>1 DEF r
  <2> QED
    BY <2>1, <2>5, <2>6, <2>7 DEF q, p
<1> QED
  BY <1>2, <1>3, <1>4 DEF Carries

LEMMA CarriedLess ==
  ASSUME MediaInv, \A t \in Sides : Carries(t), window' = window
  PROVE  Carried' \subseteq Carried
<1> SUFFICES ASSUME NEW m \in Carried' PROVE m \in Carried
  OBVIOUS
<1>1. m \in Signals /\ \E t \in Sides :
          \/ \E i \in DOMAIN net'[t] : net'[t][i] = m
          \/ \E i \in DOMAIN down'[t] : down'[t][i].kind = "Signal" /\ down'[t][i].signal = m
          \/ m \in Queued(window[t])
  BY DEF Carried, Queued
<1>2. PICK t \in Sides :
          \/ \E i \in DOMAIN net'[t] : net'[t][i] = m
          \/ \E i \in DOMAIN down'[t] : down'[t][i].kind = "Signal" /\ down'[t][i].signal = m
          \/ m \in Queued(window[t])
  BY <1>1
<1>3. m.kind \in {"Offer", "Answer", "Candidate"}
  BY <1>1, SignalTypes
<1>4. CASE \E i \in DOMAIN net'[t] : net'[t][i] = m
  <2>1. \E j \in DOMAIN net[t] : net[t][j] = m
    BY <1>3, <1>4, CarriesOld
  <2> QED
    BY <1>1, <2>1, Zenon DEF Carried
<1>5. CASE \E i \in DOMAIN down'[t] : down'[t][i].kind = "Signal" /\ down'[t][i].signal = m
  <2>1. \/ \E j \in DOMAIN down[t] : down[t][j].kind = "Signal" /\ down[t][j].signal = m
        \/ \E j \in DOMAIN net[t] : net[t][j] = m
    BY <1>5, CarriesOld
  <2> QED
    BY <1>1, <2>1, Zenon DEF Carried
<1>6. CASE m \in Queued(window[t])
  BY <1>6, CarriedFacts
<1> QED
  BY <1>2, <1>4, <1>5, <1>6

\* Both sessions last, or the one that has not heard of the end is told.
LastingRoles ==
  \A t \in Sides :
    mainRole[t] # "None" /\ mainRole[Peer(t)] # "None" =>
      \/ HasEnd(down'[t]) \/ HasClose(net'[t])
      \/ mainRole'[t] # "None" /\ mainRole'[Peer(t)] # "None"

LEMMA MainSideKeeps ==
  ASSUME MediaInv, \A t \in Sides : Carries(t), LastingRoles,
         window' = window, generations' = generations, described' = described,
         NEW t \in Sides
  PROVE  /\ Owned(t)' /\ Lasting(t)' /\ AnswerComes(t)' /\ CandidatesFollow(t)'
         /\ Announcing(t)'
<1> DEFINE w == window[t]
           p == Peer(t)
           v == window[p]
           g == w.generation
<1>0. /\ window'[t] = w /\ window'[p] = v /\ described'[t] = described[t]
      /\ described'[p] = described[p] /\ p \in Sides
  BY InvFacts
<1>1. Carried' \subseteq Carried
  BY CarriedLess
<1>2. /\ HasEnd(down[t]) \/ HasClose(net[t]) => HasEnd(down'[t]) \/ HasClose(net'[t])
      /\ HasLead(down[t], g) \/ HasNetLead(net[t], g) =>
           HasLead(down'[t], g) \/ HasNetLead(net'[t], g)
      /\ Led(down[t], g) /\ (HasLead(down[t], g) \/ NetLed(net[t], g)) =>
           Led(down'[t], g) /\ (HasLead(down'[t], g) \/ NetLed(net'[t], g))
  BY CarriesKeeps
<1>3. Known(t)' => Known(t)
  BY <1>1 DEF Known
<1>4. Owned(t)'
  <2>1. Owned(t)
    BY DEF MediaInv
  <2> QED
    BY <1>1, <1>3, <2>1 DEF Owned
<1>5. Lasting(t)'
  <2>1. Lasting(t)
    BY DEF MediaInv
  <2>2. mainRole[t] # "None" /\ mainRole[p] # "None" =>
          \/ HasEnd(down'[t]) \/ HasClose(net'[t])
          \/ mainRole'[t] # "None" /\ mainRole'[p] # "None"
    BY DEF LastingRoles
  <2> QED
    BY <1>2, <1>3, <2>1, <2>2 DEF Lasting
<1>6. AnswerComes(t)'
  <2>1. AnswerComes(t)
    BY DEF MediaInv
  <2> QED
    BY <1>0, <1>2, <2>1 DEF AnswerComes
<1>7. CandidatesFollow(t)'
  <2>1. CandidatesFollow(t)
    BY DEF MediaInv
  <2> QED
    BY <1>0, <1>2, <2>1 DEF CandidatesFollow
<1>8. Announcing(t)'
  <2>1. Announcing(t)
    BY DEF MediaInv
  <2>2. Announces(down'[t]) => Announces(down[t])
    <3>1. \A i \in DOMAIN down'[t] : down'[t][i].kind = "Reply" =>
            \E j \in DOMAIN down[t] : down'[t][i] = down[t][j]
      BY CarriesOld
    <3> QED
      BY <3>1 DEF Announces
  <2>3. window'[t] = window[t] /\ described'[t] = described[t]
    OBVIOUS
  <2> QED
    BY <2>1, <2>2, <2>3 DEF Announcing
<1> QED
  BY <1>4, <1>5, <1>6, <1>7, <1>8

LEMMA MainStepKeeps ==
  ASSUME MediaInv, \A t \in Sides : Carries(t), LastingRoles,
         window' = window, generations' = generations, described' = described,
         mainRole' \in [Sides -> Roles], DOMAIN net' = Sides, DOMAIN down' = Sides,
         net' = [t \in Sides |-> net'[t]], down' = [t \in Sides |-> down'[t]],
         spent' \in [{"connections", "reversals", "outages", "saves", "reloads"} -> Nat],
         \A t \in Sides : Cardinality(Grants(down'[t])) <= Len(window[t].waiting),
         \A t \in Sides : HasClose(net'[t]) => mainRole'[Peer(t)] = "None"
  PROVE  MediaInv'
<1>1. MediaTypeOK'
  <2>1. /\ window \in [Sides -> Windows] /\ generations \in Nat
        /\ described \in [Sides -> SUBSET Nat]
    BY DEF MediaInv, MediaTypeOK
  <2>2. net' \in [Sides -> Seq(Messages)] /\ down' \in [Sides -> Seq(Posts)]
    BY CarriesOld
  <2> QED
    BY <2>1, <2>2 DEF MediaTypeOK, Messages
<1>2. SoundWindows' /\ Apart'
  BY DEF MediaInv, SoundWindows, Apart
<1>3. GrantsAwaited' /\ CloseMeans'
  BY DEF GrantsAwaited, CloseMeans
<1>4. Drawn'
  <2>1. Carried' \subseteq Carried
    BY CarriedLess
  <2> QED
    BY <2>1 DEF MediaInv, Drawn
<1>5. \A t \in Sides : /\ Owned(t)' /\ Lasting(t)' /\ AnswerComes(t)' /\ CandidatesFollow(t)'
                       /\ Announcing(t)'
  BY MainSideKeeps
<1>6. DescribedFirst'
  <2> SUFFICES ASSUME NEW s \in Sides, NEW i \in DOMAIN net'[Peer(s)],
                      net'[Peer(s)][i].kind = "Candidate"
               PROVE  net'[Peer(s)][i].gen \in described[s]
    BY DEF DescribedFirst
  <2>1. Peer(s) \in Sides
    BY InvFacts
  <2>2. PICK j \in DOMAIN net[Peer(s)] : net'[Peer(s)][i] = net[Peer(s)][j]
    BY <2>1, CarriesOld
  <2> QED
    BY <2>2 DEF MediaInv, DescribedFirst
<1> QED
  BY <1>1, <1>2, <1>3, <1>4, <1>5, <1>6 DEF MediaInv

\* What the main process keeps on one side.
Keeps(t) == Carries(t) /\ Cardinality(Grants(down'[t])) <= Len(window[t].waiting)

LEMMA GrantsKeep ==
  ASSUME MediaInv, NEW t \in Sides, NEW r \in Seq(Posts), down'[t] = down[t] \o r,
         \A i \in DOMAIN r : r[i].kind # "Grant"
  PROVE  Cardinality(Grants(down'[t])) <= Len(window[t].waiting)
<1>1. down[t] \in Seq(Posts)
  BY InvFacts
<1>2. Grants(down'[t]) = Grants(down[t])
  BY <1>1, GrantsKept
<1> QED
  BY <1>2 DEF MediaInv, GrantsAwaited

LEMMA GrowingKeeps ==
  ASSUME MediaInv, NEW t \in Sides,
         NEW r \in Seq(Posts), NEW d \in Seq([kind : {"Decision", "Close"}]),
         down'[t] = down[t] \o r, net'[t] = net[t] \o d,
         \A i \in DOMAIN r : r[i].kind = "Snapshot"
  PROVE  Keeps(t)
<1>1. Carries(t)
  BY DEF Carries, Grows
<1> QED
  BY <1>1, GrantsKeep DEF Keeps

LEMMA StillKeeps ==
  ASSUME MediaInv, NEW t \in Sides, down'[t] = down[t], net'[t] = net[t]
  PROVE  Keeps(t)
<1> DEFINE r == <<>>
<1>1. r \in Seq(Posts) /\ r \in Seq([kind : {"Decision", "Close"}]) /\ DOMAIN r = {}
  OBVIOUS
<1>2. down[t] \in Seq(Posts) /\ net[t] \in Seq(Messages)
  BY InvFacts
<1>3. down[t] \o r = down[t] /\ net[t] \o r = net[t]
  BY <1>2
<1> HIDE DEF r
<1> QED
  BY <1>1, <1>3, GrowingKeeps

LEMMA SnapshotFacts ==
  ASSUME NEW x \in Roles
  PROVE  /\ Snapshot(x) \in Posts /\ Snapshot(x).kind = "Snapshot" /\ Snapshot(x).role = x
         /\ <<Snapshot(x)>> \in Seq(Posts)
         /\ \A i \in DOMAIN <<Snapshot(x)>> : <<Snapshot(x)>>[i].kind = "Snapshot"
<1> DEFINE e == Snapshot(x)
<1>1. e \in Posts /\ e.kind = "Snapshot" /\ e.role = x
  BY DEF Snapshot, Posts
<1> HIDE DEF e
<1>2. <<e>> \in Seq(Posts) /\ \A i \in DOMAIN <<e>> : <<e>>[i].kind = "Snapshot"
  BY <1>1
<1> QED
  BY <1>1, <1>2 DEF e

LEMMA PassingKeeps ==
  ASSUME MediaInv, NEW t \in Sides, NEW e \in Posts, Brings(Head(net[t]), e),
         net[t] # <<>>, net'[t] = Tail(net[t]), down'[t] = down[t] \o <<e>>
  PROVE  Keeps(t)
<1> DEFINE r == <<e>>
<1>1. Carries(t)
  BY DEF Carries, Passes
<1>2. e.kind # "Grant"
  BY DEF Brings
<1>3. r \in Seq(Posts) /\ \A i \in DOMAIN r : r[i] = e
  OBVIOUS
<1>4. down'[t] = down[t] \o r
  OBVIOUS
<1> HIDE DEF r
<1> QED
  BY <1>1, <1>2, <1>3, <1>4, GrantsKeep DEF Keeps

LEMMA CuttingKeeps ==
  ASSUME MediaInv, NEW t \in Sides, NEW e \in Posts, Ends(e),
         net'[t] = <<>>, down'[t] = down[t] \o <<e>>
  PROVE  Keeps(t) /\ HasEnd(down'[t])
<1> DEFINE r == <<e>>
<1>1. Carries(t)
  BY DEF Carries, Cuts
<1>2. e.kind # "Grant"
  BY DEF Ends
<1>3. r \in Seq(Posts) /\ \A i \in DOMAIN r : r[i] = e
  OBVIOUS
<1>4. down'[t] = down[t] \o r
  OBVIOUS
<1>5. down[t] \in Seq(Posts)
  BY InvFacts
<1>6. HasEnd(down'[t])
  BY <1>5, OnePost
<1> HIDE DEF r
<1> QED
  BY <1>1, <1>2, <1>3, <1>4, <1>6, GrantsKeep DEF Keeps

LEMMA ConnectKeeps ==
  ASSUME MediaInv, NEW s \in Sides, Connect(s)
  PROVE  MediaInv'
<1> DEFINE Budgets == {"connections", "reversals", "outages", "saves", "reloads"}
           r(t) == <<Snapshot("None"), Snapshot(mainRole'[t])>>
<1>1. /\ \A t \in Sides : mainRole[t] = "None" /\ net[t] = <<>>
      /\ mainRole' = [t \in Sides |-> IF t = s THEN "Sharer" ELSE "Viewer"]
      /\ down' = [t \in Sides |-> down[t] \o r(t)]
      /\ net' = net /\ window' = window /\ generations' = generations
      /\ described' = described /\ spent' = [spent EXCEPT !["connections"] = @ + 1]
  BY DEF Connect, Uses
<1>2. /\ mainRole' \in [Sides -> Roles] /\ net \in [Sides -> Seq(Messages)]
      /\ spent \in [Budgets -> Nat]
  BY <1>1 DEF Roles, MediaInv, MediaTypeOK, Messages
<1>3. \A t \in Sides : Keeps(t)
  <2> SUFFICES ASSUME NEW t \in Sides PROVE Keeps(t)
    OBVIOUS
  <2> DEFINE a == Snapshot("None")
             b == Snapshot(mainRole'[t])
             x == <<a, b>>
             d == <<>>
  <2>1. a \in Posts /\ b \in Posts /\ a.kind = "Snapshot" /\ b.kind = "Snapshot"
    BY <1>2, SnapshotFacts DEF Roles
  <2>2. down'[t] = down[t] \o x
    BY <1>1
  <2> HIDE DEF a, b
  <2>3. x \in Seq(Posts) /\ \A i \in DOMAIN x : x[i].kind = "Snapshot"
    BY <2>1
  <2>4. d \in Seq([kind : {"Decision", "Close"}]) /\ net[t] \o d = net[t]
    BY <1>2
  <2> HIDE DEF x, d
  <2> QED
    BY <1>1, <2>2, <2>3, <2>4, GrowingKeeps
<1>4. LastingRoles
  BY <1>1 DEF LastingRoles
<1>5. \A t \in Sides : HasClose(net'[t]) => mainRole'[Peer(t)] = "None"
  BY <1>1 DEF HasClose
<1>6. /\ DOMAIN net' = Sides /\ DOMAIN down' = Sides
      /\ net' = [t \in Sides |-> net'[t]] /\ down' = [t \in Sides |-> down'[t]]
  BY <1>1, <1>2
<1>7. spent' \in [Budgets -> Nat]
  BY <1>1, <1>2
<1> QED
  BY <1>1, <1>2, <1>3, <1>4, <1>5, <1>6, <1>7, MainStepKeeps DEF Keeps

LEMMA DisconnectKeeps ==
  ASSUME MediaInv, NEW s \in Sides, Disconnect(s)
  PROVE  MediaInv'
<1> DEFINE p == Peer(s)
           e == Snapshot("None")
           c == [kind |-> "Close"]
<1>0. /\ p \in Sides /\ p # s /\ Peer(p) = s /\ \A t \in Sides : t = s \/ t = p
      /\ mainRole \in [Sides -> Roles] /\ net \in [Sides -> Seq(Messages)]
      /\ down \in [Sides -> Seq(Posts)]
  BY Pair DEF MediaInv, MediaTypeOK, Messages
<1>1. e \in Posts /\ Ends(e)
  BY SnapshotFacts DEF Roles, Ends
<1>2. /\ mainRole' = [mainRole EXCEPT ![s] = "None"]
      /\ net' = [net EXCEPT ![s] = <<>>, ![p] =
                   IF mainRole[p] = "None" THEN @ ELSE Append(@, c)]
      /\ down' = [down EXCEPT ![s] = @ \o <<e>>]
      /\ window' = window /\ generations' = generations
      /\ described' = described /\ spent' = spent
  BY DEF Disconnect, Tells
<1> HIDE DEF p, e
<1>3. /\ mainRole' \in [Sides -> Roles] /\ mainRole'[s] = "None" /\ mainRole'[p] = mainRole[p]
      /\ net'[s] = <<>> /\ down'[s] = down[s] \o <<e>> /\ down'[p] = down[p]
      /\ net'[p] = IF mainRole[p] = "None" THEN net[p] ELSE Append(net[p], c)
  BY <1>0, <1>2 DEF Roles
<1>4. Keeps(s) /\ HasEnd(down'[s])
  BY <1>1, <1>3, CuttingKeeps
<1>5. Keeps(p) /\ (mainRole[p] # "None" => HasClose(net'[p]))
  <2>1. CASE mainRole[p] = "None"
    BY <1>0, <1>3, <2>1, StillKeeps
  <2>2. CASE mainRole[p] # "None"
    <3> DEFINE d == <<c>>
               r == <<>>
    <3>1. d \in Seq([kind : {"Decision", "Close"}]) /\ 1 \in DOMAIN d /\ d[1].kind = "Close"
      OBVIOUS
    <3>2. net'[p] = net[p] \o d
      BY <1>0, <1>3, <2>2
    <3>3. r \in Seq(Posts) /\ DOMAIN r = {} /\ down'[p] = down[p] \o r
      BY <1>0, <1>3
    <3> HIDE DEF d, r
    <3>4. Keeps(p)
      BY <1>0, <3>1, <3>2, <3>3, GrowingKeeps
    <3>5. HasClose(d) /\ d \in Seq(Messages)
      BY <3>1, NoSignals DEF HasClose
    <3>6. net[p] \in Seq(Messages)
      BY <1>0
    <3>7. HasClose(net'[p])
      BY <3>2, <3>5, <3>6, HasKept
    <3> QED
      BY <3>4, <3>7
  <2> QED
    BY <2>1, <2>2
<1>6. LastingRoles
  BY <1>0, <1>4, <1>5 DEF LastingRoles, p
<1>7. \A t \in Sides : HasClose(net'[t]) => mainRole'[Peer(t)] = "None"
  <2>1. ~HasClose(net'[s])
    BY <1>3 DEF HasClose
  <2> QED
    BY <1>0, <1>3, <2>1
<1>8. \A t \in Sides : Keeps(t)
  BY <1>0, <1>4, <1>5
<1>9. /\ DOMAIN net' = Sides /\ DOMAIN down' = Sides
      /\ net' = [t \in Sides |-> net'[t]] /\ down' = [t \in Sides |-> down'[t]]
  BY <1>0, <1>2
<1>10. spent' \in [{"connections", "reversals", "outages", "saves", "reloads"} -> Nat]
  BY <1>2 DEF MediaInv, MediaTypeOK
<1> QED
  BY <1>2, <1>3, <1>6, <1>7, <1>8, <1>9, <1>10, MainStepKeeps DEF Keeps

LEMMA AcceptKeeps ==
  ASSUME MediaInv, NEW s \in Sides, AcceptReversal(s)
  PROVE  MediaInv'
<1> DEFINE p == Peer(s)
           x == OppositeRole(mainRole[s])
           e == Snapshot(x)
           d == <<[kind |-> "Decision"]>>
<1>0. /\ p \in Sides /\ p # s /\ Peer(p) = s /\ \A t \in Sides : t = s \/ t = p
      /\ mainRole \in [Sides -> Roles] /\ net \in [Sides -> Seq(Messages)]
      /\ down \in [Sides -> Seq(Posts)]
  BY Pair DEF MediaInv, MediaTypeOK, Messages
<1>1. x \in Roles /\ x # "None"
  BY DEF OppositeRole, Roles
<1>2. <<e>> \in Seq(Posts) /\ \A i \in DOMAIN <<e>> : <<e>>[i].kind = "Snapshot"
  BY <1>1, SnapshotFacts
<1>3. /\ mainRole' = [mainRole EXCEPT ![s] = x]
      /\ net' = IF "None" \in {mainRole[s], mainRole[p]} THEN net
                ELSE [net EXCEPT ![p] = @ \o d]
      /\ mainRole[s] # "None"
      /\ \A i \in DOMAIN net[p] : net[p][i].kind \notin {"Decision", "Close"}
      /\ window' = window /\ generations' = generations
      /\ described' = described /\ spent' = [spent EXCEPT !["reversals"] = @ + 1]
  BY DEF AcceptReversal, Toggle, Uses, Writes
<1>4. mainRole' \in [Sides -> Roles] /\ mainRole'[s] = x /\ mainRole'[p] = mainRole[p]
  BY <1>0, <1>1, <1>3
<1>5. down' = [down EXCEPT ![s] = @ \o <<e>>]
  <2>1. Toggle(s)
    BY DEF AcceptReversal
  <2>2. down' = [down EXCEPT ![s] = @ \o <<Snapshot(mainRole'[s])>>]
    BY <2>1 DEF Toggle, Tells
  <2> QED
    BY <1>4, <2>2
<1>6. d \in Seq([kind : {"Decision", "Close"}]) /\ \A i \in DOMAIN d : d[i].kind = "Decision"
  OBVIOUS
<1> HIDE DEF p, x, e, d
<1>7. /\ down'[s] = down[s] \o <<e>> /\ down'[p] = down[p] /\ net'[s] = net[s]
      /\ net'[p] = net[p] \/ net'[p] = net[p] \o d
  BY <1>0, <1>3, <1>5
<1> DEFINE r == <<e>>
           n == <<>>
<1>8. Keeps(s)
  <2>1. n \in Seq([kind : {"Decision", "Close"}])
    OBVIOUS
  <2>2. net'[s] = net[s] \o n /\ down'[s] = down[s] \o r
    BY <1>0, <1>7
  <2>3. r \in Seq(Posts) /\ \A i \in DOMAIN r : r[i].kind = "Snapshot"
    BY <1>2
  <2> HIDE DEF n, r
  <2> QED
    BY <2>1, <2>2, <2>3, GrowingKeeps
<1>9. Keeps(p)
  <2>1. CASE net'[p] = net[p]
    BY <1>0, <1>7, <2>1, StillKeeps
  <2>2. CASE net'[p] = net[p] \o d
    <3>1. n \in Seq(Posts) /\ DOMAIN n = {} /\ down'[p] = down[p] \o n
      BY <1>0, <1>7
    <3> HIDE DEF n
    <3> QED
      BY <1>0, <1>6, <2>2, <3>1, GrowingKeeps
  <2> QED
    BY <1>7, <2>1, <2>2
<1>10. \A t \in Sides : HasClose(net'[t]) => mainRole'[Peer(t)] = "None"
  <2>1. HasClose(net'[s]) => mainRole'[p] = "None"
    BY <1>4, <1>7 DEF MediaInv, CloseMeans, p
  <2>2. ~HasClose(net'[p])
    <3>1. \A i \in DOMAIN net[p] : net[p][i].kind # "Close"
      BY <1>3
    <3>2. CASE net'[p] = net[p]
      BY <3>1, <3>2 DEF HasClose
    <3>3. CASE net'[p] = net[p] \o d
      <4> DEFINE q == net[p]
                 y == q \o d
      <4>1. q \in Seq(Messages) /\ d \in Seq(Messages)
        BY <1>0, <1>6, NoSignals
      <4> HIDE DEF q
      <4>2. /\ Len(q) \in Nat /\ Len(d) \in Nat
            /\ DOMAIN y = 1 .. Len(q) + Len(d)
            /\ DOMAIN q = 1 .. Len(q) /\ DOMAIN d = 1 .. Len(d)
            /\ \A k \in 1 .. Len(q) : y[k] = q[k]
            /\ \A k \in 1 .. Len(d) : y[Len(q) + k] = d[k]
        BY <4>1, ConcatFacts
      <4> HIDE DEF y
      <4>3. ASSUME NEW i \in DOMAIN y PROVE y[i].kind # "Close"
        <5>1. CASE i \in 1 .. Len(q)
          BY <3>1, <4>2, <5>1 DEF q
        <5>2. CASE i \notin 1 .. Len(q)
          <6>1. i - Len(q) \in 1 .. Len(d) /\ Len(q) + (i - Len(q)) = i
            BY <4>2, <5>2
          <6>2. y[Len(q) + (i - Len(q))] = d[i - Len(q)]
            BY <4>2, <6>1
          <6> QED
            BY <1>6, <4>2, <6>1, <6>2
        <5> QED
          BY <5>1, <5>2
      <4>4. ~HasClose(y)
        BY <4>3 DEF HasClose
      <4> QED
        BY <3>3, <4>4 DEF y, q
    <3> QED
      BY <1>7, <3>2, <3>3
  <2> QED
    BY <1>0, <2>1, <2>2 DEF p
<1>11. LastingRoles
  <2>1. \A t \in Sides : mainRole[t] # "None" => mainRole'[t] # "None"
    BY <1>0, <1>1, <1>4
  <2>2. \A t \in Sides : Peer(t) \in Sides
    BY Pair
  <2> QED
    BY <2>1, <2>2 DEF LastingRoles
<1>12. \A t \in Sides : Keeps(t)
  BY <1>0, <1>8, <1>9
<1>13. /\ DOMAIN net' = Sides /\ DOMAIN down' = Sides
       /\ net' = [t \in Sides |-> net'[t]] /\ down' = [t \in Sides |-> down'[t]]
  BY <1>0, <1>3, <1>5
<1>14. spent' \in [{"connections", "reversals", "outages", "saves", "reloads"} -> Nat]
  BY <1>3 DEF MediaInv, MediaTypeOK
<1> QED
  BY <1>3, <1>4, <1>10, <1>11, <1>12, <1>13, <1>14, MainStepKeeps DEF Keeps

LEMMA ArrivesKeeps ==
  ASSUME MediaInv, NEW s \in Sides, Arrives(s),
         NEW e \in Posts, Brings(Head(net[s]), e), down' = [down EXCEPT ![s] = @ \o <<e>>],
         mainRole' \in [Sides -> Roles], mainRole'[Peer(s)] = mainRole[Peer(s)],
         \/ mainRole'[s] # "None"
         \/ Head(net[s]).kind = "Close"
  PROVE  MediaInv'
<1> DEFINE p == Peer(s)
           q == net[s]
<1>0. /\ p \in Sides /\ p # s /\ Peer(p) = s /\ \A t \in Sides : t = s \/ t = p
      /\ net \in [Sides -> Seq(Messages)] /\ down \in [Sides -> Seq(Posts)]
      /\ q \in Seq(Messages)
  BY Pair DEF MediaInv, MediaTypeOK, Messages
<1>1. /\ mainRole[s] # "None" /\ q # <<>>
      /\ net' = [net EXCEPT ![s] = Tail(@)]
      /\ window' = window /\ generations' = generations
      /\ described' = described /\ spent' = spent
  BY DEF Arrives
<1>2. /\ net'[s] = Tail(q) /\ net'[p] = net[p]
      /\ down'[s] = down[s] \o <<e>> /\ down'[p] = down[p]
  BY <1>0, <1>1
<1>3. Keeps(s)
  BY <1>1, <1>2, PassingKeeps
<1>4. Keeps(p)
  BY <1>0, <1>2, StillKeeps
<1>5. HasClose(q) => mainRole[p] = "None"
  BY DEF MediaInv, CloseMeans
<1>6. HasClose(net[p]) => mainRole[s] = "None"
  BY <1>0 DEF MediaInv, CloseMeans
<1> HIDE DEF p, q
<1>7. Head(q).kind = "Close" \/ HasClose(Tail(q)) => HasClose(q)
  <2>1. /\ Head(q) = q[1] /\ 1 \in DOMAIN q /\ Len(q) \in Nat
        /\ DOMAIN Tail(q) = 1 .. Len(q) - 1 /\ DOMAIN q = 1 .. Len(q)
        /\ \A i \in 1 .. Len(q) - 1 : Tail(q)[i] = q[i + 1]
    BY <1>0, <1>1, TailFacts
  <2>2. \A i \in DOMAIN Tail(q) : i + 1 \in DOMAIN q /\ Tail(q)[i] = q[i + 1]
    BY <2>1
  <2>3. HasClose(Tail(q)) => HasClose(q)
    BY <2>2 DEF HasClose
  <2>4. Head(q).kind = "Close" => HasClose(q)
    BY <2>1 DEF HasClose
  <2> QED
    BY <2>3, <2>4
<1>8. \A t \in Sides : HasClose(net'[t]) => mainRole'[Peer(t)] = "None"
  <2>1. HasClose(net'[s]) => mainRole'[p] = "None"
    BY <1>2, <1>5, <1>7 DEF p
  <2>2. ~HasClose(net'[p])
    BY <1>1, <1>2, <1>6
  <2> QED
    BY <1>0, <2>1, <2>2 DEF p
<1>9. LastingRoles
  <2>1. mainRole[p] # "None" => mainRole'[s] # "None" /\ mainRole'[p] # "None"
    BY <1>5, <1>7 DEF p, q
  <2> QED
    BY <1>0, <2>1 DEF LastingRoles, p
<1>10. \A t \in Sides : Keeps(t)
  BY <1>0, <1>3, <1>4
<1>11. /\ DOMAIN net' = Sides /\ DOMAIN down' = Sides
       /\ net' = [t \in Sides |-> net'[t]] /\ down' = [t \in Sides |-> down'[t]]
  BY <1>0, <1>1
<1>12. spent' \in [{"connections", "reversals", "outages", "saves", "reloads"} -> Nat]
  BY <1>1 DEF MediaInv, MediaTypeOK
<1> QED
  BY <1>1, <1>8, <1>9, <1>10, <1>11, <1>12, MainStepKeeps DEF Keeps

LEMMA HandlingKeeps ==
  ASSUME MediaInv, NEW s \in Sides, Handling(s)
  PROVE  MediaInv'
<1> DEFINE m == Head(net[s])
<1>0. /\ mainRole \in [Sides -> Roles] /\ Peer(s) \in Sides /\ Peer(s) # s
      /\ net[s] \in Seq(Messages)
  BY InvFacts DEF MediaInv, MediaTypeOK
<1>1. Arrives(s) /\ net[s] # <<>> /\ mainRole[s] # "None"
  BY DEF Handling, HandleReversalDecision, HandleMediaSignal, HandleClose, Arrives
<1>2. m \in Messages
  BY <1>0, <1>1, TailFacts
<1> HIDE DEF m
<1>3. CASE HandleReversalDecision(s)
  <2> DEFINE x == OppositeRole(mainRole[s])
             e == Snapshot(x)
  <2>1. m.kind = "Decision" /\ Toggle(s)
    BY <1>3 DEF HandleReversalDecision, m
  <2>2. mainRole' = [mainRole EXCEPT ![s] = x]
    BY <2>1 DEF Toggle
  <2>3. x \in Roles /\ x # "None"
    BY DEF OppositeRole, Roles
  <2> HIDE DEF x
  <2>4. mainRole' \in [Sides -> Roles] /\ mainRole'[s] = x /\ mainRole'[Peer(s)] = mainRole[Peer(s)]
    BY <1>0, <2>2, <2>3
  <2>5. down' = [down EXCEPT ![s] = @ \o <<e>>]
    BY <2>1, <2>4 DEF Toggle, Tells
  <2>6. e \in Posts /\ e.kind = "Snapshot"
    BY <2>3, SnapshotFacts
  <2> HIDE DEF e
  <2>7. Brings(m, e)
    BY <2>1, <2>6 DEF Brings
  <2> QED
    BY <1>1, <2>3, <2>4, <2>5, <2>6, <2>7, ArrivesKeeps DEF m
<1>4. CASE HandleMediaSignal(s)
  <2> DEFINE e == [kind |-> "Signal", signal |-> m]
  <2>1. /\ m.kind \in {"Offer", "Answer", "Candidate"} /\ mainRole' = mainRole
        /\ down' = [down EXCEPT ![s] = @ \o <<e>>]
    BY <1>4 DEF HandleMediaSignal, Tells, m
  <2>2. m \in Signals
    BY <1>2, <2>1, MessageFacts
  <2>3. e \in Posts /\ e.kind = "Signal" /\ e.signal = m
    BY <2>2 DEF Posts
  <2> HIDE DEF e
  <2>4. Brings(m, e)
    BY <2>1, <2>3 DEF Brings
  <2> QED
    BY <1>0, <1>1, <2>1, <2>3, <2>4, ArrivesKeeps DEF m
<1>5. CASE HandleClose(s)
  <2> DEFINE e == Snapshot("None")
  <2>1. /\ m.kind = "Close" /\ mainRole' = [mainRole EXCEPT ![s] = "None"]
        /\ down' = [down EXCEPT ![s] = @ \o <<e>>]
    BY <1>5 DEF HandleClose, Tells, m
  <2>2. e \in Posts /\ Ends(e) /\ e.kind = "Snapshot"
    BY SnapshotFacts DEF Roles, Ends
  <2> HIDE DEF e
  <2>3. Brings(m, e)
    BY <2>1, <2>2 DEF Brings
  <2>4. mainRole' \in [Sides -> Roles] /\ mainRole'[Peer(s)] = mainRole[Peer(s)]
    BY <1>0, <2>1 DEF Roles
  <2> QED
    BY <1>1, <2>1, <2>2, <2>3, <2>4, ArrivesKeeps DEF m
<1> QED
  BY <1>3, <1>4, <1>5 DEF Handling

\* The posts that come without a message of the other side.
LEMMA PostsKeep ==
  ASSUME MediaInv, NEW s \in Sides,
         PublishSnapshot(s) \/ \E ok \in BOOLEAN : GrantCapture(s, ok)
  PROVE  MediaInv'
<1> DEFINE p == Peer(s)
<1>0. /\ p \in Sides /\ p # s /\ \A t \in Sides : t = s \/ t = p
      /\ net \in [Sides -> Seq(Messages)] /\ down \in [Sides -> Seq(Posts)]
      /\ mainRole \in [Sides -> Roles] /\ Len(window[s].waiting) \in Nat
      /\ spent \in [{"connections", "reversals", "outages", "saves", "reloads"} -> Nat]
  BY Pair, InvFacts DEF MediaInv, MediaTypeOK, Messages
<1>1. /\ mainRole' = mainRole /\ net' = net /\ window' = window
      /\ generations' = generations /\ described' = described /\ spent' = spent
  BY DEF PublishSnapshot, GrantCapture
<1> HIDE DEF p
<1>2. \E e \in Posts : down' = [down EXCEPT ![s] = @ \o <<e>>] /\ Keeps(s)
  <2>1. CASE PublishSnapshot(s)
    <3> DEFINE e == Snapshot(mainRole[s])
               r == <<e>>
               n == <<>>
    <3>1. down' = [down EXCEPT ![s] = @ \o r]
      BY <2>1 DEF PublishSnapshot, Tells
    <3>2. e \in Posts /\ r \in Seq(Posts) /\ \A i \in DOMAIN r : r[i].kind = "Snapshot"
      BY <1>0, SnapshotFacts
    <3> HIDE DEF e
    <3>3. n \in Seq([kind : {"Decision", "Close"}]) /\ net'[s] = net[s] \o n
      BY <1>0, <1>1
    <3>4. down'[s] = down[s] \o r
      BY <1>0, <3>1
    <3> HIDE DEF n, r
    <3>5. Keeps(s)
      BY <3>2, <3>3, <3>4, GrowingKeeps
    <3> QED
      BY <3>1, <3>2, <3>5 DEF r
  <2>2. ASSUME NEW ok \in BOOLEAN, GrantCapture(s, ok)
        PROVE  \E e \in Posts : down' = [down EXCEPT ![s] = @ \o <<e>>] /\ Keeps(s)
    <3> DEFINE e == Grant(ok)
               r == <<e>>
               n == <<>>
               q == down[s]
               x == q \o r
    <3>1. /\ down' = [down EXCEPT ![s] = @ \o r]
          /\ Cardinality(Grants(q)) < Len(window[s].waiting)
      BY <2>2 DEF GrantCapture, Tells
    <3>2. e \in Posts /\ e.kind = "Grant"
      BY DEF Grant, Posts
    <3>3. n \in Seq([kind : {"Decision", "Close"}]) /\ net'[s] = net[s] \o n
      BY <1>0, <1>1
    <3>4. down'[s] = x /\ q \in Seq(Posts)
      BY <1>0, <3>1
    <3> HIDE DEF e, n, q
    <3>5. /\ r \in Seq(Posts) /\ DOMAIN r = {1} /\ r[1] = e /\ Len(r) = 1
      BY <3>2
    <3> HIDE DEF r
    <3>6. /\ Len(q) \in Nat /\ DOMAIN x = 1 .. Len(q) + 1 /\ DOMAIN q = 1 .. Len(q)
          /\ \A k \in 1 .. Len(q) : x[k] = q[k]
          /\ x[Len(q) + 1] = e
      <4>1. /\ Len(q) \in Nat /\ Len(r) \in Nat /\ DOMAIN x = 1 .. Len(q) + Len(r)
            /\ DOMAIN q = 1 .. Len(q) /\ \A k \in 1 .. Len(q) : x[k] = q[k]
            /\ \A k \in 1 .. Len(r) : x[Len(q) + k] = r[k]
        <5>1. q \in Seq(Posts) /\ r \in Seq(Posts)
          BY <3>4, <3>5
        <5> QED
          BY <5>1, ConcatFacts
      <4>2. 1 \in 1 .. Len(r)
        BY <3>5
      <4>3. x[Len(q) + 1] = r[1]
        BY <4>1, <4>2
      <4> HIDE DEF x
      <4> QED
        BY <3>5, <4>1, <4>3
    <3> HIDE DEF x
    <3>7. Grants(x) = Grants(q) \cup {Len(q) + 1}
      <4>1. ASSUME NEW i \in Grants(x) PROVE i \in Grants(q) \cup {Len(q) + 1}
        BY <3>6 DEF Grants
      <4>2. ASSUME NEW i \in Grants(q) PROVE i \in Grants(x)
        BY <3>6 DEF Grants
      <4>3. Len(q) + 1 \in Grants(x)
        BY <3>2, <3>6 DEF Grants
      <4> QED
        BY <4>1, <4>2, <4>3
    <3>8. IsFiniteSet(Grants(q)) /\ Cardinality(Grants(q)) \in Nat
      BY <3>4, GrantsFinite
    <3>9. Cardinality(Grants(x)) <= Cardinality(Grants(q)) + 1
      <4>1. Cardinality(Grants(x)) = IF Len(q) + 1 \in Grants(q) THEN Cardinality(Grants(q))
                                     ELSE Cardinality(Grants(q)) + 1
        BY <3>7, <3>8, FS_AddElement
      <4> QED
        BY <3>8, <4>1
    <3>10. Cardinality(Grants(x)) \in Nat
      <4>1. x \in Seq(Posts)
        BY <3>4, <3>5 DEF x
      <4> QED
        BY <4>1, GrantsFinite
    <3>11. Cardinality(Grants(down'[s])) <= Len(window[s].waiting)
      <4> DEFINE a == Cardinality(Grants(q))
                 b == Cardinality(Grants(x))
                 c == Len(window[s].waiting)
      <4>1. a < c /\ b <= a + 1 /\ a \in Nat /\ b \in Nat /\ c \in Nat
        BY <1>0, <3>1, <3>8, <3>9, <3>10
      <4> HIDE DEF a, b, c
      <4>2. b <= c
        BY <4>1
      <4>3. down'[s] = x
        BY <3>4
      <4> QED
        BY <4>2, <4>3 DEF b, c
    <3>12. Carries(s)
      <4>1. \A i \in DOMAIN r : r[i].kind \in {"Snapshot", "Grant"}
        BY <3>2, <3>5
      <4>2. down'[s] = down[s] \o r
        BY <3>4 DEF x, q
      <4> QED
        BY <3>3, <3>5, <4>1, <4>2 DEF Carries, Grows
    <3> QED
      BY <3>1, <3>2, <3>11, <3>12 DEF Keeps, r
  <2> QED
    BY <2>1, <2>2
<1>3. PICK e \in Posts : down' = [down EXCEPT ![s] = @ \o <<e>>] /\ Keeps(s)
  BY <1>2
<1>4. down'[p] = down[p] /\ net'[p] = net[p]
  BY <1>0, <1>1, <1>3
<1>5. \A t \in Sides : Keeps(t)
  BY <1>0, <1>3, <1>4, StillKeeps
<1>6. LastingRoles
  BY <1>1 DEF LastingRoles
<1>7. \A t \in Sides : HasClose(net'[t]) => mainRole'[Peer(t)] = "None"
  BY <1>1 DEF MediaInv, CloseMeans
<1>8. /\ DOMAIN net' = Sides /\ DOMAIN down' = Sides
      /\ net' = [t \in Sides |-> net'[t]] /\ down' = [t \in Sides |-> down'[t]]
  BY <1>0, <1>1, <1>3
<1> QED
  BY <1>0, <1>1, <1>5, <1>6, <1>7, <1>8, MainStepKeeps DEF Keeps

LEMMA MediaStepKeeps ==
  MediaInv /\ [MediaNext]_mediaVars => MediaInv'
<1> SUFFICES ASSUME MediaInv, [MediaNext]_mediaVars PROVE MediaInv'
  OBVIOUS
<1>1. CASE UNCHANGED mediaVars
  <2>1. /\ mainRole' = mainRole /\ net' = net /\ down' = down /\ window' = window
        /\ generations' = generations /\ described' = described /\ spent' = spent
    BY <1>1 DEF mediaVars
  <2>2. \A t \in Sides : Keeps(t)
    BY <2>1, StillKeeps
  <2>3. LastingRoles
    BY <2>1 DEF LastingRoles
  <2>4. \A t \in Sides : HasClose(net'[t]) => mainRole'[Peer(t)] = "None"
    BY <2>1 DEF MediaInv, CloseMeans
  <2>5. /\ net \in [Sides -> Seq(Messages)] /\ down \in [Sides -> Seq(Posts)]
        /\ mainRole \in [Sides -> Roles]
        /\ spent \in [{"connections", "reversals", "outages", "saves", "reloads"} -> Nat]
    BY DEF MediaInv, MediaTypeOK, Messages
  <2>6. /\ DOMAIN net' = Sides /\ DOMAIN down' = Sides
        /\ net' = [t \in Sides |-> net'[t]] /\ down' = [t \in Sides |-> down'[t]]
    BY <2>1, <2>5
  <2> QED
    BY <2>1, <2>2, <2>3, <2>4, <2>5, <2>6, MainStepKeeps DEF Keeps
<1>2. ASSUME NEW s \in Sides, Reading(s) PROVE MediaInv'
  BY <1>2, ReadSnapshotKeeps, ReadSignalKeeps, ReadReplyKeeps, ReadGrantKeeps DEF Reading
<1>3. ASSUME NEW s \in Sides, GrantCapture(s, TRUE) \/ GrantCapture(s, FALSE) PROVE MediaInv'
  BY <1>3, PostsKeep
<1>4. ASSUME NEW s \in Sides,
             \/ OperationSettles(s) \/ OperationFails(s) \/ GatherCandidate(s)
             \/ PathConnects(s) \/ PathBreaks(s) \/ RestartTimeout(s)
             \/ Render(s) \/ SaveConfiguration(s)
      PROVE  MediaInv'
  BY <1>4, ActingKeeps
<1> QED
  BY <1>1, <1>2, <1>3, <1>4, HandlingKeeps, ReloadKeeps, ConnectKeeps, DisconnectKeeps,
     AcceptKeeps, PostsKeep DEF MediaNext

LEMMA MediaInvariant ==
  MediaSpec => []MediaInv
BY MediaInitInv, MediaStepKeeps, PTL DEF MediaSpec

\* Every variable of a media session has its type, whatever the bounds are and
\* whether or not captures and WebRTC operations fail.
THEOREM MediaTyped ==
  MediaSpec => []MediaTypeOK
<1>1. MediaInv => MediaTypeOK
  BY DEF MediaInv
<1> QED
  BY <1>1, MediaInvariant, PTL

\* A peer connection carries a capture only while its window has the role of the
\* sharer: the capture asked for is given to the connection it was asked for, and
\* a connection is closed whenever the role changes (startSharing, synchronize).
THEOREM OnlySharersSendHolds ==
  MediaSpec => []OnlySharersSend
<1>1. MediaInv => OnlySharersSend
  BY MediaInvImplies
<1> QED
  BY <1>1, MediaInvariant, PTL

\* A restart timer runs only in a window that shares and has had an answer: a
\* stop clears it with the connection (stopMediaResources, lines 341-345).
THEOREM RestartsOwnConnectionHolds ==
  MediaSpec => []RestartsOwnConnection
<1>1. MediaInv => RestartsOwnConnection
  BY MediaInvImplies
<1> QED
  BY <1>1, MediaInvariant, PTL

\* Descriptions and candidates of different generations are never mixed, however
\* many connections, reversals, restarts, failures and reloaded windows there are
\* (consumeSignal, sendOrQueueLocalSignal and the ordered connection).
THEOREM SignalsInOrderHolds ==
  MediaSpec => []SignalsInOrder
<1>1. MediaInv => SignalsInOrder
  BY MediaInvImplies
<1> QED
  BY <1>1, MediaInvariant, PTL

=============================================================================
