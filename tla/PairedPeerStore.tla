-------------------------- MODULE PairedPeerStore --------------------------
(***************************************************************************)
(* The trust the responder grants (PairedPeerStore.ts): one entry for each *)
(* requesting computer and direction, good for thirty days, kept in memory *)
(* and written to a file after every change.  remember and clear change    *)
(* the memory at once and then wait for the file; the file is read when    *)
(* the application starts.                                                 *)
(***************************************************************************)
EXTENDS AtomicJsonStore

CONSTANTS
  Devices,        \* computers that ask for a connection
  Intents,        \* directions they ask for
  TrustDuration,  \* life of an entry, in ticks
  MaxTime,        \* bound: the clock stops here
  MayFail         \* bound: whether file operations may fail

ASSUME TrustAssumption ==
  /\ TrustDuration \in Nat \ {0}
  /\ MaxTime \in Nat \ {0}
  /\ MayFail \in BOOLEAN

VARIABLES
  peers,      \* #peers: expiry of each entry, 0 for none
  now,        \* the clock
  service,    \* state of the application around the store
  granted,    \* history: expiry of the last grant of each entry
  clearing,   \* history: entries the call c was made to remove and nobody
              \* granted again
  cleared,    \* history: entries whose removal was reported done since they
              \* were last granted
  unsaved,    \* history: entries removed from memory whose removal no write
              \* has brought to the file since
  failed      \* history: a write has failed or was cut off

historyVars == <<granted, clearing, cleared, unsaved, failed>>
trustVars == <<peers, now, service, historyVars>>
vars == <<storeVars, trustVars>>

Keys == Devices \X Intents
NoPeers == [k \in Keys |-> 0]

\* The file holds an expiry for each entry.
ASSUME ValueAssumption == Value = [Keys -> 0 .. MaxTime + TrustDuration]

TypeOK ==
  /\ StoreTypeOK
  /\ peers \in [Keys -> 0 .. MaxTime + TrustDuration]
  /\ now \in 1 .. MaxTime
  /\ service \in {"Stopped", "Loading", "Ready", "Failed"}
  /\ granted \in [Keys -> 0 .. MaxTime + TrustDuration]
  /\ clearing \in [Calls -> SUBSET Keys]
  /\ cleared \subseteq Keys
  /\ unsaved \subseteq Keys
  /\ failed \in BOOLEAN

Init ==
  /\ StoreInit
  /\ peers = NoPeers
  /\ now = 1
  /\ service = "Stopped"
  /\ granted = NoPeers
  /\ clearing = [c \in Calls |-> {}]
  /\ cleared = {}
  /\ unsaved = {}
  /\ failed = FALSE

-----------------------------------------------------------------------------

\* isTrusted, for the key the entry was granted to.
Trusted(k) == peers[k] > now

\* Slip: reading an entry counts as using it.
ValidRenewed(p) == [k \in Keys |-> IF p[k] > now THEN now + TrustDuration ELSE 0]

\* Entries that validateRecord and the expiry let through.
Valid(p) == [k \in Keys |-> IF p[k] > now /\ p[k] <= now + TrustDuration THEN p[k] ELSE 0]

\* load: a file that is no JSON stops the start of the service, and dropped
\* entries are written back before it is ready.
Load ==
  /\ service = "Stopped"
  /\ UNCHANGED <<now, historyVars>>
  /\ \/ /\ Found.state \in {"Empty", "Torn"}
        /\ service' = "Failed"
        /\ UNCHANGED <<storeVars, peers>>
     \/ /\ Found.state = "Missing"
        /\ service' = "Ready"
        /\ peers' = NoPeers
        /\ UNCHANGED storeVars
     \/ /\ Found.state = "Whole"
        /\ peers' = Valid(Found.value)
        /\ IF peers' = Found.value
           THEN service' = "Ready" /\ UNCHANGED storeVars
           ELSE service' = "Loading" /\ \E c \in Calls : Write(c, peers')

Expiry == now + TrustDuration

\* Slip: the file gets the entries from before the grant.
RememberWritesOld(k, c) ==
  /\ service = "Ready"
  /\ peers' = [peers EXCEPT ![k] = Expiry]
  /\ Write(c, peers)
  /\ granted' = [granted EXCEPT ![k] = Expiry]
  /\ clearing' = [d \in Calls |-> IF d = c THEN {} ELSE clearing[d] \ {k}]
  /\ cleared' = cleared \ {k}
  /\ unsaved' = unsaved \ {k}
  /\ UNCHANGED <<now, service, failed>>

\* rememberInbound: a grant renews the entry.
RememberInbound(k, c) ==
  /\ service = "Ready"
  /\ peers' = [peers EXCEPT ![k] = Expiry]
  /\ Write(c, peers')
  /\ granted' = [granted EXCEPT ![k] = Expiry]
  /\ clearing' = [d \in Calls |-> IF d = c THEN {} ELSE clearing[d] \ {k}]
  /\ cleared' = cleared \ {k}
  /\ unsaved' = unsaved \ {k}
  /\ UNCHANGED <<now, service, failed>>

\* The entries of a computer, of whatever direction.
OfDevice(d) == {k \in Keys : k[1] = d}

\* Slip: the file gets the entries from before the removal.
ClearWritesOld(d, c) ==
  LET keys == {k \in OfDevice(d) : peers[k] # 0} IN
  /\ service = "Ready"
  /\ UNCHANGED <<now, service, granted, failed>>
  /\ \/ /\ keys # {}
        /\ peers' = [k \in Keys |-> IF k \in keys THEN 0 ELSE peers[k]]
        /\ Write(c, peers)
        /\ clearing' = [clearing EXCEPT ![c] = OfDevice(d)]
        /\ unsaved' = unsaved \cup keys
        /\ UNCHANGED cleared
     \/ /\ keys = {}
        /\ cleared' = cleared \cup OfDevice(d)
        /\ UNCHANGED <<storeVars, peers, clearing, unsaved>>

\* clear: every entry of the device goes, expired ones too.  When the memory
\* has none there is nothing to write, and the clear is done at once.
Clear(d, c) ==
  LET keys == {k \in OfDevice(d) : peers[k] # 0} IN
  /\ service = "Ready"
  /\ UNCHANGED <<now, service, granted, failed>>
  /\ \/ /\ keys # {}
        /\ peers' = [k \in Keys |-> IF k \in keys THEN 0 ELSE peers[k]]
        /\ Write(c, peers')
        /\ clearing' = [clearing EXCEPT ![c] = OfDevice(d)]
        /\ unsaved' = unsaved \cup keys
        /\ UNCHANGED cleared
     \/ /\ keys = {}
        /\ cleared' = cleared \cup OfDevice(d)
        /\ UNCHANGED <<storeVars, peers, clearing, unsaved>>

\* A step of a write; the rename brings to the file whatever is no longer in
\* the text.
StoreOperation(c) ==
  /\ FileOperation(c)
  /\ unsaved' = IF call'[c] = "Done" THEN {k \in unsaved : value[c][k] # 0} ELSE unsaved
  /\ UNCHANGED <<peers, now, service, granted, clearing, cleared, failed>>

\* The awaited write is over.  A clear is reported done when its own write
\* succeeded; load goes on.
Finish(c) ==
  /\ Return(c)
  /\ service' = CASE service = "Loading" /\ call[c] = "Done" -> "Ready"
                  [] service = "Loading" /\ call[c] = "Failed" -> "Failed"
                  [] OTHER -> service
  /\ cleared' = IF call[c] = "Done"
                THEN cleared \cup clearing[c]
                ELSE cleared
  /\ failed' = (failed \/ call[c] = "Failed")
  /\ UNCHANGED <<peers, now, granted, clearing, unsaved>>

\* The application ends, with or without waiting for its writes.
Stop ==
  /\ service # "Stopped"
  /\ service' = "Stopped"
  /\ peers' = NoPeers
  /\ failed' = (failed \/ \E c \in Calls : call[c] # "Idle")
  /\ EndCalls
  /\ clearing' = [c \in Calls |-> {}]
  /\ UNCHANGED <<now, granted, cleared, unsaved>>

Tick ==
  /\ now < MaxTime
  /\ now' = now + 1
  /\ UNCHANGED <<storeVars, peers, service, historyVars>>

Next ==
  \/ Load \/ Stop \/ Tick
  \/ \E c \in Calls :
       \/ \E k \in Keys : RememberInbound(k, c)
       \/ \E d \in Devices : Clear(d, c)
       \/ Finish(c)
       \/ StoreOperation(c)
       \/ MayFail /\ FailFileOperation(c) /\ UNCHANGED trustVars

Spec == Init /\ [][Next]_vars

-----------------------------------------------------------------------------
(* Properties                                                              *)

\* README.md:10: an X control "to clear it immediately".  An entry whose
\* removal was reported done is not trusted again until it is granted again,
\* not even after a restart.  The code does not keep this: two writes may
\* overlap, and a clear that finds nothing in memory is done at once although
\* an earlier one has failed, or not yet managed, to bring its removal to the
\* file.
ClearedStaysCleared ==
  service = "Ready" => \A k \in cleared : ~Trusted(k)

\* What remains of that promise as long as no two writes overlap: a removal
\* that any write has brought to the file is final, and one that came to
\* nothing shows up only after a write has failed or was cut off.
ClearedOnceWritten ==
  ~overlapped /\ service = "Ready" =>
    \A k \in cleared : Trusted(k) => k \in unsaved /\ failed

\* With no write pending, and none ever lost or overlapping, the file says what the memory
\* says: a restart brings back exactly the trust that was granted.
FileFollowsMemory ==
  service = "Ready" /\ ~failed /\ ~overlapped /\ (\A c \in Calls : call[c] = "Idle") =>
    Found \in {Whole(peers)} \cup (IF peers = NoPeers THEN {[state |-> "Missing"]} ELSE {})

\* Whatever old file overlapping writes bring back, no entry is trusted beyond
\* the life of its last grant, and none that was never granted.
TrustNeverProlonged ==
  \A k \in Keys : /\ peers[k] <= granted[k]
                  /\ Found.state = "Whole" => Found.value[k] <= granted[k]

=============================================================================
