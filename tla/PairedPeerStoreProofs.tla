------------------------ MODULE PairedPeerStoreProofs ------------------------
(***************************************************************************)
(* What is proved of the trust store and the file below it, for any        *)
(* computers, directions, number of writes side by side, durations and     *)
(* bounds.                                                                 *)
(*                                                                         *)
(* With one writer at a time the text on its way to the file is what the   *)
(* memory says, and what was cleared is neither in memory nor in the file, *)
(* unless the write of its removal came to nothing.  However many write:   *)
(* nothing that is in memory, in a file or on its way to one outlives what *)
(* was granted.                                                            *)
(***************************************************************************)
EXTENDS PairedPeerStore, AtomicJsonStoreProofs

-----------------------------------------------------------------------------
(* Types                                                                   *)

Expiries == 0 .. MaxTime + TrustDuration

\* What is found in the file, when it is whole, is an expiry for each entry.
LEMMA FoundType ==
  ASSUME StoreTypeOK, Found.state = "Whole"
  PROVE  file \in Inodes /\ Found = data[file] /\ Found.value \in [Keys -> Expiries]
BY Findings, ValueAssumption DEF Expiries

\* Validation drops entries and keeps the others as they are.
LEMMA ValidDrops ==
  ASSUME NEW p \in [Keys -> Expiries]
  PROVE  Valid(p) \in [Keys -> Expiries] /\ \A k \in Keys : Valid(p)[k] <= p[k]
  BY TrustAssumption DEF Valid, Expiries

LEMMA TypeInit == Init => TypeOK
<1> SUFFICES ASSUME Init PROVE TypeOK
  OBVIOUS
<1>1. StoreTypeOK
  BY StoreInitType DEF Init
<1>2. NoPeers \in [Keys -> 0 .. MaxTime + TrustDuration]
  BY TrustAssumption DEF NoPeers
<1>3. now \in 1 .. MaxTime
  BY TrustAssumption DEF Init
<1> QED
  BY <1>1, <1>2, <1>3 DEF Init, TypeOK

LEMMA LoadType == TypeOK /\ Load => TypeOK'
<1> SUFFICES ASSUME TypeOK, Load PROVE TypeOK'
  OBVIOUS
<1>0. StoreTypeOK
  BY DEF TypeOK
<1>1. UNCHANGED <<now, historyVars>>
  BY DEF Load
<1>2. CASE UNCHANGED <<storeVars, peers>> /\ service' = "Failed"
  BY <1>1, <1>2 DEF storeVars, historyVars, TypeOK, StoreTypeOK
<1>3. CASE UNCHANGED storeVars /\ peers' = NoPeers /\ service' = "Ready"
  <2>1. NoPeers \in [Keys -> 0 .. MaxTime + TrustDuration]
    BY TrustAssumption DEF NoPeers
  <2> QED
    BY <1>1, <1>3, <2>1 DEF storeVars, historyVars, TypeOK, StoreTypeOK
<1>4. CASE Found.state = "Whole" /\ peers' = Valid(Found.value)
           /\ \/ service' = "Ready" /\ UNCHANGED storeVars
              \/ service' = "Loading" /\ \E c \in Calls : Write(c, peers')
  <2>1. peers' \in [Keys -> Expiries]
    BY <1>0, <1>4, FoundType, ValidDrops
  <2>2. StoreTypeOK'
    <3>1. CASE UNCHANGED storeVars
      BY <1>0, <3>1 DEF storeVars, StoreTypeOK
    <3>2. CASE \E c \in Calls : Write(c, peers')
      BY <1>0, <2>1, <3>2, WriteType, ValueAssumption DEF Expiries
    <3> QED
      BY <1>4, <3>1, <3>2
  <2> QED
    BY <1>1, <1>4, <2>1, <2>2 DEF historyVars, TypeOK, Expiries
<1> QED
  BY <1>2, <1>3, <1>4 DEF Load

LEMMA GrantType ==
  ASSUME TypeOK, NEW c \in Calls, NEW k \in Keys, RememberInbound(k, c)
  PROVE  TypeOK'
<1>1. Expiry \in 0 .. MaxTime + TrustDuration
  BY TrustAssumption DEF Expiry, TypeOK
<1>2. /\ peers' \in [Keys -> 0 .. MaxTime + TrustDuration]
      /\ granted' \in [Keys -> 0 .. MaxTime + TrustDuration]
  BY <1>1 DEF RememberInbound, TypeOK
<1>3. StoreTypeOK'
  BY <1>2, WriteType, ValueAssumption DEF RememberInbound, TypeOK
<1>4. clearing' \in [Calls -> SUBSET Keys] /\ cleared' \subseteq Keys /\ unsaved' \subseteq Keys
  BY DEF RememberInbound, TypeOK
<1> QED
  BY <1>2, <1>3, <1>4 DEF RememberInbound, TypeOK

LEMMA ClearType ==
  ASSUME TypeOK, NEW c \in Calls, NEW d \in Devices, Clear(d, c)
  PROVE  TypeOK'
<1>0. OfDevice(d) \subseteq Keys
  BY DEF OfDevice
<1>1. peers' \in [Keys -> 0 .. MaxTime + TrustDuration]
  BY TrustAssumption DEF Clear, TypeOK
<1>2. StoreTypeOK'
  BY <1>1, WriteType, ValueAssumption DEF Clear, TypeOK, storeVars, StoreTypeOK
<1>3. /\ clearing' \in [Calls -> SUBSET Keys]
      /\ cleared' \subseteq Keys /\ unsaved' \subseteq Keys
  BY <1>0 DEF Clear, TypeOK
<1> QED
  BY <1>1, <1>2, <1>3 DEF Clear, TypeOK

LEMMA StoreOperationType ==
  ASSUME TypeOK, NEW c \in Calls, StoreOperation(c)
  PROVE  TypeOK'
<1>1. StoreTypeOK'
  BY FileOperationType DEF StoreOperation, TypeOK
<1>2. unsaved' \subseteq Keys
  BY DEF StoreOperation, TypeOK
<1> QED
  BY <1>1, <1>2 DEF StoreOperation, TypeOK

LEMMA TypeNext == TypeOK /\ [Next]_vars => TypeOK'
<1> SUFFICES ASSUME TypeOK, [Next]_vars PROVE TypeOK'
  OBVIOUS
<1>0. StoreTypeOK
  BY DEF TypeOK
<1>1. CASE Load
  BY <1>1, LoadType
<1>2. CASE Stop
  <2>1. StoreTypeOK'
    BY <1>0, <1>2, EndCallsType DEF Stop, EndCalls
  <2>2. NoPeers \in [Keys -> 0 .. MaxTime + TrustDuration]
    BY TrustAssumption DEF NoPeers
  <2> QED
    BY <1>2, <2>1, <2>2 DEF Stop, TypeOK
<1>3. CASE Tick
  <2>1. StoreTypeOK'
    BY <1>0, <1>3 DEF Tick, storeVars, StoreTypeOK
  <2>2. now' \in 1 .. MaxTime
    BY <1>3, TrustAssumption DEF Tick, TypeOK
  <2> QED
    BY <1>3, <2>1, <2>2 DEF Tick, historyVars, TypeOK
<1>4. ASSUME NEW c \in Calls, Finish(c) PROVE TypeOK'
  <2>1. StoreTypeOK'
    BY <1>0, <1>4, ReturnType DEF Finish
  <2>2. service' \in {"Stopped", "Loading", "Ready", "Failed"}
    BY <1>4 DEF Finish, TypeOK
  <2>3. cleared' \subseteq Keys /\ failed' \in BOOLEAN
    BY <1>4 DEF Finish, TypeOK
  <2> QED
    BY <1>4, <2>1, <2>2, <2>3 DEF Finish, TypeOK
<1>5. ASSUME NEW c \in Calls, FailFileOperation(c), UNCHANGED trustVars
      PROVE  TypeOK'
  BY <1>0, <1>5, FileOperationType DEF trustVars, historyVars, TypeOK
<1>6. CASE UNCHANGED vars
  BY <1>0, <1>6 DEF vars, storeVars, trustVars, historyVars, TypeOK, StoreTypeOK
<1> QED
  BY <1>1, <1>2, <1>3, <1>4, <1>5, <1>6, GrantType, ClearType, StoreOperationType DEF Next

\* Every state of the store and its file is well typed: a call that opens the
\* temporary file always finds an inode.
THEOREM TypeCorrect == Spec => []TypeOK
  BY TypeInit, TypeNext, PTL DEF Spec

-----------------------------------------------------------------------------
(* One writer at a time leaves the file whole                              *)

LEMMA WholeNext == TypeOK /\ WholeInv /\ [Next]_vars => WholeInv'
<1> SUFFICES ASSUME TypeOK, WholeInv, [Next]_vars PROVE WholeInv'
  OBVIOUS
<1>0. StoreTypeOK
  BY DEF TypeOK
<1>1. CASE UNCHANGED storeVars
  BY <1>1, WholeStutters
<1>2. ASSUME NEW c \in Calls, NEW v, Write(c, v) PROVE WholeInv'
  BY <1>0, <1>2, WholeWrite
<1>3. ASSUME NEW c \in Calls, FileOperation(c) \/ FailFileOperation(c) PROVE WholeInv'
  BY <1>0, <1>3, WholeFileOperation
<1>4. CASE Stop
  BY <1>0, <1>4, WholeEndCalls DEF Stop, EndCalls
<1>5. ASSUME NEW c \in Calls, Finish(c) PROVE WholeInv'
  BY <1>0, <1>5, WholeReturn DEF Finish
<1>6. CASE Load
  BY <1>1, <1>2, <1>6 DEF Load
<1>7. ASSUME NEW c \in Calls, NEW k \in Keys, RememberInbound(k, c) PROVE WholeInv'
  BY <1>2, <1>7 DEF RememberInbound
<1>8. ASSUME NEW c \in Calls, NEW d \in Devices, Clear(d, c) PROVE WholeInv'
  BY <1>1, <1>2, <1>8 DEF Clear
<1>9. CASE Tick \/ UNCHANGED vars
  BY <1>1, <1>9 DEF Tick, vars
<1> QED
  BY <1>3, <1>4, <1>5, <1>6, <1>7, <1>8, <1>9 DEF Next, StoreOperation

\* As long as writes do not overlap, a reader finds a whole file or none,
\* whichever file operation fails and whenever the process ends.
THEOREM FileIsWholeHolds == Spec => []FileIsWhole
<1>1. Init => TypeOK /\ WholeInv
  BY TypeInit, WholeInit DEF Init
<1>2. TypeOK /\ WholeInv /\ [Next]_vars => (TypeOK /\ WholeInv)'
  BY TypeNext, WholeNext
<1>3. WholeInv => FileIsWhole
  BY WholeReads
<1> QED
  BY <1>1, <1>2, <1>3, PTL DEF Spec

-----------------------------------------------------------------------------
(* One writer at a time takes the memory to the file                       *)

\* Why: what the one pending call writes is what the memory holds, and with no
\* call pending the file has it.  A stopped process has no calls.
Saved ==
  /\ \A c \in Calls : Pending(c) => value[c] = peers
  /\ (\A c \in Calls : ~Pending(c)) =>
       \/ file # 0 /\ data[file] = Whole(peers)
       \/ file = 0 /\ peers = NoPeers

MemoryInv ==
  /\ service = "Stopped" => \A c \in Calls : call[c] = "Idle"
  /\ service \in {"Loading", "Ready"} /\ ~failed /\ ~overlapped
       /\ (\A c \in Calls : call[c] # "Failed") => Saved

\* A change of the memory that is written at once.
LEMMA MemoryWrite ==
  ASSUME StoreTypeOK, NEW c \in Calls, Write(c, peers'), service' # "Stopped"
  PROVE  MemoryInv'
<1> SUFFICES ASSUME ~overlapped' PROVE Saved'
  BY DEF MemoryInv
<1>1. /\ Pending(c)' /\ value'[c] = peers'
      /\ \A d \in Calls : ~Pending(d) /\ (d # c => call'[d] = call[d])
  BY Writes
<1>2. \A d \in Calls : Pending(d)' => d = c
  BY <1>1 DEF Pending
<1> QED
  BY <1>1, <1>2 DEF Saved

LEMMA MemoryLoad ==
  ASSUME TypeOK, MemoryInv, Load
  PROVE  MemoryInv'
<1>0. StoreTypeOK
  BY DEF TypeOK
<1>1. \A c \in Calls : call[c] = "Idle"
  BY DEF Load, MemoryInv
<1>2. CASE UNCHANGED storeVars /\ service' = "Failed"
  BY <1>2 DEF MemoryInv
<1>3. CASE /\ UNCHANGED storeVars /\ service' = "Ready"
           /\ Found.state = "Missing" /\ peers' = NoPeers
  <2>1. file = 0
    BY <1>0, <1>3, Contents DEF Found, StoreTypeOK, Content, Empty, Torn
  <2> QED
    BY <1>1, <1>3, <2>1 DEF storeVars, MemoryInv, Saved, Pending
<1>4. CASE /\ UNCHANGED storeVars /\ service' = "Ready"
           /\ Found.state = "Whole" /\ peers' = Found.value
  <2>1. file # 0 /\ data[file] = Whole(peers')
    BY <1>0, <1>4, FoundType, Contents DEF StoreTypeOK, Inodes
  <2> QED
    BY <1>1, <1>4, <2>1 DEF storeVars, MemoryInv, Saved, Pending
<1>5. CASE service' = "Loading" /\ \E c \in Calls : Write(c, peers')
  BY <1>0, <1>5, MemoryWrite
<1> QED
  BY <1>2, <1>3, <1>4, <1>5 DEF Load

LEMMA MemoryFileOperation ==
  ASSUME TypeOK, WholeInv, MemoryInv, NEW c \in Calls,
         FileOperation(c) \/ FailFileOperation(c), UNCHANGED <<peers, service, failed>>
  PROVE  MemoryInv'
<1>0. StoreTypeOK /\ UNCHANGED <<peers, service, failed>>
  BY DEF TypeOK
<1>1. call[c] # "Idle" /\ call[c] # "Failed" /\ overlapped' = overlapped
  BY DEF FileOperation, MakeDirectory, OpenTemporary, WriteTemporary, Rename,
         FailFileOperation, Pending
<1>2. service' # "Stopped"
  BY <1>0, <1>1 DEF MemoryInv
<1> SUFFICES ASSUME service \in {"Loading", "Ready"}, ~failed, ~overlapped,
                    \A d \in Calls : call'[d] # "Failed"
             PROVE  Saved'
  BY <1>0, <1>1, <1>2 DEF MemoryInv
<1>3. OneWriter
  BY DEF WholeInv
<1>4. /\ UNCHANGED value /\ Pending(c)
      /\ \A d \in Calls : d # c => ~Pending(d) /\ call'[d] = call[d]
      /\ \/ Pending(c)'
         \/ call'[c] = "Done" /\ file' # 0 /\ data'[file'] = Whole(value[c])
  BY <1>0, <1>3, FileChanges
<1>5. value[c] = peers
  BY <1>1, <1>4 DEF MemoryInv, Saved
<1>6. \A d \in Calls : Pending(d)' => d = c
  BY <1>4 DEF Pending
<1> QED
  BY <1>0, <1>4, <1>5, <1>6 DEF Saved

LEMMA MemoryNext == TypeOK /\ WholeInv /\ MemoryInv /\ [Next]_vars => MemoryInv'
<1> SUFFICES ASSUME TypeOK, WholeInv, MemoryInv, [Next]_vars PROVE MemoryInv'
  OBVIOUS
<1>0. StoreTypeOK
  BY DEF TypeOK
<1>1. CASE Stop
  BY <1>1 DEF Stop, EndCalls, EndCallsOf, MemoryInv
<1>2. CASE UNCHANGED <<storeVars, peers, service, failed>>
  BY <1>2 DEF storeVars, MemoryInv, Saved, Pending
<1>3. ASSUME NEW c \in Calls, Finish(c) PROVE MemoryInv'
  <2>1. /\ call[c] \in {"Done", "Failed"} /\ call'[c] = "Idle"
        /\ \A d \in Calls : d # c => call'[d] = call[d] /\ value'[d] = value[d]
        /\ UNCHANGED <<file, data, overlapped, peers>>
    BY <1>0, <1>3 DEF Finish, Return, StoreTypeOK
  <2>2. service # "Stopped" /\ service' # "Stopped"
    BY <1>3, <2>1 DEF Finish, MemoryInv
  <2> SUFFICES ASSUME service' \in {"Loading", "Ready"}, ~failed', ~overlapped,
                      \A d \in Calls : call'[d] # "Failed"
               PROVE  Saved'
    BY <2>1, <2>2 DEF MemoryInv
  <2>3. ~failed /\ call[c] = "Done" /\ service \in {"Loading", "Ready"}
    BY <1>3, <2>1 DEF Finish
  <2>4. Saved
    BY <2>1, <2>3 DEF MemoryInv
  <2>5. \A d \in Calls : Pending(d)' <=> Pending(d)
    BY <2>1, <2>3 DEF Pending
  <2> QED
    BY <2>1, <2>4, <2>5 DEF Saved, Pending
<1>4. ASSUME NEW c \in Calls, NEW k \in Keys, RememberInbound(k, c) PROVE MemoryInv'
  BY <1>0, <1>4, MemoryWrite DEF RememberInbound
<1>5. ASSUME NEW c \in Calls, NEW d \in Devices, Clear(d, c) PROVE MemoryInv'
  <2>1. CASE UNCHANGED <<storeVars, peers, service, failed>>
    BY <1>2, <2>1
  <2>2. CASE Write(c, peers') /\ service' = "Ready"
    BY <1>0, <2>2, MemoryWrite
  <2> QED
    BY <1>5, <2>1, <2>2 DEF Clear
<1> QED
  BY <1>1, <1>2, <1>3, <1>4, <1>5, MemoryLoad, MemoryFileOperation
  DEF Next, Tick, StoreOperation, vars, trustVars, historyVars

\* A restart brings back exactly the trust that was granted: with no write
\* pending, lost or overlapping, the file says what the memory says.
THEOREM FileFollowsMemoryHolds == Spec => []FileFollowsMemory
<1> DEFINE IInv == TypeOK /\ WholeInv /\ MemoryInv
<1>1. Init => IInv
  BY TypeInit DEF Init, StoreInit, WholeInv, OneWriter, Pending, MemoryInv
<1>2. IInv /\ [Next]_vars => IInv'
  BY TypeNext, WholeNext, MemoryNext
<1>3. IInv => FileFollowsMemory
  BY DEF MemoryInv, Saved, Pending, FileFollowsMemory, Found
<1> QED
  BY <1>1, <1>2, <1>3, PTL DEF Spec

-----------------------------------------------------------------------------
(* With one writer at a time only a write that came to nothing brings back *)
(* what was cleared                                                        *)

\* The entry k is neither in memory nor in the file.
Gone(k) ==
  /\ peers[k] = 0
  /\ file # 0 => data[file].value[k] = 0

\* Why: the one pending call writes what the memory holds.  An entry removed
\* from memory is on its way out of the file with it, or a write has come to
\* nothing; and but for such entries a service that is ready has in memory
\* whatever the file has, so that a clear which finds nothing there is right.
Removed ==
  /\ \A c \in Calls : Pending(c) => value[c] = peers
  /\ \A k \in cleared \ unsaved : Gone(k)
  /\ \A c \in Calls : \A k \in clearing[c] :
       peers[k] = 0 /\ (call[c] = "Done" => Gone(k))
  /\ ~failed => \A k \in unsaved :
       peers[k] = 0 /\ \E c \in Calls : Pending(c) \/ call[c] = "Failed"
  /\ service = "Ready" => \A k \in Keys \ unsaved : peers[k] = 0 => Gone(k)
  /\ service = "Loading" =>
       \A c \in Calls : call[c] = "Done" => file # 0 /\ data[file] = Whole(peers)

ClearInv ==
  /\ service = "Stopped" =>
       \A c \in Calls : call[c] = "Idle" /\ clearing[c] = {}
  /\ ~overlapped => Removed

\* A write of the memory, by a service that is ready or has no other call,
\* from which no removed entry came back.
LEMMA ClearWrite ==
  ASSUME TypeOK, ClearInv, NEW c \in Calls, Write(c, peers'), UNCHANGED failed,
         \/ service = "Ready" /\ service' = "Ready"
         \/ service' = "Loading" /\ \A d \in Calls : call[d] = "Idle",
         ~overlapped => \A k \in cleared' \ unsaved' : Gone(k) /\ peers'[k] = 0,
         ~overlapped => \A d \in Calls : \A k \in clearing'[d] : peers'[k] = 0,
         \A d \in Calls \ {c} : clearing'[d] \subseteq clearing[d],
         ~overlapped /\ ~failed => \A k \in unsaved' : peers'[k] = 0,
         service' = "Ready" =>
           \A k \in Keys \ unsaved' : peers'[k] = 0 => k \notin unsaved /\ peers[k] = 0
  PROVE  ClearInv'
<1>0. StoreTypeOK
  BY DEF TypeOK
<1> SUFFICES ASSUME ~overlapped' PROVE Removed'
  BY DEF ClearInv
<1>1. /\ Pending(c)' /\ call'[c] = "MakeDirectory" /\ value'[c] = peers'
      /\ \A d \in Calls : ~Pending(d) /\ (d # c => call'[d] = call[d])
      /\ UNCHANGED <<file, data>> /\ ~overlapped
  BY <1>0, Writes
<1>2. Removed
  BY <1>1 DEF ClearInv
<1>3. \A d \in Calls : Pending(d)' => d = c
  BY <1>1 DEF Pending
<1>4. ASSUME NEW k, Gone(k), peers'[k] = 0 PROVE Gone(k)'
  BY <1>1, <1>4 DEF Gone
<1>5. \A k \in cleared' \ unsaved' : Gone(k)'
  BY <1>1, <1>4
<1>6. ASSUME NEW d \in Calls, NEW k \in clearing'[d], call'[d] = "Done" PROVE Gone(k)'
  BY <1>1, <1>2, <1>4, <1>6 DEF Removed
<1>7. service' = "Ready" => \A k \in Keys \ unsaved' : peers'[k] = 0 => Gone(k)'
  BY <1>2, <1>4 DEF Removed
<1>8. service' = "Loading" => \A d \in Calls : call'[d] # "Done"
  BY <1>1
<1> QED
  BY <1>1, <1>3, <1>5, <1>6, <1>7, <1>8 DEF Removed

LEMMA ClearLoad ==
  ASSUME TypeOK, WholeInv, ClearInv, Load
  PROVE  ClearInv'
<1>0. StoreTypeOK
  BY DEF TypeOK
<1>1. /\ \A c \in Calls : call[c] = "Idle" /\ clearing[c] = {}
      /\ UNCHANGED <<clearing, cleared, unsaved, failed>>
  BY DEF Load, ClearInv, historyVars
<1>2. ~overlapped /\ ~failed => unsaved = {}
  BY <1>1 DEF ClearInv, Removed, Pending
<1>3. CASE UNCHANGED storeVars /\ service' = "Failed" /\ UNCHANGED peers
  BY <1>1, <1>3 DEF storeVars, ClearInv, Removed, Gone, Pending
<1>4. CASE UNCHANGED storeVars /\ service' = "Ready" /\ Found.state = "Missing" /\ peers' = NoPeers
  <2>1. file = 0
    BY <1>0, <1>4, Contents DEF Found, StoreTypeOK, Content, Empty, Torn
  <2>2. \A k \in Keys : peers'[k] = 0
    BY <1>4 DEF NoPeers
  <2>3. file' = 0 /\ \A c \in Calls : call'[c] = "Idle" /\ clearing'[c] = {}
    BY <1>1, <1>4, <2>1 DEF storeVars
  <2>4. \A k \in Keys : Gone(k)'
    BY <2>2, <2>3 DEF Gone
  <2> QED
    BY <1>1, <1>2, <1>4, <2>3, <2>4 DEF storeVars, ClearInv, Removed, Pending, TypeOK
<1>5. CASE /\ Found.state = "Whole" /\ peers' = Valid(Found.value)
           /\ \/ UNCHANGED storeVars /\ service' = "Ready" /\ peers' = Found.value
              \/ service' = "Loading" /\ \E c \in Calls : Write(c, peers')
  <2>1. /\ file \in Inodes /\ Found = data[file] /\ Found.value \in [Keys -> Expiries]
    BY <1>0, <1>5, FoundType
  <2>2. ~overlapped => \A k \in cleared \ unsaved : Gone(k)
    BY DEF ClearInv, Removed
  <2>3. ~overlapped => \A k \in cleared \ unsaved : peers'[k] = 0
    BY <1>5, <2>1, <2>2 DEF Gone, Valid, TypeOK, Inodes
  <2>4. CASE UNCHANGED storeVars /\ service' = "Ready" /\ peers' = Found.value
    <3>1. \A k : peers'[k] = 0 => Gone(k)'
      BY <2>1, <2>4 DEF storeVars, Gone
    <3>2. \A c \in Calls : call'[c] = "Idle" /\ clearing'[c] = {}
      BY <1>1, <2>4 DEF storeVars
    <3> QED
      BY <1>1, <1>2, <2>3, <2>4, <3>1, <3>2 DEF storeVars, ClearInv, Removed, Pending
  <2>5. ASSUME NEW c \in Calls, Write(c, peers'), service' = "Loading" PROVE ClearInv'
    BY <1>1, <1>2, <2>2, <2>3, <2>5, ClearWrite
  <2> QED
    BY <1>5, <2>4, <2>5
<1> QED
  BY <1>3, <1>4, <1>5 DEF Load

\* The rename takes what the memory says to the file.
LEMMA ClearFileOperation ==
  ASSUME TypeOK, WholeInv, ClearInv, NEW c \in Calls,
         StoreOperation(c) \/ (FailFileOperation(c) /\ UNCHANGED trustVars)
  PROVE  ClearInv'
<1>0. /\ StoreTypeOK /\ (FileOperation(c) \/ FailFileOperation(c))
      /\ UNCHANGED <<peers, service, clearing, cleared, failed>>
  BY DEF StoreOperation, TypeOK, trustVars, historyVars
<1>1. call[c] # "Idle" /\ overlapped' = overlapped
  BY <1>0 DEF FileOperation, MakeDirectory, OpenTemporary, WriteTemporary, Rename,
         FailFileOperation, Pending
<1>2. service' # "Stopped"
  BY <1>0, <1>1 DEF ClearInv
<1> SUFFICES ASSUME ~overlapped PROVE Removed'
  BY <1>1, <1>2 DEF ClearInv
<1>3. OneWriter /\ Removed
  BY DEF WholeInv, ClearInv
<1>4. /\ UNCHANGED value /\ Pending(c)
      /\ \A d \in Calls : d # c => ~Pending(d) /\ call'[d] = call[d]
      /\ \/ /\ call'[c] # "Done" /\ (call'[c] = "Failed" \/ Pending(c)')
            /\ file' = file /\ (file # 0 => data'[file] = data[file])
         \/ call'[c] = "Done" /\ file' # 0 /\ data'[file'] = Whole(value[c])
  BY <1>0, <1>3, FileChanges
<1>5. \A d \in Calls : Pending(d)' => d = c
  BY <1>4 DEF Pending
<1>6. value[c] = peers /\ Whole(peers).value = peers
  BY <1>3, <1>4 DEF Removed, Whole
<1>7. unsaved' = IF call'[c] = "Done" THEN {k \in unsaved : peers[k] # 0} ELSE unsaved
  <2>1. CASE StoreOperation(c)
    BY <1>6, <2>1 DEF StoreOperation
  <2>2. CASE FailFileOperation(c) /\ UNCHANGED trustVars
    <3>1. call'[c] # "Done"
      BY <1>0, <2>2 DEF FailFileOperation, StoreTypeOK
    <3> QED
      BY <2>2, <3>1 DEF trustVars, historyVars
  <2> QED
    BY <2>1, <2>2
<1>8. ASSUME NEW k, peers[k] = 0, Gone(k) \/ call'[c] = "Done" PROVE Gone(k)'
  BY <1>0, <1>4, <1>6, <1>8 DEF Gone
<1>9. \A k : Gone(k) => Gone(k)'
  BY <1>8 DEF Gone
<1>10. \A k \in cleared' \ unsaved' : Gone(k)'
  BY <1>0, <1>3, <1>7, <1>8, <1>9 DEF Removed, TypeOK
<1>11. ASSUME NEW d \in Calls, NEW k \in clearing'[d]
       PROVE  peers'[k] = 0 /\ (call'[d] = "Done" => Gone(k)')
  BY <1>0, <1>3, <1>4, <1>8, <1>9, <1>11 DEF Removed
<1>12. ASSUME ~failed', NEW k \in unsaved'
       PROVE  peers'[k] = 0 /\ \E d \in Calls : Pending(d)' \/ call'[d] = "Failed"
  BY <1>0, <1>3, <1>4, <1>7, <1>12 DEF Removed
<1>13. ASSUME service' = "Ready", NEW k \in Keys \ unsaved', peers'[k] = 0 PROVE Gone(k)'
  BY <1>0, <1>3, <1>7, <1>8, <1>9, <1>13 DEF Removed
<1>14. ASSUME service' = "Loading", NEW d \in Calls, call'[d] = "Done"
       PROVE  file' # 0 /\ data'[file'] = Whole(peers')
  BY <1>0, <1>3, <1>4, <1>6, <1>14 DEF Removed
<1> QED
  BY <1>0, <1>4, <1>5, <1>6, <1>10, <1>11, <1>12, <1>13, <1>14 DEF Removed

LEMMA ClearGrant ==
  ASSUME TypeOK, ClearInv, NEW c \in Calls, NEW k \in Keys, RememberInbound(k, c)
  PROVE  ClearInv'
<1>1. Write(c, peers') /\ service = "Ready" /\ service' = "Ready" /\ UNCHANGED failed
  BY DEF RememberInbound
<1>2. /\ peers'[k] # 0
      /\ \A j \in Keys : j # k => peers'[j] = peers[j]
  BY TrustAssumption DEF RememberInbound, Expiry, TypeOK
<1>3. /\ cleared' = cleared \ {k} /\ unsaved' = unsaved \ {k}
      /\ cleared' \subseteq Keys /\ unsaved' \subseteq Keys
      /\ \A d \in Calls : clearing'[d] \subseteq clearing[d] \ {k} /\ clearing[d] \subseteq Keys
  BY DEF RememberInbound, TypeOK
<1>4. ~overlapped => \A j \in cleared' \ unsaved' : Gone(j) /\ peers'[j] = 0
  BY <1>2, <1>3 DEF ClearInv, Removed, Gone
<1>5. ~overlapped => \A d \in Calls : \A j \in clearing'[d] : peers'[j] = 0
  BY <1>2, <1>3 DEF ClearInv, Removed
<1>6. ~overlapped /\ ~failed => \A j \in unsaved' : peers'[j] = 0
  BY <1>2, <1>3 DEF ClearInv, Removed
<1>7. \A j \in Keys \ unsaved' : peers'[j] = 0 => j \notin unsaved /\ peers[j] = 0
  BY <1>2, <1>3
<1> QED
  BY <1>1, <1>3, <1>4, <1>5, <1>6, <1>7, ClearWrite

LEMMA ClearClear ==
  ASSUME TypeOK, ClearInv, NEW c \in Calls, NEW d \in Devices, Clear(d, c)
  PROVE  ClearInv'
<1> DEFINE keys == {k \in OfDevice(d) : peers[k] # 0}
<1>1. service = "Ready" /\ service' = "Ready" /\ UNCHANGED failed /\ OfDevice(d) \subseteq Keys
  BY DEF Clear, OfDevice
<1>2. CASE /\ Write(c, peers') /\ UNCHANGED cleared /\ unsaved' = unsaved \cup keys
           /\ peers' = [k \in Keys |-> IF k \in keys THEN 0 ELSE peers[k]]
           /\ clearing' = [clearing EXCEPT ![c] = OfDevice(d)]
  <2>1. \A j \in Keys : peers'[j] = IF j \in keys THEN 0 ELSE peers[j]
    BY <1>2
  <2>2. /\ \A e \in Calls \ {c} : clearing'[e] = clearing[e] /\ clearing[e] \subseteq Keys
        /\ clearing'[c] = OfDevice(d) /\ cleared \subseteq Keys /\ unsaved \subseteq Keys
    BY <1>2 DEF TypeOK
  <2>3. \A j \in OfDevice(d) : peers'[j] = 0
    BY <1>1, <2>1
  <2>4. ~overlapped => \A j \in cleared' \ unsaved' : Gone(j) /\ peers'[j] = 0
    BY <1>2, <2>1, <2>2 DEF ClearInv, Removed, Gone
  <2>5. ~overlapped => \A e \in Calls : \A j \in clearing'[e] : peers'[j] = 0
    BY <2>1, <2>2, <2>3 DEF ClearInv, Removed
  <2>6. ~overlapped /\ ~failed => \A j \in unsaved' : peers'[j] = 0
    BY <1>1, <1>2, <2>1, <2>2 DEF ClearInv, Removed
  <2>7. \A j \in Keys \ unsaved' : peers'[j] = 0 => j \notin unsaved /\ peers[j] = 0
    BY <1>2, <2>1
  <2> QED
    BY <1>1, <1>2, <2>2, <2>4, <2>5, <2>6, <2>7, ClearWrite
<1>3. CASE /\ keys = {} /\ cleared' = cleared \cup OfDevice(d)
           /\ UNCHANGED <<storeVars, peers, clearing, unsaved>>
  <2>1. \A k \in OfDevice(d) : k \in Keys /\ peers[k] = 0
    BY <1>1, <1>3
  <2>2. ~overlapped => \A k \in OfDevice(d) \ unsaved : Gone(k)
    BY <1>1, <2>1 DEF ClearInv, Removed
  <2>3. \A k : Gone(k) => Gone(k)'
    BY <1>3 DEF storeVars, Gone
  <2>4. ~overlapped => \A k \in cleared' \ unsaved' : Gone(k)'
    BY <1>3, <2>2, <2>3 DEF ClearInv, Removed
  <2> QED
    BY <1>1, <1>3, <2>3, <2>4 DEF storeVars, ClearInv, Removed, Pending
<1> QED
  BY <1>2, <1>3 DEF Clear

LEMMA ClearNext == TypeOK /\ WholeInv /\ ClearInv /\ [Next]_vars => ClearInv'
<1> SUFFICES ASSUME TypeOK, WholeInv, ClearInv, [Next]_vars PROVE ClearInv'
  OBVIOUS
<1>0. StoreTypeOK
  BY DEF TypeOK
<1>1. CASE Stop
  <2>1. /\ \A c \in Calls : call'[c] = "Idle" /\ clearing'[c] = {}
        /\ peers' = NoPeers /\ UNCHANGED <<cleared, unsaved, file, data, overlapped>>
        /\ service' = "Stopped"
        /\ failed' = (failed \/ \E c \in Calls : call[c] # "Idle")
    BY <1>1 DEF Stop, EndCalls, EndCallsOf
  <2>2. \A k \in Keys : peers'[k] = 0
    BY <2>1 DEF NoPeers
  <2>3. ~overlapped => \A k \in cleared' \ unsaved' : Gone(k)'
    BY <2>1, <2>2 DEF TypeOK, ClearInv, Removed, Gone
  <2>4. ~overlapped /\ ~failed' => unsaved' = {}
    BY <2>1 DEF ClearInv, Removed, Pending
  <2> QED
    BY <2>1, <2>3, <2>4 DEF ClearInv, Removed, Pending
<1>2. CASE UNCHANGED <<storeVars, peers, service, clearing, cleared, unsaved, failed>>
  BY <1>2 DEF storeVars, ClearInv, Removed, Gone, Pending
<1>3. ASSUME NEW c \in Calls, Finish(c) PROVE ClearInv'
  <2>1. /\ call[c] \in {"Done", "Failed"} /\ call'[c] = "Idle"
        /\ \A d \in Calls : d # c => call'[d] = call[d] /\ value'[d] = value[d]
        /\ UNCHANGED <<file, data, overlapped, peers, clearing, unsaved>>
        /\ cleared' = IF call[c] = "Done" THEN cleared \cup clearing[c] ELSE cleared
        /\ failed' = (failed \/ call[c] = "Failed")
    BY <1>0, <1>3 DEF Finish, Return, StoreTypeOK
  <2>2. service' # "Stopped"
    BY <1>3, <2>1 DEF Finish, ClearInv
  <2> SUFFICES ASSUME ~overlapped PROVE Removed'
    BY <2>1, <2>2 DEF ClearInv
  <2>3. Removed
    BY DEF ClearInv
  <2>4. \A d \in Calls : Pending(d)' => d # c /\ Pending(d)
    BY <2>1 DEF Pending
  <2>5. \A k : Gone(k)' = Gone(k)
    BY <2>1 DEF Gone
  <2>6. \A k \in cleared' \ unsaved' : Gone(k)'
    BY <2>1, <2>3, <2>5 DEF Removed
  <2>7. ASSUME ~failed', NEW k \in unsaved'
        PROVE  peers'[k] = 0 /\ \E d \in Calls : Pending(d)' \/ call'[d] = "Failed"
    <3>1. peers[k] = 0 /\ \E d \in Calls : Pending(d) \/ call[d] = "Failed"
      BY <2>1, <2>3, <2>7 DEF Removed
    <3>2. \A d \in Calls : Pending(d) \/ call[d] = "Failed" => d # c /\ call'[d] = call[d]
      BY <2>1, <2>7 DEF Pending
    <3> QED
      BY <2>1, <3>1, <3>2 DEF Pending
  <2>8. ASSUME service' = "Ready", NEW k \in Keys \ unsaved', peers'[k] = 0 PROVE Gone(k)'
    <3>1. CASE service = "Ready"
      BY <2>1, <2>3, <2>5, <2>8, <3>1 DEF Removed
    <3>2. CASE service # "Ready"
      <4>1. service = "Loading" /\ call[c] = "Done"
        BY <1>3, <2>8, <3>2 DEF Finish
      <4>2. data[file] = Whole(peers)
        BY <2>3, <4>1 DEF Removed
      <4> QED
        BY <2>1, <2>8, <4>2 DEF Gone, Whole
    <3> QED
      BY <3>1, <3>2
  <2>9. service' = "Loading" => service = "Loading"
    BY <1>3 DEF Finish
  <2> QED
    BY <2>1, <2>3, <2>4, <2>5, <2>6, <2>7, <2>8, <2>9 DEF Removed
<1> QED
  BY <1>1, <1>2, <1>3, ClearLoad, ClearFileOperation, ClearGrant, ClearClear
  DEF Next, Tick, vars, trustVars, historyVars

\* As long as writes do not overlap, an entry whose removal was reported done
\* is trusted again before it is granted again only if a write has failed or
\* was cut off and no write has brought the removal to the file since.
THEOREM ClearedOnceWrittenHolds == Spec => []ClearedOnceWritten
<1> DEFINE IInv == TypeOK /\ WholeInv /\ ClearInv
<1>1. Init => IInv
  BY TypeInit DEF Init, StoreInit, WholeInv, OneWriter, Pending, ClearInv, Removed
<1>2. IInv /\ [Next]_vars => IInv'
  BY TypeNext, WholeNext, ClearNext
<1>3. IInv => ClearedOnceWritten
  <2> SUFFICES ASSUME IInv, ~overlapped, NEW k \in cleared, Trusted(k)
               PROVE  k \in unsaved /\ failed
    BY DEF ClearedOnceWritten
  <2>1. peers[k] # 0
    BY TrustAssumption DEF Trusted, TypeOK
  <2> QED
    BY <2>1 DEF ClearInv, Removed, Gone
<1> QED
  BY <1>1, <1>2, <1>3, PTL DEF Spec

-----------------------------------------------------------------------------
(* Nothing outlives what was granted                                       *)

\* Whatever is in memory, on its way to the file, or left in any inode has no
\* entry that lasts longer than its last grant; and no grant lasts longer than
\* one that is given now, so that a new grant can only be later.
Within(p) == \A k \in Keys : p[k] <= granted[k]

TrustInv ==
  /\ Within(peers)
  /\ \A k \in Keys : granted[k] <= now + TrustDuration
  /\ \A c \in Calls : Pending(c) => Within(value[c])
  /\ \A i \in Inodes : data[i].state = "Whole" => Within(data[i].value)

LEMMA TrustWrite ==
  ASSUME TypeOK, TrustInv, NEW c \in Calls, NEW v \in Value, Write(c, v), Within(v),
         UNCHANGED <<now, granted>>, Within(peers')
  PROVE  TrustInv'
<1>1. /\ call' = [call EXCEPT ![c] = "MakeDirectory"]
      /\ value' = [value EXCEPT ![c] = v]
      /\ data' = data
  BY DEF Write
<1>2. \A d \in Calls : d # c => call'[d] = call[d] /\ value'[d] = value[d]
  BY <1>1 DEF TypeOK, StoreTypeOK
<1>3. value'[c] = v
  BY <1>1 DEF TypeOK, StoreTypeOK
<1> QED
  BY <1>1, <1>2, <1>3 DEF TrustInv, Within, Pending

LEMMA TrustFileOperation ==
  ASSUME TypeOK, TrustInv, NEW c \in Calls, FileOperation(c) \/ FailFileOperation(c),
         UNCHANGED <<peers, now, granted>>
  PROVE  TrustInv'
<1>0. StoreTypeOK
  BY DEF TypeOK
<1>1. UNCHANGED <<peers, now, granted, value>>
  BY DEF FileOperation, MakeDirectory, OpenTemporary,
         WriteTemporary, Rename, FailFileOperation
<1>2. Pending(c)
  BY DEF FileOperation, MakeDirectory, OpenTemporary, WriteTemporary, Rename,
         FailFileOperation, Pending
<1>3. \A d \in Calls : d # c => call'[d] = call[d]
  BY <1>0 DEF FileOperation, MakeDirectory, OpenTemporary, WriteTemporary, Rename,
         FailFileOperation, StoreTypeOK
<1>4. \A d \in Calls : Pending(d)' => Pending(d)
  BY <1>2, <1>3 DEF Pending
<1>5. \A i \in Inodes : data'[i] \in {data[i], Empty, Torn, Whole(value[c])}
  <2>1. CASE OpenTemporary(c)
    BY <1>0, <2>1, Opens DEF StoreTypeOK
  <2>2. CASE WriteTemporary(c)
    BY <1>0, <2>2 DEF WriteTemporary, StoreTypeOK
  <2>3. CASE Rename(c)
    BY <1>0, <2>3 DEF Rename, Forget, StoreTypeOK
  <2>4. CASE MakeDirectory(c) \/ FailFileOperation(c)
    BY <1>0, <2>4 DEF MakeDirectory, FailFileOperation, StoreTypeOK
  <2> QED
    BY <2>1, <2>2, <2>3, <2>4 DEF FileOperation
<1>6. Within(value[c])
  BY <1>2 DEF TrustInv
<1>7. Whole(value[c]).value = value[c]
  BY DEF Whole
<1>8. \A i \in Inodes : data'[i].state = "Whole" => Within(data'[i].value)
  BY <1>5, <1>6, <1>7, Contents DEF TrustInv
<1> QED
  BY <1>1, <1>4, <1>8 DEF TrustInv, Within

\* Calls that end or are forgotten leave the inodes alone.
LEMMA TrustEnds ==
  ASSUME TypeOK, TrustInv, UNCHANGED <<now, granted, data>>,
         peers' \in {peers, NoPeers},
         \A c \in Calls : Pending(c)' => Pending(c) /\ value'[c] = value[c]
  PROVE  TrustInv'
<1>1. \A k \in Keys : NoPeers[k] = 0 /\ granted[k] \in Nat
  BY TrustAssumption DEF NoPeers, TypeOK
<1>2. Within(NoPeers)
  BY <1>1 DEF Within
<1> QED
  BY <1>2 DEF TrustInv, Within

\* A grant lasts at least as long as any before it.
LEMMA TrustGrant ==
  ASSUME TypeOK, TrustInv, NEW c \in Calls, NEW k \in Keys, RememberInbound(k, c)
  PROVE  TrustInv'
<1>1. /\ Expiry \in Nat /\ granted[k] <= Expiry /\ now \in Nat
      /\ TrustDuration \in Nat /\ Expiry = now + TrustDuration
  BY TrustAssumption DEF Expiry, TypeOK, TrustInv
<1>2. \A j \in Keys : granted[j] \in Nat /\ granted'[j] \in Nat /\ granted[j] <= granted'[j]
  BY <1>1, TrustAssumption DEF RememberInbound, TypeOK
<1>3. \A j \in Keys : peers'[j] <= granted'[j]
  BY <1>1 DEF RememberInbound, TypeOK, TrustInv, Within
<1>4. \A j \in Keys : granted'[j] <= now + TrustDuration
  BY <1>1 DEF RememberInbound, TypeOK, TrustInv
<1>5. ASSUME NEW p \in Value, Within(p) PROVE Within(p)'
  <2>1. \A j \in Keys : p[j] \in Nat
    BY ValueAssumption, TrustAssumption
  <2> QED
    BY <1>2, <1>5, <2>1 DEF Within
<1>6. /\ call' = [call EXCEPT ![c] = "MakeDirectory"]
      /\ value' = [value EXCEPT ![c] = peers']
      /\ UNCHANGED <<data, now>>
  BY DEF RememberInbound, Write
<1>7. \A d \in Calls : Pending(d)' => Within(value[d])' 
  <2> SUFFICES ASSUME NEW d \in Calls, Pending(d)' PROVE Within(value[d])'
    OBVIOUS
  <2>1. CASE d = c
    <3>1. value'[c] = peers'
      BY <1>6 DEF TypeOK, StoreTypeOK
    <3> QED
      BY <1>3, <2>1, <3>1 DEF Within
  <2>2. CASE d # c
    <3>1. call'[d] = call[d] /\ value'[d] = value[d] /\ value[d] \in Value
      BY <1>6, <2>2 DEF TypeOK, StoreTypeOK
    <3>2. Within(value[d])
      BY <3>1 DEF Pending, TrustInv
    <3> QED
      BY <1>5, <3>1, <3>2 DEF Within
  <2> QED
    BY <2>1, <2>2
<1>8. ASSUME NEW i \in Inodes, data'[i].state = "Whole" PROVE Within(data[i].value)'
  <2>1. data'[i] = data[i] /\ data[i].value \in Value /\ Within(data[i].value)
    BY <1>6, <1>8, Contents DEF TypeOK, StoreTypeOK, TrustInv
  <2> QED
    BY <1>5, <2>1 DEF Within
<1> QED
  BY <1>3, <1>4, <1>6, <1>7, <1>8 DEF TrustInv, Within

LEMMA TrustClear ==
  ASSUME TypeOK, TrustInv, NEW c \in Calls, NEW d \in Devices, Clear(d, c)
  PROVE  TrustInv'
<1>1. peers' \in Value
  BY ValueAssumption, TrustAssumption DEF Clear, TypeOK
<1>2. Within(peers')
  <2>1. \A k \in Keys : granted[k] \in Nat /\ peers'[k] \in {0, peers[k]}
    BY TrustAssumption DEF Clear, TypeOK
  <2> QED
    BY <2>1 DEF TrustInv, Within
<1>3. UNCHANGED <<now, granted>>
  BY DEF Clear
<1>4. CASE Write(c, peers')
  BY <1>1, <1>2, <1>3, <1>4, TrustWrite DEF Within
<1>5. CASE UNCHANGED <<storeVars, peers>>
  BY <1>3, <1>5, TrustEnds DEF storeVars, Pending
<1> QED
  BY <1>4, <1>5 DEF Clear

LEMMA TrustLoad ==
  ASSUME TypeOK, TrustInv, Load
  PROVE  TrustInv'
<1>1. UNCHANGED <<now, granted>>
  BY DEF Load, historyVars
<1>2. CASE UNCHANGED storeVars /\ peers' \in {peers, NoPeers}
  BY <1>1, <1>2, TrustEnds DEF storeVars, Pending
<1>3. CASE Found.state = "Whole" /\ peers' = Valid(Found.value)
           /\ (UNCHANGED storeVars \/ \E c \in Calls : Write(c, peers'))
  <2>1. /\ file \in Inodes /\ Found = data[file]
        /\ Found.value \in [Keys -> Expiries] /\ Within(Found.value)
    BY <1>3, FoundType DEF TypeOK, TrustInv
  <2>2. peers' \in [Keys -> Expiries] /\ \A k \in Keys : peers'[k] <= Found.value[k]
    BY <1>3, <2>1, ValidDrops
  <2>3. \A k \in Keys : peers'[k] \in Nat /\ Found.value[k] \in Nat /\ granted[k] \in Nat
    BY <2>1, <2>2, TrustAssumption DEF Expiries, TypeOK
  <2>4. Within(peers')
    BY <2>1, <2>2, <2>3 DEF Within
  <2>5. CASE UNCHANGED storeVars
    BY <1>1, <2>4, <2>5 DEF storeVars, TrustInv, Within, Pending
  <2>6. CASE \E c \in Calls : Write(c, peers')
    BY <1>1, <2>2, <2>4, <2>6, TrustWrite, ValueAssumption DEF Expiries, Within
  <2> QED
    BY <1>3, <2>5, <2>6
<1> QED
  BY <1>2, <1>3 DEF Load

LEMMA TrustNext == TypeOK /\ TrustInv /\ [Next]_vars => TrustInv'
<1> SUFFICES ASSUME TypeOK, TrustInv, [Next]_vars PROVE TrustInv'
  OBVIOUS
<1>1. CASE Stop
  BY <1>1, TrustEnds DEF Stop, EndCalls, EndCallsOf, Pending
<1>2. CASE Tick
  <2>1. UNCHANGED <<peers, granted, call, value, data>> /\ now' = now + 1
    BY <1>2 DEF Tick, storeVars, historyVars
  <2>2. \A k \in Keys : granted[k] <= now' + TrustDuration
    BY <2>1, TrustAssumption DEF TrustInv, TypeOK
  <2> QED
    BY <2>1, <2>2 DEF TrustInv, Within, Pending
<1>3. ASSUME NEW c \in Calls, Finish(c) PROVE TrustInv'
  <2>1. /\ UNCHANGED <<peers, now, granted, data>>
        /\ call' = [call EXCEPT ![c] = "Idle"] /\ value' = [value EXCEPT ![c] = Unwritten]
    BY <1>3 DEF Finish, Return
  <2>2. \A d \in Calls : Pending(d)' => Pending(d) /\ value'[d] = value[d]
    BY <2>1 DEF Pending, TypeOK, StoreTypeOK
  <2> QED
    BY <2>1, <2>2, TrustEnds
<1>4. CASE UNCHANGED vars
  BY <1>4 DEF vars, storeVars, trustVars, historyVars, TrustInv, Within, Pending
<1> QED
  BY <1>1, <1>2, <1>3, <1>4, TrustLoad, TrustGrant, TrustClear, TrustFileOperation
  DEF Next, StoreOperation, trustVars, historyVars

\* Whatever old file overlapping or broken writes bring back, no entry lasts
\* longer than it was granted for, and none comes from nowhere.
THEOREM TrustNeverProlongedHolds == Spec => []TrustNeverProlonged
<1>1. Init => TypeOK /\ TrustInv
  <2> SUFFICES ASSUME Init PROVE TrustInv
    BY TypeInit
  <2>1. \A k \in Keys : peers[k] = 0 /\ granted[k] = 0
    BY DEF Init, NoPeers
  <2>2. now + TrustDuration >= 0
    BY TrustAssumption DEF Init
  <2>3. \A i \in Inodes : data[i].state # "Whole"
    BY Contents DEF Init, StoreInit
  <2>4. \A c \in Calls : ~Pending(c)
    BY DEF Init, StoreInit, Pending
  <2> QED
    BY <2>1, <2>2, <2>3, <2>4 DEF TrustInv, Within
<1>2. TypeOK /\ TrustInv /\ [Next]_vars => (TypeOK /\ TrustInv)'
  BY TypeNext, TrustNext
<1>3. TypeOK /\ TrustInv => TrustNeverProlonged
  BY FoundType DEF TrustInv, Within, TrustNeverProlonged, TypeOK
<1> QED
  BY <1>1, <1>2, <1>3, PTL DEF Spec

=============================================================================
