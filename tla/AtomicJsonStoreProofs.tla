------------------------ MODULE AtomicJsonStoreProofs ------------------------
(***************************************************************************)
(* What is proved of the file below every service that keeps one, for any  *)
(* number of calls and any values.  The modules that EXTEND AtomicJsonStore *)
(* cite these lemmas in the proofs of their own invariants.                *)
(*                                                                         *)
(* The types need one fact about numbers: there are more inodes than a     *)
(* call that opens one can find in use.  With one writer at a time the     *)
(* file's inode is whole and is not the one being written.                 *)
(***************************************************************************)
EXTENDS AtomicJsonStore, FiniteSetTheorems, TLAPS

-----------------------------------------------------------------------------
(* The file                                                                *)

\* Inodes a call may take for its temporary file (OpenTemporary).
Unused(c) == Inodes \ ({tmp, file} \cup {fd[d] : d \in Calls \ {c}})

\* One more element makes a set larger by one at most.
LEMMA AddOne ==
  ASSUME NEW S, IsFiniteSet(S), NEW x
  PROVE  /\ IsFiniteSet(S \cup {x})
         /\ Cardinality(S \cup {x}) \in Nat
         /\ Cardinality(S \cup {x}) <= Cardinality(S) + 1
<1>1. Cardinality(S) \in Nat
  BY FS_CardinalityType
<1>2. /\ IsFiniteSet(S \cup {x})
      /\ Cardinality(S \cup {x}) = IF x \in S THEN Cardinality(S) ELSE Cardinality(S) + 1
  BY FS_AddElement, Zenon
<1> QED
  BY <1>1, <1>2

\* At most Calls + 1 inodes are in use besides the caller's own.
LEMMA UnusedExists ==
  ASSUME NEW c \in Calls
  PROVE  Unused(c) # {}
<1> DEFINE n == Cardinality(Calls)
           S == Calls \ {c}
           A == {fd[d] : d \in S}
           U == {tmp, file} \cup A
<1>1. /\ n \in Nat /\ IsFiniteSet(S) /\ Cardinality(S) = n - 1
  BY CallsAssumption, FS_CardinalityType, FS_RemoveElement
<1>2. IsFiniteSet(A) /\ Cardinality(A) <= n - 1
  <2> DEFINE f == [d \in S |-> fd[d]]
  <2>1. f \in Surjection(S, A)
    BY DEF Surjection
  <2>2. IsFiniteSet(A) /\ Cardinality(A) <= Cardinality(S)
    <3> HIDE DEF f, A, S
    <3> QED
      BY <1>1, <2>1, FS_Surjection
  <2> QED
    BY <1>1, <2>2
<1>3. IsFiniteSet(U) /\ Cardinality(U) <= n + 1
  <2>1. U = (A \cup {tmp}) \cup {file}
    OBVIOUS
  <2>2. Cardinality(A) \in Nat
    BY <1>2, FS_CardinalityType
  <2>3. /\ IsFiniteSet(A \cup {tmp})
        /\ Cardinality(A \cup {tmp}) \in Nat
        /\ Cardinality(A \cup {tmp}) <= Cardinality(A) + 1
    BY <1>2, AddOne
  <2>4. /\ IsFiniteSet((A \cup {tmp}) \cup {file})
        /\ Cardinality((A \cup {tmp}) \cup {file}) \in Nat
        /\ Cardinality((A \cup {tmp}) \cup {file}) <= Cardinality(A \cup {tmp}) + 1
    BY <2>3, AddOne
  <2> HIDE DEF n, A, U
  <2> QED
    BY <1>1, <1>2, <2>1, <2>2, <2>3, <2>4
<1>4. Cardinality(Inodes) = n + 2
  BY <1>1, FS_Interval DEF Inodes
<1>5. ASSUME Inodes \subseteq U PROVE FALSE
  <2> HIDE DEF U, n
  <2>1. Cardinality(Inodes) <= Cardinality(U)
    BY <1>3, <1>5, FS_Subset
  <2>2. Cardinality(U) \in Nat
    BY <1>3, FS_CardinalityType
  <2> QED
    BY <1>1, <1>3, <1>4, <2>1, <2>2
<1> QED
  BY <1>5 DEF Unused

\* A call opens an inode that is there, and neither the file's nor another
\* call's unless the temporary path names it.
LEMMA Opens ==
  ASSUME StoreTypeOK, NEW c \in Calls, OpenTemporary(c)
  PROVE  \E i \in Inodes :
           /\ call[c] = "OpenTemporary"
           /\ i = tmp \/ (tmp = 0 /\ i # file)
           /\ call' = [call EXCEPT ![c] = "WriteTemporary"]
           /\ fd' = [fd EXCEPT ![c] = i] /\ tmp' = i
           /\ data' = [data EXCEPT ![i] = Empty]
           /\ UNCHANGED <<value, file, overlapped>>
<1> DEFINE i == IF tmp = 0 THEN CHOOSE j \in Unused(c) : TRUE ELSE tmp
<1>1. (CHOOSE j \in Unused(c) : TRUE) \in Unused(c)
  BY UnusedExists
<1>2. i \in Inodes /\ (i = tmp \/ (tmp = 0 /\ i # file))
  BY <1>1 DEF StoreTypeOK, Unused
<1>3. /\ call[c] = "OpenTemporary"
      /\ call' = [call EXCEPT ![c] = "WriteTemporary"]
      /\ fd' = [fd EXCEPT ![c] = i] /\ tmp' = i
      /\ data' = [data EXCEPT ![i] = Empty]
      /\ UNCHANGED <<value, file, overlapped>>
  BY DEF OpenTemporary, Unused
<1> HIDE DEF i
<1> QED
  BY <1>2, <1>3

\* What an inode may hold, by its state.
LEMMA Contents ==
  /\ Empty \in Content /\ Empty.state # "Whole"
  /\ Torn \in Content /\ Torn.state # "Whole"
  /\ \A v \in Value : Whole(v) \in Content /\ Whole(v).state = "Whole" /\ Whole(v).value = v
  /\ \A x \in Content : x.state = "Whole" => x.value \in Value /\ x = Whole(x.value)
  BY DEF Content, Empty, Torn, Whole

-----------------------------------------------------------------------------
(* Types                                                                   *)

LEMMA UnwrittenType == Unwritten \in Value
  BY ValuesAssumption DEF Unwritten

LEMMA StoreInitType == StoreInit => StoreTypeOK
<1> SUFFICES ASSUME StoreInit PROVE StoreTypeOK
  OBVIOUS
<1> QED
  BY UnwrittenType, Contents DEF StoreInit, StoreTypeOK, Steps

\* What a reader finds is one of four things, and a value when it is whole.
LEMMA Findings ==
  ASSUME StoreTypeOK
  PROVE  /\ Found.state \in {"Missing", "Empty", "Torn", "Whole"}
         /\ Found.state = "Missing" <=> file = 0
         /\ Found.state = "Whole" =>
              /\ file \in Inodes /\ Found = data[file]
              /\ Found.value \in Value /\ Found = Whole(Found.value)
<1>1. CASE file = 0
  BY <1>1 DEF Found
<1>2. CASE file # 0
  <2>1. Found = data[file] /\ file \in Inodes
    BY <1>2 DEF Found, StoreTypeOK
  <2>2. data[file] \in Content
    BY <2>1 DEF StoreTypeOK
  <2>3. data[file].state \in {"Empty", "Torn", "Whole"}
    BY <2>2 DEF Content, Empty, Torn
  <2> QED
    BY <1>2, <2>1, <2>2, <2>3, Contents
<1> QED
  BY <1>1, <1>2

LEMMA WriteType ==
  ASSUME StoreTypeOK, NEW c \in Calls, NEW v \in Value, Write(c, v)
  PROVE  StoreTypeOK'
  BY DEF StoreTypeOK, Write, Steps

LEMMA FileOperationType ==
  ASSUME StoreTypeOK, NEW c \in Calls, FileOperation(c) \/ FailFileOperation(c)
  PROVE  StoreTypeOK'
<1>1. CASE MakeDirectory(c)
  BY <1>1 DEF MakeDirectory, StoreTypeOK, Steps
<1>2. CASE OpenTemporary(c)
  BY <1>2, Opens, Contents DEF StoreTypeOK, Steps
<1>3. CASE WriteTemporary(c)
  <2>1. PICK d \in {Whole(value[c]), Torn} : data' = [data EXCEPT ![fd[c]] = d]
    BY <1>3 DEF WriteTemporary
  <2>2. d \in Content
    BY Contents DEF StoreTypeOK
  <2>3. data' \in [Inodes -> Content]
    BY <2>1, <2>2 DEF StoreTypeOK
  <2> QED
    BY <1>3, <2>3 DEF WriteTemporary, StoreTypeOK, Steps
<1>4. CASE Rename(c)
  <2>1. Forget(file) \in [Inodes -> Content]
    BY Contents DEF Forget, StoreTypeOK
  <2>2. data' \in [Inodes -> Content]
    BY <1>4, <2>1 DEF Rename, StoreTypeOK
  <2> QED
    BY <1>4, <2>2 DEF Rename, StoreTypeOK, Steps
<1>5. CASE FailFileOperation(c)
  <2>1. data' \in [Inodes -> Content]
    BY <1>5, Contents DEF FailFileOperation, StoreTypeOK
  <2> QED
    BY <1>5, <2>1 DEF FailFileOperation, StoreTypeOK, Steps
<1> QED
  BY <1>1, <1>2, <1>3, <1>4, <1>5 DEF FileOperation

\* A call that returns, and the calls of processes that end.
LEMMA ReturnType ==
  ASSUME StoreTypeOK, NEW c \in Calls, Return(c)
  PROVE  StoreTypeOK'
  BY UnwrittenType DEF Return, StoreTypeOK, Steps

LEMMA EndCallsType ==
  ASSUME StoreTypeOK, NEW S, EndCallsOf(S)
  PROVE  StoreTypeOK'
  BY UnwrittenType DEF EndCallsOf, StoreTypeOK, Steps

-----------------------------------------------------------------------------
(* One writer at a time leaves the file whole                              *)

\* Why: the call that writes is the only one, what it empties and fills is
\* the inode of the temporary path, and that is never the file's.
OneWriter ==
  /\ \A c, d \in Calls : Pending(c) /\ Pending(d) => c = d
  /\ \A c \in Calls : call[c] = "WriteTemporary" => fd[c] = tmp /\ tmp # 0 /\ data[tmp] = Empty
  /\ \A c \in Calls : call[c] = "Rename" => tmp # 0 /\ data[tmp] = Whole(value[c])
  /\ tmp # 0 => tmp # file
  /\ file # 0 => data[file].state = "Whole"

WholeInv == ~overlapped => OneWriter

LEMMA WholeWrite ==
  ASSUME StoreTypeOK, WholeInv, NEW c \in Calls, NEW v, Write(c, v)
  PROVE  WholeInv'
<1> SUFFICES ASSUME ~overlapped' PROVE OneWriter'
  BY DEF WholeInv
<1>1. ~overlapped /\ \A d \in Calls : ~Pending(d)
  BY DEF Write
<1>2. OneWriter
  BY <1>1 DEF WholeInv
<1>3. /\ UNCHANGED <<fd, tmp, file, data>>
      /\ call' = [call EXCEPT ![c] = "MakeDirectory"]
  BY DEF Write
<1>4. \A d \in Calls : d # c => call'[d] = call[d]
  BY <1>3 DEF StoreTypeOK
<1>5. call'[c] = "MakeDirectory"
  BY <1>3 DEF StoreTypeOK
<1> QED
  BY <1>1, <1>2, <1>3, <1>4, <1>5 DEF OneWriter, Pending

\* With one writer, no other call is pending.
LEMMA OthersIdle ==
  ASSUME OneWriter, NEW c \in Calls, Pending(c), NEW d \in Calls, d # c
  PROVE  ~Pending(d)
  BY DEF OneWriter

LEMMA WholeFileOperation ==
  ASSUME StoreTypeOK, WholeInv, NEW c \in Calls, FileOperation(c) \/ FailFileOperation(c)
  PROVE  WholeInv'
<1> SUFFICES ASSUME ~overlapped' PROVE OneWriter'
  BY DEF WholeInv
<1>1. ~overlapped /\ OneWriter
  BY DEF FileOperation, MakeDirectory, OpenTemporary, WriteTemporary, Rename,
         FailFileOperation, WholeInv
<1>v. UNCHANGED value
  BY DEF FileOperation, MakeDirectory, OpenTemporary, WriteTemporary, Rename,
         FailFileOperation
<1>2. Pending(c)
  BY DEF FileOperation, MakeDirectory, OpenTemporary, WriteTemporary, Rename,
         FailFileOperation, Pending
<1>3. \A d \in Calls : d # c => ~Pending(d)
  BY <1>1, <1>2, OthersIdle
<1>4. \A d \in Calls : d # c => call'[d] = call[d]
  BY DEF FileOperation, MakeDirectory, OpenTemporary, WriteTemporary, Rename,
         FailFileOperation, StoreTypeOK
<1>5. \A d \in Calls : d # c => ~Pending(d)'
  BY <1>3, <1>4 DEF Pending
<1>6. (\A d, e \in Calls : Pending(d) /\ Pending(e) => d = e)'
  BY <1>5
<1>7. \A d \in Calls : call'[d] \in {"WriteTemporary", "Rename"} => d = c
  BY <1>5 DEF Pending
<1>8. CASE MakeDirectory(c)
  <2>1. call'[c] = "OpenTemporary" /\ UNCHANGED <<fd, tmp, file, data>>
    BY <1>8 DEF MakeDirectory, StoreTypeOK
  <2> QED
    BY <1>1, <1>6, <1>7, <2>1 DEF OneWriter
<1>9. CASE OpenTemporary(c)
  <2>1. PICK i \in Inodes :
          /\ i = tmp \/ (tmp = 0 /\ i # file)
          /\ call' = [call EXCEPT ![c] = "WriteTemporary"]
          /\ fd' = [fd EXCEPT ![c] = i] /\ tmp' = i
          /\ data' = [data EXCEPT ![i] = Empty]
          /\ UNCHANGED file
    BY <1>9, Opens
  <2>2. i # 0 /\ i # file
    BY <1>1, <2>1 DEF OneWriter, Inodes
  <2>3. call'[c] = "WriteTemporary" /\ fd'[c] = i /\ data'[i] = Empty
    BY <2>1 DEF StoreTypeOK
  <2>4. file' = file /\ (file # 0 => data'[file] = data[file])
    BY <2>1, <2>2 DEF StoreTypeOK
  <2> QED
    BY <1>1, <1>6, <1>7, <2>1, <2>2, <2>3, <2>4 DEF OneWriter
<1>10. CASE WriteTemporary(c)
  <2>1. fd[c] = tmp /\ tmp # 0 /\ data[tmp] = Empty /\ tmp # file
    BY <1>1, <1>10 DEF WriteTemporary, OneWriter
  <2>2. data' = [data EXCEPT ![tmp] = Whole(value[c])] /\ UNCHANGED <<tmp, file>>
    BY <1>10, <2>1 DEF WriteTemporary
  <2>3. call'[c] = "Rename"
    BY <1>10 DEF WriteTemporary, StoreTypeOK
  <2>4. tmp \in Inodes
    BY <2>1 DEF StoreTypeOK
  <2>5. data'[tmp] = Whole(value'[c])
    BY <1>v, <2>2, <2>4 DEF StoreTypeOK
  <2>6. file # 0 => data'[file] = data[file]
    BY <2>1, <2>2 DEF StoreTypeOK
  <2> QED
    BY <1>1, <1>6, <1>7, <2>1, <2>2, <2>3, <2>5, <2>6 DEF OneWriter
<1>11. CASE Rename(c)
  <2>1. tmp # 0 /\ data[tmp].state = "Whole" /\ tmp # file
    BY <1>1, <1>11, Contents DEF Rename, OneWriter, StoreTypeOK
  <2>2. /\ call'[c] = "Done" /\ file' = tmp /\ tmp' = 0 /\ data' = Forget(file)
    BY <1>11, <2>1 DEF Rename, StoreTypeOK
  <2>3. data'[tmp] = data[tmp]
    BY <2>1, <2>2 DEF Forget, StoreTypeOK
  <2> QED
    BY <1>6, <1>7, <2>1, <2>2, <2>3 DEF OneWriter
<1>12. CASE FailFileOperation(c)
  <2>1. call'[c] = "Failed" /\ UNCHANGED <<tmp, file>>
    BY <1>12 DEF FailFileOperation, StoreTypeOK
  <2>2. file # 0 => data'[file] = data[file]
    <3>1. CASE call[c] = "WriteTemporary"
      <4>1. fd[c] = tmp /\ tmp # file
        BY <1>1, <3>1 DEF OneWriter
      <4> QED
        BY <1>12, <3>1, <4>1 DEF FailFileOperation, StoreTypeOK
    <3>2. CASE call[c] # "WriteTemporary"
      BY <1>12, <3>2 DEF FailFileOperation
    <3> QED
      BY <3>1, <3>2
  <2> QED
    BY <1>1, <1>6, <1>7, <2>1, <2>2 DEF OneWriter
<1> QED
  BY <1>8, <1>9, <1>10, <1>11, <1>12 DEF FileOperation

\* The file keeps what it holds until the one writer puts its value there.
LEMMA FileChanges ==
  ASSUME StoreTypeOK, OneWriter, NEW c \in Calls, FileOperation(c) \/ FailFileOperation(c)
  PROVE  /\ UNCHANGED <<value, overlapped>> /\ Pending(c)
         /\ \A d \in Calls : d # c => ~Pending(d) /\ call'[d] = call[d]
         /\ \/ /\ call'[c] = "Failed" \/ Pending(c)'
               /\ call'[c] # "Done"
               /\ file' = file /\ (file # 0 => data'[file] = data[file])
            \/ /\ call'[c] = "Done"
               /\ file' # 0 /\ data'[file'] = Whole(value[c])
<1>1. UNCHANGED <<value, overlapped>>
  BY DEF FileOperation, MakeDirectory, OpenTemporary, WriteTemporary, Rename,
         FailFileOperation
<1>2. Pending(c)
  BY DEF FileOperation, MakeDirectory, OpenTemporary, WriteTemporary, Rename,
         FailFileOperation, Pending
<1>3. \A d \in Calls : d # c => ~Pending(d) /\ call'[d] = call[d]
  <2>1. \A d \in Calls : d # c => ~Pending(d)
    BY <1>2, OthersIdle
  <2>2. \A d \in Calls : d # c => call'[d] = call[d]
    BY DEF FileOperation, MakeDirectory, OpenTemporary, WriteTemporary, Rename,
           FailFileOperation, StoreTypeOK
  <2> QED
    BY <2>1, <2>2
<1>4. CASE MakeDirectory(c)
  BY <1>1, <1>2, <1>3, <1>4 DEF MakeDirectory, Pending, StoreTypeOK
<1>5. CASE OpenTemporary(c)
  <2>1. PICK i \in Inodes :
          /\ i = tmp \/ (tmp = 0 /\ i # file)
          /\ call' = [call EXCEPT ![c] = "WriteTemporary"]
          /\ data' = [data EXCEPT ![i] = Empty]
          /\ UNCHANGED file
    BY <1>5, Opens
  <2>2. i # file
    BY <2>1 DEF OneWriter, Inodes
  <2>3. Pending(c)' /\ call'[c] # "Done" /\ (file # 0 => data'[file] = data[file])
    BY <2>1, <2>2 DEF Pending, StoreTypeOK
  <2> QED
    BY <1>1, <1>2, <1>3, <2>1, <2>3
<1>6. CASE WriteTemporary(c)
  <2>1. fd[c] = tmp /\ tmp # file
    BY <1>6 DEF WriteTemporary, OneWriter
  <2>2. UNCHANGED file /\ (file # 0 => data'[file] = data[file])
    BY <1>6, <2>1 DEF WriteTemporary, StoreTypeOK
  <2>3. Pending(c)' /\ call'[c] # "Done"
    BY <1>6 DEF WriteTemporary, Pending, StoreTypeOK
  <2> QED
    BY <1>1, <1>2, <1>3, <2>2, <2>3
<1>7. CASE Rename(c)
  <2>1. tmp # 0 /\ data[tmp] = Whole(value[c]) /\ tmp # file
    BY <1>7 DEF Rename, OneWriter
  <2>2. call'[c] = "Done" /\ file' = tmp /\ data' = Forget(file)
    BY <1>7, <2>1 DEF Rename, StoreTypeOK
  <2>3. data'[tmp] = data[tmp]
    BY <2>1, <2>2 DEF Forget, StoreTypeOK
  <2> QED
    BY <1>1, <1>2, <1>3, <2>1, <2>2, <2>3
<1>8. CASE FailFileOperation(c)
  <2>1. call'[c] = "Failed" /\ UNCHANGED file
    BY <1>8 DEF FailFileOperation, StoreTypeOK
  <2>2. file # 0 => data'[file] = data[file]
    <3>1. CASE call[c] = "WriteTemporary"
      <4>1. fd[c] = tmp /\ tmp # file
        BY <3>1 DEF OneWriter
      <4> QED
        BY <1>8, <3>1, <4>1 DEF FailFileOperation, StoreTypeOK
    <3>2. CASE call[c] # "WriteTemporary"
      BY <1>8, <3>2 DEF FailFileOperation
    <3> QED
      BY <3>1, <3>2
  <2> QED
    BY <1>1, <1>2, <1>3, <2>1, <2>2
<1> QED
  BY <1>4, <1>5, <1>6, <1>7, <1>8 DEF FileOperation

\* Calls that end or are forgotten leave the paths and inodes alone.
LEMMA WholeEnds ==
  ASSUME StoreTypeOK, WholeInv, UNCHANGED <<tmp, file, data, overlapped>>,
         \A c \in Calls : Pending(c)' =>
           call'[c] = call[c] /\ fd'[c] = fd[c] /\ value'[c] = value[c]
  PROVE  WholeInv'
<1> SUFFICES ASSUME OneWriter PROVE OneWriter'
  BY DEF WholeInv
<1>1. \A c \in Calls : Pending(c)' => Pending(c)
  BY DEF Pending
<1>2. \A c \in Calls : call'[c] \in {"WriteTemporary", "Rename"} => Pending(c)'
  BY DEF Pending
<1> QED
  BY <1>1, <1>2 DEF OneWriter

LEMMA WholeReturn ==
  ASSUME StoreTypeOK, WholeInv, NEW c \in Calls, Return(c)
  PROVE  WholeInv'
<1>1. /\ UNCHANGED <<fd, tmp, file, data, overlapped>>
      /\ call' = [call EXCEPT ![c] = "Idle"] /\ value' = [value EXCEPT ![c] = Unwritten]
  BY DEF Return
<1>2. \A d \in Calls : Pending(d)' =>
        call'[d] = call[d] /\ fd'[d] = fd[d] /\ value'[d] = value[d]
  BY <1>1 DEF Pending, StoreTypeOK
<1> QED
  BY <1>1, <1>2, WholeEnds

LEMMA WholeEndCalls ==
  ASSUME StoreTypeOK, WholeInv, NEW S, EndCallsOf(S)
  PROVE  WholeInv'
<1>1. UNCHANGED <<tmp, file, data, overlapped>>
  BY DEF EndCallsOf
<1>2. \A d \in Calls : Pending(d)' =>
        call'[d] = call[d] /\ fd'[d] = fd[d] /\ value'[d] = value[d]
  BY DEF EndCallsOf, Pending
<1> QED
  BY <1>1, <1>2, WholeEnds

LEMMA WholeInit == StoreInit => WholeInv
  BY DEF StoreInit, WholeInv, OneWriter, Pending

LEMMA WholeStutters == WholeInv /\ UNCHANGED storeVars => WholeInv'
  BY DEF storeVars, WholeInv, OneWriter, Pending

LEMMA WholeReads == WholeInv => FileIsWhole
  BY DEF WholeInv, OneWriter, FileIsWhole, Found

\* What a call to write leaves to be done.
LEMMA Writes ==
  ASSUME StoreTypeOK, NEW c \in Calls, NEW v, Write(c, v)
  PROVE  /\ Pending(c)' /\ call'[c] = "MakeDirectory" /\ value'[c] = v
         /\ \A d \in Calls : d # c => call'[d] = call[d] /\ value'[d] = value[d]
         /\ UNCHANGED <<file, data>>
         /\ ~overlapped' => ~overlapped /\ \A d \in Calls : ~Pending(d)
  BY DEF StoreTypeOK, Write, Pending

=============================================================================
