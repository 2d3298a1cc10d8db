-------------------------- MODULE AtomicJsonStore --------------------------
(***************************************************************************)
(* A JSON file replaced as a whole (src/main/storage/AtomicJsonStore.ts):  *)
(* each write creates the directory, fills a temporary file of a fixed     *)
(* name and renames it over the file.  Nothing orders two writes, so the   *)
(* calls of one process run side by side, one file operation at a time.    *)
(*                                                                         *)
(* A path names an inode, and a call that has opened the temporary file    *)
(* keeps writing to that inode whatever the path names afterwards.         *)
(***************************************************************************)
EXTENDS Integers, FiniteSets

CONSTANTS
  Calls,     \* write calls that may be pending at once (bound)
  Value      \* what the file may hold

ASSUME CallsAssumption == IsFiniteSet(Calls)
ASSUME ValuesAssumption == Value # {}

VARIABLES
  call,      \* call[c]: how far the write call c is
  value,     \* value[c]: what c writes, fixed when it was called
  fd,        \* fd[c]: the inode c has opened
  tmp,       \* inode the temporary path names, 0 for none
  file,      \* inode the file's path names, 0 for none
  data,      \* data[i]: what inode i holds
  overlapped \* history: a write was called while another was pending

storeVars == <<call, value, fd, tmp, file, data, overlapped>>

Steps == {"Idle", "MakeDirectory", "OpenTemporary", "WriteTemporary", "Rename",
          "Done", "Failed"}

Empty == [state |-> "Empty"]
Torn == [state |-> "Torn"]     \* no longer JSON
Whole(v) == [state |-> "Whole", value |-> v]
Content == {Empty, Torn} \cup [state : {"Whole"}, value : Value]

\* One inode for each open call, one for each path.
Inodes == 1 .. Cardinality(Calls) + 2

\* What stands for the value of a call that has none.
Unwritten == CHOOSE v \in Value : TRUE

Pending(c) == call[c] \notin {"Idle", "Done", "Failed"}

StoreTypeOK ==
  /\ call \in [Calls -> Steps]
  /\ value \in [Calls -> Value]
  /\ fd \in [Calls -> Inodes \cup {0}]
  /\ tmp \in Inodes \cup {0}
  /\ file \in Inodes \cup {0}
  /\ data \in [Inodes -> Content]
  /\ overlapped \in BOOLEAN

StoreInit ==
  /\ call = [c \in Calls |-> "Idle"]
  /\ value = [c \in Calls |-> Unwritten]
  /\ fd = [c \in Calls |-> 0]
  /\ tmp = 0
  /\ file = 0
  /\ data = [i \in Inodes |-> Empty]
  /\ overlapped = FALSE

-----------------------------------------------------------------------------

\* What a reader finds; a torn file makes JSON.parse throw.
Found == IF file = 0 THEN [state |-> "Missing"] ELSE data[file]

\* write(v), up to its first await.
Write(c, v) ==
  /\ call[c] = "Idle"
  /\ call' = [call EXCEPT ![c] = "MakeDirectory"]
  /\ value' = [value EXCEPT ![c] = v]
  /\ overlapped' = (overlapped \/ \E d \in Calls : Pending(d))
  /\ UNCHANGED <<fd, tmp, file, data>>

MakeDirectory(c) ==
  /\ call[c] = "MakeDirectory"
  /\ call' = [call EXCEPT ![c] = "OpenTemporary"]
  /\ UNCHANGED <<value, fd, tmp, file, data, overlapped>>

\* Slip: the file itself is opened and rewritten.
OpenInPlace(c) ==
  LET unused == Inodes \ ({tmp, file} \cup {fd[d] : d \in Calls \ {c}})
      i == IF file = 0 THEN CHOOSE j \in unused : TRUE ELSE file
  IN /\ call[c] = "OpenTemporary"
     /\ call' = [call EXCEPT ![c] = "WriteTemporary"]
     /\ fd' = [fd EXCEPT ![c] = i]
     /\ file' = i
     /\ data' = [data EXCEPT ![i] = Empty]
     /\ UNCHANGED <<value, tmp, overlapped>>

\* writeFile opens the path for writing and empties it, whoever else has it
\* open.
OpenTemporary(c) ==
  LET unused == Inodes \ ({tmp, file} \cup {fd[d] : d \in Calls \ {c}})
      i == IF tmp = 0 THEN CHOOSE j \in unused : TRUE ELSE tmp
  IN /\ call[c] = "OpenTemporary"
     /\ call' = [call EXCEPT ![c] = "WriteTemporary"]
     /\ fd' = [fd EXCEPT ![c] = i]
     /\ tmp' = i
     /\ data' = [data EXCEPT ![i] = Empty]
     /\ UNCHANGED <<value, file, overlapped>>

\* The text goes to the start of the inode.  Over another call's text it
\* leaves JSON only if it is not the shorter one.
WriteTemporary(c) ==
  LET i == fd[c]
      over == data[i] \notin {Empty, Whole(value[c])}
  IN /\ call[c] = "WriteTemporary"
     /\ call' = [call EXCEPT ![c] = "Rename"]
     /\ \E d \in {Whole(value[c])} \cup (IF over THEN {Torn} ELSE {}) :
          data' = [data EXCEPT ![i] = d]
     /\ fd' = [fd EXCEPT ![c] = 0]
     /\ UNCHANGED <<value, tmp, file, overlapped>>

\* An inode that no path and no call names is gone.
Forget(i) == IF i # 0 /\ \A c \in Calls : fd[c] # i THEN [data EXCEPT ![i] = Empty] ELSE data

\* The temporary path may name what another call is still filling, or, once
\* another call has renamed it, nothing.
Rename(c) ==
  /\ call[c] = "Rename"
  /\ IF tmp = 0
     THEN /\ call' = [call EXCEPT ![c] = "Failed"]
          /\ UNCHANGED <<tmp, file, data>>
     ELSE /\ call' = [call EXCEPT ![c] = "Done"]
          /\ file' = tmp
          /\ tmp' = 0
          /\ data' = Forget(file)
  /\ UNCHANGED <<value, fd, overlapped>>

\* A file operation fails; a write may have got half-way.
FailFileOperation(c) ==
  /\ Pending(c)
  /\ call' = [call EXCEPT ![c] = "Failed"]
  /\ fd' = [fd EXCEPT ![c] = 0]
  /\ data' = IF call[c] = "WriteTemporary" THEN [data EXCEPT ![fd[c]] = Torn] ELSE data
  /\ UNCHANGED <<value, tmp, file, overlapped>>

\* The caller takes note of the outcome and forgets what it wrote.
Return(c) ==
  /\ call[c] \in {"Done", "Failed"}
  /\ call' = [call EXCEPT ![c] = "Idle"]
  /\ value' = [value EXCEPT ![c] = Unwritten]
  /\ UNCHANGED <<fd, tmp, file, data, overlapped>>

\* A process ends: its calls are gone, the files stay as they are.
EndCallsOf(ended) ==
  /\ call' = [c \in Calls |-> IF c \in ended THEN "Idle" ELSE call[c]]
  /\ fd' = [c \in Calls |-> IF c \in ended THEN 0 ELSE fd[c]]
  /\ value' = [c \in Calls |-> IF c \in ended THEN Unwritten ELSE value[c]]
  /\ UNCHANGED <<tmp, file, data, overlapped>>

EndCalls == EndCallsOf(Calls)

FileOperation(c) ==
  MakeDirectory(c) \/ OpenTemporary(c) \/ WriteTemporary(c) \/ Rename(c)

-----------------------------------------------------------------------------

\* What the name promises, as long as writes do not overlap: a reader finds a
\* whole value or no file at all, even if the process ended or an operation
\* failed at any point.
FileIsWhole == ~overlapped => Found.state \in {"Missing", "Whole"}

=============================================================================
