---------------------------- MODULE ProcessProofs ----------------------------
(***************************************************************************)
(* The process and what it keeps: proofs about SnapshotStore, the file of  *)
(* a store, for any number of callers and writes, and about Server, from   *)
(* start to exit, for any number of requests, clients and currencies.      *)
(***************************************************************************)
EXTENDS SnapshotStore, Server, WellFoundedInduction, TLAPS

-----------------------------------------------------------------------------
(* The file of a store.                                                    *)

\* Only the holder of the lock is past it, and what it has done so far.
Inside == {"apply", "return"} \cup Saving
CallInv ==
    \A c \in Calls :
       /\ call[c].pc # "idle" => up /\ call[c] \in CallStates
       /\ call[c].pc \in Inside => mu = c
       /\ call[c].pc \in Saving => call[c].write \in memory
       /\ call[c].pc \in {"encode", "sync", "rename"} => temp \in Files /\ temp.data = memory
       /\ call[c].pc = "rename" => temp.complete /\ temp.synced
       /\ call[c].pc = "return" => call[c].write \in Contents(path)

\* A file that ever gets the store's name is whole and on the medium.
Whole(file) == file # NoFile => file.complete /\ file.synced
FileInv == Whole(path) /\ Whole(onDisk)

\* The memory only runs ahead of the file.
AheadInv == up => Contents(path) \subseteq memory

\* What the file lacks is being saved, or its save failed.
SavedInv ==
    \A w \in memory \ unsaved : \/ w \in Contents(path)
                                \/ \E c \in Calls : call[c].pc \in Saving /\ call[c].write = w

IInv == TypeOK /\ CallInv /\ FileInv /\ AheadInv /\ SavedInv /\ AckedAreStored

-----------------------------------------------------------------------------
\* A caller that takes a step inside the store holds the lock, so every other
\* caller is outside.
LEMMA OneInside ==
    ASSUME CallInv, NEW c \in Calls, call[c].pc \in Inside, NEW d \in Calls, d # c
    PROVE  call[d].pc \notin Inside
  BY DEF CallInv

\* A caller outside the lock says nothing about memory and files.
LEMMA OthersOutside ==
    ASSUME CallInv, NEW c \in Calls, call[c].pc \in Inside
    PROVE  \A d \in Calls \ {c} : /\ call[d].pc \notin Inside
                                  /\ call[d].pc # "idle" => up /\ call[d] \in CallStates
  BY OneInside DEF CallInv

\* The step of the lock holder c to the call state s: the invariant about the
\* calls needs to be shown for c alone.
LEMMA HolderStep ==
    ASSUME TypeOK, CallInv, NEW c \in Calls, call[c].pc \in Inside, NEW s,
           call' = [call EXCEPT ![c] = s], UNCHANGED up,
           /\ s.pc # "idle" => s \in CallStates
           /\ s.pc \in Inside => mu' = c
           /\ s.pc \in Saving => s.write \in memory'
           /\ s.pc \in {"encode", "sync", "rename"} => temp' \in Files /\ temp'.data = memory'
           /\ s.pc = "rename" => temp'.complete /\ temp'.synced
           /\ s.pc = "return" => s.write \in Contents(path)'
    PROVE  CallInv'
<1>1. \A d \in Calls : call'[d] = IF d = c THEN s ELSE call[d]
  BY DEF TypeOK
<1>2. up
  BY DEF CallInv, Inside, Saving
<1>3. \A d \in Calls \ {c} : /\ call[d].pc \notin Inside
                             /\ call[d].pc # "idle" => call[d] \in CallStates
  BY OthersOutside
<1> QED
  BY <1>1, <1>2, <1>3 DEF CallInv, Inside, Saving

-----------------------------------------------------------------------------
\* Each step of the lock holder keeps the invariant.
LEMMA StepInvariant ==
    ASSUME IInv, NEW c \in Calls, Step(c)
    PROVE  IInv'
<1> DEFINE w == call[c].write
           Next1(pc) == At(c, pc)
<1> USE DEF IInv
<1>1. /\ call[c].pc \in Inside /\ call[c] \in CallStates /\ mu = c /\ up /\ UNCHANGED up
      /\ w \in Writes
  BY DEF Step, Refused, Found, Apply, CreateTemp, Encode, Sync, Rename, SaveError, Return, CallInv, Inside,
     Saving, CallStates
<1>2. \A pc \in PCs : /\ Next1(pc) \in CallStates
                      /\ Next1(pc).pc = pc /\ Next1(pc).write = w
  BY <1>1 DEF At, CallStates
<1>3. Idle.pc = "idle"
  BY DEF Idle
<1>4. {"create", "encode", "sync", "rename", "return"} \subseteq PCs
  BY DEF PCs, Saving
<1>5. ASSUME Leave(c), memory' = memory, path' = path
      PROVE  CallInv'
  BY <1>1, <1>3, <1>5, HolderStep DEF Leave, Inside, Saving
<1>alone. \A d \in Calls \ {c} : call[d].pc \notin Saving
  BY <1>1, OthersOutside DEF Inside
<1>kept. ASSUME NEW s, call' = [call EXCEPT ![c] = s], path' = path, memory' = memory, unsaved' = unsaved,
             call[c].pc \in Saving => s.pc \in Saving /\ s.write = w
      PROVE  SavedInv'
  <2>1. \A d \in Calls : call'[d] = IF d = c THEN s ELSE call[d]
    BY <1>kept DEF TypeOK
  <2> QED
    BY <1>kept, <2>1 DEF SavedInv, Contents
<1>6. CASE Refused(c)
  <2>1. Leave(c) /\ UNCHANGED <<up, memory, temp, path, onDisk, acked, unsaved>>
    BY <1>6 DEF Refused, files
  <2>2. CallInv'
    BY <1>5, <2>1
  <2>3. TypeOK'
    BY <1>1, <2>1 DEF TypeOK, Leave
  <2>4. SavedInv'
    BY <1>6, <1>kept, <2>1 DEF Refused, Leave, Saving
  <2> QED
    BY <2>1, <2>2, <2>3, <2>4 DEF FileInv, Whole, AheadInv, AckedAreStored, Contents
<1>found. CASE Found(c)
  <2>1. /\ Leave(c) /\ acked' = acked \cup ({w} \ unsaved) /\ w \in memory /\ call[c].pc = "apply"
        /\ UNCHANGED <<up, memory, temp, path, onDisk, unsaved>>
    BY <1>found DEF Found, files
  <2>2. CallInv'
    BY <1>5, <2>1
  <2>3. TypeOK'
    BY <1>1, <2>1 DEF TypeOK, Leave
  <2>4. SavedInv'
    BY <1>kept, <2>1 DEF Leave, Saving
  <2>5. w \notin unsaved => w \in Contents(path)
    BY <1>alone, <2>1 DEF SavedInv, Saving
  <2> QED
    BY <2>1, <2>2, <2>3, <2>4, <2>5 DEF FileInv, Whole, AheadInv, AckedAreStored, Contents
<1>applied. CASE Apply(c)
  <2>1. /\ memory' = memory \cup {w} /\ UNCHANGED <<up, mu, temp, path, onDisk, acked, unsaved>>
        /\ call' = [call EXCEPT ![c] = Next1("create")]
    BY <1>applied DEF Apply, Goto, files
  <2>2. CallInv'
    BY <1>1, <1>2, <1>4, <2>1, HolderStep DEF Inside, Saving
  <2>3. TypeOK'
    BY <1>1, <1>2, <1>4, <2>1 DEF TypeOK
  <2>4. SavedInv'
    <3>1. \A d \in Calls : call'[d] = IF d = c THEN Next1("create") ELSE call[d]
      BY <2>1 DEF TypeOK
    <3>2. Next1("create").pc \in Saving /\ Next1("create").write = w /\ call[c].pc \notin Saving
      BY <1>2, <1>4, <1>applied DEF Apply, Saving
    <3> HIDE DEF Next1
    <3> QED
      BY <2>1, <3>1, <3>2 DEF SavedInv, Contents
  <2> QED
    BY <2>1, <2>2, <2>3, <2>4 DEF FileInv, Whole, AheadInv, AckedAreStored, Contents
<1>7. ASSUME NEW pc \in {"encode", "sync", "rename"}, Goto(c, pc),
             temp' \in Files, temp'.data = memory, pc = "rename" => temp'.complete /\ temp'.synced,
             UNCHANGED <<up, memory, mu, path, onDisk, acked, unsaved>>, w \in memory
      PROVE  IInv'
  <2>1. call' = [call EXCEPT ![c] = Next1(pc)]
    BY <1>7 DEF Goto
  <2>2. CallInv'
    BY <1>1, <1>2, <1>4, <1>7, <2>1, HolderStep DEF Inside, Saving
  <2>3. TypeOK'
    BY <1>1, <1>2, <1>4, <1>7, <2>1 DEF TypeOK
  <2>4. Next1(pc).pc \in Saving /\ Next1(pc).write = w
    BY <1>2, <1>4 DEF Saving
  <2>5. SavedInv'
    <3> HIDE DEF Next1
    <3> QED
      BY <1>7, <1>kept, <2>1, <2>4
  <2> QED
    BY <1>7, <2>2, <2>3, <2>5 DEF FileInv, Whole, AheadInv, AckedAreStored, Contents
<1>8. CASE CreateTemp(c)
  <2>1. temp' = [data |-> memory, complete |-> FALSE, synced |-> FALSE]
    BY <1>8 DEF CreateTemp
  <2>2. temp' \in Files /\ temp'.data = memory
    BY <2>1 DEF Files, TypeOK
  <2>3. w \in memory
    BY <1>8 DEF CreateTemp, CallInv, Saving
  <2> QED
    BY <1>7, <1>8, <2>2, <2>3 DEF CreateTemp
<1>9. CASE Encode(c)
  <2>1. temp' = [data |-> temp.data, complete |-> TRUE, synced |-> FALSE]
    BY <1>9 DEF Encode
  <2>2. w \in memory /\ temp.data = memory
    BY <1>9 DEF Encode, CallInv, Saving
  <2>3. temp' \in Files /\ temp'.data = memory
    BY <2>1, <2>2 DEF Files, TypeOK
  <2> QED
    BY <1>7, <1>9, <2>2, <2>3 DEF Encode
<1>10. CASE Sync(c)
  <2>1. temp' = [data |-> temp.data, complete |-> TRUE, synced |-> TRUE]
    BY <1>10 DEF Sync
  <2>2. w \in memory /\ temp.data = memory
    BY <1>10 DEF Sync, CallInv, Saving
  <2>3. temp' \in Files /\ temp'.data = memory /\ temp'.complete /\ temp'.synced
    BY <2>1, <2>2 DEF Files, TypeOK
  <2> QED
    BY <1>7, <1>10, <2>2, <2>3 DEF Sync
<1>11. CASE Rename(c)
  <2>1. /\ path' = temp /\ temp' = NoFile /\ unsaved' = {} /\ UNCHANGED <<up, memory, mu, onDisk, acked>>
        /\ call' = [call EXCEPT ![c] = Next1("return")]
    BY <1>11 DEF Rename, Goto
  <2>2. w \in memory /\ temp \in Files /\ temp.data = memory /\ temp.complete /\ temp.synced
    BY <1>11 DEF Rename, CallInv, Saving
  <2>3. Contents(path)' = memory
    BY <2>1, <2>2, SnapshotAssumption DEF Contents
  <2>4. CallInv'
    BY <1>1, <1>2, <1>4, <2>1, <2>2, <2>3, HolderStep DEF Inside, Saving
  <2>5. TypeOK'
    BY <1>1, <1>2, <1>4, <2>1, <2>2 DEF TypeOK
  <2>6. FileInv'
    BY <2>1, <2>2 DEF FileInv, Whole
  <2>7. AheadInv'
    BY <2>1, <2>3 DEF AheadInv
  <2>8. AckedAreStored'
    BY <1>1, <2>1, <2>3 DEF AckedAreStored, AheadInv
  <2>9. SavedInv'
    BY <2>1, <2>3 DEF SavedInv
  <2> QED
    BY <2>4, <2>5, <2>6, <2>7, <2>8, <2>9
<1>12. CASE SaveError(c)
  <2>1. /\ Leave(c) /\ temp' = NoFile /\ UNCHANGED <<up, memory, path, onDisk, acked>>
        /\ unsaved' = unsaved \cup {w}
    BY <1>12 DEF SaveError
  <2>2. CallInv'
    BY <1>5, <2>1
  <2>3. TypeOK'
    BY <1>1, <2>1 DEF TypeOK, Leave
  <2>4. SavedInv'
    <3>1. \A d \in Calls : call'[d] = IF d = c THEN Idle ELSE call[d]
      BY <2>1 DEF Leave, TypeOK
    <3> QED
      BY <2>1, <3>1 DEF SavedInv, Contents
  <2> QED
    BY <2>1, <2>2, <2>3, <2>4 DEF FileInv, Whole, AheadInv, AckedAreStored, Contents
<1>13. CASE Return(c)
  <2>1. Leave(c) /\ acked' = acked \cup {w}
        /\ UNCHANGED <<up, memory, temp, path, onDisk, unsaved>> /\ call[c].pc = "return"
    BY <1>13 DEF Return, files
  <2>2. w \in Contents(path)
    BY <1>13 DEF Return, CallInv
  <2>3. CallInv'
    BY <1>5, <2>1
  <2>4. TypeOK'
    BY <1>1, <2>1 DEF TypeOK, Leave
  <2>5. SavedInv'
    BY <1>kept, <2>1 DEF Leave, Saving
  <2> QED
    BY <2>1, <2>2, <2>3, <2>4, <2>5 DEF FileInv, Whole, AheadInv, AckedAreStored, Contents
<1> QED
  BY <1>6, <1>found, <1>applied, <1>8, <1>9, <1>10, <1>11, <1>12, <1>13 DEF Step

\* After a power failure the file holds what the medium held.
LEMMA PowerFailureContents ==
    ASSUME TypeOK, PowerFailure
    PROVE  Contents(path)' = Contents(onDisk)
<1>1. path' = IF onDisk = NoFile THEN NoFile
              ELSE [data |-> onDisk.data, complete |-> onDisk.complete /\ onDisk.synced,
                    synced |-> TRUE]
  BY DEF PowerFailure
<1>2. CASE onDisk = NoFile
  BY <1>1, <1>2 DEF Contents
<1>3. CASE onDisk # NoFile
  <2>1. path' \in Files /\ path'.data = onDisk.data
    BY <1>1, <1>3 DEF TypeOK, Files
  <2> QED
    BY <1>3, <2>1, SnapshotAssumption DEF Contents
<1> QED
  BY <1>2, <1>3

\* So do arrivals, the lock, crashes, restarts and the file system.
LEMMA OtherInvariant ==
    ASSUME IInv, [Next]_vars, ~\E c \in Calls : Step(c)
    PROVE  IInv'
<1> USE DEF IInv
<1>1. ASSUME NEW c \in Calls, NEW kind \in Kinds, NEW w \in Writes, Begin(c, kind, w)
      PROVE  IInv'
  <2> DEFINE s == [pc |-> "lock", kind |-> kind, write |-> w]
  <2>1. s \in CallStates
    BY DEF CallStates, PCs
  <2>2. /\ up /\ UNCHANGED <<up, memory, mu, temp, path, onDisk, acked, unsaved>>
        /\ call' = [call EXCEPT ![c] = s]
    BY <1>1 DEF Begin, files
  <2>3. TypeOK'
    BY <2>1, <2>2 DEF TypeOK
  <2>4. \A d \in Calls : call'[d] = IF d = c THEN s ELSE call[d]
    BY <2>2 DEF TypeOK
  <2>5. CallInv'
    BY <2>1, <2>2, <2>4 DEF CallInv, Inside, Saving, Contents
  <2>6. SavedInv'
    BY <1>1, <2>2, <2>4 DEF SavedInv, Begin, Saving, Contents
  <2> QED
    BY <2>2, <2>3, <2>5, <2>6 DEF FileInv, Whole, AheadInv, AckedAreStored, Contents
<1>2. ASSUME NEW c \in Calls, Lock(c)
      PROVE  IInv'
  <2> DEFINE s == At(c, "apply")
  <2>1. up /\ call[c] \in CallStates /\ mu = Nobody
    BY <1>2 DEF Lock, CallInv
  <2>2. s \in CallStates /\ s.pc = "apply"
    BY <2>1 DEF CallStates, At, PCs
  <2>3. /\ UNCHANGED <<up, memory, temp, path, onDisk, acked, unsaved>> /\ mu' = c
        /\ call' = [call EXCEPT ![c] = s]
    BY <1>2 DEF Lock, Goto, files
  <2>4. TypeOK'
    BY <2>2, <2>3 DEF TypeOK
  <2>5. \A d \in Calls : call'[d] = IF d = c THEN s ELSE call[d]
    BY <2>3 DEF TypeOK
  <2>6. \A d \in Calls : call[d].pc \notin Inside
    BY <2>1, SnapshotAssumption DEF CallInv
  <2>7. CallInv'
    BY <2>1, <2>2, <2>3, <2>5, <2>6 DEF CallInv, Inside, Saving, Contents
  <2>8. SavedInv'
    BY <2>3, <2>5, <2>6 DEF SavedInv, Inside, Contents
  <2> QED
    BY <2>3, <2>4, <2>7, <2>8 DEF FileInv, Whole, AheadInv, AckedAreStored, Contents
<1>3. ASSUME Stop, path' \in Files \cup {NoFile}, onDisk' \in Files \cup {NoFile},
             acked' \subseteq acked
      PROVE  TypeOK' /\ CallInv' /\ AheadInv' /\ SavedInv'
  BY <1>3 DEF SavedInv, Stop, TypeOK, CallInv, Inside, Saving, AheadInv, Idle
<1>4. CASE Crash
  BY <1>3, <1>4 DEF Crash, TypeOK, FileInv, Whole, AckedAreStored, Contents
<1>5. CASE PowerFailure
  <2>1. path' = IF onDisk = NoFile THEN NoFile
                ELSE [data |-> onDisk.data, complete |-> onDisk.complete /\ onDisk.synced,
                      synced |-> TRUE]
    BY <1>5 DEF PowerFailure
  <2>2. path' \in Files \cup {NoFile} /\ Whole(path)'
    BY <2>1 DEF TypeOK, Files, FileInv, Whole
  <2>3. onDisk' = path' /\ Stop /\ acked' = acked \cap Contents(onDisk)
    BY <1>5 DEF PowerFailure
  <2>4. AckedAreStored'
    BY <1>5, <2>3, PowerFailureContents DEF AckedAreStored
  <2> QED
    BY <1>3, <2>2, <2>3, <2>4 DEF FileInv, Whole
<1>6. CASE SettleDirectory
  BY <1>6 DEF SettleDirectory, TypeOK, CallInv, FileInv, Whole, AheadInv, SavedInv, AckedAreStored,
     Contents
<1>7. CASE Load
  <2>1. /\ ~up /\ up' = TRUE /\ memory' = Contents(path)
        /\ UNCHANGED <<mu, call, temp, path, onDisk, acked, unsaved>>
    BY <1>7 DEF Load, files
  <2>2. memory' \subseteq Writes
    BY <2>1 DEF TypeOK, Contents, Files
  <2>3. \A c \in Calls : call[c].pc = "idle"
    BY <2>1 DEF CallInv
  <2>4. TypeOK' /\ CallInv'
    BY <2>1, <2>2, <2>3 DEF TypeOK, CallInv, Inside, Saving
  <2> QED
    BY <2>1, <2>4 DEF FileInv, Whole, AheadInv, SavedInv, AckedAreStored, Contents
<1>8. CASE UNCHANGED vars
  BY <1>8 DEF vars, TypeOK, CallInv, FileInv, Whole, AheadInv, SavedInv, AckedAreStored, Contents
<1> QED
  BY <1>1, <1>2, <1>4, <1>5, <1>6, <1>7, <1>8 DEF Next

\* The inductive invariant of the file driver, under crashes, failing file
\* operations and power failures.
THEOREM SnapshotInvariant == Spec => []IInv
<1>1. Init => IInv
  BY DEF Init, IInv, TypeOK, CallInv, Idle, Inside, Saving, FileInv, Whole, AheadInv,
     SavedInv, AckedAreStored, Contents
<1>2. IInv /\ [Next]_vars => IInv'
  BY StepInvariant, OtherInvariant
<1> QED
  BY <1>1, <1>2, PTL DEF Spec

\* Whatever fails, the file at the store's path can be loaded
\* (SaveJSONAtomic, LoadJSON).
THEOREM StoreAlwaysLoads == Spec => []AlwaysLoads
<1>1. IInv => AlwaysLoads
  BY DEF IInv, FileInv, Whole, AlwaysLoads, Loads
<1> QED
  BY <1>1, SnapshotInvariant, PTL

\* An acknowledged write is in the file, and stays there: only a power failure
\* before the directory was written out may undo it (every write method of the four SnapshotStores).
THEOREM AcknowledgedWritesStored == Spec => []AckedAreStored
<1>1. IInv => AckedAreStored
  BY DEF IInv
<1> QED
  BY <1>1, SnapshotInvariant, PTL

-----------------------------------------------------------------------------
\* Every step of the driver is a step of DurableStore or changes nothing that
\* DurableStore speaks of.
LEMMA StepRefines ==
    ASSUME IInv, [Next]_vars
    PROVE  [Durable!Next]_(Durable!vars)
<1> USE DEF Durable!vars
<1>1. ASSUME NEW c \in Calls, Step(c)
      PROVE  Durable!Next \/ UNCHANGED Durable!vars
  <2> DEFINE w == call[c].write
  <2>1. up /\ UNCHANGED up /\ w \in Writes
    BY <1>1 DEF Step, Refused, Found, Apply, CreateTemp, Encode, Sync, Rename, SaveError, Return, IInv, CallInv,
       Saving, CallStates
  <2>2. CASE Apply(c)
    <3>1. UNCHANGED <<path, onDisk, acked>> /\ memory' = memory \cup {w}
      BY <2>2 DEF Apply, files
    <3>2. Durable!Write(w)
      BY <2>1, <3>1 DEF Durable!Write, Contents
    <3> QED
      BY <2>1, <3>2 DEF Durable!Next
  <2>6. CASE Found(c)
    <3>1. /\ acked' = acked \cup ({w} \ unsaved) /\ UNCHANGED <<up, memory, path, onDisk>>
          /\ w \in memory /\ call[c].pc = "apply"
      BY <2>6 DEF Found, files
    <3>2. CASE w \in unsaved
      BY <3>1, <3>2 DEF Contents
    <3>3. CASE w \notin unsaved
      <4>1. \A d \in Calls : call[d].pc \notin Saving
        BY <3>1, OthersOutside DEF IInv, Inside, Saving
      <4>2. w \in Contents(path)
        BY <3>1, <3>3, <4>1 DEF IInv, SavedInv
      <4>3. acked' = acked \cup {w}
        BY <3>1, <3>3
      <4>4. Durable!Acknowledge(w)
        BY <3>1, <4>2, <4>3 DEF Durable!Acknowledge, Contents
      <4> QED
        BY <2>1, <4>4 DEF Durable!Next
    <3> QED
      BY <3>2, <3>3
  <2>3. CASE CreateTemp(c) \/ Encode(c) \/ Sync(c) \/ SaveError(c) \/ Refused(c)
    <3>1. UNCHANGED <<up, memory, path, onDisk, acked>>
      BY <2>3 DEF CreateTemp, Encode, Sync, SaveError, Refused, files
    <3> QED
      BY <3>1 DEF Contents
  <2>4. CASE Rename(c)
    <3>1. path' = temp /\ UNCHANGED <<up, memory, onDisk, acked>>
      BY <2>4 DEF Rename
    <3>2. temp \in Files /\ temp.data = memory
      BY <2>4 DEF Rename, IInv, CallInv
    <3>3. Contents(path)' = memory
      BY <3>1, <3>2, SnapshotAssumption DEF Contents
    <3>4. Durable!Store
      BY <2>1, <3>1, <3>3 DEF Durable!Store, Contents
    <3> QED
      BY <3>4 DEF Durable!Next
  <2>5. CASE Return(c)
    <3>1. acked' = acked \cup {w} /\ UNCHANGED <<up, memory, path, onDisk>>
      BY <2>5 DEF Return, files
    <3>2. w \in Contents(path)
      BY <2>5 DEF Return, IInv, CallInv
    <3>3. Durable!Acknowledge(w)
      BY <3>1, <3>2 DEF Durable!Acknowledge, Contents
    <3> QED
      BY <2>1, <3>3 DEF Durable!Next
  <2> QED
    BY <1>1, <2>2, <2>3, <2>4, <2>5, <2>6 DEF Step
<1>2. ASSUME NEW c \in Calls, NEW kind \in Kinds, NEW w \in Writes, Begin(c, kind, w)
      PROVE  UNCHANGED Durable!vars
  BY <1>2 DEF Begin, files, Contents
<1>3. ASSUME NEW c \in Calls, Lock(c)
      PROVE  UNCHANGED Durable!vars
  BY <1>3 DEF Lock, files, Contents
<1>4. CASE Crash
  <2>1. Durable!Restart
    BY <1>4 DEF Crash, Stop, Durable!Restart, Contents
  <2> QED
    BY <2>1 DEF Durable!Next
<1>5. CASE PowerFailure
  <2>1. /\ up' = FALSE /\ onDisk' = path' /\ acked' = acked \cap Contents(onDisk)
        /\ path' = IF onDisk = NoFile THEN NoFile
                   ELSE [data |-> onDisk.data, complete |-> onDisk.complete /\ onDisk.synced,
                         synced |-> TRUE]
    BY <1>5 DEF PowerFailure, Stop
  <2>2. Contents(path)' = Contents(onDisk)
    BY <1>5, PowerFailureContents DEF IInv
  <2>3. Durable!PowerFailure
    BY <2>1, <2>2 DEF Durable!PowerFailure, Contents
  <2> QED
    BY <2>3 DEF Durable!Next
<1>6. CASE SettleDirectory
  <2>1. Durable!Settle
    BY <1>6 DEF SettleDirectory, Durable!Settle, Contents
  <2> QED
    BY <2>1 DEF Durable!Next
<1>7. CASE Load
  BY <1>7 DEF Load, files, Contents
<1>8. CASE UNCHANGED vars
  BY <1>8 DEF vars, Contents
<1> QED
  BY <1>1, <1>2, <1>3, <1>4, <1>5, <1>6, <1>7, <1>8 DEF Next

\* The file driver implements DurableStore: each save stores one whole visible
\* state, and only what is stored is acknowledged.
THEOREM SnapshotStoreIsDurable == Spec => ImplementsDurable
<1>1. Init => Durable!Init
  BY DEF Init, Durable!Init, Contents
<1>2. IInv /\ [Next]_vars => [Durable!Next]_(Durable!vars)
  BY StepRefines
<1> QED
  BY <1>1, <1>2, SnapshotInvariant, PTL DEF Spec, Durable!Spec, ImplementsDurable

-----------------------------------------------------------------------------
(* The life of the process.                                                *)

RequestFields == {"pc", "kind", "client", "subject", "at", "query", "rates", "answer", "outcome"}

\* What is said of a request.
RequestOK(q) ==
    /\ DOMAIN q = RequestFields
    /\ q.pc \in {"idle", "allow", "load", "index", "answer"}
    /\ q.outcome \in Outcomes /\ q.at \in -MaxLag..0

RequestsOK == DOMAIN req = Reqs /\ \A r \in Reqs : RequestOK(req[r])

PhaseOK ==
    /\ driver \in {"memory", "sql"} /\ phase \in Phases /\ cancelled \in BOOLEAN
    /\ pool \in {"none", "open", "closed"} /\ (driver = "memory" <=> pool = "none")

\* The tables that one fetch gives.
Fetched == {RatesFromECBCubes(f) : f \in {g \in Feeds : Usable(g)}}

\* The updater holds a table of one fetch, and its transaction has nothing
\* but rows of that table once the old ones are deleted.
UpdaterOK ==
    /\ updater \in Updaters
    /\ updater \in {"store", "delete", "insert"} => table \in Fetched
    /\ updater \notin {"delete", "insert"} => tx = NoTable
    /\ updater \in {"delete", "insert"} => DOMAIN tx \subseteq Currencies /\ tx \in [DOMAIN tx -> Nat]
    /\ updater = "insert" => \A c \in DOMAIN tx : tx[c] = table[c]
    /\ rates \in {NoRates, DefaultRates} \cup Fetched

\* What a bucket knows of the attempts under its key.  All those of the last n
\* ticks are counted in it if it was created before them, which it was by the
\* time its window is over; and of the attempts before it, no more than the
\* limit were made less than Window - MaxLag ago.
BucketOK(k) ==
    LET b == buckets[k] IN
    /\ DOMAIN b = {"count", "resetAt"} /\ b.count \in Nat \ {0} /\ b.resetAt \in -MaxLag..Window
    /\ k \in Keys => b.count <= Limit
    /\ k \in Keys => \A n \in Spans :
          /\ admitted[k][n] <= b.count + Limit
          /\ n <= Window - MaxLag - b.resetAt => admitted[k][n] <= b.count

LimitsOK ==
    /\ admitted \in [Keys -> [Spans -> Nat]]
    /\ \A k \in DOMAIN buckets : BucketOK(k)
    /\ \A k \in Keys \ DOMAIN buckets : \A n \in Spans : admitted[k][n] <= Limit

ServerInv == PhaseOK /\ UpdaterOK /\ LimitsOK /\ RequestsOK

-----------------------------------------------------------------------------
(* The limiter.                                                            *)

\* The lengths of time are numbers.
LEMMA Times ==
    /\ Window \in Nat /\ Limit \in Nat /\ Limit > 0 /\ MaxLag \in Nat /\ MaxLag < Window
    /\ Spans = 1..(Window - MaxLag) /\ Window - MaxLag \in Spans
  BY LimiterAssumption, ServerAssumption DEF Spans

\* pruneLocked only takes away.
LEMMA PrunedBuckets ==
    ASSUME NEW b, NEW t
    PROVE  /\ DOMAIN Pruned(b, t) = {k \in DOMAIN b : b[k].resetAt >= t}
           /\ \A k \in DOMAIN Pruned(b, t) : Pruned(b, t)[k] = b[k]
  BY DEF Pruned, Restrict

\* A bucket that is pruned, or that is over, had counted all the attempts of a
\* window less the lag.
LEMMA OverCounted ==
    ASSUME LimitsOK, NEW k \in Keys, NEW t \in -MaxLag..0,
           k \in DOMAIN buckets => buckets[k].resetAt <= t
    PROVE  \A n \in Spans : admitted[k][n] \in Nat /\ admitted[k][n] <= Limit
<1>1. \A n \in Spans : admitted[k][n] \in Nat
  BY DEF LimitsOK
<1>2. CASE k \in DOMAIN buckets
  <2>1. BucketOK(k)
    BY <1>2 DEF LimitsOK
  <2>2. /\ buckets[k].count \in Nat /\ buckets[k].count <= Limit /\ buckets[k].resetAt \in -MaxLag..Window
        /\ \A n \in Spans : n <= Window - MaxLag - buckets[k].resetAt => admitted[k][n] <= buckets[k].count
    BY <2>1 DEF BucketOK
  <2>3. \A n \in Spans : n \in Nat /\ n <= Window - MaxLag - buckets[k].resetAt
    BY <1>2, <2>2, Times
  <2> QED
    BY <1>1, <2>2, <2>3, Times
<1>3. CASE k \notin DOMAIN buckets
  BY <1>1, <1>3 DEF LimitsOK
<1> QED
  BY <1>2, <1>3

\* An attempt that is refused prunes and counts nothing.
LEMMA PruningKeepsLimits ==
    ASSUME LimitsOK, NEW t \in -MaxLag..0,
           buckets' = Pruned(buckets, t), admitted' = admitted
    PROVE  LimitsOK'
<1>1. /\ DOMAIN buckets' = {k \in DOMAIN buckets : buckets[k].resetAt >= t}
      /\ \A k \in DOMAIN buckets' : buckets'[k] = buckets[k]
  BY PrunedBuckets
<1>2. \A k \in DOMAIN buckets' : BucketOK(k)'
  BY <1>1 DEF LimitsOK, BucketOK, Spans, Keys
<1>3. ASSUME NEW k \in Keys \ DOMAIN buckets', NEW n \in Spans
      PROVE  admitted[k][n] <= Limit
  <2>1. k \in DOMAIN buckets => buckets[k].resetAt <= t
    <3>1. SUFFICES ASSUME k \in DOMAIN buckets PROVE buckets[k].resetAt <= t
      OBVIOUS
    <3>2. buckets[k].resetAt \in Int /\ ~(buckets[k].resetAt >= t)
      BY <1>1, <1>3, <3>1, Times DEF LimitsOK, BucketOK
    <3> QED
      BY <3>2, Times
  <2> QED
    BY <1>3, <2>1, OverCounted
<1> QED
  BY <1>2, <1>3 DEF LimitsOK, Spans, Keys

\* What there is to show of a bucket after a step.
LEMMA BucketAfter ==
    ASSUME NEW k, DOMAIN buckets'[k] = {"count", "resetAt"},
           buckets'[k].count \in Nat \ {0}, buckets'[k].resetAt \in -MaxLag..Window,
           k \in Keys => buckets'[k].count <= Limit,
           k \in Keys => \A n \in Spans :
              /\ admitted'[k][n] <= buckets'[k].count + Limit
              /\ n <= Window - MaxLag - buckets'[k].resetAt => admitted'[k][n] <= buckets'[k].count
    PROVE  BucketOK(k)'
  BY DEF BucketOK, Spans, Keys

\* An attempt that goes on is counted under each of its keys.
LEMMA AdmissionKeepsLimits ==
    ASSUME LimitsOK, NEW t \in -MaxLag..0, NEW keys,
           Allows(Pruned(buckets, t), keys, t),
           buckets' = AfterAttempt(buckets, keys, t),
           admitted' = [k \in Keys |-> IF k \in keys THEN [n \in Spans |-> admitted[k][n] + 1]
                                              ELSE admitted[k]]
    PROVE  LimitsOK'
<1> DEFINE left == Pruned(buckets, t)
           Open(k) == k \in DOMAIN left /\ left[k].resetAt > t
<1>1. /\ DOMAIN left = {k \in DOMAIN buckets : buckets[k].resetAt >= t}
      /\ \A k \in DOMAIN left : left[k] = buckets[k]
  BY PrunedBuckets
<1>2. \A k \in keys : Open(k) => left[k].count < Limit
  BY DEF Allows, Live
<1>3. buckets' = [k \in DOMAIN left \cup keys |->
                     IF k \notin keys THEN left[k]
                     ELSE IF Open(k) THEN [left[k] EXCEPT !.count = @ + 1]
                     ELSE [count |-> 1, resetAt |-> t + Window]]
  BY DEF AfterAttempt, Counted, Live
<1> HIDE DEF left
<1>4. /\ t \in Int /\ t <= 0 /\ t >= -MaxLag
      /\ \A k \in DOMAIN buckets : buckets[k].resetAt \in Int /\ DOMAIN buckets[k] = {"count", "resetAt"}
  BY Times DEF LimitsOK, BucketOK
<1>5. \A k \in Keys, n \in Spans :
         admitted[k][n] \in Nat /\ admitted'[k][n] = IF k \in keys THEN admitted[k][n] + 1 ELSE admitted[k][n]
  BY DEF LimitsOK
<1>6. admitted' \in [Keys -> [Spans -> Nat]]
  BY <1>5 DEF LimitsOK
<1>7. ASSUME NEW k \in Keys, ~Open(k)
      PROVE  \A n \in Spans : admitted[k][n] \in Nat /\ admitted[k][n] <= Limit
  <2>1. k \in DOMAIN buckets => buckets[k].resetAt <= t
    BY <1>1, <1>4, <1>7
  <2> QED
    BY <1>7, <2>1, OverCounted
<1>8. ASSUME NEW k \in DOMAIN buckets' PROVE BucketOK(k)'
  <2>1. CASE k \notin keys
    <3>1. k \in DOMAIN buckets /\ buckets'[k] = buckets[k]
      BY <1>1, <1>3, <1>8, <2>1
    <3>2. BucketOK(k)
      BY <3>1 DEF LimitsOK
    <3>3. k \in Keys => \A n \in Spans : admitted'[k][n] = admitted[k][n]
      BY <1>5, <2>1
    <3> QED
      BY <3>1, <3>2, <3>3 DEF BucketOK, Spans, Keys
  <2>2. CASE k \in keys /\ Open(k)
    <3>1. k \in DOMAIN buckets /\ buckets'[k] = [buckets[k] EXCEPT !.count = @ + 1] /\ buckets[k].count < Limit
      BY <1>1, <1>2, <1>3, <2>2
    <3>2. BucketOK(k) /\ buckets[k].count \in Nat
      BY <3>1 DEF LimitsOK, BucketOK
    <3>3. /\ DOMAIN buckets'[k] = {"count", "resetAt"} /\ buckets'[k].count = buckets[k].count + 1
          /\ buckets'[k].resetAt = buckets[k].resetAt
      BY <1>4, <3>1
    <3>4. k \in Keys => \A n \in Spans : admitted'[k][n] = admitted[k][n] + 1 /\ admitted[k][n] \in Nat
      BY <1>5, <2>2
    <3>5. k \in Keys => \A n \in Spans :
             /\ admitted'[k][n] <= buckets'[k].count + Limit
             /\ n <= Window - MaxLag - buckets'[k].resetAt => admitted'[k][n] <= buckets'[k].count
      <4>1. SUFFICES ASSUME k \in Keys, NEW n \in Spans
                     PROVE  /\ admitted'[k][n] <= buckets'[k].count + Limit
                            /\ n <= Window - MaxLag - buckets'[k].resetAt => admitted'[k][n] <= buckets'[k].count
        OBVIOUS
      <4>2. /\ admitted[k][n] <= buckets[k].count + Limit
            /\ n <= Window - MaxLag - buckets[k].resetAt => admitted[k][n] <= buckets[k].count
        BY <3>2, <4>1 DEF BucketOK
      <4>3. admitted'[k][n] = admitted[k][n] + 1 /\ admitted[k][n] \in Nat
        BY <3>4, <4>1
      <4> DEFINE a == admitted[k][n]
                 c == buckets[k].count
      <4>4. a \in Nat /\ c \in Nat /\ Limit \in Nat /\ a <= c + Limit
        BY <3>2, <4>2, <4>3, Times
      <4> HIDE DEF a, c
      <4>5. a + 1 <= (c + 1) + Limit /\ (a <= c => a + 1 <= c + 1)
        BY <4>4
      <4>6. admitted'[k][n] = a + 1 /\ buckets'[k].count = c + 1
        BY <3>3, <4>3 DEF a, c
      <4> QED
        BY <3>3, <4>2, <4>5, <4>6 DEF a, c
    <3>6. buckets'[k].count \in Nat \ {0} /\ buckets'[k].count <= Limit
      BY <3>1, <3>2, <3>3, Times
    <3>7. buckets'[k].resetAt \in -MaxLag..Window
      BY <3>2, <3>3 DEF BucketOK
    <3> QED
      BY <3>3, <3>5, <3>6, <3>7, BucketAfter
  <2>3. CASE k \in keys /\ ~Open(k)
    <3>1. buckets'[k] = [count |-> 1, resetAt |-> t + Window]
      BY <1>3, <2>3
    <3>2. DOMAIN buckets'[k] = {"count", "resetAt"} /\ buckets'[k].count = 1 /\ buckets'[k].resetAt = t + Window
      BY <3>1
    <3>3. t + Window \in -MaxLag..Window /\ \A n \in Spans : ~(n <= Window - MaxLag - (t + Window))
      BY <1>4, Times
    <3>4. k \in Keys => \A n \in Spans : admitted'[k][n] <= 1 + Limit
      BY <1>5, <1>7, <2>3, Times
    <3> QED
      <4>1. 1 \in Nat \ {0} /\ 1 <= Limit
        BY Times
      <4>2. k \in Keys => \A n \in Spans :
               /\ admitted'[k][n] <= buckets'[k].count + Limit
               /\ n <= Window - MaxLag - buckets'[k].resetAt => admitted'[k][n] <= buckets'[k].count
        BY <3>2, <3>3, <3>4
      <4> QED
        BY <3>2, <3>3, <4>1, <4>2, BucketAfter
  <2> QED
    BY <2>1, <2>2, <2>3
<1>9. ASSUME NEW k \in Keys \ DOMAIN buckets', NEW n \in Spans
      PROVE  admitted'[k][n] <= Limit
  <2>1. k \notin keys /\ ~Open(k)
    BY <1>3, <1>9
  <2> QED
    BY <1>5, <1>7, <1>9, <2>1
<1> QED
  BY <1>6, <1>8, <1>9 DEF LimitsOK, Spans, Keys

\* A tick makes every attempt one older, and brings every bucket nearer to its
\* end; of those that have ended, it does not matter when.
LEMMA TickKeepsLimits ==
    ASSUME LimitsOK,
           buckets' = [k \in DOMAIN buckets |-> [buckets[k] EXCEPT !.resetAt = Older(@)]],
           admitted' = [k \in Keys |->
                           [n \in Spans |-> IF n = 1 THEN 0 ELSE admitted[k][n - 1]]]
    PROVE  LimitsOK'
<1>1. \A n \in Spans : n \in Nat /\ n >= 1 /\ (n # 1 => n - 1 \in Spans)
  BY Times
<1>2. \A k \in Keys, n \in Spans :
         /\ admitted[k][n] \in Nat
         /\ admitted'[k][n] = IF n = 1 THEN 0 ELSE admitted[k][n - 1]
  BY DEF LimitsOK
<1>3. admitted' \in [Keys -> [Spans -> Nat]]
  BY <1>1, <1>2
<1>4. ASSUME NEW k \in DOMAIN buckets' PROVE BucketOK(k)'
  <2>1. k \in DOMAIN buckets /\ BucketOK(k)
    BY <1>4 DEF LimitsOK
  <2>2. /\ DOMAIN buckets[k] = {"count", "resetAt"} /\ buckets[k].count \in Nat \ {0}
        /\ buckets[k].resetAt \in -MaxLag..Window
        /\ k \in Keys => buckets[k].count <= Limit
    BY <2>1 DEF BucketOK
  <2> DEFINE age == Older(buckets[k].resetAt)
             c == buckets[k].count
  <2>3. DOMAIN buckets'[k] = {"count", "resetAt"} /\ buckets'[k].count = c /\ buckets'[k].resetAt = age
    BY <2>1, <2>2
  <2>4. /\ age \in -MaxLag..Window
        /\ \A n \in Spans : n # 1 /\ n <= Window - MaxLag - age
              => n - 1 <= Window - MaxLag - buckets[k].resetAt
    <3> DEFINE R == buckets[k].resetAt
    <3>1. R \in Int /\ -MaxLag <= R /\ R <= Window
      BY <2>2, Times
    <3> HIDE DEF R
    <3>2. age \in Int /\ ((age = R - 1 /\ age >= -MaxLag) \/ (age = -MaxLag /\ R - 1 <= -MaxLag))
      BY <3>1, Times DEF Older, R
    <3> HIDE DEF age
    <3>3. age \in -MaxLag..Window
      BY <3>1, <3>2, Times
    <3>4. ASSUME NEW n \in Spans, n # 1, n <= Window - MaxLag - age
          PROVE  n - 1 <= Window - MaxLag - R
      <4>1. n \in Nat /\ n <= Window - MaxLag
        BY <3>4, Times
      <4>2. CASE age = R - 1
        BY <3>1, <3>4, <4>1, <4>2, Times
      <4>3. CASE age = -MaxLag /\ R - 1 <= -MaxLag
        BY <3>1, <4>1, <4>3, Times
      <4> QED
        BY <3>2, <4>2, <4>3
    <3> QED
      BY <3>3, <3>4 DEF R
  <2> HIDE DEF age
  <2>5. ASSUME k \in Keys, NEW n \in Spans
        PROVE  /\ admitted'[k][n] <= c + Limit
               /\ n <= Window - MaxLag - age => admitted'[k][n] <= c
    <3>1. CASE n = 1
      <4>1. admitted'[k][n] = 0 /\ c \in Nat /\ Limit \in Nat
        BY <1>2, <2>2, <2>5, <3>1, Times
      <4> QED
        BY <4>1
    <3>2. CASE n # 1
      <4>1. n - 1 \in Spans /\ admitted'[k][n] = admitted[k][n - 1]
        BY <1>1, <1>2, <2>5, <3>2
      <4>2. /\ admitted[k][n - 1] <= c + Limit
            /\ n - 1 <= Window - MaxLag - buckets[k].resetAt => admitted[k][n - 1] <= c
        BY <2>1, <2>5, <4>1 DEF BucketOK
      <4> QED
        BY <2>4, <2>5, <3>2, <4>1, <4>2
    <3> QED
      BY <3>1, <3>2
  <2> QED
    BY <2>2, <2>3, <2>4, <2>5, BucketAfter
<1>5. ASSUME NEW k \in Keys \ DOMAIN buckets', NEW n \in Spans
      PROVE  admitted'[k][n] <= Limit
  <2>1. \A m \in Spans : admitted[k][m] <= Limit
    BY <1>5 DEF LimitsOK
  <2>2. 0 <= Limit
    BY Times
  <2> QED
    BY <1>1, <1>2, <1>5, <2>1, <2>2
<1> QED
  BY <1>3, <1>4, <1>5 DEF LimitsOK, Spans, Keys

\* The bound on what gets through.
LEMMA LimitsBound ==
    ASSUME LimitsOK
    PROVE  AdmittedBounded
<1>1. SUFFICES ASSUME NEW k \in Keys
               PROVE  admitted[k][Window - MaxLag] <= 2 * Limit
  BY DEF AdmittedBounded
<1> DEFINE a == admitted[k][Window - MaxLag]
<1>2. a \in Nat /\ Limit \in Nat
  BY <1>1, Times DEF LimitsOK
<1>3. CASE k \in DOMAIN buckets
  <2>1. buckets[k].count \in Nat /\ buckets[k].count <= Limit /\ a <= buckets[k].count + Limit
    BY <1>1, <1>3, Times DEF LimitsOK, BucketOK
  <2> QED
    BY <1>2, <2>1
<1>4. CASE k \notin DOMAIN buckets
  <2>1. a <= Limit
    BY <1>1, <1>4, Times DEF LimitsOK
  <2> QED
    BY <1>2, <2>1
<1> QED
  BY <1>3, <1>4

-----------------------------------------------------------------------------
(* The rates.                                                              *)

\* FloatString is off by half a unit at most, and gives zero for less than
\* half a unit only.
LEMMA Rounding ==
    ASSUME NEW n \in Nat, NEW d \in Nat \ {0}
    PROVE  LET m == RoundHalf(n, d) IN
           /\ m \in Nat
           /\ 2 * Magnitude(m * d - n) <= d
           /\ m = 0 => 2 * n < d
<1> DEFINE q == n \div d
           r == n % d
           m == RoundHalf(n, d)
<1>1. q \in Nat /\ r \in Nat /\ r < d /\ n = d * q + r
  OBVIOUS
<1>2. m = IF 2 * r >= d THEN q + 1 ELSE q
  BY <1>1 DEF RoundHalf, Magnitude
<1> HIDE DEF q, r, m
<1>3. m \in Nat
  BY <1>1, <1>2
<1>4. CASE 2 * r >= d
  <2>1. m * d - n = d - r
    BY <1>1, <1>2, <1>4
  <2> QED
    BY <1>1, <1>2, <1>3, <1>4, <2>1 DEF Magnitude, m
<1>5. CASE ~(2 * r >= d)
  <2>1. m * d - n = -r
    BY <1>1, <1>2, <1>5
  <2>2. Magnitude(-r) = r
    BY <1>1 DEF Magnitude
  <2>3. m = 0 => n = r
    BY <1>1, <1>2, <1>5
  <2> QED
    BY <1>1, <1>3, <1>5, <2>1, <2>2, <2>3 DEF m
<1> QED
  BY <1>4, <1>5

\* A sequence has a last position of every currency that it quotes.
LEMMA LastPosition ==
    ASSUME NEW n \in Nat, NEW S, S \subseteq 1..n, S # {}
    PROVE  Max(S) \in S
<1> DEFINE T == {n - i : i \in S}
           R == OpToRel(<, Nat)
<1>1. IsWellFoundedOn(R, Nat)
  BY NatLessThanWellFounded
<1>2. \A x, y \in Nat : <<x, y>> \in R <=> x < y
  BY DEF OpToRel
<1> HIDE DEF R
<1>3. \A i \in S : i \in Nat /\ n - i \in Nat /\ n - i \in T
  OBVIOUS
<1>4. \A x \in T : \E i \in S : x = n - i
  OBVIOUS
<1> HIDE DEF T
<1>5. T \subseteq Nat /\ T # {}
  BY <1>3, <1>4
<1>6. PICK x \in T : \A y \in T : ~(<<y, x>> \in R)
  BY <1>1, <1>5, WFMin
<1>7. PICK i \in S : x = n - i
  BY <1>4, <1>6
<1>8. \A j \in S : i >= j
  <2>1. SUFFICES ASSUME NEW j \in S PROVE i >= j
    OBVIOUS
  <2>2. i \in Nat /\ j \in Nat /\ n - i \in Nat /\ n - j \in Nat /\ ~(n - j < n - i)
    BY <1>2, <1>3, <1>6, <1>7, <2>1
  <2> QED
    BY <2>2
<1> QED
  BY <1>8 DEF Max

\* The quotes of a feed that can be used are positive.
LEMMA PositiveQuotes ==
    ASSUME NEW f \in Feeds, Usable(f), NEW c \in Currencies
    PROVE  QuoteIn(f, c) \in Nat \ {0} /\ EuroRates(f)[c] = QuoteIn(f, c)
<1>1. /\ Len(f) \in Nat /\ DOMAIN f = 1..Len(f) /\ \A i \in DOMAIN f : f[i].rate \in Nat
      /\ \A i \in DOMAIN f : f[i].currency \in Currencies => f[i].rate > 0
      /\ DOMAIN EuroRates(f) = Quoted(f) \cup {EUR} /\ c \in DOMAIN EuroRates(f)
  BY ServerAssumption DEF Usable, EuroRates
<1>2. EuroRates(f)[c] = QuoteIn(f, c)
  BY <1>1 DEF EuroRates, QuoteIn
<1>3. CASE c \in Quoted(f)
  <2> DEFINE S == {i \in DOMAIN f : f[i].currency = c}
             last == Max(S)
  <2>1. S \subseteq 1..Len(f) /\ S # {}
    BY <1>1, <1>3 DEF Quoted
  <2>2. last \in S
    BY <1>1, <2>1, LastPosition
  <2>3. QuoteIn(f, c) = f[last].rate
    BY <1>3 DEF QuoteIn, LastQuote
  <2> HIDE DEF last
  <2>4. f[last].rate \in Nat /\ f[last].rate > 0
    BY <1>1, <2>2
  <2> QED
    BY <1>2, <2>3, <2>4
<1>4. CASE c \notin Quoted(f)
  BY <1>2, <1>4, RatesAssumption DEF QuoteIn
<1> QED
  BY <1>3, <1>4

\* A rate of a fetched table is the quotient of the quotes, rounded.
LEMMA RoundedRate ==
    ASSUME NEW f \in Feeds, Usable(f), NEW c \in Currencies,
           NEW t, t = RatesFromECBCubes(f)
    PROVE  /\ t[c] \in Nat
           /\ 2 * Magnitude(t[c] * QuoteIn(f, USD) - QuoteIn(f, c) * Precision)
                 <= QuoteIn(f, USD)
           /\ t[c] = 0 => 2 * QuoteIn(f, c) * Precision < QuoteIn(f, USD)
<1> DEFINE d == QuoteIn(f, USD)
           q == QuoteIn(f, c)
<1>1. /\ d \in Nat \ {0} /\ q \in Nat \ {0} /\ Precision \in Nat \ {0}
      /\ EuroRates(f)[USD] = d /\ EuroRates(f)[c] = q
  BY PositiveQuotes, MoneyAssumption, RatesAssumption
<1>2. t[c] = IF c = USD THEN Precision ELSE RoundHalf(q * Precision, d)
  BY <1>1 DEF RatesFromECBCubes
<1>3. c = USD => q = d
  OBVIOUS
<1> HIDE DEF d, q
<1>4. CASE c = USD
  <2>1. t[c] * d - q * Precision = 0
    BY <1>1, <1>2, <1>3, <1>4
  <2>2. Magnitude(0) = 0 /\ t[c] \in Nat /\ t[c] # 0
    BY <1>1, <1>2, <1>4 DEF Magnitude
  <2> QED
    BY <1>1, <2>1, <2>2 DEF d, q
<1>5. CASE c # USD
  <2> DEFINE n == q * Precision
  <2>1. n \in Nat
    BY <1>1
  <2>2. 2 * n = 2 * q * Precision
    BY <1>1
  <2>3. t[c] = RoundHalf(n, d)
    BY <1>2, <1>5
  <2> HIDE DEF n
  <2>4. t[c] \in Nat /\ 2 * Magnitude(t[c] * d - n) <= d /\ (t[c] = 0 => 2 * n < d)
    BY <1>1, <2>1, <2>3, Rounding
  <2> QED
    BY <2>2, <2>4 DEF d, q, n
<1> QED
  BY <1>4, <1>5

\* What a reader may rely on in a table that one fetch has given.
LEMMA FetchedTable ==
    ASSUME NEW t \in Fetched
    PROVE  /\ t \in [Currencies -> Nat]
           /\ \E f \in {g \in Feeds : USD \in Quoted(g)} :
                 /\ \A c \in Currencies :
                       2 * Magnitude(t[c] * QuoteIn(f, USD) - QuoteIn(f, c) * Precision)
                          <= QuoteIn(f, USD)
                 /\ ~Indexed(t) =>
                       \E c \in Currencies : 2 * QuoteIn(f, c) * Precision < QuoteIn(f, USD)
<1>1. PICK f \in Feeds : Usable(f) /\ t = RatesFromECBCubes(f)
  BY DEF Fetched
<1>2. USD \in Quoted(f)
  BY <1>1 DEF Usable
<1>3. t = [c \in Currencies |-> t[c]]
  BY <1>1 DEF RatesFromECBCubes
<1>4. \A c \in Currencies : t[c] \in Nat
  BY <1>1, RoundedRate
<1>5. t \in [Currencies -> Nat]
  BY <1>3, <1>4
<1>6. ASSUME ~Indexed(t)
      PROVE  \E c \in Currencies : 2 * QuoteIn(f, c) * Precision < QuoteIn(f, USD)
  <2>1. EffectiveRates(t) = t
    BY <1>5, MoneyAssumption DEF EffectiveRates
  <2>2. PICK c \in Currencies : ~(t[c] > 0)
    BY <1>5, <1>6, <2>1 DEF Indexed
  <2>3. t[c] = 0
    BY <1>4, <2>2
  <2> QED
    BY <1>1, <2>3, RoundedRate
<1> QED
  BY <1>1, <1>2, <1>5, <1>6, RoundedRate

\* Whatever is stored has currencies and numbers only.
LEMMA StoredRates ==
    ASSUME UpdaterOK
    PROVE  DOMAIN rates \subseteq Currencies /\ rates \in [DOMAIN rates -> Nat]
<1>1. CASE rates = NoRates
  BY <1>1 DEF NoRates
<1>2. CASE rates = DefaultRates
  BY <1>2, RatesAssumption
<1>3. CASE rates \in Fetched
  BY <1>3, FetchedTable
<1> QED
  BY <1>1, <1>2, <1>3 DEF UpdaterOK

-----------------------------------------------------------------------------
(* Amounts.                                                                *)

\* Rounding away from zero is off by half a unit at most on both sides of it.
LEMMA RoundingBothSides ==
    ASSUME NEW x \in Int, NEW d \in Nat \ {0}
    PROVE  RoundHalf(x, d) \in Int /\ 2 * Magnitude(RoundHalf(x, d) * d - x) <= d
<1>1. CASE x >= 0
  BY <1>1, Rounding
<1>2. CASE x < 0
  <2> DEFINE y == -x
             m == RoundHalf(y, d)
  <2>1. y \in Nat /\ ~(y < 0) /\ x = -y /\ Magnitude(x) = y /\ Magnitude(y) = y
    BY <1>2 DEF Magnitude
  <2>2. RoundHalf(x, d) = -m
    BY <1>2, <2>1 DEF RoundHalf
  <2> HIDE DEF y
  <2>3. m \in Nat /\ 2 * Magnitude(m * d - y) <= d
    BY <2>1, Rounding
  <2> HIDE DEF m
  <2>4. m * d \in Int /\ (-m) * d - x = -(m * d - y)
    BY <2>1, <2>3
  <2> DEFINE e == m * d - y
  <2>5. e \in Int /\ Magnitude(-e) = Magnitude(e)
    BY <2>1, <2>4 DEF Magnitude
  <2> QED
    BY <2>2, <2>3, <2>4, <2>5
<1> QED
  BY <1>1, <1>2

\* An int64 keeps what it can hold.
LEMMA HeldByInt64 ==
    ASSUME NEW m \in Int, 2 * Magnitude(m) < Modulus
    PROVE  ToInt64(m) = m
<1> DEFINE h == Modulus \div 2
           y == m + h
<1>1. Modulus \in Nat /\ h \in Nat /\ Modulus = 2 * h
  BY MoneyAssumption
<1>2. ToInt64(m) = (y % Modulus) - h
  BY DEF ToInt64
<1> HIDE DEF h
<1>3. -h < m /\ m < h
  BY <1>1 DEF Magnitude
<1>4. y \in Nat /\ y < Modulus
  BY <1>1, <1>3
<1> HIDE DEF y
<1>5. y % Modulus = y
  BY <1>1, <1>4
<1> QED
  BY <1>1, <1>2, <1>5 DEF y

\* So roundRatToInt64 gives the nearest cent of every quotient that is not
\* next to the limits of an int64.
LEMMA NearestCent ==
    ASSUME NEW x \in Int, NEW d \in Nat \ {0}, 2 * Magnitude(x) < (Modulus - 1) * d
    PROVE  /\ RoundRatToInt64(x, d) \in Int
           /\ 2 * Magnitude(RoundRatToInt64(x, d) * d - x) <= d
<1> DEFINE m == RoundHalf(x, d)
           M == Magnitude(m)
           X == Magnitude(x)
<1>1. m \in Int /\ 2 * Magnitude(m * d - x) <= d
  BY RoundingBothSides
<1> HIDE DEF m
<1>2. M \in Nat /\ X \in Nat /\ Modulus \in Nat
  BY <1>1, MoneyAssumption DEF Magnitude
<1>3. 2 * (M * d) <= 2 * X + d
  <2> DEFINE p == m * d
  <2>1. p \in Int
    BY <1>1
  <2>2. Magnitude(p) = M * d
    BY <1>1 DEF Magnitude
  <2>3. 2 * Magnitude(p - x) <= d
    BY <1>1
  <2> HIDE DEF p
  <2>4. 2 * Magnitude(p) <= 2 * X + d
    BY <2>1, <2>3 DEF Magnitude
  <2> QED
    BY <2>2, <2>4
<1>4. 2 * M < Modulus
  <2>1. SUFFICES ASSUME Modulus <= 2 * M PROVE FALSE
    BY <1>2
  <2> HIDE DEF M, X
  <2> DEFINE a == 2 * M - Modulus
  <2>2. a \in Nat /\ 2 * M = a + Modulus
    BY <1>2, <2>1
  <2> HIDE DEF a
  <2>3. 2 * (M * d) = (2 * M) * d /\ (a + Modulus) * d = a * d + Modulus * d /\ (Modulus - 1) * d = Modulus * d - d
    BY <1>2, <2>2
  <2>4. a * d \in Nat /\ Modulus * d \in Nat /\ 2 * (M * d) = a * d + Modulus * d
    BY <1>2, <2>2, <2>3
  <2>5. 2 * X < Modulus * d - d
    BY <2>3 DEF X
  <2> QED
    BY <1>2, <1>3, <2>4, <2>5
<1>5. RoundRatToInt64(x, d) = m
  BY <1>1, <1>4, HeldByInt64 DEF RoundRatToInt64, m
<1> QED
  BY <1>1, <1>5

\* Every amount of a summary is the exact product of the entry's amount and
\* rate, to half a cent, and exact when nothing is converted: the text of the
\* entry read in either direction, or the quotient of two rates of the table
\* (entryAmountInCurrencyCents, convertAmountCents, roundRatToInt64).
THEOREM AmountsAreNear ==
    ASSUME NEW entry, entry.cents \in Int, NEW target, NEW stored,
           EntryConverts(entry, target),
           entry.text # NoText => {entry.text.num, entry.text.den} \subseteq Nat \ {0},
           NEW t, t = EffectiveRates(stored), t \in [Currencies -> Nat \ {0}],
           NEW n, n = ExactRatio(entry, target, t)[1],
           NEW d, d = ExactRatio(entry, target, t)[2],
           2 * Magnitude(entry.cents * n) < (Modulus - 1) * d
    PROVE  LET cents == EntryCents(entry, target, stored) IN
           /\ cents \in Int
           /\ 2 * Magnitude(cents * d - entry.cents * n) <= IF entry.currency = target THEN 0 ELSE d
<1> DEFINE source == entry.currency
           a == entry.cents
           cents == EntryCents(entry, target, stored)
<1>1. source \in Currencies /\ target \in Currencies /\ a \in Int /\ Precision \in Nat \ {0}
  BY RatesAssumption DEF EntryConverts, Converts
<1>2. CASE source = target
  <2>1. cents = a /\ n = 1 /\ d = 1
    BY <1>2 DEF EntryCents, ConvertAmountCents, ExactRatio
  <2>2. a * 1 - a * 1 = 0 /\ Magnitude(0) = 0
    BY <1>1 DEF Magnitude
  <2> QED
    BY <1>1, <1>2, <2>1, <2>2
<1>3. CASE source # target /\ entry.text # NoText
  <2>1. cents = RoundRatToInt64(a * n, d) /\ n \in Nat \ {0} /\ d \in Nat \ {0}
    BY <1>3 DEF EntryCents, ConvertAmountCents, ExactRatio
  <2>2. a * n \in Int
    BY <1>1, <2>1
  <2> QED
    BY <1>3, <2>1, <2>2, NearestCent
<1>4. CASE source # target /\ entry.text = NoText
  <2> DEFINE P == Precision
             x == a * n
  <2>1. n = t[target] /\ d = t[source] /\ n \in Nat \ {0} /\ d \in Nat \ {0}
    BY <1>1, <1>4 DEF ExactRatio
  <2>2. cents = RoundRatToInt64(a * n * P, P * d)
    BY <1>1, <1>4, <2>1 DEF EntryCents, ConvertAmountCents, AsRatios
  <2>3. x \in Int /\ a * n * P = x * P /\ P \in Nat \ {0}
    BY <1>1, <2>1
  <2> HIDE DEF P, x, cents
  <2>4. P * d \in Nat \ {0} /\ x * P \in Int
    BY <2>1, <2>3
  <2>5. Magnitude(x) \in Nat /\ Magnitude(x * P) = Magnitude(x) * P
    BY <2>3, <2>4 DEF Magnitude
  <2>6. 2 * Magnitude(x * P) < (Modulus - 1) * (P * d)
    <3> DEFINE X == Magnitude(x)
               b == (Modulus - 1) * d
    <3>1. 2 * X < b /\ b \in Int /\ (Modulus - 1) * (P * d) = b * P /\ 2 * (X * P) = (2 * X) * P /\ X \in Nat
      BY <2>1, <2>3, <2>5, MoneyAssumption DEF x
    <3> HIDE DEF X, b
    <3> DEFINE e == b - 2 * X
    <3>2. e \in Nat \ {0} /\ b = 2 * X + e
      BY <3>1
    <3> HIDE DEF e
    <3>3. b * P = (2 * X) * P + e * P /\ e * P \in Nat \ {0} /\ (2 * X) * P \in Nat
      BY <2>3, <3>1, <3>2
    <3> QED
      BY <2>5, <3>1, <3>3 DEF X
  <2>7. cents \in Int /\ 2 * Magnitude(cents * (P * d) - x * P) <= P * d
    BY <2>2, <2>3, <2>4, <2>6, NearestCent
  <2> DEFINE e == cents * d - x
  <2>8. e \in Int /\ cents * (P * d) - x * P = e * P
    BY <2>1, <2>3, <2>7
  <2> HIDE DEF e
  <2>9. Magnitude(e) \in Nat /\ Magnitude(e * P) = Magnitude(e) * P
    BY <2>3, <2>8 DEF Magnitude
  <2>10. 2 * Magnitude(e) <= d
    <3> DEFINE E == Magnitude(e)
    <3>1. E \in Nat /\ 2 * (E * P) <= P * d
      BY <2>7, <2>8, <2>9
    <3> HIDE DEF E
    <3>2. SUFFICES ASSUME ~(2 * E <= d) PROVE FALSE
      BY DEF E
    <3> DEFINE f == 2 * E - d
    <3>3. f \in Nat \ {0} /\ 2 * E = d + f
      BY <2>1, <3>1, <3>2
    <3> HIDE DEF f
    <3>4. 2 * (E * P) = (2 * E) * P /\ (d + f) * P = P * d + f * P /\ f * P \in Nat \ {0} /\ P * d \in Nat
      BY <2>1, <2>3, <3>1, <3>3
    <3> QED
      BY <3>1, <3>3, <3>4
  <2> QED
    BY <1>4, <2>7, <2>10 DEF e, x, cents
<1> QED
  BY <1>2, <1>3, <1>4

-----------------------------------------------------------------------------
(* What a step leaves alone.                                               *)

\* The phase, the pool and the context keep their relations.
LEMMA SamePhase ==
    ASSUME PhaseOK, UNCHANGED process
    PROVE  PhaseOK'
  BY DEF PhaseOK, process, Phases

\* So do the table that the updater holds, its transaction and the rates.
LEMMA SameUpdater ==
    ASSUME UpdaterOK, UNCHANGED <<refresh, rates>>
    PROVE  UpdaterOK'
  BY DEF UpdaterOK, refresh, Updaters, Fetched, NoRates, Usable, RatesFromECBCubes

\* So do the buckets and the attempts.
LEMMA SameLimits ==
    ASSUME LimitsOK, UNCHANGED limits
    PROVE  LimitsOK'
  BY DEF LimitsOK, BucketOK, limits, Spans, Keys

\* So do the requests.
LEMMA SameRequests ==
    ASSUME RequestsOK, UNCHANGED req
    PROVE  RequestsOK'
  BY DEF RequestsOK, RequestOK, RequestFields, Outcomes

-----------------------------------------------------------------------------
(* The updater.                                                            *)

\* The updater may always give up, or begin anew.
LEMMA UpdaterLetsGo ==
    ASSUME UpdaterOK, NEW next \in {"fetch", "wait", "done"}, Updates(next),
           rates' = rates \/ rates' \in Fetched
    PROVE  UpdaterOK'
  BY DEF UpdaterOK, Updates, Updaters, Fetched, NoRates, Usable, RatesFromECBCubes

\* Every step of the updater keeps what it holds.
LEMMA UpdaterKeeps ==
    ASSUME UpdaterOK, Updater \/ NextDay
    PROVE  UpdaterOK'
<1>1. CASE Fetch
  <2>1. CASE AfterFailure("wait")
    BY <1>1, <2>1, UpdaterLetsGo DEF Fetch, AfterFailure
  <2>2. CASE /\ \E f \in Feeds : Usable(f) /\ table' = RatesFromECBCubes(f)
             /\ updater' = "store" /\ UNCHANGED tx
    <3>1. table' \in Fetched
      BY <2>2 DEF Fetched
    <3>2. rates' = rates /\ updater = "fetch"
      BY <1>1 DEF Fetch
    <3> QED
      BY <2>2, <3>1, <3>2 DEF UpdaterOK, Updaters, Fetched, NoRates
  <2> QED
    BY <1>1, <2>1, <2>2 DEF Fetch
<1>2. CASE ReplaceInMemory
  <2>1. rates' \in Fetched /\ Updates("wait")
    BY <1>2 DEF ReplaceInMemory, UpdaterOK
  <2> QED
    BY <2>1, UpdaterLetsGo
<1>3. CASE BeginReplace
  BY <1>3, StoredRates DEF BeginReplace, UpdaterOK, Updaters, Fetched, NoRates
<1>4. CASE DeleteRate
  <2>1. CASE DOMAIN tx = {}
    BY <1>4, <2>1 DEF DeleteRate, UpdaterOK, Updaters, Fetched, NoRates
  <2>2. CASE DOMAIN tx # {}
    <3> DEFINE kept == DOMAIN tx \ {CHOOSE c \in DOMAIN tx : TRUE}
    <3>1. tx' = [c \in kept |-> tx[c]] /\ kept \subseteq DOMAIN tx
      BY <1>4, <2>2 DEF DeleteRate, Restrict
    <3> HIDE DEF kept
    <3>2. DOMAIN tx' \subseteq Currencies /\ tx' \in [DOMAIN tx' -> Nat]
      BY <1>4, <3>1 DEF DeleteRate, UpdaterOK
    <3> QED
      BY <1>4, <2>2, <3>2 DEF DeleteRate, UpdaterOK, Updaters, Fetched, NoRates
  <2> QED
    BY <2>1, <2>2
<1>5. CASE InsertRate
  <2>1. updater = "insert" /\ updater' = updater /\ table' = table /\ rates' = rates
    BY <1>5 DEF InsertRate
  <2>2. /\ table \in [Currencies -> Nat] /\ DOMAIN tx \subseteq Currencies
        /\ tx \in [DOMAIN tx -> Nat] /\ \A c \in DOMAIN tx : tx[c] = table[c]
    BY <2>1, FetchedTable DEF UpdaterOK
  <2> DEFINE new == CHOOSE c \in DOMAIN table \ DOMAIN tx : TRUE
  <2>3. new \in DOMAIN table \ DOMAIN tx
    BY <1>5, <2>2 DEF InsertRate
  <2>4. tx' = [d \in DOMAIN tx \cup {new} |-> IF d = new THEN table[new] ELSE tx[d]]
    BY <1>5 DEF InsertRate, Inserted
  <2> HIDE DEF new
  <2>5. /\ DOMAIN tx' \subseteq Currencies /\ tx' \in [DOMAIN tx' -> Nat]
        /\ \A c \in DOMAIN tx' : tx'[c] = table[c]
    BY <2>2, <2>3, <2>4
  <2> QED
    BY <2>1, <2>5 DEF UpdaterOK, Updaters, Fetched, NoRates
<1>6. CASE Commit
  <2>1. updater = "insert" /\ DOMAIN tx = DOMAIN table /\ rates' = tx /\ Updates("wait")
    BY <1>6 DEF Commit
  <2>2. /\ table \in [Currencies -> Nat] /\ table \in Fetched
        /\ tx \in [DOMAIN tx -> Nat] /\ \A c \in DOMAIN tx : tx[c] = table[c]
    BY <2>1, FetchedTable DEF UpdaterOK
  <2>3. tx = table
    BY <2>1, <2>2
  <2> QED
    BY <2>1, <2>2, <2>3, UpdaterLetsGo
<1>7. CASE Rollback
  BY <1>7, UpdaterLetsGo DEF Rollback, AfterFailure
<1>8. CASE StopUpdater
  BY <1>8, UpdaterLetsGo DEF StopUpdater
<1>9. CASE NextDay
  BY <1>9, UpdaterLetsGo DEF NextDay
<1> QED
  BY <1>1, <1>2, <1>3, <1>4, <1>5, <1>6, <1>7, <1>8, <1>9 DEF Updater

\* And it touches nothing else.
LEMMA UpdaterStep ==
    ASSUME ServerInv, Updater \/ NextDay
    PROVE  ServerInv'
<1>1. UNCHANGED <<process, limits, req>>
  BY DEF Updater, NextDay, Fetch, ReplaceInMemory, BeginReplace,
         DeleteRate, InsertRate, Commit, Rollback, StopUpdater
<1> QED
  BY <1>1, UpdaterKeeps, SamePhase, SameLimits, SameRequests DEF ServerInv

-----------------------------------------------------------------------------
(* Requests.                                                               *)

\* A request that goes on.
LEMMA RequestGoesOn ==
    ASSUME RequestsOK, NEW r \in Reqs, NEW q, RequestOK(q), Continue(r, q)
    PROVE  RequestsOK'
<1>1. DOMAIN req' = Reqs /\ \A s \in Reqs : req'[s] = IF s = r THEN q ELSE req[s]
  BY DEF RequestsOK, Continue
<1>2. \A s \in Reqs : RequestOK(req'[s])
  BY <1>1 DEF RequestsOK
<1> QED
  BY <1>1, <1>2 DEF RequestsOK, RequestOK, RequestFields, Outcomes

\* A request that has just come, or that has been answered.
LEMMA IdleOK ==
    RequestOK(NoRequest)
<1>1. 0 \in -MaxLag..0
  BY Times
<1> QED
  BY <1>1 DEF RequestOK, RequestFields, NoRequest, Outcomes

\* A handler that returns.
LEMMA RequestFinishes ==
    ASSUME RequestsOK, NEW r \in Reqs, NEW outcome \in Outcomes, Finish(r, outcome)
    PROVE  RequestsOK'
<1> DEFINE q == [NoRequest EXCEPT !.pc = "answer", !.outcome = outcome]
<1>1. DOMAIN NoRequest = RequestFields /\ NoRequest.at \in -MaxLag..0
  BY IdleOK DEF RequestOK
<1>2. DOMAIN q = RequestFields /\ q.pc = "answer" /\ q.outcome = outcome /\ q.at = NoRequest.at
  BY <1>1 DEF RequestFields
<1>3. Continue(r, q)
  BY DEF Finish
<1> HIDE DEF q
<1>4. RequestOK(q)
  BY <1>1, <1>2 DEF RequestOK
<1> QED
  BY <1>3, <1>4, RequestGoesOn

\* Every step of a request keeps what is said of the requests ...
LEMMA ServeKeepsRequests ==
    ASSUME ServerInv, NEW r \in Reqs, Serve(r)
    PROVE  RequestsOK'
<1>1. RequestsOK /\ RequestOK(req[r]) /\ DOMAIN req[r] = RequestFields
  BY DEF ServerInv, RequestsOK, RequestOK
<1>2. DOMAIN NoRequest = RequestFields /\ NoRequest.at \in -MaxLag..0 /\ NoRequest.outcome = "none"
  BY IdleOK DEF RequestOK, NoRequest
<1>3. {"ok", "limited", "closed", "failed", "rejected"} \subseteq Outcomes
  BY DEF Outcomes
<1>5. CASE ReceiveAuth(r)
  <2>1. PICK a \in Callers :
           Continue(r, [NoRequest EXCEPT !.pc = "allow", !.client = a[1], !.subject = a[2]])
    BY <1>5 DEF ReceiveAuth
  <2> DEFINE q == [NoRequest EXCEPT !.pc = "allow", !.client = a[1], !.subject = a[2]]
  <2>2. DOMAIN q = RequestFields /\ q.pc = "allow" /\ q.outcome = "none" /\ q.at = NoRequest.at
    BY <1>2 DEF RequestFields
  <2>3. RequestOK(q)
    BY <1>2, <2>2 DEF RequestOK, Outcomes
  <2> QED
    BY <1>1, <2>1, <2>3, RequestGoesOn
<1>6. CASE ReceiveSummary(r)
  <2>1. PICK query \in Queries :
           Continue(r, [NoRequest EXCEPT !.pc = "load", !.kind = "summary", !.query = query])
    BY <1>6 DEF ReceiveSummary
  <2> DEFINE q == [NoRequest EXCEPT !.pc = "load", !.kind = "summary", !.query = query]
  <2>2. DOMAIN q = RequestFields /\ q.pc = "load" /\ q.outcome = "none" /\ q.at = NoRequest.at
    BY <1>2 DEF RequestFields
  <2>3. RequestOK(q)
    BY <1>2, <2>2 DEF RequestOK, Outcomes
  <2> QED
    BY <1>1, <2>1, <2>3, RequestGoesOn
<1>7. CASE Admit(r)
  <2> DEFINE q == [NoRequest EXCEPT !.pc = "load", !.client = req[r].client]
  <2>1. Continue(r, q)
    BY <1>7 DEF Admit
  <2>2. DOMAIN q = RequestFields /\ q.pc = "load" /\ q.outcome = "none" /\ q.at = NoRequest.at
    BY <1>2 DEF RequestFields
  <2>3. RequestOK(q)
    BY <1>2, <2>2 DEF RequestOK, Outcomes
  <2> QED
    BY <1>1, <2>1, <2>3, RequestGoesOn
<1>8. CASE Refuse(r)
  BY <1>1, <1>3, <1>8, RequestFinishes DEF Refuse
<1>9. CASE LoadRates(r)
  <2>1. CASE Finish(r, "ok")
    BY <1>1, <1>3, <2>1, RequestFinishes
  <2>2. CASE Finish(r, "failed")
    BY <1>1, <1>3, <2>2, RequestFinishes
  <2>3. CASE Finish(r, "closed")
    BY <1>1, <1>3, <2>3, RequestFinishes
  <2>4. CASE Continue(r, [req[r] EXCEPT !.pc = "index"])
    <3> DEFINE q == [req[r] EXCEPT !.pc = "index"]
    <3>1. DOMAIN q = RequestFields /\ q.pc = "index" /\ q.outcome = req[r].outcome /\ q.at = req[r].at
      BY <1>1 DEF RequestFields
    <3>2. RequestOK(q)
      BY <1>1, <3>1 DEF RequestOK
    <3> QED
      BY <1>1, <2>4, <3>2, RequestGoesOn
  <2> QED
    BY <1>9, <2>1, <2>2, <2>3, <2>4 DEF LoadRates
<1>10. CASE Summarize(r)
  <2> DEFINE answer == Summary(Books[req[r].query[1]], req[r].query[2], req[r].query[3], rates)
             q == [req[r] EXCEPT !.pc = "answer", !.outcome = "ok", !.rates = rates, !.answer = answer]
  <2>1. \/ Finish(r, "closed") \/ Finish(r, "failed") \/ Finish(r, "rejected")
        \/ Continue(r, q)
    BY <1>10 DEF Summarize
  <2> HIDE DEF answer
  <2>3. CASE Finish(r, "closed")
    BY <1>1, <1>3, <2>3, RequestFinishes
  <2>4. CASE Finish(r, "failed")
    BY <1>1, <1>3, <2>4, RequestFinishes
  <2>5. CASE Finish(r, "rejected")
    BY <1>1, <1>3, <2>5, RequestFinishes
  <2>6. CASE Continue(r, q)
    <3>1. DOMAIN q = RequestFields /\ q.pc = "answer" /\ q.outcome = "ok" /\ q.at = req[r].at
      BY <1>1 DEF RequestFields
    <3>2. RequestOK(q)
      BY <1>1, <1>3, <3>1 DEF RequestOK
    <3> QED
      BY <1>1, <2>6, <3>2, RequestGoesOn
  <2> QED
    BY <2>1, <2>3, <2>4, <2>5, <2>6
<1>11. CASE Respond(r)
  BY <1>1, <1>11, IdleOK, RequestGoesOn DEF Respond
<1> QED
  BY <1>5, <1>6, <1>7, <1>8, <1>9, <1>10, <1>11 DEF Serve

\* ... and what is said of the buckets, which allow alone changes.
LEMMA ServeKeepsLimits ==
    ASSUME ServerInv, NEW r \in Reqs, Serve(r)
    PROVE  LimitsOK'
<1> DEFINE t == req[r].at
           keys == Attempted(r)
<1>1. LimitsOK /\ t \in -MaxLag..0
  BY DEF ServerInv, RequestsOK, RequestOK
<1>2. CASE Admit(r)
  <2>1. /\ Allows(Pruned(buckets, t), keys, t)
        /\ buckets' = AfterAttempt(buckets, keys, t)
        /\ admitted' = [k \in Keys |-> IF k \in keys THEN [n \in Spans |-> admitted[k][n] + 1]
                                               ELSE admitted[k]]
    BY <1>2 DEF Admit, Allowed
  <2> HIDE DEF t, keys
  <2> QED
    BY <1>1, <2>1, AdmissionKeepsLimits
<1>3. CASE Refuse(r)
  <2>1. buckets' = Pruned(buckets, t) /\ admitted' = admitted
    BY <1>3 DEF Refuse, Allowed, AfterAttempt
  <2> HIDE DEF t
  <2> QED
    BY <1>1, <2>1, PruningKeepsLimits
<1>4. CASE UNCHANGED limits
  BY <1>1, <1>4, SameLimits
<1> QED
  BY <1>2, <1>3, <1>4 DEF Serve, ReceiveAuth, ReceiveSummary,
         LoadRates, Summarize, Respond

\* A request changes neither the process nor the rates.
LEMMA ServeStep ==
    ASSUME ServerInv, NEW r \in Reqs, Serve(r)
    PROVE  ServerInv'
<1>1. UNCHANGED <<process, refresh, rates>>
  BY DEF Serve, ReceiveAuth, ReceiveSummary, Admit, Refuse,
         LoadRates, Summarize, Respond
<1> QED
  BY <1>1, ServeKeepsRequests, ServeKeepsLimits, SamePhase, SameUpdater DEF ServerInv

-----------------------------------------------------------------------------
(* The process and the clock.                                              *)

\* The end of the process takes its memory.
LEMMA ExitStep ==
    ASSUME ServerInv, NEW ended \in {"stopped", "killed"}, Exit(ended)
    PROVE  ServerInv'
<1>1. PhaseOK'
  BY DEF ServerInv, PhaseOK, Exit, Phases
<1>2. UpdaterOK'
  BY DEF ServerInv, UpdaterOK, Exit, Updaters, Fetched, NoRates
<1>3. LimitsOK'
  <2>1. DOMAIN buckets' = {} /\ admitted' = [k \in Keys |-> [n \in Spans |-> 0]] /\ 0 <= Limit
    BY Times DEF Exit, NoBuckets, NoneAdmitted
  <2> QED
    BY <2>1 DEF LimitsOK, Spans, Keys
<1>4. RequestsOK'
  <2>1. DOMAIN req' = Reqs /\ \A r \in Reqs : req'[r] = NoRequest
    BY DEF Exit
  <2>2. RequestOK(NoRequest) /\ NoRequest.outcome = "none"
    BY IdleOK DEF NoRequest
  <2>3. \A r \in Reqs : RequestOK(req'[r]) /\ req'[r].outcome = "none"
    BY <2>1, <2>2
  <2> QED
    BY <2>1, <2>3 DEF RequestsOK, RequestOK, RequestFields, Outcomes
<1> QED
  BY <1>1, <1>2, <1>3, <1>4 DEF ServerInv

\* The steps of a shutdown.
LEMMA ShutdownStep ==
    ASSUME ServerInv, Shutdown
    PROVE  ServerInv'
<1>1. CASE Signal
  <2>1. PhaseOK'
    BY <1>1 DEF Signal, ServerInv, PhaseOK, Phases
  <2>2. RequestsOK'
    BY <1>1 DEF Signal, ServerInv, RequestsOK, RequestOK, RequestFields, Outcomes
  <2> QED
    BY <1>1, <2>1, <2>2, SameUpdater, SameLimits DEF Signal, ServerInv
<1>2. CASE ListenerFails
  BY <1>2, ExitStep DEF ListenerFails
<1>3. CASE CancelUpdater
  <2>1. PhaseOK'
    BY <1>3 DEF CancelUpdater, ServerInv, PhaseOK, Phases
  <2> QED
    BY <1>3, <2>1, SameUpdater, SameLimits, SameRequests DEF CancelUpdater, ServerInv
<1>4. CASE ClosePool
  <2>1. PhaseOK'
    BY <1>4 DEF ClosePool, ServerInv, PhaseOK, Phases
  <2> QED
    BY <1>4, <2>1, SameUpdater, SameLimits, SameRequests DEF ClosePool, ServerInv
<1>5. CASE Drained
  BY <1>5, ExitStep DEF Drained
<1>6. CASE TimeOut
  BY <1>6, ExitStep DEF TimeOut
<1> QED
  BY <1>1, <1>2, <1>3, <1>4, <1>5, <1>6 DEF Shutdown

\* A tick of the clock makes the wait of every attempt longer.
LEMMA TickStep ==
    ASSUME ServerInv, Tick
    PROVE  ServerInv'
<1>1. LimitsOK'
  <2>1. /\ buckets' = [k \in DOMAIN buckets |-> [buckets[k] EXCEPT !.resetAt = Older(@)]]
        /\ admitted' = [k \in Keys |-> [n \in Spans |-> IF n = 1 THEN 0 ELSE admitted[k][n - 1]]]
    BY DEF Tick
  <2> QED
    BY <2>1, TickKeepsLimits DEF ServerInv
<1>2. RequestsOK'
  <2>1. DOMAIN req' = Reqs
    BY DEF Tick
  <2>2. ASSUME NEW r \in Reqs PROVE RequestOK(req'[r])
    <3>1. RequestOK(req[r]) /\ DOMAIN req[r] = RequestFields /\ req[r].at \in -MaxLag..0 /\ req[r].at > -MaxLag
      BY <2>2 DEF Tick, ServerInv, RequestsOK, RequestOK
    <3>2. CASE req[r].pc # "allow"
      BY <2>2, <3>1, <3>2 DEF Tick
    <3>3. CASE req[r].pc = "allow"
      <4>1. req'[r] = [req[r] EXCEPT !.at = @ - 1]
        BY <2>2, <3>3 DEF Tick
      <4>2. /\ DOMAIN req'[r] = RequestFields /\ req'[r].pc = req[r].pc
            /\ req'[r].outcome = req[r].outcome /\ req'[r].at = req[r].at - 1
        BY <3>1, <4>1 DEF RequestFields
      <4>3. req[r].at - 1 \in -MaxLag..0
        BY <3>1, Times
      <4> QED
        BY <3>1, <4>2, <4>3 DEF RequestOK
    <3> QED
      BY <3>2, <3>3
  <2> QED
    BY <2>1, <2>2 DEF RequestsOK, RequestOK, RequestFields, Outcomes
<1>3. UNCHANGED <<process, refresh, rates>>
  BY DEF Tick
<1> QED
  BY <1>1, <1>2, <1>3, SamePhase, SameUpdater DEF ServerInv

\* The process as NewServer leaves it.
LEMMA ServerStarts ==
    ASSUME ServerInit
    PROVE  ServerInv
<1>1. PICK s \in Starts : driver = s.driver /\ updater = s.updater /\ kinds = s.kinds /\ rates = s.rates
  BY DEF ServerInit
<1>2. driver \in {"memory", "sql"} /\ updater \in {"off", "fetch"} /\ rates \in {NoRates, DefaultRates}
  BY <1>1, ServerAssumption DEF NoRates
<1>3. PhaseOK
  BY <1>2 DEF ServerInit, PhaseOK, Phases
<1>4. UpdaterOK
  BY <1>2 DEF ServerInit, UpdaterOK, Updaters
<1>5. LimitsOK
  <2>1. DOMAIN buckets = {} /\ admitted = [k \in Keys |-> [n \in Spans |-> 0]] /\ 0 <= Limit
    BY Times DEF ServerInit, NoBuckets, NoneAdmitted
  <2> QED
    BY <2>1 DEF LimitsOK
<1>6. RequestsOK
  BY IdleOK DEF ServerInit, RequestsOK
<1> QED
  BY <1>3, <1>4, <1>5, <1>6 DEF ServerInv

\* One step keeps the invariant.
LEMMA ServerStep ==
    ASSUME ServerInv, [ServerNext]_serverVars
    PROVE  ServerInv'
<1>1. CASE UNCHANGED serverVars
  BY <1>1, SamePhase, SameUpdater, SameLimits, SameRequests DEF serverVars, process, ServerInv
<1>2. CASE ServerNext
  BY <1>2, UpdaterStep, ShutdownStep, TickStep, ServeStep DEF ServerNext
<1> QED
  BY <1>1, <1>2

\* The invariant of the process: the phase and the pool, the table that the
\* updater holds and its transaction, what every bucket knows of the attempts,
\* and the outcome of every request.
THEOREM ServerInvariant == ServerSpec => []ServerInv
<1>1. ServerInit => ServerInv
  BY ServerStarts
<1>2. ServerInv /\ [ServerNext]_serverVars => ServerInv'
  BY ServerStep
<1> QED
  BY <1>1, <1>2, PTL DEF ServerSpec

\* However the clients of a key and the others interleave, and although each
\* is judged by a clock that has moved on, no more than twice the limit gets
\* through within a window less the longest wait for the mutex (allow,
\* pruneLocked).
THEOREM LimiterHolds == ServerSpec => []AdmittedBounded
<1>1. ServerInv => AdmittedBounded
  BY LimitsBound DEF ServerInv
<1> QED
  BY <1>1, ServerInvariant, PTL

\* Readers see the bootstrap rates or those of one whole fetch, each right to
\* half a unit of the last decimal, whatever statement fails and whenever the
\* updater is cancelled (ReplaceExchangeRates, ratesFromECBCubes).
THEOREM WholeTables == ServerSpec => []RatesFromOneFetch
<1>1. ASSUME ServerInv PROVE RatesFromOneFetch
  <2>1. DOMAIN rates \subseteq Currencies /\ \A c \in DOMAIN rates : rates[c] \in Nat
    BY <1>1, StoredRates DEF ServerInv
  <2>2. tx # NoTable <=> updater \in {"delete", "insert"}
    BY <1>1, ServerAssumption DEF ServerInv, UpdaterOK
  <2>3. \A k \in DOMAIN buckets : buckets[k].count \in Nat \ {0} /\ buckets[k].resetAt \in -MaxLag..Window
    BY <1>1 DEF ServerInv, LimitsOK, BucketOK
  <2>4. \A r \in Reqs : /\ req[r].pc \in {"idle", "allow", "load", "index", "answer"}
                        /\ req[r].outcome \in Outcomes /\ req[r].at \in -MaxLag..0
    BY <1>1 DEF ServerInv, RequestsOK, RequestOK
  <2>5. /\ driver \in {"memory", "sql"} /\ phase \in Phases /\ cancelled \in BOOLEAN
        /\ pool \in {"none", "open", "closed"} /\ (driver = "memory" <=> pool = "none")
        /\ updater \in Updaters /\ admitted \in [Keys -> [Spans -> Nat]]
    BY <1>1 DEF ServerInv, PhaseOK, UpdaterOK, LimitsOK
  <2>6. ServerTypeOK
    BY <2>1, <2>2, <2>3, <2>4, <2>5 DEF ServerTypeOK
  <2>7. CASE rates \in {NoRates, DefaultRates}
    BY <2>6, <2>7 DEF RatesFromOneFetch, NoRates, NoRates
  <2>8. CASE rates \in Fetched
    <3>1. DOMAIN rates = Currencies
      BY <2>8, FetchedTable
    <3> QED
      BY <2>6, <2>8, <3>1, FetchedTable DEF RatesFromOneFetch
  <2> QED
    BY <1>1, <2>7, <2>8 DEF ServerInv, UpdaterOK
<1> QED
  BY <1>1, ServerInvariant, PTL
=============================================================================
