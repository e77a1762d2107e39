--------------------------- MODULE SnapshotStore ---------------------------
(***************************************************************************)
(* The file driver: a SnapshotStore keeps everything in a MemoryStore and  *)
(* saves the whole of it to one JSON file after each write.  The ledger,   *)
(* auth, imports and audit packages each have one, of the same shape.      *)
(*                                                                         *)
(* A snapshot is the set of writes it includes.  The file system, the      *)
(* process and the power are external; they are modelled as far as         *)
(* persistence/jsonfile.go relies on them.                                 *)
(***************************************************************************)
CONSTANTS Writes,     \* the changes callers ask for
          Calls,      \* goroutines that may be inside the store
          Nobody,     \* SnapshotStore.mu is free
          NoFile      \* no file at a path

Files == [data: SUBSET Writes, complete: BOOLEAN, synced: BOOLEAN]

ASSUME SnapshotAssumption == /\ Nobody \notin Calls
                             /\ NoFile \notin Files

VARIABLES up,         \* the process is running
          memory,     \* SnapshotStore.memory
          mu,         \* holder of SnapshotStore.mu
          call,       \* what every goroutine is doing
          temp,       \* the temporary file of the running save
          path,       \* the file at the store's path
          onDisk,     \* the file the path names if the power fails now
          acked,      \* history: writes whose save was reported and not lost with the power
          unsaved     \* history: writes whose save failed, until the next that succeeds

vars == <<up, memory, mu, call, temp, path, onDisk, acked, unsaved>>

\* "put" saves whatever the store held; "ensure" is SaveBatchIfAbsent, which
\* answers with what the store holds.
Kinds == {"put", "ensure"}
Saving == {"create", "encode", "sync", "rename"}
PCs == {"idle", "lock", "apply", "return"} \cup Saving
CallStates == [pc: PCs, kind: Kinds, write: Writes]
Idle == [pc |-> "idle"]

TypeOK == /\ up \in BOOLEAN
          /\ memory \subseteq Writes
          /\ mu \in Calls \cup {Nobody}
          /\ call \in [Calls -> CallStates \cup {Idle}]
          /\ {temp, path, onDisk} \subseteq Files \cup {NoFile}
          /\ acked \subseteq Writes /\ unsaved \subseteq Writes

\* What LoadJSON makes of a file: nothing stored yet leaves the fallback.
Contents(file) == IF file = NoFile THEN {} ELSE file.data
Loads(file) == IF file = NoFile THEN TRUE ELSE file.complete

Durable == INSTANCE DurableStore
             WITH visible <- IF up THEN memory ELSE Contents(path),
                  stored <- Contents(path), stable <- Contents(onDisk)

At(c, pc) == [pc |-> pc, kind |-> call[c].kind, write |-> call[c].write]

Init == /\ up = TRUE
        /\ memory = {}
        /\ mu = Nobody
        /\ call = [c \in Calls |-> Idle]
        /\ temp = NoFile /\ path = NoFile /\ onDisk = NoFile
        /\ acked = {} /\ unsaved = {}

Goto(c, pc) == call' = [call EXCEPT ![c] = At(c, pc)]

\* The deferred Unlock as the call returns.
Leave(c) == /\ call' = [call EXCEPT ![c] = Idle]
            /\ mu' = Nobody

files == <<temp, path, onDisk>>

-----------------------------------------------------------------------------
Begin(c, kind, w) ==
    /\ up /\ call[c].pc = "idle"
    /\ call' = [call EXCEPT ![c] = [pc |-> "lock", kind |-> kind, write |-> w]]
    /\ UNCHANGED <<up, memory, mu, files, acked, unsaved>>

Lock(c) ==
    /\ call[c].pc = "lock"
    /\ mu = Nobody
    /\ mu' = c
    /\ Goto(c, "apply")
    /\ UNCHANGED <<up, memory, files, acked, unsaved>>

\* The MemoryStore call: refused, answered by what is there, or applied.  An
\* answer without a save reports a write that an earlier save may have failed
\* to store: it promises the others only.
Found(c) ==
    LET w == call[c].write IN
    /\ call[c].pc = "apply"
    /\ call[c].kind = "ensure" /\ w \in memory
    /\ Leave(c)
    /\ acked' = acked \cup ({w} \ unsaved)
    /\ UNCHANGED <<up, memory, files, unsaved>>

Refused(c) == call[c].pc = "apply" /\ Leave(c) /\ UNCHANGED <<up, memory, files, acked, unsaved>>

Apply(c) ==
    LET w == call[c].write IN
    /\ call[c].pc = "apply"
    /\ ~(call[c].kind = "ensure" /\ w \in memory)
    /\ memory' = memory \cup {w}
    /\ Goto(c, "create")
    /\ UNCHANGED <<up, mu, files, acked, unsaved>>

\* persist: SaveJSONAtomic on a copy of the memory, one file operation a step.
CreateTemp(c) ==
    /\ call[c].pc = "create"
    /\ temp' = [data |-> memory, complete |-> FALSE, synced |-> FALSE]
    /\ Goto(c, "encode")
    /\ UNCHANGED <<up, memory, mu, path, onDisk, acked, unsaved>>

NoSync(c) ==
    /\ call[c].pc = "encode"
    /\ temp' = [data |-> temp.data, complete |-> TRUE, synced |-> FALSE]
    /\ Goto(c, "rename")
    /\ UNCHANGED <<up, memory, mu, path, onDisk, acked, unsaved>>
Encode(c) ==
    /\ call[c].pc = "encode"
    /\ temp' = [data |-> temp.data, complete |-> TRUE, synced |-> FALSE]
    /\ Goto(c, "sync")
    /\ UNCHANGED <<up, memory, mu, path, onDisk, acked, unsaved>>

Sync(c) ==
    /\ call[c].pc = "sync"
    /\ temp' = [data |-> temp.data, complete |-> TRUE, synced |-> TRUE]
    /\ Goto(c, "rename")
    /\ UNCHANGED <<up, memory, mu, path, onDisk, acked, unsaved>>

Rename(c) ==
    /\ call[c].pc = "rename"
    /\ path' = temp
    /\ temp' = NoFile
    /\ unsaved' = {}
    /\ Goto(c, "return")
    /\ UNCHANGED <<up, memory, mu, onDisk, acked>>

\* Any file operation fails: the temporary file is removed, the caller gets
\* an error, and the memory keeps the write.
SaveErrorAcked(c) ==
    /\ call[c].pc \in Saving
    /\ temp' = NoFile
    /\ Leave(c)
    /\ acked' = acked \cup {call[c].write}
    /\ UNCHANGED <<up, memory, path, onDisk, unsaved>>
SaveErrorKeepsLock(c) ==
    /\ call[c].pc \in Saving
    /\ temp' = NoFile
    /\ unsaved' = unsaved \cup {call[c].write}
    /\ call' = [call EXCEPT ![c] = Idle]
    /\ UNCHANGED <<up, memory, mu, path, onDisk, acked>>
SaveError(c) ==
    /\ call[c].pc \in Saving
    /\ temp' = NoFile
    /\ unsaved' = unsaved \cup {call[c].write}
    /\ Leave(c)
    /\ UNCHANGED <<up, memory, path, onDisk, acked>>

Return(c) ==
    /\ call[c].pc = "return"
    /\ Leave(c)
    /\ acked' = acked \cup {call[c].write}
    /\ UNCHANGED <<up, memory, files, unsaved>>

-----------------------------------------------------------------------------
\* The process stops anywhere.  A left-over temporary file is never read:
\* os.CreateTemp picks a fresh name.
Stop == /\ up
        /\ up' = FALSE
        /\ memory' = {} /\ unsaved' = {} /\ mu' = Nobody /\ temp' = NoFile
        /\ call' = [c \in Calls |-> Idle]

Crash == Stop /\ UNCHANGED <<path, onDisk, acked>>

\* The operating system writes the directory entry out in its own time: the
\* code does not sync the directory.
SettleDirectory == /\ onDisk' = path
                   /\ UNCHANGED <<up, memory, mu, call, temp, path, acked, unsaved>>

\* What was not synced of a file is lost with the power.
PowerFailure ==
    /\ Stop
    /\ path' = IF onDisk = NoFile THEN NoFile
               ELSE [data |-> onDisk.data, complete |-> onDisk.complete /\ onDisk.synced,
                     synced |-> TRUE]
    /\ onDisk' = path'
    /\ acked' = acked \cap Contents(onDisk)

\* newSnapshotStore; a file that does not decode keeps the server from starting.
LoadsFallback == /\ ~up
                 /\ up' = TRUE
                 /\ memory' = {}
                 /\ UNCHANGED <<mu, call, files, acked, unsaved>>
Load == /\ ~up /\ Loads(path)
        /\ up' = TRUE
        /\ memory' = Contents(path)
        /\ UNCHANGED <<mu, call, files, acked, unsaved>>

Step(c) == \/ Refused(c) \/ Found(c) \/ Apply(c) \/ CreateTemp(c) \/ Encode(c) \/ Sync(c) \/ Rename(c)
           \/ SaveError(c) \/ Return(c)

Next == \/ \E c \in Calls : \/ \E kind \in Kinds, w \in Writes : Begin(c, kind, w)
                            \/ Lock(c) \/ Step(c)
        \/ Crash \/ SettleDirectory \/ PowerFailure \/ Load

Spec == Init /\ [][Next]_vars

\* A goroutine inside the store is scheduled; sync.Mutex hands the lock to a
\* goroutine that has waited (starvation mode), hence strong fairness.
FairSpec == Spec /\ \A c \in Calls : WF_vars(Step(c)) /\ SF_vars(Lock(c))

-----------------------------------------------------------------------------
\* A crash or a power failure at any moment leaves a file that the next start
\* can load: SaveJSONAtomic writes and syncs a temporary file before it
\* renames it.
AlwaysLoads == Loads(path)

\* A write whose save was reported as a success is in the file, whatever fails
\* or crashes afterwards; so is one that a call answered from memory, unless
\* an earlier save of it had failed.  Only a power failure may take it away
\* again, when the directory was not yet written out.
AckedAreStored == acked \subseteq Contents(path)

\* The driver implements DurableStore: the file always holds one whole state
\* that reads could see, and never goes back except with the power.
ImplementsDurable == Durable!Spec

\* A caller inside the store gets out again: the saves do not lock each other
\* out and no error path keeps the lock.
CallsReturn == \A c \in Calls : call[c].pc # "idle" ~> call[c].pc = "idle"

=============================================================================
