----------------------------- MODULE DurableLog -----------------------------
(***************************************************************************)
(* One append-only log of the state dir: the loop appends entries in        *)
(* memory, durableQueue (orchestrator/durable.go) drains them off the loop, *)
(* and appendLog (state/jsonl.go) writes and syncs one record at a time.    *)
(* A write may fail part way, a sync may fail, the rollback may fail; the   *)
(* process may crash and the machine may lose what was not synced.          *)
(*                                                                          *)
(* An entry is a number, in the order of its append.  Big entries are over  *)
(* the record limit.  A record of the file is [rec, whole].                 *)
(***************************************************************************)
EXTENDS Naturals, Sequences, FiniteSetsExt

CONSTANTS MaxEntries,     \* bound: entries appended over all lives of the daemon
          MaxIoFaults,    \* bound: disk calls that fail
          MaxCrashes,     \* bound: crashes and restarts
          Big,            \* the entries over maxRecordBytes
          Failing         \* the entries that record an issue's failure

ASSUME LogAssumption ==
    MaxEntries \in Nat /\ MaxIoFaults \in Nat /\ MaxCrashes \in Nat

VARIABLES daemon,         \* "up", "draining" (the loop returned), "down"
          appended,       \* entries appended so far
          pending,        \* durableQueue.pending
          wake,           \* the capacity-1 signal
          drainer,        \* where persist, flush and the append they are in stand
          file,           \* the records of the log
          synced,         \* how many of them are known to be on disk
          broken,         \* appendLog.broken: a fragment could not be removed
          acked,          \* entries whose append returned nil
          gaveUp,         \* flush ran out of its budget
          ioFaults, crashes

logVars == <<daemon, appended, pending, wake, drainer, file, synced, broken, acked, gaveUp,
             ioFaults, crashes>>

\* walkLog: the records a reader is given, a trailing fragment ignored.
Whole(f) == {i \in DOMAIN f : f[i].whole}
LogUp == daemon \in {"up", "draining"}

-----------------------------------------------------------------------------
(* The authority goroutine. *)

\* Mutant: the entry is queued and nobody is told.
LogAppendUnwoken ==
    /\ daemon = "up" /\ appended < MaxEntries
    /\ appended' = appended + 1
    /\ pending' = Append(pending, appended + 1)
    /\ UNCHANGED <<daemon, wake, drainer, file, synced, broken, acked, gaveUp, ioFaults, crashes>>

\* append and enqueue: the entry is queued and a wake is left outstanding.
LogAppend ==
    /\ daemon = "up" /\ appended < MaxEntries
    /\ appended' = appended + 1
    /\ pending' = Append(pending, appended + 1)
    /\ wake' = TRUE
    /\ UNCHANGED <<daemon, drainer, file, synced, broken, acked, gaveUp, ioFaults, crashes>>

\* The loop returned and persist with it: flush starts a drain of its own.
\* g.Wait keeps it from starting while persist is inside an append.
BeginFlush ==
    /\ daemon = "up" /\ drainer \in {"wait", "retry", "drain"}
    /\ daemon' = "draining" /\ drainer' = "drain"
    /\ UNCHANGED <<appended, pending, wake, file, synced, broken, acked, gaveUp, ioFaults, crashes>>

-----------------------------------------------------------------------------
(* The drain. *)

\* persist: an empty queue waits for the wake, a failed drain for the delay.
Persist ==
    /\ daemon = "up"
    /\ \/ drainer = "wait" /\ wake /\ wake' = FALSE
       \/ drainer = "retry" /\ UNCHANGED wake
    /\ drainer' = "drain"
    /\ UNCHANGED <<daemon, appended, pending, file, synced, broken, acked, gaveUp, ioFaults, crashes>>

\* flush: retries until the queue is empty or its budget is gone.
FlushStep ==
    /\ daemon = "draining"
    /\ \/ drainer = "retry" /\ drainer' = "drain" /\ UNCHANGED <<daemon, gaveUp>>
       \/ drainer = "wait" /\ daemon' = "down" /\ UNCHANGED <<drainer, gaveUp>>
       \/ /\ drainer \in {"retry", "drain"} /\ drainer' = "wait" /\ daemon' = "down"
          /\ gaveUp' = (pending # <<>>)
    /\ UNCHANGED <<appended, pending, wake, file, synced, broken, acked, ioFaults, crashes>>

\* Mutant: a failed entry is passed over.
DrainSkipping ==
    /\ LogUp /\ drainer = "drain"
    /\ IF pending = <<>> THEN drainer' = "wait" /\ UNCHANGED pending
       ELSE IF broken \/ Head(pending) \in Big
       THEN drainer' = "drain" /\ pending' = Tail(pending)
       ELSE drainer' = "write" /\ UNCHANGED pending
    /\ UNCHANGED <<daemon, appended, wake, file, synced, broken, acked, gaveUp, ioFaults, crashes>>

\* drain takes the head.  A log that broke drops it, loudly; a record over the
\* limit is refused with an ordinary error, and stays at the head.
Drain ==
    /\ LogUp /\ drainer = "drain"
    /\ IF pending = <<>> THEN drainer' = "wait" /\ UNCHANGED pending
       ELSE IF Head(pending) \in Big THEN drainer' = "retry" /\ UNCHANGED pending
       ELSE IF broken THEN drainer' = "drain" /\ pending' = Tail(pending)
       ELSE drainer' = "write" /\ UNCHANGED pending
    /\ UNCHANGED <<daemon, appended, wake, file, synced, broken, acked, gaveUp, ioFaults, crashes>>

\* appendRecord, the write: all of the record, part of it, or none.
WriteRecord ==
    /\ LogUp /\ drainer = "write"
    /\ \/ /\ file' = Append(file, [rec |-> Head(pending), whole |-> TRUE])
          /\ drainer' = "sync" /\ UNCHANGED ioFaults
       \/ /\ ioFaults < MaxIoFaults /\ ioFaults' = ioFaults + 1
          /\ \/ file' = Append(file, [rec |-> Head(pending), whole |-> FALSE])
             \/ UNCHANGED file
          /\ drainer' = "rollback"
    /\ UNCHANGED <<daemon, appended, pending, wake, synced, broken, acked, gaveUp, crashes>>

\* Mutant: a record is acknowledged before it is synced.
SyncRecordLater ==
    /\ LogUp /\ drainer = "sync"
    /\ acked' = acked \cup {Head(pending)} /\ pending' = Tail(pending) /\ drainer' = "drain"
    /\ UNCHANGED <<daemon, appended, wake, file, synced, broken, gaveUp, ioFaults, crashes>>

\* Mutant: the offset counts the newline twice.
SyncRecordPastEnd ==
    /\ LogUp /\ drainer = "sync"
    /\ synced' = Len(file) + 1 /\ acked' = acked \cup {Head(pending)}
    /\ pending' = Tail(pending) /\ drainer' = "drain"
    /\ UNCHANGED <<daemon, appended, wake, file, broken, gaveUp, ioFaults, crashes>>

\* appendRecord, the sync: only a synced record leaves the queue.
SyncRecord ==
    /\ LogUp /\ drainer = "sync"
    /\ \/ /\ synced' = Len(file) /\ acked' = acked \cup {Head(pending)}
          /\ pending' = Tail(pending) /\ drainer' = "drain" /\ UNCHANGED ioFaults
       \/ /\ ioFaults < MaxIoFaults /\ ioFaults' = ioFaults + 1
          /\ drainer' = "rollback" /\ UNCHANGED <<synced, acked, pending>>
    /\ UNCHANGED <<daemon, appended, wake, file, broken, gaveUp, crashes>>

\* Mutant: a failed append leaves what it wrote.
RollbackNothing ==
    /\ LogUp /\ drainer = "rollback" /\ drainer' = "retry"
    /\ UNCHANGED <<daemon, appended, pending, wake, file, synced, broken, acked, gaveUp, ioFaults, crashes>>

\* rollback: back to where the file stood, or never append again.
Rollback ==
    /\ LogUp /\ drainer = "rollback"
    /\ \/ /\ file' = SubSeq(file, 1, synced) /\ drainer' = "retry" /\ UNCHANGED <<pending, broken, ioFaults>>
       \/ /\ ioFaults < MaxIoFaults /\ ioFaults' = ioFaults + 1
          /\ broken' = TRUE /\ pending' = Tail(pending) /\ drainer' = "drain" /\ UNCHANGED file
    /\ UNCHANGED <<daemon, appended, wake, synced, acked, gaveUp, crashes>>

-----------------------------------------------------------------------------
(* Crashes. *)

\* What the disk may hold after a power loss: what was synced, and of the last
\* record written over it nothing, a part or all.
Survivors ==
    LET kept == SubSeq(file, 1, synced)
        last == IF pending # <<>> /\ drainer \in {"write", "sync", "rollback", "retry"}
                THEN {Head(pending)} ELSE {}
    IN  {file, kept} \cup {Append(kept, r) : r \in [rec : last \ Big, whole : BOOLEAN]}

LogCrash ==
    /\ LogUp /\ crashes < MaxCrashes
    /\ crashes' = crashes + 1
    /\ \E f \in Survivors : file' = f
    /\ daemon' = "down"
    /\ UNCHANGED <<appended, pending, wake, drainer, synced, broken, acked, gaveUp, ioFaults>>

\* Mutant: the log is opened without repairing its tail.
RepairNothing(f) == f

\* repairTail: an incomplete last record is cut before anything is appended.
RepairTail(f) == IF f # <<>> /\ ~f[Len(f)].whole THEN SubSeq(f, 1, Len(f) - 1) ELSE f

\* openAppendLog of the next daemon.
OpenAppendLog ==
    /\ daemon = "down" /\ crashes < MaxCrashes
    /\ crashes' = crashes + 1
    /\ file' = RepairTail(file) /\ synced' = Len(RepairTail(file))
    /\ daemon' = "up" /\ pending' = <<>> /\ wake' = FALSE /\ drainer' = "drain"
    /\ broken' = FALSE /\ gaveUp' = FALSE
    /\ UNCHANGED <<appended, acked, ioFaults>>

-----------------------------------------------------------------------------
(* Readers. *)

\* Mutant: the first failure of the log is reported, not the last.
LastFailureFirst(f) ==
    LET failures == {i \in Whole(f) : f[i].rec \in Failing}
    IN  IF failures = {} THEN 0 ELSE f[Min(failures)].rec

\* TransitionReader.LastFailure: of the records in order, the last that failed.
LastFailure(f) ==
    LET failures == {i \in Whole(f) : f[i].rec \in Failing}
    IN  IF failures = {} THEN 0 ELSE f[Max(failures)].rec

\* TransitionLog.LastFailure: the same answer from memory.
LastFailureInMemory ==
    LET failures == Failing \cap 1..appended
    IN  IF failures = {} THEN 0 ELSE Max(failures)

-----------------------------------------------------------------------------
LogInit ==
    /\ daemon = "up" /\ appended = 0 /\ pending = <<>> /\ wake = FALSE /\ drainer = "drain"
    /\ file = <<>> /\ synced = 0 /\ broken = FALSE /\ acked = {} /\ gaveUp = FALSE
    /\ ioFaults = 0 /\ crashes = 0

DrainerStep == Persist \/ FlushStep \/ Drain \/ WriteRecord \/ SyncRecord \/ Rollback

LogNext ==
    \/ LogAppend \/ BeginFlush \/ Persist \/ FlushStep \/ Drain \/ WriteRecord \/ SyncRecord
    \/ Rollback \/ LogCrash \/ OpenAppendLog

\* The drain's goroutine runs and its timers fire.
LogFair == WF_logVars(DrainerStep)

LogSpec == LogInit /\ [][LogNext]_logVars /\ LogFair

-----------------------------------------------------------------------------
LogEntries == 1..MaxEntries
LogRecords == [rec : LogEntries, whole : BOOLEAN]

(* The state of the log and its queue. *)
LogTypeOK ==
    /\ daemon \in {"up", "draining", "down"} /\ appended \in 0..MaxEntries
    /\ drainer \in {"wait", "retry", "drain", "write", "sync", "rollback"}
    /\ wake \in BOOLEAN /\ broken \in BOOLEAN /\ gaveUp \in BOOLEAN
    /\ pending \in Seq(LogEntries) /\ file \in Seq(LogRecords)
    /\ synced \in 0..Len(file) /\ acked \subseteq 1..appended
    /\ ioFaults \in 0..MaxIoFaults /\ crashes \in 0..MaxCrashes

(* A record is in the log once, and the log is in the order of the appends: *)
(* neither a retry nor a crash between write and sync repeats or reorders.  *)
OnceInOrder ==
    \A i, j \in DOMAIN file : i < j => file[i].rec < file[j].rec

(* A reader never meets a hole: only the last record can be a fragment, and *)
(* nothing is written after one.                                            *)
NoRecordAfterFragment ==
    \A i \in DOMAIN file : ~file[i].whole => i = Len(file)

(* An append that returned nil is on disk, through every crash since. *)
AckedIsDurable ==
    acked \subseteq {file[i].rec : i \in Whole(file)}

(* A hole in the log is never silent: an entry older than one on disk is on *)
(* disk too, was lost with a crash, or the log broke and said so.           *)
NoSilentHole ==
    crashes = 0 /\ ~broken =>
        \A e \in acked : \A d \in 1..e : d \in acked

(* A restart reads the failure the daemon knew: once the queue is drained,  *)
(* the log and the memory of the loop name the same last failure.           *)
RestartReadsTheFailure ==
    crashes = 0 /\ ~broken /\ pending = <<>> => LastFailure(file) = LastFailureInMemory

(* What durableQueue and appendLog promise the loop that appends and the    *)
(* restart that reads: once, in order, no hole that nobody was told of, and *)
(* nothing acknowledged lost, whatever write, sync, rollback or life fails. *)
LogSafe == /\ LogTypeOK /\ OnceInOrder /\ NoRecordAfterFragment /\ AckedIsDurable
           /\ NoSilentHole /\ RestartReadsTheFailure

(* The queue drains: what is appended reaches the disk, or is dropped by a  *)
(* broken log, or waits behind a record over the limit.                     *)
QueueDrains ==
    (daemon = "up" /\ pending # <<>>) ~>
        (pending = <<>> \/ daemon # "up" \/ Head(pending) \in Big)
=============================================================================
