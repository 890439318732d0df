-------------------------- MODULE DurableLogProofs --------------------------
(***************************************************************************)
(* LogSafe for every number of entries, failing disk calls and crashes.    *)
(*                                                                         *)
(* LogSafe is not inductive: that the file stays in order depends on what  *)
(* the queue holds, and that an acknowledged record survives a crash on    *)
(* how far the file was synced at each stage of an append.  LogInv says    *)
(* both, and what a life without crashes adds.                             *)
(***************************************************************************)
EXTENDS DurableLog, WellFoundedInduction, TLAPS

USE SMTT(30), ZenonT(30)

\* How many entries have left the queue.
Left(a, p) == a - Len(p)

\* A queue of the last entries appended, in order.
Queued(a, p) == Len(p) <= a /\ \A i \in DOMAIN p : p[i] = Left(a, p) + i

QueueOK == Queued(appended, pending)

\* The file: at most one record over the synced ones, none of them a fragment.
FileOK ==
    /\ OnceInOrder /\ NoRecordAfterFragment
    /\ Len(file) <= synced + 1
    /\ \A i \in 1..synced : file[i].whole
    /\ \A i \in DOMAIN file : file[i].rec <= appended

\* Where an append stands: outside one, an unbroken file is as it was synced, and
\* only the record being written is newer than what has left the queue.
DrainOK == LogUp =>
    /\ drainer \in {"write", "sync", "rollback"} => pending # <<>> /\ ~broken
    /\ drainer \notin {"sync", "rollback"} /\ ~broken => Len(file) = synced
    /\ drainer = "sync" => /\ Len(file) = synced + 1 /\ file[Len(file)].whole
                           /\ file[Len(file)].rec = Left(appended, pending) + 1
    /\ \A i \in DOMAIN file :
          \/ file[i].rec <= Left(appended, pending)
          \/ /\ drainer \in {"sync", "rollback"} /\ i = synced + 1
             /\ file[i].rec = Left(appended, pending) + 1

\* What was acknowledged is among the synced records.
AckOK == \A e \in acked : \E i \in 1..synced : file[i].rec = e

\* Before the first crash entry i is record i, and everything that left the queue
\* of an unbroken log was acknowledged.
FirstLifeOK == crashes = 0 /\ ~broken =>
    /\ synced = Left(appended, pending)
    /\ \A i \in 1..synced : file[i].rec = i
    /\ acked = 1..synced
    /\ daemon = "down" => Len(file) = synced

LogInv == LogTypeOK /\ QueueOK /\ FileOK /\ DrainOK /\ AckOK /\ FirstLifeOK

-----------------------------------------------------------------------------
(* Sequences.                                                              *)

\* An entry more.
LEMMA AppendFacts ==
    ASSUME NEW S, NEW s \in Seq(S), NEW x \in S
    PROVE  /\ Append(s, x) \in Seq(S) /\ Len(Append(s, x)) = Len(s) + 1
           /\ Append(s, x)[Len(s) + 1] = x
           /\ \A i \in 1..Len(s) : Append(s, x)[i] = s[i]
OBVIOUS

\* The head gone.
LEMMA TailFacts ==
    ASSUME NEW S, NEW s \in Seq(S), s # <<>>
    PROVE  /\ Head(s) = s[1] /\ s[1] \in S /\ Len(s) > 0
           /\ Tail(s) \in Seq(S) /\ Len(Tail(s)) = Len(s) - 1
           /\ \A i \in 1..(Len(s) - 1) : Tail(s)[i] = s[i + 1]
OBVIOUS

\* Cut to its first n.
LEMMA CutFacts ==
    ASSUME NEW S, NEW s \in Seq(S), NEW n \in 0..Len(s)
    PROVE  /\ SubSeq(s, 1, n) \in Seq(S) /\ Len(SubSeq(s, 1, n)) = n
           /\ \A i \in 1..n : SubSeq(s, 1, n)[i] = s[i]
OBVIOUS

\* No entry.
LEMMA EmptyFacts ==
    ASSUME NEW S
    PROVE  <<>> \in Seq(S) /\ Len(<<>>) = 0 /\ DOMAIN <<>> = {}
OBVIOUS

\* The fields of a record of the log.
LEMMA RecordFacts ==
    ASSUME NEW f \in Seq(LogRecords), LogEntries \subseteq Nat
    PROVE  \A i \in DOMAIN f : f[i].rec \in Nat /\ f[i].whole \in BOOLEAN
<1> TAKE i \in DOMAIN f
<1>1. f[i] \in LogRecords
  OBVIOUS
<1> QED
  BY <1>1, ZenonT(30) DEF LogRecords

\* The queue that an entry joins, or whose head leaves.
LEMMA QueueFacts ==
    ASSUME NEW a \in Nat, NEW p \in Seq(LogEntries), Queued(a, p), p # <<>>
    PROVE  /\ Left(a, p) \in Nat /\ Head(p) = Left(a, p) + 1 /\ Head(p) \in LogEntries
           /\ Head(p) \in 1..a
           /\ Tail(p) \in Seq(LogEntries) /\ Queued(a, Tail(p)) /\ Left(a, Tail(p)) = Left(a, p) + 1
<1>1. /\ Head(p) = p[1] /\ p[1] \in LogEntries /\ Len(p) > 0 /\ Len(p) \in Nat
      /\ Tail(p) \in Seq(LogEntries) /\ Len(Tail(p)) = Len(p) - 1
      /\ \A i \in 1..(Len(p) - 1) : Tail(p)[i] = p[i + 1]
  BY TailFacts
<1>2. Left(a, p) \in Nat /\ Left(a, Tail(p)) = Left(a, p) + 1 /\ Head(p) = Left(a, p) + 1 /\ Head(p) \in 1..a
  BY <1>1 DEF Queued, Left
<1>3. Queued(a, Tail(p))
  <2>1. DOMAIN Tail(p) = 1..(Len(p) - 1) /\ DOMAIN p = 1..Len(p)
    BY <1>1
  <2>2. \A i \in 1..(Len(p) - 1) : p[i + 1] = Left(a, p) + (i + 1)
    BY <1>1, <2>1 DEF Queued
  <2>3. \A i \in DOMAIN Tail(p) : Tail(p)[i] = Left(a, Tail(p)) + i
    BY <1>1, <1>2, <2>1, <2>2
  <2> QED
    BY <1>1, <2>3 DEF Queued
<1> QED
  BY <1>1, <1>2, <1>3

-----------------------------------------------------------------------------
(* The last of a bounded set.                                              *)

\* A set of naturals that is not empty has a least element.
LEMMA LeastExists ==
    ASSUME NEW T, T \subseteq Nat, T # {}
    PROVE  \E x \in T : \A y \in T : x <= y
<1>1. \E x \in T : \A y \in T : ~(<<y, x>> \in OpToRel(<, Nat))
  BY NatLessThanWellFounded, WFMin
<1>2. PICK x \in T : \A y \in T : ~(<<y, x>> \in OpToRel(<, Nat))
  BY <1>1
<1>3. \A y \in T : ~(y < x)
  BY <1>2, ZenonT(30) DEF OpToRel
<1> QED
  BY <1>3

\* A bounded one has a greatest, and Max is it.
LEMMA MaxFacts ==
    ASSUME NEW n \in Nat, NEW S, S \subseteq 0 .. n, S # {}
    PROVE  Max(S) \in S /\ \A y \in S : y <= Max(S)
<1> DEFINE T == {n - x : x \in S}
<1>1. T \subseteq Nat
  OBVIOUS
<1>2. T # {}
  <2>1. PICK x \in S : TRUE
    BY ZenonT(30)
  <2>2. n - x \in T
    OBVIOUS
  <2> HIDE DEF T
  <2> QED
    BY <2>2
<1> HIDE DEF T
<1>3. PICK t \in T : \A y \in T : t <= y
  BY <1>1, <1>2, LeastExists, ZenonT(30)
<1>4. PICK x \in S : t = n - x
  BY DEF T
<1>5. \A y \in S : x >= y
  <2> TAKE y \in S
  <2>1. n - y \in T
    BY DEF T
  <2>2. n - x <= n - y /\ x \in 0 .. n /\ y \in 0 .. n
    BY <1>3, <1>4, <2>1
  <2> QED
    BY <2>2
<1>6. \E z \in S : \A y \in S : z >= y
  BY <1>5
<1>7. Max(S) \in S /\ \A y \in S : Max(S) >= y
  BY <1>6, ZenonT(30) DEF Max
<1>8. \A y \in S : y \in Nat
  OBVIOUS
<1> QED
  BY <1>7, <1>8

-----------------------------------------------------------------------------
(* The invariant.                                                          *)

\* An empty log satisfies it.
LEMMA InvInit == LogInit => LogInv
<1> SUFFICES ASSUME LogInit PROVE LogInv
  OBVIOUS
<1>0. /\ pending \in Seq(LogEntries) /\ Len(pending) = 0 /\ DOMAIN pending = {}
      /\ file \in Seq(LogRecords) /\ Len(file) = 0 /\ DOMAIN file = {}
  BY EmptyFacts DEF LogInit
<1>1. /\ daemon = "up" /\ appended = 0 /\ wake = FALSE /\ drainer = "drain" /\ synced = 0
      /\ broken = FALSE /\ acked = {} /\ gaveUp = FALSE /\ ioFaults = 0 /\ crashes = 0
  BY DEF LogInit
<1>2. LogTypeOK
  <2>1. appended \in 0..MaxEntries /\ ioFaults \in 0..MaxIoFaults /\ crashes \in 0..MaxCrashes
    BY <1>1, LogAssumption
  <2>2. synced \in 0..Len(file) /\ acked \subseteq 1..appended
    BY <1>0, <1>1
  <2> QED
    BY <1>0, <1>1, <2>1, <2>2, ZenonT(30) DEF LogTypeOK
<1>3. QueueOK /\ FileOK /\ DrainOK /\ AckOK
  BY <1>0, <1>1 DEF QueueOK, Queued, FileOK, DrainOK, AckOK, OnceInOrder, NoRecordAfterFragment, Left, LogUp
<1>4. FirstLifeOK
  <2>1. 1..0 = {} /\ Left(appended, pending) = 0
    BY <1>0, <1>1 DEF Left
  <2> QED
    BY <1>0, <1>1, <2>1 DEF FirstLifeOK
<1> QED
  BY <1>2, <1>3, <1>4 DEF LogInv

\* Every step of the loop, the drain, a crash and the next open keep it.
LEMMA InvStep == LogInv /\ [LogNext]_logVars => LogInv'
<1> SUFFICES ASSUME LogInv, [LogNext]_logVars PROVE LogInv'
  OBVIOUS
<1>0. /\ appended \in 0..MaxEntries /\ MaxEntries \in Nat /\ MaxIoFaults \in Nat /\ MaxCrashes \in Nat
      /\ daemon \in {"up", "draining", "down"}
      /\ drainer \in {"wait", "retry", "drain", "write", "sync", "rollback"}
      /\ wake \in BOOLEAN /\ broken \in BOOLEAN /\ gaveUp \in BOOLEAN
      /\ pending \in Seq(LogEntries) /\ file \in Seq(LogRecords)
      /\ synced \in 0..Len(file) /\ acked \subseteq 1..appended
      /\ ioFaults \in 0..MaxIoFaults /\ crashes \in 0..MaxCrashes
      /\ Len(pending) \in Nat /\ Len(file) \in Nat
  BY LogAssumption DEF LogInv, LogTypeOK
<1>0a. \A i \in DOMAIN file : file[i].rec \in Nat /\ file[i].whole \in BOOLEAN
  BY <1>0, RecordFacts DEF LogEntries
<1>0b. appended \in Nat /\ Left(appended, pending) \in Nat /\ Queued(appended, pending)
  BY <1>0 DEF LogInv, QueueOK, Queued, Left
<1> USE DEF LogInv
<1>1. CASE UNCHANGED logVars
  BY <1>1 DEF logVars, LogTypeOK, QueueOK, FileOK, DrainOK, AckOK, FirstLifeOK, OnceInOrder,
     NoRecordAfterFragment, LogUp
<1>2. CASE LogAppend
  <2>1. LogTypeOK'
    BY <1>0, <1>2, AppendFacts DEF LogAppend, LogTypeOK, LogEntries
  <2>2. QueueOK'
    BY <1>0, <1>2 DEF LogAppend, QueueOK, Queued, Left, LogEntries
  <2>3. Left(appended, pending)' = Left(appended, pending)
    BY <1>0, <1>2 DEF LogAppend, Left, LogEntries
  <2>4. FileOK'
    BY <1>0a, <1>0b, <1>2 DEF LogAppend, FileOK, OnceInOrder, NoRecordAfterFragment
  <2>5. DrainOK'
    BY <1>0, <1>2, <2>3 DEF LogAppend, DrainOK, LogUp
  <2>6. AckOK' /\ FirstLifeOK'
    BY <1>2, <2>3 DEF LogAppend, AckOK, FirstLifeOK
  <2> QED
    BY <2>1, <2>2, <2>4, <2>5, <2>6
<1>3. CASE BeginFlush
  <2>1. LogTypeOK' /\ QueueOK' /\ FileOK' /\ AckOK' /\ FirstLifeOK'
    BY <1>3 DEF BeginFlush, LogTypeOK, QueueOK, FileOK, AckOK, FirstLifeOK, OnceInOrder, NoRecordAfterFragment
  <2>2. DrainOK'
    BY <1>3 DEF BeginFlush, DrainOK, LogUp
  <2> QED
    BY <2>1, <2>2
<1>4. CASE Persist
  <2>1. LogTypeOK' /\ QueueOK' /\ FileOK' /\ AckOK' /\ FirstLifeOK'
    BY <1>0, <1>4, ZenonT(30) DEF Persist, LogTypeOK, QueueOK, FileOK, AckOK, FirstLifeOK, OnceInOrder, NoRecordAfterFragment
  <2>2. DrainOK'
    BY <1>4 DEF Persist, DrainOK, LogUp
  <2> QED
    BY <2>1, <2>2
<1>5. CASE FlushStep
  <2>1. LogTypeOK' /\ QueueOK' /\ FileOK' /\ AckOK'
    BY <1>0, <1>5, ZenonT(30) DEF FlushStep, LogTypeOK, QueueOK, FileOK, AckOK, OnceInOrder, NoRecordAfterFragment
  <2>2. DrainOK'
    BY <1>5 DEF FlushStep, DrainOK, LogUp
  <2>3. FirstLifeOK'
    BY <1>5 DEF FlushStep, FirstLifeOK, DrainOK, LogUp
  <2> QED
    BY <2>1, <2>2, <2>3

<1>6. CASE Drain
  <2>1. \/ pending' = pending /\ drainer' = "wait"
        \/ pending' = pending /\ drainer' = "retry"
        \/ pending' = pending /\ drainer' = "write" /\ pending # <<>> /\ ~broken
        \/ pending' = Tail(pending) /\ drainer' = "drain" /\ pending # <<>> /\ broken
    BY <1>6 DEF Drain
  <2>2. /\ UNCHANGED <<daemon, appended, wake, file, synced, broken, acked, gaveUp, ioFaults, crashes>>
        /\ LogUp /\ LogUp' /\ drainer = "drain"
    BY <1>6 DEF Drain, LogUp
  <2>3. pending # <<>> => /\ Tail(pending) \in Seq(LogEntries) /\ Queued(appended, Tail(pending))
                          /\ Left(appended, Tail(pending)) = Left(appended, pending) + 1
    BY <1>0, <1>0b, QueueFacts
  <2>4. LogTypeOK'
    BY <1>0, <2>1, <2>2, <2>3 DEF LogTypeOK
  <2>5. QueueOK' /\ Left(appended, pending)' \in Nat /\ Left(appended, pending)' >= Left(appended, pending)
    <3>1. CASE pending' = pending
      BY <1>0b, <2>2, <3>1 DEF QueueOK
    <3>2. CASE pending' = Tail(pending) /\ pending # <<>>
      BY <1>0b, <2>2, <2>3, <3>2 DEF QueueOK
    <3> QED
      BY <2>1, <3>1, <3>2
  <2>6. FileOK' /\ AckOK'
    BY <2>2 DEF FileOK, AckOK, OnceInOrder, NoRecordAfterFragment
  <2>7. DrainOK'
    <3>1. \A i \in DOMAIN file : file[i].rec <= Left(appended, pending)
      BY <2>2 DEF DrainOK
    <3>2. \A i \in DOMAIN file : file[i].rec <= Left(appended, pending)'
      BY <1>0a, <1>0b, <2>5, <3>1
    <3> QED
      BY <2>1, <2>2, <3>2 DEF DrainOK
  <2>8. FirstLifeOK'
    BY <2>1, <2>2 DEF FirstLifeOK
  <2> QED
    BY <2>4, <2>5, <2>6, <2>7, <2>8
<1>7. CASE WriteRecord
  <2> DEFINE r(w) == [rec |-> Head(pending), whole |-> w]
  <2>1. /\ UNCHANGED <<daemon, appended, pending, wake, synced, broken, acked, gaveUp, crashes>>
        /\ LogUp /\ LogUp' /\ drainer = "write" /\ pending # <<>> /\ ~broken /\ Len(file) = synced
        /\ Left(appended, pending)' = Left(appended, pending)
    BY <1>7 DEF WriteRecord, LogUp, DrainOK
  <2>2. Head(pending) = Left(appended, pending) + 1 /\ Head(pending) \in LogEntries
        /\ Head(pending) <= appended /\ Left(appended, pending) \in Nat
    BY <1>0, <1>0b, <2>1, QueueFacts
  <2>3. \/ file' = Append(file, r(TRUE)) /\ drainer' = "sync"
        \/ file' = Append(file, r(FALSE)) /\ drainer' = "rollback"
        \/ file' = file /\ drainer' = "rollback"
    BY <1>7 DEF WriteRecord
  <2>4. \A w \in BOOLEAN :
           /\ Append(file, r(w)) \in Seq(LogRecords) /\ Len(Append(file, r(w))) = Len(file) + 1
           /\ Append(file, r(w))[Len(file) + 1] = r(w)
           /\ \A i \in 1..Len(file) : Append(file, r(w))[i] = file[i]
    <3> TAKE w \in BOOLEAN
    <3>1. r(w) \in LogRecords
      BY <2>2 DEF LogRecords
    <3> HIDE DEF r
    <3> QED
      BY <1>0, <3>1, AppendFacts
  <2>5. \A w \in BOOLEAN : r(w).rec = Head(pending) /\ r(w).whole = w
    OBVIOUS
  <2> HIDE DEF r
  <2>6. ioFaults' \in 0..MaxIoFaults /\ drainer' \in {"sync", "rollback"} /\ daemon' # "down"
    BY <1>0, <1>7, <2>1, <2>3 DEF WriteRecord, LogUp
  <2>7. /\ file' \in Seq(LogRecords) /\ Len(file') \in {synced, synced + 1}
        /\ \A i \in 1..synced : file'[i] = file[i]
        /\ Len(file') = synced + 1 => file'[synced + 1].rec = Head(pending)
        /\ drainer' = "sync" => Len(file') = synced + 1 /\ file'[synced + 1].whole
    <3>1. CASE file' = file /\ drainer' = "rollback"
      BY <1>0, <2>1, <3>1
    <3>2. ASSUME NEW w \in BOOLEAN, file' = Append(file, r(w)), drainer' = "sync" => w
          PROVE  /\ file' \in Seq(LogRecords) /\ Len(file') = synced + 1
                 /\ \A i \in 1..synced : file'[i] = file[i]
                 /\ file'[synced + 1].rec = Head(pending)
                 /\ drainer' = "sync" => file'[synced + 1].whole
      <4>1. /\ file' \in Seq(LogRecords) /\ Len(file') = synced + 1 /\ file'[synced + 1] = r(w)
            /\ \A i \in 1..synced : file'[i] = file[i]
        BY <2>1, <2>4, <3>2
      <4> QED
        BY <2>5, <3>2, <4>1, ZenonT(30)
    <3>3. CASE file' = Append(file, r(TRUE)) /\ drainer' = "sync"
      BY <3>2, <3>3, ZenonT(30)
    <3>4. CASE file' = Append(file, r(FALSE)) /\ drainer' = "rollback"
      BY <3>2, <3>4, ZenonT(30)
    <3> QED
      BY <2>3, <3>1, <3>3, <3>4, ZenonT(30)
  <2>8. LogTypeOK'
    BY <1>0, <2>1, <2>6, <2>7 DEF LogTypeOK
  <2>9. QueueOK' /\ AckOK' /\ FirstLifeOK'
    BY <2>1, <2>6, <2>7 DEF QueueOK, AckOK, FirstLifeOK
  <2>10. /\ \A i \in 1..synced : file'[i].rec \in Nat /\ file'[i].rec < Head(pending) /\ file'[i].whole
         /\ \A i \in 1..synced : file'[i].rec <= Left(appended, pending)
    <3>1. \A i \in 1..synced : i \in DOMAIN file
      BY <1>0
    <3>2. \A i \in 1..synced : file[i].rec <= Left(appended, pending) /\ file[i].rec \in Nat /\ file[i].whole
      BY <1>0a, <2>1, <3>1 DEF DrainOK, FileOK
    <3> QED
      BY <2>2, <2>7, <3>2
  <2>11. \A i \in DOMAIN file' : i \in 1..synced \/ (i = synced + 1 /\ i = Len(file'))
    BY <1>0, <2>7
  <2>12. \A i \in DOMAIN file' : i \in Nat /\ (i = Len(file') \/ i < Len(file'))
    BY <2>7
  <2>13. OnceInOrder' /\ NoRecordAfterFragment'
    <3>1. OnceInOrder'
      <4> SUFFICES ASSUME NEW i \in DOMAIN file', NEW j \in DOMAIN file', i < j
                   PROVE  file'[i].rec < file'[j].rec
        BY DEF OnceInOrder
      <4>1. i \in 1..synced
        BY <1>0, <2>11
      <4>2. CASE j \in 1..synced
        BY <1>0, <2>7, <4>1, <4>2 DEF FileOK, OnceInOrder
      <4>3. CASE j = synced + 1 /\ j = Len(file')
        BY <2>7, <2>10, <4>1, <4>3
      <4> QED
        BY <2>11, <4>2, <4>3
    <3>2. NoRecordAfterFragment'
      BY <2>10, <2>11 DEF NoRecordAfterFragment
    <3> QED
      BY <3>1, <3>2
  <2>14. FileOK'
    <3>1. \A i \in DOMAIN file' : file'[i].rec <= appended
      BY <1>0, <2>2, <2>7, <2>10, <2>11
    <3> QED
      BY <1>0, <2>1, <2>7, <2>10, <2>13, <3>1 DEF FileOK
  <2>15. DrainOK'
    BY <2>1, <2>2, <2>6, <2>7, <2>10, <2>11 DEF DrainOK
  <2> QED
    BY <2>8, <2>9, <2>14, <2>15
<1>8. CASE SyncRecord
  <2>1. /\ UNCHANGED <<daemon, appended, wake, file, broken, gaveUp, crashes>>
        /\ LogUp /\ LogUp' /\ drainer = "sync" /\ pending # <<>> /\ ~broken
        /\ Len(file) = synced + 1 /\ file[Len(file)].whole
        /\ ioFaults' \in 0..MaxIoFaults
    BY <1>0, <1>8 DEF SyncRecord, LogUp, DrainOK
  <2>2. /\ Head(pending) = Left(appended, pending) + 1 /\ Head(pending) \in 1..appended
        /\ Tail(pending) \in Seq(LogEntries) /\ Queued(appended, Tail(pending))
        /\ Left(appended, Tail(pending)) = Left(appended, pending) + 1
    BY <1>0, <1>0b, <2>1, QueueFacts
  <2>3. \A i \in DOMAIN file : file[i].rec \in Nat /\ file[i].whole
    <3>1. \A i \in DOMAIN file : i \in 1..synced \/ i = Len(file)
      BY <1>0, <2>1
    <3> QED
      BY <1>0a, <2>1, <3>1 DEF FileOK
  <2>4. /\ file[synced + 1].rec = Head(pending)
        /\ \A i \in 1..synced : file[i].rec <= Left(appended, pending)
    <3>1. \A i \in 1..synced : i \in DOMAIN file /\ i # synced + 1
      BY <1>0, <2>1
    <3>2. \A i \in 1..synced : file[i].rec <= Left(appended, pending)
      BY <2>1, <3>1 DEF DrainOK
    <3>3. file[synced + 1].rec = Left(appended, pending) + 1
      BY <2>1 DEF DrainOK
    <3> QED
      BY <2>2, <3>2, <3>3
  <2>5. FileOK'
    <3>1. Len(file) <= synced' + 1 /\ \A i \in 1..synced' : file[i].whole
      BY <1>0, <1>8, <2>1, <2>3 DEF SyncRecord
    <3> QED
      BY <2>1, <3>1 DEF FileOK, OnceInOrder, NoRecordAfterFragment
  <2>6. CASE synced' = Len(file) /\ acked' = acked \cup {Head(pending)} /\ pending' = Tail(pending) /\ drainer' = "drain"
    <3>1. LogTypeOK'
      <4>0. acked' \subseteq 1..appended
        BY <1>0, <2>2, <2>6, ZenonT(30)
      <4>1. pending' \in Seq(LogEntries) /\ acked' \subseteq 1..appended /\ synced' \in 0..Len(file)
        BY <1>0, <2>2, <2>6, <4>0
      <4> QED
        BY <1>0, <2>1, <2>6, <4>1 DEF LogTypeOK
    <3>2. QueueOK' /\ Left(appended, pending)' = Left(appended, pending) + 1
      BY <2>1, <2>2, <2>6 DEF QueueOK
    <3>3. \A i \in DOMAIN file : file[i].rec <= Left(appended, pending)'
      BY <1>0, <1>0b, <2>1, <2>2, <2>3, <2>4, <3>2
    <3>4. DrainOK'
      BY <2>1, <2>6, <3>3 DEF DrainOK
    <3>5. AckOK'
      <4>1. 1..synced \subseteq 1..synced' /\ synced + 1 \in 1..synced'
        BY <1>0, <2>1, <2>6
      <4> QED
        BY <2>1, <2>4, <2>6, <4>1 DEF AckOK
    <3>6. FirstLifeOK'
      BY <1>0, <2>1, <2>2, <2>4, <2>6, <3>2 DEF FirstLifeOK, LogUp
    <3> QED
      BY <2>5, <3>1, <3>2, <3>4, <3>5, <3>6
  <2>7. CASE drainer' = "rollback" /\ UNCHANGED <<synced, acked, pending>>
    <3>1. LogTypeOK'
      BY <1>0, <2>1, <2>7 DEF LogTypeOK
    <3>2. QueueOK' /\ AckOK' /\ FirstLifeOK'
      BY <2>1, <2>7 DEF QueueOK, AckOK, FirstLifeOK
    <3>3. DrainOK'
      BY <2>1, <2>7 DEF DrainOK
    <3> QED
      BY <2>5, <3>1, <3>2, <3>3
  <2> QED
    BY <1>8, <2>6, <2>7 DEF SyncRecord
<1>9. CASE Rollback
  <2>1. /\ UNCHANGED <<daemon, appended, wake, synced, acked, gaveUp, crashes>>
        /\ LogUp /\ LogUp' /\ drainer = "rollback" /\ pending # <<>> /\ ~broken
        /\ ioFaults' \in 0..MaxIoFaults
    BY <1>0, <1>9 DEF Rollback, LogUp, DrainOK
  <2>3. \A i \in 1..synced : i \in DOMAIN file /\ i # synced + 1
    BY <1>0
  <2>5. CASE file' = SubSeq(file, 1, synced) /\ drainer' = "retry" /\ UNCHANGED <<pending, broken, ioFaults>>
    <3>1. file' \in Seq(LogRecords) /\ Len(file') = synced /\ \A i \in 1..synced : file'[i] = file[i]
      BY <1>0, <2>5, CutFacts
    <3>2. DOMAIN file' = 1..synced
      BY <1>0, <3>1
    <3>3. LogTypeOK'
      BY <1>0, <2>1, <2>5, <3>1 DEF LogTypeOK
    <3>4. QueueOK' /\ AckOK' /\ FirstLifeOK'
      BY <2>1, <2>5, <3>1, ZenonT(30) DEF QueueOK, AckOK, FirstLifeOK, LogUp
    <3>5. FileOK'
      <4>1. OnceInOrder' /\ NoRecordAfterFragment'
        BY <2>3, <3>1, <3>2 DEF FileOK, OnceInOrder, NoRecordAfterFragment
      <4>2. \A i \in 1..synced : file[i].whole /\ file[i].rec <= appended
        BY <2>3 DEF FileOK
      <4>3. synced <= synced + 1
        BY <1>0
      <4> QED
        BY <2>1, <3>1, <3>2, <4>1, <4>2, <4>3 DEF FileOK
    <3>6. DrainOK'
      BY <2>1, <2>3, <2>5, <3>1, <3>2 DEF DrainOK
    <3> QED
      BY <3>3, <3>4, <3>5, <3>6
  <2>6. CASE broken' = TRUE /\ pending' = Tail(pending) /\ drainer' = "drain" /\ UNCHANGED file
    <3>1. /\ Tail(pending) \in Seq(LogEntries) /\ Queued(appended, Tail(pending))
          /\ Left(appended, Tail(pending)) = Left(appended, pending) + 1
      BY <1>0, <1>0b, <2>1, QueueFacts
    <3>2. LogTypeOK'
      BY <1>0, <2>1, <2>6, <3>1 DEF LogTypeOK
    <3>3. QueueOK' /\ Left(appended, pending)' = Left(appended, pending) + 1
      BY <2>1, <2>6, <3>1 DEF QueueOK
    <3>4. FileOK' /\ AckOK' /\ FirstLifeOK'
      BY <2>1, <2>6 DEF FileOK, AckOK, FirstLifeOK, OnceInOrder, NoRecordAfterFragment
    <3>5. \A i \in DOMAIN file : file[i].rec <= Left(appended, pending)'
      BY <1>0a, <1>0b, <2>1, <3>3 DEF DrainOK
    <3>6. DrainOK'
      BY <2>1, <2>6, <3>5 DEF DrainOK
    <3> QED
      BY <3>2, <3>3, <3>4, <3>6
  <2> QED
    BY <1>9, <2>5, <2>6, ZenonT(30) DEF Rollback
<1>10. CASE LogCrash
  <2>1. /\ UNCHANGED <<appended, pending, wake, drainer, synced, broken, acked, gaveUp, ioFaults>>
        /\ LogUp /\ daemon' = "down" /\ ~LogUp' /\ crashes' = crashes + 1 /\ crashes' \in 0..MaxCrashes
        /\ file' \in Survivors
    BY <1>0, <1>10 DEF LogCrash, LogUp
  <2> DEFINE kept == SubSeq(file, 1, synced)
  <2>2. kept \in Seq(LogRecords) /\ Len(kept) = synced /\ \A i \in 1..synced : kept[i] = file[i]
    BY <1>0, CutFacts
  <2>3. \/ file' = file \/ file' = kept
        \/ \E w \in BOOLEAN : pending # <<>> /\ file' = Append(kept, [rec |-> Head(pending), whole |-> w])
    <3> DEFINE last == IF pending # <<>> /\ drainer \in {"write", "sync", "rollback", "retry"}
                       THEN {Head(pending)} ELSE {}
    <3>1. \/ file' = file \/ file' = kept
          \/ \E r \in [rec : last \ Big, whole : BOOLEAN] : file' = Append(kept, r)
      BY <2>1, ZenonT(30) DEF Survivors
    <3>2. \A e \in last : pending # <<>> /\ e = Head(pending)
      OBVIOUS
    <3> HIDE DEF last, kept
    <3>3. \A r \in [rec : last \ Big, whole : BOOLEAN] :
             pending # <<>> /\ r.rec = Head(pending) /\ r = [rec |-> Head(pending), whole |-> r.whole] /\ r.whole \in BOOLEAN
      BY <3>2
    <3> QED
      BY <3>1, <3>3
  <2> HIDE DEF kept
  <2>4. pending # <<>> => Head(pending) = Left(appended, pending) + 1 /\ Head(pending) \in LogEntries
                          /\ Head(pending) <= appended /\ Left(appended, pending) \in Nat
    BY <1>0, <1>0b, QueueFacts
  <2>5. \A i \in DOMAIN file : file[i].rec \in Nat
    BY <1>0a
  <2>6. \A i \in 1..synced : i \in DOMAIN file /\ i # synced + 1
    BY <1>0
  <2>7. \A i \in 1..synced : file[i].rec <= Left(appended, pending)
    BY <2>1, <2>6 DEF DrainOK
  <2>8. QueueOK' /\ DrainOK' /\ FirstLifeOK'
    BY <1>0, <2>1 DEF QueueOK, DrainOK, FirstLifeOK
  <2>9. CASE file' = file
    BY <1>0, <2>1, <2>8, <2>9 DEF LogTypeOK, FileOK, AckOK, OnceInOrder, NoRecordAfterFragment
  <2>10. CASE file' = kept
    <3>1. LogTypeOK'
      BY <1>0, <2>1, <2>2, <2>10 DEF LogTypeOK
    <3>2. DOMAIN file' = 1..synced
      BY <1>0, <2>2, <2>10
    <3>3. FileOK' /\ AckOK'
      BY <1>0, <2>1, <2>2, <2>6, <2>10, <3>2 DEF FileOK, AckOK, OnceInOrder, NoRecordAfterFragment
    <3> QED
      BY <2>8, <3>1, <3>3
  <2>11. CASE \E w \in BOOLEAN : pending # <<>> /\ file' = Append(kept, [rec |-> Head(pending), whole |-> w])
    <3>1. PICK w \in BOOLEAN : pending # <<>> /\ file' = Append(kept, [rec |-> Head(pending), whole |-> w])
      BY <2>11
    <3> DEFINE r == [rec |-> Head(pending), whole |-> w]
    <3>2. r \in LogRecords /\ r.rec = Head(pending)
      BY <2>4, <3>1 DEF LogRecords
    <3>3. file' = Append(kept, r)
      BY <3>1
    <3> HIDE DEF r
    <3>4. /\ file' \in Seq(LogRecords) /\ Len(file') = synced + 1 /\ file'[synced + 1] = r
          /\ \A i \in 1..synced : file'[i] = file[i]
      BY <1>0, <2>2, <3>2, <3>3, AppendFacts
    <3>5. LogTypeOK'
      BY <1>0, <2>1, <3>4 DEF LogTypeOK
    <3>6. DOMAIN file' = 1..(synced + 1)
      BY <1>0, <3>4
    <3>7. \A i \in 1..synced : file'[i].rec < file'[synced + 1].rec /\ file'[i].rec <= appended
      BY <1>0, <2>4, <2>5, <2>6, <2>7, <3>1, <3>2, <3>4
    <3>8. FileOK'
      BY <1>0, <2>1, <2>4, <2>6, <3>1, <3>2, <3>4, <3>6, <3>7 DEF FileOK, OnceInOrder, NoRecordAfterFragment
    <3>9. AckOK'
      BY <2>1, <3>4 DEF AckOK
    <3> QED
      BY <2>8, <3>5, <3>8, <3>9
  <2> QED
    BY <2>3, <2>9, <2>10, <2>11, ZenonT(30)
<1>11. CASE OpenAppendLog
  <2> DEFINE f == RepairTail(file)
  <2>1. /\ UNCHANGED <<appended, acked, ioFaults>> /\ file' = f /\ synced' = Len(f)
        /\ daemon' = "up" /\ pending' = <<>> /\ wake' = FALSE /\ drainer' = "drain"
        /\ broken' = FALSE /\ gaveUp' = FALSE /\ crashes' = crashes + 1 /\ crashes' \in 0..MaxCrashes
    BY <1>0, <1>11 DEF OpenAppendLog
  <2>2. /\ f \in Seq(LogRecords) /\ Len(f) \in 0..Len(file) /\ Len(f) >= synced
        /\ \A i \in 1..Len(f) : f[i] = file[i] /\ f[i].whole
    <3>1. CASE file # <<>> /\ ~file[Len(file)].whole
      <4>1. Len(file) > 0 /\ Len(file) > synced
        BY <1>0, <3>1 DEF FileOK
      <4>2. f = SubSeq(file, 1, Len(file) - 1)
        BY <3>1 DEF RepairTail
      <4>3. \A i \in 1..(Len(file) - 1) : file[i].whole
        BY <1>0, <1>0a, <4>1 DEF FileOK, NoRecordAfterFragment
      <4> HIDE DEF f
      <4> QED
        BY <1>0, <4>1, <4>2, <4>3, CutFacts
    <3>2. CASE ~(file # <<>> /\ ~file[Len(file)].whole)
      <4>1. f = file
        BY <3>2 DEF RepairTail
      <4>2. \A i \in DOMAIN file : file[i].whole
        BY <1>0, <1>0a, <3>2 DEF FileOK, NoRecordAfterFragment
      <4> HIDE DEF f
      <4> QED
        BY <1>0, <4>1, <4>2
    <3> QED
      BY <3>1, <3>2
  <2> HIDE DEF f
  <2>3. pending' \in Seq(LogEntries) /\ Len(pending') = 0 /\ DOMAIN pending' = {}
    BY <2>1
  <2>4. LogTypeOK'
    <3>1. Len(f) \in 0..Len(f) /\ synced' \in 0..Len(file')
      BY <1>0, <2>1, <2>2
    <3>2. file' \in Seq(LogRecords) /\ acked' \subseteq 1..appended'
      BY <1>0, <2>1, <2>2
    <3> QED
      BY <1>0, <2>1, <2>3, <3>1, <3>2, ZenonT(30) DEF LogTypeOK
  <2>5. QueueOK' /\ Left(appended, pending)' = appended
    BY <1>0, <2>1, <2>3 DEF QueueOK, Queued, Left
  <2>6. DOMAIN file' = 1..Len(f) /\ 1..Len(f) \subseteq DOMAIN file /\ Len(file') = Len(f) /\ Len(f) \in Nat
    BY <1>0, <2>1, <2>2
  <2>7. FileOK'
    <3>1. OnceInOrder' /\ NoRecordAfterFragment'
      BY <2>1, <2>2, <2>6 DEF FileOK, OnceInOrder, NoRecordAfterFragment
    <3>2. Len(file') <= synced' + 1 /\ (\A i \in 1..synced' : file'[i].whole)
            /\ \A i \in DOMAIN file' : file'[i].rec <= appended'
      BY <1>0, <2>1, <2>2, <2>6 DEF FileOK
    <3> QED
      BY <3>1, <3>2 DEF FileOK
  <2>8. DrainOK'
    BY <2>1, <2>2, <2>5, <2>6, <2>7 DEF DrainOK, FileOK
  <2>9. AckOK'
    <3>1. 1..synced \subseteq 1..Len(f)
      BY <1>0, <2>2
    <3> QED
      BY <2>1, <2>2, <3>1 DEF AckOK
  <2>10. FirstLifeOK'
    BY <1>0, <2>1 DEF FirstLifeOK
  <2> QED
    BY <2>4, <2>5, <2>7, <2>8, <2>9, <2>10
<1> QED
  BY <1>1, <1>2, <1>3, <1>4, <1>5, <1>6, <1>7, <1>8, <1>9, <1>10, <1>11 DEF LogNext

\* The inductive invariant, for any number of entries, faults and crashes.
THEOREM LogInductive == LogSpec => []LogInv
BY InvInit, InvStep, PTL DEF LogSpec

\* In a life that saw neither a crash nor a broken log, an empty queue means that
\* entry i is record i; so the last failure of both is the same.
LEMMA InvReads == LogInv => RestartReadsTheFailure
<1> SUFFICES ASSUME LogInv, crashes = 0, ~broken, pending = <<>>
             PROVE  LastFailure(file) = LastFailureInMemory
  BY DEF RestartReadsTheFailure
<1>1. /\ appended \in Nat /\ Len(pending) = 0 /\ DOMAIN pending = {} /\ file \in Seq(LogRecords)
      /\ synced \in 0..Len(file) /\ Len(file) \in Nat /\ daemon \in {"up", "draining", "down"}
  BY EmptyFacts DEF LogInv, LogTypeOK
<1>2. synced = appended /\ (\A i \in 1..synced : file[i].rec = i) /\ (daemon = "down" => Len(file) = synced)
  BY <1>1 DEF LogInv, FirstLifeOK, Left
<1>3. Len(file) = synced /\ \A i \in 1..synced : file[i].whole
  BY <1>1, <1>2 DEF LogInv, DrainOK, FileOK, LogUp
<1> DEFINE F == Failing \cap 1..appended
<1>4. {i \in Whole(file) : file[i].rec \in Failing} = F
  <2>1. Whole(file) = 1..appended
    BY <1>1, <1>2, <1>3 DEF Whole
  <2> QED
    BY <1>2, <2>1
<1>5. F # {} => Max(F) \in F
  <2>1. F \subseteq 0..appended
    BY <1>1
  <2> HIDE DEF F
  <2> QED
    BY <1>1, <2>1, MaxFacts, ZenonT(30)
<1>6. F # {} => file[Max(F)].rec = Max(F)
  BY <1>2, <1>5
<1> QED
  BY <1>4, <1>6, ZenonT(30) DEF LastFailure, LastFailureInMemory

\* The other promises are read off the invariant.
LEMMA InvGives == LogInv => LogSafe
<1> SUFFICES ASSUME LogInv PROVE LogSafe
  OBVIOUS
<1>1. LogTypeOK /\ OnceInOrder /\ NoRecordAfterFragment
  BY DEF LogInv, FileOK
<1>2. AckedIsDurable
  <2>1. \A i \in 1..synced : i \in Whole(file)
    BY DEF LogInv, LogTypeOK, FileOK, Whole
  <2> QED
    BY <2>1 DEF LogInv, AckOK, AckedIsDurable
<1>3. NoSilentHole
  BY DEF LogInv, LogTypeOK, FirstLifeOK, NoSilentHole
<1> QED
  BY <1>1, <1>2, <1>3, InvReads DEF LogSafe

\* What durableQueue and appendLog promise (LogSafe) holds for any number of
\* entries, failed disk calls and crashes, whichever entries are over the limit.
THEOREM LogIsSafe == LogSpec => []LogSafe
BY LogInductive, InvGives, PTL
=============================================================================
