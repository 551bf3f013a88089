-------------------------- MODULE CommandRunnerProofs --------------------------
(***************************************************************************)
(* What CommandRunner promises, for every number of tabs, calls of stop(), *)
(* commands, lines and exceptions.                                         *)
(***************************************************************************)
EXTENDS CommandRunner, FiniteSetTheorems, SequenceTheorems, TLAPS

USE RunnerAssumption DEF runVars, Ends

-----------------------------------------------------------------------------
(* The inductive invariant *)

\* The stages between TakeLock and Release.
Holding == {"spawning", "reading", "faulted", "closing"}
Ended == {"closing", "done"}

\* The lock makes the tasks run one after the other, in the order of run().
TasksInOrder ==
  \A r \in Runs :
    /\ task[r] = "none" <=> r > accepted
    /\ task[r] \in Holding <=> lock = r
    /\ task[r] \notin {"none", "created"} => \A q \in Runs : q < r => task[q] = "done"

\* _process is the run that reads, or one whose reader raised, and is gone when
\* the run ends.
ProcessIsReaders ==
  /\ process # None => task[process] \in {"reading", "faulted"}
  /\ \A r \in Runs : task[r] = "reading" => process = r

\* Without an exception a process outlives neither its reader nor its task.
ChildrenRead ==
  /\ \A r \in Runs : child[r] # "none" => task[r] \notin {"none", "created", "spawning"}
  /\ \A k \in Stoppers : stop[k] # None => child[stop[k]] # "none"
  /\ faults = {} => \A r \in Runs : /\ task[r] # "faulted"
                                    /\ child[r] = "alive" => task[r] = "reading"

\* The runs that ended are the first ones, and the last of them are recorded.
HistoryEnds(n) ==
  /\ \A r \in Runs : task[r] \in Ended <=> r <= n
  /\ Len(history) = IF n < HistoryCap THEN n ELSE HistoryCap
  /\ \A i \in 1 .. Len(history) : history[i].executed = n - Len(history) + i

HistoryOrdered == \E n \in 0 .. MaxRuns : HistoryEnds(n)

CoreInv ==
  /\ TypeOK /\ TasksInOrder /\ ProcessIsReaders /\ ChildrenRead /\ HistoryOrdered
  /\ StopKillsItsTarget

\* A line that has been read, or that stands for an exception.
Seen(l) ==
  /\ task[l[1]] \notin {"none", "created"}
  /\ l[2] <= read[l[1]] + (IF task[l[1]] \in {"faulted", "closing", "done"} THEN 1 ELSE 0)

Ordered(s) == \A i, j \in 1 .. Len(s) : i < j => Before(s[i], s[j])

Later(s, l) == \A i \in 1 .. Len(s) : Before(s[i], l)
AllSeen(s) == \A i \in 1 .. Len(s) : Seen(s[i])

\* The line on its way is later than whatever the tabs it has still to reach
\* have been sent.
LineInv ==
  /\ pending = {} => line = Notice
  /\ line # Notice => Seen(line) /\ \A c \in pending : Later(received[c], line)

\* A tab was sent every line of the buffer but the one that is on its way to it.
Covered(c) ==
  \A i \in 1 .. Len(buffer) :
    \/ \E j \in 1 .. Len(received[c]) : received[c][j] = buffer[i]
    \/ c \in pending /\ line = buffer[i]

StreamInv ==
  /\ Ordered(buffer) /\ AllSeen(buffer)
  /\ \A c \in clients : Ordered(received[c]) /\ AllSeen(received[c]) /\ Covered(c)
  /\ LineInv

-----------------------------------------------------------------------------
(* Tasks, processes and records *)

\* No command was ever accepted.
LEMMA InitCore == Init => CoreInv
  <1> SUFFICES ASSUME Init PROVE CoreInv
    OBVIOUS
  <1>1. buffer \in Seq(Lines) /\ history = <<>> /\ Len(history) = 0
        /\ history \in Seq([command : Runs, executed : Runs, exit : {"error"} \cup Ends])
        /\ received \in [Clients -> Seq(Lines)]
    BY DEF Init
  <1>2. TypeOK
    <2>1. task \in [Runs -> Stages]
      BY DEF Init, Stages
    <2>2. kills \subseteq Runs \X Runs /\ stop \in [Stoppers -> Runs \cup {None}]
      BY DEF Init
    <2>3. line \in Lines \cup {Notice} /\ clients \subseteq Clients /\ pending \subseteq clients
      BY DEF Init
    <2>4. child \in [Runs -> {"none", "alive"} \cup Ends]
      BY DEF Init
    <2>5. read \in [Runs -> 0 .. MaxLines] /\ written \in [Runs -> 0 .. MaxLines]
      BY DEF Init
    <2>6. accepted \in 0 .. MaxRuns /\ faults \subseteq Runs /\ overtaken \subseteq Runs
      BY DEF Init
    <2>7. /\ lock \in Runs \cup {None} /\ process \in Runs \cup {None}
          /\ finished \in BOOLEAN /\ exitCode \in {"unset", "error"} \cup Ends
      BY Zenon DEF Init
    <2> QED
      BY <1>1, <2>1, <2>2, <2>3, <2>4, <2>5, <2>6, <2>7, Zenon DEF TypeOK
  <1>3. HistoryOrdered
    <2>1. HistoryEnds(0)
      BY <1>1 DEF Init, HistoryEnds, Ended, Runs
    <2> QED
      BY <2>1 DEF HistoryOrdered
  <1> QED
    BY <1>1, <1>2, <1>3
    DEF Init, CoreInv, TasksInOrder, ProcessIsReaders, ChildrenRead, StopKillsItsTarget, Holding,
        Ended, Runs, None

\* The records stay true as long as no run ends.
LEMMA HistoryKept ==
  ASSUME CoreInv, history' = history,
         \A r \in Runs : task'[r] \in Ended <=> task[r] \in Ended
  PROVE  HistoryOrdered'
  BY DEF CoreInv, HistoryOrdered, HistoryEnds

\* The task that holds the lock: the earlier ones are done, the later ones wait.
LEMMA HolderStandsAlone ==
  ASSUME CoreInv, NEW r \in Runs, task[r] \in Holding
  PROVE  /\ lock = r /\ r <= accepted
         /\ \A q \in Runs : q < r => task[q] = "done"
         /\ \A q \in Runs : q > r => task[q] \in {"none", "created"}
  <1>1. lock = r /\ r <= accepted /\ \A q \in Runs : q < r => task[q] = "done"
    <2>1. accepted \in Nat /\ r \in Nat
      BY DEF CoreInv, TypeOK, Runs
    <2>2. task[r] \notin {"none", "created"}
      BY DEF Holding
    <2> QED
      BY <2>1, <2>2 DEF CoreInv, TasksInOrder
  <1>2. ASSUME NEW q \in Runs, q > r PROVE task[q] \in {"none", "created"}
    BY <1>2 DEF CoreInv, TasksInOrder, Holding, Runs
  <1> QED
    BY <1>1, <1>2

\* Without an exception, a process that is alive is the one that is read.
LEMMA AliveIsRead ==
  ASSUME CoreInv, faults = {}, NEW r \in Runs, child[r] = "alive"
  PROVE  task[r] = "reading" /\ process = r /\ lock = r
  <1>1. task[r] = "reading"
    BY DEF CoreInv, ChildrenRead
  <1> QED
    BY <1>1 DEF CoreInv, ProcessIsReaders, TasksInOrder, Holding

\* run() makes a task that waits for the lock.
LEMMA RunCore == CoreInv /\ Run => CoreInv'
  <1> SUFFICES ASSUME CoreInv, Run PROVE CoreInv'
    OBVIOUS
  <1> DEFINE n == accepted + 1
  <1>1. n \in Runs /\ accepted' = n /\ task[n] = "none" /\ accepted \in Nat
    BY DEF Run, CoreInv, TypeOK, TasksInOrder, Runs
  <1>2. /\ task' \in [Runs -> Stages] /\ task'[n] = "created"
        /\ \A r \in Runs : r # n => task'[r] = task[r]
    BY <1>1 DEF Run, CoreInv, TypeOK, Stages
  <1> HIDE DEF n
  <1>3. /\ UNCHANGED <<lock, process, history, faults, child, stop, kills>>
        /\ overtaken' \subseteq Runs
    BY DEF Run, childVars, stopVars, CoreInv, TypeOK
  <1>4. TypeOK'
    <2>1. buffer' \in Seq(Lines) /\ accepted' \in 0 .. MaxRuns
      BY <1>1 DEF Run, Runs
    <2> QED
      BY <1>2, <1>3, <2>1 DEF Run, CoreInv, TypeOK, childVars, clientVars, sendVars, stopVars
  <1>5. TasksInOrder'
    BY <1>1, <1>2, <1>3 DEF CoreInv, TasksInOrder, Holding, Runs, n, None
  <1>6. ProcessIsReaders' /\ ChildrenRead' /\ StopKillsItsTarget'
    BY <1>1, <1>2, <1>3
    DEF CoreInv, ProcessIsReaders, ChildrenRead, StopKillsItsTarget, TypeOK
  <1>7. HistoryOrdered'
    BY <1>1, <1>2, <1>3, HistoryKept DEF Ended
  <1> QED
    BY <1>4, <1>5, <1>6, <1>7 DEF CoreInv

\* A task takes the lock when every earlier one has released it.
LEMMA TakeLockCore ==
  ASSUME CoreInv, NEW r \in Runs, TakeLock(r)
  PROVE  CoreInv'
  <1>1. /\ task[r] = "created" /\ lock = None /\ lock' = r
        /\ \A q \in Runs : task[q] = "created" => r <= q
    BY DEF TakeLock
  <1>2. /\ task' \in [Runs -> Stages] /\ task'[r] = "spawning"
        /\ \A q \in Runs : q # r => task'[q] = task[q]
    BY DEF TakeLock, CoreInv, TypeOK, Stages
  <1>3. UNCHANGED <<runVars, process, history, faults, child, stop, kills>>
    BY DEF TakeLock, childVars, stopVars
  <1>4. \A q \in Runs : q < r => task[q] = "done"
    <2> SUFFICES ASSUME NEW q \in Runs, q < r PROVE task[q] = "done"
      OBVIOUS
    <2>1. task[q] # "none" /\ task[q] # "created"
      BY <1>1 DEF CoreInv, TasksInOrder, TypeOK, Runs
    <2>2. task[q] \notin Holding
      BY <1>1 DEF CoreInv, TasksInOrder, Runs, None
    <2> QED
      BY <2>1, <2>2 DEF CoreInv, TypeOK, Stages, Holding
  <1>5. TypeOK'
    BY <1>1, <1>2, <1>3
    DEF TakeLock, CoreInv, TypeOK, childVars, clientVars, sendVars, stopVars
  <1>6. TasksInOrder'
    <2>1. \A q \in Runs : task[q] \notin Holding
      BY <1>1 DEF CoreInv, TasksInOrder, Runs, None
    <2>2. ASSUME NEW q \in Runs, q > r PROVE task[q] \in {"none", "created"}
      BY <1>1, <2>2 DEF CoreInv, TasksInOrder, Runs
    <2> QED
      BY <1>1, <1>2, <1>3, <1>4, <2>1, <2>2 DEF CoreInv, TasksInOrder, Holding, Runs
  <1>7. ProcessIsReaders' /\ ChildrenRead' /\ StopKillsItsTarget' /\ HistoryOrdered'
    BY <1>1, <1>2, <1>3, HistoryKept
    DEF CoreInv, ProcessIsReaders, ChildrenRead, StopKillsItsTarget, TypeOK, Ended
  <1> QED
    BY <1>5, <1>6, <1>7 DEF CoreInv

\* The task that holds the lock goes on to a stage before the end of its run.
LEMMA HolderMoves ==
  ASSUME CoreInv, NEW r \in Runs, task[r] \in Holding, NEW s \in Holding,
         task' = [task EXCEPT ![r] = s], UNCHANGED <<runVars, lock>>
  PROVE  /\ TasksInOrder' /\ task' \in [Runs -> Stages] /\ task'[r] = s
         /\ \A q \in Runs : q # r => task'[q] = task[q]
  <1>1. /\ task' \in [Runs -> Stages] /\ task'[r] = s
        /\ \A q \in Runs : q # r => task'[q] = task[q]
    BY DEF CoreInv, TypeOK, Stages, Holding
  <1> QED
    BY <1>1, HolderStandsAlone DEF CoreInv, TasksInOrder, Holding, Runs

\* The process starts, and is the one that is read.
LEMMA SpawnedCore ==
  ASSUME CoreInv, NEW r \in Runs, Spawned(r)
  PROVE  CoreInv'
  <1>1. task[r] = "spawning" /\ process' = r /\ child' = [child EXCEPT ![r] = "alive"]
        /\ UNCHANGED <<runVars, lock, history, faults, stop, kills>>
    BY DEF Spawned, stopVars
  <1>2. /\ TasksInOrder' /\ task' \in [Runs -> Stages] /\ task'[r] = "reading"
        /\ \A q \in Runs : q # r => task'[q] = task[q]
    BY <1>1, HolderMoves DEF Spawned, Holding
  <1>3. TypeOK'
    BY <1>1, <1>2 DEF Spawned, CoreInv, TypeOK, clientVars, sendVars, stopVars
  <1>4. ProcessIsReaders'
    <2>1. \A q \in Runs : task[q] # "reading"
      BY <1>1, HolderStandsAlone DEF CoreInv, TasksInOrder, Holding, Runs
    <2> QED
      BY <1>1, <1>2, <2>1 DEF ProcessIsReaders
  <1>5. child'[r] = "alive" /\ \A q \in Runs : q # r => child'[q] = child[q]
    BY <1>1 DEF CoreInv, TypeOK
  <1>6. ChildrenRead'
    BY <1>1, <1>2, <1>5 DEF CoreInv, ChildrenRead, TypeOK
  <1>7. HistoryOrdered' /\ StopKillsItsTarget'
    BY <1>1, <1>2, HistoryKept DEF CoreInv, StopKillsItsTarget, Ended
  <1> QED
    BY <1>2, <1>3, <1>4, <1>6, <1>7 DEF CoreInv

\* Reading a line touches no task and no process.
LEMMA ReadLineCore ==
  ASSUME CoreInv, NEW r \in Runs, ReadLine(r)
  PROVE  CoreInv'
  <1> DEFINE l == <<r, read[r] + 1>>
  <1>1. read[r] + 1 \in 1 .. MaxLines /\ l \in Lines
    <2>1. read[r] \in 0 .. MaxLines /\ written[r] \in 0 .. MaxLines
      BY DEF CoreInv, TypeOK
    <2>2. read[r] < written[r]
      BY DEF ReadLine
    <2> QED
      BY <2>1, <2>2 DEF Lines
  <1>2. read' \in [Runs -> 0 .. MaxLines] /\ buffer' \in Seq(Lines)
    BY <1>1 DEF ReadLine, CoreInv, TypeOK
  <1>3. pending' \subseteq clients /\ line' \in Lines \cup {Notice}
    BY <1>1 DEF ReadLine, Broadcast
  <1>4. TypeOK'
    BY <1>2, <1>3 DEF ReadLine, CoreInv, TypeOK, taskVars, childVars, clientVars, stopVars
  <1>5. HistoryOrdered'
    BY HistoryKept DEF ReadLine, taskVars
  <1> QED
    BY <1>4, <1>5 DEF ReadLine, taskVars, childVars, clientVars, stopVars, CoreInv, TasksInOrder,
                      ProcessIsReaders, ChildrenRead, StopKillsItsTarget

\* An exception leaves the process behind.
LEMMA FaultCore ==
  ASSUME CoreInv, NEW r \in Runs, Fault(r)
  PROVE  CoreInv'
  <1> DEFINE l == <<r, read[r] + 1>>
  <1>1. l \in Lines /\ task[r] \in {"spawning", "reading"} /\ faults' = faults \cup {r}
        /\ UNCHANGED <<runVars, lock, process, history, child, stop, kills>>
    BY DEF Fault, CoreInv, TypeOK, Lines, childVars, stopVars
  <1>2. /\ TasksInOrder' /\ task' \in [Runs -> Stages] /\ task'[r] = "faulted"
        /\ \A q \in Runs : q # r => task'[q] = task[q]
    BY <1>1, HolderMoves DEF Fault, Holding
  <1>3. buffer' \in Seq(Lines)
    BY <1>1 DEF Fault, CoreInv, TypeOK
  <1>4. pending' \subseteq clients /\ line' \in Lines \cup {Notice}
    BY <1>1 DEF Fault, Broadcast
  <1>5. TypeOK'
    <2>1. UNCHANGED <<runVars, lock, process, finished, exitCode, history, childVars, read,
                      clientVars, stopVars>>
      BY DEF Fault
    <2>2. faults' \subseteq Runs
      BY <1>1 DEF CoreInv, TypeOK
    <2> QED
      BY <1>2, <1>3, <1>4, <2>1, <2>2 DEF CoreInv, TypeOK, childVars, clientVars, stopVars
  <1>6. ProcessIsReaders'
    BY <1>1, <1>2 DEF CoreInv, ProcessIsReaders, TypeOK
  <1>7. ChildrenRead' /\ StopKillsItsTarget' /\ HistoryOrdered'
    BY <1>1, <1>2, HistoryKept
    DEF CoreInv, ChildrenRead, StopKillsItsTarget, TypeOK, Ended
  <1> QED
    BY <1>2, <1>5, <1>6, <1>7 DEF CoreInv

\* A record is appended, and the oldest goes when the history is full.
LEMMA RecordedShape ==
  ASSUME NEW Records, history \in Seq(Records), Len(history) <= HistoryCap, NEW record \in Records
  PROVE  LET n == Len(history)
             m == IF n < HistoryCap THEN n + 1 ELSE n
             h == Recorded(record)
         IN /\ h \in Seq(Records) /\ n \in Nat /\ m \in Nat \ {0} /\ Len(h) = m /\ h[m] = record
            /\ \A i \in 1 .. m - 1 : n - m + 1 + i \in 1 .. n /\ h[i] = history[n - m + 1 + i]
  <1>1. CASE Len(history) < HistoryCap
    <2>1. Recorded(record) = Append(history, record)
      BY <1>1 DEF Recorded
    <2> QED
      BY <1>1, <2>1, AppendProperties
  <1>2. CASE ~(Len(history) < HistoryCap)
    <2> DEFINE rest == Tail(history)
    <2>1. Recorded(record) = Append(rest, record) /\ history # <<>> /\ Len(history) \in Nat \ {0}
      BY <1>2 DEF Recorded
    <2>2. /\ rest \in Seq(Records) /\ Len(rest) = Len(history) - 1
          /\ \A i \in 1 .. Len(rest) : rest[i] = history[i + 1]
      BY <2>1, HeadTailProperties
    <2> HIDE DEF rest
    <2>3. /\ Append(rest, record) \in Seq(Records) /\ Len(Append(rest, record)) = Len(rest) + 1
          /\ Append(rest, record)[Len(rest) + 1] = record
          /\ \A i \in 1 .. Len(rest) : Append(rest, record)[i] = rest[i]
      BY <2>2, AppendProperties
    <2> QED
      BY <1>2, <2>1, <2>2, <2>3
  <1> QED
    BY <1>1, <1>2

\* A run that ends is recorded after all the earlier ones.
LEMMA CloseCore ==
  ASSUME CoreInv, NEW r \in Runs, NEW exit \in {"error"} \cup Ends, Close(r, exit),
         \/ task[r] = "reading" /\ child[r] # "alive"
         \/ task[r] = "faulted"
  PROVE  CoreInv'
  <1> DEFINE record == [command |-> accepted, executed |-> r, exit |-> exit]
             Records == [command : Runs, executed : Runs, exit : {"error"} \cup Ends]
             len == Len(history)
             new == IF len < HistoryCap THEN len + 1 ELSE len
  <1>1. task' = [task EXCEPT ![r] = "closing"] /\ history' = Recorded(record)
        /\ process' = None /\ exitCode' = exit /\ finished' = TRUE
        /\ pending' = clients /\ line' = Notice
        /\ UNCHANGED <<runVars, lock, buffer, faults, childVars, read, clientVars, stopVars>>
    BY DEF Close, Broadcast
  <1>2. task[r] \in Holding
    BY DEF Holding
  <1>3. /\ TasksInOrder' /\ task' \in [Runs -> Stages] /\ task'[r] = "closing"
        /\ \A q \in Runs : q # r => task'[q] = task[q]
    BY <1>1, <1>2, HolderMoves DEF Holding, runVars
  <1>4. history \in Seq(Records) /\ r \in Nat /\ r <= MaxRuns
    BY DEF CoreInv, TypeOK, Runs
  <1>5. record \in Records
    <2>1. accepted \in Nat /\ accepted <= MaxRuns /\ r <= accepted /\ r >= 1
      <3>1. accepted \in 0 .. MaxRuns
        BY DEF CoreInv, TypeOK
      <3> QED
        BY <1>2, <3>1, HolderStandsAlone DEF Runs
    <2> QED
      BY <2>1 DEF Runs
  <1>6. PICK n \in 0 .. MaxRuns : HistoryEnds(n)
    BY DEF CoreInv, HistoryOrdered
  <1>7. r = n + 1
    <2>1. ~(r <= n)
      BY <1>6 DEF HistoryEnds, Ended
    <2>2. r > 1 => r - 1 <= n
      <3> SUFFICES ASSUME r > 1 PROVE r - 1 <= n
        OBVIOUS
      <3>1. r - 1 \in Runs /\ r - 1 < r
        BY DEF Runs
      <3>2. task[r - 1] = "done"
        BY <1>2, <3>1, HolderStandsAlone
      <3> QED
        BY <1>6, <3>1, <3>2 DEF HistoryEnds, Ended
    <2> QED
      BY <1>4, <2>1, <2>2 DEF Runs
  <1>8. len \in Nat /\ len = IF n < HistoryCap THEN n ELSE HistoryCap
    BY <1>4, <1>6 DEF HistoryEnds
  <1>9. /\ history' \in Seq(Records) /\ Len(history') = new /\ history'[new] = record
        /\ \A i \in 1 .. new - 1 : /\ len - new + 1 + i \in 1 .. len
                                   /\ history'[i] = history[len - new + 1 + i]
    <2> HIDE DEF Records, record
    <2> QED
      BY <1>1, <1>4, <1>5, <1>8, RecordedShape
  <1>10. TypeOK'
    BY <1>1, <1>3, <1>9 DEF CoreInv, TypeOK, runVars, childVars, clientVars, stopVars, None
  <1>11. HistoryOrdered'
    <2>1. \A q \in Runs : task'[q] \in Ended <=> q <= n + 1
      BY <1>3, <1>4, <1>6, <1>7 DEF HistoryEnds, Ended, Runs
    <2>2. new = IF n + 1 < HistoryCap THEN n + 1 ELSE HistoryCap
      BY <1>8
    <2>3. ASSUME NEW i \in 1 .. new PROVE history'[i].executed = (n + 1) - new + i
      <3>1. CASE i = new
        BY <1>7, <1>8, <1>9, <3>1
      <3>2. CASE i # new
        <4>1. i \in 1 .. new - 1
          BY <1>8, <3>2
        <4>2. history'[i].executed = n - len + (len - new + 1 + i)
          BY <1>6, <1>9, <4>1 DEF HistoryEnds
        <4> QED
          BY <1>8, <4>2
      <3> QED
        BY <3>1, <3>2
    <2>4. n + 1 \in 0 .. MaxRuns
      BY <1>4, <1>7
    <2>5. /\ Len(history') = IF n + 1 < HistoryCap THEN n + 1 ELSE HistoryCap
          /\ \A i \in 1 .. Len(history') : history'[i].executed = (n + 1) - Len(history') + i
      <3> HIDE DEF new, record, Records
      <3> QED
        BY <1>9, <2>2, <2>3
    <2>6. HistoryEnds(n + 1)'
      BY <2>1, <2>5, Zenon DEF HistoryEnds
    <2> QED
      BY <2>4, <2>6 DEF HistoryOrdered
  <1>12. ProcessIsReaders'
    BY <1>1, <1>2, <1>3, HolderStandsAlone
    DEF ProcessIsReaders, CoreInv, TasksInOrder, Holding, None
  <1>13. UNCHANGED <<faults, child, stop, kills>>
    BY <1>1 DEF childVars, stopVars
  <1>14. StopKillsItsTarget'
    BY <1>13 DEF CoreInv, StopKillsItsTarget
  <1>15. ChildrenRead'
    <2>1. faults = {} => child[r] # "alive"
      BY DEF CoreInv, ChildrenRead
    <2> QED
      BY <1>3, <1>13, <2>1 DEF CoreInv, ChildrenRead
  <1> QED
    BY <1>3, <1>10, <1>11, <1>12, <1>14, <1>15 DEF CoreInv

\* A task that ends hands the lock on.
LEMMA ReleaseCore ==
  ASSUME CoreInv, NEW r \in Runs, Release(r)
  PROVE  CoreInv'
  <1>1. task[r] = "closing" /\ lock' = None /\ task' = [task EXCEPT ![r] = "done"]
        /\ UNCHANGED <<runVars, process, history, faults, child, stop, kills>>
    BY DEF Release, childVars, stopVars
  <1>2. /\ task' \in [Runs -> Stages] /\ task'[r] = "done"
        /\ \A q \in Runs : q # r => task'[q] = task[q]
    BY <1>1 DEF CoreInv, TypeOK, Stages
  <1>3. TypeOK'
    BY <1>1, <1>2 DEF Release, CoreInv, TypeOK, childVars, clientVars, sendVars, stopVars
  <1>4. TasksInOrder'
    <2>1. /\ r <= accepted /\ \A q \in Runs : q < r => task[q] = "done"
          /\ \A q \in Runs : q > r => task[q] \in {"none", "created"}
      BY <1>1, HolderStandsAlone DEF Holding
    <2>2. \A q \in Runs : task'[q] \notin Holding
      BY <1>2, <2>1 DEF Holding, Runs
    <2> QED
      BY <1>1, <1>2, <2>1, <2>2 DEF CoreInv, TasksInOrder, TypeOK, Runs, None
  <1>5. ProcessIsReaders' /\ ChildrenRead' /\ HistoryOrdered' /\ StopKillsItsTarget'
    BY <1>1, <1>2, HistoryKept
    DEF CoreInv, ProcessIsReaders, ChildrenRead, StopKillsItsTarget, TypeOK, Ended
  <1> QED
    BY <1>3, <1>4, <1>5 DEF CoreInv

\* What a process and the calls of stop() do moves no task, and without an
\* exception a call kills the process it was called on.
LEMMA StopCore ==
  ASSUME CoreInv, NEW k \in Stoppers, StopRequest(k) \/ StopReturns(k) \/ StopTimeout(k)
  PROVE  CoreInv'
  <1>1. UNCHANGED <<runVars, taskVars, buffer, written, read, clientVars, sendVars>>
    BY DEF StopRequest, StopReturns, StopTimeout, childVars
  <1>2. /\ stop' \in [Stoppers -> Runs \cup {None}]
        /\ \A j \in Stoppers : stop'[j] # None => child[stop'[j]] # "none"
    <2>1. stop \in [Stoppers -> Runs \cup {None}]
      BY DEF CoreInv, TypeOK
    <2>2. CASE StopRequest(k)
      <3>1. process \in Runs /\ child[process] = "alive"
        BY <2>2 DEF StopRequest, IsRunning, CoreInv, TypeOK
      <3> QED
        BY <2>1, <2>2, <3>1 DEF StopRequest, CoreInv, ChildrenRead
    <2>3. CASE StopReturns(k) \/ StopTimeout(k)
      BY <2>1, <2>3 DEF StopReturns, StopTimeout, CoreInv, ChildrenRead
    <2> QED
      BY <2>2, <2>3
  <1>3. \/ child' = child /\ kills' = kills
        \/ /\ process \in Runs /\ stop[k] \in Runs /\ child[stop[k]] = "alive"
           /\ child' = [child EXCEPT ![process] = IF @ = "alive" THEN "failed" ELSE @]
           /\ kills' = kills \cup {<<stop[k], process>>}
    <2>1. process \in Runs \cup {None} /\ stop[k] \in Runs \cup {None}
      BY DEF CoreInv, TypeOK
    <2>2. CASE StopRequest(k) \/ StopReturns(k)
      BY <2>2 DEF StopRequest, StopReturns, childVars
    <2>3. CASE StopTimeout(k)
      BY <2>1, <2>3 DEF StopTimeout, KillProcess
    <2> QED
      BY <2>2, <2>3
  <1>4. /\ child' \in [Runs -> {"none", "alive"} \cup Ends] /\ kills' \subseteq Runs \X Runs
    <2>1. child \in [Runs -> {"none", "alive"} \cup Ends] /\ kills \subseteq Runs \X Runs
      BY DEF CoreInv, TypeOK
    <2> QED
      BY <1>3, <2>1
  <1>5. \A r \in Runs : \/ child'[r] = child[r]
                        \/ r = process /\ child[r] = "alive" /\ child'[r] = "failed"
    BY <1>3 DEF CoreInv, TypeOK
  <1>6. TypeOK'
    BY <1>1, <1>2, <1>4
    DEF CoreInv, TypeOK, taskVars, clientVars, sendVars
  <1>7. ChildrenRead'
    <2>1. ASSUME NEW r \in Runs PROVE child'[r] # "none" => child[r] # "none" \/ r = process
      BY <1>5
    <2>2. process # None => task[process] \notin {"none", "created", "spawning"}
      BY DEF CoreInv, ProcessIsReaders
    <2>3. \A r \in Runs : child[r] # "none" => child'[r] # "none"
      BY <1>5
    <2>4. None \notin Runs
      BY DEF None, Runs
    <2> QED
      BY <1>1, <1>2, <1>5, <2>1, <2>2, <2>3, <2>4 DEF CoreInv, ChildrenRead, taskVars
  <1>8. StopKillsItsTarget'
    <2> SUFFICES ASSUME faults = {} PROVE \A pair \in kills' : pair[1] = pair[2]
      BY <1>1 DEF StopKillsItsTarget, taskVars
    <2>1. \A pair \in kills : pair[1] = pair[2]
      BY DEF CoreInv, StopKillsItsTarget
    <2>2. CASE kills' = kills
      BY <2>1, <2>2
    <2>3. CASE /\ process \in Runs /\ stop[k] \in Runs /\ child[stop[k]] = "alive"
               /\ kills' = kills \cup {<<stop[k], process>>}
      <3>1. process = stop[k]
        BY <2>3, AliveIsRead
      <3> QED
        BY <2>1, <2>3, <3>1
    <2> QED
      BY <1>3, <2>2, <2>3
  <1>9. TasksInOrder' /\ ProcessIsReaders' /\ HistoryOrdered'
    BY <1>1, HistoryKept DEF CoreInv, TasksInOrder, ProcessIsReaders, taskVars
  <1> QED
    BY <1>6, <1>7, <1>8, <1>9 DEF CoreInv

\* Tabs and processes move no task.
LEMMA OutsideCore ==
  ASSUME CoreInv,
         \/ \E r \in Runs : ChildWrites(r) \/ ChildExits(r)
         \/ \E c \in Clients : Connect(c) \/ Disconnect(c) \/ Send(c)
  PROVE  CoreInv'
  <1>1. UNCHANGED <<runVars, taskVars, buffer, read, stopVars>>
    BY DEF ChildWrites, ChildExits, Connect, Disconnect, Send
  <1>2. /\ child' \in [Runs -> {"none", "alive"} \cup Ends]
        /\ written' \in [Runs -> 0 .. MaxLines]
        /\ \A r \in Runs : /\ child'[r] = "none" <=> child[r] = "none"
                           /\ child'[r] = "alive" => child[r] = "alive"
    <2>1. /\ child \in [Runs -> {"none", "alive"} \cup Ends]
          /\ written \in [Runs -> 0 .. MaxLines]
      BY DEF CoreInv, TypeOK
    <2>2. ASSUME NEW r \in Runs, ChildWrites(r)
          PROVE  child' = child /\ written' \in [Runs -> 0 .. MaxLines]
      BY <2>1, <2>2 DEF ChildWrites
    <2>3. ASSUME NEW r \in Runs, ChildExits(r)
          PROVE  /\ child[r] = "alive" /\ \E end \in Ends : child' = [child EXCEPT ![r] = end]
                 /\ written' = written
      BY <2>3 DEF ChildExits
    <2>4. CASE \E c \in Clients : Connect(c) \/ Disconnect(c) \/ Send(c)
      BY <2>1, <2>4 DEF Connect, Disconnect, Send, childVars
    <2> QED
      BY <2>1, <2>2, <2>3, <2>4
  <1>3. /\ clients' \subseteq Clients /\ pending' \subseteq clients'
        /\ line' \in Lines \cup {Notice} /\ received' \in [Clients -> Seq(Lines)]
    <2>1. /\ clients \subseteq Clients /\ pending \subseteq clients /\ buffer \in Seq(Lines)
          /\ line \in Lines \cup {Notice} /\ received \in [Clients -> Seq(Lines)]
          /\ <<>> \in Seq(Lines)
      BY DEF CoreInv, TypeOK
    <2>2. CASE \E r \in Runs : ChildWrites(r) \/ ChildExits(r)
      BY <2>1, <2>2 DEF ChildWrites, ChildExits, clientVars, sendVars
    <2>3. ASSUME NEW c \in Clients, Connect(c) \/ Disconnect(c)
          PROVE  /\ clients' \subseteq Clients /\ pending' \subseteq clients'
                 /\ line' \in Lines \cup {Notice} /\ received' \in [Clients -> Seq(Lines)]
      BY <2>1, <2>3 DEF Connect, Disconnect, sendVars
    <2>4. ASSUME NEW c \in Clients, Send(c)
          PROVE  /\ clients' \subseteq Clients /\ pending' \subseteq clients'
                 /\ line' \in Lines \cup {Notice} /\ received' \in [Clients -> Seq(Lines)]
      <3>1. received[c] \in Seq(Lines) /\ (line # Notice => Append(received[c], line) \in Seq(Lines))
        BY <2>1
      <3> QED
        BY <2>1, <2>4, <3>1 DEF Send
    <2> QED
      BY <2>2, <2>3, <2>4
  <1>4. TypeOK'
    BY <1>1, <1>2, <1>3 DEF CoreInv, TypeOK, taskVars, stopVars
  <1>5. ChildrenRead'
    <2>1. \A k \in Stoppers : stop[k] # None => stop[k] \in Runs
      BY DEF CoreInv, TypeOK
    <2> QED
      BY <1>1, <1>2, <2>1 DEF CoreInv, ChildrenRead, taskVars, stopVars
  <1>6. TasksInOrder' /\ ProcessIsReaders' /\ HistoryOrdered' /\ StopKillsItsTarget'
    BY <1>1, HistoryKept
    DEF CoreInv, TasksInOrder, ProcessIsReaders, StopKillsItsTarget, taskVars, stopVars
  <1> QED
    BY <1>4, <1>5, <1>6 DEF CoreInv

\* Every step keeps the invariant of tasks, processes and records.
LEMMA StepCore == CoreInv /\ [Next]_vars => CoreInv'
  <1> SUFFICES ASSUME CoreInv, [Next]_vars PROVE CoreInv'
    OBVIOUS
  <1>1. CASE UNCHANGED vars
    BY <1>1, HistoryKept
    DEF vars, taskVars, childVars, clientVars, sendVars, stopVars, CoreInv, TypeOK,
        TasksInOrder, ProcessIsReaders, ChildrenRead, StopKillsItsTarget
  <1>2. ASSUME NEW r \in Runs, Task(r) PROVE CoreInv'
    <2>1. CASE CloseExited(r)
      BY <2>1, CloseCore DEF CloseExited
    <2>2. CASE CloseFaulted(r)
      BY <2>2, CloseCore DEF CloseFaulted
    <2> QED
      BY <1>2, <2>1, <2>2, TakeLockCore, SpawnedCore, ReadLineCore, ReleaseCore DEF Task
  <1> QED
    BY <1>1, <1>2, RunCore, FaultCore, OutsideCore, StopCore, Zenon DEF Next

\* The invariant holds whatever commands, processes, tabs and stops do.
THEOREM RunnerCore == Spec => []CoreInv
  <1> QED
    BY InitCore, StepCore, PTL DEF Spec

\* The shape of the runner's state.
THEOREM RunnerTypeOK == Spec => []TypeOK
  <1>1. CoreInv => TypeOK
    BY DEF CoreInv
  <1> QED
    BY <1>1, RunnerCore, PTL

\* The lock keeps processes apart: without an exception a process ends before
\* its task does.
THEOREM RunnerOneChild == Spec => []OneChildUnlessFaulted
  <1>1. CoreInv => OneChildUnlessFaulted
    BY AliveIsRead DEF OneChildUnlessFaulted, OneChild
  <1> QED
    BY <1>1, RunnerCore, PTL

\* Without an exception, what stop() finds after the timeout is the process it
\* was called on.
THEOREM RunnerStopKillsItsTarget == Spec => []StopKillsItsTarget
  <1>1. CoreInv => StopKillsItsTarget
    BY DEF CoreInv
  <1> QED
    BY <1>1, RunnerCore, PTL

-----------------------------------------------------------------------------
(* The records *)

\* Which runs were overtaken is settled when the task takes the lock: until it
\* ends no other command is accepted.
OvertakenKnown ==
  \A r \in Runs :
    /\ r \in overtaken => task[r] # "none"
    /\ task[r] \in {"created", "spawning", "reading", "faulted"} => (r \in overtaken <=> r < accepted)

FaultsKnown ==
  \A r \in Runs : /\ task[r] = "faulted" => r \in faults
                  /\ r \in faults => task[r] \in {"faulted", "closing", "done"}

\* A record tells of its run what is still so.
Truthful(record) ==
  LET r == record.executed
  IN /\ task[r] \in Ended
     /\ record.exit = IF r \in faults THEN "error" ELSE child[r]
     /\ record.command = r <=> r \notin overtaken

\* The same of the next state.
StaysTruthful(record) ==
  LET r == record.executed
  IN /\ task'[r] \in Ended
     /\ record.exit = IF r \in faults' THEN "error" ELSE child'[r]
     /\ record.command = r <=> r \notin overtaken'

RecordsInv ==
  OvertakenKnown /\ FaultsKnown /\ \A i \in 1 .. Len(history) : Truthful(history[i])

\* A record is of a run, and its status is how a process ends or an error.
LEMMA RecordTyped ==
  ASSUME TypeOK, NEW i \in 1 .. Len(history)
  PROVE  history[i].executed \in Runs /\ history[i].exit \in {"error"} \cup Ends
  <1> DEFINE Records == [command : Runs, executed : Runs, exit : {"error"} \cup Ends]
  <1>1. history \in Seq(Records)
    BY DEF TypeOK
  <1> HIDE DEF Records
  <1>2. history[i] \in Records
    BY <1>1, ElementOfSeq
  <1> QED
    BY <1>2 DEF Records

\* What an ended run leaves behind no later step changes.
LEMMA RecordsKept ==
  ASSUME CoreInv, RecordsInv, history' = history,
         \A r \in Runs : task[r] \in Ended =>
           /\ task'[r] \in Ended
           /\ r \in overtaken' <=> r \in overtaken
           /\ r \in faults' <=> r \in faults
           /\ child[r] \in Ends => child'[r] = child[r]
  PROVE  \A i \in 1 .. Len(history') : Truthful(history[i])'
  <1> SUFFICES ASSUME NEW i \in 1 .. Len(history) PROVE Truthful(history[i])'
    OBVIOUS
  <1> DEFINE record == history[i]
             r == record.executed
  <1>1. r \in Runs /\ record.exit \in {"error"} \cup Ends
    BY RecordTyped DEF CoreInv
  <1>2. Truthful(record)
    BY DEF RecordsInv
  <1>3. r \notin faults => child[r] \in Ends
    <2>1. child[r] \in {"none", "alive"} \cup Ends
      BY <1>1 DEF CoreInv, TypeOK
    <2> QED
      BY <1>1, <1>2, <2>1 DEF Truthful
  <1> QED
    BY <1>1, <1>2, <1>3 DEF Truthful

\* No command was accepted: there is nothing to tell.
LEMMA InitRecords == Init => RecordsInv
  BY DEF Init, RecordsInv, OvertakenKnown, FaultsKnown

\* run() overtakes the tasks that wait for the lock; none holds it.
LEMMA RunRecords == CoreInv /\ RecordsInv /\ Run => RecordsInv'
  <1> SUFFICES ASSUME CoreInv, RecordsInv, Run PROVE RecordsInv'
    OBVIOUS
  <1> DEFINE n == accepted + 1
  <1>1. n \in Runs /\ accepted' = n /\ task[n] = "none" /\ accepted \in Nat /\ lock = None
    BY DEF Run, CoreInv, TypeOK, TasksInOrder, Runs
  <1>2. /\ task'[n] = "created" /\ \A r \in Runs : r # n => task'[r] = task[r]
        /\ overtaken' = overtaken \cup {r \in Runs : task[r] = "created"}
        /\ UNCHANGED <<faults, child, history>>
    BY <1>1 DEF Run, CoreInv, TypeOK, childVars
  <1> HIDE DEF n
  <1>3. \A r \in Runs : task[r] \notin {"spawning", "reading", "faulted"}
    BY <1>1 DEF CoreInv, TasksInOrder, Holding, Runs, None
  <1>4. \A r \in Runs : task[r] # "none" <=> r < n
    BY <1>1 DEF CoreInv, TasksInOrder, Runs, n
  <1>5. OvertakenKnown'
    BY <1>1, <1>2, <1>3, <1>4 DEF RecordsInv, OvertakenKnown
  <1>6. FaultsKnown'
    BY <1>1, <1>2 DEF RecordsInv, FaultsKnown
  <1>7. \A i \in 1 .. Len(history') : Truthful(history[i])'
    BY <1>1, <1>2, RecordsKept DEF Ended
  <1> QED
    BY <1>5, <1>6, <1>7 DEF RecordsInv

\* A task goes on: the run it stands for has not ended.
LEMMA TaskRecords ==
  ASSUME CoreInv, RecordsInv, NEW r \in Runs,
         TakeLock(r) \/ Spawned(r) \/ ReadLine(r) \/ Release(r) \/ Fault(r)
  PROVE  RecordsInv'
  <1>1. history' = history /\ UNCHANGED <<accepted, overtaken>>
    BY DEF TakeLock, Spawned, ReadLine, Release, Fault, taskVars
  <1>2. \A q \in Runs : q # r => /\ task'[q] = task[q] /\ child'[q] = child[q]
                                 /\ q \in faults' <=> q \in faults
    BY DEF TakeLock, Spawned, ReadLine, Release, Fault, taskVars, childVars, CoreInv, TypeOK
  <1>3. task \in [Runs -> Stages]
    BY DEF CoreInv, TypeOK
  <1>4. \/ task[r] = "created" /\ task'[r] = "spawning" /\ UNCHANGED faults
        \/ task[r] \in {"spawning", "reading"} /\ task'[r] = "reading" /\ UNCHANGED faults
        \/ /\ task[r] \in {"spawning", "reading"} /\ task'[r] = "faulted"
           /\ faults' = faults \cup {r}
        \/ /\ task[r] = "closing" /\ task'[r] = "done"
           /\ UNCHANGED <<faults, child>>
    BY <1>3 DEF TakeLock, Spawned, ReadLine, Release, Fault, taskVars, childVars
  <1>5. OvertakenKnown'
    BY <1>1, <1>2, <1>4 DEF RecordsInv, OvertakenKnown
  <1>6. FaultsKnown'
    BY <1>2, <1>4 DEF RecordsInv, FaultsKnown
  <1>7. \A i \in 1 .. Len(history') : Truthful(history[i])'
    BY <1>1, <1>2, <1>4, RecordsKept DEF Ended
  <1> QED
    BY <1>5, <1>6, <1>7 DEF RecordsInv

\* The process of the run that ends is the one of _process.
LEMMA CloseRecords ==
  ASSUME CoreInv, RecordsInv, NEW r \in Runs, CloseExited(r) \/ CloseFaulted(r)
  PROVE  RecordsInv'
  <1> DEFINE exit == IF task[r] = "faulted" THEN "error" ELSE child[r]
             record == [command |-> accepted, executed |-> r, exit |-> exit]
             Records == [command : Runs, executed : Runs, exit : {"error"} \cup Ends]
             n == Len(history)
             m == IF n < HistoryCap THEN n + 1 ELSE n
  <1>1. /\ task[r] \in {"reading", "faulted"} /\ exit \in {"error"} \cup Ends /\ Close(r, exit)
        /\ r \in faults <=> task[r] = "faulted"
    <2>1. CASE CloseExited(r)
      <3>1. task[r] = "reading" /\ process = r
        BY <2>1 DEF CloseExited, CoreInv, ProcessIsReaders
      <3> QED
        BY <2>1, <3>1 DEF CloseExited, RecordsInv, FaultsKnown
    <2>2. CASE CloseFaulted(r)
      BY <2>2 DEF CloseFaulted, RecordsInv, FaultsKnown
    <2> QED
      BY <2>1, <2>2
  <1> HIDE DEF exit
  <1>2. /\ task'[r] = "closing" /\ \A q \in Runs : q # r => task'[q] = task[q]
        /\ history' = Recorded(record) /\ UNCHANGED <<accepted, overtaken, faults, child>>
    BY <1>1 DEF Close, CoreInv, TypeOK, childVars
  <1>3. OvertakenKnown' /\ FaultsKnown'
    BY <1>1, <1>2 DEF RecordsInv, OvertakenKnown, FaultsKnown
  <1>4. record \in Records /\ (accepted = r <=> r \notin overtaken)
    <2>1. accepted \in 0 .. MaxRuns /\ r <= accepted /\ r \in Nat /\ r >= 1
      BY <1>1, HolderStandsAlone DEF CoreInv, TypeOK, Holding, Runs
    <2>2. r \in overtaken <=> r < accepted
      BY <1>1 DEF RecordsInv, OvertakenKnown
    <2> QED
      BY <1>1, <2>1, <2>2 DEF Runs
  <1>5. StaysTruthful(record)
    <2>1. exit = IF r \in faults THEN "error" ELSE child[r]
      BY <1>1 DEF exit
    <2> QED
      BY <1>2, <1>4, <2>1 DEF StaysTruthful, Ended
  <1>6. ASSUME NEW i \in 1 .. n PROVE StaysTruthful(history[i])
    <2>1. history[i].executed \in Runs /\ Truthful(history[i])
      BY RecordTyped DEF CoreInv, RecordsInv
    <2> QED
      BY <1>1, <1>2, <2>1 DEF Truthful, StaysTruthful, Ended
  <1>7. /\ n \in Nat /\ m \in Nat \ {0} /\ Len(history') = m /\ history'[m] = record
        /\ \A i \in 1 .. m - 1 : n - m + 1 + i \in 1 .. n /\ history'[i] = history[n - m + 1 + i]
    <2>1. history \in Seq(Records) /\ Len(history) <= HistoryCap
      BY DEF CoreInv, TypeOK, HistoryOrdered, HistoryEnds
    <2> HIDE DEF Records, record
    <2> QED
      BY <1>2, <1>4, <2>1, RecordedShape
  <1> HIDE DEF record
  <1>8. ASSUME NEW i \in 1 .. m PROVE StaysTruthful(history'[i])
    <2>1. CASE i = m
      BY <1>5, <1>7, <2>1
    <2>2. CASE i # m
      <3>1. i \in 1 .. m - 1
        BY <1>7, <2>2
      <3>2. n - m + 1 + i \in 1 .. n /\ history'[i] = history[n - m + 1 + i]
        BY <1>7, <3>1
      <3>3. StaysTruthful(history[n - m + 1 + i])
        BY <1>6, <3>2
      <3> QED
        BY <3>2, <3>3
    <2> QED
      BY <2>1, <2>2
  <1>9. \A i \in 1 .. Len(history') : Truthful(history[i])'
    BY <1>7, <1>8 DEF StaysTruthful, Truthful
  <1> QED
    BY <1>3, <1>9 DEF RecordsInv

\* A process that ended keeps its status, whoever kills it again.
LEMMA OutsideRecords ==
  ASSUME CoreInv, RecordsInv,
         \/ \E r \in Runs : ChildWrites(r) \/ ChildExits(r)
         \/ \E c \in Clients : Connect(c) \/ Disconnect(c) \/ Send(c)
         \/ \E k \in Stoppers : StopRequest(k) \/ StopReturns(k) \/ StopTimeout(k)
         \/ UNCHANGED vars
  PROVE  RecordsInv'
  <1>1. UNCHANGED <<accepted, overtaken, task, faults, history>>
    BY DEF ChildWrites, ChildExits, Connect, Disconnect, Send, StopRequest, StopReturns,
           StopTimeout, taskVars, vars
  <1>2. \A r \in Runs : child[r] \in Ends => child'[r] = child[r]
    <2>1. child \in [Runs -> {"none", "alive"} \cup Ends]
      BY DEF CoreInv, TypeOK
    <2>2. ASSUME NEW r \in Runs, ChildExits(r)
          PROVE  \A q \in Runs : child[q] \in Ends => child'[q] = child[q]
      BY <2>1, <2>2 DEF ChildExits
    <2>3. ASSUME NEW k \in Stoppers, StopTimeout(k)
          PROVE  \A q \in Runs : child[q] \in Ends => child'[q] = child[q]
      BY <2>1, <2>3 DEF StopTimeout, KillProcess
    <2>4. CASE UNCHANGED child
      BY <2>4
    <2> QED
      BY <2>2, <2>3, <2>4 DEF ChildWrites, Connect, Disconnect, Send, StopRequest, StopReturns,
                              childVars, vars
  <1>3. \A i \in 1 .. Len(history') : Truthful(history[i])'
    BY <1>1, <1>2, RecordsKept
  <1> QED
    BY <1>1, <1>3 DEF RecordsInv, OvertakenKnown, FaultsKnown

\* Every step keeps the records true.
LEMMA StepRecords == CoreInv /\ RecordsInv /\ [Next]_vars => RecordsInv'
  BY RunRecords, TaskRecords, CloseRecords, OutsideRecords DEF Next, Task

\* The history holds the last runs that ended, in their order, each with the
\* status its own process ended with and, unless it was overtaken while it waited
\* for the lock, under its own name.
THEOREM RunnerHistoryComplete == Spec => []HistoryComplete
  <1>1. ASSUME CoreInv, RecordsInv PROVE HistoryComplete
    <2> DEFINE ended == Cardinality({r \in Runs : task[r] \in {"closing", "done"}})
    <2>1. PICK n \in 0 .. MaxRuns : HistoryEnds(n)
      BY <1>1 DEF CoreInv, HistoryOrdered
    <2>2. {r \in Runs : task[r] \in {"closing", "done"}} = 1 .. n
      BY <2>1 DEF HistoryEnds, Ended, Runs
    <2>3. Cardinality(1 .. n) = n
      <3>1. n \in Nat
        BY <2>1
      <3>2. Cardinality(1 .. n) = IF 1 > n THEN 0 ELSE n - 1 + 1
        BY <3>1, FS_Interval
      <3> QED
        BY <3>1, <3>2
    <2>4. ended = n
      BY <2>2, <2>3
    <2> HIDE DEF ended
    <2>5. Len(history) = IF ended < HistoryCap THEN ended ELSE HistoryCap
      BY <2>1, <2>4 DEF HistoryEnds
    <2>6. ASSUME NEW i \in 1 .. Len(history)
          PROVE  LET r == history[i].executed
                 IN /\ r = ended - Len(history) + i
                    /\ history[i].exit = IF r \in faults THEN "error" ELSE child[r]
                    /\ history[i].command = r <=> r \notin overtaken
      BY <1>1, <2>1, <2>4 DEF HistoryEnds, RecordsInv, Truthful
    <2> QED
      BY <2>5, <2>6 DEF HistoryComplete, ended
  <1> QED
    BY <1>1, InitCore, StepCore, InitRecords, StepRecords, PTL DEF Spec

-----------------------------------------------------------------------------
(* The stream of lines *)

\* A line at the end of a sequence of earlier ones keeps it in order.
LEMMA AppendOrdered ==
  ASSUME NEW s \in Seq(Lines), NEW l \in Lines, Ordered(s), Later(s, l)
  PROVE  /\ Ordered(Append(s, l)) /\ Append(s, l) \in Seq(Lines)
         /\ Len(Append(s, l)) = Len(s) + 1 /\ Append(s, l)[Len(s) + 1] = l
         /\ \A i \in 1 .. Len(s) : Append(s, l)[i] = s[i]
  <1>1. /\ Append(s, l) \in Seq(Lines) /\ Len(Append(s, l)) = Len(s) + 1 /\ Len(s) \in Nat
        /\ Append(s, l)[Len(s) + 1] = l
        /\ \A i \in 1 .. Len(s) : Append(s, l)[i] = s[i]
    BY AppendProperties
  <1>2. Ordered(Append(s, l))
    <2> SUFFICES ASSUME NEW i \in 1 .. Len(s) + 1, NEW j \in 1 .. Len(s) + 1, i < j
                 PROVE  Before(Append(s, l)[i], Append(s, l)[j])
      BY <1>1 DEF Ordered
    <2>1. i \in 1 .. Len(s)
      BY <1>1
    <2>2. CASE j = Len(s) + 1
      BY <1>1, <2>1, <2>2 DEF Later
    <2>3. CASE j # Len(s) + 1
      <3>1. j \in 1 .. Len(s)
        BY <1>1, <2>3
      <3> QED
        BY <1>1, <2>1, <3>1 DEF Ordered
    <2> QED
      BY <2>2, <2>3
  <1> QED
    BY <1>1, <1>2

\* The next line of the task that holds the lock is later than every line seen.
LEMMA NextLineIsLater ==
  ASSUME CoreInv, NEW r \in Runs, task[r] \in {"spawning", "reading"},
         NEW l \in Lines, Seen(l)
  PROVE  Before(l, <<r, read[r] + 1>>)
  <1>1. l[1] \in Runs /\ l[2] \in Nat /\ read[r] \in Nat /\ read[l[1]] \in Nat
    BY DEF Lines, CoreInv, TypeOK
  <1>2. ~(l[1] > r)
    BY <1>1, HolderStandsAlone DEF Holding, Seen
  <1>3. CASE l[1] = r
    <2>1. l[2] <= read[r]
      BY <1>1, <1>3 DEF Seen
    <2> QED
      BY <1>1, <1>3, <2>1 DEF Before
  <1> QED
    BY <1>1, <1>2, <1>3 DEF Before, Runs

\* What has been seen stays seen.
LEMMA SeenStays ==
  ASSUME CoreInv, [Next]_vars, NEW l \in Lines, Seen(l)
  PROVE  Seen(l)'
  <1> DEFINE q == l[1]
             Late == {"faulted", "closing", "done"}
  <1>1. q \in Runs /\ l[2] \in Nat /\ read[q] \in Nat /\ task[q] \notin {"none", "created"}
        /\ l[2] <= read[q] + (IF task[q] \in Late THEN 1 ELSE 0)
    BY DEF Lines, CoreInv, TypeOK, Seen
  <1>2. SUFFICES /\ task'[q] \notin {"none", "created"} /\ read'[q] \in Nat
                 /\ read'[q] >= read[q] /\ (task[q] \in Late => task'[q] \in Late)
    BY <1>1 DEF Seen
  <1>3. task \in [Runs -> Stages] /\ read \in [Runs -> 0 .. MaxLines]
    BY DEF CoreInv, TypeOK
  <1> HIDE DEF q
  <1>4. CASE UNCHANGED <<task, read>>
    BY <1>1, <1>4
  <1>5. CASE Run
    <2>1. task[accepted + 1] = "none" /\ task' = [task EXCEPT ![accepted + 1] = "created"]
          /\ read' = read
      BY <1>5 DEF Run, CoreInv, TypeOK, TasksInOrder, Runs
    <2> QED
      BY <1>1, <1>3, <2>1
  <1>6. ASSUME NEW r \in Runs, ReadLine(r) PROVE task' = task /\ read'[q] \in {read[q], read[q] + 1}
    BY <1>1, <1>3, <1>6 DEF ReadLine, taskVars
  <1>7. ASSUME NEW r \in Runs, NEW t, task' = [task EXCEPT ![r] = t], read' = read,
               \/ task[r] \notin Late /\ t \in {"spawning", "reading"} \cup Late
               \/ t \in Late
        PROVE  /\ task'[q] \notin {"none", "created"} /\ read'[q] = read[q]
               /\ task[q] \in Late => task'[q] \in Late
    BY <1>1, <1>3, <1>7
  <1>8. ASSUME NEW r \in Runs,
               \/ TakeLock(r) \/ Spawned(r) \/ Fault(r) \/ CloseExited(r) \/ CloseFaulted(r)
               \/ Release(r)
        PROVE  /\ read' = read
               /\ \E t : /\ task' = [task EXCEPT ![r] = t]
                         /\ \/ task[r] \notin Late /\ t \in {"spawning", "reading"} \cup Late
                            \/ t \in Late
    BY <1>8 DEF TakeLock, Spawned, Fault, CloseExited, CloseFaulted, Close, Release
  <1>9. ASSUME NEW r \in Runs,
               \/ TakeLock(r) \/ Spawned(r) \/ Fault(r) \/ CloseExited(r) \/ CloseFaulted(r)
               \/ Release(r)
        PROVE  /\ task'[q] \notin {"none", "created"} /\ read'[q] = read[q]
               /\ task[q] \in Late => task'[q] \in Late
    BY <1>7, <1>8, <1>9
  <1>10. ASSUME \/ \E r \in Runs : ChildWrites(r) \/ ChildExits(r)
                \/ \E c \in Clients : Connect(c) \/ Disconnect(c) \/ Send(c)
                \/ \E k \in Stoppers : StopRequest(k) \/ StopReturns(k) \/ StopTimeout(k)
                \/ UNCHANGED vars
         PROVE  UNCHANGED <<task, read>>
    BY <1>10 DEF ChildWrites, ChildExits, Connect, Disconnect, Send, StopRequest, StopReturns,
                 StopTimeout, vars, taskVars
  <1> QED
    BY <1>1, <1>4, <1>5, <1>6, <1>9, <1>10 DEF Next, Task

\* The lines of the buffer and of the tabs, which no step changes here, stay
\* seen.
LEMMA StreamTyped ==
  ASSUME CoreInv
  PROVE  /\ buffer \in Seq(Lines) /\ Len(buffer) \in Nat
         /\ \A i \in 1 .. Len(buffer) : buffer[i] \in Lines
         /\ clients \subseteq Clients /\ pending \subseteq clients
         /\ \A c \in clients : /\ received[c] \in Seq(Lines) /\ Len(received[c]) \in Nat
                               /\ \A i \in 1 .. Len(received[c]) : received[c][i] \in Lines
         /\ line \in Lines \cup {Notice} /\ Notice \notin Lines
  <1>1. /\ buffer \in Seq(Lines) /\ received \in [Clients -> Seq(Lines)]
        /\ clients \subseteq Clients /\ pending \subseteq clients /\ line \in Lines \cup {Notice}
    BY DEF CoreInv, TypeOK
  <1>2. Notice \notin Lines
    BY DEF Notice, Lines, Runs
  <1>3. \A c \in clients : received[c] \in Seq(Lines)
    BY <1>1
  <1> QED
    BY <1>1, <1>2, <1>3

\* No command has printed anything.
LEMMA InitStream == Init => StreamInv
  <1> SUFFICES ASSUME Init PROVE StreamInv
    OBVIOUS
  <1>1. buffer = <<>> /\ Len(<<>>) = 0 /\ clients = {} /\ pending = {} /\ line = Notice
    BY DEF Init
  <1> QED
    BY <1>1 DEF StreamInv, Ordered, AllSeen, LineInv

\* A step that sends nothing and drops no line.
LEMMA QuietStream ==
  ASSUME CoreInv, StreamInv, [Next]_vars, UNCHANGED <<buffer, clientVars>>,
         \/ UNCHANGED sendVars
         \/ pending = {} /\ line' = Notice /\ pending' \subseteq clients
  PROVE  StreamInv'
  <1> USE StreamTyped DEF clientVars, sendVars
  <1>1. Ordered(buffer') /\ AllSeen(buffer)'
    BY SeenStays DEF StreamInv, Ordered, AllSeen
  <1>2. ASSUME NEW c \in clients'
        PROVE  Ordered(received'[c]) /\ AllSeen(received[c])' /\ Covered(c)'
    <2>1. c \in clients /\ received'[c] = received[c]
      OBVIOUS
    <2>2. AllSeen(received[c])'
      BY <2>1, SeenStays DEF StreamInv, AllSeen
    <2>3. Covered(c)'
      BY <2>1 DEF StreamInv, Covered
    <2> QED
      BY <2>1, <2>2, <2>3 DEF StreamInv, Ordered
  <1>3. LineInv'
    <2>1. CASE line' = Notice
      BY <2>1 DEF LineInv
    <2>2. CASE line' # Notice
      <3>1. UNCHANGED <<pending, line, received>> /\ line # Notice
        BY <2>2
      <3>2. Seen(line)'
        BY <3>1, SeenStays DEF StreamInv, LineInv
      <3> QED
        BY <3>1, <3>2 DEF StreamInv, LineInv, Later
    <2> QED
      BY <2>1, <2>2
  <1> QED
    BY <1>1, <1>2, <1>3 DEF StreamInv

\* run() empties the buffer.
LEMMA RunStream == CoreInv /\ StreamInv /\ Run => StreamInv'
  <1> SUFFICES ASSUME CoreInv, StreamInv, Run PROVE StreamInv'
    OBVIOUS
  <1>1. [Next]_vars
    BY DEF Next
  <1>2. buffer' = <<>> /\ Len(<<>>) = 0 /\ UNCHANGED <<clients, received, pending, line>>
    BY DEF Run, clientVars, sendVars
  <1>3. ASSUME NEW c \in clients' PROVE Ordered(received'[c]) /\ AllSeen(received[c])' /\ Covered(c)'
    <2>1. AllSeen(received[c])'
      BY <1>1, <1>2, StreamTyped, SeenStays DEF StreamInv, AllSeen
    <2>2. Covered(c)'
      BY <1>2 DEF Covered
    <2> QED
      BY <1>2, <2>1, <2>2 DEF StreamInv, Ordered
  <1>4. LineInv'
    <2>1. line # Notice => Seen(line)'
      BY <1>1, <1>2, StreamTyped, SeenStays DEF StreamInv, LineInv
    <2> QED
      BY <1>2, <2>1 DEF StreamInv, LineInv, Later
  <1> QED
    BY <1>2, <1>3, <1>4 DEF StreamInv, Ordered, AllSeen

\* A new line reaches the buffer, unless it is full, and is on its way to every
\* tab.
LEMMA NewLineStream ==
  ASSUME CoreInv, StreamInv, [Next]_vars,
         NEW r \in Runs, task[r] \in {"spawning", "reading"}, pending = {},
         NEW l \in Lines, l = <<r, read[r] + 1>>, Seen(l)',
         buffer' \in {buffer, Append(buffer, l)}, Broadcast(l), UNCHANGED clientVars
  PROVE  StreamInv'
  <1> USE DEF clientVars
  <1>1. /\ \A c \in clients : \A i \in 1 .. Len(buffer) :
             \E j \in 1 .. Len(received[c]) : received[c][j] = buffer[i]
        /\ pending' = clients /\ line' = IF clients = {} THEN Notice ELSE l
    BY DEF StreamInv, Covered, Broadcast
  <1>2. Later(buffer, l) /\ \A c \in clients : Later(received[c], l)
    BY StreamTyped, NextLineIsLater DEF StreamInv, AllSeen, Later
  <1>3. /\ Ordered(buffer') /\ AllSeen(buffer)'
        /\ \A i \in 1 .. Len(buffer') : buffer'[i] = l \/ \E k \in 1 .. Len(buffer) : buffer'[i] = buffer[k]
    <2>1. \A i \in 1 .. Len(buffer) : Seen(buffer[i])'
      BY StreamTyped, SeenStays DEF StreamInv, AllSeen
    <2>2. CASE buffer' = buffer
      BY <2>1, <2>2 DEF StreamInv, AllSeen, Ordered
    <2>3. CASE buffer' = Append(buffer, l)
      <3>1. /\ Ordered(buffer') /\ Len(buffer') = Len(buffer) + 1
            /\ buffer'[Len(buffer) + 1] = l
            /\ \A i \in 1 .. Len(buffer) : buffer'[i] = buffer[i]
        BY <1>2, <2>3, StreamTyped, AppendOrdered DEF StreamInv
      <3>2. ASSUME NEW i \in 1 .. Len(buffer') PROVE i \in 1 .. Len(buffer) \/ i = Len(buffer) + 1
        BY <3>1, StreamTyped
      <3>3. AllSeen(buffer)'
        <4> SUFFICES ASSUME NEW i \in 1 .. Len(buffer') PROVE Seen(buffer[i])'
          BY DEF AllSeen
        <4>1. CASE i \in 1 .. Len(buffer)
          <5>1. buffer'[i] = buffer[i]
            BY <3>1, <4>1
          <5> QED
            BY <2>1, <4>1, <5>1 DEF Seen
        <4>2. CASE i = Len(buffer) + 1
          <5>1. buffer'[i] = l
            BY <3>1, <4>2
          <5> QED
            BY <5>1 DEF Seen
        <4> QED
          BY <3>2, <4>1, <4>2
      <3> QED
        BY <3>1, <3>2, <3>3
    <2> QED
      BY <2>2, <2>3
  <1>4. ASSUME NEW c \in clients' PROVE Ordered(received'[c]) /\ AllSeen(received[c])' /\ Covered(c)'
    <2>1. c \in clients /\ received'[c] = received[c] /\ c \in pending' /\ line' = l
      BY <1>1
    <2>2. AllSeen(received[c])'
      BY <2>1, StreamTyped, SeenStays DEF StreamInv, AllSeen
    <2>3. Covered(c)'
      BY <1>1, <1>3, <2>1 DEF Covered
    <2> QED
      BY <2>1, <2>2, <2>3 DEF StreamInv, Ordered
  <1>5. LineInv'
    <2>1. CASE clients = {}
      BY <1>1, <2>1 DEF LineInv
    <2>2. CASE clients # {}
      <3>1. line' = l /\ pending' = clients
        BY <1>1, <2>2
      <3> QED
        BY <1>2, <2>2, <3>1 DEF LineInv, Later, Seen
    <2> QED
      BY <2>1, <2>2
  <1> QED
    BY <1>3, <1>4, <1>5 DEF StreamInv

\* A send puts the line after what the tab has; a tab that goes takes its send
\* along.
LEMMA SendStream ==
  ASSUME CoreInv, StreamInv, NEW c \in Clients, Send(c)
  PROVE  StreamInv'
  <1>1. [Next]_vars
    BY DEF Next
  <1>2. /\ c \in pending /\ pending' = pending \ {c}
        /\ received' = IF line = Notice THEN received
                       ELSE [received EXCEPT ![c] = Append(@, line)]
        /\ line' = IF pending = {c} THEN Notice ELSE line
        /\ UNCHANGED <<buffer, clients>>
    BY DEF Send
  <1>3. received \in [Clients -> Seq(Lines)] /\ \A i \in 1 .. Len(buffer) : buffer[i] \in Lines
    BY StreamTyped DEF CoreInv, TypeOK
  <1>4. Ordered(buffer') /\ AllSeen(buffer)'
    BY <1>1, <1>2, StreamTyped, SeenStays DEF StreamInv, Ordered, AllSeen
  <1>5. ASSUME NEW d \in clients, d # c
        PROVE  Ordered(received'[d]) /\ AllSeen(received[d])' /\ Covered(d)'
    <2>1. received'[d] = received[d]
      BY <1>2, <1>3, <1>5
    <2>2. AllSeen(received[d])'
      BY <1>1, <2>1, StreamTyped, SeenStays DEF StreamInv, AllSeen
    <2>3. d \in pending => d \in pending' /\ line' = line
      BY <1>2, <1>5
    <2>4. Covered(d)'
      BY <1>2, <2>1, <2>3 DEF StreamInv, Covered
    <2> QED
      BY <2>1, <2>2, <2>4 DEF StreamInv, Ordered
  <1>6. c \in clients => Ordered(received'[c]) /\ AllSeen(received[c])' /\ Covered(c)'
    <2> SUFFICES ASSUME c \in clients
                 PROVE  Ordered(received'[c]) /\ AllSeen(received[c])' /\ Covered(c)'
      OBVIOUS
    <2> DEFINE s == received[c]
    <2>1. CASE line = Notice
      <3>1. received' = received
        BY <1>2, <2>1
      <3>2. AllSeen(received[c])'
        BY <1>1, <3>1, StreamTyped, SeenStays DEF StreamInv, AllSeen
      <3>3. Covered(c)'
        BY <1>2, <1>3, <2>1, <3>1, StreamTyped DEF StreamInv, Covered
      <3> QED
        BY <3>1, <3>2, <3>3 DEF StreamInv, Ordered
    <2>2. CASE line # Notice
      <3>1. line \in Lines /\ Seen(line) /\ Later(s, line) /\ Ordered(s) /\ s \in Seq(Lines)
        BY <1>2, <2>2, StreamTyped DEF StreamInv, LineInv
      <3>2. received'[c] = Append(s, line)
        BY <1>2, <1>3, <2>2
      <3>3. /\ Ordered(received'[c]) /\ Len(received'[c]) = Len(s) + 1
            /\ received'[c][Len(s) + 1] = line
            /\ \A i \in 1 .. Len(s) : received'[c][i] = s[i]
        BY <3>1, <3>2, AppendOrdered
      <3>4. Len(s) \in Nat
        BY <3>1
      <3> HIDE DEF s
      <3>5. AllSeen(received[c])'
        <4>1. \A i \in 1 .. Len(s) : Seen(s[i]) /\ s[i] \in Lines
          BY StreamTyped DEF s, StreamInv, AllSeen
        <4> SUFFICES ASSUME NEW i \in 1 .. Len(received'[c]) PROVE Seen(received[c][i])'
          BY DEF AllSeen
        <4>2. i \in 1 .. Len(s) \/ i = Len(s) + 1
          BY <3>3, <3>4
        <4>3. received'[c][i] \in Lines /\ Seen(received'[c][i])
          BY <3>1, <3>3, <4>1, <4>2
        <4> QED
          BY <1>1, <4>3, SeenStays DEF Seen
      <3>6. Covered(c)'
        <4> SUFFICES ASSUME NEW i \in 1 .. Len(buffer)
                     PROVE  \E j \in 1 .. Len(received'[c]) : received'[c][j] = buffer[i]
          BY <1>2 DEF Covered
        <4>1. CASE \E j \in 1 .. Len(s) : s[j] = buffer[i]
          <5>1. PICK j \in 1 .. Len(s) : s[j] = buffer[i]
            BY <4>1
          <5>2. j \in 1 .. Len(received'[c]) /\ received'[c][j] = buffer[i]
            BY <3>3, <3>4, <5>1
          <5> QED
            BY <5>2
        <4>2. CASE line = buffer[i]
          <5>1. Len(s) + 1 \in 1 .. Len(received'[c])
            BY <3>3, <3>4
          <5> QED
            BY <3>3, <4>2, <5>1
        <4> QED
          BY <4>1, <4>2 DEF s, StreamInv, Covered
      <3> QED
        BY <3>3, <3>5, <3>6
    <2> QED
      BY <2>1, <2>2
  <1>7. LineInv'
    <2>1. CASE pending = {c}
      BY <1>2, <2>1 DEF LineInv
    <2>2. CASE pending # {c}
      <3>1. line' = line /\ pending' # {}
        BY <1>2, <2>2
      <3>2. line # Notice => Seen(line)'
        BY <1>1, <3>1, StreamTyped, SeenStays DEF StreamInv, LineInv
      <3>3. \A d \in pending' : received'[d] = received[d] /\ d \in pending
        BY <1>2, <1>3, StreamTyped
      <3> QED
        BY <3>1, <3>2, <3>3 DEF StreamInv, LineInv, Later
    <2> QED
      BY <2>1, <2>2
  <1> QED
    BY <1>2, <1>4, <1>5, <1>6, <1>7 DEF StreamInv

\* A tab that comes is sent the buffer, one that goes takes its send along.
LEMMA TabStream ==
  ASSUME CoreInv, StreamInv, NEW c \in Clients, Connect(c) \/ Disconnect(c)
  PROVE  StreamInv'
  <1>1. [Next]_vars
    BY DEF Next
  <1>2. UNCHANGED buffer /\ received \in [Clients -> Seq(Lines)]
    BY DEF Connect, Disconnect, CoreInv, TypeOK
  <1>3. Ordered(buffer') /\ AllSeen(buffer)'
    BY <1>1, <1>2, StreamTyped, SeenStays DEF StreamInv, Ordered, AllSeen
  <1>4. ASSUME NEW d \in clients, d # c
        PROVE  Ordered(received'[d]) /\ AllSeen(received[d])' /\ Covered(d)'
    <2>1. received'[d] = received[d]
      BY <1>2, <1>4, StreamTyped DEF Connect, Disconnect
    <2>2. AllSeen(received[d])'
      BY <1>1, <2>1, StreamTyped, SeenStays DEF StreamInv, AllSeen
    <2>3. d \in pending => d \in pending' /\ line' = line
      BY <1>4 DEF Connect, Disconnect, sendVars
    <2>4. Covered(d)'
      BY <1>2, <2>1, <2>3 DEF StreamInv, Covered
    <2> QED
      BY <2>1, <2>2, <2>4 DEF StreamInv, Ordered
  <1>5. CASE Connect(c)
    <2>1. clients' = clients \cup {c} /\ received' = [received EXCEPT ![c] = buffer]
          /\ UNCHANGED <<pending, line>>
      BY <1>5 DEF Connect, sendVars
    <2>2. received'[c] = buffer
      BY <1>2, <2>1
    <2>3. Ordered(received'[c]) /\ AllSeen(received[c])' /\ Covered(c)'
      <3>1. AllSeen(received[c])'
        BY <1>2, <1>3, <2>2 DEF AllSeen, Seen
      <3>2. Covered(c)'
        BY <1>2, <2>2 DEF Covered
      <3> QED
        BY <3>1, <3>2, <2>2 DEF StreamInv, Ordered
    <2>4. LineInv'
      <3>1. line # Notice => Seen(line)'
        BY <1>1, <2>1, StreamTyped, SeenStays DEF StreamInv, LineInv
      <3>2. \A d \in pending : received'[d] = received[d]
        BY <1>2, <1>5, <2>1, StreamTyped DEF Connect
      <3> QED
        BY <2>1, <3>1, <3>2 DEF StreamInv, LineInv, Later
    <2> QED
      BY <1>3, <1>4, <2>1, <2>3, <2>4 DEF StreamInv
  <1>6. CASE Disconnect(c)
    <2>1. /\ clients' = clients \ {c} /\ pending' = pending \ {c}
          /\ line' = IF pending \subseteq {c} THEN Notice ELSE line
          /\ received' = [received EXCEPT ![c] = <<>>]
      BY <1>6 DEF Disconnect
    <2>2. LineInv'
      <3>1. CASE pending \subseteq {c}
        BY <2>1, <3>1 DEF LineInv
      <3>2. CASE ~(pending \subseteq {c})
        <4>1. line' = line /\ pending' # {}
          BY <2>1, <3>2
        <4>2. line # Notice => Seen(line)'
          BY <1>1, <4>1, StreamTyped, SeenStays DEF StreamInv, LineInv
        <4>3. \A d \in pending' : received'[d] = received[d] /\ d \in pending
          BY <1>2, <2>1, StreamTyped
        <4> QED
          BY <4>1, <4>2, <4>3 DEF StreamInv, LineInv, Later
      <3> QED
        BY <3>1, <3>2
    <2> QED
      BY <1>3, <1>4, <2>1, <2>2 DEF StreamInv
  <1> QED
    BY <1>5, <1>6

\* Every step keeps the stream in order and complete.
LEMMA StepStream == CoreInv /\ StreamInv /\ [Next]_vars => StreamInv'
  <1> SUFFICES ASSUME CoreInv, StreamInv, [Next]_vars PROVE StreamInv'
    OBVIOUS
  <1>1. ASSUME NEW r \in Runs, TakeLock(r) \/ Spawned(r) \/ Release(r) \/ ChildWrites(r) \/ ChildExits(r)
        PROVE  StreamInv'
    BY <1>1, QuietStream DEF TakeLock, Spawned, Release, ChildWrites, ChildExits
  <1>2. ASSUME NEW k \in Stoppers, StopRequest(k) \/ StopReturns(k) \/ StopTimeout(k)
        PROVE  StreamInv'
    BY <1>2, QuietStream DEF StopRequest, StopReturns, StopTimeout
  <1>3. ASSUME NEW r \in Runs, NEW exit \in {"error"} \cup Ends, Close(r, exit) PROVE StreamInv'
    <2>1. pending = {} /\ line' = Notice /\ pending' = clients /\ UNCHANGED <<buffer, clientVars>>
      BY <1>3 DEF Close, Broadcast
    <2> QED
      BY <2>1, QuietStream
  <1>4. ASSUME NEW r \in Runs PROVE \E l \in Lines : l = <<r, read[r] + 1>>
    <2>1. read[r] \in 0 .. MaxLines
      BY DEF CoreInv, TypeOK
    <2>2. <<r, read[r] + 1>> \in Lines
      BY <2>1 DEF Lines
    <2> QED
      BY <2>2
  <1>5. ASSUME NEW r \in Runs, ReadLine(r) PROVE StreamInv'
    <2>1. /\ task[r] = "reading" /\ task' = task /\ read[r] \in Nat
          /\ read'[r] = read[r] + 1
      BY <1>5 DEF ReadLine, taskVars, CoreInv, TypeOK
    <2>2. PICK l \in Lines : l = <<r, read[r] + 1>>
      BY <1>4, <2>1
    <2>3. Seen(l)'
      BY <2>1, <2>2 DEF Seen
    <2>4. /\ pending = {} /\ buffer' \in {buffer, Append(buffer, l)} /\ Broadcast(l)
          /\ UNCHANGED clientVars
      BY <1>5, <2>2 DEF ReadLine
    <2> QED
      BY <2>1, <2>2, <2>3, <2>4, NewLineStream
  <1>6. ASSUME NEW r \in Runs, Fault(r) PROVE StreamInv'
    <2>1. /\ task[r] \in {"spawning", "reading"} /\ task'[r] = "faulted"
          /\ read[r] \in Nat /\ read' = read
      BY <1>6 DEF Fault, CoreInv, TypeOK
    <2>2. PICK l \in Lines : l = <<r, read[r] + 1>>
      BY <1>4, <2>1
    <2>3. Seen(l)'
      BY <2>1, <2>2 DEF Seen
    <2>4. /\ pending = {} /\ buffer' \in {buffer, Append(buffer, l)} /\ Broadcast(l)
          /\ UNCHANGED clientVars
      BY <1>6, <2>2 DEF Fault
    <2> QED
      BY <2>1, <2>2, <2>3, <2>4, NewLineStream
  <1>7. CASE UNCHANGED vars
    BY <1>7, QuietStream DEF vars
  <1>8. ASSUME NEW r \in Runs, Task(r) PROVE StreamInv'
    BY <1>1, <1>3, <1>5, <1>8 DEF Task, CloseExited, CloseFaulted
  <1> QED
    BY <1>1, <1>2, <1>6, <1>7, <1>8, RunStream, SendStream, TabStream, Zenon DEF Next

\* The invariant of the stream.
THEOREM RunnerStream == Spec => [](CoreInv /\ StreamInv)
  <1> QED
    BY InitCore, InitStream, StepCore, StepStream, PTL DEF Spec

\* Every tab has every buffered line, once and in order, or is about to be sent
\* the one it lacks.
THEOREM RunnerStreamFaithful == Spec => []StreamFaithful
  <1>1. StreamInv => StreamFaithful
    BY DEF StreamInv, StreamFaithful, Ordered, Covered
  <1> QED
    BY <1>1, RunnerStream, PTL
=============================================================================
