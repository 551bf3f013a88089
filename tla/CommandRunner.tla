----------------------------- MODULE CommandRunner -----------------------------
(***************************************************************************)
(* The web console's command runner (app/web/command_runner.py) and the    *)
(* WebSocket endpoint that feeds its output to browsers.                   *)
(*                                                                         *)
(* Everything runs in one event loop: an action is what a coroutine does   *)
(* between two awaits.  Runs are numbered in the order they are accepted,  *)
(* so that the newest number stands for _current_command, _current_args    *)
(* and _started_at.                                                        *)
(***************************************************************************)
EXTENDS Naturals, Sequences, FiniteSets

CONSTANTS Clients,        \* browser tabs
          Stoppers,       \* concurrent calls of stop()
          MaxRuns,        \* bound: accepted commands
          MaxLines,       \* bound: lines a command prints
          BufferCap,      \* _MAX_BUFFER_LINES
          HistoryCap,     \* maxlen of _history
          MaxFaults       \* bound: exceptions out of the reader or the spawn

ASSUME RunnerAssumption ==
  /\ MaxRuns \in Nat /\ MaxLines \in Nat /\ BufferCap \in Nat /\ MaxFaults \in Nat
  /\ HistoryCap \in Nat \ {0}

Runs == 1 .. MaxRuns
None == 0

VARIABLES
  accepted,   \* how many commands run() accepted
  overtaken,  \* the runs still without the lock when a later one was accepted
  task,       \* the stage of each run's _execute task
  lock,       \* the run whose task holds _lock, or None
  process,    \* _process: the run it belongs to, or None
  finished,   \* _finished
  exitCode,   \* _exit_code: "unset", "ok", "failed", "error" (-1)
  buffer,     \* _output_buffer, lines as <<run, number>>
  history,    \* _history: what was recorded of the last completed commands
  faults,     \* the runs whose spawn or reader raised
  child,      \* each run's operating system process: how it ended, if it did
  written,    \* lines each process has written to its pipe
  read,       \* lines the reader has taken from it
  clients,    \* _ws_clients, all connected
  pending,    \* the clients the broadcast in progress has yet to reach
  line,       \* the line it carries; Notice when it is the end of the command
  received,   \* what each connected tab was sent, replay included
  stop,       \* the calls of stop(): the run whose process it awaits, or None
  kills       \* pairs <<run a stop() was called on, run it killed>>

runVars    == <<accepted, overtaken>>
taskVars   == <<task, lock, process, finished, exitCode, history, faults>>
childVars  == <<child, written>>
clientVars == <<clients, received>>
sendVars   == <<pending, line>>
stopVars   == <<stop, kills>>
vars == <<runVars, taskVars, buffer, childVars, read, clientVars, sendVars, stopVars>>

Notice == <<0, 0>>
Ends == {"ok", "failed"}  \* returncode zero; any other, a signal's included
Lines == Runs \X (1 .. MaxLines + 1)
Stages == {"none", "created", "spawning", "reading", "faulted", "closing", "done"}

TypeOK ==
  /\ accepted \in 0 .. MaxRuns
  /\ overtaken \subseteq Runs
  /\ task \in [Runs -> Stages]
  /\ lock \in Runs \cup {None}
  /\ process \in Runs \cup {None}
  /\ finished \in BOOLEAN
  /\ exitCode \in {"unset", "error"} \cup Ends
  /\ buffer \in Seq(Lines)
  /\ history \in Seq([command : Runs, executed : Runs, exit : {"error"} \cup Ends])
  /\ faults \subseteq Runs
  /\ child \in [Runs -> {"none", "alive"} \cup Ends]
  /\ written \in [Runs -> 0 .. MaxLines]
  /\ read \in [Runs -> 0 .. MaxLines]
  /\ clients \subseteq Clients
  /\ pending \subseteq clients
  /\ line \in Lines \cup {Notice}
  /\ received \in [Clients -> Seq(Lines)]
  /\ stop \in [Stoppers -> Runs \cup {None}]
  /\ kills \subseteq Runs \X Runs

Init ==
  /\ accepted = 0
  /\ overtaken = {}
  /\ task = [r \in Runs |-> "none"]
  /\ lock = None
  /\ process = None
  /\ finished = FALSE
  /\ exitCode = "unset"
  /\ buffer = << >>
  /\ history = << >>
  /\ faults = {}
  /\ child = [r \in Runs |-> "none"]
  /\ written = [r \in Runs |-> 0]
  /\ read = [r \in Runs |-> 0]
  /\ clients = {}
  /\ pending = {}
  /\ line = Notice
  /\ received = [c \in Clients |-> << >>]
  /\ stop = [k \in Stoppers |-> None]
  /\ kills = {}

IsRunning == process # None /\ ~finished

-----------------------------------------------------------------------------
\* run(): accepted unless a command runs or holds the lock.  Its task is only
\* created here and takes the lock when the loop gets to it.
Run ==
  /\ accepted < MaxRuns
  /\ ~IsRunning
  /\ lock = None
  /\ accepted' = accepted + 1
  /\ overtaken' = overtaken \cup {r \in Runs : task[r] = "created"}
  /\ task' = [task EXCEPT ![accepted + 1] = "created"]
  /\ buffer' = << >>
  /\ exitCode' = "unset"
  /\ finished' = FALSE
  /\ UNCHANGED <<lock, process, history, faults, childVars, read, clientVars, sendVars, stopVars>>

\* Mutant: the task does not take the lock.
TakeLock_Unlocked(r) ==
  /\ task[r] = "created"
  /\ \A q \in Runs : task[q] = "created" => r <= q
  /\ lock' = r
  /\ task' = [task EXCEPT ![r] = "spawning"]
  /\ UNCHANGED <<runVars, process, finished, exitCode, buffer, history, faults, childVars, read,
                 clientVars, sendVars, stopVars>>

\* The lock serves its waiters in order.
TakeLock(r) ==
  /\ task[r] = "created"
  /\ lock = None
  /\ \A q \in Runs : task[q] = "created" => r <= q
  /\ lock' = r
  /\ task' = [task EXCEPT ![r] = "spawning"]
  /\ UNCHANGED <<runVars, process, finished, exitCode, buffer, history, faults, childVars, read,
                 clientVars, sendVars, stopVars>>

Spawned(r) ==
  /\ task[r] = "spawning"
  /\ process' = r
  /\ child' = [child EXCEPT ![r] = "alive"]
  /\ task' = [task EXCEPT ![r] = "reading"]
  /\ UNCHANGED <<runVars, lock, finished, exitCode, buffer, history, faults, written, read,
                 clientVars, sendVars, stopVars>>

\* A broadcast starts: it walks over the clients of this moment.
Broadcast(l) ==
  /\ pending' = clients
  /\ line' = IF clients = {} THEN Notice ELSE l

\* The reader takes a line; a full buffer drops it, the broadcast does not.
ReadLine(r) ==
  LET l == <<r, read[r] + 1>> IN
  /\ task[r] = "reading"
  /\ pending = {}
  /\ read[r] < written[r]
  /\ read' = [read EXCEPT ![r] = @ + 1]
  /\ buffer' = IF Len(buffer) < BufferCap THEN Append(buffer, l) ELSE buffer
  /\ Broadcast(l)
  /\ UNCHANGED <<runVars, taskVars, childVars, clientVars, stopVars>>

\* The spawn failed, or the reader raised (a line longer than the stream's
\* limit): the error becomes a line of output.
Fault(r) ==
  LET l == <<r, read[r] + 1>> IN
  /\ task[r] \in {"spawning", "reading"}
  /\ pending = {}
  /\ Cardinality(faults) < MaxFaults
  /\ faults' = faults \cup {r}
  /\ task' = [task EXCEPT ![r] = "faulted"]
  /\ buffer' = Append(buffer, l)
  /\ Broadcast(l)
  /\ UNCHANGED <<runVars, lock, process, finished, exitCode, history, childVars, read, clientVars,
                 stopVars>>

\* A deque of bounded length: the oldest record goes when it is full.
Recorded(record) ==
  IF Len(history) < HistoryCap THEN Append(history, record) ELSE Append(Tail(history), record)

\* Mutant: a run that ends badly leaves no record.
Close_LosesErrors(r, exit) ==
  /\ pending = {}
  /\ task' = [task EXCEPT ![r] = "closing"]
  /\ exitCode' = exit
  /\ finished' = TRUE
  /\ process' = None
  /\ history' = IF exit # "error"
                THEN Recorded([command |-> accepted, executed |-> r, exit |-> exit])
                ELSE history
  /\ Broadcast(Notice)
  /\ UNCHANGED <<runVars, lock, buffer, faults, childVars, read, clientVars, stopVars>>

\* The finally block up to its first await: the state is reset, the command is
\* recorded under the name run() last accepted, the end is announced.
Close(r, exit) ==
  /\ pending = {}
  /\ task' = [task EXCEPT ![r] = "closing"]
  /\ exitCode' = exit
  /\ finished' = TRUE
  /\ process' = None
  /\ history' = Recorded([command |-> accepted, executed |-> r, exit |-> exit])
  /\ Broadcast(Notice)
  /\ UNCHANGED <<runVars, lock, buffer, faults, childVars, read, clientVars, stopVars>>

\* End of output: the process that is _process by now was waited for, and its
\* returncode is the result.
CloseExited(r) ==
  /\ task[r] = "reading"
  /\ read[r] = written[r]
  /\ child[r] # "alive"
  /\ child[process] \in Ends
  /\ Close(r, child[process])

CloseFaulted(r) ==
  /\ task[r] = "faulted"
  /\ Close(r, "error")

\* Mutant: the lock is released by a run that ended well only.
Release_OnSuccess(r) ==
  /\ task[r] = "closing"
  /\ pending = {}
  /\ exitCode # "error"
  /\ task' = [task EXCEPT ![r] = "done"]
  /\ lock' = None
  /\ UNCHANGED <<runVars, process, finished, exitCode, buffer, history, faults, childVars, read,
                 clientVars, sendVars, stopVars>>

\* Every client was told: the task ends and releases the lock.
Release(r) ==
  /\ task[r] = "closing"
  /\ pending = {}
  /\ task' = [task EXCEPT ![r] = "done"]
  /\ lock' = None
  /\ UNCHANGED <<runVars, process, finished, exitCode, buffer, history, faults, childVars, read,
                 clientVars, sendVars, stopVars>>

\* One send of the broadcast completes.
Send(c) ==
  /\ c \in pending
  /\ pending' = pending \ {c}
  /\ received' = IF line = Notice THEN received ELSE [received EXCEPT ![c] = Append(@, line)]
  /\ line' = IF pending = {c} THEN Notice ELSE line
  /\ UNCHANGED <<runVars, taskVars, buffer, childVars, read, clients, stopVars>>

-----------------------------------------------------------------------------
\* Mutant: the endpoint does not replay what the buffer holds.
Connect_NoReplay(c) ==
  /\ c \notin clients
  /\ clients' = clients \cup {c}
  /\ received' = [received EXCEPT ![c] = << >>]
  /\ UNCHANGED <<runVars, taskVars, buffer, childVars, read, sendVars, stopVars>>

\* The endpoint registers the socket and copies the buffer with no await in
\* between.
Connect(c) ==
  /\ c \notin clients
  /\ clients' = clients \cup {c}
  /\ received' = [received EXCEPT ![c] = buffer]
  /\ UNCHANGED <<runVars, taskVars, buffer, childVars, read, sendVars, stopVars>>

\* The tab is gone: its sends fail or are skipped.
Disconnect(c) ==
  /\ c \in clients
  /\ clients' = clients \ {c}
  /\ pending' = pending \ {c}
  /\ received' = [received EXCEPT ![c] = << >>]
  /\ line' = IF pending \subseteq {c} THEN Notice ELSE line
  /\ UNCHANGED <<runVars, taskVars, buffer, childVars, read, stopVars>>

-----------------------------------------------------------------------------
ChildWrites(r) ==
  /\ child[r] = "alive"
  /\ written[r] < MaxLines
  /\ written' = [written EXCEPT ![r] = @ + 1]
  /\ UNCHANGED <<runVars, taskVars, buffer, child, read, clientVars, sendVars, stopVars>>

\* By itself, or because SIGTERM asked it to.
ChildExits(r) ==
  /\ child[r] = "alive"
  /\ \E end \in Ends : child' = [child EXCEPT ![r] = end]
  /\ UNCHANGED <<runVars, taskVars, buffer, written, read, clientVars, sendVars, stopVars>>

\* stop() sends SIGTERM, which the process may ignore, and waits for its exit.
StopRequest(k) ==
  /\ stop[k] = None
  /\ IsRunning
  /\ child[process] = "alive"
  /\ stop' = [stop EXCEPT ![k] = process]
  /\ UNCHANGED <<runVars, taskVars, buffer, childVars, read, clientVars, sendVars, kills>>

\* SIGKILL to the process of _process, if any; one that is gone already keeps its
\* returncode.
KillProcess(k) ==
  IF process = None THEN UNCHANGED <<child, kills>>
  ELSE /\ child' = [child EXCEPT ![process] = IF @ = "alive" THEN "failed" ELSE @]
       /\ kills' = kills \cup {<<stop[k], process>>}

\* Mutant: SIGKILL is sent even when the process went in time.
StopReturns_Kills(k) ==
  /\ stop[k] # None
  /\ child[stop[k]] \in Ends
  /\ stop' = [stop EXCEPT ![k] = None]
  /\ KillProcess(k)
  /\ UNCHANGED <<runVars, taskVars, buffer, written, read, clientVars, sendVars>>

StopReturns(k) ==
  /\ stop[k] # None
  /\ child[stop[k]] \in Ends
  /\ stop' = [stop EXCEPT ![k] = None]
  /\ UNCHANGED <<runVars, taskVars, buffer, childVars, read, clientVars, sendVars, kills>>

\* Mutant: the timeout is logged and nothing is killed.
StopTimeout_NoKill(k) ==
  /\ stop[k] # None
  /\ child[stop[k]] = "alive"
  /\ stop' = [stop EXCEPT ![k] = None]
  /\ UNCHANGED <<runVars, taskVars, buffer, childVars, read, clientVars, sendVars, kills>>

\* Five seconds later the process is still there.  What is killed is whatever
\* _process is by now; when that is None the call fails with an AttributeError.
StopTimeout(k) ==
  /\ stop[k] # None
  /\ child[stop[k]] = "alive"
  /\ stop' = [stop EXCEPT ![k] = None]
  /\ KillProcess(k)
  /\ UNCHANGED <<runVars, taskVars, buffer, written, read, clientVars, sendVars>>

-----------------------------------------------------------------------------
Task(r) ==
  \/ TakeLock(r)
  \/ Spawned(r)
  \/ ReadLine(r)
  \/ CloseExited(r)
  \/ CloseFaulted(r)
  \/ Release(r)

Next ==
  \/ Run
  \/ \E r \in Runs : Task(r) \/ Fault(r) \/ ChildWrites(r) \/ ChildExits(r)
  \/ \E c \in Clients : Connect(c) \/ Disconnect(c) \/ Send(c)
  \/ \E k \in Stoppers : StopRequest(k) \/ StopReturns(k) \/ StopTimeout(k)

Spec == Init /\ [][Next]_vars

\* The event loop resumes every coroutine that can go on, a send completes or
\* its connection is dropped, and the timeout of a stop() fires.  Nothing makes
\* a command end, and nothing makes a user run, stop or connect.
Fairness ==
  /\ \A r \in Runs : WF_vars(Task(r))
  /\ \A c \in Clients : WF_vars(Send(c))
  /\ \A k \in Stoppers : WF_vars(StopReturns(k)) /\ WF_vars(StopTimeout(k))

FairSpec == Spec /\ Fairness

-----------------------------------------------------------------------------
\* command_runner.py:4: only one command runs at a time, whatever was accepted.
OneChild == \A p, q \in Runs : child[p] = "alive" /\ child[q] = "alive" => p = q

Before(a, b) == a[1] < b[1] \/ (a[1] = b[1] /\ a[2] < b[2])

\* A connected tab is sent every buffered line, in order and once, whenever it
\* connected: the line it lacks is the one the broadcast is about to send it.
StreamFaithful ==
  \A c \in clients :
    /\ \A i, j \in 1 .. Len(received[c]) : i < j => Before(received[c][i], received[c][j])
    /\ \A i \in 1 .. Len(buffer) :
         \/ \E j \in 1 .. Len(received[c]) : received[c][j] = buffer[i]
         \/ c \in pending /\ line = buffer[i]

\* It holds as long as no reader has raised; what an exception leaves behind is
\* the subject of CommandRunnerOrphan.cfg.
OneChildUnlessFaulted == faults = {} => OneChild

\* stop() kills the process it was called on, although five seconds pass and
\* _process is looked up again, unless a reader raised in the meantime.
StopKillsItsTarget == faults = {} => \A k \in kills : k[1] = k[2]

\* The history holds the last commands that ended, in the order their tasks ran:
\* each with the status its own process ended with, or the error of its own
\* reader, and under its own name unless a later command was accepted before its
\* task took the lock.
HistoryComplete ==
  LET ended == Cardinality({r \in Runs : task[r] \in {"closing", "done"}})
  IN /\ Len(history) = IF ended < HistoryCap THEN ended ELSE HistoryCap
     /\ \A i \in 1 .. Len(history) :
          LET r == history[i].executed
          IN /\ r = ended - Len(history) + i
             /\ history[i].exit = IF r \in faults THEN "error" ELSE child[r]
             /\ history[i].command = r <=> r \notin overtaken

\* A stop() that found a process is followed by the end of that process, or the
\* exception of a reader.
StopEnds ==
  \A r \in Runs : (\E k \in Stoppers : stop[k] = r) ~> (child[r] \in Ends \/ faults # {})

\* A command whose process ended, or whose reader raised, is recorded and its
\* lock released, however many tabs come and go.
RunsFinish ==
  \A r \in Runs : (child[r] \in Ends \/ task[r] = "faulted") ~> (task[r] = "done")

\* command_runner.py:83: is_running tells whether a command is executing.
RunningReported == (\E r \in Runs : task[r] = "reading") => IsRunning

=============================================================================
