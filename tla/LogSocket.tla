----------------------------- MODULE LogSocket -----------------------------
(***************************************************************************)
(* The web sockets of base-admin that show the log file and the state of   *)
(* the system (LoggingWSServer, MonitorWSServer).  Each connection has an  *)
(* endless task in the executor of config/async/AsyncConfig.java.  The     *)
(* refill task of the rate limiter is a loop of the same form in the same  *)
(* executor: a monitor socket stands for it too.                           *)
(***************************************************************************)
EXTENDS Integers, Sequences, FiniteSets

CONSTANTS
    Loggers, Monitors,  \* the connections there will be
    CORE_POOL_SIZE,     \* threads, 20 in the code
    MaxSent,            \* lines of a first message, 200 in the code
    MaxLines, MaxDays   \* bounds of the model

Sockets == Loggers \union Monitors

ASSUME SocketAssumption ==
    /\ Loggers \intersect Monitors = {} /\ IsFiniteSet(Sockets)
    /\ {CORE_POOL_SIZE, MaxSent, MaxLines, MaxDays} \subseteq Nat \ {0}

VARIABLES
    sessionMap,     \* the open connections
    pool,           \* the tasks that wait for a thread, and where each task is
    reader,         \* of each log task: offset (lengthMap, or 0), first, and the lines to send
    file,           \* the log file of today: its day and its lines, 0 before the first one
    shown           \* the lines each page was sent, in that order

socketVars == <<sessionMap, pool, reader, file, shown>>

Running == {s \in Sockets : pool.task[s] \in {"test", "work", "send", "sleep"}}

Line(day, n) == [day |-> day, n |-> n]

SocketInit ==
    /\ sessionMap = {}
    /\ pool = [queue |-> <<>>, task |-> [s \in Sockets |-> "none"]]
    /\ reader = [s \in Loggers |-> [offset |-> 0, first |-> TRUE, lines |-> <<>>]]
    /\ file = [day |-> 1, length |-> 0]
    /\ shown = [s \in Loggers |-> <<>>]

-----------------------------------------------------------------------------
(* The log file.                                                           *)

(* The application writes a line; the first one of a day makes the file.   *)
WriteLine ==
    /\ file.length < MaxLines
    /\ file' = [file EXCEPT !.length = @ + 1]
    /\ UNCHANGED <<sessionMap, pool, reader, shown>>

Midnight ==
    /\ file.day < MaxDays
    /\ file' = [day |-> file.day + 1, length |-> 0]
    /\ UNCHANGED <<sessionMap, pool, reader, shown>>

(* log.error                                                               *)
Logged == [file EXCEPT !.length = IF @ = MaxLines THEN @ ELSE @ + 1]

-----------------------------------------------------------------------------
(* Connections.                                                            *)

onOpen(s) ==
    /\ pool.task[s] = "none"
    /\ sessionMap' = sessionMap \union {s}
    /\ pool' = [queue |-> Append(pool.queue, s), task |-> [pool.task EXCEPT ![s] = "queued"]]
    /\ reader' = IF s \in Loggers THEN [reader EXCEPT ![s].offset = 1] ELSE reader
    /\ UNCHANGED <<file, shown>>

(* The task reads one of the two maps at a time, so that their removals    *)
(* are one step.                                                           *)
onClose(s) ==
    /\ s \in sessionMap
    /\ sessionMap' = sessionMap \ {s}
    /\ reader' = IF s \in Loggers THEN [reader EXCEPT ![s].offset = 0] ELSE reader
    /\ UNCHANGED <<pool, file, shown>>

(* The queue has no limit, and the pool no more than its core threads.     *)
TakeThread ==
    /\ pool.queue # <<>> /\ Cardinality(Running) < CORE_POOL_SIZE
    /\ pool' = [queue |-> Tail(pool.queue), task |-> [pool.task EXCEPT ![Head(pool.queue)] = "test"]]
    /\ UNCHANGED <<sessionMap, reader, file, shown>>

-----------------------------------------------------------------------------
(* The tasks.                                                              *)

Goto(s, pc) == pool' = [pool EXCEPT !.task[s] = pc]

(* Mutant: the task does not look whether its connection is open.          *)
TestOpenNot(s) ==
    /\ pool.task[s] = "test"
    /\ Goto(s, "work")
    /\ UNCHANGED <<sessionMap, reader, file, shown>>

TestOpen(s) ==
    /\ pool.task[s] = "test"
    /\ Goto(s, IF s \in sessionMap THEN "work" ELSE "done")
    /\ UNCHANGED <<sessionMap, reader, file, shown>>

(* Mutant: what cannot be read is passed over in silence.                  *)
ReadFailsSilently(s) ==
    /\ s \in Loggers /\ pool.task[s] = "work"
    /\ file.length = 0 \/ reader[s].offset = 0 \/ reader[s].offset > file.length
    /\ Goto(s, "test")
    /\ UNCHANGED <<sessionMap, reader, file, shown>>

(* No file yet today, no offset after onClose, or one beyond the end of    *)
(* today's file: the exception is logged and the next turn begins at once. *)
ReadFails(s) ==
    /\ s \in Loggers /\ pool.task[s] = "work"
    /\ file.length = 0 \/ reader[s].offset = 0 \/ reader[s].offset > file.length
    /\ file' = Logged
    /\ Goto(s, "test")
    /\ UNCHANGED <<sessionMap, reader, shown>>

(* Mutant: every long message is cut.                                      *)
ReadLogCutAlways(s) ==
    /\ s \in Loggers /\ pool.task[s] = "work"
    /\ reader[s].offset \in 1..file.length
    /\ LET count == file.length - reader[s].offset
           sent == IF count > MaxSent THEN MaxSent ELSE count
       IN  reader' = [reader EXCEPT ![s].offset = file.length,
                          ![s].lines = [k \in 1..sent |-> Line(file.day, file.length - sent + k)]]
    /\ Goto(s, "send")
    /\ UNCHANGED <<sessionMap, file, shown>>

(* The lines from the offset on; the first time there are too many of      *)
(* them, only the last.                                                    *)
ReadLog(s) ==
    /\ s \in Loggers /\ pool.task[s] = "work"
    /\ reader[s].offset \in 1..file.length
    /\ LET count == file.length - reader[s].offset
           cut == reader[s].first /\ count > MaxSent
           sent == IF cut THEN MaxSent ELSE count
       IN  reader' = [reader EXCEPT ![s] =
               [offset |-> file.length, first |-> reader[s].first /\ ~cut,
                lines |-> [k \in 1..sent |-> Line(file.day, file.length - sent + k)]]]
    /\ Goto(s, "send")
    /\ UNCHANGED <<sessionMap, file, shown>>

(* Sending to a connection that is closed fails, which is logged.          *)
Send(s) ==
    /\ s \in Loggers /\ pool.task[s] = "send"
    /\ shown' = IF s \in sessionMap THEN [shown EXCEPT ![s] = @ \o reader[s].lines] ELSE shown
    /\ file' = IF s \in sessionMap THEN file ELSE Logged
    /\ reader' = [reader EXCEPT ![s].lines = <<>>]
    /\ Goto(s, "sleep")
    /\ UNCHANGED sessionMap

SendMonitor(s) ==
    /\ s \in Monitors /\ pool.task[s] = "work"
    /\ Goto(s, "sleep")
    /\ UNCHANGED <<sessionMap, reader, file, shown>>

WakeSocket(s) ==
    /\ pool.task[s] = "sleep"
    /\ Goto(s, "test")
    /\ UNCHANGED <<sessionMap, reader, file, shown>>

SocketTask(s) == TestOpen(s) \/ ReadFails(s) \/ ReadLog(s) \/ Send(s) \/ SendMonitor(s) \/ WakeSocket(s)

SocketNext ==
    \/ WriteLine \/ Midnight \/ TakeThread
    \/ \E s \in Sockets : onOpen(s) \/ onClose(s) \/ SocketTask(s)

(* Threads run and sleeping ones wake.  Nobody has to open or close a      *)
(* page, and nobody has to write to the log.                               *)
SocketFairness ==
    /\ WF_socketVars(TakeThread)
    /\ \A s \in Sockets : WF_socketVars(SocketTask(s))

SocketSpec == SocketInit /\ [][SocketNext]_socketVars /\ SocketFairness

-----------------------------------------------------------------------------
(* A page gets its lines in their order and none twice, also over          *)
(* midnight; once in its life a message may leave some out in the middle.  *)
InOrderWithOneGap ==
    \A s \in Loggers :
        LET Follow == {k \in 1..(Len(shown[s]) - 1) : shown[s][k].day = shown[s][k + 1].day}
        IN  /\ \A k \in 1..(Len(shown[s]) - 1) : k \notin Follow => shown[s][k].day < shown[s][k + 1].day
            /\ \A k \in Follow : shown[s][k].n < shown[s][k + 1].n
            /\ Cardinality({k \in Follow : shown[s][k].n + 1 # shown[s][k + 1].n}) <= 1

(* The endless tasks leave no thread to others, but as long as no more     *)
(* connections are open than there are threads, every task gets one, and   *)
(* the task of a closed connection ends.                                   *)
TasksStartAndEnd ==
    [](Cardinality(sessionMap) <= CORE_POOL_SIZE) =>
        \A s \in Sockets :
            /\ (pool.task[s] = "queued") ~> (pool.task[s] # "queued")
            /\ (pool.task[s] # "none" /\ s \notin sessionMap) ~> (pool.task[s] = "done")

(* In the same case an open page reads to the end of the file.  After      *)
(* midnight its offset is beyond the end of the new file, and it gets      *)
(* there only because each turn that fails writes to that file.            *)
PageFollows ==
    [](Cardinality(sessionMap) <= CORE_POOL_SIZE) =>
        \A s \in Loggers :
            (s \in sessionMap) ~>
                (s \notin sessionMap \/ (pool.task[s] = "send" /\ reader[s].offset = file.length))
=============================================================================
