------------------------------- MODULE Server -------------------------------
(***************************************************************************)
(* The server loop (server.rs): ServerState, the arms of the select!, and  *)
(* the handlers they call.                                                 *)
(*                                                                         *)
(* The loop is one task, so handlers never overlap.  A handler that ends   *)
(* in update() continues with the loops of check_queues, one step per      *)
(* awaited send: pc is "check" in the loop that assigns tasks, "release"   *)
(* in the loop that releases idle execs, and "select" at the select!.      *)
(* Channels are not bounded here.                                          *)
(***************************************************************************)
EXTENDS Fabric, FiniteSets

CONSTANTS
    InitialCount,   \* initial_count, max_count and keep_pending of the config
    MaxCount,
    KeepPending,
    BothQueues,     \* --both with an alt_start_cmd: second_start_cmd is Some
    PriorHistory,   \* elapsed seconds recorded for some of the clients' targets
    PriorityTasks   \* clients whose task has priority_task set

ASSUME ServerAssumption ==
    /\ IsFiniteSet(Clients)
    /\ InitialCount \in Nat /\ MaxCount \in Nat /\ KeepPending \in Nat
    /\ BothQueues \in BOOLEAN
    /\ DOMAIN PriorHistory \subseteq Clients
    /\ \A c \in DOMAIN PriorHistory : PriorHistory[c] \in Nat
    /\ PriorityTasks \subseteq Clients

VARIABLES
    connType,       \* Remote.conn_type ("none" before the connection is accepted)
    pairedId,       \* Remote.paired_id
    taskQueue,      \* clients whose task waits for an exec
    execQueue,      \* execs waiting for a task, in order
    submitCount, finishCount,
    pending,        \* pending_exec_count and second_pending_exec_count
    runningCount,   \* running_exec_count
    lastSubmit,     \* last_submit_time: "none", or within / beyond release_delay
    idle,           \* last_activity_time is beyond idle_shutdown_after
    inTheMaking,    \* targets with a newly recorded elapsed time
    historyFile     \* targets written to the history file

serverVars == <<connType, pairedId, taskQueue, execQueue, submitCount,
                finishCount, pending, runningCount, lastSubmit, idle,
                inTheMaking, historyFile>>

-----------------------------------------------------------------------------
(* start_execs.                                                            *)

Greatest(a, b) == IF a >= b THEN a ELSE b

StartLoopOwn(tasks, run, o, keep) ==        \* mutant: the other queue is ignored
    LET stop[p \in Nat] ==
            IF run + p < tasks /\ run + p < MaxCount /\ p < keep
            THEN stop[p + 1] ELSE p
    IN  stop
(* start_execs_in_queue: the pending count with which its loop stops, by   *)
(* the one with which it starts, when o jobs are pending in the other      *)
(* queue.  Each iteration spawns one start command.  A spawn that fails is *)
(* retried at once, without end if it goes on failing (only the successful *)
(* ones count here).                                                       *)
StartLoop(tasks, run, o, keep) ==
    LET stop[p \in Nat] ==
            IF run + p + o < tasks /\ run + p + o < MaxCount /\ p < keep
            THEN stop[p + 1] ELSE p
    IN  stop

ShareWhole(keep) == IF BothQueues THEN keep + 1 ELSE keep          \* mutant
(* How many jobs may be pending in each queue: half of them, rounded up.   *)
Share(keep) == IF BothQueues THEN (keep + 1) \div 2 ELSE keep

(* start_execs: the pending counts it leaves.                              *)
StartExecs(tasks, run, pend) ==
    LET initNeeded == Greatest(InitialCount, run) - run
        keep == Greatest(KeepPending, initNeeded)
        share == Share(keep)
        first == StartLoop(tasks, run, pend[1], share)[pend[0]]
        second == IF BothQueues
                  THEN StartLoop(tasks, run, first, share)[pend[1]]
                  ELSE pend[1]
    IN  IF tasks = 0 THEN pend
        ELSE [q \in Queues |-> IF q = 0 THEN first ELSE second]

UpdateUnchecked(tasks, run, pend) ==        \* mutant: check_queues is not called
    LET started == StartExecs(tasks, run, pend) IN
    /\ pending' = started
    /\ jobs' = [q \in Queues |-> jobs[q] + (started[q] - pend[q])]
    /\ pc' = "select"
(* update: start execs, then enter check_queues.                           *)
Update(tasks, run, pend) ==
    LET started == StartExecs(tasks, run, pend) IN
    /\ pending' = started
    /\ jobs' = [q \in Queues |-> jobs[q] + (started[q] - pend[q])]
    /\ pc' = "check"

OkToShutdownBusy == taskQueue = {} /\ idle    \* mutant: execs are not counted
OkToShutdown == taskQueue = {} /\ runningCount = 0 /\ idle

(* shutdown: write the history.                                            *)
ShutdownUnsaved == inTheMaking' = {} /\ UNCHANGED historyFile      \* mutant
Shutdown ==
    /\ historyFile' = historyFile \cup inTheMaking
    /\ inTheMaking' = {}

(* The end of a select! arm.                                               *)
EndArm ==
    IF OkToShutdown
    THEN pc' = "shutdown" /\ Shutdown
    ELSE pc' = "select" /\ UNCHANGED <<historyFile, inTheMaking>>

-----------------------------------------------------------------------------
(* listener.accept(): add_remote.  Not activity for the idle timer.        *)
Accept(c) ==
    /\ pc = "select"
    /\ conn[c] = "backlog"
    /\ conn' = [conn EXCEPT ![c] = "open"]
    /\ connType' = [connType EXCEPT ![c] = "Pending"]
    /\ pairedId' = [pairedId EXCEPT ![c] = None]
    /\ EndArm
    /\ UNCHANGED <<proc, up, down, jobs, taskQueue, execQueue, submitCount,
                   finishCount, pending, runningCount, lastSubmit, idle>>

(* The watchdog: update, report_status.                                    *)
Watchdog ==
    /\ pc = "select"
    /\ Update(Cardinality(taskQueue), runningCount, pending)
    /\ UNCHANGED <<proc, conn, up, down, connType, pairedId, taskQueue,
                   execQueue, submitCount, finishCount, runningCount,
                   lastSubmit, idle, inTheMaking, historyFile>>

(* inbound_rx.recv(): handle_msg, then activity_occurred.                  *)
Receive(c, type) ==
    /\ pc = "select"
    /\ conn[c] \in {"open", "eof", "done"}
    /\ up[c] # <<>>
    /\ Head(up[c]).type = type
    /\ up' = [up EXCEPT ![c] = Tail(@)]
    /\ idle' = FALSE
    /\ UNCHANGED <<proc, conn, historyFile>>

(* exec_is_ready.                                                          *)
StayPaired(e) == UNCHANGED pairedId                                 \* mutant
Unpair(e) == pairedId' = [pairedId EXCEPT ![e] = None]

ExecIsReady(e, run, pend) ==
    /\ execQueue' = Append(execQueue, e)
    /\ Unpair(e)
    /\ Update(Cardinality(taskQueue), run, pend)

(* send_to_paired_remote: to a client not marked dead; an error marks it.  *)
SendToPaired(e, msg) ==
    LET other == pairedId[e]
        live == connType[other] = "Client"
    IN  /\ down' = IF live /\ ~RxGone(other)
                   THEN [down EXCEPT ![other] = Append(@, msg)] ELSE down
        /\ connType' = IF live /\ RxGone(other)
                       THEN [connType EXCEPT ![other] = "Dead"] ELSE connType

NobodyArrived(pend, q) == pend                                      \* mutant
FirstQueue(pend, q) == [pend EXCEPT ![0] = IF @ > 0 THEN @ - 1 ELSE @]   \* mutant
(* remote_is_exec: one job less is pending in the queue of an exec that    *)
(* has introduced itself.                                                  *)
PhonedHome(pend, q) == [pend EXCEPT ![q] = IF @ > 0 THEN @ - 1 ELSE @]

(* remote_is_exec.                                                         *)
RecvServant(e) ==
    /\ Receive(e, "YourObedientServant")
    /\ ExecIsReady(e, runningCount + 1, PhonedHome(pending, Head(up[e]).arg))
    /\ connType' = [connType EXCEPT ![e] = "Exec"]
    /\ runningCount' = runningCount + 1
    /\ UNCHANGED <<down, taskQueue, submitCount, finishCount, lastSubmit, inTheMaking>>

(* remote_is_client.                                                       *)
RecvTask(c) ==
    /\ Receive(c, "Task")
    /\ submitCount' = submitCount + 1
    /\ connType' = [connType EXCEPT ![c] = "Client"]
    /\ taskQueue' = taskQueue \cup {c}
    /\ lastSubmit' = "recent"
    /\ Update(Cardinality(taskQueue \cup {c}), runningCount, pending)
    /\ UNCHANGED <<down, pairedId, execQueue, finishCount, runningCount, inTheMaking>>

RecvOutput(e) ==
    /\ Receive(e, "TaskOutput")
    /\ IF pairedId[e] = None                    \* expect(..already be paired)
       THEN pc' = "panic" /\ UNCHANGED <<down, connType>>
       ELSE SendToPaired(e, Head(up[e])) /\ UNCHANGED pc
    /\ UNCHANGED <<jobs, pairedId, taskQueue, execQueue, submitCount, finishCount,
                   pending, runningCount, lastSubmit, inTheMaking>>

(* TaskDone and TaskFailed: forward, count, and take the exec back.        *)
RecvFinal(e, type) ==
    /\ Receive(e, type)
    /\ IF pairedId[e] = None
       THEN /\ pc' = "panic"
            /\ UNCHANGED <<down, jobs, connType, pairedId, execQueue, finishCount, pending>>
       ELSE /\ SendToPaired(e, Head(up[e]))
            /\ finishCount' = finishCount + 1
            /\ ExecIsReady(e, runningCount, pending)
    /\ UNCHANGED <<taskQueue, submitCount, runningCount, lastSubmit>>

(* record_elapsed, for exit code 0 only, before the result is forwarded.   *)
RecvDone(e) ==
    /\ RecvFinal(e, "TaskDone")
    /\ inTheMaking' = IF Head(up[e]).arg = 0
                      THEN inTheMaking \cup {Head(up[e]).task} ELSE inTheMaking

RecvFailed(e) ==
    /\ RecvFinal(e, "TaskFailed")
    /\ UNCHANGED inTheMaking

(* handle_dropped.  The client paired with an exec is told, dead or not;   *)
(* if its channel is gone the error ends the server.  An exec that was     *)
(* waiting in exec_queue stays there.                                      *)
Unnotified(c) == FALSE                                              \* mutant
Orphans(c) == connType[c] = "Exec" /\ pairedId[c] # None

LosesIdle(c) == connType[c] = "Exec" /\ pairedId[c] = None          \* mutant
LosesExec(c) == connType[c] = "Exec"

RecvDropped(c) ==
    /\ Receive(c, "Dropped")
    /\ LET client == pairedId[c]
           fails == Orphans(c) /\ RxGone(client)
           underflow == LosesExec(c) /\ runningCount = 0
       IN  /\ down' = IF Orphans(c) /\ ~fails
                      THEN [down EXCEPT ![client] = Append(@, TaskFailed(client))]
                      ELSE down
           /\ pc' = IF fails THEN "failed" ELSE IF underflow THEN "panic" ELSE pc
           /\ runningCount' = IF LosesExec(c) /\ ~fails /\ ~underflow
                              THEN runningCount - 1 ELSE runningCount
           /\ connType' = IF fails \/ underflow
                          THEN connType ELSE [connType EXCEPT ![c] = "Dead"]
    /\ UNCHANGED <<jobs, pairedId, taskQueue, execQueue, submitCount, finishCount,
                   pending, lastSubmit, inTheMaking>>

-----------------------------------------------------------------------------
(* check_queues.                                                           *)

(* The queue priority remote_is_client gives a task, in seconds.           *)
Prior(c) == (IF c \in DOMAIN PriorHistory THEN PriorHistory[c] ELSE 1)
            + (IF c \in PriorityTasks THEN 300 ELSE 0)

PeekTask(c) == UNCHANGED taskQueue                                  \* mutant
PopTask(c) == taskQueue' = taskQueue \ {c}

PeekExec == UNCHANGED execQueue                                     \* mutant
PopExec == execQueue' = Tail(execQueue)

(* One iteration of the first loop: a task of highest priority (the crate  *)
(* leaves the order of equal ones open) goes to the first waiting exec.    *)
Assign(c) ==
    /\ pc = "check"
    /\ execQueue # <<>>
    /\ c \in taskQueue
    /\ \A d \in taskQueue : Prior(c) >= Prior(d)
    /\ PopTask(c)
    /\ PopExec
    /\ LET e == Head(execQueue) IN
          IF c = e \/ pairedId[c] # None \/ pairedId[e] # None   \* asserts
          THEN pc' = "panic" /\ UNCHANGED <<pairedId, down>>
          ELSE /\ pairedId' = [pairedId EXCEPT ![c] = e, ![e] = c]
               /\ IF RxGone(e)
                  THEN pc' = "failed" /\ UNCHANGED down
                  ELSE /\ down' = [down EXCEPT ![e] = Append(@, TaskMsg(c))]
                       /\ UNCHANGED pc
    /\ UNCHANGED <<proc, conn, up, jobs, connType, submitCount, finishCount, pending,
                   runningCount, lastSubmit, idle, inTheMaking, historyFile>>

(* The first loop is over: evaluate ok_to_release.                         *)
CheckDone ==
    /\ pc = "check"
    /\ taskQueue = {} \/ execQueue = <<>>
    /\ IF lastSubmit = "old"
       THEN pc' = "release" /\ UNCHANGED <<inTheMaking, historyFile>>
       ELSE EndArm
    /\ UNCHANGED <<proc, conn, up, down, jobs, connType, pairedId, taskQueue, execQueue,
                   submitCount, finishCount, pending, runningCount, lastSubmit, idle>>

(* The decrement of the second loop; an underflow panics in the build the  *)
(* repository's workflow makes.                                            *)
NoDecrement == UNCHANGED <<pc, runningCount>>                       \* mutant
Unchecked == runningCount' = runningCount - 1 /\ UNCHANGED pc       \* mutant
DecrementRunning ==
    IF runningCount = 0
    THEN pc' = "panic" /\ UNCHANGED runningCount
    ELSE runningCount' = runningCount - 1 /\ UNCHANGED pc

(* One iteration of the second loop.                                       *)
Release ==
    /\ pc = "release"
    /\ execQueue # <<>>
    /\ PopExec
    /\ LET e == Head(execQueue) IN
          /\ connType' = [connType EXCEPT ![e] = "Dead"]
          /\ IF RxGone(e)
             THEN pc' = "failed" /\ UNCHANGED <<down, runningCount>>
             ELSE /\ down' = [down EXCEPT ![e] = Append(@, PissOff)]
                  /\ DecrementRunning
    /\ UNCHANGED <<proc, conn, up, jobs, pairedId, taskQueue, submitCount, finishCount,
                   pending, lastSubmit, idle, inTheMaking, historyFile>>

ReleaseDone ==
    /\ pc = "release"
    /\ execQueue = <<>>
    /\ EndArm
    /\ UNCHANGED <<proc, conn, up, down, jobs, connType, pairedId, taskQueue, execQueue,
                   submitCount, finishCount, pending, runningCount, lastSubmit, idle>>

-----------------------------------------------------------------------------
(* Time.  The two timers are compared with the clock at the end of an arm, *)
(* so it is enough to let them expire between arms.                        *)
ReleaseDelayExpires ==
    /\ pc = "select"
    /\ lastSubmit = "recent"
    /\ lastSubmit' = "old"
    /\ UNCHANGED <<pc, proc, conn, up, down, jobs, connType, pairedId, taskQueue,
                   execQueue, submitCount, finishCount, pending, runningCount, idle,
                   inTheMaking, historyFile>>

IdleDelayExpires ==
    /\ pc = "select"
    /\ ~idle
    /\ idle' = TRUE
    /\ UNCHANGED <<pc, proc, conn, up, down, jobs, connType, pairedId, taskQueue,
                   execQueue, submitCount, finishCount, pending, runningCount, lastSubmit,
                   inTheMaking, historyFile>>

-----------------------------------------------------------------------------
ServerInit ==
    /\ connType = [c \in Remotes |-> "none"]
    /\ pairedId = [c \in Remotes |-> None]
    /\ taskQueue = {}
    /\ execQueue = <<>>
    /\ submitCount = 0 /\ finishCount = 0
    /\ pending = [q \in Queues |-> 0]
    /\ runningCount = 0
    /\ lastSubmit = "none"
    /\ idle = FALSE
    /\ inTheMaking = {} /\ historyFile = {}

ServerTypeOK ==
    /\ connType \in [Remotes -> {"none", "Pending", "Client", "Exec", "Dead"}]
    /\ \A c \in Clients : connType[c] # "Exec"
    /\ pairedId \in [Remotes -> Remotes \cup {None}]
    /\ \A e \in Execs : pairedId[e] \in Clients \cup {None}
    /\ taskQueue \subseteq Clients
    /\ execQueue \in Seq(Execs)
    /\ submitCount \in Nat /\ finishCount \in Nat
    /\ pending \in [Queues -> Nat]
    /\ runningCount \in Nat
    /\ lastSubmit \in {"none", "recent", "old"}
    /\ idle \in BOOLEAN
    /\ inTheMaking \subseteq Clients /\ historyFile \subseteq Clients

(* handle_msg for the next message of connection c.                        *)
HandleMsg(c) ==
    \/ c \in Clients /\ RecvTask(c)
    \/ /\ c \in Execs
       /\ \/ RecvServant(c)
          \/ RecvOutput(c)
          \/ RecvDone(c)
          \/ RecvFailed(c)
    \/ RecvDropped(c)

CheckQueues ==
    \/ \E c \in Clients : Assign(c)
    \/ CheckDone
    \/ Release
    \/ ReleaseDone

ServerNext ==
    \/ \E c \in Remotes : Accept(c) \/ HandleMsg(c)
    \/ Watchdog
    \/ CheckQueues
    \/ ReleaseDelayExpires
    \/ IdleDelayExpires
=============================================================================
