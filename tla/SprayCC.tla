------------------------------ MODULE SprayCC ------------------------------
(***************************************************************************)
(* The whole system: one server, its connections, the clients, the execs   *)
(* and the cluster that starts them; and what makes it correct.            *)
(***************************************************************************)
EXTENDS Server, Client, Exec

vars == <<pc, proc, conn, up, down, jobs, serverVars, clientVars, execVars>>

Init ==
    /\ FabricInit
    /\ ServerInit
    /\ ClientInit
    /\ ExecInit

Next ==
    \/ ServerNext /\ UNCHANGED <<clientVars, execVars>>
    \/ /\ \/ \E c \in Remotes : ConnEof(c) \/ ConnReturn(c) \/ ConnWriteError(c)
          \/ \E q \in Queues : LoseJob(q)
       /\ UNCHANGED <<serverVars, clientVars, execVars>>
    \/ (\E c \in Clients : ClientNext(c)) /\ UNCHANGED <<serverVars, execVars>>
    \/ (\E e \in Execs : ExecNext(e)) /\ UNCHANGED <<serverVars, clientVars>>

Spec == Init /\ [][Next]_vars

(* The server loop always comes back to its select!, which polls its arms  *)
(* in random order, and the inbound channel is a queue: each arm that is   *)
(* ready again and again is taken.  Time passes.  Relay tasks and remotes  *)
(* are scheduled, a compile ends, and the cluster starts the jobs it has.  *)
(* Nothing obliges a user to start a client, a relay's write to fail or a  *)
(* process to die.                                                         *)
Fairness ==
    /\ \A c \in Remotes :
          /\ SF_vars((Accept(c) \/ HandleMsg(c)) /\ UNCHANGED <<clientVars, execVars>>)
          /\ WF_vars((ConnEof(c) \/ ConnReturn(c)) /\ UNCHANGED <<serverVars, clientVars, execVars>>)
    /\ SF_vars(Watchdog /\ UNCHANGED <<clientVars, execVars>>)
    /\ SF_vars((ReleaseDelayExpires \/ IdleDelayExpires) /\ UNCHANGED <<clientVars, execVars>>)
    /\ WF_vars(CheckQueues /\ UNCHANGED <<clientVars, execVars>>)
    /\ \A c \in Clients : WF_vars(ClientStep(c) /\ UNCHANGED <<serverVars, execVars>>)
    /\ \A e \in Execs :
          WF_vars((ExecConnect(e) \/ ExecStep(e)) /\ UNCHANGED <<serverVars, clientVars>>)

FairSpec == Spec /\ Fairness

-----------------------------------------------------------------------------
(* Safety under every fault.                                               *)

TypeOK ==
    /\ FabricTypeOK
    /\ ServerTypeOK
    /\ ClientTypeOK
    /\ ExecTypeOK

(* Results are routed by pairing alone, which changes while messages are   *)
(* in flight (send_to_paired_remote): still, whatever is on its way to a   *)
(* client is about the task that client submitted.                         *)
OwnResultsOnly ==
    \A c \in Clients : \A i \in 1 .. Len(down[c]) :
        down[c][i].type \in Results /\ down[c][i].task = c

(* The relay's select! drops a half-read read_message whenever there is    *)
(* something to write, after the length prefix has been consumed; framing  *)
(* survives only because nothing is ever sent to a remote that may be      *)
(* writing: while anything is on its way down, nothing but the relay's own *)
(* Dropped is on its way up.                                               *)
HalfDuplex ==
    \A c \in Remotes : down[c] # <<>> =>
        \A i \in 1 .. Len(up[c]) : up[c][i].type = "Dropped"

(* Execs that hold the task of c: it is on its way to them, they run it,   *)
(* or their final answer about it is on its way to the server.             *)
Holders(c) ==
    {e \in Execs : \/ \E i \in 1 .. Len(down[e]) : down[e][i] = TaskMsg(c)
                   \/ proc[e] = "running" /\ running[e] = c
                   \/ \E i \in 1 .. Len(up[e]) : up[e][i].type \in Final /\ up[e][i].task = c}

(* check_queues hands a task to one exec only and never again: a task in   *)
(* the queue is held by no exec, and no task is held by two.               *)
AtMostOneRun ==
    \A c \in Clients :
        /\ c \in taskQueue => Holders(c) = {}
        /\ \A e, f \in Holders(c) : e = f

(* Why these three hold: the conversation with an exec has strict turns.   *)
(* Only an exec that waits in exec_queue is given a task, and an exec is   *)
(* put there when its introduction, or its last word about a task, has     *)
(* been read; a client is paired once and its task has been read by then.  *)
InQueue(e) == \E i \in 1 .. Len(execQueue) : execQueue[i] = e

(* Down to an exec goes one message at a time: its task, or PissOff.       *)
ExecDown(e) ==
    \/ down[e] = <<>>
    \/ pairedId[e] # None /\ proc[e] # "running" /\ down[e] = <<TaskMsg(pairedId[e])>>
    \/ pairedId[e] = None /\ ~InQueue(e) /\ down[e] = <<PissOff>>

(* Up from an exec comes YourObedientServant, before anything is sent to   *)
(* it, then the results of the task it is paired with, the final one last. *)
ExecUp(e) ==
    \A i \in 1 .. Len(up[e]) :
        \/ up[e][i].type = "Dropped"
        \/ up[e][i].type = "YourObedientServant" /\ i = 1
           /\ pairedId[e] = None /\ ~InQueue(e) /\ down[e] = <<>>
        \/ up[e][i].type = "TaskOutput" /\ up[e][i].task = pairedId[e] /\ down[e] = <<>>
        \/ up[e][i].type \in Final /\ up[e][i].task = pairedId[e] /\ down[e] = <<>>
           /\ proc[e] # "running"
           /\ \A j \in i + 1 .. Len(up[e]) : up[e][j].type = "Dropped"

ExecPaired(e) ==
    /\ proc[e] = "running" => running[e] = pairedId[e] /\ down[e] = <<>>
    /\ pairedId[e] # None => pairedId[pairedId[e]] = e /\ ~InQueue(e)
    /\ conn[e] \in {"none", "backlog"} =>
          pairedId[e] = None /\ ~InQueue(e) /\ down[e] = <<>>

ClientTurn(c) ==
    /\ conn[c] \in {"none", "backlog"} => pairedId[c] = None /\ c \notin taskQueue
    /\ c \in taskQueue => pairedId[c] = None
    /\ down[c] # <<>> => pairedId[c] # None
    /\ \A i \in 1 .. Len(up[c]) :
          \/ up[c][i].type = "Dropped"
          \/ up[c][i].type = "Task" /\ i = 1 /\ c \notin taskQueue /\ pairedId[c] = None
    /\ \A i \in 1 .. Len(down[c]) : down[c][i].type \in Results /\ down[c][i].task = c

Turns ==
    /\ \A x \in Remotes : proc[x] = "none" => conn[x] = "none"
    /\ \A i, j \in 1 .. Len(execQueue) : execQueue[i] = execQueue[j] => i = j
    /\ \A e \in Execs : ExecDown(e) /\ ExecUp(e) /\ ExecPaired(e)
    /\ \A c \in Clients : ClientTurn(c)

(* The panics about pairing, site by site, whatever dies and however the   *)
(* counts stand: check_queues never finds the task's client or the exec it *)
(* takes from exec_queue already paired (asserts), and the exec of a       *)
(* result that send_to_paired_remote forwards is paired (expect).          *)
PairingHolds ==
    [][/\ \A c \in Clients : Assign(c) => pc' # "panic"
       /\ \A e \in Execs : RecvOutput(e) \/ RecvDone(e) \/ RecvFailed(e) => pc' # "panic"]_vars

(* The client gets one final message and nothing after it, although the    *)
(* exec's own answer and handle_dropped's TaskFailed compete to be it.     *)
FinalIsLast ==
    \A c \in Clients :
        /\ \A i \in 1 .. Len(down[c]) : down[c][i].type \in Final => i = Len(down[c])
        /\ status[c] \in {"ok", "err", "failed", "signal"} => down[c] = <<>>

(* The client writes the chunks of its task in the order in which the exec *)
(* produced them, and has all of them when TaskDone arrives.               *)
OutputComplete ==
    \A c \in Clients :
        /\ \A i \in 1 .. Len(got[c]) : got[c][i] = i
        /\ status[c] \in {"ok", "err", "signal"} => Len(got[c]) = sent[c]

(* report_status subtracts: submit_count - finish_count - task_queue.len() *)
(* must not underflow, whatever dies or is answered in between.            *)
StatusNoUnderflow == finishCount + Cardinality(taskQueue) <= submitCount

(* max_count bounds the execs connected and asked for, across both queues  *)
(* and however many of them die, get lost or are turned away.              *)
LaunchBound == runningCount + pending[0] + pending[1] <= MaxCount

(* keep_pending bounds the jobs that have not phoned home, shared between  *)
(* the queues: of two, each may have half of them, rounded up, so one more *)
(* may be pending if it is odd, but no more, however jobs get lost and     *)
(* whichever queue the execs come from.                                    *)
PendingBound ==
    LET keep == Greatest(KeepPending, InitialCount)
    IN  \A q \in Queues :
            IF BothQueues THEN 2 * pending[q] <= keep + 1
            ELSE pending[q] <= IF q = 0 THEN keep ELSE 0

(* Jobs that have started and whose introduction has not been read.        *)
Servants(e, q) ==
    \E i \in 1 .. Len(up[e]) : up[e][i].type = "YourObedientServant" /\ up[e][i].arg = q
Introducing(q) == {e \in Execs : Servants(e, q)}

(* Every job that may still phone home, submitted to the cluster or on its *)
(* way from there, is counted as pending in its own queue, whichever of    *)
(* them come, get lost or are turned away: an exec that introduces itself  *)
(* never finds the count at zero, where remote_is_exec would let it in on  *)
(* top of max_count.                                                       *)
PendingCovers == \A q \in Queues : jobs[q] + Cardinality(Introducing(q)) <= pending[q]

(* No exec waits while a task waits: at the select! one queue is empty.    *)
WorkConserving == pc = "select" => taskQueue = {} \/ execQueue = <<>>

(* A client that saw exit code 0 has its target recorded for the next      *)
(* build's priorities, and shutdown() has written it out.                  *)
SuccessRecorded ==
    \A c \in Clients : status[c] = "ok" =>
        c \in IF pc = "shutdown" THEN historyFile ELSE inTheMaking

-----------------------------------------------------------------------------
(* Safety as long as no exec dies while it waits for work.                 *)

(* running_exec_count, which decides about shutdown and about starting     *)
(* execs, is the number of connections of type Exec.                       *)
RunningCountExact ==
    ServerUp => runningCount = Cardinality({e \in Execs : connType[e] = "Exec"})

(* If no job gets lost or is turned away either, no other job is counted:  *)
(* start_execs, which asks for no more than keep_pending, never waits for  *)
(* an exec that will not come.                                             *)
PendingExact == \A q \in Queues : pending[q] = jobs[q] + Cardinality(Introducing(q))

(* ok_to_shutdown looks only at the queue and the count: when it lets the  *)
(* server go, every client whose task it took has its answer on the way.   *)
ShutdownStrandsNoTask ==
    \A c \in Clients : pc = "shutdown" /\ connType[c] = "Client" =>
        \/ status[c] # "none"
        \/ \E i \in 1 .. Len(down[c]) : down[c][i].type \in Final

(* Every entry of exec_queue is a connected exec without a task, queued    *)
(* once ("Queue of exec IDs waiting for tasks").                           *)
ExecQueueWaits ==
    ServerUp =>
        \A i \in 1 .. Len(execQueue) :
            /\ connType[execQueue[i]] = "Exec" /\ pairedId[execQueue[i]] = None
            /\ \A j \in 1 .. Len(execQueue) : execQueue[i] = execQueue[j] => i = j

(* The server process ends by the idle timer and in no other way ("The     *)
(* server process will terminate after being idle for a period of time").  *)
EndsOnlyWhenIdle == pc \notin {"failed", "panic"}

-----------------------------------------------------------------------------
(* Liveness.                                                               *)

(* A client whose task the server took gets an answer, also if the exec    *)
(* that runs it dies; unless the task still waits when the bound on the    *)
(* processes the cluster may start leaves it no exec.                      *)
ExecsUsedUp == \A e \in Execs : proc[e] = "gone"
TaskAnswered ==
    \A c \in Clients :
        connType[c] = "Client" ~>
            \/ status[c] \in {"ok", "err", "failed", "killed"}
            \/ c \in taskQueue /\ ExecsUsedUp

(* When no more clients come, every exec is released and the server stops, *)
(* with the same exception.                                                *)
EverythingStops ==
    <>[](\/ pc = "shutdown" /\ \A c \in Remotes : proc[c] \in {"none", "gone"}
         \/ taskQueue # {} /\ ExecsUsedUp)

(* If the exec that holds a client's task dies, the client hears of it     *)
(* ("Notify the client that something bad has happened").                  *)
ExecLossNotified ==
    \A c \in Clients, e \in Execs :
        (proc[e] = "gone" /\ pairedId[e] = c /\ status[c] = "none") ~> status[c] # "none"
=============================================================================
