-------------------------------- MODULE Exec --------------------------------
(***************************************************************************)
(* The executor ('spraycc exec', exec.rs): phones home, then runs one task *)
(* after the other and returns the results, until told to leave.           *)
(***************************************************************************)
EXTENDS Fabric

CONSTANT MaxOutputs     \* output chunks per task (a bound)

ASSUME ExecAssumption == MaxOutputs \in Nat

VARIABLES
    running,    \* the task each exec runs, None when it runs none
    sent        \* per task, the output chunks written to the socket so far

execVars == <<running, sent>>

(* A job of queue q starts: connect and introduce itself.                  *)
ExecConnect(e) ==
    \E q \in Queues :
        /\ jobs[q] > 0
        /\ jobs' = [jobs EXCEPT ![q] = @ - 1]
        /\ Connect(e, "idle", YourObedientServant(q))
        /\ UNCHANGED <<pc, down, execVars>>

(* run is at read_message, and the next message has this type.             *)
ExecRead(e, type) ==
    /\ proc[e] = "idle"
    /\ down[e] # <<>>
    /\ Head(down[e]).type = type
    /\ down' = [down EXCEPT ![e] = Tail(@)]
    /\ UNCHANGED <<pc, conn, jobs>>

(* handle_new_task: Task::start succeeds ...                               *)
StartTask(e) ==
    /\ ExecRead(e, "Task")
    /\ proc' = [proc EXCEPT ![e] = "running"]
    /\ running' = [running EXCEPT ![e] = Head(down[e]).task]
    /\ UNCHANGED <<up, sent>>

(* ... or reports a missing directory, command or temporary directory.     *)
StartFails(e) ==
    /\ ExecRead(e, "Task")
    /\ up' = [up EXCEPT ![e] = Append(@, TaskFailed(Head(down[e]).task))]
    /\ UNCHANGED <<proc, execVars>>

(* run_task: a line of stdout or stderr, or a block of an output file.     *)
SendOutput(e) ==
    /\ ServerUp
    /\ proc[e] = "running"
    /\ LET c == running[e] IN
          /\ sent[c] < MaxOutputs
          /\ sent' = [sent EXCEPT ![c] = @ + 1]
          /\ up' = [up EXCEPT ![e] = Append(@, TaskOutput(c, sent[c] + 1))]
    /\ UNCHANGED <<pc, proc, conn, down, jobs, running>>

(* run_task returns.                                                       *)
GoesOn(e) == UNCHANGED <<proc, running>>                            \* mutant
TaskEnds(e) ==
    /\ proc' = [proc EXCEPT ![e] = "idle"]
    /\ running' = [running EXCEPT ![e] = None]

(* run_task: both pipes are closed, the child is reaped, files are sent.   *)
SendDone(e) ==
    /\ ServerUp
    /\ proc[e] = "running"
    /\ \E code \in ExitCodes :
          up' = [up EXCEPT ![e] = Append(@, TaskDone(running[e], code))]
    /\ TaskEnds(e)
    /\ UNCHANGED <<pc, conn, down, jobs, sent>>

ExecLeaves(e) ==
    /\ proc' = [proc EXCEPT ![e] = "gone"]
    /\ running' = [running EXCEPT ![e] = None]
    /\ UNCHANGED sent

(* Told to leave.                                                          *)
ExecPissOff(e) ==
    /\ ExecRead(e, "PissOff")
    /\ ExecLeaves(e)
    /\ UNCHANGED up

(* The server is gone: the read returns None, or a write fails.            *)
ExecEof(e) ==
    /\ ~ServerUp
    /\ proc[e] \in {"idle", "running"}
    /\ ExecLeaves(e)
    /\ UNCHANGED <<pc, conn, up, down, jobs>>

(* Killed, or a panic (start_task when the spawn fails).                   *)
KillExec(e) ==
    /\ \/ proc[e] = "running" /\ "KillBusyExec" \in Faults
       \/ proc[e] = "idle" /\ "KillIdleExec" \in Faults
    /\ ExecLeaves(e)
    /\ LoseTail(e)
    /\ UNCHANGED <<pc, conn, down, jobs>>

ExecInit ==
    /\ running = [e \in Execs |-> None]
    /\ sent = [c \in Clients |-> 0]

ExecTypeOK ==
    /\ running \in [Execs -> Clients \cup {None}]
    /\ \A e \in Execs : proc[e] = "running" => running[e] \in Clients
    /\ sent \in [Clients -> 0 .. MaxOutputs]

(* Reading, and finishing a task: what an exec does by itself.             *)
ExecStep(e) ==
    \/ StartTask(e)
    \/ StartFails(e)
    \/ SendDone(e)
    \/ ExecPissOff(e)
    \/ ExecEof(e)
ExecNext(e) == ExecConnect(e) \/ ExecStep(e) \/ SendOutput(e) \/ KillExec(e)
=============================================================================
