------------------------------- MODULE Fabric -------------------------------
(***************************************************************************)
(* What the processes of SprayCC share: the messages of ipc.rs, one        *)
(* connection per remote process, and the cluster manager that runs the    *)
(* jobs the server submits.                                                *)
(*                                                                         *)
(* A remote (a client or an exec) opens exactly one connection, so the     *)
(* process itself serves as the connection id.  up[c] holds what the       *)
(* remote wrote and the server loop has not yet handled (socket plus       *)
(* inbound channel), down[c] what the loop sent and the remote has not yet *)
(* read (outbound channel plus socket).  Joining the two buffers of a      *)
(* direction loses no behaviour: the relay between them takes its steps    *)
(* at any time, and both are FIFO per connection.                          *)
(***************************************************************************)
EXTENDS Integers, Sequences

CONSTANTS
    Clients,    \* 'spraycc run' processes; each submits one task
    Execs,      \* 'spraycc exec' processes the cluster may start (a bound)
    None,       \* the Rust Option::None of a paired_id
    Faults      \* which of FaultKinds may happen

FaultKinds ==
    {"KillClient",      \* a client dies while it waits (ctrl-c)
     "KillBusyExec",    \* an exec dies while it runs a task
     "KillIdleExec",    \* an exec dies while it waits for a message
     "LoseJob",         \* the cluster manager drops a submitted job
     "BadKey",          \* a remote reads another user key than the server
     "Signal",          \* a task is terminated by a signal
     "SlowRead"}        \* a client leaves its answer unread for the idle period

Remotes == Clients \cup Execs

ASSUME FabricAssumption ==
    /\ Clients \cap Execs = {}
    /\ None \notin Remotes
    /\ Faults \subseteq FaultKinds

VARIABLES
    pc,         \* the server loop: where it is, or how it ended
    proc,       \* state of each remote process
    conn,       \* state of the server's handle_connection task
    up,         \* remote -> server loop
    down,       \* server loop -> remote
    jobs        \* per queue, the exec jobs submitted and not yet started

-----------------------------------------------------------------------------
(* Messages.  'task' is the client whose task a message is about; it is    *)
(* ghost in results (the code routes them by pairing alone).  'arg' is the *)
(* low bit of the access code in YourObedientServant, the position of the  *)
(* chunk in TaskOutput and the exit code in TaskDone.                      *)

Queues == {0, 1}            \* low bit of the access code: 1 is the second queue
NoCode == -1                \* exit_code: None
ExitCodes == {0, 1} \cup (IF "Signal" \in Faults THEN {NoCode} ELSE {})

Message(type, task, arg) == [type |-> type, task |-> task, arg |-> arg]

YourObedientServant(q) == Message("YourObedientServant", None, q)
TaskMsg(c)        == Message("Task", c, 0)
TaskOutput(c, n)  == Message("TaskOutput", c, n)
TaskDone(c, code) == Message("TaskDone", c, code)
TaskFailed(c)     == Message("TaskFailed", c, 0)
PissOff           == Message("PissOff", None, 0)
Dropped           == Message("Dropped", None, 0)

Final == {"TaskDone", "TaskFailed"}
Results == Final \cup {"TaskOutput"}
Messages ==
    [type : {"YourObedientServant"}, task : {None}, arg : Queues]
    \cup [type : Results \cup {"Task"}, task : Clients, arg : Int]
    \cup [type : {"PissOff", "Dropped"}, task : {None}, arg : {0}]

-----------------------------------------------------------------------------
(* The server process exists until its loop ends in one of three ways.     *)
ServerUp == pc \in {"select", "check", "release"}
ServerEnds == {"shutdown",      \* ok_to_shutdown broke the loop
               "failed",        \* a send error left run() through '?'
               "panic"}         \* an assert, expect or arithmetic overflow

(* The receiving half of c's outbound channel is gone: a send errs.        *)
RxGone(c) == conn[c] = "done"

(* A process that dies abnormally loses an arbitrary tail of what it wrote *)
(* (so does a relay task that stops reading).                              *)
LoseTail(c) == \E k \in 0 .. Len(up[c]) : up' = [up EXCEPT ![c] = SubSeq(@, 1, k)]

(* Open a connection and write the first message.  The relay replaces a    *)
(* message with a wrong access or user code by Dropped, and keeps reading. *)
Connect(c, state, msg) ==
    /\ ServerUp
    /\ proc[c] = "none"
    /\ proc' = [proc EXCEPT ![c] = state]
    /\ conn' = [conn EXCEPT ![c] = "backlog"]
    /\ \E first \in {msg} \cup (IF "BadKey" \in Faults THEN {Dropped} ELSE {}) :
          up' = [up EXCEPT ![c] = <<first>>]

-----------------------------------------------------------------------------
(* handle_connection, the task that relays between a socket and the loop.  *)

(* read_message returned None or an error: leave the loop and send Dropped *)
(* to the server.  The outbound receiver lives until the task returns.     *)
ConnEof(c) ==
    /\ ServerUp
    /\ conn[c] = "open"
    /\ proc[c] = "gone"
    /\ conn' = [conn EXCEPT ![c] = "eof"]
    /\ up' = [up EXCEPT ![c] = Append(@, Dropped)]
    /\ UNCHANGED <<pc, proc, down, jobs>>

(* The task returns; what is left in its channel is lost.                  *)
ConnReturn(c) ==
    /\ ServerUp
    /\ conn[c] = "eof"
    /\ conn' = [conn EXCEPT ![c] = "done"]
    /\ down' = [down EXCEPT ![c] = <<>>]
    /\ UNCHANGED <<pc, proc, up, jobs>>

(* write_message fails because the peer is gone: the '?' returns from the  *)
(* task at once, without reading what is left and without sending Dropped. *)
ConnWriteError(c) ==
    /\ ServerUp
    /\ conn[c] = "open"
    /\ proc[c] = "gone"
    /\ down[c] # <<>>
    /\ conn' = [conn EXCEPT ![c] = "done"]
    /\ down' = [down EXCEPT ![c] = <<>>]
    /\ LoseTail(c)
    /\ UNCHANGED <<pc, proc, jobs>>

(* The cluster manager loses a job: nothing will phone home for it.        *)
LoseJob(q) ==
    /\ "LoseJob" \in Faults
    /\ jobs[q] > 0
    /\ jobs' = [jobs EXCEPT ![q] = @ - 1]
    /\ UNCHANGED <<pc, proc, conn, up, down>>

FabricInit ==
    /\ pc = "select"
    /\ proc = [c \in Remotes |-> "none"]
    /\ conn = [c \in Remotes |-> "none"]
    /\ up = [c \in Remotes |-> <<>>]
    /\ down = [c \in Remotes |-> <<>>]
    /\ jobs = [q \in Queues |-> 0]

FabricTypeOK ==
    /\ pc \in {"select", "check", "release"} \cup ServerEnds
    /\ proc \in [Remotes -> {"none", "waiting", "idle", "running", "gone"}]
    /\ conn \in [Remotes -> {"none", "backlog", "open", "eof", "done"}]
    /\ up \in [Remotes -> Seq(Messages)]
    /\ down \in [Remotes -> Seq(Messages)]
    /\ jobs \in [Queues -> Nat]
=============================================================================
