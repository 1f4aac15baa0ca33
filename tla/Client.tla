------------------------------- MODULE Client -------------------------------
(***************************************************************************)
(* The client ('spraycc run', client.rs): submits one task that is to run  *)
(* remotely, then reads messages until it has a status.                    *)
(***************************************************************************)
EXTENDS Fabric

VARIABLES
    status,     \* how the client's wait ended, "none" while it has no answer
    got         \* positions of the output chunks it wrote, in order

clientVars == <<status, got>>

(* "ok" and "err" are Some(0) and Some(n > 0), "failed" Some(-1) after     *)
(* TaskFailed; "signal" records that TaskDone carried no exit code, which  *)
(* leaves the code's status at None; "aborted" is the panic on a missing   *)
(* status, "refused" connect_w_retry giving up, "killed" an outside kill.  *)
Statuses == {"none", "ok", "err", "failed", "signal", "aborted", "refused", "killed"}

(* run: connect and send the task.                                         *)
ClientConnect(c) ==
    /\ Connect(c, "waiting", TaskMsg(c))
    /\ UNCHANGED <<pc, down, jobs, clientVars>>

(* connect_w_retry runs out of retries: there is no server.                *)
ClientRefused(c) ==
    /\ ~ServerUp
    /\ proc[c] = "none"
    /\ proc' = [proc EXCEPT ![c] = "gone"]
    /\ status' = [status EXCEPT ![c] = "refused"]
    /\ UNCHANGED <<pc, conn, up, down, jobs, got>>

(* The client has its status: files are flushed, the socket is shut down.  *)
Exit(c, s) ==
    /\ status' = [status EXCEPT ![c] = s]
    /\ proc' = [proc EXCEPT ![c] = "gone"]

(* handle_msg for the next message.                                        *)
ClientRead(c, type) ==
    /\ proc[c] = "waiting"
    /\ down[c] # <<>>
    /\ Head(down[c]).type = type
    /\ down' = [down EXCEPT ![c] = Tail(@)]
    /\ UNCHANGED <<pc, conn, up, jobs>>

ClientOutput(c) ==
    /\ ClientRead(c, "TaskOutput")
    /\ got' = [got EXCEPT ![c] = Append(@, Head(down[c]).arg)]
    /\ UNCHANGED <<proc, status>>

ClientFailed(c) ==
    /\ ClientRead(c, "TaskFailed")
    /\ Exit(c, "failed")
    /\ UNCHANGED got

(* Ok(exit_code): only Some(code) ends the loop over messages.             *)
ClientDone(c) ==
    /\ ClientRead(c, "TaskDone")
    /\ UNCHANGED got
    /\ LET code == Head(down[c]).arg IN
          IF code = NoCode
          THEN /\ status' = [status EXCEPT ![c] = "signal"]
               /\ UNCHANGED proc
          ELSE Exit(c, IF code = 0 THEN "ok" ELSE "err")

(* The connection closes while the status is still None: break, and the    *)
(* expect on the status panics.  Unless the server died in the middle of   *)
(* things, what it sent before has reached the client by then.             *)
ClientEof(c) ==
    /\ ~ServerUp
    /\ proc[c] = "waiting"
    /\ down[c] = <<>> \/ pc # "shutdown" \/ "SlowRead" \in Faults
    /\ Exit(c, "aborted")
    /\ UNCHANGED <<pc, conn, up, down, jobs, got>>

KillClient(c) ==
    /\ "KillClient" \in Faults
    /\ proc[c] = "waiting"
    /\ Exit(c, "killed")
    /\ LoseTail(c)
    /\ UNCHANGED <<pc, conn, down, jobs, got>>

ClientInit ==
    /\ status = [c \in Clients |-> "none"]
    /\ got = [c \in Clients |-> <<>>]

ClientTypeOK ==
    /\ status \in [Clients -> Statuses]
    /\ got \in [Clients -> Seq(Int)]

(* Steps a client takes by itself; connecting and dying are its user's.    *)
ClientStep(c) ==
    \/ ClientRefused(c)
    \/ ClientOutput(c)
    \/ ClientFailed(c)
    \/ ClientDone(c)
    \/ ClientEof(c)
ClientNext(c) == ClientConnect(c) \/ ClientStep(c) \/ KillClient(c)
=============================================================================
