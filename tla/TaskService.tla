---------------------------- MODULE TaskService ----------------------------
(***************************************************************************)
(* What SprayCC promises to a build, without server, connections or execs: *)
(* a submitted task is run at most once, and the client is told how that   *)
(* one run ended, or that the task failed.                                 *)
(***************************************************************************)
CONSTANT Clients        \* each submits one task

VARIABLE task           \* of each client: where it is, and its result

(* phase is new, submitted, running, ended, answered or gone.              *)
At(phase, result) == [phase |-> phase, result |-> result]

Init == task = [c \in Clients |-> At("new", "none")]

Move(c, t) == task' = [task EXCEPT ![c] = t]

Submit(c) ==
    /\ task[c].phase = "new"
    /\ Move(c, At("submitted", "none"))

(* The only way to run: no task gets back to "submitted".                  *)
Start(c) ==
    /\ task[c].phase = "submitted"
    /\ Move(c, At("running", "none"))

End(c) ==
    /\ task[c].phase = "running"
    /\ \E result \in {"ok", "err", "signal"} : Move(c, At("ended", result))

(* It cannot be started, or what runs it or carries its result is lost.    *)
Fail(c) ==
    /\ task[c].phase \in {"submitted", "running", "ended"}
    /\ Move(c, At("ended", "failed"))

(* The client learns the result.                                           *)
Answer(c) ==
    /\ task[c].phase = "ended"
    /\ Move(c, At("answered", task[c].result))

(* The client goes away unanswered, or when a signalled task left it       *)
(* waiting for more.                                                       *)
Leave(c) ==
    /\ \/ task[c].phase \in {"new", "submitted", "running", "ended"}
       \/ task[c] = At("answered", "signal")
    /\ Move(c, At("gone", "none"))

(* A step is a change of one task.                                         *)
Next ==
    \E c \in Clients :
        /\ task'[c] # task[c]
        /\ Submit(c) \/ Start(c) \/ End(c) \/ Fail(c) \/ Answer(c) \/ Leave(c)

Spec == Init /\ [][Next]_task
=============================================================================
