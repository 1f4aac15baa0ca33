--------------------------- MODULE SprayCCService --------------------------
(***************************************************************************)
(* The whole system implements TaskService.                                *)
(***************************************************************************)
EXTENDS SprayCC

(* The final messages in a queue about the task of c.                      *)
FinalsIn(queue, c) ==
    {queue[i] : i \in {j \in 1 .. Len(queue) : queue[j].type \in Final /\ queue[j].task = c}}

Outcome(m) ==
    CASE m.type = "TaskFailed" -> "failed"
      [] m.type = "TaskDone" /\ m.arg = NoCode -> "signal"
      [] m.type = "TaskDone" /\ m.arg = 0 -> "ok"
      [] OTHER -> "err"

(* Exec e has the task of c, or is about to have it.                       *)
Holds(e, c) ==
    \/ proc[e] = "running" /\ running[e] = c
    \/ \E i \in 1 .. Len(down[e]) : down[e][i] = TaskMsg(c)

(* Where the task of c is, while c waits for its answer: it has ended when *)
(* its final message is on the way, or when nothing is left of it.         *)
TaskInside(c) ==
    LET e == pairedId[c]
        finals == IF e = None THEN {} ELSE FinalsIn(down[c], c) \cup FinalsIn(up[e], c)
    IN  CASE e = None -> [phase |-> "submitted", result |-> "none"]
          [] finals # {} -> [phase |-> "ended", result |-> Outcome(CHOOSE m \in finals : TRUE)]
          [] e # None /\ finals = {} /\ Holds(e, c) -> [phase |-> "running", result |-> "none"]
          [] OTHER -> [phase |-> "ended", result |-> "failed"]

TaskOf(c) ==
    CASE status[c] \in {"ok", "err", "failed", "signal"} ->
            [phase |-> "answered", result |-> status[c]]
      [] status[c] \in {"killed", "aborted", "refused"} ->
            [phase |-> "gone", result |-> "none"]
      [] status[c] = "none" /\ proc[c] = "none" -> [phase |-> "new", result |-> "none"]
      [] OTHER -> TaskInside(c)

Service == INSTANCE TaskService WITH task <- [c \in Clients |-> TaskOf(c)]

(* Whatever dies: check_queues gives a task to one exec once, and what the *)
(* client is told (handle_msg) is how that run of its own task ended, or   *)
(* that it failed.                                                         *)
ImplementsService == Service!Spec
=============================================================================
