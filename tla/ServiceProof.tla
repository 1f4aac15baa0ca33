---------------------------- MODULE ServiceProof ----------------------------
(***************************************************************************)
(* The whole system implements TaskService, for any number of clients and  *)
(* execs and under every fault: in each step at most one task moves, and   *)
(* it moves as TaskService allows.                                         *)
(***************************************************************************)
EXTENDS SprayCCService, AnswersProof

-----------------------------------------------------------------------------
(* What the abstract state of a task is made of: the pairing, the final    *)
(* messages on their way, and whether its exec holds it.                   *)

Downs(c) == FinalsIn(down[c], c)
Ups(e, c) == FinalsIn(up[e], c)
Finals(c) == Downs(c) \cup Ups(pairedId[c], c)
Held(c) == Holds(pairedId[c], c)

LEMMA FinalsMember ==
    ASSUME NEW s, NEW c, NEW m
    PROVE  m \in FinalsIn(s, c) <=>
               \E i \in 1 .. Len(s) : s[i] = m /\ m.type \in Final /\ m.task = c
    BY DEF FinalsIn

LEMMA FinalsAppend ==
    ASSUME NEW s \in Seq(Messages), NEW m \in Messages, NEW c
    PROVE  FinalsIn(Append(s, m), c) =
               FinalsIn(s, c) \cup (IF m.type \in Final /\ m.task = c THEN {m} ELSE {})
<1> DEFINE t == Append(s, m)
<1>1. /\ Len(s) \in Nat /\ Len(t) = Len(s) + 1 /\ t[Len(s) + 1] = m
      /\ \A i \in 1 .. Len(s) : t[i] = s[i]
    BY AppendFacts
<1>2. /\ Len(s) + 1 \in 1 .. Len(t)
      /\ \A i \in 1 .. Len(s) : i \in 1 .. Len(t)
      /\ \A i \in 1 .. Len(t) : i \in 1 .. Len(s) \/ i = Len(s) + 1
    BY <1>1
<1> HIDE DEF t
<1>3. ASSUME NEW x
      PROVE  x \in FinalsIn(t, c) <=>
                 x \in FinalsIn(s, c) \/ (x = m /\ m.type \in Final /\ m.task = c)
  <2>1. ASSUME x \in FinalsIn(t, c)
        PROVE  x \in FinalsIn(s, c) \/ (x = m /\ m.type \in Final /\ m.task = c)
    <3>1. PICK i \in 1 .. Len(t) : t[i] = x /\ x.type \in Final /\ x.task = c
        BY <2>1, FinalsMember
    <3> QED
        BY <1>1, <1>2, <3>1, FinalsMember
  <2>2. ASSUME x \in FinalsIn(s, c) PROVE x \in FinalsIn(t, c)
    <3>1. PICK i \in 1 .. Len(s) : s[i] = x /\ x.type \in Final /\ x.task = c
        BY <2>2, FinalsMember
    <3>2. i \in 1 .. Len(t) /\ t[i] = x
        BY <1>1, <1>2, <3>1
    <3> QED
        BY <3>1, <3>2, FinalsMember
  <2>3. ASSUME x = m, m.type \in Final, m.task = c PROVE x \in FinalsIn(t, c)
      BY <1>1, <1>2, <2>3, FinalsMember
  <2> QED
      BY <2>1, <2>2, <2>3
<1> QED
    BY <1>3 DEF t

LEMMA FinalsTail ==
    ASSUME NEW s \in Seq(Messages), s # <<>>, NEW c
    PROVE  FinalsIn(s, c) = FinalsIn(Tail(s), c) \cup
               (IF Head(s).type \in Final /\ Head(s).task = c THEN {Head(s)} ELSE {})
<1> DEFINE t == Tail(s)
<1>1. /\ Len(s) \in Nat /\ Len(s) > 0 /\ Len(t) = Len(s) - 1 /\ Head(s) = s[1]
      /\ \A i \in 1 .. Len(s) - 1 : t[i] = s[i + 1]
    BY TailFacts
<1> HIDE DEF t
<1>2. /\ 1 \in 1 .. Len(s)
      /\ \A i \in 1 .. Len(t) : i + 1 \in 1 .. Len(s) /\ t[i] = s[i + 1]
      /\ \A i \in 1 .. Len(s) : i = 1 \/ (i - 1 \in 1 .. Len(t) /\ t[i - 1] = s[i])
    BY <1>1
<1>3. ASSUME NEW x
      PROVE  x \in FinalsIn(s, c) <=>
                 x \in FinalsIn(t, c) \/ (x = s[1] /\ s[1].type \in Final /\ s[1].task = c)
  <2>1. ASSUME x \in FinalsIn(s, c)
        PROVE  x \in FinalsIn(t, c) \/ (x = s[1] /\ s[1].type \in Final /\ s[1].task = c)
    <3>1. PICK i \in 1 .. Len(s) : s[i] = x /\ x.type \in Final /\ x.task = c
        BY <2>1, FinalsMember
    <3>2. i = 1 \/ (i - 1 \in 1 .. Len(t) /\ t[i - 1] = x)
        BY <1>2, <3>1
    <3> QED
        BY <3>1, <3>2, FinalsMember
  <2>2. ASSUME x \in FinalsIn(t, c) PROVE x \in FinalsIn(s, c)
    <3>1. PICK i \in 1 .. Len(t) : t[i] = x /\ x.type \in Final /\ x.task = c
        BY <2>2, FinalsMember
    <3>2. i + 1 \in 1 .. Len(s) /\ s[i + 1] = x
        BY <1>2, <3>1
    <3> QED
        BY <3>1, <3>2, FinalsMember
  <2>3. ASSUME x = s[1], s[1].type \in Final, s[1].task = c PROVE x \in FinalsIn(s, c)
      BY <1>2, <2>3, FinalsMember
  <2> QED
      BY <2>1, <2>2, <2>3
<1> QED
    BY <1>1, <1>3 DEF t

LEMMA FinalsPrefix ==
    ASSUME NEW s \in Seq(Messages), NEW k \in 0 .. Len(s), NEW c
    PROVE  FinalsIn(SubSeq(s, 1, k), c) \subseteq FinalsIn(s, c)
<1> DEFINE t == SubSeq(s, 1, k)
<1>1. Len(s) \in Nat /\ Len(t) = k /\ \A i \in 1 .. k : t[i] = s[i]
    BY PrefixFacts
<1> HIDE DEF t
<1>2. \A i \in 1 .. Len(t) : i \in 1 .. Len(s) /\ t[i] = s[i]
    BY <1>1
<1>3. ASSUME NEW x \in FinalsIn(t, c) PROVE x \in FinalsIn(s, c)
  <2>1. PICK i \in 1 .. Len(t) : t[i] = x /\ x.type \in Final /\ x.task = c
      BY <1>3, FinalsMember
  <2>2. i \in 1 .. Len(s) /\ s[i] = x
      BY <1>2, <2>1
  <2> QED
      BY <2>1, <2>2, FinalsMember
<1> QED
    BY <1>3 DEF t

LEMMA FinalsNone ==
    ASSUME NEW s, NEW c, \A i \in 1 .. Len(s) : ~(s[i].type \in Final /\ s[i].task = c)
    PROVE  FinalsIn(s, c) = {}
    BY DEF FinalsIn

(* The mapped state of a task, case by case.                               *)
LEMMA TaskCases ==
    ASSUME TypeOK, NEW c \in Clients
    PROVE  /\ status[c] \in Verdicts => TaskOf(c) = [phase |-> "answered", result |-> status[c]]
           /\ status[c] \in Unanswered => TaskOf(c) = [phase |-> "gone", result |-> "none"]
           /\ status[c] = "none" /\ proc[c] = "none" => TaskOf(c) = [phase |-> "new", result |-> "none"]
           /\ status[c] = "none" /\ proc[c] # "none" => TaskOf(c) = TaskInside(c)
           /\ status[c] \in Verdicts \cup Unanswered \cup {"none"}
<1>1. status[c] \in Verdicts \cup Unanswered \cup {"none"}
    BY DEF TypeOK, ClientTypeOK, Statuses, Verdicts, Unanswered
<1> QED
    BY <1>1 DEF TaskOf, Verdicts, Unanswered

LEMMA InsideCases ==
    ASSUME NEW c \in Clients
    PROVE  /\ pairedId[c] = None => TaskInside(c) = [phase |-> "submitted", result |-> "none"]
           /\ pairedId[c] # None /\ Finals(c) # {} =>
                 TaskInside(c) = [phase |-> "ended", result |-> Outcome(CHOOSE m \in Finals(c) : TRUE)]
           /\ pairedId[c] # None /\ Finals(c) = {} /\ Held(c) =>
                 TaskInside(c) = [phase |-> "running", result |-> "none"]
           /\ pairedId[c] # None /\ Finals(c) = {} /\ ~Held(c) =>
                 TaskInside(c) = [phase |-> "ended", result |-> "failed"]
    BY DEF TaskInside, Finals, Downs, Ups, Held

LEMMA Outcomes ==
    /\ \A c : Outcome(TaskFailed(c)) = "failed"
    /\ \A c, code : Outcome(TaskDone(c, code)) =
                        IF code = NoCode THEN "signal" ELSE IF code = 0 THEN "ok" ELSE "err"
    BY DEF Outcome, TaskFailed, TaskDone, Message, NoCode

(* What the abstract specification allows one task.                        *)
Allowed(s, t) ==
    \/ s.phase = "new" /\ t = [phase |-> "submitted", result |-> "none"]
    \/ s.phase = "submitted" /\ t = [phase |-> "running", result |-> "none"]
    \/ s.phase = "running" /\ \E r \in {"ok", "err", "signal"} : t = [phase |-> "ended", result |-> r]
    \/ s.phase \in {"submitted", "running", "ended"} /\ t = [phase |-> "ended", result |-> "failed"]
    \/ s.phase = "ended" /\ t = [phase |-> "answered", result |-> s.result]
    \/ /\ s.phase \in {"new", "submitted", "running", "ended"}
          \/ s = [phase |-> "answered", result |-> "signal"]
       /\ t = [phase |-> "gone", result |-> "none"]

Mapped == [c \in Clients |-> TaskOf(c)]

(* A step that moves one task as allowed is a step of TaskService.         *)
LEMMA Simulates ==
    ASSUME NEW c \in Clients, \A d \in Clients \ {c} : TaskOf(d)' = TaskOf(d),
           TaskOf(c)' = TaskOf(c) \/ Allowed(TaskOf(c), TaskOf(c)')
    PROVE  [Service!Next]_Mapped
<1>1. CASE TaskOf(c)' = TaskOf(c)
  <2>1. \A d \in Clients : TaskOf(d)' = TaskOf(d)
      BY <1>1
  <2> QED
      BY <2>1 DEF Mapped
<1>2. CASE TaskOf(c)' # TaskOf(c) /\ Allowed(TaskOf(c), TaskOf(c)')
  <2>1. Mapped' = [Mapped EXCEPT ![c] = TaskOf(c)'] /\ Mapped[c] = TaskOf(c) /\ Mapped'[c] = TaskOf(c)'
      BY DEF Mapped
  <2>2. Mapped'[c] # Mapped[c]
      BY <1>2, <2>1
  <2>3. \/ Service!Submit(c) \/ Service!Start(c) \/ Service!End(c)
        \/ Service!Fail(c) \/ Service!Answer(c) \/ Service!Leave(c)
      BY <1>2, <2>1
         DEF Allowed, Mapped, Service!Submit, Service!Start, Service!End, Service!Fail, Service!Answer,
             Service!Leave, Service!Move, Service!At
  <2> QED
      BY <2>2, <2>3 DEF Service!Next, Mapped
<1> QED
    BY <1>1, <1>2

-----------------------------------------------------------------------------
(* Facts the mapping rests on.                                             *)

(* A client is paired with an exec, and leaves when it has its status.     *)
LeavesWithStatus(c) ==
    /\ pairedId[c] \in Execs \cup {None}
    /\ proc[c] = "gone" <=> status[c] \notin {"none", "signal"}
    /\ proc[c] = "none" => status[c] = "none"

Leaving == \A c \in Clients : LeavesWithStatus(c)

LEMMA ClientPairing ==
    ASSUME TypeOK, Turns, ServerNext, NEW c \in Clients
    PROVE  \/ pairedId'[c] = pairedId[c] \/ pairedId'[c] = None
           \/ pairedId'[c] \in Execs /\ Assign(c)
<1>0. /\ pairedId \in [Remotes -> Remotes \cup {None}] /\ c \in Remotes /\ c \notin Execs /\ c # None
      /\ \A e \in Execs : e \in Remotes
    BY RemoteFacts DEF TypeOK, ServerTypeOK
<1> DEFINE Goal == \/ pairedId'[c] = pairedId[c] \/ pairedId'[c] = None
                   \/ pairedId'[c] \in Execs /\ Assign(c)
<1>1. ASSUME NEW x \in Remotes, Accept(x) PROVE Goal
    BY <1>0, <1>1 DEF Accept
<1>2. ASSUME NEW d \in Clients, Assign(d) PROVE Goal
  <2>1. /\ Head(execQueue) \in Execs /\ d \in Remotes
        /\ pairedId' = [pairedId EXCEPT ![d] = Head(execQueue), ![Head(execQueue)] = d]
      BY <1>2, AssignFacts, RemoteFacts DEF Assign
  <2> QED
      BY <1>0, <1>2, <2>1, RemoteFacts
<1>3. ASSUME NEW e \in Execs, RecvDone(e) \/ RecvFailed(e) \/ RecvServant(e) PROVE Goal
  <2>1. UNCHANGED pairedId \/ pairedId' = [pairedId EXCEPT ![e] = None]
      BY <1>3 DEF RecvDone, RecvFailed, RecvFinal, RecvServant, ExecIsReady, Unpair
  <2> QED
      BY <1>0, <2>1
<1>4. ASSUME \/ Watchdog \/ CheckDone \/ ReleaseDone \/ ReleaseDelayExpires \/ IdleDelayExpires \/ Release
             \/ (\E x \in Remotes : RecvDropped(x) \/ RecvTask(x) \/ RecvOutput(x))
      PROVE  UNCHANGED pairedId
    BY <1>4 DEF Watchdog, CheckDone, ReleaseDone, ReleaseDelayExpires, IdleDelayExpires, Release,
                RecvDropped, RecvTask, RecvOutput
<1> QED
    BY <1>1, <1>2, <1>3, <1>4, RemoteFacts DEF ServerNext, HandleMsg, CheckQueues

LEMMA LeavingStep == TypeOK /\ Turns /\ Leaving /\ [Next]_vars => Leaving'
<1> SUFFICES ASSUME TypeOK, Turns, Leaving, [Next]_vars, NEW c \in Clients PROVE LeavesWithStatus(c)'
    BY DEF Leaving
<1>0. /\ c \in Remotes /\ c \notin Execs /\ status \in [Clients -> Statuses] /\ LeavesWithStatus(c)
      /\ proc \in [Remotes -> {"none", "waiting", "idle", "running", "gone"}]
    BY RemoteFacts DEF TypeOK, FabricTypeOK, ClientTypeOK, Leaving
<1>1. pairedId'[c] \in Execs \cup {None}
  <2>1. CASE ServerNext
      BY <1>0, <2>1, ClientPairing DEF LeavesWithStatus
  <2>2. CASE UNCHANGED <<pc, serverVars>>
      BY <1>0, <2>2 DEF LeavesWithStatus, serverVars
  <2> QED
      BY <2>1, <2>2, TwoSides
<1>2. CASE proc'[c] = proc[c] /\ status'[c] = status[c]
    BY <1>0, <1>1, <1>2 DEF LeavesWithStatus
<1>3. CASE ServerNext /\ UNCHANGED clientVars
  <2>1. UNCHANGED <<proc, status>>
      BY <1>3 DEF clientVars, ServerNext, HandleMsg, CheckQueues, RecvTask, RecvServant, RecvOutput, RecvDone,
           RecvFailed, RecvFinal, RecvDropped, Receive, Watchdog, Assign, CheckDone, Release,
           ReleaseDone, ReleaseDelayExpires, IdleDelayExpires, Accept
  <2> QED
      BY <1>2, <2>1
<1>4. ASSUME \/ \E x \in Remotes : ConnEof(x) \/ ConnReturn(x) \/ ConnWriteError(x)
             \/ \E q \in Queues : LoseJob(q)
      PROVE  UNCHANGED proc
    BY <1>4 DEF ConnEof, ConnReturn, ConnWriteError, LoseJob
<1>5. ASSUME NEW e \in Execs, ExecNext(e) PROVE proc'[c] = proc[c]
    BY <1>0, <1>5 DEF ExecNext, ExecConnect, Connect, ExecStep, StartTask, StartFails, ExecRead,
              SendOutput, SendDone, TaskEnds, ExecPissOff, ExecEof, KillExec, ExecLeaves
<1>6. ASSUME NEW d \in Clients, ClientNext(d) PROVE LeavesWithStatus(c)'
  <2>1. CASE ClientConnect(d)
    <3>1. UNCHANGED status /\ proc[d] = "none" /\ proc' = [proc EXCEPT ![d] = "waiting"]
        BY <2>1 DEF ClientConnect, Connect, clientVars
    <3> QED
        BY <1>0, <1>1, <3>1 DEF LeavesWithStatus
  <2>2. CASE ClientOutput(d)
      BY <1>2, <2>2 DEF ClientOutput
  <2>3. CASE ClientFailed(d) \/ ClientDone(d) \/ ClientRefused(d) \/ ClientEof(d) \/ KillClient(d)
    <3>1. \/ \E s : /\ s \notin {"none", "signal"} /\ status' = [status EXCEPT ![d] = s]
                    /\ proc' = [proc EXCEPT ![d] = "gone"]
          \/ proc[d] = "waiting" /\ UNCHANGED proc /\ status' = [status EXCEPT ![d] = "signal"]
        BY <2>3 DEF ClientFailed, ClientDone, Exit, ClientRefused, ClientEof, KillClient, ClientRead
    <3> QED
        BY <1>0, <1>1, <3>1 DEF LeavesWithStatus
  <2> QED
      BY <1>6, <2>1, <2>2, <2>3 DEF ClientNext, ClientStep
<1> QED
    BY <1>2, <1>3, <1>4, <1>5, <1>6 DEF Next, vars, clientVars

LEMMA LeavingCorrect == Spec => []Leaving
<1>1. Init => Leaving
    BY RemoteFacts DEF Init, FabricInit, ServerInit, ClientInit, Leaving, LeavesWithStatus
<1>2. TypeOK /\ Turns /\ Leaving /\ [Next]_vars => Leaving'
    BY LeavingStep
<1> QED
    BY <1>1, <1>2, TypeCorrect, TurnsCorrect, PTL DEF Spec

(* What an exec holds and sends is about the task it is paired with.       *)
Strangers ==
    \A e \in Execs, d \in Clients : pairedId[e] # d => Ups(e, d) = {} /\ ~Holds(e, d)

LEMMA StrangersHold == TypeOK /\ Turns => Strangers
<1> SUFFICES ASSUME TypeOK, Turns, NEW e \in Execs, NEW d \in Clients, pairedId[e] # d
             PROVE  Ups(e, d) = {} /\ ~Holds(e, d)
    BY DEF Strangers
<1>0. ExecDown(e) /\ ExecUp(e) /\ ExecPaired(e) /\ d # None
    BY RemoteFacts DEF Turns
<1>1. \A i \in 1 .. Len(up[e]) : ~(up[e][i].type \in Final /\ up[e][i].task = d)
    BY <1>0 DEF ExecUp, Final
<1>2. ~(proc[e] = "running" /\ running[e] = d)
    BY <1>0 DEF ExecPaired
<1>3. ASSUME NEW i \in 1 .. Len(down[e]) PROVE down[e][i] # TaskMsg(d)
  <2>1. CASE down[e] = <<>>
    <3>1. \A j \in 1 .. Len(<<>>) : FALSE
        OBVIOUS
    <3> QED
        BY <1>3, <2>1, <3>1
  <2>2. ASSUME NEW m, down[e] = <<m>> PROVE down[e][i] = m
      BY <1>3, <2>2
  <2>3. TaskMsg(pairedId[e]) # TaskMsg(d) /\ PissOff # TaskMsg(d)
      BY DEF TaskMsg, PissOff, Message
  <2> QED
      BY <1>0, <2>1, <2>2, <2>3 DEF ExecDown
<1> QED
    BY <1>1, <1>2, <1>3, FinalsNone DEF Ups, Holds

(* The invariants the simulation uses.                                     *)
Given == TypeOK /\ Turns /\ Ends /\ LastWord /\ FinalIsLast /\ Leaving /\ Strangers

(* A task has one final message, going up or going down.                   *)
LEMMA FinalsOne ==
    ASSUME Given, NEW c \in Clients, pairedId[c] # None
    PROVE  /\ Finals(c) = {} \/ \E m : Finals(c) = {m}
           /\ Ups(pairedId[c], c) # {} => ~Held(c)
           /\ Downs(c) # {} => Ups(pairedId[c], c) = {}
<1> DEFINE e == pairedId[c]
<1>0. /\ TypeOK /\ Turns /\ LastWord /\ FinalIsLast /\ Strangers /\ e \in Execs
      /\ up[e] \in Seq(Messages) /\ Len(up[e]) \in Nat
    BY RemoteFacts DEF Given, Leaving, LeavesWithStatus, TypeOK, FabricTypeOK
<1>1. ASSUME NEW m \in Downs(c)
      PROVE  Downs(c) = {m} /\ Ups(e, c) = {}
  <2>1. PICK i \in 1 .. Len(down[c]) : down[c][i] = m /\ m.type \in Final
      BY <1>1, FinalsMember DEF Downs
  <2>2. ASSUME NEW x \in Downs(c) PROVE x = m
    <3>1. PICK j \in 1 .. Len(down[c]) : down[c][j] = x /\ x.type \in Final
        BY <2>2, FinalsMember DEF Downs
    <3>2. i = Len(down[c]) /\ j = Len(down[c])
        BY <1>0, <2>1, <3>1 DEF FinalIsLast
    <3> QED
        BY <2>1, <3>1, <3>2
  <2>3. Answered(c)
      BY <2>1 DEF Answered
  <2>4. pairedId[e] = c => up[e] = <<>>
      BY <1>0, <2>3 DEF LastWord, Silent
  <2>5. Ups(e, c) = {}
    <3>1. CASE pairedId[e] # c
        BY <1>0, <3>1 DEF Strangers
    <3>2. CASE up[e] = <<>>
      <4>1. \A j \in 1 .. Len(<<>>) : FALSE
          OBVIOUS
      <4> QED
          BY <3>2, <4>1, FinalsNone DEF Ups
    <3> QED
        BY <2>4, <3>1, <3>2
  <2> QED
      BY <1>1, <2>2, <2>5
<1>2. ASSUME NEW m \in Ups(e, c)
      PROVE  Ups(e, c) = {m} /\ ~Holds(e, c)
  <2>1. PICK i \in 1 .. Len(up[e]) : up[e][i] = m /\ m.type \in Final
      BY <1>2, FinalsMember DEF Ups
  <2>2. ASSUME NEW j \in 1 .. Len(up[e]), up[e][j].type \in Final
        PROVE  /\ down[e] = <<>> /\ proc[e] # "running"
               /\ \A k \in j + 1 .. Len(up[e]) : up[e][k].type = "Dropped"
      BY <1>0, <2>2 DEF Turns, ExecUp, Final
  <2>3. ASSUME NEW x \in Ups(e, c) PROVE x = m
    <3>1. PICK j \in 1 .. Len(up[e]) : up[e][j] = x /\ x.type \in Final
        BY <2>3, FinalsMember DEF Ups
    <3>2. i = j \/ i \in j + 1 .. Len(up[e]) \/ j \in i + 1 .. Len(up[e])
        BY <1>0, <2>1, <3>1
    <3>3. i = j
        BY <2>1, <2>2, <3>1, <3>2 DEF Final
    <3> QED
        BY <2>1, <3>1, <3>3
  <2>4. down[e] = <<>> /\ proc[e] # "running"
      BY <2>1, <2>2
  <2>5. \A k \in 1 .. Len(<<>>) : FALSE
      OBVIOUS
  <2> QED
      BY <1>2, <2>3, <2>4, <2>5 DEF Holds
<1> QED
    BY <1>1, <1>2 DEF Finals, Held

(* A task of which nothing changes that matters stays where it is.         *)
LEMMA Same ==
    ASSUME Given, TypeOK', NEW c \in Clients, status'[c] = status[c],
           \/ status[c] # "none"
           \/ /\ proc'[c] = "none" <=> proc[c] = "none"
              /\ pairedId'[c] = pairedId[c]
              /\ pairedId[c] # None => /\ Finals(c)' = Finals(c)
                                       /\ Finals(c) = {} => (Held(c)' <=> Held(c))
    PROVE  TaskOf(c)' = TaskOf(c)
<1>0. TypeOK
    BY DEF Given
<1>1. CASE status[c] # "none"
    BY <1>0, <1>1 DEF TaskOf, TypeOK, ClientTypeOK, Statuses
<1>2. CASE status[c] = "none" /\ proc[c] = "none" /\ proc'[c] = "none"
    BY <1>2 DEF TaskOf
<1>3. ASSUME status[c] = "none", proc[c] # "none", proc'[c] # "none", pairedId'[c] = pairedId[c],
             pairedId[c] # None => /\ Finals(c)' = Finals(c)
                                   /\ Finals(c) = {} => (Held(c)' <=> Held(c))
      PROVE  TaskOf(c)' = TaskOf(c)
  <2>1. TaskInside(c)' = TaskInside(c)
    <3>1. CASE pairedId[c] = None
        BY <1>3, <3>1 DEF TaskInside
    <3>2. CASE pairedId[c] # None
      <4> DEFINE e == pairedId[c]
                 a == Downs(c) \cup Ups(e, c)
      <4>1. (Downs(c) \cup Ups(e, c))' = a /\ (a = {} => (Holds(e, c)' <=> Holds(e, c)))
          BY <1>3, <3>2 DEF Finals, Held
      <4>2. (FinalsIn(down[c], c) \cup FinalsIn(up[e], c))' = FinalsIn(down[c], c) \cup FinalsIn(up[e], c)
          BY <4>1 DEF Downs, Ups
      <4> QED
          BY <1>3, <3>2, <4>1, <4>2 DEF TaskInside, Downs, Ups
    <3> QED
        BY <3>1, <3>2
  <2> QED
      BY <1>3, <2>1 DEF TaskOf
<1> QED
    BY <1>1, <1>2, <1>3

(* The cases of the mapping in the next state.                             *)
LEMMA NextCases ==
    ASSUME TypeOK', NEW c \in Clients
    PROVE  /\ status'[c] \in Verdicts => TaskOf(c)' = [phase |-> "answered", result |-> status'[c]]
           /\ status'[c] \in Unanswered => TaskOf(c)' = [phase |-> "gone", result |-> "none"]
           /\ status'[c] = "none" /\ proc'[c] # "none" =>
                 /\ pairedId'[c] = None => TaskOf(c)' = [phase |-> "submitted", result |-> "none"]
                 /\ pairedId'[c] # None /\ Finals(c)' = {} /\ Held(c)' =>
                       TaskOf(c)' = [phase |-> "running", result |-> "none"]
                 /\ pairedId'[c] # None /\ Finals(c)' = {} /\ ~Held(c)' =>
                       TaskOf(c)' = [phase |-> "ended", result |-> "failed"]
                 /\ \A m : pairedId'[c] # None /\ Finals(c)' = {m} =>
                       TaskOf(c)' = [phase |-> "ended", result |-> Outcome(m)]
<1>1. status'[c] = "none" /\ proc'[c] # "none" => TaskOf(c)' = TaskInside(c)'
    BY DEF TaskOf
<1>2. /\ pairedId'[c] = None => TaskInside(c)' = [phase |-> "submitted", result |-> "none"]
      /\ pairedId'[c] # None /\ Finals(c)' = {} /\ Held(c)' =>
            TaskInside(c)' = [phase |-> "running", result |-> "none"]
      /\ pairedId'[c] # None /\ Finals(c)' = {} /\ ~Held(c)' =>
            TaskInside(c)' = [phase |-> "ended", result |-> "failed"]
    BY DEF TaskInside, Finals, Downs, Ups, Held
<1>3. ASSUME NEW m, pairedId'[c] # None, Finals(c)' = {m}
      PROVE  TaskInside(c)' = [phase |-> "ended", result |-> Outcome(m)]
  <2>1. (CHOOSE x \in {m} : TRUE) = m /\ {m} # {}
      OBVIOUS
  <2>2. (FinalsIn(down[c], c) \cup FinalsIn(up[pairedId[c]], c))' = {m}
      BY <1>3 DEF Finals, Downs, Ups
  <2> QED
      BY <1>3, <2>1, <2>2 DEF TaskInside
<1>4. /\ status'[c] \in Verdicts => TaskOf(c)' = [phase |-> "answered", result |-> status'[c]]
      /\ status'[c] \in Unanswered => TaskOf(c)' = [phase |-> "gone", result |-> "none"]
    BY DEF TaskOf, Verdicts, Unanswered
<1> QED
    BY <1>1, <1>2, <1>3, <1>4

(* Where a waiting client's task can be.                                   *)
LEMMA WaitingCases ==
    ASSUME Given, NEW c \in Clients, status[c] = "none", proc[c] # "none"
    PROVE  /\ TaskOf(c).phase \in {"submitted", "running", "ended"}
           /\ pairedId[c] = None <=> TaskOf(c).phase = "submitted"
           /\ pairedId[c] # None /\ Finals(c) = {} /\ Held(c) => TaskOf(c).phase = "running"
           /\ pairedId[c] # None /\ Finals(c) # {} => TaskOf(c).phase = "ended"
           /\ pairedId[c] # None /\ Finals(c) = {} /\ ~Held(c) =>
                 TaskOf(c) = [phase |-> "ended", result |-> "failed"]
           /\ \A m : pairedId[c] # None /\ Finals(c) = {m} =>
                 TaskOf(c) = [phase |-> "ended", result |-> Outcome(m)]
<1>1. TaskOf(c) = TaskInside(c)
    BY TaskCases DEF Given
<1>2. ASSUME NEW m, Finals(c) = {m} PROVE Finals(c) # {} /\ (CHOOSE x \in Finals(c) : TRUE) = m
    BY <1>2
<1> QED
    BY <1>1, <1>2, InsideCases

(* What gets lost with an exec makes its task fail.                        *)
LEMMA Loss ==
    ASSUME Given, TypeOK', NEW c \in Clients, status'[c] = status[c],
           proc'[c] = "none" <=> proc[c] = "none", pairedId'[c] = pairedId[c],
           pairedId[c] # None => /\ Downs(c)' = Downs(c)
                                 /\ Ups(pairedId[c], c)' \subseteq Ups(pairedId[c], c)
                                 /\ Held(c)' => Held(c)
    PROVE  TaskOf(c)' = TaskOf(c) \/ Allowed(TaskOf(c), TaskOf(c)')
<1>1. CASE status[c] # "none" \/ pairedId[c] = None
    BY <1>1, Same
<1>2. CASE status[c] = "none" /\ proc[c] = "none"
    BY <1>2 DEF TaskOf
<1>3. CASE status[c] = "none" /\ proc[c] # "none" /\ pairedId[c] # None
  <2>1. Finals(c) = {} \/ \E m : Finals(c) = {m}
      BY <1>3, FinalsOne
  <2>2. Finals(c)' = Downs(c) \cup Ups(pairedId[c], c)' /\ Finals(c) = Downs(c) \cup Ups(pairedId[c], c)
      BY <1>3 DEF Finals
  <2>3. CASE Finals(c)' = Finals(c) /\ (Finals(c) = {} => (Held(c)' <=> Held(c)))
      BY <1>3, <2>3, Same
  <2>4. CASE Finals(c) = {} /\ Finals(c)' = {} /\ Held(c) /\ ~Held(c)'
    <3>1. TaskOf(c).phase = "running" /\ TaskOf(c)' = [phase |-> "ended", result |-> "failed"]
        BY <1>3, <2>4, NextCases, WaitingCases
    <3> QED
        BY <3>1 DEF Allowed
  <2>5. CASE Finals(c) # {} /\ Finals(c)' # Finals(c)
    <3>1. Ups(pairedId[c], c) # {} /\ Finals(c)' = {}
        BY <2>1, <2>2, <2>5, <1>3
    <3>2. ~Held(c) /\ ~Held(c)'
        BY <1>3, <3>1, FinalsOne
    <3>3. TaskOf(c).phase = "ended" /\ TaskOf(c)' = [phase |-> "ended", result |-> "failed"]
        BY <1>3, <2>5, <3>1, <3>2, NextCases, WaitingCases
    <3> QED
        BY <3>3 DEF Allowed
  <2> QED
      BY <1>3, <2>2, <2>3, <2>4, <2>5
<1> QED
    BY <1>1, <1>2, <1>3

(* A step at exec e leaves the tasks of others alone.                      *)
LEMMA Bystander ==
    ASSUME Given, TypeOK', Strangers', NEW e \in Execs, NEW d \in Clients,
           pairedId[e] # d, pairedId'[e] # d, status'[d] = status[d],
           proc'[d] = "none" <=> proc[d] = "none", pairedId'[d] = pairedId[d], down'[d] = down[d],
           \A f \in Execs \ {e} : /\ up'[f] = up[f] /\ down'[f] = down[f]
                                  /\ proc'[f] = proc[f] /\ running'[f] = running[f]
    PROVE  TaskOf(d)' = TaskOf(d)
<1>1. CASE pairedId[d] = None
    BY <1>1, Same
<1>2. CASE pairedId[d] # None
  <2>1. pairedId[d] \in Execs
      BY <1>2 DEF Given, Leaving, LeavesWithStatus
  <2>2. Ups(pairedId[d], d)' = Ups(pairedId[d], d) /\ (Holds(pairedId[d], d)' <=> Holds(pairedId[d], d))
    <3>1. CASE pairedId[d] = e
        BY <3>1 DEF Given, Strangers
    <3>2. CASE pairedId[d] # e
        BY <2>1, <3>2 DEF Ups, Holds
    <3> QED
        BY <3>1, <3>2
  <2>3. Finals(d)' = Finals(d) /\ (Held(d)' <=> Held(d))
      BY <2>2 DEF Finals, Held, Downs
  <2> QED
      BY <2>3, Same
<1> QED
    BY <1>1, <1>2

-----------------------------------------------------------------------------
(* Steps that move no task.                                                *)

LEMMA AllSame ==
    ASSUME Given, TypeOK', UNCHANGED status,
           \A d \in Clients : /\ proc'[d] = "none" <=> proc[d] = "none"
                              /\ pairedId'[d] = pairedId[d]
                              /\ status[d] = "none" => Downs(d)' = Downs(d),
           \A f \in Execs, d \in Clients : Ups(f, d)' = Ups(f, d) /\ (Holds(f, d)' <=> Holds(f, d))
    PROVE  [Service!Next]_Mapped
<1>1. ASSUME NEW d \in Clients PROVE TaskOf(d)' = TaskOf(d)
  <2>1. CASE status[d] # "none"
      BY <2>1, Same
  <2>2. CASE pairedId[d] = None
      BY <2>2, Same
  <2>3. CASE status[d] = "none" /\ pairedId[d] # None
    <3>1. pairedId[d] \in Execs
        BY <2>3 DEF Given, Leaving, LeavesWithStatus
    <3>2. Finals(d)' = Finals(d) /\ (Held(d)' <=> Held(d))
        BY <2>3, <3>1 DEF Finals, Held
    <3> QED
        BY <3>2, Same
  <2> QED
      BY <2>1, <2>2, <2>3
<1> QED
    BY <1>1 DEF Mapped

(* Reading or writing anything but a final message.                        *)
LEMMA UpsKept ==
    ASSUME TypeOK, NEW x \in Remotes,
           \/ UNCHANGED up
           \/ \E type : type \notin Final /\ Receive(x, type)
           \/ \E m \in Messages : m.type \notin Final /\ up' = [up EXCEPT ![x] = Append(@, m)]
    PROVE  \A f \in Execs, d \in Clients : Ups(f, d)' = Ups(f, d)
<1> SUFFICES ASSUME NEW f \in Execs, NEW d \in Clients PROVE FinalsIn(up'[f], d) = FinalsIn(up[f], d)
    BY DEF Ups
<1>0. f \in Remotes /\ up \in [Remotes -> Seq(Messages)] /\ up[f] \in Seq(Messages)
    BY RemoteFacts DEF TypeOK, FabricTypeOK
<1>1. CASE up'[f] = up[f]
    BY <1>1
<1>2. ASSUME NEW type, type \notin Final, Receive(x, type)
      PROVE  FinalsIn(up'[f], d) = FinalsIn(up[f], d)
  <2>1. CASE f # x
      BY <1>0, <1>1, <1>2, <2>1 DEF Receive
  <2>2. CASE f = x
    <3>1. up[f] # <<>> /\ Head(up[f]).type \notin Final /\ up'[f] = Tail(up[f])
        BY <1>0, <1>2, <2>2 DEF Receive
    <3>2. FinalsIn(up[f], d) = FinalsIn(Tail(up[f]), d) \cup
               (IF Head(up[f]).type \in Final /\ Head(up[f]).task = d THEN {Head(up[f])} ELSE {})
        BY <1>0, <3>1, FinalsTail
    <3> QED
        BY <3>1, <3>2
  <2> QED
      BY <2>1, <2>2
<1>3. ASSUME NEW m \in Messages, m.type \notin Final, up' = [up EXCEPT ![x] = Append(@, m)]
      PROVE  FinalsIn(up'[f], d) = FinalsIn(up[f], d)
  <2>1. CASE f # x
      BY <1>0, <1>1, <1>3, <2>1
  <2>2. CASE f = x
    <3>1. up'[f] = Append(up[f], m)
        BY <1>0, <1>3, <2>2
    <3>2. FinalsIn(Append(up[f], m), d) =
               FinalsIn(up[f], d) \cup (IF m.type \in Final /\ m.task = d THEN {m} ELSE {})
        BY <1>0, FinalsAppend
    <3> QED
        BY <1>3, <3>1, <3>2
  <2> QED
      BY <2>1, <2>2
<1> QED
    BY <1>1, <1>2, <1>3

(* An exec that is given nothing and does nothing holds what it held.      *)
LEMMA HoldsKept ==
    ASSUME UNCHANGED <<proc, running>>, \A f \in Execs : down'[f] = down[f]
    PROVE  \A f \in Execs, d \in Clients : Holds(f, d)' <=> Holds(f, d)
    BY DEF Holds

(* At an exec without a task anything may happen.                          *)
LEMMA NobodysExec ==
    ASSUME Given, Strangers', NEW e \in Execs, pairedId[e] = None, pairedId'[e] = None,
           \A f \in Execs \ {e} : /\ up'[f] = up[f] /\ down'[f] = down[f]
                                  /\ proc'[f] = proc[f] /\ running'[f] = running[f]
    PROVE  \A f \in Execs, d \in Clients : Ups(f, d)' = Ups(f, d) /\ (Holds(f, d)' <=> Holds(f, d))
<1> SUFFICES ASSUME NEW f \in Execs, NEW d \in Clients
             PROVE  Ups(f, d)' = Ups(f, d) /\ (Holds(f, d)' <=> Holds(f, d))
    OBVIOUS
<1>1. CASE f = e
    BY <1>1, RemoteFacts DEF Given, Strangers
<1>2. CASE f # e
    BY <1>2 DEF Ups, Holds
<1> QED
    BY <1>1, <1>2

-----------------------------------------------------------------------------
(* The server loop.                                                        *)

(* An exec with a task and its client.                                     *)
LEMMA PairFacts ==
    ASSUME Given, NEW e \in Execs, NEW c \in Clients, pairedId[e] = c
    PROVE  /\ TypeOK /\ Turns /\ Ends /\ LastWord /\ Strangers /\ Leaving
           /\ e \in Remotes /\ c \in Remotes /\ c # None
           /\ pairedId \in [Remotes -> Remotes \cup {None}] /\ pairedId[c] = e
           /\ down \in [Remotes -> Seq(Messages)] /\ down[c] \in Seq(Messages)
           /\ up \in [Remotes -> Seq(Messages)] /\ up[e] \in Seq(Messages)
           /\ \A d \in Clients : d \in Remotes /\ d # e /\ d # None
           /\ \A f \in Execs : f \in Remotes /\ f # c /\ f # None
<1>1. TypeOK /\ Turns /\ Ends /\ LastWord /\ Strangers /\ Leaving
    BY DEF Given
<1>2. /\ e \in Remotes /\ c \in Remotes /\ c # None
      /\ \A d \in Clients : d \in Remotes /\ d # e /\ d # None
      /\ \A f \in Execs : f \in Remotes /\ f # c /\ f # None
    BY RemoteFacts
<1>3. /\ pairedId \in [Remotes -> Remotes \cup {None}]
      /\ down \in [Remotes -> Seq(Messages)] /\ down[c] \in Seq(Messages)
      /\ up \in [Remotes -> Seq(Messages)] /\ up[e] \in Seq(Messages)
    BY <1>1, <1>2 DEF TypeOK, FabricTypeOK, ServerTypeOK
<1>4. pairedId[c] = e
    BY <1>1, <1>2 DEF Turns, ExecPaired
<1> QED
    BY <1>1, <1>2, <1>3, <1>4

(* A final message that is forwarded is only moved.                        *)
LEMMA SimFinal ==
    ASSUME Given, TypeOK', Strangers', ServerNext, UNCHANGED <<clientVars, execVars, proc>>,
           NEW e \in Execs, RecvDone(e) \/ RecvFailed(e)
    PROVE  [Service!Next]_Mapped
<1>0. PICK type \in Final : Receive(e, type)
    BY DEF RecvDone, RecvFailed, RecvFinal, Final
<1>c. PICK c \in Clients : c = pairedId[e]
    BY <1>0, ResultFacts DEF Given, Results
<1>h. PICK h \in Messages : h = Head(up[e])
    BY <1>0, ResultFacts DEF Given, Results
<1>1. /\ TypeOK /\ Turns /\ Ends /\ Strangers /\ Leaving
      /\ e \in Remotes /\ c \in Remotes /\ c # None /\ h.type = type /\ h.task = c
      /\ pairedId \in [Remotes -> Remotes \cup {None}] /\ pairedId[c] = e
      /\ down \in [Remotes -> Seq(Messages)] /\ down[c] \in Seq(Messages)
      /\ up \in [Remotes -> Seq(Messages)] /\ up[e] \in Seq(Messages) /\ up[e] # <<>>
      /\ up' = [up EXCEPT ![e] = Tail(@)]
      /\ \A d \in Clients : d \in Remotes /\ d # e /\ d # None
      /\ \A f \in Execs : f \in Remotes /\ f # c /\ f # None
  <2>1. h.type = type /\ h.task = c
      BY <1>0, <1>c, <1>h, ResultFacts DEF Given, Results
  <2>2. up[e] # <<>> /\ up' = [up EXCEPT ![e] = Tail(@)]
      BY <1>0 DEF Receive
  <2> QED
      BY <1>c, <2>1, <2>2, PairFacts
<1>2. SendToPaired(e, h) /\ pairedId' = [pairedId EXCEPT ![e] = None]
    BY <1>c, <1>h, <1>1 DEF RecvDone, RecvFailed, RecvFinal, ExecIsReady, Unpair
<1>3. \A x \in Remotes \ {c} : down'[x] = down[x]
    BY <1>c, <1>1, <1>2 DEF SendToPaired
<1>4. ASSUME NEW d \in Clients \ {c} PROVE TaskOf(d)' = TaskOf(d)
  <2>1. /\ pairedId[e] # d /\ pairedId'[e] # d /\ pairedId'[d] = pairedId[d] /\ down'[d] = down[d]
        /\ status'[d] = status[d] /\ proc'[d] = proc[d]
      BY <1>c, <1>1, <1>2, <1>3 DEF clientVars
  <2>2. \A f \in Execs \ {e} : /\ up'[f] = up[f] /\ down'[f] = down[f]
                               /\ proc'[f] = proc[f] /\ running'[f] = running[f]
      BY <1>1, <1>3 DEF execVars
  <2> QED
      BY <2>1, <2>2, Bystander
<1>5. TaskOf(c)' = TaskOf(c)
  <2>1. CASE status[c] # "none"
      BY <1>1, <2>1, Same DEF clientVars
  <2>2. CASE status[c] = "none"
    <3>1. proc[c] # "gone"
        BY <1>1, <2>2 DEF Leaving, LeavesWithStatus
    <3>2. down' = [down EXCEPT ![c] = Append(@, h)]
        BY <1>0, <1>c, <1>h, <1>1, <3>1, ResultForwarded DEF Results
    <3>3. Downs(c)' = Downs(c) \cup {h}
      <4>1. FinalsIn(Append(down[c], h), c) =
                FinalsIn(down[c], c) \cup (IF h.type \in Final /\ h.task = c THEN {h} ELSE {})
          BY <1>1, FinalsAppend
      <4> QED
          BY <1>0, <1>1, <3>2, <4>1 DEF Downs
    <3>4. h \in Ups(e, c)
      <4>1. FinalsIn(up[e], c) = FinalsIn(Tail(up[e]), c) \cup (IF h.type \in Final /\ h.task = c THEN {h} ELSE {})
          BY <1>h, <1>1, FinalsTail
      <4> QED
          BY <1>0, <1>1, <4>1 DEF Ups
    <3>5. Finals(c) = {h} /\ Finals(c) = Downs(c) \cup Ups(e, c)
      <4>1. Finals(c) = Downs(c) \cup Ups(e, c) /\ pairedId[c] # None
          BY <1>1 DEF Finals
      <4>2. Finals(c) = {} \/ \E m : Finals(c) = {m}
          BY <4>1, FinalsOne
      <4> QED
          BY <3>4, <4>1, <4>2
    <3>6. pairedId'[c] = e /\ Ups(e, c)' = {}
      <4>1. pairedId'[e] # c /\ pairedId'[c] = e
          BY <1>1, <1>2
      <4> QED
          BY <1>1, <4>1 DEF Strangers
    <3>7. Finals(c)' = {h}
      <4>1. Finals(c)' = (Downs(c) \cup {h}) \cup {}
          BY <3>3, <3>6 DEF Finals
      <4> QED
          BY <3>5, <4>1
    <3> QED
        BY <1>1, <3>5, <3>6, <3>7, Same DEF clientVars
  <2> QED
      BY <2>1, <2>2
<1> QED
    BY <1>1, <1>4, <1>5, Simulates

(* handle_dropped answers for an exec: the task has failed.                *)
LEMMA SimOrphan ==
    ASSUME Given, TypeOK', Strangers', UNCHANGED <<clientVars, execVars, proc>>,
           NEW e \in Execs, RecvDropped(e), Orphans(e), ~RxGone(pairedId[e])
    PROVE  [Service!Next]_Mapped
<1>c. PICK c \in Clients : c = pairedId[e]
    BY DEF Orphans, Given, TypeOK, ServerTypeOK
<1>1. /\ TypeOK /\ Turns /\ Ends /\ LastWord /\ Strangers /\ Leaving
      /\ e \in Remotes /\ c \in Remotes /\ c # None
      /\ pairedId \in [Remotes -> Remotes \cup {None}] /\ pairedId[c] = e
      /\ down \in [Remotes -> Seq(Messages)] /\ down[c] \in Seq(Messages)
      /\ up \in [Remotes -> Seq(Messages)] /\ up[e] \in Seq(Messages)
      /\ \A d \in Clients : d \in Remotes /\ d # e /\ d # None
      /\ \A f \in Execs : f \in Remotes /\ f # c
    BY <1>c, PairFacts
<1>2. /\ Receive(e, "Dropped") /\ UNCHANGED pairedId
      /\ down' = [down EXCEPT ![c] = Append(@, TaskFailed(c))]
    BY <1>c DEF RecvDropped
<1>3. Len(up[e]) = 1 /\ up[e][1].type = "Dropped" /\ up[e] # <<>> /\ up'[e] = <<>>
      /\ \A y \in Remotes \ {e} : up'[y] = up[y]
    BY <1>1, <1>2, KnownDropped, Received DEF Known, Orphans
<1>4. ASSUME NEW d \in Clients \ {c} PROVE TaskOf(d)' = TaskOf(d)
  <2>1. /\ pairedId[e] # d /\ pairedId'[e] # d /\ pairedId'[d] = pairedId[d] /\ down'[d] = down[d]
        /\ status'[d] = status[d] /\ proc'[d] = proc[d]
      BY <1>c, <1>1, <1>2 DEF clientVars
  <2>2. \A f \in Execs \ {e} : /\ up'[f] = up[f] /\ down'[f] = down[f]
                               /\ proc'[f] = proc[f] /\ running'[f] = running[f]
      BY <1>1, <1>2, <1>3 DEF execVars
  <2> QED
      BY <2>1, <2>2, Bystander
<1>5. TaskOf(c)' = TaskOf(c) \/ Allowed(TaskOf(c), TaskOf(c)')
  <2>1. CASE status[c] # "none"
      BY <1>1, <2>1, Same DEF clientVars
  <2>2. CASE status[c] = "none"
    <3>1. proc[c] # "none" /\ pairedId'[c] = e /\ e # None
        BY <1>1, <1>2, RemoteFacts DEF Turns, ClientTurn
    <3>2. Ups(e, c) = {} /\ Ups(e, c)' = {}
      <4>1. \A i \in 1 .. Len(<<>>) : FALSE
          OBVIOUS
      <4>2. FinalsIn(up'[e], c) = {}
          BY <1>3, <4>1, FinalsNone
      <4>3. \A i \in 1 .. Len(up[e]) : ~(up[e][i].type \in Final /\ up[e][i].task = c)
          BY <1>3 DEF Final
      <4>4. FinalsIn(up[e], c) = {}
          BY <4>3, FinalsNone
      <4> QED
          BY <4>2, <4>4 DEF Ups
    <3>3. Downs(c) = {}
      <4>1. ~Answered(c)
          BY <1>c, <1>1, <1>3 DEF LastWord, Silent
      <4> QED
          BY <4>1, FinalsNone DEF Downs, Answered
    <3>4. Downs(c)' = {TaskFailed(c)}
      <4>1. FinalsIn(Append(down[c], TaskFailed(c)), c) = FinalsIn(down[c], c) \cup
                (IF TaskFailed(c).type \in Final /\ TaskFailed(c).task = c THEN {TaskFailed(c)} ELSE {})
          BY <1>1, FinalsAppend, MessageTypes
      <4>2. TaskFailed(c).type \in Final /\ TaskFailed(c).task = c
          BY DEF TaskFailed, Message, Final
      <4> QED
          BY <1>1, <1>2, <3>3, <4>1, <4>2 DEF Downs
    <3>5. Finals(c) = {} /\ Finals(c)' = {TaskFailed(c)}
        BY <1>1, <3>1, <3>2, <3>3, <3>4 DEF Finals
    <3>6. TaskOf(c)' = [phase |-> "ended", result |-> "failed"]
        BY <1>1, <2>2, <3>1, <3>5, NextCases, Outcomes DEF clientVars
    <3>7. TaskOf(c).phase \in {"submitted", "running", "ended"}
        BY <1>1, <2>2, <3>1, WaitingCases
    <3> QED
        BY <3>6, <3>7 DEF Allowed
  <2> QED
      BY <2>1, <2>2
<1> QED
    BY <1>1, <1>4, <1>5, Simulates

(* check_queues starts a task, or finds the exec's channel gone.           *)
LEMMA SimAssign ==
    ASSUME Given, TypeOK', Strangers', UNCHANGED <<clientVars, execVars>>, NEW c \in Clients, Assign(c)
    PROVE  [Service!Next]_Mapped
<1>1. TypeOK /\ Turns /\ Strangers /\ Leaving
    BY DEF Given
<1>2. PICK e \in Execs : e = Head(execQueue)
    BY <1>1, AssignFacts
<1>3. InQueue(e) /\ pairedId[c] = None /\ pairedId[e] = None
    BY <1>1, <1>2, AssignFacts
<1>4. /\ c \in Remotes /\ c # None /\ e \in Remotes /\ e # None /\ c # e
      /\ \A d \in Clients : d \in Remotes /\ d # e /\ d # None
      /\ \A f \in Execs : f \in Remotes /\ f # c
      /\ pairedId \in [Remotes -> Remotes \cup {None}] /\ down \in [Remotes -> Seq(Messages)]
  <2>1. pairedId \in [Remotes -> Remotes \cup {None}] /\ down \in [Remotes -> Seq(Messages)]
      BY <1>1 DEF TypeOK, ServerTypeOK, FabricTypeOK
  <2> QED
      BY <2>1, RemoteFacts
<1>5. /\ UNCHANGED <<proc, up, status, running>> /\ c \in taskQueue
      /\ pairedId' = [pairedId EXCEPT ![c] = e, ![e] = c]
      /\ \A x \in Remotes \ {e} : down'[x] = down[x]
  <2>1. /\ UNCHANGED <<proc, up, status, running>> /\ c \in taskQueue
        /\ pairedId' = [pairedId EXCEPT ![c] = e, ![e] = c]
        /\ (UNCHANGED down \/ down' = [down EXCEPT ![e] = Append(@, TaskMsg(c))])
      BY <1>2, <1>3, <1>4 DEF Assign, clientVars, execVars
  <2> QED
      BY <1>4, <2>1
<1>6. ASSUME NEW d \in Clients \ {c} PROVE TaskOf(d)' = TaskOf(d)
  <2>1. /\ pairedId[e] # d /\ pairedId'[e] # d /\ pairedId'[d] = pairedId[d] /\ down'[d] = down[d]
        /\ status'[d] = status[d] /\ proc'[d] = proc[d]
      BY <1>3, <1>4, <1>5
  <2>2. \A f \in Execs \ {e} : /\ up'[f] = up[f] /\ down'[f] = down[f]
                               /\ proc'[f] = proc[f] /\ running'[f] = running[f]
      BY <1>4, <1>5
  <2> QED
      BY <2>1, <2>2, Bystander
<1>7. TaskOf(c)' = TaskOf(c) \/ Allowed(TaskOf(c), TaskOf(c)')
  <2>1. CASE status[c] # "none"
      BY <1>5, <2>1, Same
  <2>2. CASE status[c] = "none"
    <3>1. proc[c] # "none" /\ down[c] = <<>>
        BY <1>1, <1>3, <1>4, <1>5 DEF Turns, ClientTurn
    <3>2. Downs(c)' = {}
      <4>1. \A i \in 1 .. Len(<<>>) : FALSE
          OBVIOUS
      <4>2. down'[c] = <<>>
          BY <1>4, <1>5, <3>1
      <4>3. FinalsIn(down'[c], c) = {}
          BY <4>1, <4>2, FinalsNone
      <4> QED
          BY <4>3 DEF Downs
    <3>3. Ups(e, c)' = {}
      <4>1. Ups(e, c) = {}
          BY <1>1, <1>3, <1>4 DEF Strangers
      <4> QED
          BY <1>5, <4>1 DEF Ups
    <3>4. pairedId'[c] = e /\ pairedId'[c] # None
        BY <1>4, <1>5
    <3>5. Finals(c)' = {}
        BY <3>2, <3>3, <3>4 DEF Finals
    <3>6. TaskOf(c).phase = "submitted"
        BY <1>3, <2>2, <3>1, WaitingCases
    <3>7. TaskOf(c)' \in {[phase |-> "running", result |-> "none"], [phase |-> "ended", result |-> "failed"]}
        BY <1>5, <2>2, <3>1, <3>4, <3>5, NextCases
    <3> QED
        BY <3>6, <3>7 DEF Allowed
  <2> QED
      BY <2>1, <2>2
<1> QED
    BY <1>6, <1>7, Simulates

LEMMA SimServer ==
    ASSUME Given, TypeOK', Strangers', ServerNext, UNCHANGED <<clientVars, execVars>>
    PROVE  [Service!Next]_Mapped
<1>0. /\ TypeOK /\ Turns /\ Ends /\ UNCHANGED <<status, proc, running>>
      /\ \A d \in Clients : d \in Remotes /\ d \notin Execs /\ d # None
      /\ \A f \in Execs : f \in Remotes /\ f \notin Clients /\ f # None
  <2>1. UNCHANGED proc
      BY DEF ServerNext, HandleMsg, CheckQueues, RecvTask, RecvServant, RecvOutput, RecvDone,
           RecvFailed, RecvFinal, RecvDropped, Receive, Watchdog, Assign, CheckDone, Release,
           ReleaseDone, ReleaseDelayExpires, IdleDelayExpires, Accept
  <2> QED
      BY <2>1, RemoteFacts DEF Given, clientVars, execVars
<1>t. /\ pairedId \in [Remotes -> Remotes \cup {None}] /\ down \in [Remotes -> Seq(Messages)]
      /\ up \in [Remotes -> Seq(Messages)]
    BY <1>0 DEF TypeOK, FabricTypeOK, ServerTypeOK
<1>1. ASSUME down' = down, \A d \in Clients : pairedId'[d] = pairedId[d],
             \A f \in Execs, d \in Clients : Ups(f, d)' = Ups(f, d)
      PROVE  [Service!Next]_Mapped
  <2>1. \A f \in Execs, d \in Clients : Ups(f, d)' = Ups(f, d) /\ (Holds(f, d)' <=> Holds(f, d))
      BY <1>0, <1>1, HoldsKept
  <2>2. \A d \in Clients : /\ proc'[d] = "none" <=> proc[d] = "none"
                           /\ pairedId'[d] = pairedId[d]
                           /\ status[d] = "none" => Downs(d)' = Downs(d)
      BY <1>0, <1>1 DEF Downs
  <2> QED
      BY <1>0, <2>1, <2>2, AllSame
<1>2. ASSUME NEW x \in Remotes, Accept(x) PROVE [Service!Next]_Mapped
  <2>1. down' = down /\ up' = up /\ pairedId' = [pairedId EXCEPT ![x] = None] /\ conn[x] = "backlog"
      BY <1>2 DEF Accept
  <2>2. x \in Clients => pairedId[x] = None
      BY <1>0, <2>1 DEF Turns, ClientTurn
  <2>3. \A d \in Clients : pairedId'[d] = pairedId[d]
      BY <1>0, <1>t, <2>1, <2>2
  <2>4. \A f \in Execs, d \in Clients : Ups(f, d)' = Ups(f, d)
      BY <2>1 DEF Ups
  <2> QED
      BY <1>1, <2>1, <2>3, <2>4
<1>3. ASSUME Watchdog \/ CheckDone \/ ReleaseDone \/ ReleaseDelayExpires \/ IdleDelayExpires
      PROVE  [Service!Next]_Mapped
  <2>1. UNCHANGED <<up, down, pairedId>>
      BY <1>3 DEF Watchdog, CheckDone, ReleaseDone, ReleaseDelayExpires, IdleDelayExpires
  <2>2. \A f \in Execs, d \in Clients : Ups(f, d)' = Ups(f, d)
      BY <2>1 DEF Ups
  <2> QED
      BY <1>1, <2>1, <2>2
<1>4. ASSUME NEW c \in Clients, RecvTask(c) PROVE [Service!Next]_Mapped
  <2>1. UNCHANGED <<down, pairedId>> /\ Receive(c, "Task") /\ "Task" \notin Final
      BY <1>4 DEF RecvTask, Final
  <2>2. \A f \in Execs, d \in Clients : Ups(f, d)' = Ups(f, d)
      BY <1>0, <2>1, UpsKept
  <2> QED
      BY <1>1, <2>1, <2>2
<1>5. ASSUME NEW e \in Execs, RecvServant(e) PROVE [Service!Next]_Mapped
  <2>1. /\ down' = down /\ pairedId' = [pairedId EXCEPT ![e] = None]
        /\ Receive(e, "YourObedientServant")
      BY <1>5 DEF RecvServant, ExecIsReady, Unpair
  <2>2. "YourObedientServant" \notin Final
      BY DEF Final
  <2>3. \A f \in Execs, d \in Clients : Ups(f, d)' = Ups(f, d)
      BY <1>0, <2>1, <2>2, UpsKept
  <2>4. \A d \in Clients : pairedId'[d] = pairedId[d]
      BY <1>0, <1>t, <2>1
  <2> QED
      BY <1>1, <2>1, <2>3, <2>4
<1>6. ASSUME NEW e \in Execs, RecvOutput(e) PROVE [Service!Next]_Mapped
  <2>1. Receive(e, "TaskOutput") /\ "TaskOutput" \in Results /\ "TaskOutput" \notin Final
        /\ UNCHANGED pairedId
      BY <1>6 DEF RecvOutput, Results, Final
  <2>2. /\ pairedId[e] \in Clients /\ pairedId[e] # None /\ Head(up[e]) \in Messages
        /\ Head(up[e]).type = "TaskOutput"
      BY <1>0, <2>1, ResultFacts
  <2>3. down' = down \/ down' = [down EXCEPT ![pairedId[e]] = Append(@, Head(up[e]))]
      BY <1>6, <2>2 DEF RecvOutput, SendToPaired
  <2>4. \A f \in Execs, d \in Clients : Ups(f, d)' = Ups(f, d)
      BY <1>0, <2>1, UpsKept
  <2>5. \A f \in Execs : down'[f] = down[f]
      BY <1>0, <1>t, <2>2, <2>3
  <2>6. ASSUME NEW d \in Clients PROVE Downs(d)' = Downs(d)
    <3>1. CASE down'[d] = down[d]
        BY <3>1 DEF Downs
    <3>2. CASE down'[d] = Append(down[d], Head(up[e]))
      <4>1. FinalsIn(Append(down[d], Head(up[e])), d) = FinalsIn(down[d], d) \cup
                (IF Head(up[e]).type \in Final /\ Head(up[e]).task = d THEN {Head(up[e])} ELSE {})
          BY <1>0, <1>t, <2>2, FinalsAppend
      <4> QED
          BY <2>1, <2>2, <3>2, <4>1 DEF Downs
    <3> QED
        BY <1>0, <1>t, <2>2, <2>3, <3>1, <3>2
  <2>7. \A f \in Execs, d \in Clients : Ups(f, d)' = Ups(f, d) /\ (Holds(f, d)' <=> Holds(f, d))
      BY <1>0, <2>4, <2>5, HoldsKept
  <2> QED
      BY <1>0, <2>1, <2>6, <2>7, AllSame
<1>7. ASSUME NEW e \in Execs, RecvDone(e) \/ RecvFailed(e) PROVE [Service!Next]_Mapped
    BY <1>0, <1>7, SimFinal
<1>8. ASSUME NEW x \in Remotes, RecvDropped(x) PROVE [Service!Next]_Mapped
  <2>1. CASE Orphans(x) /\ ~RxGone(pairedId[x])
    <3>1. x \in Execs
        BY <1>0, <2>1, RemoteFacts DEF Orphans, TypeOK, ServerTypeOK
    <3> QED
        BY <1>0, <1>8, <2>1, <3>1, SimOrphan
  <2>2. CASE ~(Orphans(x) /\ ~RxGone(pairedId[x]))
    <3>1. UNCHANGED <<down, pairedId>> /\ Receive(x, "Dropped") /\ "Dropped" \notin Final
        BY <1>8, <2>2 DEF RecvDropped, Final
    <3>2. \A f \in Execs, d \in Clients : Ups(f, d)' = Ups(f, d)
        BY <1>0, <3>1, UpsKept
    <3> QED
        BY <1>1, <3>1, <3>2
  <2> QED
      BY <2>1, <2>2
<1>9. ASSUME NEW c \in Clients, Assign(c) PROVE [Service!Next]_Mapped
    BY <1>9, SimAssign
<1>10. ASSUME Release PROVE [Service!Next]_Mapped
  <2>1. execQueue # <<>> /\ execQueue' = Tail(execQueue) /\ UNCHANGED <<up, pairedId>>
      BY <1>10 DEF Release, PopExec
  <2>2. PICK e \in Execs : e = Head(execQueue) /\ InQueue(e)
      BY <1>0, <2>1, QueuePopped
  <2>3. pairedId[e] = None /\ pairedId'[e] = None
      BY <1>0, <2>1, <2>2, QueuedExec
  <2>4. down' = down \/ down' = [down EXCEPT ![e] = Append(@, PissOff)]
      BY <1>10, <2>2 DEF Release
  <2>5. \A x \in Remotes \ {e} : down'[x] = down[x]
      BY <1>t, <2>4
  <2>6. \A f \in Execs, d \in Clients : Ups(f, d)' = Ups(f, d) /\ (Holds(f, d)' <=> Holds(f, d))
      BY <1>0, <2>1, <2>3, <2>5, NobodysExec
  <2>7. \A d \in Clients : Downs(d)' = Downs(d)
      BY <1>0, <2>5 DEF Downs
  <2> QED
      BY <1>0, <2>1, <2>6, <2>7, AllSame
<1> QED
    BY <1>2, <1>3, <1>4, <1>5, <1>6, <1>7, <1>8, <1>9, <1>10, RemoteFacts
       DEF ServerNext, HandleMsg, CheckQueues

-----------------------------------------------------------------------------
(* The clients.                                                            *)

(* A client does not move the tasks of others.                             *)
LEMMA OtherClients ==
    ASSUME Given, TypeOK', UNCHANGED <<serverVars, execVars>>, NEW d \in Clients,
           status'[d] = status[d], proc'[d] = proc[d], down'[d] = down[d],
           \A f \in Execs : up'[f] = up[f] /\ down'[f] = down[f] /\ proc'[f] = proc[f]
    PROVE  TaskOf(d)' = TaskOf(d)
<1>1. UNCHANGED <<pairedId, running>>
    BY DEF serverVars, execVars
<1>2. CASE pairedId[d] = None
    BY <1>1, <1>2, Same
<1>3. CASE pairedId[d] # None
  <2>1. pairedId[d] \in Execs
      BY <1>3 DEF Given, Leaving, LeavesWithStatus
  <2>2. Finals(d)' = Finals(d) /\ (Held(d)' <=> Held(d))
      BY <1>1, <2>1 DEF Finals, Held, Holds, Ups, Downs
  <2> QED
      BY <1>1, <2>2, Same
<1> QED
    BY <1>2, <1>3

(* The client reads its answer.                                            *)
LEMMA SimAnswer ==
    ASSUME Given, TypeOK', NEW c \in Clients, ClientFailed(c) \/ ClientDone(c)
    PROVE  Allowed(TaskOf(c), TaskOf(c)')
<1>0. TypeOK /\ Turns /\ FinalIsLast /\ Leaving /\ status \in [Clients -> Statuses] /\ c \in Remotes
    BY RemoteFacts DEF Given, TypeOK, ClientTypeOK
<1>1. PICK type \in Final : ClientRead(c, type)
    BY DEF ClientFailed, ClientDone, Final
<1>2. PICK m \in Messages : m = Head(down[c])
    BY <1>0, <1>1, Heard
<1>3. /\ m.type = type /\ m = down[c][1] /\ 1 \in 1 .. Len(down[c]) /\ down[c] # <<>>
      /\ proc[c] = "waiting" /\ down[c] \in Seq(Messages)
    BY <1>0, <1>1, <1>2, Heard DEF ClientRead
<1>4. m.task = c /\ pairedId[c] # None
    BY <1>0, <1>3 DEF Turns, ClientTurn
<1>5. status[c] = "none"
    BY <1>0, <1>3 DEF Leaving, LeavesWithStatus, FinalIsLast
<1>6. Finals(c) = {m}
  <2>1. m \in Downs(c)
      BY <1>3, <1>4, FinalsMember DEF Downs
  <2>2. Finals(c) = {} \/ \E x : Finals(c) = {x}
      BY <1>4, FinalsOne
  <2> QED
      BY <2>1, <2>2 DEF Finals
<1>7. TaskOf(c) = [phase |-> "ended", result |-> Outcome(m)]
    BY <1>3, <1>4, <1>5, <1>6, WaitingCases
<1>8. status'[c] = Outcome(m) /\ Outcome(m) \in Verdicts
  <2>1. CASE ClientFailed(c)
    <3>1. m.type = "TaskFailed" /\ status' = [status EXCEPT ![c] = "failed"]
        BY <1>2, <2>1 DEF ClientFailed, ClientRead, Exit
    <3> QED
        BY <1>0, <3>1 DEF Outcome, Verdicts
  <2>2. CASE ClientDone(c)
    <3>1. /\ m.type = "TaskDone"
          /\ status' = [status EXCEPT ![c] = IF m.arg = NoCode THEN "signal"
                                             ELSE IF m.arg = 0 THEN "ok" ELSE "err"]
        BY <1>2, <2>2 DEF ClientDone, ClientRead, Exit
    <3>2. Outcome(m) = IF m.arg = NoCode THEN "signal" ELSE IF m.arg = 0 THEN "ok" ELSE "err"
        BY <3>1 DEF Outcome, NoCode
    <3> QED
        BY <1>0, <3>1, <3>2 DEF Verdicts
  <2> QED
      BY <2>1, <2>2
<1>9. TaskOf(c)' = [phase |-> "answered", result |-> Outcome(m)]
    BY <1>8, NextCases
<1> QED
    BY <1>7, <1>9 DEF Allowed

LEMMA SimClient ==
    ASSUME Given, TypeOK', NEW c \in Clients, ClientNext(c), UNCHANGED <<serverVars, execVars>>
    PROVE  [Service!Next]_Mapped
<1>0. /\ TypeOK /\ Turns /\ Leaving /\ FinalIsLast
      /\ \A d \in Clients : d \in Remotes /\ d \notin Execs /\ d # None
      /\ \A f \in Execs : f \in Remotes /\ f \notin Clients /\ f # None
      /\ UNCHANGED pairedId
    BY RemoteFacts DEF Given, serverVars
<1>1. /\ proc \in [Remotes -> {"none", "waiting", "idle", "running", "gone"}]
      /\ up \in [Remotes -> Seq(Messages)] /\ down \in [Remotes -> Seq(Messages)]
      /\ status \in [Clients -> Statuses]
    BY <1>0 DEF TypeOK, FabricTypeOK, ClientTypeOK
<1>2. /\ \A x \in Remotes \ {c} : proc'[x] = proc[x] /\ up'[x] = up[x] /\ down'[x] = down[x]
      /\ \A d \in Clients \ {c} : status'[d] = status[d]
    BY <1>0, <1>1 DEF ClientNext, ClientConnect, Connect, ClientStep, ClientRefused, ClientOutput, ClientFailed,
              ClientDone, ClientEof, ClientRead, KillClient, LoseTail, Exit, clientVars
<1>3. ASSUME NEW d \in Clients \ {c} PROVE TaskOf(d)' = TaskOf(d)
    BY <1>0, <1>2, OtherClients
<1>4. TaskOf(c)' = TaskOf(c) \/ Allowed(TaskOf(c), TaskOf(c)')
  <2>1. ASSUME proc[c] = "none"
        PROVE  TaskOf(c) = [phase |-> "new", result |-> "none"] /\ pairedId[c] = None
    <3>1. status[c] = "none" /\ pairedId[c] = None
        BY <1>0, <2>1 DEF Leaving, LeavesWithStatus, Turns, ClientTurn
    <3> QED
        BY <1>0, <2>1, <3>1, TaskCases
  <2>2. CASE ClientConnect(c)
    <3>1. proc[c] = "none" /\ proc'[c] = "waiting" /\ status'[c] = status[c] /\ status[c] = "none"
        BY <1>0, <1>1, <2>2 DEF ClientConnect, Connect, clientVars, Leaving, LeavesWithStatus
    <3>2. TaskOf(c)' = [phase |-> "submitted", result |-> "none"]
        BY <1>0, <2>1, <3>1, NextCases
    <3> QED
        BY <2>1, <3>1, <3>2 DEF Allowed
  <2>3. CASE ClientRefused(c)
    <3>1. proc[c] = "none" /\ status'[c] = "refused"
        BY <1>1, <2>3 DEF ClientRefused
    <3>2. TaskOf(c)' = [phase |-> "gone", result |-> "none"]
        BY <3>1, NextCases DEF Unanswered
    <3> QED
        BY <2>1, <3>1, <3>2 DEF Allowed
  <2>4. CASE ClientEof(c) \/ KillClient(c)
    <3>1. proc[c] = "waiting" /\ status'[c] \in Unanswered
        BY <1>1, <2>4 DEF ClientEof, KillClient, Exit, Unanswered
    <3>2. TaskOf(c)' = [phase |-> "gone", result |-> "none"]
        BY <3>1, NextCases
    <3>3. status[c] = "none" \/ status[c] = "signal"
        BY <1>0, <3>1 DEF Leaving, LeavesWithStatus
    <3>4. CASE status[c] = "none"
      <4>1. TaskOf(c).phase \in {"submitted", "running", "ended"}
          BY <3>1, <3>4, WaitingCases
      <4> QED
          BY <3>2, <4>1 DEF Allowed
    <3>5. CASE status[c] = "signal"
      <4>1. TaskOf(c) = [phase |-> "answered", result |-> "signal"]
          BY <1>0, <3>5, TaskCases DEF Verdicts
      <4> QED
          BY <3>2, <4>1 DEF Allowed
    <3> QED
        BY <3>3, <3>4, <3>5
  <2>5. CASE ClientOutput(c)
    <3>1. ClientRead(c, "TaskOutput") /\ UNCHANGED <<proc, status, up>>
        BY <2>5 DEF ClientOutput, ClientRead
    <3>2. down[c] # <<>> /\ Head(down[c]).type = "TaskOutput" /\ down'[c] = Tail(down[c])
          /\ down[c] \in Seq(Messages)
        BY <1>0, <1>1, <3>1 DEF ClientRead
    <3>3. Downs(c)' = Downs(c)
      <4>1. FinalsIn(down[c], c) = FinalsIn(Tail(down[c]), c) \cup
               (IF Head(down[c]).type \in Final /\ Head(down[c]).task = c THEN {Head(down[c])} ELSE {})
          BY <3>2, FinalsTail
      <4> QED
          BY <3>2, <4>1 DEF Downs, Final
    <3>4. pairedId[c] # None => Ups(pairedId[c], c)' = Ups(pairedId[c], c) /\ (Held(c)' <=> Held(c))
      <4>1. pairedId[c] # None => pairedId[c] \in Execs /\ pairedId[c] # c
          BY <1>0 DEF Leaving, LeavesWithStatus
      <4> QED
          BY <1>0, <1>2, <3>1, <4>1 DEF Ups, Held, Holds, execVars
    <3>5. pairedId[c] # None => Finals(c)' = Finals(c)
        BY <1>0, <3>3, <3>4 DEF Finals
    <3> QED
        BY <1>0, <3>1, <3>4, <3>5, Same
  <2>6. CASE ClientFailed(c) \/ ClientDone(c)
      BY <2>6, SimAnswer
  <2> QED
      BY <2>2, <2>3, <2>4, <2>5, <2>6 DEF ClientNext, ClientStep
<1> QED
    BY <1>3, <1>4, Simulates

-----------------------------------------------------------------------------
(* The execs and the relay.                                                *)

(* A live exec's task has not been answered yet.                           *)
LEMMA NotYetAnswered ==
    ASSUME Given, NEW e \in Execs, NEW c \in Clients, pairedId[e] = c, proc[e] # "gone"
    PROVE  Downs(c) = {}
<1>1. ~Answered(c)
    BY RemoteFacts DEF Given, LastWord, Silent, Ends, HungUp
<1> QED
    BY <1>1, FinalsNone DEF Answered, Downs

(* What gets lost at an exec is of the task it has.                        *)
LEMMA SimLoss ==
    ASSUME Given, TypeOK', Strangers', UNCHANGED <<serverVars, clientVars>>, NEW e \in Execs,
           up' = up \/ LoseTail(e),
           down'[e] = down[e] \/ down'[e] = <<>> \/ pairedId[e] = None,
           proc'[e] = "running" => proc[e] = "running" /\ running'[e] = running[e],
           \A x \in Remotes \ {e} : proc'[x] = proc[x] /\ down'[x] = down[x],
           \A f \in Execs \ {e} : running'[f] = running[f]
    PROVE  [Service!Next]_Mapped
<1>0. /\ TypeOK /\ UNCHANGED <<pairedId, status>> /\ up \in [Remotes -> Seq(Messages)] /\ e \in Remotes
      /\ up[e] \in Seq(Messages) /\ pairedId[e] \in Clients \cup {None}
      /\ \A d \in Clients : d \in Remotes /\ d # e /\ d # None
      /\ \A f \in Execs : f \in Remotes
    BY RemoteFacts DEF Given, TypeOK, FabricTypeOK, ServerTypeOK, serverVars, clientVars
<1>1. /\ \A x \in Remotes \ {e} : up'[x] = up[x]
      /\ up'[e] = up[e] \/ \E k \in 0 .. Len(up[e]) : up'[e] = SubSeq(up[e], 1, k)
    BY <1>0 DEF LoseTail
<1>2. \A f \in Execs \ {e} : /\ up'[f] = up[f] /\ down'[f] = down[f]
                             /\ proc'[f] = proc[f] /\ running'[f] = running[f]
    BY <1>0, <1>1
<1>3. ASSUME NEW d \in Clients, pairedId[e] # d PROVE TaskOf(d)' = TaskOf(d)
    BY <1>0, <1>2, <1>3, Bystander
<1>4. CASE pairedId[e] = None
    BY <1>0, <1>3, <1>4 DEF Mapped
<1>5. CASE pairedId[e] # None
  <2>1. PICK c \in Clients : c = pairedId[e]
      BY <1>0, <1>5
  <2>2. pairedId[c] = e /\ pairedId'[c] = pairedId[c] /\ pairedId'[c] = e
    <3>1. pairedId[e] = c
        BY <2>1
    <3>2. pairedId[c] = e
        BY <3>1, PairFacts, Zenon
    <3> QED
        BY <1>0, <3>2
  <2>3. Ups(e, c)' \subseteq Ups(e, c)
    <3>1. FinalsIn(up'[e], c) \subseteq FinalsIn(up[e], c)
      <4>1. CASE up'[e] = up[e]
          BY <4>1
      <4>2. ASSUME NEW k \in 0 .. Len(up[e]), up'[e] = SubSeq(up[e], 1, k)
            PROVE  FinalsIn(up'[e], c) \subseteq FinalsIn(up[e], c)
          BY <1>0, <4>2, FinalsPrefix
      <4> QED
          BY <1>1, <4>1, <4>2
    <3> QED
        BY <3>1 DEF Ups
  <2>4. Held(c)' => Held(c)
    <3>1. \A i \in 1 .. Len(<<>>) : FALSE
        OBVIOUS
    <3>2. (\E i \in 1 .. Len(down'[e]) : down'[e][i] = TaskMsg(c)) =>
              \E i \in 1 .. Len(down[e]) : down[e][i] = TaskMsg(c)
      <4>1. CASE down'[e] = down[e]
          BY <4>1
      <4>2. CASE down'[e] = <<>>
          BY <3>1, <4>2
      <4> QED
          BY <1>5, <4>1, <4>2
    <3> QED
        BY <2>2, <3>2 DEF Held, Holds
  <2>5. Downs(c)' = Downs(c) /\ status'[c] = status[c] /\ proc'[c] = proc[c]
      BY <1>0 DEF Downs
  <2>6. TaskOf(c)' = TaskOf(c) \/ Allowed(TaskOf(c), TaskOf(c)')
      BY <2>2, <2>3, <2>4, <2>5, Loss
  <2> QED
      BY <1>3, <2>1, <2>6, Simulates
<1> QED
    BY <1>4, <1>5

(* The exec writes its last word about the task it has.                    *)
LEMMA SimLast ==
    ASSUME Given, TypeOK', Strangers', UNCHANGED <<serverVars, clientVars>>, NEW e \in Execs,
           NEW c \in Clients, pairedId[e] = c, proc[e] # "gone",
           NEW m \in Messages, m.type \in Final, m.task = c, up' = [up EXCEPT ![e] = Append(@, m)],
           \A i \in 1 .. Len(up[e]) : up[e][i].type \notin Final,
           \A x \in Remotes \ {e} : proc'[x] = proc[x] /\ down'[x] = down[x],
           \A f \in Execs \ {e} : running'[f] = running[f],
           Outcome(m) # "failed" => Outcome(m) \in {"ok", "err", "signal"} /\ Holds(e, c)
    PROVE  [Service!Next]_Mapped
<1>0. /\ TypeOK /\ Turns /\ e \in Remotes /\ c \in Remotes /\ c # None
      /\ pairedId \in [Remotes -> Remotes \cup {None}] /\ pairedId[c] = e
      /\ up \in [Remotes -> Seq(Messages)] /\ up[e] \in Seq(Messages)
      /\ \A d \in Clients : d \in Remotes /\ d # e /\ d # None
      /\ \A f \in Execs : f \in Remotes /\ f # c /\ f # None
    BY PairFacts
<1>1. UNCHANGED <<pairedId, status>> /\ \A x \in Remotes \ {e} : up'[x] = up[x]
    BY <1>0 DEF serverVars, clientVars
<1>2. ASSUME NEW d \in Clients \ {c} PROVE TaskOf(d)' = TaskOf(d)
  <2>1. \A f \in Execs \ {e} : /\ up'[f] = up[f] /\ down'[f] = down[f]
                               /\ proc'[f] = proc[f] /\ running'[f] = running[f]
      BY <1>0, <1>1
  <2>2. /\ pairedId[e] # d /\ pairedId'[e] # d /\ pairedId'[d] = pairedId[d] /\ down'[d] = down[d]
        /\ status'[d] = status[d] /\ proc'[d] = proc[d]
      BY <1>0, <1>1
  <2> QED
      BY <2>1, <2>2, Bystander
<1>3. TaskOf(c)' = TaskOf(c) \/ Allowed(TaskOf(c), TaskOf(c)')
  <2>1. CASE status[c] # "none"
      BY <1>1, <2>1, Same
  <2>2. CASE status[c] = "none"
    <3>1. proc[c] # "none" /\ proc'[c] # "none"
        BY <1>0 DEF Turns, ClientTurn
    <3>2. Ups(e, c) = {} /\ Downs(c) = {} /\ Downs(c)' = {}
      <4>1. FinalsIn(up[e], c) = {}
          BY FinalsNone
      <4>2. Downs(c) = {} /\ down'[c] = down[c]
          BY <1>0, NotYetAnswered
      <4> QED
          BY <4>1, <4>2 DEF Ups, Downs
    <3>3. Ups(e, c)' = {m}
      <4>1. FinalsIn(Append(up[e], m), c) =
                FinalsIn(up[e], c) \cup (IF m.type \in Final /\ m.task = c THEN {m} ELSE {})
          BY <1>0, FinalsAppend
      <4> QED
          BY <1>0, <3>2, <4>1 DEF Ups
    <3>4. Finals(c) = {} /\ Finals(c)' = {m} /\ pairedId'[c] # None /\ (Held(c) <=> Holds(e, c))
        BY <1>0, <1>1, <3>2, <3>3 DEF Finals, Held
    <3>5. TaskOf(c)' = [phase |-> "ended", result |-> Outcome(m)]
        BY <1>1, <2>2, <3>1, <3>4, NextCases
    <3>6. TaskOf(c).phase \in {"submitted", "running", "ended"} /\ (Holds(e, c) => TaskOf(c).phase = "running")
        BY <1>0, <2>2, <3>1, <3>4, WaitingCases
    <3> QED
        BY <3>5, <3>6 DEF Allowed
  <2> QED
      BY <2>1, <2>2
<1> QED
    BY <1>2, <1>3, Simulates

LEMMA SimExec ==
    ASSUME Given, TypeOK', Strangers', UNCHANGED <<serverVars, clientVars>>, NEW e \in Execs, ExecNext(e)
    PROVE  [Service!Next]_Mapped
<1>0. /\ TypeOK /\ Turns /\ UNCHANGED <<pairedId, status>> /\ e \in Remotes
      /\ \A d \in Clients : d \in Remotes /\ d # e /\ d # None
      /\ \A f \in Execs : f \in Remotes /\ f # None
    BY RemoteFacts DEF Given, serverVars, clientVars
<1>1. /\ proc \in [Remotes -> {"none", "waiting", "idle", "running", "gone"}]
      /\ up \in [Remotes -> Seq(Messages)] /\ down \in [Remotes -> Seq(Messages)] /\ down[e] \in Seq(Messages)
      /\ running \in [Execs -> Clients \cup {None}] /\ pairedId[e] \in Clients \cup {None}
    BY <1>0 DEF TypeOK, FabricTypeOK, ExecTypeOK, ServerTypeOK
<1>2. /\ \A x \in Remotes \ {e} : proc'[x] = proc[x] /\ down'[x] = down[x] /\ up'[x] = up[x]
      /\ \A f \in Execs \ {e} : running'[f] = running[f]
    BY <1>0, <1>1 DEF ExecNext, ExecConnect, Connect, ExecStep, StartTask, StartFails, ExecRead, SendOutput,
              SendDone, TaskEnds, ExecPissOff, ExecEof, KillExec, ExecLeaves, LoseTail, execVars
<1>a. \A x \in Remotes \ {e} : proc'[x] = proc[x] /\ down'[x] = down[x]
    BY <1>2
<1>b. \A f \in Execs \ {e} : running'[f] = running[f]
    BY <1>2
<1>3. CASE pairedId[e] = None
  <2>1. \A f \in Execs, d \in Clients : Ups(f, d)' = Ups(f, d) /\ (Holds(f, d)' <=> Holds(f, d))
      BY <1>0, <1>2, <1>3, NobodysExec
  <2>2. \A d \in Clients : /\ proc'[d] = "none" <=> proc[d] = "none"
                           /\ pairedId'[d] = pairedId[d]
                           /\ status[d] = "none" => Downs(d)' = Downs(d)
      BY <1>0, <1>2 DEF Downs
  <2> QED
      BY <1>0, <2>1, <2>2, AllSame
<1>4. CASE pairedId[e] # None
  <2>1. PICK c \in Clients : c = pairedId[e]
      BY <1>1, <1>4
  <2>2. CASE ExecConnect(e)
    <3>1. proc[e] = "none"
        BY <2>2 DEF ExecConnect, Connect
    <3>2. pairedId[e] = None
        BY <1>0, <3>1 DEF Turns, ExecPaired
    <3> QED
        BY <1>4, <3>2
  <2>3. CASE SendOutput(e)
    <3>1. UNCHANGED <<proc, down, running>> /\ running[e] \in Clients
          /\ up' = [up EXCEPT ![e] = Append(@, TaskOutput(running[e], sent[running[e]] + 1))]
        BY <1>0, <2>3, UpRunning DEF SendOutput
    <3>2. /\ TaskOutput(running[e], sent[running[e]] + 1) \in Messages
          /\ TaskOutput(running[e], sent[running[e]] + 1).type \notin Final
      <4>1. sent[running[e]] + 1 \in Int
          BY <1>0, <3>1, ExecAssumption DEF TypeOK, ExecTypeOK
      <4> QED
          BY <3>1, <4>1, MessageTypes DEF TaskOutput, Message, Final
    <3>3. \A f \in Execs, d \in Clients : Ups(f, d)' = Ups(f, d)
        BY <1>0, <3>1, <3>2, UpsKept
    <3>4. \A f \in Execs, d \in Clients : Ups(f, d)' = Ups(f, d) /\ (Holds(f, d)' <=> Holds(f, d))
        BY <3>1, <3>3, HoldsKept
    <3>5. \A d \in Clients : /\ proc'[d] = "none" <=> proc[d] = "none"
                             /\ pairedId'[d] = pairedId[d]
                             /\ status[d] = "none" => Downs(d)' = Downs(d)
        BY <1>0, <1>2 DEF Downs
    <3> QED
        BY <1>0, <3>4, <3>5, AllSame
  <2>4. CASE StartTask(e)
    <3>1. /\ ExecRead(e, "Task") /\ UNCHANGED up /\ proc'[e] = "running"
          /\ running'[e] = Head(down[e]).task
        BY <1>0, <1>1, <2>4 DEF StartTask
    <3>2. Head(down[e]).task = c /\ down[e] # <<>> /\ pairedId[e] # None
        BY <1>0, <2>1, <3>1, ReadTask DEF ExecRead
    <3>3. Holds(e, c) /\ Holds(e, c)'
      <4>1. down[e] = <<TaskMsg(c)>>
          BY <1>0, <2>1, <3>2 DEF Turns, ExecDown
      <4>2. 1 \in 1 .. Len(down[e]) /\ down[e][1] = TaskMsg(c)
          BY <4>1
      <4> QED
          BY <3>1, <3>2, <4>2 DEF Holds
    <3>4. ASSUME NEW d \in Clients \ {c} PROVE TaskOf(d)' = TaskOf(d)
        BY <1>0, <1>2, <2>1, Bystander
    <3>5. pairedId[c] = e
        BY <2>1, PairFacts
    <3>6. Finals(c)' = Finals(c) /\ (Held(c)' <=> Held(c)) /\ proc'[c] = proc[c]
        BY <1>0, <1>2, <3>1, <3>3, <3>5 DEF Finals, Held, Ups, Downs
    <3>7. TaskOf(c)' = TaskOf(c)
        BY <1>0, <3>6, Same
    <3> QED
        BY <3>4, <3>7, Simulates
  <2>5. CASE StartFails(e)
    <3>1. /\ ExecRead(e, "Task") /\ proc[e] = "idle"
          /\ up' = [up EXCEPT ![e] = Append(@, TaskFailed(Head(down[e]).task))]
        BY <2>5 DEF StartFails, ExecRead
    <3>2. Head(down[e]).task = c /\ \A i \in 1 .. Len(up[e]) : up[e][i].type = "Dropped"
        BY <1>0, <2>1, <3>1, ReadTask
    <3>3. /\ TaskFailed(c) \in Messages /\ TaskFailed(c).type \in Final /\ TaskFailed(c).task = c
          /\ Outcome(TaskFailed(c)) = "failed"
        BY MessageTypes, Outcomes DEF TaskFailed, Message, Final
    <3>4. \A i \in 1 .. Len(up[e]) : up[e][i].type \notin Final
        BY <3>2 DEF Final
    <3>5. up' = [up EXCEPT ![e] = Append(@, TaskFailed(c))]
        BY <3>1, <3>2
    <3>6. PICK m \in Messages : m = TaskFailed(c)
        BY <3>3
    <3>7. m.type \in Final /\ m.task = c /\ up' = [up EXCEPT ![e] = Append(@, m)]
        BY <3>3, <3>5, <3>6
    <3>8. pairedId[e] = c /\ proc[e] # "gone"
        BY <2>1, <3>1
    <3>9. Outcome(m) # "failed" => Outcome(m) \in {"ok", "err", "signal"} /\ Holds(e, c)
        BY <3>3, <3>6
    <3> QED
        BY <1>a, <1>b, <3>4, <3>7, <3>8, <3>9, SimLast, Zenon
  <2>6. CASE SendDone(e)
    <3>1. proc[e] = "running" /\ \E code \in ExitCodes : up' = [up EXCEPT ![e] = Append(@, TaskDone(running[e], code))]
        BY <2>6 DEF SendDone
    <3>2. running[e] = c /\ \A i \in 1 .. Len(up[e]) : up[e][i].type \notin Final
        BY <1>0, <2>1, <3>1, UpRunning DEF Final
    <3>3. PICK code \in ExitCodes : up' = [up EXCEPT ![e] = Append(@, TaskDone(c, code))]
        BY <3>1, <3>2
    <3>4. code \in Int
        BY <3>3 DEF ExitCodes, NoCode
    <3>5. /\ TaskDone(c, code) \in Messages /\ TaskDone(c, code).type \in Final /\ TaskDone(c, code).task = c
          /\ Outcome(TaskDone(c, code)) \in {"ok", "err", "signal"}
        BY <3>4, MessageTypes, Outcomes DEF TaskDone, Message, Final
    <3>6. Holds(e, c)
        BY <3>1, <3>2 DEF Holds
    <3>7. PICK m \in Messages : m = TaskDone(c, code)
        BY <3>5
    <3>8. /\ m.type \in Final /\ m.task = c /\ Outcome(m) \in {"ok", "err", "signal"}
          /\ up' = [up EXCEPT ![e] = Append(@, m)]
        BY <3>3, <3>5, <3>7
    <3>9. pairedId[e] = c /\ proc[e] # "gone"
        BY <2>1, <3>1
    <3>10. \A i \in 1 .. Len(up[e]) : up[e][i].type \notin Final
        BY <3>2
    <3> QED
        BY <1>a, <1>b, <3>6, <3>8, <3>9, <3>10, SimLast, Zenon
  <2>7. CASE ExecPissOff(e) \/ ExecEof(e) \/ KillExec(e)
    <3>1. /\ proc'[e] = "gone" /\ (up' = up \/ LoseTail(e))
          /\ (down' = down \/ (ExecRead(e, "PissOff") /\ down[e] # <<>> /\ down' = [down EXCEPT ![e] = Tail(@)]))
        BY <1>0, <1>1, <2>7 DEF ExecPissOff, ExecEof, KillExec, ExecLeaves, ExecRead
    <3>2. down'[e] = down[e] \/ down'[e] = <<>>
        BY <1>0, <1>1, <3>1, OneDown
    <3> QED
        BY <1>2, <3>1, <3>2, SimLoss
  <2> QED
      BY <2>2, <2>3, <2>4, <2>5, <2>6, <2>7 DEF ExecNext, ExecStep
<1> QED
    BY <1>3, <1>4

LEMMA SimRelay ==
    ASSUME Given, TypeOK', Strangers', UNCHANGED <<serverVars, clientVars, execVars>>, NEW x \in Remotes,
           ConnEof(x) \/ ConnReturn(x) \/ ConnWriteError(x)
    PROVE  [Service!Next]_Mapped
<1>0. /\ TypeOK /\ UNCHANGED <<pairedId, status, running, proc>>
      /\ down \in [Remotes -> Seq(Messages)] /\ up \in [Remotes -> Seq(Messages)]
      /\ \A d \in Clients : d \in Remotes /\ d \notin Execs /\ d # None
      /\ \A f \in Execs : f \in Remotes /\ f \notin Clients /\ f # None
  <2>1. TypeOK /\ UNCHANGED <<pairedId, status, running>>
      BY DEF Given, serverVars, clientVars, execVars
  <2>2. UNCHANGED proc
      BY DEF ConnEof, ConnReturn, ConnWriteError
  <2> QED
      BY <2>1, <2>2, RemoteFacts DEF TypeOK, FabricTypeOK
<1>1. CASE ConnEof(x)
  <2>1. down' = down /\ up' = [up EXCEPT ![x] = Append(@, Dropped)]
      BY <1>1 DEF ConnEof
  <2>2. Dropped \in Messages /\ Dropped.type \notin Final
      BY MessageTypes DEF Dropped, Message, Final
  <2>3. \A f \in Execs, d \in Clients : Ups(f, d)' = Ups(f, d)
      BY <1>0, <2>1, <2>2, UpsKept
  <2>4. \A f \in Execs, d \in Clients : Ups(f, d)' = Ups(f, d) /\ (Holds(f, d)' <=> Holds(f, d))
      BY <1>0, <2>1, <2>3, HoldsKept
  <2>5. \A d \in Clients : Downs(d)' = Downs(d)
      BY <2>1 DEF Downs
  <2> QED
      BY <1>0, <2>4, <2>5, AllSame
<1>2. ASSUME ConnReturn(x) \/ ConnWriteError(x)
      PROVE  /\ down' = [down EXCEPT ![x] = <<>>] /\ (up' = up \/ LoseTail(x)) /\ proc[x] = "gone"
    BY <1>2 DEF ConnReturn, ConnWriteError, Given, Ends, HungUp
<1>3. CASE (ConnReturn(x) \/ ConnWriteError(x)) /\ x \in Clients
  <2>1. /\ \A f \in Execs : up'[f] = up[f] /\ down'[f] = down[f]
        /\ \A d \in Clients \ {x} : down'[d] = down[d]
      BY <1>0, <1>2, <1>3 DEF LoseTail
  <2>2. status[x] # "none"
      BY <1>2, <1>3 DEF Given, Leaving, LeavesWithStatus
  <2>3. \A f \in Execs, d \in Clients : Ups(f, d)' = Ups(f, d) /\ (Holds(f, d)' <=> Holds(f, d))
      BY <1>0, <2>1 DEF Ups, Holds
  <2>4. \A d \in Clients : status[d] = "none" => Downs(d)' = Downs(d)
      BY <2>1, <2>2 DEF Downs
  <2> QED
      BY <1>0, <2>3, <2>4, AllSame
<1>4. CASE (ConnReturn(x) \/ ConnWriteError(x)) /\ x \in Execs
  <2>1. down'[x] = <<>> /\ \A y \in Remotes \ {x} : down'[y] = down[y]
      BY <1>0, <1>2, <1>4
  <2> QED
      BY <1>0, <1>2, <1>4, <2>1, SimLoss
<1> QED
    BY <1>1, <1>3, <1>4, RemoteFacts

-----------------------------------------------------------------------------
(* Every step of the system is a step of TaskService, or none.             *)
LEMMA Simulation == Given /\ TypeOK' /\ Strangers' /\ [Next]_vars => [Service!Next]_Mapped
<1> SUFFICES ASSUME Given, TypeOK', Strangers', [Next]_vars PROVE [Service!Next]_Mapped
    OBVIOUS
<1>1. ASSUME UNCHANGED <<status, proc, pairedId, up, down, running>> PROVE [Service!Next]_Mapped
  <2>1. \A c \in Clients : TaskInside(c)' = TaskInside(c)
      BY <1>1 DEF TaskInside, Holds
  <2>2. \A c \in Clients : TaskOf(c)' = TaskOf(c)
      BY <1>1, <2>1 DEF TaskOf
  <2> QED
      BY <2>2 DEF Mapped
<1>2. CASE UNCHANGED vars
    BY <1>1, <1>2 DEF vars, serverVars, clientVars, execVars
<1>3. ASSUME NEW q \in Queues, LoseJob(q), UNCHANGED <<serverVars, clientVars, execVars>>
      PROVE  [Service!Next]_Mapped
    BY <1>1, <1>3 DEF LoseJob, serverVars, clientVars, execVars
<1> QED
    BY <1>2, <1>3, SimServer, SimRelay, SimClient, SimExec DEF Next

LEMMA SimulationInit == Init => Service!Init
<1> SUFFICES ASSUME Init, NEW c \in Clients PROVE TaskOf(c) = [phase |-> "new", result |-> "none"]
    BY DEF Service!Init, Service!At
<1>1. status[c] = "none" /\ proc[c] = "none"
    BY RemoteFacts DEF Init, FabricInit, ClientInit
<1> QED
    BY <1>1 DEF TaskOf

(* SprayCC implements TaskService, whatever dies: a task is started at     *)
(* most once, and what its client is told is how that one run of its own   *)
(* task ended, or that it failed.                                          *)
THEOREM Implements == Spec => ImplementsService
<1>1. Init => Service!Init
    BY SimulationInit
<1>2. TypeOK /\ Turns => Strangers
    BY StrangersHold
<1>3. TypeOK /\ Turns /\ Ends /\ LastWord /\ FinalIsLast /\ Leaving /\ Strangers /\ TypeOK' /\ Strangers'
          /\ [Next]_vars => [Service!Next]_Mapped
    BY Simulation DEF Given
<1> QED
    BY <1>1, <1>2, <1>3, TypeCorrect, TurnsCorrect, EndsCorrect, LastWordCorrect, OneAnswer, LeavingCorrect,
       PTL DEF Spec, ImplementsService, Service!Spec, Mapped
=============================================================================
